SPECIFICATION FairSpec
CONSTANTS
  talk = talk
  quiet = quiet
  Targets <- Pair
  Rows <- PairRows
  Loaded <- History
  MaxPending = 2
  MaxBatch = 2
  FailureLimit = 2
  MaxWire = 2
  MaxFaults = 2
INVARIANT TypeOK
INVARIANT UnreadHonest
INVARIANT MarkStands
PROPERTY MarksReach
PROPERTY MarkersHeard
CHECK_DEADLOCK FALSE
