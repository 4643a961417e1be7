SPECIFICATION FairSpec
CONSTANTS
  PageSize = 2
  LocalPage = 2
  PinnedCap = 5
  Skipped <- Events
  Logs <- Earlier
  StartRows = 5
  MaxRows = 7
  Faults = {"drop", "cut"}
  MaxFaults = 2
INVARIANT TypeOK
INVARIANT ScrollbackWhole
INVARIANT GapFilled
PROPERTY ReachesStart
\* A client at the top of a full window, with the bounds of the model spent,
\* has nothing left to do.
CHECK_DEADLOCK FALSE
