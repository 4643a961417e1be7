SPECIFICATION FairSpec
CONSTANTS
  MaxQueue = 2
  Timeout = 1
  RecordTTL = 2
  MaxRecords = 3
  Sessions <- Mixed
INVARIANT TypeOK
INVARIANT PartsWhole
INVARIANT OrderKept
INVARIANT NothingLeftBehind
INVARIANT RowsOnce
PROPERTY NoRowVanishes
PROPERTY ImplementsTimeline
PROPERTY HeldToCeiling
PROPERTY NothingParkedIdly
PROPERTY EntriesLeave
