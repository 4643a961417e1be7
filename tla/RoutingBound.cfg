SPECIFICATION Spec
CONSTANTS
  MaxQueue = 2
  Timeout = 1
  RecordTTL = 2
  MaxRecords = 3
  Sessions <- Long
INVARIANT QueueBounded
