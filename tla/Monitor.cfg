SPECIFICATION FairSpec
CONSTANTS
  Nicks = {1, 2}
  NoList = NoList
  MaxTargets = 2
  LineSize = 1
  Kept = {{}, {1}, {1, 2}}
  MaxChanges = 2
  MaxEvents = 2
CHECK_DEADLOCK FALSE
INVARIANT TypeOK
INVARIANT ConfirmedCurrent
INVARIANT HonoursUser
INVARIANT PresenceCurrent
PROPERTY Converges
