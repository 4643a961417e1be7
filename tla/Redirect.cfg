SPECIFICATION Spec
CONSTANTS
  Nicks = {a, b, c}
  Persons = {p, q}
  NoOne = NoOne
  TTL = 5
  MaxEras = 2
  Timeout = 4
  MaxSends = 2
  MaxClock = 8
SYMMETRY Symm
INVARIANT TypeOK
INVARIANT RenamesFollowed
INVARIANT ErasDisjoint
CHECK_DEADLOCK FALSE
