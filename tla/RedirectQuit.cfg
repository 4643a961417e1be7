SPECIFICATION Spec
CONSTANTS
  Nicks = {a, b, c}
  Persons = {p, q}
  NoOne = NoOne
  TTL = 6
  MaxEras = 2
  Timeout = 5
  MaxSends = 2
  MaxClock = 8
SYMMETRY Symm
CHECK_DEADLOCK FALSE
INVARIANT NeverToAStranger
