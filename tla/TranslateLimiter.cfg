SPECIFICATION FairSpec
CONSTANTS
  Callers = {c1, c2, c3}
  Wants = {0, 1, 3}
  MaxRetunes = 3
INVARIANT TypeOK
INVARIANT PermitsConserved
INVARIANT NeverWedged
PROPERTY StartsWithinCeiling
PROPERTY ReductionLands
PROPERTY EveryCallerServed
