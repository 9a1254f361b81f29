SPECIFICATION Spec
CONSTANTS
  MaxCost = 2
  Mishandled = FALSE
  Problems <- MCProblems
INVARIANT TypeOK
INVARIANT NeverMisused
INVARIANT NothingLeaks
INVARIANT ClonesApart
INVARIANT ChainFed
PROPERTY ImplementsCheapest
CHECK_DEADLOCK FALSE
