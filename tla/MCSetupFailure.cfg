SPECIFICATION Spec
CONSTANTS
  MaxCost = 2
  Mishandled = TRUE
  Problems <- MCProblems
INVARIANT TwiddlesReadAPlan
CHECK_DEADLOCK FALSE
