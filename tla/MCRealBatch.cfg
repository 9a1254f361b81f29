SPECIFICATION FairSpec
CONSTANTS
  x = x
  y = y
  Problems <- MCProblems
  Bufs <- MCBufs
  MaxCalls = 3
INVARIANT TypeOK
INVARIANT FailureTold
INVARIANT VisitsExact
INVARIANT RootKept
INVARIANT OwnBatch
PROPERTY CallReturns
CHECK_DEADLOCK FALSE
