SPECIFICATION FairSpec
CONSTANTS
  N = 4
  M = 7
  Threads = 3
  Align = 2
  NumCalls = 2
  InPlace = TRUE
INVARIANT TypeOK
INVARIANT ResultExact
INVARIANT FailureKeepsOutput
INVARIANT AlignedKernels
PROPERTY SlotsApart
PROPERTY CallsEnd
CHECK_DEADLOCK FALSE
