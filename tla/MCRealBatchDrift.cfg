SPECIFICATION Spec
CONSTANTS
  x = x
  y = y
  Problems <- MCProblemsSizeOne
  Bufs <- MCBufs
  MaxCalls = 2
INVARIANT RootKept
CHECK_DEADLOCK FALSE
