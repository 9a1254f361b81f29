SPECIFICATION Spec
CONSTANTS
  Problems <- MCStrided
  Align = 4
  Kernels <- MCKernels
  LargeKernels <- MCLargeKernels
  TwiddleKernels <- MCKernels
  Roots <- MCRoots
INVARIANT InPool
