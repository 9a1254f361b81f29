SPECIFICATION Spec
CONSTANTS
  Problems <- MCProblems
  Align = 4
  Kernels <- MCKernels
  LargeKernels <- MCLargeKernels
  TwiddleKernels <- MCKernels
  Roots <- MCRoots
INVARIANT TypeOK
INVARIANT Apart
INVARIANT InPool
INVARIANT SizesFit
