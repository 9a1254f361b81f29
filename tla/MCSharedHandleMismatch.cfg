SPECIFICATION Spec
CONSTANTS
    t1 = t1
    t2 = t2
    t3 = t3
    b1 = b1
    b2 = b2
    b3 = b3
    b4 = b4
    s1 = s1
    s2 = s2
    NULL = NULL
    Align = 2
    Threads <- MCThreads2
    Bufs <- MCBufs3
    Slabs <- MCSlabs2
    Plans <- MCPlansMismatch
SYMMETRY Symmetry2
INVARIANTS
    InPlaceMismatchRefused
