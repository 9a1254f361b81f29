CONSTANT Problems <- MCProblems
SPECIFICATION Spec
INVARIANTS TypeOK EachOnce OwnTwiddles RegionsHaveThreads
\* the execution of a node ends
CHECK_DEADLOCK FALSE
