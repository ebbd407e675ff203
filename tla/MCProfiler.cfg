CONSTANT Times <- MCTimes
SPECIFICATION Spec
INVARIANTS
    ElapsedNonNegative
    ElapsedReadable
