CONSTANTS
    Contexts = {c1, c2}
    Stages <- MCStages
    Deps <- MCDeps
    NWorkers = 2
    MaxQueries = 2
    Kinds <- MCKinds

SPECIFICATION Spec
SYMMETRY ContextSymmetry

INVARIANT TypeOK
INVARIANT WorkerConservation
INVARIANT NoPartialResult
