CONSTANTS
    Contexts = {c1, c2}
    Stages <- MCStages
    Deps <- MCDeps
    NWorkers = 2
    MaxQueries = 1
    Kinds <- MCKinds

SPECIFICATION FairSpec

PROPERTY QueryReturns
