CONSTANTS
    MaxQueryCount = 2
    MaxTopK = 2
SPECIFICATION Spec
INVARIANT SliceInBounds
