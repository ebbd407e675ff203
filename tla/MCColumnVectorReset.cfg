CONSTANTS
    v1 = v1  v2 = v2  b1 = b1  b2 = b2  i1 = i1  h1 = h1
    Vectors <- MCVectors
    BufIds <- MCBufIds
    InlineVals = {i1}
    HeapVals = {h1}
    VectorSize = 1
    MaxCap = 2
SPECIFICATION Spec
SYMMETRY HandleSymmetry
INVARIANT HeapValuesLive
