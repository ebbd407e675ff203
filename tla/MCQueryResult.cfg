CONSTANTS
    ColumnNames = {a, b}
    Blocks = {k1, k2}
    MaxColumns = 3
    MaxBlocks = 2
SPECIFICATION Spec
SYMMETRY PieceSymmetry
INVARIANT
    RenderingCorrect
