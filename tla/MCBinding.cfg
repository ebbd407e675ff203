CONSTANTS
    Names = {n1, n2}
    Types = {t1, t2}
    MaxColumns = 3
SPECIFICATION Spec
SYMMETRY NameSymmetry
INVARIANTS
    TypeOK
    BindingCorrect
