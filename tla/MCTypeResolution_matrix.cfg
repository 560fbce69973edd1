SPECIFICATION Spec
CHECK_DEADLOCK FALSE
CONSTANTS
    A = A
    B = B
    c = c
    d = d
    fn = fn
    Names <- AllNames
    Programs <- MatrixModules
    IsEmpty <- NoValue
    Height = 5
INVARIANT NoPanic
