SPECIFICATION FrontEndSpec
CHECK_DEADLOCK FALSE
CONSTANTS
    A = A
    B = B
    c = c
    d = d
    fn = fn
    Names <- AllNames
    Programs <- AllModules
    IsEmpty <- NoValue
    Height = 5
    i1 = i1
    i2 = i2
    s1 = s1
    Values <- ThreeValues
    Bodies <- JoinedBodies
INVARIANTS
    ReadsCurrent
