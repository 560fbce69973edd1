SPECIFICATION Spec
CONSTANTS
    list = list
    mapping = mapping
    function = function
    bytes = bytes
    ints = ints
    fn = fn
    other = other
    nil = nil
    x = x
    y = y
    none = none
    o1 = o1
    o2 = o2
    o3 = o3
    r1 = r1
    r2 = r2
    Kinds <- TheKinds
    Structures <- TheStructures
    ShapesOf <- TheShapesOf
    OtherShapes <- NilShapes
    Keys <- Fields
    MemberShape <- TheMemberShape
    Inherent <- TheInherent
    RestTypes <- TheRestTypes
    StaticTypes <- TheStaticTypes
    Objs <- TheObjs
    NoObj = none
    Regs <- TheRegs
    WideReturns = FALSE
    WideRestArgs = FALSE
INVARIANTS
    RegistersExact
    MembersExact
    Sound
    ExactStoresSucceed
SYMMETRY Symmetry
