SPECIFICATION Spec
CONSTANTS
    k1 = k1 k2 = k2 k3 = k3 k4 = k4 k5 = k5 k6 = k6
    v1 = v1 v2 = v2 v3 = v3
    Keys = {k1, k2, k3, k4}
    Hash <- MCHash4
    Values = {v1, v2, v3}
    FieldNames <- MCRecordFields
    FieldTypes <- MCRecordTypes
    RestType = {}
    Filler = NoFiller
    NoFiller = NoFiller
    UnitBits = 1
    MaxAllocShift = 7
    InitCounts = {2, 3, 4}
    InitialCapacity = 4
    ArrayLengthMax = 5
INVARIANTS
    RequiredInPlace
    MembersTyped
