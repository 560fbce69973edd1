SPECIFICATION Spec
CONSTANTS
    InitialCapacity = 2
    ArrayLengthMax = 3
    Word = 16
    ByteMax = 1
    Values <- AllValues
    ListTypes <- AllLists
    MemberTypes <- AllTypes
    Indices <- FlatIndices
    MaxLists = 3
INVARIANTS MembersTyped FillersNotShared ExactStoresSucceed
PROPERTY ImplementsSequence
