SPECIFICATION Spec
CONSTANTS
    InitialCapacity = 3
    ArrayLengthMax = 4
    Word = 16
    ByteMax = 1
    Values <- FlatValues
    ListTypes <- Closed
    MemberTypes <- FlatTypes
    Indices <- FlatIndices
    MaxLists = 0
INVARIANT ExactStoresSucceed
