SPECIFICATION DeepSpec
CONSTANTS
    Addresses = {1, 2, 3}
    Keys = {"x", "y"}
    Scalars <- MCScalars
    Heaps <- MCHeapSet
    Roots <- MCRootSet
INVARIANTS
    EqualityCorrect
    PrintedWhole
    OrderAgrees
PROPERTY CallsReturn
CHECK_DEADLOCK FALSE
