SPECIFICATION Spec
CONSTANTS
    m1 = m1
    m2 = m2
    root = root
    ka = ka
    kb = kb
    Io = Io
    Foreign = Foreign
    Root = root
    Modules <- AllModules
    Programs <- AllPrograms
    AtomicType <- MCAtomicTypes
    AtomicTypes <- MCAtomicTypes
    Keys = {ka, kb}
    Length = 2
    Subtyping <- MCSubtyping
    FillerMemo <- MCFillers
INVARIANTS
    OutcomeRight
    EmittedInOrder
    SymbolsResolved
    TypeTestsDecide
