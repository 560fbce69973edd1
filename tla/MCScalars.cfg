INIT ScalarsInit
NEXT ScalarsNext
CONSTANTS
    MediumMax = 14
    StringMax = 24
    Garbage = {0, 255}
    Literals <- MCLiterals
    Pieces <- MCPieces
    Appends = 2
    Precision = 3
    Places = 3
    MaxShift = 3
    IntBits = 7
    Int32Bits = 5
    ImmediateBits = 4
    FloatPlaces = 1
    MaxFloatShift = 5
    kDpSignificandSize = 4
    kDiySignificandSize = 14
    CachedPowers <- MCCachedPowers
    TableDigits = 0
    MaxDigits = 4
    Operands <- MCOperands
    Floats <- MCFloats
    Programs <- MCPrograms
    LineNumbers = {0, 300}
    PanicCodes = {12}
    MAX_PC_COUNT = 4
    MIN_VALUE <- MCMin
    MAX_VALUE = 3
    Types <- MCTypes
    Values <- MCValues
    NaN <- MCNaN
    Chars = {1, 4}
INVARIANTS
    StringIsText
    StringOrder
    DecimalsRight
    ConversionsRight
    BacktraceFaithful
    NamesShown
    IntTypesExact
    TestExact
CHECK_DEADLOCK FALSE
