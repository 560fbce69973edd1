INIT ScalarsInit
NEXT ScalarsNext
CONSTANTS
    MediumMax = 14
    StringMax = 24
    Garbage = {}
    Literals = {}
    Pieces = {}
    Appends = 0
    Precision = 3
    Places = 3
    MaxShift = 3
    IntBits = 7
    Int32Bits = 5
    ImmediateBits = 4
    FloatPlaces = 1
    MaxFloatShift = 5
    kDpSignificandSize = 4
    kDiySignificandSize = 14
    CachedPowers <- MCCachedPowers
    TableDigits = 0
    MaxDigits = 4
    Operands = {}
    Floats = {}
    Programs = {}
    LineNumbers = {}
    PanicCodes = {}
    MAX_PC_COUNT = 4
    MIN_VALUE <- MCMin
    MAX_VALUE = 3
    Types = {}
    Values = {}
    NaN <- MCNaN
    Chars = {}
INVARIANT DiffExact
CHECK_DEADLOCK FALSE
