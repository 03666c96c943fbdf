SPECIFICATION Spec
CONSTANTS
    DecDigits = 2
    W128 = 12
    W256 = 18
    ScaleBits = 4
    PrecisionBits = 4
    MaxPrecision128 = 3
    MaxPrecision256 = 5
    Columns <- MCColumns
    StoredValues <- MCStoredValues
    Numerics <- MCNumerics
    MaxRows = 2
    FieldBits = 8
    EpochDays = 20
    EpochMicros = 30
INVARIANTS
    NumericExact
    ValuesExact
    PathsAgree
    RefusedExactly
CHECK_DEADLOCK FALSE
