SPECIFICATION Spec
CONSTANTS
    Keys = {"a", "b"}
    Databases = 2
    Strings = {}
    Fields = {}
    MaxId = 1
    NoEntry = NoEntry
    NoTtl = NoTtl
    MaxInt = 3
    MaxFloat = 2
    ByteBits = 2
    MaxBytes = 3
    Seqs = 2
    MaxMs = 2
    MaxTime = 1
    MaxLen = 3
    Inputs <- MCInputs
INVARIANT
    LremZeroRemovesAll
