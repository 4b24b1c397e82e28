SPECIFICATION FairSpec
CONSTANTS
    Spellings <- IntegerSpellings
    FloatSpellings <- DoubleSpellings
    LongBits = 8
    IntBits = 6
    TargetBits = 7
    FractionBits = 3
    MaxBiased = 15
    Offset = 9
    LongPrecision = 8
INVARIANTS
    NumbersTypeOK
    OnlyDigits
    ShortNumbersTruncate
    SameInteger
    Neighbours
    SameDouble
PROPERTIES
    ConversionReturns
