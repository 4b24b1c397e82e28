SPECIFICATION Spec
CONSTANTS
    LimbBits = 3
    MaxLimbs = 5
    FractionBits = 3
    MaxBiased = 15
    Offset = 9
    ScientificBelow = 2
    ScientificFrom = 2
    Units2 = 8
    Units10 = 4
INVARIANTS
    Remainder
    RoundTrips
    Fewest
    Closest
    TenAlone
    TextReadsBack
