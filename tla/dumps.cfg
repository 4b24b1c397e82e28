SPECIFICATION Spec
CONSTANTS
    Calls <- AllCalls
    Families <- UnorderedFamilies
    IntegerBits = 4
INVARIANTS
    ReadsBack
    Layout
    Deterministic
    PartsApart
    AsciiOnly
