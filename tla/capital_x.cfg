SPECIFICATION FairSpec
CONSTANTS
    Texts <- CapitalXTexts
    MaxNesting = 1
INVARIANTS
    SameDocument
