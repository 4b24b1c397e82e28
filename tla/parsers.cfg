SPECIFICATION FairSpec
CONSTANTS
    Texts <- AllTexts
    MaxNesting = 1
INVARIANTS
    TypeOK
    InBounds
    NestingBounded
    PlaceAgrees
    SameVerdict
    SameDocument
    EscapesEncoded
PROPERTIES
    Progress
    WritesDocuments
    Termination
