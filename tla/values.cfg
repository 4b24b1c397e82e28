SPECIFICATION ValuesSpec
CONSTANTS
    Nodes <- MCNodes
    Documents <- MCDocuments
    Keys = {"a", "b", "c"}
    Indices = {0, 1, 2}
    LiteralNull = "null"
    Values <- ComparedValues
    Depth <- ComparedDepth
    Exact = 8
INVARIANTS
    SameElement
    Brackets
    Equivalence
