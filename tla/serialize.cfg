SPECIFICATION Spec
CONSTANT Documents <- Trees
INVARIANTS
    FillsArray
    ReadsBack
