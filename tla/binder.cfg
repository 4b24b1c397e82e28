SPECIFICATION BothSpec
CONSTANTS
    Texts <- MCTexts
    MaxNesting = 3
INVARIANTS
    FirstInText
    OneDiagnosis
    SameOutcome
