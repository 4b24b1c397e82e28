SPECIFICATION FairSpec
CONSTANTS
    Sources <- Texts
    Documents <- ZeroDocuments
    Chunk = 2
    MaxCalls = 2
INVARIANTS
    FilledOnFailure
