CONSTANTS
    a = a
    b = b
    c = c
    Bytes = {a, b, c}
    Patterns <- MCPatterns
    Chunks <- MCChunks
    MaxInput = 5
SPECIFICATION FairWriterSpec
INVARIANTS
    NothingLost
    SecretNeverPrinted
    ChunksDoNotMatter
PROPERTIES
    EverythingPrinted
