SPECIFICATION Spec
CONSTANTS
    Tokens <- MCTokens
    Streams <- MCStreams
    Readers = {"client", "iterator"}
    MaxChunk = 16
INVARIANTS
    HeardIsMeant
    NothingLostAtEnd
    FieldsAreTheirBlocks
PROPERTY
    ImplementsWhole
CHECK_DEADLOCK FALSE
