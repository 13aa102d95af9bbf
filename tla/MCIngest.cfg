\* Chunks of at most 6 characters, 2 of them overlap; batches of 2 chunks.
SPECIFICATION IngestSpec
CONSTANTS
    Limit = 6
    Overlap = 2
    Sep = 1
    BatchSize = 2
    Document <- MCDocument
INVARIANTS
    IngestTypeOK
    NoTextLost
    ChunkSizeBounded
    VectorsFitChunks
    StoredIsPrefix
    CompleteIsStored
PROPERTIES
    IngestEnds
CHECK_DEADLOCK FALSE
