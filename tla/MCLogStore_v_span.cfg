SPECIFICATION LogSpec
CONSTANTS
    Procs = {c}
    Files = {f, g}
    FileBytes = 5
    WriteSizes = {1, 5}
    ChunkSz = 1
    MemChunks = 12
    SpillChunks = 4
    LogByteBits = 4
    MaxWrites = 3
    MaxUnlinks = 0
INVARIANTS
    DataIntact
CHECK_DEADLOCK FALSE
