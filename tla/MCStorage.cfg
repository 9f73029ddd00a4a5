SPECIFICATION StorageSpec
CONSTANTS
    l1 = l1
    l2 = l2
    MaxOffset = 3
    MaxPos = 2
    Logs = {l1, l2}
    MaxOps = 4
    c1 = c1
    LastByte = 3
    LastPos = 1
    Me = c1
    Neighbours = {}
    MaxEntries = 3
    MaxCalls = 3
    TotalSlots = 8
    ByteBits = 3
    Sizes <- ThreeBitSizes
    Procs = {c}
    Files = {f, g}
    FileBytes = 4
    WriteSizes = {1, 4}
    ChunkSz = 3
    MemChunks = 3
    SpillChunks = 3
    LogByteBits = 2
    MaxWrites = 4
    MaxUnlinks = 2
INVARIANTS
    RepresentsFile
     LocalReadsExact
    NoSharedSlot
    LogSound
PROPERTY TreeAnswers
\* Every part ends when its operations are used up.
CHECK_DEADLOCK FALSE
