\* Files: three names, two ids, two descriptors, one directory stream, one number for
\* dup and at most two writes; each program bounds other processes and faults.
\* Streams: a buffer of two characters, files and offsets of at most four, five calls
\* after which the stream is left alone, one of them without the server.
SPECIFICATION ClientSpec
CONSTANTS
    None = None
    Paths = {"a", "b", "c"}
    NFids = 2
    NFds = 2
    NDirs = 1
    Numbers = {7}
    MaxWrites = 2
    Programs <- AllPrograms
    BufSize = 2
    MaxLen = 4
    MaxOps = 5
    MaxFaults = 1
    Chars = {"a", "b", "nl"}
    Chunks <- SomeChunks
    StreamPrograms <- AllStreamPrograms
    Careful = TRUE
    Newline = "nl"
    Widths = {2, 9}
    NoLimit = 9
    Hole = "0"
    NoPos = NoPos
    NoReq = NoReq
    MinBlocks = 2
    TransferSetups <- AllTransferSetups
    StageSetups <- MCStageSetups
    FileSetups <- MCFileSetups
INVARIANTS
    FidsAccounted FdsAccounted WritesKept
    FlushIsVisible ScanExact
     
PROPERTIES
    
    
    TransfersEnd
\* The application may stop calling, and an assertion may end it.
CHECK_DEADLOCK FALSE
