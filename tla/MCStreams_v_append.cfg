\* Bounds: a buffer of two characters, files and offsets of at most four, six
\* calls after which the stream is left alone.
SPECIFICATION ScanSpec
CONSTANTS
    BufSize = 2
    MaxLen = 4
    MaxOps = 6
    MaxFaults = 0
    Chars = {"a", "b", "nl"}
    Chunks <- SomeChunks
    StreamPrograms <- Appends
    Careful = FALSE
    Newline = "nl"
    Widths = {2, 9}
    NoLimit = 9
    Hole = "0"
    NoPos = NoPos
INVARIANT AppendsKept
\* The application may stop calling.
CHECK_DEADLOCK FALSE
