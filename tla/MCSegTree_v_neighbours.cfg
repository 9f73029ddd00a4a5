SPECIFICATION SegSpec
CONSTANTS
    c1 = c1
    c2 = c2
    Me = c1
    Neighbours = {c2}
    LastByte = 3
    LastPos = 1
    MaxEntries = 3
    MaxCalls = 4
INVARIANT LocalReadsExact
CHECK_DEADLOCK FALSE
