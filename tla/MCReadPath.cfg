SPECIFICATION ReadsSpec
CONSTANTS
    Threads = {1, 2}
    NServers = 2
    Me = 0
    Calls <- TwoThreads
    MaxReads = 2
    MaxActive = 2
    MaxCalls = 3
    Faults = {"find", "call", "wait", "peer"}
    MaxFaults = 1
INVARIANTS
    
    RightSlot
PROPERTIES
    ReadsEnd
CHECK_DEADLOCK FALSE
