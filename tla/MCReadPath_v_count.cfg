SPECIFICATION ReadsSpec
CONSTANTS
    Threads = {1}
    NServers = 2
    Me = 0
    Calls <- OneThread
    MaxReads = 2
    MaxActive = 2
    MaxCalls = 1
    Faults = {"chunk"}
    MaxFaults = 1
INVARIANT CountExact
CHECK_DEADLOCK FALSE
