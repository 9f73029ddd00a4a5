SPECIFICATION ServerSpec
CONSTANTS
    Hosts = {1, 2, 3}
    Setups <- MCSetups
    a = a
    b = b
    Clients = {a, b}
    Creator = a
    MaxCalls = 3
    Jobs <- MCJobs
    t1 = t1
    t2 = t2
    Threads = {t1, t2}
    Plans <- MCPlans
    CACHE_SECONDS = 0
    MaxTime = 2
    MaxChanges = 3
    MaxSize = 1
INVARIANTS
    HandleOwned ServedWhileMounted
    
    AskedIsCurrent LaminatedSize
PROPERTIES
      
    StartEnds
    MetagetsReturn
\* A job ends when the clients have unmounted or the servers are stopped.
CHECK_DEADLOCK FALSE
