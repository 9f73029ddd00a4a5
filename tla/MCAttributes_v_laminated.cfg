SPECIFICATION AttrSpec
CONSTANTS
    t1 = t1
    Threads = {t1}
    Plans <- Lookup
    CACHE_SECONDS = 0
    MaxTime = 2
    MaxChanges = 3
    MaxSize = 1
INVARIANT LaminatedFinal
CHECK_DEADLOCK FALSE
