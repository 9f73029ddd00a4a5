CONSTANTS
    N = 5
    K = 2
    Kind = "gather"
    MaxFaults = 2
    CanTimeout = TRUE
    Gfids = {0, 1, 6}
    MaxEdits = 1
SPECIFICATION GroupSpec
CHECK_DEADLOCK FALSE
INVARIANT SuccessCoversChildren
INVARIANT NoUseAfterFree
PROPERTY CallerReturns
PROPERTY AsyncRunsEverywhere
INVARIANT ListExact
