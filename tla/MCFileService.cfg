CONSTANTS
    c1 = c1
    c2 = c2
    c3 = c3
    own = own
    other = other
    third = third
    Clients = {c1, c2, c3}
    Servers = {own, other}
    Owner = own
    Home <- TwoAtOther
    Shared = TRUE
    Menu = {"create", "sync", "laminate", "size"}
    Mode = "free"
    Ordered = FALSE
    NBlocks = 1
    MaxOps = 4
SPECIFICATION FilesSpec
CHECK_DEADLOCK FALSE
INVARIANT FreeSyncNotForgotten
INVARIANT FreeAckedAtOwner
PROPERTY LaminationSticks
PROPERTY FreeCallsReturn
PROPERTY SerialConsistent
PROPERTY SettledImplementsAtomicFile
