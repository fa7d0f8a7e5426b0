CONSTANTS
    t1 = t1
    t2 = t2
    Client = {t1, t2}
    NoClient = NoClient
    PipeBuffer = 4
    Header = 1
    ArgSizes = {1, 2}
    ReplySizes = {1, 4, 5}
    MaxCalls = 3
SPECIFICATION FairSpec
INVARIANTS
    TypeOK
    ResponseIsOwn
    ThrownIsSettled
    PipeClean
PROPERTIES
    ImplementsChannel
    LockFreed
CHECK_DEADLOCK FALSE
