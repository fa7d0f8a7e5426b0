CONSTANTS
    t1 = t1
    t2 = t2
    Client = {t1, t2}
    CallLimit = 2
    MaxCalls = 3
SPECIFICATION FairSpec
INVARIANTS
    ResponseIsOwn
    AnsweredRanOnce
PROPERTIES
    ImplementsChannel
    CallsEnd
CHECK_DEADLOCK FALSE
