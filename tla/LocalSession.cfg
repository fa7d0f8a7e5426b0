CONSTANTS
    t1 = t1
    t2 = t2
    s1 = s1
    s2 = s2
    h1 = h1
    h2 = h2
    NoThread = NoThread
    Thread = {t1, t2}
    Session = {s1, s2}
    Local = {s1}
    HandleOf <- MCOwnHandles
    Timeouts = {0, 5}
SPECIFICATION FairSpec
INVARIANTS
    Serialized
    HandleLive
    OnlyWantedWaits
PROPERTY MutexFreed
