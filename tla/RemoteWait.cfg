CONSTANTS
    t1 = t1
    Client = {t1}
    Kinds = {"wait", "unlock", "sleep", "connect", "action", "try"}
    Seconds = {0, 1, 2}
    Second = 2
    CallLimit = 3
    AnswerLimit = 9
    LastStart = 2
SPECIFICATION FairSpec
INVARIANTS
    SuccessIsFresh
    NotReadyIsJustified
    NotEarly
    Overrun
    RefusedOnlyIfChanged
PROPERTY OperationsEnd
CHECK_DEADLOCK FALSE
