CONSTANTS
    Thread = {"t1", "t2"}
    Dir = {"home", "other", "install", "long"}
    LongDir = {"long"}
    Missing = {"gone"}
    Keys = 2
    MaxMoves = 2
SPECIFICATION Spec
INVARIANTS
    CwdRestored
    LoadsFromInstall
    LeftAtHomeOrInstall
CHECK_DEADLOCK FALSE
