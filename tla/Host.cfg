CONSTANTS
    Hosts = {"h1", "h2"}
    Timeouts = {0, 1}
    Converter <- MCConverter
    Default = 2
    Texts <- MCTexts
    MaxCalls <- MCMaxCalls
SPECIFICATION Spec
INVARIANTS
    WaitsAsSet
    ModeAsSet
    UnlockedIsTrue
    StreamTyped
CHECK_DEADLOCK FALSE
