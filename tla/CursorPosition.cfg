CONSTANTS
    Short = 2
    Word = 3
    Long = 4
    Responses <- MCResponses
SPECIFICATION PopSpec
INVARIANT CursorReported
CHECK_DEADLOCK FALSE
