CONSTANTS
    Short = 2
    Word = 3
    Long = 4
    Responses <- MCResponses
SPECIFICATION PopSpec
INVARIANTS
    PopTypeOK
    ReadInOrder
    OnArgument
CHECK_DEADLOCK FALSE
