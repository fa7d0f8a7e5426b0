CONSTANTS
    ScreenLength = 4
    Layouts <- MCLayouts
    TextLengths = {0, 1, 2, 4}
    MaxChanges = 2
SPECIFICATION Spec
INVARIANTS
    PopReadsItsField
    AnswerIsTrue
    ThrowsForReason
    TypedInField
CHECK_DEADLOCK FALSE
