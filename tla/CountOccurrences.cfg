CONSTANTS
    Char = {"E"}
    Charset = {"UTF-8"}
    Iconv = {"UTF-8", "ISO-8859-1"}
    Display = "ISO-8859-1"
    MaxLength = 0
    Bytes <- MCBytes
    Texts <- MCTexts
    Byte <- MCByte
    Code <- MCCode
    Reread <- MCReread
    Cells = 3
    Screens <- MCScreensOfLetters
    Lengths <- MCLengths
    Places = {0}
    Sought <- MCSoughtLetters
    SizeLimit = 3
    MaxChanges = 0
SPECIFICATION CountSpec
PROPERTY CountReturns
CHECK_DEADLOCK FALSE
