CONSTANTS
    Char = {"@", "i", "E", "N", "P", "cedilla", "euro"}
    Charset = {"UTF-8", "ISO-8859-1", "CP1252", "KOI-7"}
    Iconv = {"UTF-8", "ISO-8859-1", "CP1252"}
    Display = "CP1252"
    MaxLength = 3
    Bytes <- MCBytes
    Texts <- MCTexts
    Byte <- MCByte
    Code <- MCCode
    Reread <- MCReread
    Cells = 3
    Screens <- MCScreens
    Lengths <- MCLengths
    Places = {0, 1, 3}
    Sought <- MCSought
    SizeLimit = 3
    MaxChanges = 1
SPECIFICATION TextSpec
INVARIANTS
    InputExact
    CharsetAgreed
    SearchTypeOK
    SearchIsTrue
    AsciiIsFound
    FoundComparesEqual
CHECK_DEADLOCK FALSE
