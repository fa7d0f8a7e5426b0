---------------------------- MODULE SessionInput ----------------------------
(***************************************************************************)
(* Text on its way from the application to a terminal: the converters of   *)
(* a session (src/src/session/remote/session.cc), what is set with them,   *)
(* and Session::input() (src/src/core/session.cc), which splits a text     *)
(* into pieces to type and commands to execute.  The build is the one with *)
(* iconv, on Linux.                                                        *)
(*                                                                         *)
(* A text is a sequence of characters.  What reaches the terminal is a     *)
(* sequence of keys and of characters, each with the charset it is encoded *)
(* in; iconv appears as convertCharset() uses it, lengths in bytes         *)
(* included.                                                               *)
(***************************************************************************)
EXTENDS Naturals, SequencesExt, ActionNames

CONSTANTS
    Char,       \* characters; "@" and the letters of commands among them
    Charset,    \* charsets that the application may choose
    Bytes,      \* Bytes[c][s]: length of c in charset s, 0 if s lacks it
    Texts,      \* arguments of input()
    Display,    \* lib3270_get_display_charset()
    Iconv       \* charsets that iconv knows

\* The charsets there are.
Known == {"UTF-8", "ISO-8859-1", Display} \cup Charset

ASSUME BytesAssumption == Bytes \in [Char -> [Known -> Nat]]
ASSUME TextsAssumption == Texts \subseteq Seq(Char)

VARIABLES
    kind,       \* of the session: "local", "remote", "none" before it is made
    chosen,     \* has the application ever named its charset?
    mine,       \* charset of the application's texts
    converter,  \* two descriptors: of texts from the host, and of texts to it
    text,       \* argument of the input() in progress, or of the last one
    at,         \* place in it (the pointer of the code)
    status,     \* "idle", "running", "returned", "thrown"
    written     \* what input() has typed and executed

vars == <<kind, chosen, mine, converter, text, at, status, written>>

-----------------------------------------------------------------------------
(* Charsets.                                                               *)

\* A descriptor of iconv; closed, it is (iconv_t)-1, and nothing is converted.
Closed == [from |-> "none", to |-> "none"]
Descriptor == [from : Known, to : Known] \cup {Closed}
NoConverter == [local |-> Closed, host |-> Closed]

Ascii == {c \in Char : \A s \in Known : Bytes[c][s] = 1}

\* A character as it is sent.  ASCII is the same in every charset.
Typed(c, charset) == [key |-> "none", number |-> 0, char |-> c,
                      as |-> IF c \in Ascii THEN "any" ELSE charset]

Encoded(piece, charset) == [i \in DOMAIN piece |-> Typed(piece[i], charset)]

Length(piece, charset) ==
    LET first[n \in 0..Len(piece)] ==
            IF n = 0 THEN 0 ELSE first[n - 1] + Bytes[piece[n]][charset]
    IN  first[Len(piece)]

\* What follows the output buffer in memory.
Garbage == <<[key |-> "none", number |-> 0, char |-> "garbage", as |-> "any"]>>

\* iconv_open(to, from).  It fails for a charset it does not know, and for want of
\* memory; nobody looks, and the descriptor is as good as closed.
Opened(to, from) ==
    {Closed} \cup (IF {to, from} \subseteq Iconv THEN {[from |-> from, to |-> to]} ELSE {})

\* Wrong: the charsets the other way round.
ConvertersSwapped(remote, local) ==
    IF local = remote THEN {NoConverter}
    ELSE [local : Opened(remote, local), host : Opened(local, remote)]

\* Abstract::Session::setCharSet(remote, local): the descriptors it may leave, none
\* if the charsets are equal.
Converters(remote, local) ==
    IF local = remote THEN {NoConverter}
    ELSE [local : Opened(local, remote), host : Opened(remote, local)]

\* What pw3270 expects ("D-Bus calls are always UTF-8"), and lib3270.
HostCharset == IF kind = "remote" THEN "UTF-8" ELSE Display

\* The outcomes of convertToHost(piece, length), piece being the first
\* characters of the C string rest.  Without a converter the length does not
\* count.  A failure of iconv, for a character that the host lacks or for want of
\* room, leaves the result empty; a result that fills the buffer has no end.
Converted(piece, rest) ==
    LET room == 2 * Length(piece, mine)
        charset == converter.host.to
        needed == Length(piece, charset)
    IN  IF piece = <<>> \/ converter.host = Closed THEN {Encoded(rest, mine)}
        ELSE IF (\E i \in DOMAIN piece : Bytes[piece[i]][charset] = 0) \/ needed > room THEN {<<>>}
        ELSE IF needed = room THEN {Encoded(piece, charset), Encoded(piece, charset) \o Garbage}
        ELSE {Encoded(piece, charset)}

-----------------------------------------------------------------------------
(* Commands.                                                               *)

Key(k, n) == <<[key |-> k, number |-> n, char |-> "none", as |-> "any"]>>

PFCodes == <<"1", "2", "3", "4", "5", "6", "7", "8", "9", "a", "b", "c", "d", "e", "f",
             "g", "h", "i", "j", "k", "l", "m", "n", "o">>
PACodes == <<"x", "y", "z">>

\* The codes of KeyboardActions, and the place of each in the enumeration.
KeyboardCodes == <<"E", "F", "N", "C", "D", "R", "<">>
KeyboardPlaces == <<1, 3, 7, 8, 13, 6, 16>>
Place(code) == KeyboardPlaces[CHOOSE i \in DOMAIN KeyboardCodes : KeyboardCodes[i] = code]

\* The keys that the code after the control character stands for; none for the
\* codes with an empty case and for those without any.
Meant(code) ==
    IF code \in ToSet(PFCodes)
    THEN Key("PF", CHOOSE i \in DOMAIN PFCodes : PFCodes[i] = code)
    ELSE IF code \in ToSet(PACodes)
    THEN Key("PA", CHOOSE i \in DOMAIN PACodes : PACodes[i] = code)
    ELSE IF code \in ToSet(KeyboardCodes) THEN Key(KeyboardAction[Place(code)], 0)
    ELSE IF code = "P" THEN Key("print", 0)
    ELSE <<>>

\* The keys that are pushed for it.  A remote session asks for a KeyboardAction by
\* the name in toCharString()'s table, which is shifted; none of the codes is at the
\* joined name or behind the table.
Keys(code) ==
    IF kind = "remote" /\ code \in ToSet(KeyboardCodes) THEN Key(actions[Place(code)], 0)
    ELSE Meant(code)

-----------------------------------------------------------------------------
Init ==
    /\ kind = "none"
    /\ chosen = FALSE
    /\ mine = "UTF-8"
    /\ converter = NoConverter
    /\ text = <<>>
    /\ at = 1
    /\ status = "idle"
    /\ written = <<>>

\* getInstance(id, nullptr): the remote session keeps what the constructor of
\* Abstract::Session sets, the local one asks lib3270 for its charset.
Open(k) ==
    /\ kind = "none"
    /\ kind' = k
    /\ converter' \in Converters(IF k = "remote" THEN "ISO-8859-1" ELSE Display, "UTF-8")
    /\ UNCHANGED <<chosen, mine, text, at, status, written>>

\* setCharSet(charset), also from getInstance(id, charset).
SetCharSet(charset) ==
    /\ kind # "none"
    /\ status = "idle"
    /\ chosen' = TRUE
    /\ mine' = charset
    /\ converter' \in Converters(HostCharset, charset)
    /\ UNCHANGED <<kind, text, at, status, written>>

BeginInput(str) ==
    /\ kind # "none"
    /\ status = "idle"
    /\ text' = str
    /\ status' = "running"
    /\ UNCHANGED <<kind, chosen, mine, converter, at, written>>

Rest == SubSeq(text, at, Len(text))

\* strchr(text, control_char): places of control characters still ahead.
ControlsAhead == {i \in at..Len(text) : text[i] = "@"}
FirstControl == CHOOSE i \in ControlsAhead : \A j \in ControlsAhead : i <= j

\* push(): the text is converted and typed, or lib3270 or pw3270 refuses it.
Push(piece, rest, next) ==
    \/ /\ \E out \in Converted(piece, rest) : written' = written \o out
       /\ at' = next
       /\ UNCHANGED status
    \/ /\ status' = "thrown"
       /\ UNCHANGED <<at, written>>

\* "Insert text": what comes before the next control character.
TypePiece ==
    /\ status = "running"
    /\ ControlsAhead # {}
    /\ FirstControl > at
    /\ Push(SubSeq(text, at, FirstControl - 1), Rest, FirstControl)
    /\ UNCHANGED <<kind, chosen, mine, converter, text>>

\* Wrong: the pointer is left at the code.
CommandStaysAtCode ==
    /\ status = "running"
    /\ ControlsAhead # {}
    /\ FirstControl = at
    /\ at < Len(text)
    /\ written' = written \o Keys(text[at + 1])
    /\ at' = at + 1
    /\ UNCHANGED <<kind, chosen, mine, converter, text, status>>

\* The control character and its code.  print() of a remote session throws, and
\* every key may be refused.
Command ==
    /\ status = "running"
    /\ ControlsAhead # {}
    /\ FirstControl = at
    /\ at < Len(text)
    /\ LET code == text[at + 1] IN
        IF code = "@" THEN Push(<<"@">>, <<"@">>, at + 2)
        ELSE \/ /\ ~ (code = "P" /\ kind = "remote")
                /\ written' = written \o Keys(code)
                /\ at' = at + 2
                /\ UNCHANGED status
             \/ /\ Keys(code) # <<>>
                /\ status' = "thrown"
                /\ UNCHANGED <<at, written>>
    /\ UNCHANGED <<kind, chosen, mine, converter, text>>

\* The control character is the last one.  The pointer goes over the terminating
\* zero: what is found there is typed.
CommandAtEnd ==
    /\ status = "running"
    /\ ControlsAhead # {}
    /\ FirstControl = at
    /\ at = Len(text)
    /\ written' \in {written, written \o Garbage}
    /\ status' = "returned"
    /\ UNCHANGED <<kind, chosen, mine, converter, text, at>>

\* What is left after the last command.
TypeRest ==
    /\ status = "running"
    /\ ControlsAhead = {}
    /\ Rest # <<>>
    /\ Push(Rest, Rest, Len(text) + 1)
    /\ UNCHANGED <<kind, chosen, mine, converter, text>>

Return ==
    /\ status = "running"
    /\ Rest = <<>>
    /\ status' = "returned"
    /\ UNCHANGED <<kind, chosen, mine, converter, text, at, written>>

\* The application goes on.  The variables of input() are gone.
GoOn ==
    /\ status \in {"returned", "thrown"}
    /\ text' = <<>>
    /\ at' = 1
    /\ status' = "idle"
    /\ written' = <<>>
    /\ UNCHANGED <<kind, chosen, mine, converter>>

Next ==
    \/ \E k \in {"local", "remote"} : Open(k)
    \/ \E charset \in Charset : SetCharSet(charset)
    \/ \E str \in Texts : BeginInput(str)
    \/ TypePiece
    \/ Command
    \/ CommandAtEnd
    \/ TypeRest
    \/ Return
    \/ GoOn

Spec == Init /\ [][Next]_vars

-----------------------------------------------------------------------------
(* What the documentation of input() (session.h:116-161) says a text is.   *)

\* The documented codes: as in the code, but for PF18, and the same for every session.
Documented(code) ==
    IF code = "u" THEN Key("PF", 18) ELSE IF code = "i" THEN <<>> ELSE Meant(code)

\* The keys and characters that the last n characters of str stand for, characters
\* in charset.
Meanings(str, charset) ==
    LET last[n \in 0..Len(str)] ==
            IF n = 0 THEN <<>>
            ELSE LET here == Len(str) + 1 - n
                 IN  IF str[here] # "@" THEN <<Typed(str[here], charset)>> \o last[n - 1]
                     ELSE IF n = 1 THEN <<>>
                     ELSE (IF str[here + 1] = "@" THEN <<Typed("@", charset)>>
                           ELSE Documented(str[here + 1])) \o last[n - 2]
    IN  last

\* What input(str) stands for.
Meaning(str, charset) == Meanings(str, charset)[Len(str)]

TypeOK ==
    /\ kind \in {"none", "local", "remote"}
    /\ chosen \in BOOLEAN
    /\ mine \in Known
    /\ converter \in [local : Descriptor, host : Descriptor]
    /\ text \in Texts \cup {<<>>}
    /\ at \in 1..(Len(text) + 1)
    /\ status \in {"idle", "running", "returned", "thrown"}
    /\ \A i \in DOMAIN written : written[i].as \in Known \cup {"any"}

\* A text is safe if the host has all its characters, none of them longer there
\* than what makes the output buffer just fit, if no control character stands before
\* a code on which the documentation and the code differ (in a remote session they
\* do on most KeyboardActions), and if none ends it.
Safe ==
    /\ \A i \in DOMAIN text :
        Bytes[text[i]][HostCharset] \in 1..(2 * Bytes[text[i]][mine] - 1)
    /\ \A i \in 2..Len(text) : text[i - 1] = "@" => Documented(text[i]) = Keys(text[i])
    /\ at = Len(text) => text[at] # "@"

\* With an open converter, at every moment input() has done the first part of
\* what a safe text stands for, each character and each key once and in order;
\* if it returns, it has done all of it.
InputExact ==
    status # "idle" /\ chosen /\ converter.host # Closed /\ Safe =>
        /\ IsPrefix(written, Meaning(text, HostCharset))
        /\ status = "returned" => written = Meaning(text, HostCharset)

\* Once the application has named its charset, whatever is typed is in the charset
\* the other side expects; or, if iconv could not be opened for it, all of it is in
\* the application's own, as it was written.
CharsetAgreed ==
    chosen => \A i \in DOMAIN written :
                  written[i].as \in {"any", IF converter.host = Closed THEN mine ELSE HostCharset}
=============================================================================
