---------------------------- MODULE ScreenSearch ----------------------------
(***************************************************************************)
(* Looking for a text on the screen: contains(), find(), count() and       *)
(* compare() of a session (src/src/core/session.cc).  Each reads the       *)
(* screen once, converts what it read to the charset of the application    *)
(* (toString() in src/src/session/get.cc, convertCharset() in              *)
(* src/src/session/remote/session.cc) and works on the bytes of that:      *)
(* places and lengths are bytes, addresses of the screen are characters.   *)
(*                                                                         *)
(* The session and its descriptors of iconv are those of SessionInput.     *)
(* What is read comes in UTF-8 from D-Bus and in its own charset from      *)
(* lib3270.  These, iconv and std::string are external.                    *)
(***************************************************************************)
EXTENDS Integers, FiniteSetsExt, SessionInput

CONSTANTS
    Byte,       \* values of a byte
    Code,       \* Code[s][c]: the bytes of c in charset s, none if s lacks it
    Reread,     \* Reread[b]: UTF-8 of what b is in ISO-8859-1
    Cells,      \* positions of the screen
    Screens,    \* what may be on it
    Lengths,    \* lengths given to compare(), -1 for none
    Places,     \* arguments "pos" and "baddr"
    Sought,     \* texts the application looks for
    SizeLimit,  \* values of a size_t
    MaxChanges  \* bound: changes of the screen

\* ASCII is the same in all charsets.
ASSUME CodeAssumption ==
    /\ Code \in [Known -> [Char -> Seq(Byte)]]
    /\ \A s \in Known, c \in Char : Len(Code[s][c]) = Bytes[c][s]
    /\ Reread \in [Byte -> Seq(Byte)]
    /\ \A c \in Ascii, s \in Known :
        Code[s][c] = Code["UTF-8"][c] /\ Reread[Code[s][c][1]] = Code[s][c]
ASSUME CellsAssumption == Cells \in Nat
ASSUME ScreensAssumption ==
    Screens \subseteq [1..Cells -> {c \in Char : Bytes[c][Display] > 0 /\ Bytes[c]["UTF-8"] > 0}]
ASSUME LengthsAssumption == Lengths \subseteq Nat \cup {-1}
ASSUME PlacesAssumption == Places \subseteq 0..Cells
ASSUME SoughtAssumption == Sought \subseteq Seq(Char)
ASSUME BoundsAssumption == SizeLimit \in Nat \ {0} /\ MaxChanges \in Nat

VARIABLES
    screen,     \* the characters of the terminal
    changes,    \* how often it has changed
    lastFind,   \* key and result of find(), if only compare() came after it on the
                \* same screen (history)
    op          \* the operation in progress, or the last one

searchVars == <<vars, screen, changes, lastFind, op>>

\* std::string::npos
NPos == -1

Nothing == [key |-> <<>>, at |-> NPos]

\* key, at, len: the arguments; contents: what toString() returned; look: the
\* screen it saw (history); result: a place, NPos, or 0 for "equal"; rc: of count()
Idle == [name |-> "none", key |-> <<>>, at |-> 0, len |-> 0, given |-> FALSE, stage |-> "idle",
         contents |-> <<>>, look |-> <<>>, result |-> NPos, rc |-> 0]

Names == {"contains", "find", "count", "compare"}

-----------------------------------------------------------------------------
(* Texts.                                                                  *)

BytesIn(line, charset) == FlattenSeq([i \in DOMAIN line |-> Code[charset][line[i]]])

Lacks(line, charset) == \E i \in DOMAIN line : Code[charset][line[i]] = <<>>

\* The application writes in its own charset; what get() brings is in the host's.
BytesOf(line) == BytesIn(line, mine)
Delivered(line) == BytesIn(line, HostCharset)

\* What the open descriptor makes of that.  It takes what comes from D-Bus for
\* ISO-8859-1, byte by byte, in a session that was not given a charset.
Recoded(line) ==
    IF converter.local.from = HostCharset THEN BytesIn(line, converter.local.to)
    ELSE FlattenSeq([i \in DOMAIN Delivered(line) |-> Reread[Delivered(line)[i]]])

\* The output buffer of convertCharset().
Room(line) == 2 * Len(Delivered(line))

\* It gives up: a character the application's charset lacks, or too many long ones.
Unreadable(line) ==
    /\ converter.local # Closed
    /\ \/ converter.local.from = HostCharset /\ Lacks(line, converter.local.to)
       \/ Len(Recoded(line)) > Room(line)

\* The buffer is full: no zero ends it, and what follows in memory is taken along.
Unterminated(line) ==
    converter.local # Closed /\ line # <<>> /\ Len(Recoded(line)) = Room(line)

\* Wrong: the result is as long as the input was.
ConversionsCut(line) ==
    {SubSeq(out, 1, Min({Len(Delivered(line)), Len(out)})) :
        out \in {IF converter.local = Closed THEN Delivered(line)
                 ELSE IF Unreadable(line) THEN <<>> ELSE Recoded(line)}}

\* What convertFromHost() may make of a text on the screen.
Conversions(line) ==
    IF converter.local = Closed THEN {Delivered(line)}
    ELSE IF Unreadable(line) THEN {<<>>}
    ELSE IF Unterminated(line)
    THEN {Recoded(line) \o garbage : garbage \in {<<>>} \cup {<<b>> : b \in Byte}}
    ELSE {Recoded(line)}

\* Places of s at which key is.
Occurrences(s, key) == {p \in 0..(Len(s) - Len(key)) : SubSeq(s, p + 1, p + Len(key)) = key}

\* s.find(key, pos)
Find(s, key, pos) ==
    LET hits == {p \in Occurrences(s, key) : p >= pos}
    IN  IF hits = {} THEN NPos ELSE Min(hits)

\* s.compare(0, len, key)
Compare(s, key, len) == IF SubSeq(s, 1, Min({len, Len(s)})) = key THEN 0 ELSE 1

-----------------------------------------------------------------------------
(* Operations.                                                             *)

SearchInit ==
    /\ Init
    /\ screen \in Screens
    /\ changes = 0
    /\ lastFind = Nothing
    /\ op = Idle

Busy == op.stage \in {"read", "look"}

\* getInstance() or setCharSet(), with which the application's texts change as well.
Setup ==
    /\ ~ Busy
    /\ (\E k \in {"local", "remote"} : Open(k)) \/ (\E charset \in Charset : SetCharSet(charset))
    /\ op' = Idle
    /\ lastFind' = Nothing
    /\ UNCHANGED <<screen, changes>>

Begin(name, key, pos, len, given) ==
    /\ kind # "none"
    /\ ~ Busy
    /\ op' = [Idle EXCEPT !.name = name, !.key = BytesOf(key), !.at = pos, !.len = len,
                          !.given = given, !.stage = "read"]
    /\ lastFind' = IF name = "compare" THEN lastFind ELSE Nothing
    /\ UNCHANGED <<vars, screen, changes>>

\* The application writes its texts in its own charset.
Writable(key) == ~ Lacks(key, mine)

\* contains(str), find(str, pos), count(str, pos): of the whole screen.
BeginSearch ==
    \E key \in Sought, name \in {"contains", "find", "count"}, pos \in Places \cup {0} :
        /\ Writable(key)
        /\ name = "contains" => pos = 0
        /\ Begin(name, key, pos, Cells, FALSE)

\* Wrong: the length that means "of the text" is passed on.
BeginCompareRaw ==
    \E key \in Sought, baddr \in Places, len \in Lengths :
        Writable(key) /\ Begin("compare", key, baddr, len, len >= 0)

\* Wrong: the zero at the end of the text is counted.
BeginCompareSized ==
    \E key \in Sought, baddr \in Places, len \in Lengths :
        /\ Writable(key)
        /\ Begin("compare", key, baddr, IF len < 0 THEN Len(BytesOf(key)) + 1 ELSE len, len >= 0)

\* compare(baddr, s, len), compare(row, col, s, len); len < 0: the bytes of s.
BeginCompare ==
    \E key \in Sought, baddr \in Places, len \in Lengths :
        /\ Writable(key)
        /\ Begin("compare", key, baddr, IF len < 0 THEN Len(BytesOf(key)) ELSE len, len >= 0)

\* Wrong: the screen is read from pos on.
PartFromPlace ==
    SubSeq(screen, op.at + 1, IF op.name = "compare" THEN Min({op.at + op.len, Cells}) ELSE Cells)

\* The part of the screen that is read: lib3270 may refuse to read over its end.
Part == IF op.name = "compare" THEN SubSeq(screen, op.at + 1, Min({op.at + op.len, Cells}))
                               ELSE screen

Seen(contents) ==
    /\ op' = [op EXCEPT !.stage = "look", !.contents = contents, !.look = screen]
    /\ UNCHANGED <<vars, screen, changes, lastFind>>

\* toString(baddr, len, '\0'): get() and convertFromHost()
Look ==
    /\ op.stage = "read"
    /\ \E contents \in Conversions(Part) : Seen(contents)

\* get() throws: no screen, a place outside of it, a request that fails.
Throw ==
    /\ op.stage = "read"
    /\ op' = [op EXCEPT !.stage = "thrown"]
    /\ UNCHANGED <<vars, screen, changes, lastFind>>

Finish(result) == op' = [op EXCEPT !.stage = "returned", !.result = result]

ReturnFind ==
    /\ op.stage = "look"
    /\ op.name \in {"contains", "find"}
    /\ Finish(Find(op.contents, op.key, op.at))
    /\ lastFind' = IF op.name = "find" /\ op.look = screen
                   THEN [key |-> op.key, at |-> op'.result] ELSE lastFind
    /\ UNCHANGED <<vars, screen, changes>>

ReturnCompare ==
    /\ op.stage = "look"
    /\ op.name = "compare"
    /\ Finish(Compare(op.contents, op.key, op.len))
    /\ UNCHANGED <<vars, screen, changes, lastFind>>

\* while((pos = contents.find(str, pos)) != npos) rc++; the next search begins
\* at the place of the last hit.
CountRound ==
    /\ op.stage = "look"
    /\ op.name = "count"
    /\ LET pos == Find(op.contents, op.key, op.at)
       IN  op' = IF pos = NPos THEN [op EXCEPT !.stage = "returned"]
                 ELSE [op EXCEPT !.at = pos, !.rc = (@ + 1) % SizeLimit]
    /\ UNCHANGED <<vars, screen, changes, lastFind>>

\* The host, the user, other programs.
Change ==
    /\ changes < MaxChanges
    /\ \E s \in Screens \ {screen} : screen' = s
    /\ changes' = changes + 1
    /\ lastFind' = Nothing
    /\ UNCHANGED <<vars, op>>

Operate ==
    \/ BeginSearch
    \/ BeginCompare
    \/ Look
    \/ Throw
    \/ ReturnFind
    \/ ReturnCompare
    \/ CountRound
    \/ Change

SearchNext == Setup \/ Operate

SearchSpec == SearchInit /\ [][SearchNext]_searchVars

\* A thread that is in count() runs.
CountSpec == SearchSpec /\ WF_searchVars(CountRound)

-----------------------------------------------------------------------------
(* Properties.                                                             *)

SearchTypeOK ==
    /\ screen \in Screens
    /\ changes \in 0..MaxChanges
    /\ lastFind.key \in Seq(Byte) /\ lastFind.at \in Nat \cup {NPos}
    /\ op.name \in Names \cup {"none"}
    /\ op.key \in Seq(Byte) /\ op.contents \in Seq(Byte)
    /\ op.at \in Nat /\ op.len \in Nat
    /\ op.stage \in {"idle", "read", "look", "returned", "thrown"}
    /\ op.look \in Screens \cup {<<>>}
    /\ op.result \in Nat \cup {NPos}
    /\ op.rc \in 0..(SizeLimit - 1)

Returned(names) == op.stage = "returned" /\ op.name \in names

\* Does the session read the terminal in the charset the application writes in?  Not if
\* iconv could not be opened, nor on D-Bus before a charset was given.
Agrees ==
    \/ converter.local = [from |-> HostCharset, to |-> mine]
    \/ converter.local = Closed /\ mine = HostCharset

Misread(line) == ~ Agrees /\ \E i \in DOMAIN line : line[i] \notin Ascii

\* find() and contains() never find what is not there: the place is one at which the
\* bytes of the text are on the screen that was read, and not before pos.  They miss
\* nothing, unless the screen has a character that does not convert or too many long
\* ones: one of those anywhere hides every text on the screen.  In a session that does
\* not agree with the application this much is true of screens in ASCII only.
SearchIsTrue ==
    Returned({"find", "contains"}) /\ ~ Misread(op.look) =>
        LET places == {p \in Occurrences(BytesOf(op.look), op.key) : p >= op.at}
        IN  IF op.result = NPos THEN places = {} \/ Unreadable(op.look)
            ELSE op.result \in places \/ Unterminated(op.look)

\* Whether or not the session agrees with the application, on every screen that it can
\* read at all contains() knows whether there is a given text of ASCII: also on D-Bus
\* without a charset, where each byte of a longer character becomes two others.
AsciiIsFound ==
    /\ Returned({"find", "contains"}) /\ op.at = 0
    /\ \A i \in DOMAIN op.key : \E c \in Ascii : Code["UTF-8"][c] = <<op.key[i]>>
    /\ ~ Unreadable(op.look) /\ ~ Unterminated(op.look)
    => (op.result # NPos <=> Occurrences(Delivered(op.look), op.key) # {})

\* An application may take the place that find() returned for an address: compare()
\* then finds the text there, if the screen is the same and no character of it takes
\* more than one byte.
FoundComparesEqual ==
    /\ Returned({"compare"}) /\ ~ op.given /\ op.look = screen
    /\ lastFind # Nothing /\ op.key = lastFind.key /\ op.at = lastFind.at
    /\ \A i \in DOMAIN screen : Bytes[screen[i]][mine] = 1
    /\ ~ Misread(screen)
    => op.result = 0

\* "Get the number of occurrences of a string in the terminal" (session.h:263,
\* core/session.cc:352): a count() that has read the terminal returns it.
CountReturns == op.name = "count" /\ op.stage = "look" ~> op.stage # "look"
=============================================================================
