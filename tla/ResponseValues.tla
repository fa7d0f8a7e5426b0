--------------------------- MODULE ResponseValues ---------------------------
(***************************************************************************)
(* What an operation gets out of the response to its request: the pop()s   *)
(* of both transports (src/src/session/remote/linux/request.cc,            *)
(* windows/pop.cc), one after the other on one response, and               *)
(* getCursorPosition(), which takes two values from it.                    *)
(*                                                                         *)
(* A response is a sequence of typed arguments.  D-Bus keeps a place among *)
(* them; the pipe keeps an offset in a block of bytes.  Integers have      *)
(* their widths, scaled down; the value of a string is its length.         *)
(***************************************************************************)
EXTENDS Integers, Sequences

CONSTANTS
    Short, Word, Long,  \* bits of the three widths of integers
    Responses           \* what pw3270 may answer, apart from the transport

ASSUME WidthAssumption ==
    Short \in Nat \ {0} /\ Word \in Nat /\ Long \in Nat /\ Short < Word /\ Word < Long

\* 2 ^ bits, as a function: the provers do not know powers.
TwoTo[bits \in 0..Long] == IF bits = 0 THEN 1 ELSE 2 * TwoTo[bits - 1]

Signed(bits) == (- TwoTo[bits - 1]) .. (TwoTo[bits - 1] - 1)
Unsigned(bits) == 0 .. (TwoTo[bits] - 1)

\* The types of arguments: their values, and their bytes in a block of the pipe.
Values == [bool |-> {0, 1}, int16 |-> Signed(Short), uint16 |-> Unsigned(Short),
           int32 |-> Signed(Word), uint32 |-> Unsigned(Word),
           int64 |-> Signed(Long), uint64 |-> Unsigned(Long), string |-> Nat]

Size(argument) ==
    CASE argument.type = "bool" -> 1
      [] argument.type \in {"int16", "uint16"} -> 2
      [] argument.type \in {"int32", "uint32"} -> 4
      [] argument.type \in {"int64", "uint64"} -> 8
      [] argument.type = "string" -> argument.value + 1

\* An argument is of one of the types, and in its range.
ASSUME ResponsesAssumption ==
    Responses \subseteq
        Seq({argument \in [type : DOMAIN Values, value : Int, variant : BOOLEAN] :
                 argument.value \in Values[argument.type]})

VARIABLES
    transport,  \* "dbus", "pipe"; "none" before the response
    response,   \* its arguments: [type, value, variant]
    place,      \* number of the next argument (D-Bus), its offset (pipe)
    got,        \* what has been popped, and as what
    reading,    \* "reading", "thrown", "cursor"
    cursor      \* what getCursorPosition() returns

popVars == <<transport, response, place, got, reading, cursor>>

Kinds == {"string", "int", "unsigned", "bool"}

-----------------------------------------------------------------------------
(* D-Bus.                                                                  *)

\* The types each pop() takes, as an argument and as what a variant holds.
DBusString == [plain |-> {"string"}, variant |-> {"string"}]
DBusInt == [plain |-> {"int32", "int16", "uint32"}, variant |-> {"int32", "uint32", "int16"}]
DBusUnsigned == [plain |-> {"uint32", "uint16"},
                 variant |-> {"uint32", "uint16", "int16", "int32", "bool"}]
DBusBool == [plain |-> {"uint32", "uint16", "bool"}, variant |-> {"uint32", "uint16", "bool"}]

DBusTypes == [string |-> DBusString, int |-> DBusInt, unsigned |-> DBusUnsigned,
              bool |-> DBusBool]

\* Wrong: pop(std::string &) does not go on either.
DBusNextNever(kind) == place

\* dbus_message_iter_next(): only pop(std::string &) goes on to the next one.
DBusNext(kind) == IF kind = "string" /\ place <= Len(response) THEN place + 1 ELSE place

-----------------------------------------------------------------------------
(* The pipe.                                                               *)

PipeInt == {"uint16", "int16", "int32", "int64"}
PipeUnsigned == {"int16", "uint16", "uint32", "uint64"}
PipeBool == {"bool", "uint16", "uint32", "uint64"}

PipeTypes == [string |-> {"string"}, int |-> PipeInt, unsigned |-> PipeUnsigned,
              bool |-> PipeBool]

\* Offset of an argument: a byte for the type of each before it, and its value.
Offset(i) ==
    LET after[n \in 0..Len(response)] ==
            IF n = 0 THEN 0 ELSE after[n - 1] + 1 + Size(response[n])
    IN  after[i - 1]

\* Wrong: the byte of the type is not counted.
PipeNextWithoutType(argument) == place + Size(argument)

\* in.current, after a value was popped.
PipeNext(argument) == place + 1 + Size(argument)

-----------------------------------------------------------------------------
PopInit ==
    /\ transport = "none"
    /\ response = <<>>
    /\ place = 0
    /\ got = <<>>
    /\ reading = "reading"
    /\ cursor = <<>>

\* call() has returned.  Only D-Bus has variants, each with one value.
Receive(t, arguments) ==
    /\ transport = "none"
    /\ t = "pipe" => \A i \in DOMAIN arguments : ~ arguments[i].variant
    /\ transport' = t
    /\ response' = arguments
    /\ place' = IF t = "dbus" THEN 1 ELSE 0
    /\ UNCHANGED <<got, reading, cursor>>

\* Wrong: a wider integer is taken as it is.
AsWide(kind, value) == IF kind = "bool" /\ value # 0 THEN 1 ELSE value

\* A value as the 32 bits of an int, of an unsigned int, and as a bool.
As(kind, value) ==
    CASE kind = "int" -> ((value + TwoTo[Word - 1]) % TwoTo[Word]) - TwoTo[Word - 1]
      [] kind = "unsigned" -> value % TwoTo[Word]
      [] kind = "bool" -> IF value # 0 THEN 1 ELSE 0
      [] kind = "string" -> value

Popped(kind, value) == got' = Append(got, [kind |-> kind, value |-> As(kind, value)])

PopThrow == reading' = "thrown" /\ UNCHANGED <<place, got>>

\* The value that a pop() finds in an argument of D-Bus, in a set; none if it
\* throws.  A variant without a string is an empty string.
DBusValue(kind, argument) ==
    LET types == DBusTypes[kind]
    IN  IF argument.type \in (IF argument.variant THEN types.variant ELSE types.plain)
        THEN {argument.value}
        ELSE IF kind = "string" /\ argument.variant THEN {0} ELSE {}

\* A pop() on a D-Bus message.
DBusPop(kind) ==
    LET found == IF place > Len(response) THEN {} ELSE DBusValue(kind, response[place])
    IN  \/ found = {} /\ PopThrow
        \/ /\ \E value \in found : Popped(kind, value)
           /\ place' = DBusNext(kind)
           /\ UNCHANGED reading

\* getNextBlock() throws at the end of what was read.
PipeAtEnd == place + 1 >= Offset(Len(response) + 1)

\* A pop() on a block of the pipe.  An offset that is not the one of an argument
\* finds a block of any type there.
PipePop(kind) ==
    LET here == {i \in DOMAIN response : Offset(i) = place}
    IN  \/ PipeAtEnd /\ PopThrow
        \/ /\ ~ PipeAtEnd
           /\ \E i \in (IF here = {} THEN DOMAIN response ELSE here) :
               IF response[i].type \in PipeTypes[kind]
               THEN /\ Popped(kind, response[i].value)
                    /\ place' = PipeNext(response[i])
                    /\ UNCHANGED reading
               ELSE PopThrow

Pop(kind) ==
    /\ reading = "reading"
    /\ \/ transport = "dbus" /\ DBusPop(kind)
       \/ transport = "pipe" /\ PipePop(kind)
    /\ UNCHANGED <<transport, response, cursor>>

\* pop(row, col): the first value is taken by reference, the rest by value, so
\* that col stays what it was.
GetCursorPosition ==
    /\ reading = "reading"
    /\ Len(got) = 2
    /\ \A i \in 1..2 : got[i].kind = "unsigned"
    /\ reading' = "cursor"
    /\ cursor' = <<got[1].value, 0>>
    /\ UNCHANGED <<transport, response, place, got>>

\* At most as many values as there are arguments are popped here, and one more.
PopNext ==
    \/ \E t \in {"dbus", "pipe"}, arguments \in Responses : Receive(t, arguments)
    \/ \E kind \in Kinds : Len(got) <= Len(response) /\ Pop(kind)
    \/ GetCursorPosition

PopSpec == PopInit /\ [][PopNext]_popVars

-----------------------------------------------------------------------------
(* Properties.                                                             *)

PopTypeOK ==
    /\ transport \in {"none", "dbus", "pipe"}
    /\ response \in Responses \cup {<<>>}
    /\ place \in Nat
    /\ transport = "dbus" => place \in 1..(Len(response) + 1)
    /\ \A i \in DOMAIN got :
        /\ got[i].kind \in Kinds
        /\ got[i].kind = "int" => got[i].value \in Signed(Word)
        /\ got[i].kind = "unsigned" => got[i].value \in Unsigned(Word)
    /\ reading \in {"reading", "thrown", "cursor"}

\* Can the kind of pop() represent the argument?
Fits(kind, argument) ==
    CASE kind = "int" -> argument.value \in Signed(Word)
      [] kind = "unsigned" -> argument.value \in Unsigned(Word)
      [] kind = "bool" -> TRUE
      [] kind = "string" -> argument.type = "string"

\* The values popped are those of the response, in its order and each once, if
\* they fit: on a pipe all of them, on D-Bus those up to the first one after
\* which pop() stays where it is.
ReadInOrder ==
    \A i \in DOMAIN got :
        transport = "pipe" \/ (\A j \in 1..(i - 1) : got[j].kind = "string") =>
            /\ i <= Len(response)
            /\ Fits(got[i].kind, response[i]) =>
                got[i].value = IF got[i].kind = "bool" THEN (IF response[i].value = 0 THEN 0 ELSE 1)
                               ELSE response[i].value

\* On a pipe the offset is always the one of an argument, or the end: no pop()
\* takes the inside of one value for another.
OnArgument ==
    transport = "pipe" => \E i \in 1..(Len(response) + 1) : place = Offset(i)

\* "Get cursor position" (session.h:195): the row and the column that pw3270 has
\* answered.
CursorReported ==
    /\ reading = "cursor" /\ Len(response) = 2
    /\ \A i \in DOMAIN response : response[i].type = "uint32" /\ ~ response[i].variant
    => cursor = <<response[1].value, response[2].value>>
=============================================================================
