---------------------------- MODULE ScreenAccess ----------------------------
(***************************************************************************)
(* What an application does with the screen through a session: cursor,     *)
(* fields, contents (src/src/session/get.cc, set.cc, local/field.cc,       *)
(* local/get.cc, remote/get.cc, include/lib3270/ipc/field.h).              *)
(*                                                                         *)
(* Reading the field under the cursor takes three looks at the terminal:   *)
(* the cursor, the bounds, the text.  A Field keeps bounds for later.      *)
(* Local operations know of some failures from errno alone.                *)
(*                                                                         *)
(* lib3270, the host and pw3270 are external.  The screen has fields, each *)
(* after an attribute; texts are their lengths, one byte a character.      *)
(***************************************************************************)
EXTENDS Integers, FiniteSetsExt

CONSTANTS
    ScreenLength,  \* positions of the screen
    Layouts,       \* places that attributes may have
    TextLengths,   \* lengths of the texts set
    MaxChanges     \* bound: changes of the terminal that are not the application's

ASSUME LengthAssumption == ScreenLength \in Nat \ {0}

Positions == 0..(ScreenLength - 1)

ASSUME LayoutsAssumption == Layouts \subseteq SUBSET Positions
ASSUME TextsAssumption == TextLengths \subseteq Nat
ASSUME ChangesAssumption == MaxChanges \in Nat

VARIABLES
    kind,       \* "local"; "dbus", "pipe" of remote sessions
    converter,  \* does the session have a converter of characters?
    connected,
    layout,     \* where the attributes are
    cursor,
    changes,    \* number of changes so far
    errno,      \* is errno of the thread other than zero?
    field,      \* the Field the application keeps: [from, length], or NoField
    op          \* the operation in progress, or the last one

terminal == <<connected, layout, cursor>>
session == <<kind, converter>>
vars == <<session, terminal, changes, errno, field, op>>

NoField == [from |-> -1, length |-> 0]
Idle == [name |-> "none", stage |-> "idle", at |-> 0, bounds |-> NoField, typed |-> -1,
         calm |-> TRUE]

\* An address that row and column outside of the screen have.
Outside == -1

\* Attributes up to a position.
FieldsAt(position) == {a \in layout : a <= position}

\* The first position after the last attribute up to a position, and how many
\* positions there are up to the next attribute.
Bounds(position) ==
    LET from == Max(FieldsAt(position)) + 1
        after == {a \in layout : a >= from} \cup {ScreenLength}
    IN  [from |-> from, length |-> Min(after) - from]

HasField(position) == connected /\ FieldsAt(position) # {}

Names == {"getCursorAddress", "setCursor", "pop", "popAt", "FieldFactory", "get", "set", "toString",
          "connected"}

\* Stages: the next thing the operation asks of the terminal, or how it ended.
Ended == {"returned", "thrown"}
Stages == {"idle", "state", "cursor", "move", "bounds", "read", "write"} \cup Ended

Init ==
    /\ kind \in {"local", "dbus", "pipe"}
    /\ converter \in BOOLEAN
    /\ connected \in BOOLEAN
    /\ layout \in Layouts
    /\ cursor = 0
    /\ changes = 0
    /\ errno = FALSE
    /\ field = NoField
    /\ op = Idle

-----------------------------------------------------------------------------
(* Beginnings.                                                             *)

Busy == op.stage \notin Ended \cup {"idle"}

Begin(name, stage, at, bounds) ==
    /\ ~ Busy
    /\ op' = [name |-> name, stage |-> stage, at |-> at, bounds |-> bounds, typed |-> -1,
              calm |-> TRUE]
    /\ UNCHANGED <<session, terminal, changes, errno, field>>

\* FieldFactory() and pop(text).  Over D-Bus they throw ENOTSUP at once, over a
\* pipe they ask for the cursor first, as the base class has it.
BeginAtCursor ==
    \E name \in {"pop", "FieldFactory"} :
        Begin(name, IF kind = "dbus" THEN "thrown" ELSE "cursor", 0, NoField)

\* pop(row, col, text) and pop(baddr, text).
BeginAt ==
    \E at \in Positions \cup {Outside} : Begin("popAt", "bounds", at, NoField)

BeginCursor ==
    \/ Begin("getCursorAddress", "cursor", 0, NoField)
    \/ \E at \in Positions \cup {ScreenLength} : Begin("setCursor", "move", at, NoField)

\* Field::get() and Field::set(), on the field as it was.
BeginField ==
    /\ field # NoField
    /\ \E name \in {"get", "set"} :
        Begin(name, IF name = "get" THEN "read" ELSE "write", 0, field)

\* toString() of all the screen, which find(), contains() and compare() look at.
BeginContents ==
    Begin("toString", "read", 0, [from |-> 0, length |-> ScreenLength])

\* connected() and the other states and sizes of the terminal, of which it stands
\* for all: one question, one answer.
BeginState == Begin("connected", "state", 0, NoField)

-----------------------------------------------------------------------------
(* Steps: one call of lib3270, or one request.                             *)

Go(stage) == op' = [op EXCEPT !.stage = stage]

\* The operation throws; a failure of lib3270 may have set errno.
Fail ==
    /\ Go("thrown")
    /\ errno' \in IF kind = "local" THEN {errno, TRUE} ELSE {errno}
    /\ UNCHANGED <<session, terminal, changes, field>>

AskState ==
    /\ op.stage = "state"
    /\ op' = [op EXCEPT !.stage = "returned", !.at = IF connected THEN 1 ELSE 0]
    /\ UNCHANGED <<session, terminal, changes, errno, field>>

\* Wrong: errno is looked at whatever the address.
AskCursorByErrno ==
    /\ op.stage = "cursor"
    /\ \/ /\ ~ connected \/ (kind = "local" /\ errno)
          /\ Go("thrown")
          /\ errno' = (errno \/ kind = "local")
       \/ /\ connected /\ (kind = "local" => ~ errno)
          /\ op' = [op EXCEPT !.at = cursor,
                        !.stage = IF op.name = "getCursorAddress" THEN "returned" ELSE "bounds"]
          /\ UNCHANGED errno
    /\ UNCHANGED <<session, terminal, changes, field>>

\* getCursorAddress().  A local session takes zero for an error if errno says
\* so, whoever has set it; pw3270 answers with an error.
AskCursor ==
    /\ op.stage = "cursor"
    /\ \/ /\ ~ connected
          /\ Go("thrown")
          /\ errno' = (errno \/ kind = "local")
       \/ /\ connected /\ kind = "local" /\ cursor = 0 /\ errno
          /\ Go("thrown")
          /\ UNCHANGED errno
       \/ /\ connected /\ (kind = "local" => cursor # 0 \/ ~ errno)
          /\ op' = [op EXCEPT !.at = cursor,
                        !.stage = IF op.name = "getCursorAddress" THEN "returned" ELSE "bounds"]
          /\ UNCHANGED errno
    /\ UNCHANGED <<session, terminal, changes, field>>

\* Wrong: a negative rc is returned like any other.
MoveCursorUnchecked ==
    /\ op.stage = "move"
    /\ Go("returned")
    /\ cursor' = IF connected /\ op.at \in Positions THEN op.at ELSE cursor
    /\ UNCHANGED <<session, connected, layout, changes, errno, field>>

\* setCursor(): a negative rc is an exception, on both kinds of session.
MoveCursor ==
    /\ op.stage = "move"
    /\ \/ ~ (connected /\ op.at \in Positions) /\ Fail
       \/ /\ connected /\ op.at \in Positions
          /\ cursor' = op.at
          /\ Go("returned")
          /\ UNCHANGED <<session, connected, layout, changes, errno, field>>

\* Where lib3270 looks for a field: nobody checks the address of a row and a
\* column outside, which it refuses, or takes for the cursor.
Looked == IF op.at = Outside THEN {cursor} ELSE {op.at}

\* The Field is there.
Found(bounds) ==
    /\ IF op.name = "FieldFactory"
       THEN /\ field' = bounds
            /\ op' = [op EXCEPT !.stage = "returned", !.bounds = bounds]
       ELSE /\ op' = [op EXCEPT !.stage = "read", !.bounds = bounds]
            /\ UNCHANGED field
    /\ UNCHANGED <<session, terminal, changes, errno>>

\* Wrong: the bounds are those of the field under the cursor.
AskBoundsOfCursor ==
    /\ op.stage = "bounds"
    /\ \/ kind = "local" /\ HasField(cursor) /\ Found(Bounds(cursor))
       \/ /\ kind = "local" => ~ HasField(cursor) \/ op.at = Outside
          /\ Fail

\* FieldFactory(baddr): bounds and attribute in one section.  Remote sessions
\* have no fields.
AskBounds ==
    /\ op.stage = "bounds"
    /\ \/ /\ kind = "local"
          /\ \E position \in Looked : HasField(position) /\ Found(Bounds(position))
       \/ /\ kind = "local" => op.at = Outside \/ ~ HasField(op.at)
          /\ Fail

\* toString(), of a field or of all: no text if lib3270 has none.
Read ==
    /\ op.stage = "read"
    /\ \/ ~ connected /\ Fail
       \/ connected /\ Go("returned") /\ UNCHANGED <<session, terminal, changes, errno, field>>

\* Wrong: what is longer than the field goes on after it.
ConvertedAll(n, length) == {n, 0}

\* convertToHost() of a text of n characters, with the length of the field.
\* Without a converter, or for a field without positions, it is the whole text.
\* A text that is shorter is read on behind its end: what follows makes iconv
\* fail, and the text empty, or is cut off at the zero between.
Converted(n, length) ==
    IF ~ converter \/ length = 0 THEN {n}
    ELSE {0, IF n < length THEN n ELSE length}

\* Field::set(): lib3270 types the text from the start of the field, or refuses.
Write(n) ==
    /\ op.stage = "write"
    /\ \/ Fail
       \/ /\ connected
          /\ \E typed \in Converted(n, op.bounds.length) :
              op' = [op EXCEPT !.stage = "returned", !.typed = typed]
          /\ UNCHANGED <<session, terminal, changes, errno, field>>

-----------------------------------------------------------------------------
(* The terminal, changed by the host, its user, or another program.        *)

Change ==
    /\ changes < MaxChanges
    /\ changes' = changes + 1
    /\ op' = [op EXCEPT !.calm = FALSE]
    /\ \/ connected /\ layout' \in Layouts /\ cursor' \in Positions /\ UNCHANGED connected
       \/ connected' = ~ connected /\ UNCHANGED <<layout, cursor>>
    /\ UNCHANGED <<session, errno, field>>

\* The Field is deleted.
DropField ==
    /\ ~ Busy
    /\ field # NoField
    /\ field' = NoField
    /\ UNCHANGED <<session, terminal, changes, errno, op>>

Next ==
    \/ BeginAtCursor \/ BeginAt \/ BeginCursor \/ BeginField \/ BeginContents \/ BeginState
    \/ AskState \/ AskCursor \/ MoveCursor \/ AskBounds \/ Read
    \/ \E n \in TextLengths : Write(n)
    \/ Change
    \/ DropField

Spec == Init /\ [][Next]_vars

-----------------------------------------------------------------------------
(* Properties.                                                             *)

OnScreen(bounds) ==
    /\ bounds.from \in 1..ScreenLength
    /\ bounds.length \in Nat
    /\ bounds.from + bounds.length <= ScreenLength

TypeOK ==
    /\ kind \in {"local", "dbus", "pipe"}
    /\ converter \in BOOLEAN
    /\ connected \in BOOLEAN
    /\ layout \in Layouts
    /\ cursor \in Positions
    /\ changes \in 0..MaxChanges
    /\ errno \in BOOLEAN
    /\ field = NoField \/ OnScreen(field)
    /\ op.name \in Names \cup {"none"}
    /\ op.stage \in Stages

\* What pop() and FieldFactory() return, if the terminal did not change under
\* their looks, is the field asked for: that of the cursor, or of the place given.
PopReadsItsField ==
    op.stage = "returned" /\ op.calm =>
        /\ op.name \in {"pop", "FieldFactory"} => HasField(cursor) /\ op.bounds = Bounds(cursor)
        /\ op.name = "popAt" /\ op.at # Outside => HasField(op.at) /\ op.bounds = Bounds(op.at)

\* What a session has said of the terminal is so, until the terminal changes:
\* setCursor() has put the cursor where it was asked to, getCursorAddress() and
\* connected() return what is there.
AnswerIsTrue ==
    op.stage = "returned" /\ op.calm =>
        /\ op.name \in {"getCursorAddress", "setCursor"} => connected /\ cursor = op.at
        /\ op.name = "connected" => (connected <=> op.at = 1)

\* Errors of earlier operations, which leave errno behind, are taken for errors of
\* getCursorAddress(), pop() and FieldFactory() only with the cursor at home.
ThrowsForReason ==
    /\ op.stage = "thrown" /\ op.calm
    /\ kind = "local" /\ connected
    /\ op.name \in {"getCursorAddress", "pop", "FieldFactory"}
    => cursor = 0 \/ (op.name # "getCursorAddress" /\ ~ HasField(cursor))

\* What Field::set() types stays in the field as it was made, through any change
\* of the terminal since, if there is a converter and the field is not empty.
TypedInField ==
    op.name = "set" /\ converter /\ op.bounds.length > 0 => op.typed <= op.bounds.length
=============================================================================
