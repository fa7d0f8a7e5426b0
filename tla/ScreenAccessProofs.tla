------------------------- MODULE ScreenAccessProofs -------------------------
(***************************************************************************)
(* Proofs about ScreenAccess, for every screen and every number of changes *)
(* between the looks of an operation.                                      *)
(*                                                                         *)
(* Half way through an operation on a terminal that has not changed since, *)
(* what it has seen is still so (Seen); that is the invariant.             *)
(***************************************************************************)
EXTENDS ScreenAccess, WellFoundedInduction, TLAPS

\* An operation that looks for bounds has its address from the cursor or from
\* the application, and one that reads has the bounds of its address.
Seen ==
    op.calm =>
        /\ op.name \in {"pop", "FieldFactory"} /\ op.stage = "bounds" =>
            connected /\ op.at = cursor /\ op.at # Outside
        /\ op.name \in {"pop", "FieldFactory"} /\ op.stage \in {"read", "returned"} =>
            HasField(cursor) /\ op.bounds = Bounds(cursor)
        /\ op.name = "popAt" /\ op.stage \in {"read", "returned"} /\ op.at # Outside =>
            HasField(op.at) /\ op.bounds = Bounds(op.at)

\* Each operation is in one of its own stages.
StageOK ==
    /\ op = [name |-> op.name, stage |-> op.stage, at |-> op.at, bounds |-> op.bounds,
             typed |-> op.typed, calm |-> op.calm]
    /\ op.name = "none" => op.stage = "idle"
    /\ op.name = "getCursorAddress" => op.stage \in {"cursor"} \cup Ended
    /\ op.name = "setCursor" => op.stage \in {"move"} \cup Ended
    /\ op.name \in {"pop", "FieldFactory"} => op.stage \in {"cursor", "bounds", "read"} \cup Ended
    /\ op.name = "connected" => op.stage \in {"state"} \cup Ended
    /\ op.stage = "state" => op.name = "connected"
    /\ op.stage = "cursor" => op.name \in {"getCursorAddress", "pop", "FieldFactory"}
    /\ op.stage = "move" => op.name = "setCursor"
    /\ op.stage = "bounds" => op.name \in {"pop", "popAt", "FieldFactory"}
    /\ op.stage = "read" => op.name \in {"pop", "popAt", "get", "toString"}
    /\ op.stage = "write" => op.name = "set"
    /\ cursor \in Positions

IInv == Seen /\ StageOK /\ AnswerIsTrue /\ ThrowsForReason

-----------------------------------------------------------------------------
(* The invariant holds at first, and every step keeps it.                  *)
LEMMA InitIInv == Init => IInv
  BY LengthAssumption DEF Init, IInv, Seen, StageOK, AnswerIsTrue, ThrowsForReason, Idle, Names, Ended, Positions

\* A beginning: nothing is seen yet.
LEMMA BeginKeeps ==
    ASSUME IInv, BeginAtCursor \/ BeginAt \/ BeginCursor \/ BeginField \/ BeginContents \/ BeginState
    PROVE  IInv'
  BY DEF IInv, Seen, StageOK, AnswerIsTrue, ThrowsForReason, Names, Ended, Positions, HasField,
         FieldsAt, Bounds, BeginAtCursor, BeginAt, BeginCursor, BeginField, BeginContents, BeginState, Begin,
         terminal, session, vars

\* What the terminal has depends on the terminal alone.
LEMMA SameFields ==
    ASSUME UNCHANGED terminal
    PROVE  \A p : HasField(p)' = HasField(p) /\ Bounds(p)' = Bounds(p)
  BY DEF terminal, HasField, Bounds, FieldsAt

\* A failure ends the operation, with a reason if it is one of the terminal.
LEMMA FailKeeps ==
    ASSUME IInv, Fail, op.name # "none",
           op.name = "getCursorAddress" => ~ connected,
           op.name \in {"pop", "FieldFactory"} /\ op.calm /\ kind = "local" /\ connected =>
               ~ HasField(cursor)
    PROVE  IInv'
<1>1. UNCHANGED terminal /\ kind' = kind
  BY DEF Fail, session
<1>2. op' = [op EXCEPT !.stage = "thrown"]
  BY DEF Fail, Go
<1> QED
  BY <1>1, <1>2, SameFields
  DEF IInv, Seen, StageOK, AnswerIsTrue, ThrowsForReason, Ended, Positions, terminal

LEMMA AskStateKeeps == ASSUME IInv, AskState PROVE IInv'
<1>1. op.name = "connected" /\ op.stage = "state"
  BY DEF AskState, IInv, StageOK
<1>2. UNCHANGED terminal /\ kind' = kind
  BY DEF AskState, session
<1>3. /\ op'.name = op.name /\ op'.stage = "returned"
      /\ op' = [name |-> op'.name, stage |-> op'.stage, at |-> op'.at, bounds |-> op'.bounds,
                typed |-> op'.typed, calm |-> op'.calm]
      /\ op'.at = IF connected THEN 1 ELSE 0
  BY DEF AskState, IInv, StageOK
<1>4. connected' <=> op'.at = 1
  BY <1>2, <1>3 DEF terminal
<1> QED
  BY <1>1, <1>2, <1>3, <1>4
  DEF IInv, Seen, StageOK, AnswerIsTrue, ThrowsForReason, Ended, Positions, terminal

LEMMA AskCursorKeeps == ASSUME IInv, AskCursor PROVE IInv'
<1>0. op.name \in {"getCursorAddress", "pop", "FieldFactory"} /\ op.stage = "cursor"
  BY DEF AskCursor, IInv, StageOK
<1>1. UNCHANGED terminal /\ kind' = kind
  BY DEF AskCursor, session
<1>2. CASE ~ connected /\ Go("thrown")
  BY <1>0, <1>1, <1>2, SameFields
  DEF Go, IInv, Seen, StageOK, AnswerIsTrue, ThrowsForReason, Ended, Positions, terminal
<1>3. CASE connected /\ kind = "local" /\ cursor = 0 /\ errno /\ Go("thrown")
  BY <1>0, <1>1, <1>3, SameFields
  DEF Go, IInv, Seen, StageOK, AnswerIsTrue, ThrowsForReason, Ended, Positions, terminal
<1>4. CASE /\ connected
           /\ op' = [op EXCEPT !.at = cursor,
                 !.stage = IF op.name = "getCursorAddress" THEN "returned" ELSE "bounds"]
  <2>1. cursor # Outside
    BY LengthAssumption DEF IInv, StageOK, Positions, Outside
  <2> QED
    BY <1>0, <1>1, <1>4, <2>1, SameFields
    DEF IInv, Seen, StageOK, AnswerIsTrue, ThrowsForReason, Ended, Positions, terminal
<1> QED
  BY <1>2, <1>3, <1>4 DEF AskCursor

LEMMA MoveCursorKeeps == ASSUME IInv, MoveCursor PROVE IInv'
<1>1. op.name = "setCursor" /\ op.stage = "move"
  BY DEF MoveCursor, IInv, StageOK
<1>2. CASE Fail
  BY <1>1, <1>2, FailKeeps
<1>3. CASE /\ connected /\ op.at \in Positions
           /\ cursor' = op.at
           /\ Go("returned")
           /\ UNCHANGED <<session, connected, layout, changes, errno, field>>
  BY <1>1, <1>3
  DEF Go, IInv, Seen, StageOK, AnswerIsTrue, ThrowsForReason, Ended, Positions
<1> QED
  BY <1>2, <1>3 DEF MoveCursor

LEMMA AskBoundsKeeps == ASSUME IInv, AskBounds PROVE IInv'
<1>1. op.name \in {"pop", "popAt", "FieldFactory"} /\ op.stage = "bounds"
  BY DEF AskBounds, IInv, StageOK
<1>2. ASSUME NEW position \in Looked, HasField(position), Found(Bounds(position))
      PROVE  IInv'
  <2>1. UNCHANGED terminal /\ kind' = kind
    BY <1>2 DEF Found, session
  <2>2. op' = [op EXCEPT !.bounds = Bounds(position),
                    !.stage = IF op.name = "FieldFactory" THEN "returned" ELSE "read"]
    BY <1>2 DEF Found, IInv, StageOK
  <2>3. op.at # Outside => position = op.at
    BY DEF Looked
  <2>4. StageOK'
    BY <1>1, <2>1, <2>2 DEF IInv, StageOK, Ended, terminal
  <2>5. /\ op'.name = op.name /\ op'.at = op.at /\ op'.calm = op.calm
        /\ op'.bounds = Bounds(position)
        /\ op'.stage = IF op.name = "FieldFactory" THEN "returned" ELSE "read"
    BY <2>2 DEF IInv, StageOK
  <2>6. Seen'
    BY <1>1, <1>2, <2>1, <2>3, <2>5, SameFields DEF IInv, Seen, terminal
  <2>7. AnswerIsTrue' /\ ThrowsForReason'
    BY <1>1, <2>5 DEF AnswerIsTrue, ThrowsForReason
  <2> QED BY <2>4, <2>6, <2>7 DEF IInv
<1>3. ASSUME Fail, kind = "local" => op.at = Outside \/ ~ HasField(op.at)
      PROVE  IInv'
  BY <1>1, <1>3, FailKeeps DEF IInv, Seen
<1> QED
  BY <1>2, <1>3 DEF AskBounds

LEMMA ReadKeeps == ASSUME IInv, Read PROVE IInv'
<1>1. op.name \in {"pop", "popAt", "get", "toString"} /\ op.stage = "read"
  BY DEF Read, IInv, StageOK
<1>2. CASE ~ connected /\ Fail
  BY <1>1, <1>2, FailKeeps
<1>3. CASE Go("returned") /\ UNCHANGED <<session, terminal, changes, errno, field>>
  BY <1>1, <1>3, SameFields
  DEF Go, IInv, Seen, StageOK, AnswerIsTrue, ThrowsForReason, Ended, Positions, terminal
<1> QED
  BY <1>2, <1>3 DEF Read

LEMMA WriteKeeps == ASSUME IInv, NEW n \in TextLengths, Write(n) PROVE IInv'
<1>1. op.name = "set" /\ op.stage = "write"
  BY DEF Write, IInv, StageOK
<1>2. CASE Fail
  BY <1>1, <1>2, FailKeeps
<1>3. ASSUME NEW typed, op' = [op EXCEPT !.stage = "returned", !.typed = typed],
             UNCHANGED <<session, terminal, changes, errno, field>>
      PROVE  IInv'
  BY <1>1, <1>3, SameFields
  DEF IInv, Seen, StageOK, AnswerIsTrue, ThrowsForReason, Ended, Positions, terminal
<1> QED
  BY <1>2, <1>3 DEF Write

\* A change ends all that has been seen.
LEMMA ChangeKeeps == ASSUME IInv, Change PROVE IInv'
  BY DEF Change, IInv, Seen, StageOK, AnswerIsTrue, ThrowsForReason, Ended

LEMMA SameKeeps == ASSUME IInv, UNCHANGED <<session, terminal, op>> PROVE IInv'
  BY SameFields
  DEF IInv, Seen, StageOK, AnswerIsTrue, ThrowsForReason, session, terminal, Positions

LEMMA NextIInv == IInv /\ [Next]_vars => IInv'
<1> SUFFICES ASSUME IInv, [Next]_vars PROVE IInv'
  OBVIOUS
<1>1. CASE BeginAtCursor \/ BeginAt \/ BeginCursor \/ BeginField \/ BeginContents \/ BeginState
  BY <1>1, BeginKeeps
<1>2. CASE AskCursor
  BY <1>2, AskCursorKeeps
<1>3. CASE MoveCursor
  BY <1>3, MoveCursorKeeps
<1>4. CASE AskBounds
  BY <1>4, AskBoundsKeeps
<1>5. CASE Read
  BY <1>5, ReadKeeps
<1>6. CASE \E n \in TextLengths : Write(n)
  BY <1>6, WriteKeeps
<1>7. CASE Change
  BY <1>7, ChangeKeeps
<1>8. CASE DropField
  BY <1>8, SameKeeps DEF DropField
<1>9. CASE UNCHANGED vars
  BY <1>9, SameKeeps DEF vars
<1>10. CASE AskState
  BY <1>10, AskStateKeeps
<1> QED
  BY <1>10, <1>1, <1>2, <1>3, <1>4, <1>5, <1>6, <1>7, <1>8, <1>9 DEF Next

\* IInv holds always.
THEOREM Invariant == Spec => []IInv
  BY InitIInv, NextIInv, PTL DEF Spec

\* What pop() and FieldFactory() return is the field asked for, if the terminal
\* is left alone under their looks (session/get.cc, local/field.cc).
THEOREM ItsField == Spec => []PopReadsItsField
<1>1. IInv => PopReadsItsField
  BY DEF IInv, Seen, PopReadsItsField
<1> QED
  BY <1>1, Invariant, PTL

\* What a session has said of the terminal is so until it changes (remote/set.cc,
\* remote/get.cc, local/set.cc, local/get.cc).
THEOREM TrueAnswers == Spec => []AnswerIsTrue
<1>1. IInv => AnswerIsTrue
  BY DEF IInv
<1> QED
  BY <1>1, Invariant, PTL

\* A left-over errno is taken for an error with the cursor at home only
\* (local/get.cc).
THEOREM ReasonToThrow == Spec => []ThrowsForReason
<1>1. IInv => ThrowsForReason
  BY DEF IInv
<1> QED
  BY <1>1, Invariant, PTL

-----------------------------------------------------------------------------
(* Types and the bounds of fields.                                         *)

\* Numbers have a smallest one.
LEMMA MinExists ==
    ASSUME NEW S, S \subseteq Nat, S # {}
    PROVE  Min(S) \in S /\ \A y \in S : Min(S) <= y
<1>1. PICK x \in S : \A y \in S : ~ (<<y, x>> \in OpToRel(<, Nat))
  BY NatLessThanWellFounded, WFMin
<1>2. \A y \in S : x <= y
  <2> SUFFICES ASSUME NEW y \in S, y < x PROVE FALSE
    OBVIOUS
  <2>1. <<y, x>> \in OpToRel(<, Nat)
    BY DEF OpToRel
  <2> QED BY <1>1, <2>1
<1>3. \E m \in S : \A y \in S : m <= y
  BY <1>2
<1> QED BY <1>3 DEF Min

\* Numbers that are not beyond another one have a largest one.
LEMMA MaxExists ==
    ASSUME NEW n \in Nat, NEW S, S \subseteq 0..n, S # {}
    PROVE  Max(S) \in S /\ \A y \in S : Max(S) >= y
<1> DEFINE T == {m \in 0..n : n - m \in S}
<1>1. T \subseteq Nat /\ T # {}
  <2>1. PICK a \in S : TRUE
    OBVIOUS
  <2>2. n - a \in 0..n /\ n - (n - a) = a
    OBVIOUS
  <2> QED BY <2>1, <2>2
<1>2. Min(T) \in T /\ \A y \in T : Min(T) <= y
  BY <1>1, MinExists
<1>3. PICK x \in S : x = n - Min(T)
  BY <1>2
<1>4. \A y \in S : x >= y
  <2> SUFFICES ASSUME NEW y \in S PROVE x >= y
    OBVIOUS
  <2>1. n - y \in 0..n /\ n - (n - y) = y
    OBVIOUS
  <2>2. n - y \in T
    BY <2>1
  <2>3. Min(T) <= n - y /\ Min(T) \in 0..n
    BY <1>2, <2>2
  <2> HIDE DEF T
  <2> QED BY <1>3, <2>3
<1>5. \E m \in S : \A y \in S : m >= y
  BY <1>4
<1> QED BY <1>5 DEF Max

\* The bounds of a field are on the screen.
LEMMA BoundsOnScreen ==
    ASSUME layout \in Layouts, NEW position, FieldsAt(position) # {}
    PROVE  OnScreen(Bounds(position))
<1> DEFINE from == Max(FieldsAt(position)) + 1
           after == {a \in layout : a >= from} \cup {ScreenLength}
<1>1. ScreenLength \in Nat \ {0} /\ ScreenLength - 1 \in Nat
  BY LengthAssumption
<1>2. \A a \in layout : a \in 0..(ScreenLength - 1)
  BY LayoutsAssumption DEF Positions
<1>3. from \in 1..ScreenLength
  <2>1. FieldsAt(position) \subseteq 0..(ScreenLength - 1)
    BY <1>2 DEF FieldsAt
  <2>2. Max(FieldsAt(position)) \in 0..(ScreenLength - 1)
    BY <1>1, <2>1, MaxExists
  <2> HIDE DEF from
  <2>3. from = Max(FieldsAt(position)) + 1
    BY DEF from
  <2> QED BY <1>1, <2>2, <2>3
<1> HIDE DEF from
<1>4. ScreenLength \in after /\ \A a \in after : a \in from..ScreenLength
  <2>1. ASSUME NEW a \in layout, a >= from PROVE a \in from..ScreenLength
    BY <1>1, <1>2, <1>3, <2>1
  <2> QED BY <1>1, <1>3, <2>1
<1> HIDE DEF after
<1>5. /\ Min(after) \in Nat /\ from \in Nat /\ from <= Min(after) /\ Min(after) <= ScreenLength
  <2>1. after \subseteq Nat /\ after # {}
    BY <1>3, <1>4
  <2>2. Min(after) \in from..ScreenLength
    BY <1>4, <2>1, MinExists
  <2> QED BY <1>1, <1>3, <2>2
<1>6. Bounds(position) = [from |-> from, length |-> Min(after) - from]
  BY DEF Bounds, from, after
<1>7. Min(after) - from \in Nat /\ from + (Min(after) - from) = Min(after)
  BY <1>5
<1> QED BY <1>3, <1>5, <1>6, <1>7 DEF OnScreen

\* A Field that is set is on the screen, and what was typed is inside.
SetOK ==
    op.name = "set" =>
        /\ OnScreen(op.bounds)
        /\ op.typed \in Int
        /\ converter /\ op.bounds.length > 0 => op.typed <= op.bounds.length

TypeInv == TypeOK /\ SetOK

LEMMA InitTypeInv == Init => TypeInv
<1> SUFFICES ASSUME Init PROVE TypeInv
  OBVIOUS
<1>1. /\ kind \in {"local", "dbus", "pipe"} /\ converter \in BOOLEAN /\ connected \in BOOLEAN
      /\ layout \in Layouts /\ cursor = 0 /\ changes = 0 /\ errno = FALSE /\ field = NoField
      /\ op.name = "none" /\ op.stage = "idle"
  BY DEF Init, Idle
<1>2. 0 \in Positions /\ 0 \in 0..MaxChanges
  BY LengthAssumption, ChangesAssumption DEF Positions
<1> QED BY <1>1, <1>2 DEF TypeInv, TypeOK, SetOK, Names, Stages, Ended

\* What no step of an operation changes.
LEMMA QuietTypes ==
    ASSUME TypeInv, UNCHANGED <<session, terminal, changes, field>>, errno' \in BOOLEAN,
           op'.name \in Names \cup {"none"}, op'.stage \in Stages, SetOK'
    PROVE  TypeInv'
  BY DEF TypeInv, TypeOK, session, terminal, OnScreen, Positions

\* An operation begins; Field::set() has the bounds of the field.
LEMMA BeginTypes ==
    ASSUME TypeInv,
           BeginAtCursor \/ BeginAt \/ BeginCursor \/ BeginField \/ BeginContents \/ BeginState
    PROVE  TypeInv'
<1>1. PICK name, stage, at, bounds :
          /\ name \in Names /\ stage \in Stages
          /\ Begin(name, stage, at, bounds) /\ (name = "set" => OnScreen(bounds))
  <2>1. CASE BeginAtCursor
    BY <2>1 DEF BeginAtCursor, Names, Stages, Ended
  <2>2. CASE BeginAt
    BY <2>2 DEF BeginAt, Names, Stages
  <2>3. CASE BeginCursor
    BY <2>3 DEF BeginCursor, Names, Stages
  <2>4. CASE BeginField
    <3>1. OnScreen(field)
      BY <2>4 DEF BeginField, TypeInv, TypeOK
    <3> QED BY <2>4, <3>1 DEF BeginField, Names, Stages
  <2>5. CASE BeginContents
    BY <2>5 DEF BeginContents, Names, Stages
  <2>6. CASE BeginState
    BY <2>6 DEF BeginState, Names, Stages
  <2> QED BY <2>1, <2>2, <2>3, <2>4, <2>5, <2>6
<1>2. /\ op'.name = name /\ op'.stage = stage /\ op'.bounds = bounds /\ op'.typed = -1
      /\ UNCHANGED <<session, terminal, changes, errno, field>>
  BY <1>1 DEF Begin
<1>3. SetOK'
  BY <1>1, <1>2 DEF SetOK, OnScreen
<1>4. /\ op'.name \in Names \cup {"none"} /\ op'.stage \in Stages /\ errno' \in BOOLEAN
      /\ UNCHANGED <<session, terminal, changes, field>>
  BY <1>1, <1>2 DEF TypeInv, TypeOK
<1> QED BY <1>3, <1>4, QuietTypes

\* An operation goes on, or ends, without typing.
LEMMA GoTypes ==
    ASSUME TypeInv, NEW stage \in Stages, UNCHANGED <<session, terminal, changes, field>>,
           errno' \in BOOLEAN, op'.stage = stage, op'.name = op.name,
           op.name = "set" => op'.bounds = op.bounds /\ op'.typed = op.typed
    PROVE  TypeInv'
<1>1. SetOK'
  BY DEF TypeInv, SetOK, session, OnScreen
<1> QED BY <1>1, QuietTypes DEF TypeInv, TypeOK

LEMMA FailTypes == ASSUME IInv, TypeInv, Fail PROVE TypeInv'
<1>1. /\ op'.stage = "thrown" /\ op'.name = op.name /\ op'.bounds = op.bounds
      /\ op'.typed = op.typed
  BY DEF Fail, Go, IInv, StageOK
<1>2. errno' \in BOOLEAN /\ UNCHANGED <<session, terminal, changes, field>>
  BY DEF Fail, TypeInv, TypeOK
<1> QED BY <1>1, <1>2, GoTypes DEF Stages, Ended

LEMMA AskTypes == ASSUME IInv, TypeInv, AskState \/ AskCursor \/ Read PROVE TypeInv'
<1>1. errno' \in BOOLEAN /\ UNCHANGED <<session, terminal, changes, field>>
  BY DEF AskState, AskCursor, Read, Fail, TypeInv, TypeOK
<1>2. /\ op'.stage \in {"returned", "thrown", "bounds"} /\ op'.name = op.name
      /\ op'.bounds = op.bounds /\ op'.typed = op.typed
  BY DEF AskState, AskCursor, Read, Fail, Go, IInv, StageOK
<1> QED BY <1>1, <1>2, GoTypes DEF Stages, Ended

LEMMA MoveCursorTypes == ASSUME IInv, TypeInv, MoveCursor PROVE TypeInv'
<1>1. CASE Fail
  BY <1>1, FailTypes
<1>2. CASE /\ op.at \in Positions /\ cursor' = op.at /\ Go("returned")
           /\ UNCHANGED <<session, connected, layout, changes, errno, field>>
  <2>1. op'.name = "setCursor" /\ op'.stage = "returned"
    BY <1>2 DEF MoveCursor, Go, IInv, StageOK
  <2> QED
    BY <1>2, <2>1
    DEF TypeInv, TypeOK, SetOK, session, OnScreen, Positions, Names, Stages, Ended
<1> QED BY <1>1, <1>2 DEF MoveCursor

LEMMA AskBoundsTypes == ASSUME IInv, TypeInv, AskBounds PROVE TypeInv'
<1>1. CASE Fail
  BY <1>1, FailTypes
<1>2. ASSUME NEW position, HasField(position), Found(Bounds(position)) PROVE TypeInv'
  <2>1. OnScreen(Bounds(position))
    BY <1>2, BoundsOnScreen DEF HasField, TypeInv, TypeOK
  <2>2. /\ op'.stage \in {"returned", "read"} /\ op'.name = op.name /\ op.name # "set"
        /\ field' \in {field, Bounds(position)}
        /\ UNCHANGED <<session, terminal, changes, errno>>
    BY <1>2 DEF Found, AskBounds, IInv, StageOK
  <2> QED
    BY <2>1, <2>2
    DEF TypeInv, TypeOK, SetOK, session, terminal, OnScreen, Positions, Stages, Ended
<1> QED BY <1>1, <1>2 DEF AskBounds

\* A converter takes no more of the text than the field is long.
LEMMA WriteTypes == ASSUME IInv, TypeInv, NEW n \in TextLengths, Write(n) PROVE TypeInv'
<1>1. CASE Fail
  BY <1>1, FailTypes
<1>2. ASSUME NEW typed \in Converted(n, op.bounds.length),
             op' = [op EXCEPT !.stage = "returned", !.typed = typed],
             UNCHANGED <<session, terminal, changes, errno, field>>
      PROVE  TypeInv'
  <2>1. /\ op'.name = "set" /\ op.name = "set" /\ op'.stage = "returned"
        /\ op'.bounds = op.bounds /\ op'.typed = typed
    BY <1>2 DEF Write, IInv, StageOK
  <2>2. OnScreen(op.bounds) /\ n \in Nat
    BY <2>1, TextsAssumption DEF TypeInv, SetOK
  <2>3. op.bounds.length \in Nat
    BY <2>2 DEF OnScreen
  <2>4. typed \in Int /\ (converter /\ op.bounds.length > 0 => typed <= op.bounds.length)
    BY <1>2, <2>2, <2>3 DEF Converted
  <2>5. SetOK'
    BY <1>2, <2>1, <2>2, <2>4 DEF SetOK, session, OnScreen
  <2> QED BY <1>2, <2>1, <2>5, QuietTypes DEF TypeInv, TypeOK, Stages, Ended
<1> QED BY <1>1, <1>2 DEF Write

LEMMA ChangeTypes == ASSUME IInv, TypeInv, Change PROVE TypeInv'
<1>1. /\ op'.name = op.name /\ op'.stage = op.stage /\ op'.bounds = op.bounds
      /\ op'.typed = op.typed
  BY DEF Change, IInv, StageOK
<1>2. changes' \in 0..MaxChanges
  BY ChangesAssumption DEF Change, TypeInv, TypeOK
<1>3. /\ connected' \in BOOLEAN /\ layout' \in Layouts /\ cursor' \in Positions
      /\ UNCHANGED <<session, errno, field>>
  BY DEF Change, TypeInv, TypeOK
<1>4. SetOK'
  BY <1>1, <1>3 DEF TypeInv, SetOK, session, OnScreen
<1> QED BY <1>1, <1>2, <1>3, <1>4 DEF TypeInv, TypeOK, session, OnScreen, Positions

LEMMA SameTypes ==
    ASSUME TypeInv, UNCHANGED <<session, terminal, changes, errno, op>>, field' \in {field, NoField}
    PROVE  TypeInv'
  BY DEF TypeInv, TypeOK, SetOK, session, terminal, OnScreen, Positions, NoField

LEMMA NextTypeInv == IInv /\ TypeInv /\ [Next]_vars => TypeInv'
<1> SUFFICES ASSUME IInv, TypeInv, [Next]_vars PROVE TypeInv'
  OBVIOUS
<1>1. CASE DropField \/ UNCHANGED vars
  BY <1>1, SameTypes DEF DropField, vars
<1> QED
  BY <1>1, BeginTypes, AskTypes, MoveCursorTypes, AskBoundsTypes, WriteTypes, ChangeTypes DEF Next

\* Cursor and fields are on the screen, operations in one of their stages.
THEOREM TypeCorrect == Spec => []TypeOK
<1>1. Init => TypeInv
  BY InitTypeInv
<1>2. IInv /\ TypeInv /\ [Next]_vars => TypeInv'
  BY NextTypeInv
<1>3. TypeInv => TypeOK
  BY DEF TypeInv
<1> QED BY <1>1, <1>2, <1>3, Invariant, PTL DEF Spec

\* What Field::set() types stays inside of the field as it was made
\* (include/lib3270/ipc/field.h), for every length of text and field.
THEOREM InsideField == Spec => []TypedInField
<1>1. Init => TypeInv
  BY InitTypeInv
<1>2. IInv /\ TypeInv /\ [Next]_vars => TypeInv'
  BY NextTypeInv
<1>3. TypeInv => TypedInField
  BY DEF TypeInv, SetOK, TypedInField
<1> QED BY <1>1, <1>2, <1>3, Invariant, PTL DEF Spec
=============================================================================
