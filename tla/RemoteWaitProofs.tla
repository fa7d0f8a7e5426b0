-------------------------- MODULE RemoteWaitProofs --------------------------
(***************************************************************************)
(* Proofs about RemoteWait, for every set of threads, every number of      *)
(* seconds, every length of a second and every pair of limits.             *)
(*                                                                         *)
(* The inductive invariant follows one operation: when its call or sleep   *)
(* began, how long the rest of its round may still take, and what pw3270   *)
(* must have seen of its terminal to have answered as it did.              *)
(***************************************************************************)
EXTENDS RemoteWait, TLAPS

\* The terminal was in one of the states ts at t or later.
SeenSince(ts, t) == \E s \in ts : seen[s] >= t

NotAwaited(k) == Terminals \ Awaited(k)

\* The tick by which an operation is over.
Latest(o) == o.start + o.seconds * Second + RoundLimit(o.kind)

\* From the beginning of the call or sleep an operation is in, the time the
\* round (the check and the call behind it) may take.
Ahead(o) ==
    CASE o.stage = "sleeping" -> Second + CallLimit
      [] o.stage /= "sleeping" /\ o.ask \in {"discarded", "activatable"} -> 2 * CallLimit
      [] o.stage /= "sleeping" /\ o.ask \notin {"discarded", "activatable"} -> CallLimit

Openings == {"connect", "activatable", "activate"}

\* Each kind of operation makes the requests of its own code.
AskOK(o) ==
    /\ o.stage = "sleeping" => o.kind = "sleep" /\ o.ask \in {"wait", "state"}
    /\ o.stage = "calling" =>
        CASE o.ask = "connect" -> o.kind = "connect"
          [] o.ask = "activatable" -> o.kind = "try"
          [] o.ask \in {"activate", "discarded"} -> o.kind \in {"action", "try"}
          [] o.ask = "state" -> o.kind = "sleep"
          [] o.ask = "wait" -> o.kind /= "sleep"

InProgress(o) == o.stage \in {"calling", "sleeping"}

\* The times of an operation in progress.
TimesOK(o) ==
    InProgress(o) =>
        /\ o.start <= o.since
        /\ o.since <= clock
        /\ clock <= o.since + (IF o.stage = "sleeping" THEN Second ELSE CallLimit)
        /\ o.since + Ahead(o) <= Latest(o)
        /\ o.ask \notin Openings => o.end = (o.start \div Second) + o.seconds

\* A reply on its way tells what the terminal was after the call began.
ReplyOK(o) ==
    o.stage = "calling" =>
        /\ o.reply = "ok" /\ o.ask \in {"wait", "state"} =>
               SeenSince(Awaited(o.kind), o.since)
        /\ o.reply \in {"busy", "offline"} /\ o.ask \in {"wait", "activatable", "activate"} =>
               SeenSince(NotAwaited(o.kind), o.since)
        /\ o.ask = "state" => o.reply /= "busy"

\* What the properties say of an operation that is over.
OutcomeOK(o) ==
    o.stage = "done" =>
        /\ o.out = "ok" /\ o.seconds > 0 => SeenSince(Awaited(o.kind), o.since)
        /\ o.out \in {"Timeout", "gaveup"} /\ o.seconds > 0 =>
               SeenSince(NotAwaited(o.kind), o.start)
        /\ o.out \in {"skipped", "refused"} => SeenSince(NotAwaited(o.kind), o.start)
        /\ o.out \in {"Timeout", "gaveup"} \/ (o.out = "ok" /\ o.kind = "sleep") =>
               o.doneAt > o.start + (o.seconds - 1) * Second
        /\ o.doneAt <= Latest(o)

OperationOK(o) == AskOK(o) /\ TimesOK(o) /\ ReplyOK(o) /\ OutcomeOK(o)

\* seen is up to date.
SeenOK ==
    /\ seen[terminal] = clock
    /\ \A t \in Terminals : seen[t] <= clock

IInv ==
    /\ TypeOK
    /\ SeenOK
    /\ \A c \in Client : OperationOK(op[c])

-----------------------------------------------------------------------------
(* Arithmetic of time(nullptr): clock \div Second.                         *)

(* Before the second at which a loop ends, its seconds are not over.       *)
LEMMA InTime ==
    ASSUME NEW a \in Nat, NEW b \in Nat, NEW n \in Nat,
           b \div Second < (a \div Second) + n
    PROVE  b < a + n * Second
<1>1. /\ a \div Second \in Nat /\ b \div Second \in Nat
      /\ Second * (a \div Second) <= a
      /\ b < Second * (b \div Second) + Second
  BY SecondAssumption
<1>2. Second * (b \div Second) + Second <= Second * ((a \div Second) + n)
  <2> DEFINE p == b \div Second
             q == (a \div Second) + n
  <2>1. q - p - 1 \in Nat /\ p \in Nat /\ q \in Nat
    BY <1>1
  <2> HIDE DEF p, q
  <2>2. Second * (q - p - 1) >= 0
    BY <2>1, SecondAssumption
  <2>3. Second * (q - p - 1) = Second * q - Second * p - Second
    BY <2>1, SecondAssumption
  <2>4. Second * p \in Int /\ Second * q \in Int
    BY <2>1, SecondAssumption
  <2>5. Second * p + Second <= Second * q
    BY <2>2, <2>3, <2>4, SecondAssumption
  <2> QED BY <2>5 DEF p, q
<1>3. Second * ((a \div Second) + n) = Second * (a \div Second) + n * Second
  BY <1>1, SecondAssumption
<1>4. Second * (a \div Second) \in Nat /\ Second * (b \div Second) \in Nat /\ n * Second \in Nat
  BY <1>1, SecondAssumption
<1> QED BY <1>1, <1>2, <1>3, <1>4, SecondAssumption

(* From that second on, less than one second is missing.                   *)
LEMMA OutOfTime ==
    ASSUME NEW a \in Nat, NEW b \in Nat, NEW n \in Nat,
           ~(b \div Second < (a \div Second) + n)
    PROVE  b > a + (n - 1) * Second
<1>1. /\ a \div Second \in Nat /\ b \div Second \in Nat
      /\ a < Second * (a \div Second) + Second
      /\ Second * (b \div Second) <= b
  BY SecondAssumption
<1>2. Second * ((a \div Second) + n) <= Second * (b \div Second)
  <2> DEFINE p == (a \div Second) + n
             q == b \div Second
  <2>1. q - p \in Nat /\ p \in Nat /\ q \in Nat
    BY <1>1
  <2> HIDE DEF p, q
  <2>2. Second * (q - p) >= 0
    BY <2>1, SecondAssumption
  <2>3. Second * (q - p) = Second * q - Second * p
    BY <2>1, SecondAssumption
  <2>4. Second * p \in Int /\ Second * q \in Int
    BY <2>1, SecondAssumption
  <2>5. Second * p <= Second * q
    BY <2>2, <2>3, <2>4
  <2> QED BY <2>5 DEF p, q
<1>3. Second * ((a \div Second) + n) = Second * (a \div Second) + n * Second
  BY <1>1, SecondAssumption
<1>4. (n - 1) * Second = n * Second - Second
  BY SecondAssumption
<1>5. Second * (a \div Second) \in Nat /\ Second * (b \div Second) \in Nat /\ n * Second \in Nat
  BY <1>1, SecondAssumption
<1> QED BY <1>1, <1>2, <1>3, <1>4, <1>5, SecondAssumption

-----------------------------------------------------------------------------
(* What the steps of the library make of an operation.                     *)

LEMMA AskingOK ==
    ASSUME TypeOK, NEW o \in Operations, NEW ask \in Asks,
           o.start <= clock,
           ask \notin Openings => o.end = (o.start \div Second) + o.seconds,
           clock + Ahead(Asking(o, ask)) <= Latest(o),
           AskOK(Asking(o, ask))
    PROVE  Asking(o, ask) \in Operations /\ OperationOK(Asking(o, ask))
<1> DEFINE p == Asking(o, ask)
<1>1. /\ p.kind = o.kind /\ p.seconds = o.seconds /\ p.start = o.start /\ p.end = o.end
      /\ p.stage = "calling" /\ p.ask = ask /\ p.since = clock /\ p.reply = "none"
  BY DEF Asking, Operations
<1>2. p \in Operations
  BY DEF Asking, Operations, TypeOK
<1> QED BY <1>1, <1>2, CallLimitAssumption DEF OperationOK, TimesOK, ReplyOK, OutcomeOK, Latest, TypeOK

LEMMA SleepingOK ==
    ASSUME TypeOK, NEW o \in Operations, o.kind = "sleep", o.ask \in {"wait", "state"},
           o.start <= clock, o.end = (o.start \div Second) + o.seconds,
           clock + Second + CallLimit <= Latest(o)
    PROVE  Sleeping(o) \in Operations /\ OperationOK(Sleeping(o))
<1> DEFINE p == Sleeping(o)
<1>1. /\ p.kind = o.kind /\ p.seconds = o.seconds /\ p.start = o.start /\ p.end = o.end
      /\ p.stage = "sleeping" /\ p.ask = o.ask /\ p.since = clock /\ p.reply = "none"
  BY DEF Sleeping, Operations
<1>2. p \in Operations
  BY DEF Sleeping, Operations, TypeOK
<1>3. AskOK(p) /\ ReplyOK(p) /\ OutcomeOK(p)
  BY <1>1 DEF AskOK, ReplyOK, OutcomeOK
<1>4. clock + Ahead(p) <= Latest(p)
  BY <1>1, SecondAssumption, CallLimitAssumption DEF Ahead, Latest, TypeOK
<1>5. TimesOK(p)
  BY <1>1, <1>4, SecondAssumption DEF TimesOK, TypeOK
<1> QED BY <1>2, <1>3, <1>5 DEF OperationOK

\* What an operation must have learned to end as out at this tick.
MayEnd(o, out) ==
    /\ out = "ok" /\ o.seconds > 0 => SeenSince(Awaited(o.kind), o.since)
    /\ out \in {"Timeout", "gaveup"} /\ o.seconds > 0 =>
           SeenSince(NotAwaited(o.kind), o.start)
    /\ out \in {"skipped", "refused"} => SeenSince(NotAwaited(o.kind), o.start)
    /\ out \in {"Timeout", "gaveup"} \/ (out = "ok" /\ o.kind = "sleep") =>
           clock > o.start + (o.seconds - 1) * Second
    /\ clock <= Latest(o)

LEMMA DoneOK ==
    ASSUME TypeOK, NEW o \in Operations, NEW out \in Outcomes, MayEnd(o, out)
    PROVE  Done(o, out) \in Operations /\ OperationOK(Done(o, out))
<1> DEFINE p == Done(o, out)
<1>1. /\ p.kind = o.kind /\ p.seconds = o.seconds /\ p.start = o.start /\ p.since = o.since
      /\ p.stage = "done" /\ p.out = out /\ p.doneAt = clock
  BY DEF Done, Operations
<1>2. p \in Operations
  BY DEF Done, Operations, TypeOK
<1>3. AskOK(p) /\ TimesOK(p) /\ ReplyOK(p)
  BY <1>1 DEF AskOK, TimesOK, ReplyOK, InProgress
<1>4. OutcomeOK(p)
  BY <1>1 DEF OutcomeOK, MayEnd, Latest
<1> QED BY <1>2, <1>3, <1>4 DEF OperationOK

\* The loop of o may give up: what it has learned when its time is over.
MayGiveUp(o) ==
    o.seconds > 0 =>
        /\ o.kind = "sleep" => SeenSince(Awaited(o.kind), o.since)
        /\ o.kind = "unlock" => o.rc /= "ok"
        /\ o.kind /= "sleep" => SeenSince(NotAwaited(o.kind), o.start)

(* A loop that is at its while either gives up, at its time and with a     *)
(* reason, or begins a round that is over by Latest.                       *)
LEMMA RoundOK ==
    ASSUME TypeOK, NEW o \in Operations,
           o.start <= clock, o.end = (o.start \div Second) + o.seconds,
           clock <= Latest(o),
           o.kind = "sleep" => o.ask \in {"wait", "state"},
           ~(Now < o.end) => MayGiveUp(o)
    PROVE  Round(o) \in Operations /\ OperationOK(Round(o))
<1>0. /\ clock \in Nat /\ o.start \in Nat /\ o.seconds \in Nat /\ o.kind \in AllKinds
      /\ o.rc \in Answers
      /\ o.seconds * Second \in Nat
      /\ Second \in Nat /\ CallLimit \in Nat
  BY SecondAssumption, CallLimitAssumption DEF TypeOK, Operations
<1>1. CASE Now < o.end
  <2>1. clock < o.start + o.seconds * Second
    BY <1>0, <1>1, InTime DEF Now
  <2>2. CASE o.kind = "sleep"
    <3>1. clock + Second + CallLimit <= Latest(o)
      BY <1>0, <2>1, <2>2 DEF Latest, RoundLimit
    <3> QED BY <1>1, <2>2, <3>1, SleepingOK DEF Round, BeginRound
  <2>3. CASE o.kind \in {"action", "try"}
    <3> DEFINE p == Asking(o, "discarded")
    <3>1. p.stage = "calling" /\ p.ask = "discarded" /\ p.kind = o.kind
      BY DEF Asking, Operations
    <3>2. Ahead(p) = 2 * CallLimit
      BY <3>1 DEF Ahead
    <3>3. Latest(o) = o.start + o.seconds * Second + 2 * CallLimit
      BY <2>3 DEF Latest, RoundLimit
    <3>4. clock + Ahead(p) <= Latest(o)
      BY <1>0, <2>1, <3>2, <3>3
    <3>5. AskOK(p)
      BY <2>3, <3>1 DEF AskOK
    <3> QED BY <1>1, <2>3, <3>4, <3>5, AskingOK DEF Round, BeginRound, Asks
  <2>4. CASE o.kind \in {"wait", "unlock", "connect"}
    <3> DEFINE p == Asking(o, "wait")
    <3>1. p.stage = "calling" /\ p.ask = "wait" /\ p.kind = o.kind
      BY DEF Asking, Operations
    <3>2. Ahead(p) = CallLimit
      BY <3>1 DEF Ahead
    <3>3. Latest(o) = o.start + o.seconds * Second + CallLimit
      BY <2>4 DEF Latest, RoundLimit
    <3>4. clock + Ahead(p) <= Latest(o)
      BY <1>0, <2>1, <3>2, <3>3
    <3>5. AskOK(p)
      BY <2>4, <3>1 DEF AskOK
    <3> QED BY <1>1, <2>4, <3>4, <3>5, AskingOK DEF Round, BeginRound, Asks
  <2> QED BY <1>0, <2>2, <2>3, <2>4 DEF AllKinds
<1>2. CASE ~(Now < o.end)
  <2>1. clock > o.start + (o.seconds - 1) * Second
    BY <1>0, <1>2, OutOfTime DEF Now
  <2>2. PICK out \in Outcomes : GiveUp(o) = Done(o, out) /\ MayEnd(o, out)
    <3>1. CASE o.kind \in {"wait", "connect"}
      BY <1>2, <2>1, <3>1 DEF GiveUp, MayGiveUp, MayEnd, Outcomes
    <3>2. CASE o.kind \in {"action", "try"}
      BY <1>2, <2>1, <3>2 DEF GiveUp, MayGiveUp, MayEnd, Outcomes
    <3>3. CASE o.kind = "unlock"
      BY <1>0, <1>2, <2>1, <3>3 DEF GiveUp, MayGiveUp, MayEnd, Outcomes
    <3>4. CASE o.kind = "sleep"
      BY <1>2, <2>1, <3>4 DEF GiveUp, MayGiveUp, MayEnd, Outcomes
    <3> QED BY <1>0, <3>1, <3>2, <3>3, <3>4 DEF AllKinds
  <2> QED BY <1>2, <2>2, DoneOK DEF Round
<1> QED BY <1>1, <1>2

(* A loop that is entered: with seconds = 0 it ends at once.               *)
LEMMA LoopOK ==
    ASSUME TypeOK, NEW o \in Operations,
           o.kind = "sleep" => o.ask \in {"wait", "state"}
    PROVE  Loop(o) \in Operations /\ OperationOK(Loop(o))
<1> DEFINE p == [o EXCEPT !.start = clock, !.end = Now + o.seconds]
<1>a. clock \in Nat /\ o.seconds \in Nat /\ o.kind \in AllKinds
  BY DEF TypeOK, Operations
<1>b. Now \in Nat /\ Now + o.seconds \in Nat
  BY <1>a, SecondAssumption DEF Now
<1>0. o.seconds * Second \in Nat
  BY <1>a, SecondAssumption
<1>1. /\ p.kind = o.kind /\ p.seconds = o.seconds /\ p.start = clock
      /\ p.end = (p.start \div Second) + p.seconds
      /\ p.ask = o.ask
  BY DEF Operations, Now
<1>2. p \in Operations
  BY <1>a, <1>b DEF Operations
<1>3. RoundLimit(p.kind) \in Nat
  BY <1>a, <1>1, SecondAssumption, CallLimitAssumption DEF RoundLimit, AllKinds
<1>4. clock <= Latest(p)
  BY <1>a, <1>0, <1>1, <1>3 DEF Latest
<1>5. ~(Now < p.end) => MayGiveUp(p)
  BY <1>a, <1>b, <1>1 DEF MayGiveUp, Now
<1> HIDE DEF p
<1>6. Round(p) \in Operations /\ OperationOK(Round(p))
  BY <1>a, <1>1, <1>2, <1>4, <1>5, RoundOK
<1> QED BY <1>6 DEF Loop, p

\* What is known of an operation inside a call.
LEMMA CallingFacts ==
    ASSUME TypeOK, NEW o \in Operations, o.stage = "calling", OperationOK(o)
    PROVE  /\ o.start <= o.since /\ o.since <= clock /\ o.start <= clock
           /\ clock <= o.since + CallLimit
           /\ o.since + Ahead(o) <= Latest(o)
           /\ Latest(o) \in Nat
           /\ clock <= Latest(o)
<1>1. o.start \in Nat /\ o.since \in Nat /\ o.seconds \in Nat /\ o.kind \in AllKinds /\ clock \in Nat
  BY DEF Operations, TypeOK
<1>2. o.seconds * Second \in Nat
  BY <1>1, SecondAssumption
<1>3. RoundLimit(o.kind) \in Nat
  BY <1>1, SecondAssumption, CallLimitAssumption DEF RoundLimit, AllKinds
<1>4. Latest(o) \in Nat
  BY <1>1, <1>2, <1>3 DEF Latest
<1>5. /\ o.start <= o.since /\ o.since <= clock /\ clock <= o.since + CallLimit
      /\ o.since + Ahead(o) <= Latest(o)
  BY DEF OperationOK, TimesOK, InProgress
<1>6. Ahead(o) \in {CallLimit, 2 * CallLimit}
  BY DEF Ahead
<1> QED BY <1>1, <1>4, <1>5, <1>6, CallLimitAssumption

\* An earlier moment asks for less.
LEMMA SeenEarlier ==
    ASSUME TypeOK, NEW ts, ts \subseteq Terminals, NEW a \in Nat, NEW b \in Nat,
           a <= b, SeenSince(ts, b)
    PROVE  SeenSince(ts, a)
BY DEF SeenSince, TypeOK, Never

LEMMA NotAwaitedType == ASSUME NEW k PROVE NotAwaited(k) \subseteq Terminals
BY DEF NotAwaited

(* After connecting or activating.                                         *)
LEMMA LoopIfSecondsOK ==
    ASSUME TypeOK, NEW o \in Operations, o.kind \in {"connect", "action", "try"},
           clock <= Latest(o)
    PROVE  LoopIfSeconds(o) \in Operations /\ OperationOK(LoopIfSeconds(o))
<1>1. CASE o.seconds = 0
  <2>1. MayEnd(o, "ok")
    BY <1>1 DEF MayEnd
  <2> QED BY <1>1, <2>1, DoneOK DEF LoopIfSeconds, Outcomes
<1>2. CASE o.seconds /= 0
  BY <1>2, LoopOK DEF LoopIfSeconds
<1> QED BY <1>1, <1>2

(* The call of an operation returns: whatever the response makes of it is  *)
(* in order.                                                               *)
LEMMA ReceiveOK ==
    ASSUME TypeOK, NEW o \in Operations, o.stage = "calling", o.reply /= "none",
           OperationOK(o),
           NEW p,
           p = CASE o.ask = "connect" -> AfterConnect(o)
                 [] o.ask = "activatable" -> AfterActivatable(o)
                 [] o.ask = "activate" -> AfterActivate(o)
                 [] o.ask = "discarded" -> Asking(o, "wait")
                 [] o.ask = "wait" -> AfterWait(o)
                 [] o.ask = "state" -> AfterState(o)
    PROVE  p \in Operations /\ OperationOK(p)
<1>1. /\ o.start <= o.since /\ o.since <= clock /\ o.start <= clock
      /\ clock <= o.since + CallLimit
      /\ o.since + Ahead(o) <= Latest(o)
      /\ Latest(o) \in Nat
      /\ clock <= Latest(o)
  BY CallingFacts
<1>2. /\ o.start \in Nat /\ o.since \in Nat /\ clock \in Nat /\ CallLimit \in Nat
      /\ o.ask \in Asks /\ o.reply \in Answers /\ o.kind \in AllKinds
  BY CallLimitAssumption DEF Operations, TypeOK
<1>3. AskOK(o) /\ ReplyOK(o)
  BY DEF OperationOK
<1>4. o.ask \notin Openings => o.end = (o.start \div Second) + o.seconds
  BY DEF OperationOK, TimesOK, InProgress
<1>5. CASE o.ask = "connect"
  BY <1>1, <1>3, <1>5, LoopIfSecondsOK DEF AfterConnect, AskOK
<1>6. CASE o.ask = "activatable"
  <2>1. o.kind = "try" /\ Ahead(o) = 2 * CallLimit
    BY <1>3, <1>6 DEF AskOK, Ahead
  <2>2. CASE o.reply = "ok"
    <3> DEFINE q == Asking(o, "activate")
    <3>1. q.stage = "calling" /\ q.ask = "activate" /\ q.kind = "try"
      BY <2>1 DEF Asking, Operations
    <3>2. Ahead(q) = CallLimit /\ AskOK(q)
      BY <3>1 DEF Ahead, AskOK
    <3>3. clock + Ahead(q) <= Latest(o)
      BY <1>1, <1>2, <2>1, <3>2
    <3> QED BY <1>1, <1>6, <2>2, <3>2, <3>3, AskingOK DEF AfterActivatable, Asks, Openings
  <2>3. CASE o.reply /= "ok"
    <3>1. SeenSince(NotAwaited(o.kind), o.since)
      BY <1>2, <1>3, <1>6, <2>3 DEF ReplyOK, Answers
    <3>2. MayEnd(o, "skipped")
      BY <1>1, <1>2, <3>1, SeenEarlier, NotAwaitedType DEF MayEnd
    <3> QED BY <1>6, <2>3, <3>2, DoneOK DEF AfterActivatable, Outcomes
  <2> QED BY <2>2, <2>3
<1>7. CASE o.ask = "activate"
  <2>1. CASE o.reply = "ok"
    BY <1>1, <1>3, <1>7, <2>1, LoopIfSecondsOK DEF AfterActivate, AskOK
  <2>2. CASE o.reply /= "ok"
    <3>1. SeenSince(NotAwaited(o.kind), o.since)
      BY <1>2, <1>3, <1>7, <2>2 DEF ReplyOK, Answers
    <3>2. MayEnd(o, "refused")
      BY <1>1, <1>2, <3>1, SeenEarlier, NotAwaitedType DEF MayEnd
    <3> QED BY <1>7, <2>2, <3>2, DoneOK DEF AfterActivate, Outcomes
  <2> QED BY <2>1, <2>2
<1>8. CASE o.ask = "discarded"
  <2>1. o.kind \in {"action", "try"} /\ Ahead(o) = 2 * CallLimit
    BY <1>3, <1>8 DEF AskOK, Ahead
  <2> DEFINE q == Asking(o, "wait")
  <2>2. q.stage = "calling" /\ q.ask = "wait" /\ q.kind = o.kind
    BY DEF Asking, Operations
  <2>3. Ahead(q) = CallLimit /\ AskOK(q)
    BY <2>1, <2>2 DEF Ahead, AskOK
  <2>4. clock + Ahead(q) <= Latest(o)
    BY <1>1, <1>2, <2>1, <2>3
  <2> QED BY <1>1, <1>4, <1>8, <2>3, <2>4, AskingOK DEF Asks, Openings
<1>9. CASE o.ask = "wait"
  <2>1. o.kind /= "sleep" /\ o.end = (o.start \div Second) + o.seconds
    BY <1>3, <1>4, <1>9 DEF AskOK, Openings
  <2>2. CASE o.reply = "ok"
    <3>1. MayEnd(o, "ok")
      BY <1>1, <1>3, <1>9, <2>1, <2>2 DEF MayEnd, ReplyOK
    <3> QED BY <1>9, <2>2, <3>1, DoneOK DEF AfterWait, Outcomes
  <2>3. CASE o.reply /= "ok"
    <3>1. SeenSince(NotAwaited(o.kind), o.since)
      BY <1>2, <1>3, <1>9, <2>3 DEF ReplyOK, Answers
    <3>2. SeenSince(NotAwaited(o.kind), o.start)
      BY <1>1, <1>2, <3>1, SeenEarlier, NotAwaitedType
    <3>3. CASE o.kind = "unlock"
      <4> DEFINE q == [o EXCEPT !.rc = o.reply]
      <4>1. q \in Operations
        BY <1>2 DEF Operations
      <4>2. /\ q.rc /= "ok" /\ q.kind = o.kind /\ q.start = o.start
            /\ q.end = o.end /\ q.seconds = o.seconds /\ q.ask = o.ask
        BY <2>3 DEF Operations
      <4> HIDE DEF q
      <4>3. Latest(q) = Latest(o)
        BY <4>2 DEF Latest
      <4>4. MayGiveUp(q)
        BY <3>2, <3>3, <4>2 DEF MayGiveUp
      <4>5. Round(q) \in Operations /\ OperationOK(Round(q))
        BY <1>1, <2>1, <4>1, <4>2, <4>3, <4>4, RoundOK
      <4> QED BY <1>9, <2>3, <3>3, <4>5 DEF AfterWait, q
    <3>4. CASE o.kind /= "unlock" /\ o.reply = "busy"
      <4>1. MayGiveUp(o)
        BY <2>1, <3>2, <3>4 DEF MayGiveUp
      <4> QED BY <1>1, <1>9, <2>1, <3>4, <4>1, RoundOK DEF AfterWait
    <3>5. CASE o.kind /= "unlock" /\ o.reply = "offline"
      <4>1. MayEnd(o, "error")
        BY <1>1 DEF MayEnd
      <4> QED BY <1>9, <3>5, <4>1, DoneOK DEF AfterWait, Outcomes
    <3> QED BY <1>2, <2>3, <3>3, <3>4, <3>5 DEF Answers
  <2> QED BY <2>2, <2>3
<1>10. CASE o.ask = "state"
  <2>1. o.kind = "sleep" /\ o.end = (o.start \div Second) + o.seconds
    BY <1>3, <1>4, <1>10 DEF AskOK, Openings
  <2>2. CASE o.reply = "offline"
    <3>1. MayEnd(o, "error")
      BY <1>1 DEF MayEnd
    <3> QED BY <1>10, <2>2, <3>1, DoneOK DEF AfterState, Outcomes
  <2>3. CASE o.reply /= "offline"
    <3>1. SeenSince(Awaited(o.kind), o.since)
      BY <1>2, <1>3, <1>10, <2>3 DEF ReplyOK, Answers
    <3>2. MayGiveUp(o)
      BY <2>1, <3>1 DEF MayGiveUp
    <3> QED BY <1>1, <1>10, <2>1, <2>3, <3>2, RoundOK DEF AfterState
  <2> QED BY <2>2, <2>3
<1> QED BY <1>2, <1>5, <1>6, <1>7, <1>8, <1>9, <1>10 DEF Asks

-----------------------------------------------------------------------------
(* The steps.                                                              *)

(* A step of one operation.                                                *)
LEMMA OneOperation ==
    ASSUME IInv, NEW c \in Client, NEW p \in Operations, OperationOK(p),
           op' = [op EXCEPT ![c] = p], UNCHANGED <<clock, terminal, seen>>
    PROVE  IInv'
<1>1. TypeOK'
  BY DEF IInv, TypeOK
<1>2. SeenOK'
  BY DEF IInv, SeenOK
<1>3. ASSUME NEW d \in Client PROVE OperationOK(op[d])'
  <2>1. OperationOK(op'[d])
    BY DEF IInv, TypeOK
  <2> QED
    BY <2>1 DEF OperationOK, AskOK, TimesOK, ReplyOK, OutcomeOK, Latest, Ahead,
                InProgress, SeenSince
<1> QED BY <1>1, <1>2, <1>3 DEF IInv

(* A step of the terminal or of the clock, which no operation in progress  *)
(* has to forbid.                                                          *)
LEMMA TerminalOrClock ==
    ASSUME IInv, TypeOK', SeenOK', op' = op, clock <= clock',
           \A t \in Terminals : seen[t] <= seen'[t],
           \A c \in Client : InProgress(op[c]) =>
               clock' <= op[c].since + (IF op[c].stage = "sleeping" THEN Second ELSE CallLimit)
    PROVE  IInv'
<1>1. ASSUME NEW c \in Client PROVE OperationOK(op[c])'
  <2> DEFINE o == op[c]
  <2>1. o \in Operations /\ OperationOK(o) /\ o' = o
    BY DEF IInv, TypeOK
  <2>2. clock \in Nat /\ clock' \in Nat /\ o.since \in Nat /\ o.start \in Nat
    BY <2>1 DEF IInv, TypeOK, Operations
  <2>3. ASSUME NEW ts, ts \subseteq Terminals, NEW a \in Nat, SeenSince(ts, a)
        PROVE  \E s \in ts : seen'[s] >= a
    BY <2>3 DEF SeenSince, IInv, TypeOK, Never
  <2>4. Awaited(o.kind) \subseteq Terminals /\ NotAwaited(o.kind) \subseteq Terminals
    BY DEF Awaited, NotAwaited, Terminals
  <2>5. AskOK(o)'
    BY <2>1 DEF OperationOK, AskOK
  <2>6. TimesOK(o)'
    BY <2>1, <2>2 DEF OperationOK, TimesOK, InProgress, Ahead, Latest
  <2>7. ReplyOK(o)'
    BY <2>1, <2>2, <2>3, <2>4 DEF OperationOK, ReplyOK, SeenSince
  <2>8. OutcomeOK(o)'
    BY <2>1, <2>2, <2>3, <2>4 DEF OperationOK, OutcomeOK, SeenSince, Latest
  <2> QED BY <2>5, <2>6, <2>7, <2>8 DEF OperationOK
<1> QED BY <1>1 DEF IInv

LEMMA FreshOK ==
    ASSUME TypeOK, NEW k \in AllKinds, NEW n \in Nat
    PROVE  Fresh(k, n) \in Operations
BY DEF Fresh, Operations, TypeOK, Asks, Answers, Outcomes

LEMMA InitIInv == Init => IInv
<1> SUFFICES ASSUME Init PROVE IInv
    OBVIOUS
<1>1. clock \in Nat /\ terminal \in Terminals /\ seen \in [Terminals -> Nat \cup {Never}]
  BY DEF Init
<1>2. Fresh("wait", 0) \in Operations
  BY <1>1 DEF Fresh, Operations, Asks, Answers, Outcomes, AllKinds
<1>3. TypeOK
  BY <1>1, <1>2 DEF Init, TypeOK
<1>4. OperationOK(Fresh("wait", 0))
  BY DEF Fresh, OperationOK, AskOK, TimesOK, ReplyOK, OutcomeOK, InProgress
<1>5. SeenOK
  BY DEF Init, SeenOK, Never
<1> QED BY <1>3, <1>4, <1>5 DEF Init, IInv

LEMMA StartOK ==
    ASSUME IInv, NEW c \in Client, NEW k \in Kinds, NEW n \in Seconds, Start(c, k, n)
    PROVE  IInv'
<1> DEFINE o == Fresh(k, n)
<1>1. TypeOK /\ k \in AllKinds /\ n \in Nat /\ clock \in Nat
  BY KindsAssumption, SecondsAssumption DEF IInv, TypeOK
<1>2. /\ o \in Operations /\ o.start = clock /\ o.seconds = n /\ o.kind = k /\ o.ask = "wait"
  BY <1>1, FreshOK DEF Fresh
<1>3. n * Second \in Nat /\ CallLimit \in Nat
  BY <1>1, SecondAssumption, CallLimitAssumption
<1> HIDE DEF o
<1>4. ASSUME NEW ask \in Openings,
             k = CASE ask = "connect" -> "connect"
                   [] ask = "activate" -> "action"
                   [] ask = "activatable" -> "try"
      PROVE  Asking(o, ask) \in Operations /\ OperationOK(Asking(o, ask))
  <2> DEFINE q == Asking(o, ask)
  <2>1. q.stage = "calling" /\ q.ask = ask /\ q.kind = k
    BY <1>2 DEF Asking, Operations
  <2>2. Ahead(q) = RoundLimit(k) \/ Ahead(q) + CallLimit = RoundLimit(k)
    BY <1>3, <1>4, <2>1 DEF Ahead, RoundLimit, Openings
  <2>3. RoundLimit(k) \in Nat /\ Ahead(q) \in Nat
    BY <1>1, <1>3, <2>1, SecondAssumption DEF RoundLimit, Ahead, AllKinds
  <2>4. clock + Ahead(q) <= Latest(o)
    BY <1>1, <1>2, <1>3, <2>2, <2>3 DEF Latest
  <2>5. AskOK(q)
    BY <1>4, <2>1 DEF AskOK, Openings
  <2> QED BY <1>1, <1>2, <2>4, <2>5, AskingOK DEF Openings, Asks
<1>5. PICK p \in Operations : OperationOK(p) /\ op' = [op EXCEPT ![c] = p]
  <2>1. CASE k = "connect"
    BY <2>1, <1>4 DEF Start, Openings, o
  <2>2. CASE k = "action"
    BY <2>2, <1>4 DEF Start, Openings, o
  <2>3. CASE k = "try"
    BY <2>3, <1>4 DEF Start, Openings, o
  <2>4. CASE k \notin {"connect", "action", "try"}
    <3>1. Loop(o) \in Operations /\ OperationOK(Loop(o))
      BY <1>1, <1>2, LoopOK
    <3> QED BY <2>4, <3>1 DEF Start, o
  <2> QED BY <2>1, <2>2, <2>3, <2>4
<1> QED BY <1>5, OneOperation DEF Start

\* A call that throws ends its operation, at any moment it may do so.
LEMMA ThrowOK ==
    ASSUME IInv, NEW c \in Client, op[c].stage = "calling",
           op' = [op EXCEPT ![c] = Done(@, "error")], UNCHANGED <<clock, terminal, seen>>
    PROVE  IInv'
<1> DEFINE o == op[c]
<1>1. TypeOK /\ o \in Operations /\ OperationOK(o)
  BY DEF IInv, TypeOK
<1>2. clock <= Latest(o)
  BY <1>1, CallingFacts
<1>3. MayEnd(o, "error")
  BY <1>2 DEF MayEnd
<1>4. Done(o, "error") \in Operations /\ OperationOK(Done(o, "error"))
  BY <1>1, <1>3, DoneOK DEF Outcomes
<1> QED BY <1>4, OneOperation

\* A sleep is over: the state is asked for.
LEMMA WakeUpOK ==
    ASSUME IInv, NEW c \in Client, WakeUp(c)
    PROVE  IInv'
<1> DEFINE o == op[c]
           q == Asking(o, "state")
<1>1. TypeOK /\ o \in Operations /\ AskOK(o) /\ TimesOK(o) /\ o.stage = "sleeping"
  BY DEF IInv, TypeOK, OperationOK, WakeUp
<1>2. /\ o.start \in Nat /\ o.since \in Nat /\ clock \in Nat /\ clock = o.since + Second
      /\ Second \in Nat /\ CallLimit \in Nat
  BY <1>1, SecondAssumption, CallLimitAssumption DEF Operations, TypeOK, WakeUp
<1>3. /\ o.start <= clock /\ o.end = (o.start \div Second) + o.seconds
      /\ o.since + Ahead(o) <= Latest(o)
  BY <1>1, <1>2 DEF TimesOK, InProgress, AskOK, Openings
<1>4. q.stage = "calling" /\ q.ask = "state" /\ q.kind = o.kind
  BY <1>1 DEF Asking, Operations
<1>5. Ahead(o) = Second + CallLimit /\ Ahead(q) = CallLimit
  BY <1>1, <1>4 DEF Ahead
<1>6. o.seconds * Second \in Nat /\ RoundLimit(o.kind) \in Nat
  BY <1>1, SecondAssumption, CallLimitAssumption DEF Operations, RoundLimit, AllKinds
<1>7. Latest(o) \in Nat
  BY <1>2, <1>6 DEF Latest
<1>8. clock + Ahead(q) <= Latest(o)
  BY <1>2, <1>3, <1>5, <1>7
<1>9. AskOK(q)
  BY <1>1, <1>4 DEF AskOK
<1> HIDE DEF o
<1>10. q \in Operations /\ OperationOK(q)
  BY <1>1, <1>3, <1>8, <1>9, AskingOK DEF Asks
<1> QED BY <1>10, OneOperation DEF WakeUp, o

\* pw3270 replies with what its terminal is at this moment.
LEMMA ReplyStepOK ==
    ASSUME IInv, NEW c \in Client, Reply(c)
    PROVE  IInv'
<1> DEFINE o == op[c]
<1>1. /\ TypeOK /\ o \in Operations /\ OperationOK(o) /\ o.stage = "calling"
      /\ terminal \in Terminals /\ seen[terminal] = clock
      /\ o.kind \in AllKinds /\ o.ask \in Asks /\ o.since \in Nat /\ clock \in Nat
  BY DEF IInv, TypeOK, SeenOK, Reply, Operations
<1>2. PICK r \in Possible(o) : op' = [op EXCEPT ![c].reply = r]
  BY DEF Reply
<1>3. r \in Answers
  BY <1>1, <1>2 DEF Possible, Asks, Answers
<1> DEFINE q == [o EXCEPT !.reply = r]
<1>4. /\ q \in Operations
      /\ q.kind = o.kind /\ q.seconds = o.seconds /\ q.start = o.start /\ q.end = o.end
      /\ q.stage = o.stage /\ q.ask = o.ask /\ q.since = o.since /\ q.reply = r
  BY <1>1, <1>3 DEF Operations
<1>5. op' = [op EXCEPT ![c] = q]
  BY <1>2
<1>6. o.since <= clock
  BY <1>1, CallingFacts
<1> HIDE DEF o, q
<1>7. AskOK(q) /\ TimesOK(q) /\ OutcomeOK(q)
  BY <1>1, <1>4 DEF OperationOK, AskOK, TimesOK, OutcomeOK, InProgress, Ahead, Latest
<1>8. ReplyOK(q)
  <2>1. CASE terminal \in Awaited(o.kind)
    <3>1. SeenSince(Awaited(o.kind), o.since)
      BY <1>1, <1>6, <2>1 DEF SeenSince
    <3>2. r \in {"busy", "offline"} => o.ask \notin {"wait", "activatable", "activate"}
      BY <1>1, <1>2, <1>3, <2>1 DEF Possible, Answers, Awaited, OperationOK, AskOK
    <3>3. o.ask = "state" => r /= "busy"
      BY <1>2 DEF Possible
    <3> QED BY <1>4, <3>1, <3>2, <3>3 DEF ReplyOK
  <2>2. CASE terminal \notin Awaited(o.kind)
    <3>1. SeenSince(NotAwaited(o.kind), o.since)
      BY <1>1, <1>6, <2>2 DEF SeenSince, NotAwaited
    <3>2. r = "ok" => o.ask \notin {"wait", "state"}
      BY <1>1, <1>2, <1>3, <2>2 DEF Possible, Answers, Awaited, Terminals, OperationOK, AskOK
    <3>3. o.ask = "state" => r /= "busy"
      BY <1>2 DEF Possible
    <3> QED BY <1>4, <3>1, <3>2, <3>3 DEF ReplyOK
  <2> QED BY <2>1, <2>2
<1>9. OperationOK(q)
  BY <1>7, <1>8 DEF OperationOK
<1> QED BY <1>4, <1>5, <1>9, OneOperation DEF Reply

LEMMA NextIInv == IInv /\ [Next]_vars => IInv'
<1> SUFFICES ASSUME IInv, [Next]_vars PROVE IInv'
    OBVIOUS
<1>0. TypeOK /\ SeenOK /\ clock \in Nat
  BY DEF IInv, TypeOK
<1>1. ASSUME NEW c \in Client, NEW k \in Kinds, NEW n \in Seconds, Start(c, k, n) PROVE IInv'
  BY <1>1, StartOK
<1>2. ASSUME NEW c \in Client, Receive(c) PROVE IInv'
  <2> DEFINE o == op[c]
  <2>1. o \in Operations /\ OperationOK(o)
    BY DEF IInv, TypeOK
  <2>2. PICK p : /\ op' = [op EXCEPT ![c] = p]
                 /\ p = CASE o.ask = "connect" -> AfterConnect(o)
                          [] o.ask = "activatable" -> AfterActivatable(o)
                          [] o.ask = "activate" -> AfterActivate(o)
                          [] o.ask = "discarded" -> Asking(o, "wait")
                          [] o.ask = "wait" -> AfterWait(o)
                          [] o.ask = "state" -> AfterState(o)
    BY <1>2 DEF Receive
  <2>3. p \in Operations /\ OperationOK(p)
    BY <1>0, <1>2, <2>1, <2>2, ReceiveOK DEF Receive
  <2> QED BY <1>2, <2>2, <2>3, OneOperation DEF Receive
<1>3. ASSUME NEW c \in Client, WakeUp(c) PROVE IInv'
  BY <1>3, WakeUpOK
<1>4. ASSUME NEW c \in Client, Expire(c) PROVE IInv'
  BY <1>4, ThrowOK DEF Expire
<1>5. ASSUME NEW c \in Client, BusError(c) PROVE IInv'
  BY <1>5, ThrowOK DEF BusError
<1>6. ASSUME NEW c \in Client, Reply(c) PROVE IInv'
  BY <1>6, ReplyStepOK
<1>7. ASSUME NEW t \in Terminals, Change(t) PROVE IInv'
  <2>1. /\ op' = op /\ clock' = clock /\ TypeOK' /\ SeenOK'
        /\ \A s \in Terminals : seen[s] <= seen'[s]
    BY <1>0, <1>7 DEF Change, TypeOK, SeenOK, Never
  <2>2. \A c \in Client : InProgress(op[c]) =>
            clock' <= op[c].since + (IF op[c].stage = "sleeping" THEN Second ELSE CallLimit)
    BY <2>1 DEF IInv, OperationOK, TimesOK
  <2> QED BY <1>0, <2>1, <2>2, TerminalOrClock
<1>8. CASE Tick
  <2>1. /\ op' = op /\ clock' = clock + 1 /\ terminal' = terminal
        /\ seen' = [seen EXCEPT ![terminal] = clock + 1]
    BY <1>8 DEF Tick
  <2>2. TypeOK' /\ SeenOK' /\ \A s \in Terminals : seen[s] <= seen'[s]
    BY <1>0, <2>1 DEF TypeOK, SeenOK, Never
  <2>3. ASSUME NEW c \in Client, InProgress(op[c])
        PROVE  clock' <= op[c].since + (IF op[c].stage = "sleeping" THEN Second ELSE CallLimit)
    <3>1. clock < Due(op[c]) /\ op[c].since \in Nat
      BY <1>8, <2>3 DEF Tick, Busy, InProgress, IInv, TypeOK, Operations
    <3> QED
      BY <1>0, <2>1, <2>3, <3>1, SecondAssumption, CallLimitAssumption, AnswerLimitAssumption
         DEF Due, InProgress
  <2> QED BY <1>0, <2>1, <2>2, <2>3, TerminalOrClock
<1>9. CASE UNCHANGED vars
  <2>1. op' = op /\ clock' = clock /\ terminal' = terminal /\ seen' = seen
    BY <1>9 DEF vars
  <2>2. TypeOK' /\ SeenOK' /\ \A s \in Terminals : seen[s] <= seen'[s]
    BY <1>0, <2>1 DEF TypeOK, SeenOK, Never
  <2>3. \A c \in Client : InProgress(op[c]) =>
            clock' <= op[c].since + (IF op[c].stage = "sleeping" THEN Second ELSE CallLimit)
    BY <2>1 DEF IInv, OperationOK, TimesOK
  <2> QED BY <1>0, <2>1, <2>2, <2>3, TerminalOrClock
<1> QED BY <1>1, <1>2, <1>3, <1>4, <1>5, <1>6, <1>7, <1>8, <1>9 DEF Next

-----------------------------------------------------------------------------
(* The invariant holds in every behaviour.                                 *)
THEOREM Invariant == Spec => []IInv
<1>1. Init => IInv
  BY InitIInv
<1>2. IInv /\ [Next]_vars => IInv'
  BY NextIInv
<1> QED BY <1>1, <1>2, PTL DEF Spec

(* Every operation and its times are well formed, always.                  *)
THEOREM TypeCorrect == Spec => []TypeOK
<1>1. IInv => TypeOK
  BY DEF IInv
<1> QED BY <1>1, Invariant, PTL

(* What an operation reports as ready was ready during its very last call. *)
THEOREM FreshSuccess == Spec => []SuccessIsFresh
<1>1. IInv => SuccessIsFresh
  BY DEF IInv, OperationOK, OutcomeOK, SuccessIsFresh, Ended, Asked, SeenSince
<1> QED BY <1>1, Invariant, PTL

(* A wait that gives up, or an action that is skipped or refused, had its  *)
(* reason: the terminal was not ready at some moment of it.                *)
THEOREM JustifiedNotReady == Spec => []NotReadyIsJustified
<1>1. IInv => NotReadyIsJustified
  BY DEF IInv, OperationOK, OutcomeOK, NotReadyIsJustified, Ended, Asked, SeenSince, NotAwaited
<1> QED BY <1>1, Invariant, PTL

(* No loop gives up a whole second early, whatever the phase of the clock. *)
THEOREM NeverEarly == Spec => []NotEarly
<1>1. IInv => NotEarly
  BY DEF IInv, OperationOK, OutcomeOK, NotEarly, Ended
<1> QED BY <1>1, Invariant, PTL

(* No operation overruns its seconds by more than one round of its loop,   *)
(* even if pw3270 never answers.                                           *)
THEOREM BoundedOverrun == Spec => []Overrun
<1>1. IInv => Overrun
  BY DEF IInv, OperationOK, OutcomeOK, Overrun, Latest
<1> QED BY <1>1, Invariant, PTL

-----------------------------------------------------------------------------
(* try_activate: its two calls, and what the terminal was at each.         *)

\* The terminal was ready when the first call was answered with yes, and was
\* something else when the second one was refused.
TryOK(o) ==
    o.kind = "try" =>
        /\ /\ o.stage = "calling"
           /\ (o.ask = "activatable" /\ o.reply = "ok") \/ o.ask = "activate"
           => SeenSince({"ready"}, o.start)
        /\ o.stage = "done" /\ o.out = "refused" =>
               SeenSince({"ready"}, o.start) /\ SeenSince(NotAwaited("try"), o.since)

Tries == \A c \in Client : TryOK(op[c])

\* A loop asks and ends in other ways.
LEMMA LoopTryOK ==
    ASSUME NEW o \in Operations
    PROVE  TryOK(Round(o)) /\ TryOK(LoopIfSeconds(o))
<1>1. ASSUME NEW q \in Operations PROVE TryOK(Round(q))
  <2>1. CASE q.kind /= "try"
    <3>1. Round(q).kind = q.kind
      BY DEF Round, BeginRound, GiveUp, Sleeping, Asking, Done, Operations, AllKinds
    <3> QED BY <2>1, <3>1 DEF TryOK
  <2>2. CASE q.kind = "try"
    <3>1. Round(q) \in {Asking(q, "discarded"), Done(q, "gaveup")}
      BY <2>2 DEF Round, BeginRound, GiveUp
    <3>2. /\ Asking(q, "discarded").stage = "calling" /\ Asking(q, "discarded").ask = "discarded"
          /\ Done(q, "gaveup").stage = "done" /\ Done(q, "gaveup").out = "gaveup"
      BY DEF Asking, Done, Operations
    <3> QED BY <3>1, <3>2 DEF TryOK
  <2> QED BY <2>1, <2>2
<1>2. TryOK(LoopIfSeconds(o))
  <2>1. CASE o.seconds = 0
    <3>1. Done(o, "ok").stage = "done" /\ Done(o, "ok").out = "ok"
      BY DEF Done, Operations
    <3> QED BY <2>1, <3>1 DEF LoopIfSeconds, TryOK
  <2>2. CASE o.seconds /= 0 /\ o.kind /= "try"
    <3> DEFINE q == [o EXCEPT !.start = clock, !.end = Now + o.seconds]
    <3>1. q.kind = o.kind
      BY DEF Operations
    <3>2. Round(q).kind = q.kind
      BY <3>1 DEF Round, BeginRound, GiveUp, Sleeping, Asking, Done, Operations, AllKinds
    <3> QED BY <2>2, <3>1, <3>2 DEF LoopIfSeconds, Loop, TryOK
  <2>3. CASE o.seconds /= 0 /\ o.kind = "try"
    <3> DEFINE q == [o EXCEPT !.start = clock, !.end = Now + o.seconds]
    <3>1. q.kind = "try"
      BY <2>3 DEF Operations
    <3>2. Round(q) \in {Asking(q, "discarded"), Done(q, "gaveup")}
      BY <3>1 DEF Round, BeginRound, GiveUp
    <3>3. /\ Asking(q, "discarded").stage = "calling" /\ Asking(q, "discarded").ask = "discarded"
          /\ Done(q, "gaveup").stage = "done" /\ Done(q, "gaveup").out = "gaveup"
      BY DEF Asking, Done, Operations
    <3> QED BY <2>3, <3>2, <3>3 DEF LoopIfSeconds, Loop, TryOK
  <2> QED BY <2>1, <2>2, <2>3
<1> QED BY <1>1, <1>2

\* What a response makes of an operation keeps TryOK.
LEMMA ReceiveTryOK ==
    ASSUME TypeOK, NEW o \in Operations, OperationOK(o), TryOK(o),
           o.stage = "calling", o.reply /= "none",
           NEW p,
           p = CASE o.ask = "connect" -> AfterConnect(o)
                 [] o.ask = "activatable" -> AfterActivatable(o)
                 [] o.ask = "activate" -> AfterActivate(o)
                 [] o.ask = "discarded" -> Asking(o, "wait")
                 [] o.ask = "wait" -> AfterWait(o)
                 [] o.ask = "state" -> AfterState(o)
    PROVE  TryOK(p)
<1>1. o.ask \in Asks /\ o.reply \in Answers
  BY DEF Operations
<1>2. ASSUME NEW out, out /= "refused" PROVE TryOK(Done(o, out))
  <2>1. Done(o, out).stage = "done" /\ Done(o, out).out = out
    BY DEF Done, Operations
  <2> QED BY <1>2, <2>1 DEF TryOK
<1>3. CASE o.ask = "connect"
  BY <1>1, <1>3, LoopTryOK DEF AfterConnect
<1>4. CASE o.ask = "activatable"
  <2>1. CASE o.reply = "ok"
    <3> DEFINE q == Asking(o, "activate")
    <3>1. q.kind = o.kind /\ q.stage = "calling" /\ q.start = o.start
      BY DEF Asking, Operations
    <3>2. TryOK(q)
      BY <1>4, <2>1, <3>1 DEF TryOK
    <3> QED BY <1>1, <1>4, <2>1, <3>2 DEF AfterActivatable
  <2>2. CASE o.reply /= "ok"
    BY <1>1, <1>2, <1>4, <2>2 DEF AfterActivatable
  <2> QED BY <2>1, <2>2
<1>5. CASE o.ask = "activate"
  <2>1. CASE o.reply = "ok"
    BY <1>1, <1>5, <2>1, LoopTryOK DEF AfterActivate
  <2>2. CASE o.reply /= "ok"
    <3> DEFINE q == Done(o, "refused")
    <3>1. /\ q.kind = o.kind /\ q.stage = "done" /\ q.start = o.start /\ q.since = o.since
      BY DEF Done, Operations
    <3>2. SeenSince(NotAwaited(o.kind), o.since)
      BY <1>1, <1>5, <2>2 DEF OperationOK, ReplyOK, Answers
    <3>3. TryOK(q)
      BY <1>5, <3>1, <3>2 DEF TryOK
    <3> QED BY <1>1, <1>5, <2>2, <3>3 DEF AfterActivate
  <2> QED BY <2>1, <2>2
<1>6. CASE o.ask = "discarded"
  <2>1. Asking(o, "wait").stage = "calling" /\ Asking(o, "wait").ask = "wait"
    BY DEF Asking, Operations
  <2> QED BY <1>1, <1>6, <2>1 DEF TryOK
<1>7. CASE o.ask = "wait"
  <2>1. [o EXCEPT !.rc = o.reply] \in Operations
    BY DEF Operations
  <2> QED BY <1>1, <1>2, <1>7, <2>1, LoopTryOK DEF AfterWait, Answers
<1>8. CASE o.ask = "state"
  BY <1>1, <1>2, <1>8, LoopTryOK DEF AfterState
<1> QED BY <1>1, <1>3, <1>4, <1>5, <1>6, <1>7, <1>8 DEF Asks

\* What has been seen stays seen.
LEMMA SeenStays ==
    ASSUME IInv, [Next]_vars
    PROVE  \A t \in Terminals : seen[t] <= seen'[t]
<1>1. ASSUME NEW t \in Terminals, Change(t) PROVE \A s \in Terminals : seen[s] <= seen'[s]
  BY <1>1 DEF Change, IInv, TypeOK, SeenOK, Never
<1>2. CASE Tick
  BY <1>2 DEF Tick, IInv, TypeOK, SeenOK, Never
<1>3. CASE seen' = seen
  BY <1>3 DEF IInv, TypeOK, Never
<1>4. Tick \/ (\E t \in Terminals : Change(t)) \/ seen' = seen
  BY DEF Next, vars, Start, Receive, WakeUp, Expire, BusError, Reply
<1> QED BY <1>1, <1>2, <1>3, <1>4

LEMMA TryStep == IInv /\ Tries /\ [Next]_vars => Tries'
<1> SUFFICES ASSUME IInv, Tries, [Next]_vars, NEW d \in Client PROVE TryOK(op[d])'
  BY DEF Tries
<1>0. /\ op \in [Client -> Operations] /\ TryOK(op[d]) /\ OperationOK(op[d])
      /\ seen \in [Terminals -> Nat \cup {Never}] /\ clock \in Nat
      /\ seen[terminal] = clock /\ terminal \in Terminals
      /\ IInv'
  BY NextIInv DEF IInv, TypeOK, Tries, SeenOK
<1>2. ASSUME NEW ts \in SUBSET Terminals, NEW a \in Nat, SeenSince(ts, a)
      PROVE  SeenSince(ts, a)'
  <2>1. \A t \in Terminals : seen[t] <= seen'[t]
    BY SeenStays
  <2>2. seen' \in [Terminals -> Nat \cup {Never}]
    BY <1>0 DEF IInv, TypeOK
  <2> QED BY <1>0, <1>2, <2>1, <2>2 DEF SeenSince, Never
\* It is enough that the operation is in order with what had been seen before.
<1>3. ASSUME TryOK(op'[d]) PROVE TryOK(op[d])'
  <2>1. op'[d] \in Operations
    BY <1>0 DEF IInv, TypeOK
  <2>2. op'[d].start \in Nat /\ op'[d].since \in Nat
    BY <2>1 DEF Operations
  <2>3. {"ready"} \subseteq Terminals /\ NotAwaited("try") \subseteq Terminals
    BY DEF NotAwaited, Terminals
  <2> QED BY <1>2, <1>3, <2>2, <2>3 DEF TryOK
<1>4. CASE op' = op
  BY <1>0, <1>3, <1>4
<1>5. ASSUME NEW c \in Client, NEW p, op' = [op EXCEPT ![c] = p], TryOK(p)
      PROVE  TryOK(op[d])'
  <2>1. op'[d] \in {op[d], p}
    BY <1>0, <1>5
  <2> QED BY <1>0, <1>3, <1>5, <2>1
<1>6. ASSUME NEW c \in Client, NEW k \in Kinds, NEW n \in Seconds, Start(c, k, n)
      PROVE  TryOK(op[d])'
  <2> DEFINE o == Fresh(k, n)
  <2>1. o \in Operations /\ o.kind = k /\ o.start = clock
    BY <1>0, FreshOK, KindsAssumption, SecondsAssumption DEF IInv, Fresh
  <2> HIDE DEF o
  <2>2. CASE k \in {"connect", "action", "try"}
    <3> DEFINE ask == CASE k = "connect" -> "connect"
                        [] k = "action" -> "activate"
                        [] k = "try" -> "activatable"
               p == Asking(o, ask)
    <3>1. op' = [op EXCEPT ![c] = p]
      BY <1>6, <2>2 DEF Start, o
    <3>2. /\ p.stage = "calling" /\ p.ask = ask /\ p.kind = k /\ p.reply = "none"
      BY <2>1 DEF Asking, Operations
    <3>3. TryOK(p)
      BY <2>2, <3>2 DEF TryOK
    <3> QED BY <1>5, <3>1, <3>3
  <2>3. CASE k \notin {"connect", "action", "try"}
    <3> DEFINE q == [o EXCEPT !.start = clock, !.end = Now + o.seconds]
    <3>1. op' = [op EXCEPT ![c] = Round(q)]
      BY <1>6, <2>3 DEF Start, Loop, o
    <3>2. q.kind = k /\ k \in AllKinds
      BY <2>1, KindsAssumption DEF Operations
    <3>3. Round(q).kind = k
      BY <3>2 DEF Round, BeginRound, GiveUp, Sleeping, Asking, Done, Operations, AllKinds
    <3>4. TryOK(Round(q))
      BY <2>3, <3>3 DEF TryOK
    <3> QED BY <1>5, <3>1, <3>4
  <2> QED BY <2>2, <2>3
<1>7. ASSUME NEW c \in Client, Receive(c) PROVE TryOK(op[d])'
  <2> DEFINE o == op[c]
  <2>1. PICK p : /\ op' = [op EXCEPT ![c] = p]
                 /\ p = CASE o.ask = "connect" -> AfterConnect(o)
                          [] o.ask = "activatable" -> AfterActivatable(o)
                          [] o.ask = "activate" -> AfterActivate(o)
                          [] o.ask = "discarded" -> Asking(o, "wait")
                          [] o.ask = "wait" -> AfterWait(o)
                          [] o.ask = "state" -> AfterState(o)
    BY <1>7 DEF Receive
  <2>2. TypeOK /\ o \in Operations /\ OperationOK(o) /\ TryOK(o)
    BY DEF IInv, TypeOK, Tries
  <2>3. TryOK(p)
    BY <1>7, <2>1, <2>2, ReceiveTryOK DEF Receive
  <2> QED BY <1>5, <2>1, <2>3
<1>8. ASSUME NEW c \in Client, WakeUp(c) PROVE TryOK(op[d])'
  <2> DEFINE p == Asking(op[c], "state")
  <2>1. p.stage = "calling" /\ p.ask = "state"
    BY <1>0 DEF Asking, Operations
  <2>2. TryOK(p)
    BY <2>1 DEF TryOK
  <2> QED BY <1>5, <1>8, <2>2 DEF WakeUp
<1>9. ASSUME NEW c \in Client, Expire(c) \/ BusError(c) PROVE TryOK(op[d])'
  <2> DEFINE p == Done(op[c], "error")
  <2>1. p.stage = "done" /\ p.out = "error"
    BY <1>0 DEF Done, Operations
  <2>2. TryOK(p)
    BY <2>1 DEF TryOK
  <2> QED BY <1>5, <1>9, <2>2 DEF Expire, BusError
<1>10. ASSUME NEW c \in Client, Reply(c) PROVE TryOK(op[d])'
  <2>1. PICK r \in Possible(op[c]) : op' = [op EXCEPT ![c].reply = r]
    BY <1>10 DEF Reply
  <2> DEFINE o == op[c]
             p == [o EXCEPT !.reply = r]
  <2>2. o \in Operations /\ TryOK(o) /\ OperationOK(o) /\ o.stage = "calling"
    BY <1>0, <1>10 DEF Tries, IInv, Reply
  <2>3. /\ p.kind = o.kind /\ p.stage = o.stage /\ p.ask = o.ask /\ p.start = o.start
        /\ p.reply = r
    BY <2>2 DEF Operations
  <2>4. o.start \in Nat /\ o.start <= clock
    BY <1>0, <2>2, CallingFacts DEF IInv, Operations
  <2>5. o.ask = "activatable" /\ r = "ok" => SeenSince({"ready"}, o.start)
    BY <1>0, <2>1, <2>4 DEF Possible, SeenSince
  <2>6. TryOK(p)
    BY <2>2, <2>3, <2>5 DEF TryOK
  <2> HIDE DEF p
  <2>7. op' = [op EXCEPT ![c] = p]
    BY <2>1 DEF p
  <2> QED BY <1>5, <2>6, <2>7
<1>11. ASSUME NEW t \in Terminals, Change(t) PROVE TryOK(op[d])'
  BY <1>4, <1>11 DEF Change
<1>12. CASE Tick
  BY <1>4, <1>12 DEF Tick
<1>13. CASE UNCHANGED vars
  BY <1>4, <1>13 DEF vars
<1> QED BY <1>6, <1>7, <1>8, <1>9, <1>10, <1>11, <1>12, <1>13 DEF Next

(* try_activate throws a refusal only if the terminal changed between its  *)
(* two calls (core/actions.cc:67).                                         *)
THEOREM RefusedAfterChange == Spec => []RefusedOnlyIfChanged
<1>1. Init => Tries
  <2>1. ASSUME NEW c \in Client, Init PROVE TryOK(op[c])
    BY <2>1 DEF Init, Fresh, TryOK
  <2> QED BY <2>1 DEF Tries
<1>2. Tries => RefusedOnlyIfChanged
  BY DEF Tries, TryOK, RefusedOnlyIfChanged, Ended, SeenSince, NotAwaited, Awaited
<1> QED BY <1>1, <1>2, TryStep, Invariant, PTL DEF Spec
=============================================================================
