----------------------------- MODULE RemoteWait -----------------------------
(***************************************************************************)
(* Waiting for a remote terminal: the polling loops of Abstract::Session   *)
(* (src/src/session/remote/wait.cc) and of the D-Bus Action                *)
(* (src/src/session/remote/linux/session.cc), and the operations that do   *)
(* something first and wait afterwards (connect, Action::activate(seconds),*)
(* Action::try_activate).                                                  *)
(*                                                                         *)
(* Each round of a loop asks pw3270 to wait for one second.  In the model  *)
(* a round is a call that pw3270 answers, that the bus fails, or that      *)
(* throws at CallLimit (module DBusRequest has the call itself).  The code *)
(* between two calls takes no time; time passes inside calls and sleeps.   *)
(***************************************************************************)
EXTENDS Integers

CONSTANTS
    Client,      \* threads of the application that use the library
    Kinds,       \* the operations they call
    Seconds,     \* the values of their "seconds" argument
    Second,      \* ticks per second; time(nullptr) counts whole seconds
    CallLimit,   \* the 10000 ms of a blocking call, in ticks
    AnswerLimit, \* ticks within which pw3270 answers, if it does at all
    LastStart    \* bound: no operation starts after this tick

AllKinds == {"wait",      \* waitForReady, waitForChange, wait(text) and its overloads
             "unlock",    \* waitForKeyboardUnlock
             "sleep",     \* wait(seconds)
             "connect",   \* connect(url, seconds)
             "action",    \* Action::activate(seconds)
             "try"}       \* Action::try_activate(seconds)

ASSUME KindsAssumption == Kinds \subseteq AllKinds
ASSUME SecondsAssumption == Seconds \subseteq Nat
ASSUME SecondAssumption == Second \in Nat \ {0}
ASSUME CallLimitAssumption == CallLimit \in Nat /\ CallLimit > Second
ASSUME AnswerLimitAssumption == AnswerLimit \in Nat /\ AnswerLimit >= Second
ASSUME LastStartAssumption == LastStart \in Nat

VARIABLES
    clock,      \* ticks
    terminal,   \* what the terminal of pw3270 is doing
    seen,       \* the last tick at which it was in each state (history)
    op          \* the operation each thread is in

vars == <<clock, terminal, seen, op>>

Terminals == {"ready", "locked", "offline"}
Never == -1

\* "Timeout", "error" and "refused" are exceptions, "refused" the one for a
\* return code of the action itself; "gaveup" returns, without the terminal
\* being ready; "skipped" is try_activate's false.
Outcomes == {"none", "ok", "Timeout", "gaveup", "error", "refused", "skipped"}

Asks == {"connect", "activatable", "activate", "discarded", "wait", "state"}

\* What a reply tells: the state waited for, not yet (ETIMEDOUT, a locked
\* keyboard, a refusal), or not connected (ENOTCONN and its like).
Answers == {"ok", "busy", "offline"}

\* start: when the loop was entered; end: the second at which it gives up
\* stage: inside a call, in sleep(1), or back in the application
\* ask: the request of the call; since: when the call or the sleep began
\* reply: pw3270's reply on its way; rc: the last reply waitForKeyboardUnlock got
\* out: how the operation ended; doneAt: when (history)
Operations ==
    [kind : AllKinds, seconds : Nat, start : Nat, end : Nat,
     stage : {"idle", "calling", "sleeping", "done"}, ask : Asks, since : Nat,
     reply : Answers \cup {"none"}, rc : Answers, out : Outcomes, doneAt : Nat]

\* An operation that has done nothing yet; waitForKeyboardUnlock's rc is 0.
Fresh(k, n) ==
    [kind |-> k, seconds |-> n, start |-> clock, end |-> 0,
     stage |-> "idle", ask |-> "wait", since |-> clock,
     reply |-> "none", rc |-> "ok", out |-> "none", doneAt |-> 0]

TypeOK ==
    /\ clock \in Nat
    /\ terminal \in Terminals
    /\ seen \in [Terminals -> Nat \cup {Never}]
    /\ op \in [Client -> Operations]

Init ==
    /\ clock = 0
    /\ terminal \in Terminals
    /\ seen = [t \in Terminals |-> IF t = terminal THEN 0 ELSE Never]
    /\ op = [c \in Client |-> Fresh("wait", 0)]

-----------------------------------------------------------------------------
(* The library, one step from one call to the next.                        *)

\* time(nullptr)
Now == clock \div Second

Asking(o, ask) ==
    [o EXCEPT !.stage = "calling", !.ask = ask, !.since = clock, !.reply = "none"]

Sleeping(o) == [o EXCEPT !.stage = "sleeping", !.since = clock, !.reply = "none"]

Done(o, out) ==
    [o EXCEPT !.stage = "done", !.out = out, !.doneAt = clock, !.reply = "none"]

\* The loop's time is over.  wait() with a worker throws "Timeout",
\* waitForKeyboardUnlock() returns its last rc, the others just return.
GiveUp(o) ==
    CASE o.kind \in {"wait", "connect"} -> Done(o, "Timeout")
      [] o.kind \in {"action", "try"} -> Done(o, "gaveup")
      [] o.kind = "unlock" -> Done(o, IF o.rc = "ok" THEN "ok" ELSE "gaveup")
      [] o.kind = "sleep" -> Done(o, "ok")

\* The first thing a round does.  Action::wait makes its call twice, by call()
\* and again by get_int(), and looks at the second response only.
BeginRound(o) ==
    CASE o.kind = "sleep" -> Sleeping(o)
      [] o.kind \in {"action", "try"} -> Asking(o, "discarded")
      [] OTHER -> Asking(o, "wait")

\* Wrong: one round too many.
RoundOffByOne(o) == IF Now <= o.end THEN BeginRound(o) ELSE GiveUp(o)

\* while(time(nullptr) < end)
Round(o) == IF Now < o.end THEN BeginRound(o) ELSE GiveUp(o)

\* Wrong: the deadline is a second short.
LoopTooShort(o) == Round([o EXCEPT !.start = clock, !.end = Now + o.seconds - 1])

\* time_t end = time(nullptr) + seconds
Loop(o) == Round([o EXCEPT !.start = clock, !.end = Now + o.seconds])

\* After connecting or activating: if(seconds) wait
LoopIfSeconds(o) == IF o.seconds = 0 THEN Done(o, "ok") ELSE Loop(o)

\* A thread calls an operation.
Start(c, k, n) ==
    /\ op[c].stage \in {"idle", "done"}
    /\ clock <= LastStart
    /\ op' = [op EXCEPT ![c] =
           CASE k = "connect" -> Asking(Fresh(k, n), "connect")
             [] k = "action" -> Asking(Fresh(k, n), "activate")
             [] k = "try" -> Asking(Fresh(k, n), "activatable")
             [] OTHER -> Loop(Fresh(k, n))]
    /\ UNCHANGED <<clock, terminal, seen>>

\* What the operation does with the response of its call.
AfterConnect(o) == LoopIfSeconds(o)

\* Wrong: the answer is not looked at.
AfterActivatableAlways(o) == Asking(o, "activate")

AfterActivatable(o) ==
    IF o.reply = "ok" THEN Asking(o, "activate") ELSE Done(o, "skipped")

AfterActivate(o) ==
    IF o.reply = "ok" THEN LoopIfSeconds(o) ELSE Done(o, "refused")

\* Wrong: any answer but ETIMEDOUT ends the wait.
AfterWaitAnyAnswer(o) == IF o.reply = "busy" THEN Round(o) ELSE Done(o, "ok")

\* Wrong: the loop goes on after pw3270 said 0.
AfterWaitGoesOn(o) ==
    IF o.reply = "offline" THEN Done(o, "error") ELSE Round([o EXCEPT !.rc = o.reply])

AfterWait(o) ==
    CASE o.reply = "ok" -> Done(o, "ok")
      [] o.reply /= "ok" /\ o.kind = "unlock" -> Round([o EXCEPT !.rc = o.reply])
      [] o.reply = "busy" /\ o.kind /= "unlock" -> Round(o)
      [] o.reply = "offline" /\ o.kind /= "unlock" -> Done(o, "error")

AfterState(o) == IF o.reply = "offline" THEN Done(o, "error") ELSE Round(o)

\* The response arrives: call() returns.
Receive(c) ==
    /\ op[c].stage = "calling"
    /\ op[c].reply /= "none"
    /\ op' = [op EXCEPT ![c] =
           CASE @.ask = "connect" -> AfterConnect(@)
             [] @.ask = "activatable" -> AfterActivatable(@)
             [] @.ask = "activate" -> AfterActivate(@)
             [] @.ask = "discarded" -> Asking(@, "wait")
             [] @.ask = "wait" -> AfterWait(@)
             [] @.ask = "state" -> AfterState(@)]
    /\ UNCHANGED <<clock, terminal, seen>>

\* sleep(1) is over: getConnectionState()
WakeUp(c) ==
    /\ op[c].stage = "sleeping"
    /\ clock = op[c].since + Second
    /\ op' = [op EXCEPT ![c] = Asking(@, "state")]
    /\ UNCHANGED <<clock, terminal, seen>>

\* Wrong: the call has no limit.
ExpireNever(c) == FALSE /\ UNCHANGED vars

\* call() throws at its limit, through the loop and the operation.
Expire(c) ==
    /\ op[c].stage = "calling"
    /\ clock = op[c].since + CallLimit
    /\ op' = [op EXCEPT ![c] = Done(@, "error")]
    /\ UNCHANGED <<clock, terminal, seen>>

\* call() throws because the bus answers with an error.
BusError(c) ==
    /\ op[c].stage = "calling"
    /\ op' = [op EXCEPT ![c] = Done(@, "error")]
    /\ UNCHANGED <<clock, terminal, seen>>

-----------------------------------------------------------------------------
(* pw3270 and time.                                                        *)

\* The terminal states an operation waits for.
Awaited(k) == IF k \in {"connect", "sleep"} THEN {"ready", "locked"} ELSE {"ready"}

\* What pw3270 may reply to the call of o now.  Asked to wait for a second it
\* says "busy" only after it.
Possible(o) ==
    CASE o.ask = "connect" -> {"ok", "busy"}
      [] o.ask \in {"activatable", "activate"} ->
            {IF terminal = "ready" THEN "ok" ELSE "busy"}
      [] o.ask = "state" -> {IF terminal = "offline" THEN "offline" ELSE "ok"}
      [] o.ask \in {"discarded", "wait"} ->
            {r \in Answers :
                \/ r = "ok" /\ terminal \in Awaited(o.kind)
                \/ /\ r = "busy"
                   /\ terminal \notin Awaited(o.kind)
                   /\ clock - o.since >= Second
                \/ r = "offline" /\ terminal = "offline"}

Reply(c) ==
    /\ op[c].stage = "calling"
    /\ op[c].reply = "none"
    /\ \E r \in Possible(op[c]) : op' = [op EXCEPT ![c].reply = r]
    /\ UNCHANGED <<clock, terminal, seen>>

\* The host, the user and other programs drive the terminal.
Change(t) ==
    /\ t /= terminal
    /\ terminal' = t
    /\ seen' = [seen EXCEPT ![t] = clock]
    /\ UNCHANGED <<clock, op>>

\* A call is over by then at the latest, a sleep exactly then.
Due(o) ==
    CASE o.stage = "calling" ->
            o.since + (IF AnswerLimit < CallLimit THEN AnswerLimit ELSE CallLimit)
      [] o.stage = "sleeping" -> o.since + Second

Busy(c) == op[c].stage \in {"calling", "sleeping"}

Tick ==
    /\ clock < LastStart \/ \E c \in Client : Busy(c)
    /\ \A c \in Client : Busy(c) => clock < Due(op[c])
    /\ clock' = clock + 1
    /\ seen' = [seen EXCEPT ![terminal] = clock + 1]
    /\ UNCHANGED <<terminal, op>>

-----------------------------------------------------------------------------
Next ==
    \/ \E c \in Client :
        \/ \E k \in Kinds, n \in Seconds : Start(c, k, n)
        \/ Receive(c)
        \/ WakeUp(c)
        \/ Expire(c)
        \/ BusError(c)
        \/ Reply(c)
    \/ \E t \in Terminals : Change(t)
    \/ Tick

Spec == Init /\ [][Next]_vars

\* Time passes, a thread that is due runs.  pw3270 owes nothing.
Fairness ==
    /\ WF_vars(Tick)
    /\ \A c \in Client : WF_vars(Receive(c)) /\ WF_vars(WakeUp(c)) /\ WF_vars(Expire(c))

FairSpec == Spec /\ Fairness

-----------------------------------------------------------------------------
(* Properties.                                                             *)

Ended(c, outs) == op[c].stage = "done" /\ op[c].out \in outs

\* Only these ask at least once before they say anything: seconds = 0 makes
\* waitForKeyboardUnlock return "unlocked", and wait(seconds) return, unasked,
\* and takes the wait out of connect and of the actions.
Asked(o) == o.seconds > 0

\* An operation that comes back saying that the terminal is ready (unlocked,
\* connected) has it from pw3270 about a moment of its very last call: the
\* answer is at most one call old, never one from before the wait.
SuccessIsFresh ==
    \A c \in Client :
        Ended(c, {"ok"}) /\ Asked(op[c]) =>
            \E t \in Awaited(op[c].kind) : seen[t] >= op[c].since

\* An operation gives up, or an action is skipped or refused, only if the
\* terminal was in a state it does not wait for since the operation began its
\* loop (its check): a terminal that is ready throughout is never missed.
NotReadyIsJustified ==
    \A c \in Client :
        \/ Ended(c, {"Timeout", "gaveup"}) /\ Asked(op[c])
        \/ Ended(c, {"skipped", "refused"})
        => \E t \in Terminals \ Awaited(op[c].kind) : seen[t] >= op[c].start

\* time(nullptr) counts whole seconds, so a loop may give up early, but by less
\* than one second.
NotEarly ==
    \A c \in Client :
        \/ Ended(c, {"Timeout", "gaveup"})
        \/ Ended(c, {"ok"}) /\ op[c].kind = "sleep"
        => op[c].doneAt > op[c].start + (op[c].seconds - 1) * Second

\* The longest a round of each loop takes.
RoundLimit(k) ==
    CASE k \in {"action", "try"} -> 2 * CallLimit
      [] k = "sleep" -> Second + CallLimit
      [] OTHER -> CallLimit

\* A loop overruns its seconds by one round at most, whatever pw3270 does.
\* Loops that have a request of their own in front count from the loop.
Overrun ==
    \A c \in Client :
        op[c].stage = "done" =>
            op[c].doneAt <= op[c].start + op[c].seconds * Second
                              + RoundLimit(op[c].kind)

\* try_activate asks whether the action is available in one call and performs it in
\* another one.  It is refused, which is an exception, only if the terminal was ready
\* after the operation began, and was not any more after its second call did.
RefusedOnlyIfChanged ==
    \A c \in Client :
        op[c].kind = "try" /\ Ended(c, {"refused"}) =>
            /\ seen["ready"] >= op[c].start
            /\ \E t \in Terminals \ {"ready"} : seen[t] >= op[c].since

\* Every operation comes back to the application, even if pw3270 never answers.
OperationsEnd == \A c \in Client : Busy(c) ~> ~Busy(c)
=============================================================================
