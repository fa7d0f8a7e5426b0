-------------------------------- MODULE Host --------------------------------
(***************************************************************************)
(* TN3270::Host (src/src/host/, src/src/include/lib3270/ipc/host.h): a     *)
(* session with a timeout of its own, and a stream buffer that types what  *)
(* is written to it.  Each Host has its Session; remote sessions of the    *)
(* application are of one pw3270, whose terminal they share.               *)
(*                                                                         *)
(* Modules RemoteWait, LocalSession and SessionInput have the operations   *)
(* in detail.  Here a request to pw3270 is one that is answered or that    *)
(* throws, executed or not; it takes a second or more for each round of a  *)
(* wait.  A text is a sequence of bytes of five sorts, in the charset of   *)
(* the application.  A session has a converter to the charset of its host, *)
(* or none if the two are one (UTF-8 over D-Bus) or iconv_open() failed;   *)
(* module SessionInput has setCharSet(), here it stays as it is.  lib3270, *)
(* pw3270, iconv and libdbus are external.                                 *)
(***************************************************************************)
EXTENDS Integers, Sequences

CONSTANTS
    Hosts,      \* the hosts of the application, each used by a thread
    Timeouts,   \* arguments of setTimeout()
    Converter,  \* of each host's session, to the charset of its host: "none", "open"
    Default,    \* the timeout of a new Host and of a new local Session
    Texts,      \* what is pushed and written, sequences of Sort
    MaxCalls    \* bound: operations of each host, a function

\* A character of one byte that takes one at the host, or two; one that takes more or
\* that the host lacks; a byte of a longer character; the byte 0.
Sort == {"plain", "wide", "lacking", "part", "nul"}

ASSUME NamesAssumption == "other" \notin Hosts /\ "pw3270" \notin Hosts
ASSUME TimeoutsAssumption == Timeouts \subseteq Nat
ASSUME DefaultAssumption == Default \in Nat \ {0}
ASSUME ConverterAssumption == Converter \in [Hosts -> {"none", "open"}]
ASSUME TextsAssumption == Texts \subseteq Seq(Sort)
ASSUME MaxCallsAssumption == MaxCalls \in [Hosts -> Nat]

VARIABLES
    kind,       \* of each host's session: "local", "remote"
    timeout,    \* of each Host
    session,    \* timeout of each local Session
    mode,       \* wait mode of pw3270
    locked,     \* is the keyboard locked?  Of each local session and of pw3270
    op,         \* the operation each host is in, or its last one
    calls,      \* how many it has begun
    alive,      \* FALSE after std::terminate()
    setBy,      \* who set mode last: a host or "other" (history)
    setting     \* how the last setTimeout() of each host ended (history)

vars == <<kind, timeout, session, mode, locked, op, calls, alive, setBy, setting>>

Names == {"none", "setTimeout", "connect", "pfkey", "waitForReady", "waitForKeyboardUnlock",
          "operator==", "push", "stream", "input"}

\* Declared noexcept, though they call pw3270.
NoExcept == {"waitForKeyboardUnlock", "operator=="}

\* The keyboard a host looks at.
Terminal(h) == IF kind[h] = "local" THEN h ELSE "pw3270"

\* left: seconds of the wait to come; waits: the seconds it was asked for
\* text, at: what is written, and how many bytes of it; result: of waitForKeyboardUnlock
\* typed, spoiled: of a stream, the bytes that are on the terminal, and those after
\* which there are others that nobody wrote (push() is module SessionInput's)
\* unlocked: was the keyboard unlocked since the operation began?  (history)
\* failed: did its last call throw?  (history)
Idle == [name |-> "none", stage |-> "idle", left |-> 0, waits |-> 0, text |-> <<>>, at |-> 0,
         typed |-> {}, spoiled |-> {}, result |-> "none", unlocked |-> FALSE, failed |-> FALSE]

Init ==
    /\ kind \in [Hosts -> {"local", "remote"}]
    /\ timeout = [h \in Hosts |-> Default]
    /\ session = [h \in Hosts |-> Default]
    /\ mode \in BOOLEAN
    /\ locked \in [{Terminal(h) : h \in Hosts} -> BOOLEAN]
    /\ op = [h \in Hosts |-> Idle]
    /\ calls = [h \in Hosts |-> 0]
    /\ alive = TRUE
    /\ setBy = "other"
    /\ setting = [h \in Hosts |-> "never"]

-----------------------------------------------------------------------------
(* Beginnings.                                                             *)

Ready(h) == alive /\ op[h].stage # "calling" /\ calls[h] < MaxCalls[h]

Begin(h, o) ==
    /\ Ready(h)
    /\ op' = [op EXCEPT ![h] = [o EXCEPT !.unlocked = ~ locked[Terminal(h)]]]
    /\ calls' = [calls EXCEPT ![h] = @ + 1]

Asking(name) == [Idle EXCEPT !.name = name, !.stage = "calling"]

Waiting(name, seconds) ==
    [Idle EXCEPT !.name = name, !.stage = "calling", !.left = seconds, !.waits = seconds]

Quiet == UNCHANGED <<kind, mode, locked, alive, setBy>>

\* Wrong: the session is not told.
SetTimeoutOwn(h) ==
    /\ \E n \in Timeouts :
        /\ timeout' = [timeout EXCEPT ![h] = n]
        /\ Begin(h, [Asking("setTimeout") EXCEPT
                         !.stage = IF kind[h] = "local" THEN "returned" ELSE "calling"])
        /\ setting' = [setting EXCEPT ![h] = IF kind[h] = "local" THEN "returned" ELSE "calling"]
    /\ UNCHANGED session
    /\ Quiet

\* The Host's own first, then the session's: a local one keeps it, a remote one
\* asks pw3270.
SetTimeout(h) ==
    /\ \E n \in Timeouts :
        /\ timeout' = [timeout EXCEPT ![h] = n]
        /\ session' = IF kind[h] = "local" THEN [session EXCEPT ![h] = n] ELSE session
    /\ LET stage == IF kind[h] = "local" THEN "returned" ELSE "calling"
       IN  /\ Begin(h, [Asking("setTimeout") EXCEPT !.stage = stage])
           /\ setting' = [setting EXCEPT ![h] = stage]
    /\ Quiet

\* connect(url) asks for the Host's timeout, of which a local session makes its own
\* if it is zero.  pfkey() of a local session waits for the session's.
Connect(h) ==
    /\ LET seconds == IF kind[h] = "local" /\ timeout[h] = 0 THEN session[h] ELSE timeout[h]
       IN  Begin(h, Waiting("connect", seconds))
    /\ UNCHANGED <<timeout, session, setting>>
    /\ Quiet

Key(h) ==
    /\ Begin(h, Waiting("pfkey", IF kind[h] = "local" THEN session[h] ELSE 0))
    /\ UNCHANGED <<timeout, session, setting>>
    /\ Quiet

\* waitForReady() and wait(text), with the Host's timeout.
WaitForReady(h) ==
    /\ Begin(h, Waiting("waitForReady", timeout[h]))
    /\ UNCHANGED <<timeout, session, setting>>
    /\ Quiet

\* With no time to wait a remote session does not ask: its rc is still 0, which is
\* "unlocked".  lib3270 looks at the keyboard in any case.
WaitForKeyboardUnlock(h) ==
    /\ Begin(h, IF kind[h] = "remote" /\ timeout[h] = 0
                THEN [Idle EXCEPT !.name = "waitForKeyboardUnlock", !.stage = "returned",
                                  !.result = "unlocked"]
                ELSE Waiting("waitForKeyboardUnlock", timeout[h]))
    /\ UNCHANGED <<timeout, session, setting>>
    /\ Quiet

\* operator==(state) and its like
Compare(h) ==
    /\ Begin(h, Asking("operator=="))
    /\ UNCHANGED <<timeout, session, setting>>
    /\ Quiet

\* push(text), and an ostream on this buffer, which has no put area.
Write(h) ==
    /\ \E text \in Texts \ {<<>>}, name \in {"push", "stream"} :
        Begin(h, [Asking(name) EXCEPT !.text = text])
    /\ UNCHANGED <<timeout, session, setting>>
    /\ Quiet

\* input(text): its default length is -1, for std::string the largest there is.
InputDefault(h) ==
    /\ \E text \in Texts : Begin(h, [Asking("input") EXCEPT !.text = text, !.stage = "thrown"])
    /\ UNCHANGED <<timeout, session, setting>>
    /\ Quiet

-----------------------------------------------------------------------------
(* Calls and their ends.                                                   *)

Calling(h) == alive /\ op[h].stage = "calling"

\* overflow() pushes its byte as a string, which ends at a 0.  With no converter that
\* is what the terminal gets; with one the byte is converted for itself into a buffer
\* of two, and is lost if it does not convert or does not fit.
Pushed(h, byte) ==
    byte # "nul" /\ (Converter[h] = "none" \/ byte \in {"plain", "wide"})

\* The byte a call puts on the terminal.
Converted(h, o) ==
    IF o.name = "stream" /\ Pushed(h, o.text[o.at + 1]) THEN {o.at + 1} ELSE {}

\* If it fills its buffer no 0 ends it: what is read as the string may go on behind.
Spoils(h, o) ==
    SUBSET {i \in Converted(h, o) : Converter[h] = "open" /\ o.text[i] = "wide"}

Type(h, o, spoiled) ==
    [o EXCEPT !.typed = @ \cup Converted(h, o), !.spoiled = @ \cup spoiled]

\* The next byte of the stream, or the end of the operation.
Advance(h, o, spoiled) ==
    LET next == [Type(h, o, spoiled) EXCEPT !.at = @ + 1]
    IN  IF o.name = "stream" /\ next.at < Len(o.text) THEN next
        ELSE [next EXCEPT !.stage = "returned"]

\* Wrong: overflow() catches the exception and goes on.
FailCaught(h) ==
    /\ Calling(h)
    /\ kind[h] = "remote"
    /\ LET o == op[h]
           ends == IF o.name = "stream" THEN "returned" ELSE "thrown"
       IN  /\ op' = [op EXCEPT ![h] =
                  IF o.name = "stream" /\ o.at + 1 < Len(o.text) THEN [o EXCEPT !.at = @ + 1]
                  ELSE [o EXCEPT !.stage = ends, !.failed = TRUE]]
           /\ alive' = (o.name \notin NoExcept)
           /\ setting' = IF o.name = "setTimeout" THEN [setting EXCEPT ![h] = "thrown"] ELSE setting
    /\ UNCHANGED <<kind, timeout, session, mode, locked, calls, setBy>>

\* Wrong: the result of "setWaitMode" is not looked at.
FailUnseen(h) ==
    /\ Calling(h)
    /\ kind[h] = "remote"
    /\ op' = [op EXCEPT ![h] = [@ EXCEPT !.failed = TRUE,
                                         !.stage = IF op[h].name = "setTimeout" THEN "returned"
                                                   ELSE "thrown"]]
    /\ alive' = (op[h].name \notin NoExcept)
    /\ setting' = IF op[h].name = "setTimeout" THEN [setting EXCEPT ![h] = "returned"] ELSE setting
    /\ UNCHANGED <<kind, timeout, session, mode, locked, calls, setBy>>

\* A request throws, or libdbus or pw3270 refuses it: an exception, which an operation that is
\* noexcept does not let out.
Fail(h) ==
    /\ Calling(h)
    /\ kind[h] = "remote"
    /\ op' = [op EXCEPT ![h] = [@ EXCEPT !.stage = "thrown", !.failed = TRUE]]
    /\ alive' = (op[h].name \notin NoExcept)
    /\ setting' = IF op[h].name = "setTimeout" THEN [setting EXCEPT ![h] = "thrown"] ELSE setting
    /\ UNCHANGED <<kind, timeout, session, mode, locked, calls, setBy>>

\* The answer is lost, pw3270 has done what it was asked.
FailDone(h) ==
    /\ Calling(h)
    /\ kind[h] = "remote"
    /\ op[h].name \in {"setTimeout", "stream"}
    /\ \E spoiled \in Spoils(h, op[h]) :
        op' = [op EXCEPT ![h] = [Type(h, @, spoiled) EXCEPT !.stage = "thrown", !.failed = TRUE]]
    /\ IF op[h].name = "setTimeout"
       THEN mode' = (timeout[h] # 0) /\ setBy' = h /\ setting' = [setting EXCEPT ![h] = "thrown"]
       ELSE UNCHANGED <<mode, setBy, setting>>
    /\ UNCHANGED <<kind, timeout, session, locked, calls, alive>>

\* pw3270 sets its wait mode.
AnswerSet(h) ==
    /\ Calling(h)
    /\ op[h].name = "setTimeout"
    /\ mode' = (timeout[h] # 0)
    /\ setBy' = h
    /\ setting' = [setting EXCEPT ![h] = "returned"]
    /\ op' = [op EXCEPT ![h].stage = "returned"]
    /\ UNCHANGED <<kind, timeout, session, locked, calls, alive>>

\* A text is typed, a state is told.
AnswerDone(h) ==
    /\ Calling(h)
    /\ op[h].name \in {"push", "stream", "operator=="}
    /\ \E spoiled \in Spoils(h, op[h]) : op' = [op EXCEPT ![h] = Advance(h, @, spoiled)]
    /\ UNCHANGED <<kind, timeout, session, mode, locked, calls, alive, setBy, setting>>

Waits == {"connect", "pfkey", "waitForReady", "waitForKeyboardUnlock"}

\* What is waited for has come, or there was nothing to wait for.
AnswerWait(h) ==
    /\ Calling(h)
    /\ op[h].name \in Waits
    /\ op[h].name = "waitForKeyboardUnlock" => ~ locked[Terminal(h)]
    /\ op' = [op EXCEPT ![h] = [@ EXCEPT !.stage = "returned", !.result = "unlocked"]]
    /\ UNCHANGED <<kind, timeout, session, mode, locked, calls, alive, setBy, setting>>

\* Wrong: rc starts at 0 in each round.
AnswerNotYetUnlocked(h) ==
    /\ Calling(h)
    /\ op[h].name \in Waits
    /\ op[h].name = "waitForKeyboardUnlock" => locked[Terminal(h)]
    /\ op' = [op EXCEPT ![h] = [@ EXCEPT !.left = 0, !.stage = "returned", !.result = "unlocked"]]
    /\ UNCHANGED <<kind, timeout, session, mode, locked, calls, alive, setBy, setting>>

\* Not yet: a second or more is over, or none if the answer is that it is offline;
\* another round, or the end of the wait, which only waitForKeyboardUnlock() does not
\* throw.
AnswerNotYet(h) ==
    /\ Calling(h)
    /\ op[h].name \in Waits
    /\ op[h].name = "waitForKeyboardUnlock" => locked[Terminal(h)]
    /\ \/ \E left \in 1..op[h].left : op' = [op EXCEPT ![h].left = left]
       \/ LET ends == IF op[h].name = "waitForKeyboardUnlock" THEN "returned" ELSE "thrown"
          IN  op' = [op EXCEPT ![h] = [@ EXCEPT !.left = 0, !.stage = ends, !.result = "locked"]]
    /\ UNCHANGED <<kind, timeout, session, mode, locked, calls, alive, setBy, setting>>

\* The keyboard is locked by a key and unlocked by the host.
Change(t) ==
    /\ alive
    /\ locked' = [locked EXCEPT ![t] = ~ @]
    /\ op' = [h \in Hosts |->
          IF Terminal(h) = t /\ locked[t] /\ op[h].stage = "calling"
          THEN [op[h] EXCEPT !.unlocked = TRUE] ELSE op[h]]
    /\ UNCHANGED <<kind, timeout, session, mode, calls, alive, setBy, setting>>

\* The user of pw3270 or another program.
ChangeMode ==
    /\ alive
    /\ mode' = ~ mode
    /\ setBy' = "other"
    /\ UNCHANGED <<kind, timeout, session, locked, op, calls, alive, setting>>

Step(h) ==
    \/ SetTimeout(h) \/ Connect(h) \/ Key(h) \/ WaitForReady(h) \/ WaitForKeyboardUnlock(h)
    \/ Compare(h) \/ Write(h) \/ InputDefault(h)
    \/ Fail(h) \/ FailDone(h) \/ AnswerSet(h) \/ AnswerDone(h) \/ AnswerWait(h) \/ AnswerNotYet(h)

Next ==
    \/ \E h \in Hosts : Step(h)
    \/ \E t \in DOMAIN locked : Change(t)
    \/ ChangeMode

Spec == Init /\ [][Next]_vars

-----------------------------------------------------------------------------
(* Properties.                                                             *)

Operations ==
    [name : Names, stage : {"idle", "calling", "returned", "thrown"}, left : Nat, waits : Nat,
     text : Seq(Sort), at : Nat, typed : SUBSET Nat, spoiled : SUBSET Nat,
     result : {"none", "unlocked", "locked"}, unlocked : BOOLEAN, failed : BOOLEAN]

TypeOK ==
    /\ kind \in [Hosts -> {"local", "remote"}]
    /\ timeout \in [Hosts -> Nat]
    /\ session \in [Hosts -> Nat]
    /\ mode \in BOOLEAN
    /\ locked \in [{Terminal(h) : h \in Hosts} -> BOOLEAN]
    /\ op \in [Hosts -> Operations]
    /\ calls \in [Hosts -> Nat]
    /\ alive \in BOOLEAN
    /\ setBy \in Hosts \cup {"other"}
    /\ setting \in [Hosts -> {"never", "calling", "returned", "thrown"}]

\* connect() waits as long as the Host was told, and so does a key of a local
\* session, though each takes it from another variable: the two never differ.
WaitsAsSet ==
    \A h \in Hosts :
        op[h].name = "connect" \/ (op[h].name = "pfkey" /\ kind[h] = "local") =>
            op[h].waits = timeout[h]

\* The wait mode of pw3270 is what the Host says unless its last setTimeout() threw or
\* is not over, it never called it, or somebody else has set it since: a default of
\* five seconds is never sent, and the Host keeps what pw3270 did not take.
ModeAsSet ==
    \A h \in Hosts :
        kind[h] = "remote" /\ mode # (timeout[h] # 0) =>
            setting[h] \in {"never", "calling", "thrown"} \/ setBy # h

\* A Host that is told "unlocked" by waitForKeyboardUnlock() has a keyboard that was
\* unlocked meanwhile; but with a timeout of 0 a remote one was not asked at all.
UnlockedIsTrue ==
    \A h \in Hosts :
        /\ op[h].name = "waitForKeyboardUnlock" /\ op[h].stage = "returned"
        /\ op[h].result = "unlocked" /\ ~ op[h].unlocked
        => kind[h] = "remote" /\ timeout[h] = 0

\* The process ends only if a request of an operation that is noexcept fails; every
\* other failure is an exception the application can handle.
TerminatedByNoExcept ==
    ~ alive => \E h \in Hosts : kind[h] = "remote" /\ op[h].failed /\ op[h].name \in NoExcept

\* What an ostream on a Host says it has written is on the terminal, in any charset, if
\* the session has no converter; if it has one, but for the characters that have more
\* than one byte or that take more than two at the host: these vanish, and behind one
\* that takes two there may be bytes that nobody wrote.  What it has not written is
\* not, but for the byte whose answer was lost.
StreamTyped ==
    \A h \in Hosts :
        op[h].name = "stream" =>
            LET text == op[h].text
                vanishing == IF Converter[h] = "none" THEN {"nul"} ELSE {"nul", "part", "lacking"}
                lasting == {i \in DOMAIN text : text[i] \notin vanishing}
                written == {i \in lasting : i <= op[h].at}
            IN  /\ op[h].stage = "returned" => op[h].typed = lasting
                /\ written \subseteq op[h].typed
                /\ op[h].typed \subseteq written \cup (IF op[h].failed THEN {op[h].at + 1} ELSE {})
                /\ op[h].spoiled \subseteq op[h].typed
                /\ \A i \in op[h].spoiled : Converter[h] = "open" /\ text[i] = "wide"
=============================================================================
