--------------------------- MODULE RequestChannel ---------------------------
(***************************************************************************)
(* What Request::call() promises to the operation that uses it, whatever   *)
(* transport is underneath: a call is executed by pw3270 at most once; a   *)
(* call that comes back with a response has been executed; a call that     *)
(* throws says nothing, its execution may even come afterwards.            *)
(***************************************************************************)
EXTENDS Naturals

CONSTANTS
    Client,    \* threads of the application that use the library
    MaxCalls   \* bound: number of calls that are ever made

Calls == 1..MaxCalls

VARIABLES
    state,     \* what each thread's Request object is doing
    call,      \* the last call made on that object, 0 before the first one
    issued,    \* how many calls have been made
    runs       \* how often pw3270 has executed each call

vars == <<state, call, issued, runs>>

TypeOK ==
    /\ state \in [Client -> {"idle", "waiting", "ok", "failed"}]
    /\ call \in [Client -> 0..MaxCalls]
    /\ issued \in 0..MaxCalls
    /\ runs \in [Calls -> Nat]

Init ==
    /\ state = [c \in Client |-> "idle"]
    /\ call = [c \in Client |-> 0]
    /\ issued = 0
    /\ runs = [n \in Calls |-> 0]

\* A thread enters call(), on a new object or once more on one that has a response.
Begin(c) ==
    /\ state[c] \in {"idle", "ok"}
    /\ issued < MaxCalls
    /\ issued' = issued + 1
    /\ call' = [call EXCEPT ![c] = issued + 1]
    /\ state' = [state EXCEPT ![c] = "waiting"]
    /\ UNCHANGED runs

\* pw3270 executes a call, no matter whether somebody still waits for it.
Execute(n) ==
    /\ n <= issued
    /\ runs[n] = 0
    /\ runs' = [runs EXCEPT ![n] = 1]
    /\ UNCHANGED <<state, call, issued>>

\* call() returns: its response says the call was executed.
Return(c) ==
    /\ state[c] = "waiting"
    /\ runs[call[c]] = 1
    /\ state' = [state EXCEPT ![c] = "ok"]
    /\ UNCHANGED <<call, issued, runs>>

\* call() throws.
Throw(c) ==
    /\ state[c] = "waiting"
    /\ state' = [state EXCEPT ![c] = "failed"]
    /\ UNCHANGED <<call, issued, runs>>

\* The Request object is destroyed.
Release(c) ==
    /\ state[c] \in {"ok", "failed"}
    /\ state' = [state EXCEPT ![c] = "idle"]
    /\ call' = [call EXCEPT ![c] = 0]
    /\ UNCHANGED <<issued, runs>>

Next ==
    \/ \E c \in Client : Begin(c) \/ Return(c) \/ Throw(c) \/ Release(c)
    \/ \E n \in Calls : Execute(n)

Spec == Init /\ [][Next]_vars
=============================================================================
