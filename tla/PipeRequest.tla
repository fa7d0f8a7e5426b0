---------------------------- MODULE PipeRequest ----------------------------
(***************************************************************************)
(* Remote calls over a named pipe of Windows: Pipe::Request and the        *)
(* Pipe::Handler that all objects of a session share                       *)
(* (src/src/session/remote/windows).  The handler has one pipe and a mutex *)
(* that is held from the message to its answer.                            *)
(*                                                                         *)
(* Windows and pw3270 are not in the repository.  TransactNamedPipe() is   *)
(* as request.cc relies on it: it writes one message and reads one, has no *)
(* limit of time, fails when the other end is closed, fails when the       *)
(* answer does not fit, whose rest stays unread, and refuses a pipe that   *)
(* has something unread.                                                   *)
(***************************************************************************)
EXTENDS Naturals

CONSTANTS
    Client,      \* threads of the application that use the session
    NoClient,
    PipeBuffer,  \* PIPE_BUFFER_LENGTH
    Header,      \* bytes of a message before its arguments
    ArgSizes,    \* bytes of an argument
    ReplySizes,  \* bytes of an answer
    MaxCalls     \* bound: number of calls that are ever made

ASSUME NoClientAssumption == NoClient \notin Client
ASSUME SizesAssumption ==
    /\ PipeBuffer \in Nat /\ Header \in Nat /\ Header < PipeBuffer
    /\ ArgSizes \subseteq Nat /\ ReplySizes \subseteq Nat
ASSUME MaxCallsAssumption == MaxCalls \in Nat

VARIABLES
    request,    \* the Request object of the operation each thread is in
    owner,      \* who has locked the handler's mutex
    issued,     \* number of calls made; names each call (history)
    toServer,   \* messages in the pipe that pw3270 has not taken
    held,       \* messages pw3270 has executed and not answered
    unread,     \* answers in the pipe
    connected,  \* is the other end of the pipe open?
    runs        \* how often each call was executed (history)

vars == <<request, owner, issued, toServer, held, unread, connected, runs>>

Calls == 1..MaxCalls

Phases == {"none", "built", "locking", "waiting", "answered", "thrown"}

\* used: out.used
\* call: the call() the object is in, or was in (history)
\* response: the call whose answer is in the object, 0 if none
Requests == [phase : Phases, used : 0..(PipeBuffer - 1), call : 0..MaxCalls,
             response : 0..MaxCalls]

Messages == [call : Calls, used : 0..(PipeBuffer - 1)]
Replies == [call : Calls, size : ReplySizes, error : BOOLEAN]

NoRequest == [phase |-> "none", used |-> 0, call |-> 0, response |-> 0]

TypeOK ==
    /\ request \in [Client -> Requests]
    /\ owner \in Client \cup {NoClient}
    /\ issued \in 0..MaxCalls
    /\ toServer \subseteq Messages
    /\ held \subseteq Messages
    /\ unread \subseteq Replies
    /\ connected \in BOOLEAN
    /\ runs \in [Calls -> Nat]

\* getRemoteInstance() has opened the pipe.
Init ==
    /\ request = [c \in Client |-> NoRequest]
    /\ owner = NoClient
    /\ issued = 0
    /\ toServer = {}
    /\ held = {}
    /\ unread = {}
    /\ connected = TRUE
    /\ runs = [n \in Calls |-> 0]

-----------------------------------------------------------------------------
(* The library.                                                            *)

\* A new object: name, type and argument count are in its block.
Construct(c) ==
    /\ request[c].phase = "none"
    /\ request' = [request EXCEPT ![c] = [@ EXCEPT !.phase = "built", !.used = Header]]
    /\ UNCHANGED <<owner, issued, toServer, held, unread, connected, runs>>

\* Wrong: the byte of the type is forgotten in the check.
PushUnchecked(c, length) ==
    /\ request[c].phase = "built"
    /\ IF request[c].used + length >= PipeBuffer
       THEN request' = [request EXCEPT ![c] = NoRequest]
       ELSE request' = [request EXCEPT ![c] = [@ EXCEPT !.used = request[c].used + length + 1]]
    /\ UNCHANGED <<owner, issued, toServer, held, unread, connected, runs>>

\* push(): a block of a type and a value; or "Too big", which ends the
\* operation and its object with it.
Push(c, length) ==
    /\ request[c].phase = "built"
    /\ IF request[c].used + length + 1 >= PipeBuffer
       THEN request' = [request EXCEPT ![c] = NoRequest]
       ELSE request' = [request EXCEPT ![c] = [@ EXCEPT !.used = request[c].used + length + 1]]
    /\ UNCHANGED <<owner, issued, toServer, held, unread, connected, runs>>

\* call(), on a new object or once more on one that has a response.
Call(c) ==
    /\ request[c].phase \in {"built", "answered"}
    /\ issued < MaxCalls
    /\ issued' = issued + 1
    /\ request' = [request EXCEPT ![c] = [@ EXCEPT !.phase = "locking", !.call = issued + 1]]
    /\ UNCHANGED <<owner, toServer, held, unread, connected, runs>>

MessageOf(r) == [call |-> r.call, used |-> r.used]

SetPhase(c, phase) == request' = [request EXCEPT ![c] = [@ EXCEPT !.phase = phase]]

\* Wrong: without the mutex.
TransactUnlocked(c) ==
    /\ request[c].phase = "locking"
    /\ connected
    /\ unread = {}
    /\ owner' = c
    /\ toServer' = toServer \cup {MessageOf(request[c])}
    /\ SetPhase(c, "waiting")
    /\ UNCHANGED <<issued, held, unread, connected, runs>>

\* transact(): the mutex is free, the message goes into the pipe.
Transact(c) ==
    /\ request[c].phase = "locking"
    /\ owner = NoClient
    /\ connected
    /\ unread = {}
    /\ owner' = c
    /\ toServer' = toServer \cup {MessageOf(request[c])}
    /\ SetPhase(c, "waiting")
    /\ UNCHANGED <<issued, held, unread, connected, runs>>

\* transact(): the pipe is broken, or has the rest of an answer in it.
Refuse(c) ==
    /\ request[c].phase = "locking"
    /\ owner = NoClient
    /\ ~ connected \/ unread # {}
    /\ SetPhase(c, "thrown")
    /\ UNCHANGED <<owner, issued, toServer, held, unread, connected, runs>>

\* Wrong: an answer that does not fit is asked for once more.
ReceiveRetries(c, reply) ==
    /\ request[c].phase = "waiting"
    /\ unread' = unread \ {reply}
    /\ IF reply.size > PipeBuffer
       THEN /\ toServer' = toServer \cup {MessageOf(request[c])}
            /\ UNCHANGED <<request, owner>>
       ELSE /\ owner' = NoClient
            /\ request' = [request EXCEPT ![c] =
                   [@ EXCEPT !.phase = "answered", !.response = reply.call]]
            /\ UNCHANGED toServer
    /\ UNCHANGED <<issued, held, connected, runs>>

\* Wrong: the mutex is not unlocked when the answer does not fit.
ReceiveKeepsLock(c, reply) ==
    /\ request[c].phase = "waiting"
    /\ IF reply.size > PipeBuffer
       THEN SetPhase(c, "thrown") /\ UNCHANGED <<owner, unread>>
       ELSE /\ owner' = NoClient
            /\ unread' = unread \ {reply}
            /\ request' = [request EXCEPT ![c] =
                   [@ EXCEPT !.phase = "answered", !.response = reply.call]]
    /\ UNCHANGED <<issued, toServer, held, connected, runs>>

\* The answer is in the pipe: the mutex is unlocked, and call() returns unless
\* the answer is an error or did not fit.
Receive(c, reply) ==
    /\ request[c].phase = "waiting"
    /\ owner' = NoClient
    /\ IF reply.size > PipeBuffer
       THEN SetPhase(c, "thrown") /\ UNCHANGED unread
       ELSE /\ unread' = unread \ {reply}
            /\ request' = [request EXCEPT ![c] =
                   IF reply.error THEN [@ EXCEPT !.phase = "thrown"]
                   ELSE [@ EXCEPT !.phase = "answered", !.response = reply.call]]
    /\ UNCHANGED <<issued, toServer, held, connected, runs>>

\* Wrong: the transaction is given up while pw3270 is still at it.
BreakEarly(c) ==
    /\ request[c].phase = "waiting"
    /\ owner' = NoClient
    /\ SetPhase(c, "thrown")
    /\ UNCHANGED <<issued, toServer, held, unread, connected, runs>>

\* The other end is closed and has left no answer: TransactNamedPipe() fails.
Break(c) ==
    /\ request[c].phase = "waiting"
    /\ ~ connected
    /\ unread = {}
    /\ owner' = NoClient
    /\ SetPhase(c, "thrown")
    /\ UNCHANGED <<issued, toServer, held, unread, connected, runs>>

\* ~Request(): the operation returns, or its exception unwinds the stack.
Destroy(c) ==
    /\ request[c].phase \in {"answered", "thrown"}
    /\ request' = [request EXCEPT ![c] = NoRequest]
    /\ UNCHANGED <<owner, issued, toServer, held, unread, connected, runs>>

-----------------------------------------------------------------------------
(* pw3270.                                                                 *)

Execute(m) ==
    /\ connected
    /\ toServer' = toServer \ {m}
    /\ held' = held \cup {m}
    /\ runs' = [runs EXCEPT ![m.call] = @ + 1]
    /\ UNCHANGED <<request, owner, issued, unread, connected>>

Answer(m, size, error) ==
    /\ connected
    /\ held' = held \ {m}
    /\ unread' = unread \cup {[call |-> m.call, size |-> size, error |-> error]}
    /\ UNCHANGED <<request, owner, issued, toServer, connected, runs>>

\* pw3270 exits, or closes the pipe.  What it has answered is lost or can
\* still be read; the session never opens another pipe.
Exit ==
    /\ connected
    /\ connected' = FALSE
    /\ toServer' = {}
    /\ held' = {}
    /\ unread' \in {{}, unread}
    /\ UNCHANGED <<request, owner, issued, runs>>

-----------------------------------------------------------------------------
Next ==
    \/ \E c \in Client :
        \/ Construct(c)
        \/ \E length \in ArgSizes : Push(c, length)
        \/ Call(c)
        \/ Transact(c)
        \/ Refuse(c)
        \/ \E reply \in unread : Receive(c, reply)
        \/ Break(c)
        \/ Destroy(c)
    \/ \E m \in toServer : Execute(m)
    \/ \E m \in held, size \in ReplySizes, error \in BOOLEAN : Answer(m, size, error)
    \/ Exit

\* A thread whose transaction is over runs.  Of pw3270 it is assumed here that
\* it takes and answers messages, or exits: the library has no limit of its own.
Fairness ==
    /\ \A c \in Client :
        WF_vars(\E reply \in unread : Receive(c, reply)) /\ WF_vars(Break(c))
    /\ WF_vars(\E m \in toServer : Execute(m))
    /\ WF_vars(\E m \in held, size \in ReplySizes, error \in BOOLEAN : Answer(m, size, error))

Spec == Init /\ [][Next]_vars

FairSpec == Spec /\ Fairness

-----------------------------------------------------------------------------
(* Properties.                                                             *)

\* The response a thread reads is the one to its own call, though all threads
\* read from one pipe and answers do not say what they answer.
ResponseIsOwn ==
    \A c \in Client :
        request[c].phase = "answered" => request[c].response = request[c].call

\* A call that threw is over: unlike over D-Bus, pw3270 has executed it by then
\* or never will.
ThrownIsSettled ==
    \A c \in Client : request[c].phase = "thrown" =>
        \A m \in toServer \cup held : m.call # request[c].call

\* Between transactions there is nothing in the pipe, unless an answer has been
\* longer than the buffer: only that, or the end of pw3270, can make a session
\* refuse calls.
PipeClean ==
    owner = NoClient =>
        /\ toServer \cup held = {}
        /\ \A reply \in unread : reply.size > PipeBuffer

\* However transactions end, the mutex does not stay locked, if pw3270 answers
\* or exits.
LockFreed == []<>(owner = NoClient)

\* What each object looks like to the operation that uses it.
ChannelState(r) ==
    CASE r.phase \in {"none", "built"} -> "idle"
      [] r.phase \in {"locking", "waiting"} -> "waiting"
      [] r.phase = "answered" -> "ok"
      [] r.phase = "thrown" -> "failed"

Channel == INSTANCE RequestChannel WITH
    state <- [c \in Client |-> ChannelState(request[c])],
    call <- [c \in Client |-> request[c].call]

\* The pipe keeps the promise of RequestChannel.
ImplementsChannel == Channel!Spec
=============================================================================
