---------------------------- MODULE DBusRequest ----------------------------
(***************************************************************************)
(* Remote calls over D-Bus: the life of a DBus::Request object             *)
(* (src/src/session/remote/linux/request.cc), used by several threads on   *)
(* the connection they share, against a pw3270 that may be slow, answer    *)
(* out of order, exit and be started again.                                *)
(*                                                                         *)
(* libdbus, the bus and pw3270 are not in the repository.  They appear as  *)
(* request.cc relies on them: a reply carries the serial of its message,   *)
(* the serial is given to a message when it is first sent and kept if it   *)
(* is sent again, and a blocking call gives up after CallLimit.  Messages  *)
(* and replies travel in sets: the bus keeps the order of one connection,  *)
(* the library never relies on it.                                         *)
(***************************************************************************)
EXTENDS Naturals

CONSTANTS
    Client,     \* threads of the application that use the library
    CallLimit,  \* the 10000 ms of a blocking call, in ticks
    MaxCalls    \* bound: number of calls that are ever made

ASSUME CallLimitAssumption == CallLimit \in Nat \ {0}
ASSUME MaxCallsAssumption == MaxCalls \in Nat

VARIABLES
    request,    \* the Request object of the operation each thread is in
    issued,     \* number of calls made; names each call (history)
    serials,    \* last serial the connection gave to a message
    toServer,   \* messages the bus has not handed to pw3270
    held,       \* messages pw3270 has executed and not answered
    toClient,   \* replies the connection has not read
    serverUp,   \* does pw3270 own its bus name?
    runs        \* how often each call was executed (history)

vars == <<request, issued, serials, toServer, held, toClient, serverUp, runs>>

Calls == 1..MaxCalls

Phases == {"none", "built", "blocked", "answered", "thrown"}

\* No response message in the object.
NoResponse == 0

\* serial: 0 until the message is sent for the first time
\* call: the call() the object is in, or was in last (history)
\* response: the call whose reply is in the object
\* left: ticks until a blocked call gives up
Requests == [phase : Phases, serial : 0..MaxCalls, call : 0..MaxCalls,
             response : 0..MaxCalls, left : 0..CallLimit]

\* What travels: the serial, the call it was sent for (history), and in a
\* reply whether it is an error.
Messages == [serial : 1..MaxCalls, call : Calls]
Replies == [serial : 1..MaxCalls, call : Calls, error : BOOLEAN]

NoRequest == [phase |-> "none", serial |-> 0, call |-> 0,
              response |-> NoResponse, left |-> 0]

TypeOK ==
    /\ request \in [Client -> Requests]
    /\ issued \in 0..MaxCalls
    /\ serials \in 0..MaxCalls
    /\ toServer \subseteq Messages
    /\ held \subseteq Messages
    /\ toClient \subseteq Replies
    /\ serverUp \in BOOLEAN
    /\ runs \in [Calls -> Nat]

Init ==
    /\ request = [c \in Client |-> NoRequest]
    /\ issued = 0
    /\ serials = 0
    /\ toServer = {}
    /\ held = {}
    /\ toClient = {}
    /\ serverUp = TRUE
    /\ runs = [n \in Calls |-> 0]

-----------------------------------------------------------------------------
(* The library.                                                            *)

\* RequestFactory(): a new object, its message built and its arguments pushed.
Construct(c) ==
    /\ request[c].phase = "none"
    /\ request' = [request EXCEPT ![c] = [@ EXCEPT !.phase = "built"]]
    /\ UNCHANGED <<issued, serials, toServer, held, toClient, serverUp, runs>>

\* The serial of an object's message: given at its first send, then kept.
SerialOf(r) == IF r.serial = 0 THEN serials + 1 ELSE r.serial

\* Wrong: the object is used again after its call threw.
CallAfterThrow(c) ==
    /\ request[c].phase \in {"built", "answered", "thrown"}
    /\ issued < MaxCalls
    /\ issued' = issued + 1
    /\ LET s == SerialOf(request[c]) IN
        /\ request' = [request EXCEPT ![c] =
               [phase |-> "blocked", serial |-> s, call |-> issued + 1,
                response |-> NoResponse, left |-> CallLimit]]
        /\ toServer' = toServer \cup {[serial |-> s, call |-> issued + 1]}
        /\ serials' = IF request[c].serial = 0 THEN s ELSE serials
    /\ UNCHANGED <<held, toClient, serverUp, runs>>

\* call(): drop the response of an earlier call, send the message, block.
\* A second call on the same object is what push(...).call().get_int() makes.
Call(c) ==
    /\ request[c].phase \in {"built", "answered"}
    /\ issued < MaxCalls
    /\ issued' = issued + 1
    /\ LET s == SerialOf(request[c]) IN
        /\ request' = [request EXCEPT ![c] =
               [phase |-> "blocked", serial |-> s, call |-> issued + 1,
                response |-> NoResponse, left |-> CallLimit]]
        /\ toServer' = toServer \cup {[serial |-> s, call |-> issued + 1]}
        /\ serials' = IF request[c].serial = 0 THEN s ELSE serials
    /\ UNCHANGED <<held, toClient, serverUp, runs>>

\* Wrong: what comes back is not looked at, an error passes for a response.
CompleteUnchecked(c, reply) ==
    request' = [request EXCEPT ![c] =
        [@ EXCEPT !.phase = "answered", !.response = reply.call]]

\* call() returns with the response, or throws when libdbus hands it an error.
Complete(c, reply) ==
    request' = [request EXCEPT ![c] =
        IF reply.error
        THEN [@ EXCEPT !.phase = "thrown"]
        ELSE [@ EXCEPT !.phase = "answered", !.response = reply.call]]

\* Wrong: no limit at all.
ExpireNever(c) == FALSE /\ UNCHANGED vars

\* Wrong: at its limit the call sends its message again.
ExpireResends(c) ==
    /\ request[c].phase = "blocked"
    /\ request[c].left = 0
    /\ request' = [request EXCEPT ![c] = [@ EXCEPT !.left = CallLimit]]
    /\ toServer' = toServer \cup {[serial |-> request[c].serial, call |-> request[c].call]}
    /\ UNCHANGED <<issued, serials, held, toClient, serverUp, runs>>

\* call(): the time limit has run out, there is no response, it throws.
Expire(c) ==
    /\ request[c].phase = "blocked"
    /\ request[c].left = 0
    /\ request' = [request EXCEPT ![c] = [@ EXCEPT !.phase = "thrown"]]
    /\ UNCHANGED <<issued, serials, toServer, held, toClient, serverUp, runs>>

\* ~Request(): the operation returns or its exception unwinds the stack.
Destroy(c) ==
    /\ request[c].phase \in {"answered", "thrown"}
    /\ request' = [request EXCEPT ![c] = NoRequest]
    /\ UNCHANGED <<issued, serials, toServer, held, toClient, serverUp, runs>>

-----------------------------------------------------------------------------
(* libdbus, the bus, pw3270 and time.                                      *)

\* The thread whose blocking call waits for a serial.
Waits(c, s) == request[c].phase = "blocked" /\ request[c].serial = s

\* The connection reads a reply: it completes the blocking call that waits
\* for its serial.
Deliver(c, reply) ==
    /\ Waits(c, reply.serial)
    /\ Complete(c, reply)
    /\ toClient' = toClient \ {reply}
    /\ UNCHANGED <<issued, serials, toServer, held, serverUp, runs>>

\* Nobody waits for its serial any more: the late reply is dropped.
Drop(reply) ==
    /\ \A c \in Client : ~Waits(c, reply.serial)
    /\ toClient' = toClient \ {reply}
    /\ UNCHANGED <<request, issued, serials, toServer, held, serverUp, runs>>

\* pw3270 takes a message and executes what it asks for.
Execute(m) ==
    /\ serverUp
    /\ toServer' = toServer \ {m}
    /\ held' = held \cup {m}
    /\ runs' = [runs EXCEPT ![m.call] = @ + 1]
    /\ UNCHANGED <<request, issued, serials, toClient, serverUp>>

ReplyTo(m, err) == [serial |-> m.serial, call |-> m.call, error |-> err]

\* pw3270 answers a message it has executed, in any order.
Answer(m) ==
    /\ serverUp
    /\ held' = held \ {m}
    /\ toClient' = toClient \cup {ReplyTo(m, FALSE)}
    /\ UNCHANGED <<request, issued, serials, toServer, serverUp, runs>>

\* Nobody owns the name: the bus answers with an error, to what pw3270 never
\* saw and to what it left unanswered.
Bounce(m) ==
    /\ ~serverUp
    /\ toServer' = toServer \ {m}
    /\ held' = held \ {m}
    /\ toClient' = toClient \cup {ReplyTo(m, TRUE)}
    /\ UNCHANGED <<request, issued, serials, serverUp, runs>>

\* pw3270 exits, or crashes.
Exit ==
    /\ serverUp
    /\ serverUp' = FALSE
    /\ UNCHANGED <<request, issued, serials, toServer, held, toClient, runs>>

\* It is started again; what the last one left unanswered was bounced.
Restart ==
    /\ ~serverUp
    /\ held = {}
    /\ serverUp' = TRUE
    /\ UNCHANGED <<request, issued, serials, toServer, held, toClient, runs>>

\* Time passes for the calls that block, never beyond a limit that is due.
Tick ==
    /\ \E c \in Client : request[c].phase = "blocked"
    /\ \A c \in Client : request[c].phase = "blocked" => request[c].left > 0
    /\ request' = [c \in Client |->
           IF request[c].phase = "blocked"
           THEN [request[c] EXCEPT !.left = @ - 1] ELSE request[c]]
    /\ UNCHANGED <<issued, serials, toServer, held, toClient, serverUp, runs>>

-----------------------------------------------------------------------------
Next ==
    \/ \E c \in Client : Construct(c) \/ Call(c) \/ Expire(c) \/ Destroy(c)
    \/ \E reply \in toClient : Drop(reply) \/ \E c \in Client : Deliver(c, reply)
    \/ \E m \in toServer : Execute(m)
    \/ \E m \in held : Answer(m)
    \/ \E m \in toServer \cup held : Bounce(m)
    \/ Exit
    \/ Restart
    \/ Tick

\* Clocks advance and a blocked thread wakes up at its limit.  Nothing is
\* assumed of pw3270, which may never answer.
Fairness ==
    /\ WF_vars(Tick)
    /\ \A c \in Client : WF_vars(Expire(c))

Spec == Init /\ [][Next]_vars

FairSpec == Spec /\ Fairness

-----------------------------------------------------------------------------
(* Properties.                                                             *)

\* The response a thread reads is the one to the call it made: neither the
\* late answer to a call somebody gave up nor the answer to the first of two
\* calls on the same object, which share a serial, ever takes its place.
ResponseIsOwn ==
    \A c \in Client :
        request[c].phase = "answered" => request[c].response = request[c].call

\* A call that returned a response has been executed by pw3270, exactly once.
AnsweredRanOnce ==
    \A c \in Client :
        request[c].phase = "answered" => runs[request[c].call] = 1

\* Every blocking call ends, answered or not: no thread hangs on a pw3270
\* that went away or stopped answering.
CallsEnd ==
    \A c \in Client : request[c].phase = "blocked" ~> request[c].phase /= "blocked"

\* What each object looks like to the operation that uses it.
ChannelState(r) ==
    CASE r.phase \in {"none", "built"} -> "idle"
      [] r.phase = "blocked" -> "waiting"
      [] r.phase = "answered" -> "ok"
      [] r.phase = "thrown" -> "failed"

Channel == INSTANCE RequestChannel WITH
    state <- [c \in Client |-> ChannelState(request[c])],
    call <- [c \in Client |-> request[c].call]

\* The protocol keeps the promise of RequestChannel: no call is executed
\* twice, a response comes from an execution, and a call that threw, at its
\* limit or because pw3270 went away, may still be executed later.
ImplementsChannel == Channel!Spec
=============================================================================
