------------------------- MODULE PipeRequestProofs -------------------------
(***************************************************************************)
(* Proofs about PipeRequest, for every set of threads, any number of calls *)
(* and any sizes of buffer, messages and answers.                          *)
(*                                                                         *)
(* The inductive invariant says that the mutex is held by the one thread   *)
(* in a transaction (MutexOK), and that there is one message or answer in  *)
(* the pipe at most, which is of that thread's call (TrafficOK, InFlight). *)
(***************************************************************************)
EXTENDS PipeRequest, TLAPS

\* A call in progress has its number; one that waits for the mutex has not been
\* executed, one that was answered has, once.
ObjectsOK ==
    \A c \in Client :
        LET r == request[c] IN
        /\ r.phase \in {"none", "built"} => r.call = 0
        /\ r.phase \notin {"none", "built"} => r.call > 0
        /\ r.call <= issued
        /\ r.phase = "locking" => runs[r.call] = 0
        /\ r.phase = "answered" => r.response = r.call /\ runs[r.call] = 1

\* No two objects are in the same call.
CallsDistinct ==
    \A c, d \in Client :
        c # d /\ request[c].call > 0 => request[c].call # request[d].call

\* The mutex is held by the thread in a transaction.
MutexOK == \A c \in Client : request[c].phase = "waiting" <=> owner = c

\* What is in the pipe belongs to the call of the transaction; without one,
\* only an answer that did not fit is left.
TrafficOK ==
    /\ owner = NoClient =>
        /\ toServer = {} /\ held = {}
        /\ \A reply \in unread : reply.size > PipeBuffer
    /\ owner # NoClient =>
        \A m \in toServer \cup held \cup unread : m.call = request[owner].call
    /\ ~ connected => toServer = {} /\ held = {}

\* A message is in one place: on its way, with pw3270, or answered.
InFlight ==
    /\ \A m, n \in toServer : m = n
    /\ \A m, n \in held : m = n
    /\ \A m, n \in unread : m = n
    /\ toServer # {} => held = {} /\ unread = {}
    /\ held # {} => unread = {}

\* A call is executed when pw3270 takes it, not before and not again.
RunsOK ==
    /\ \A n \in Calls : n > issued => runs[n] = 0
    /\ \A m \in toServer : runs[m.call] = 0
    /\ \A m \in held \cup unread : runs[m.call] = 1

IInv ==
    /\ TypeOK
    /\ ObjectsOK
    /\ CallsDistinct
    /\ MutexOK
    /\ TrafficOK
    /\ InFlight
    /\ RunsOK

-----------------------------------------------------------------------------
(* The invariant holds at first.                                           *)
LEMMA InitIInv == Init => IInv
BY SizesAssumption, MaxCallsAssumption, NoClientAssumption
   DEF Init, IInv, TypeOK, Requests, Phases, Calls, NoRequest,
       ObjectsOK, CallsDistinct, MutexOK, TrafficOK, InFlight, RunsOK

(* A new object.                                                           *)
LEMMA ConstructKeeps ==
    ASSUME IInv, NEW c \in Client, Construct(c)
    PROVE  IInv'
<1> USE SizesAssumption, MaxCallsAssumption, NoClientAssumption DEF IInv
<1>1. TypeOK'
  <2> DEFINE r == [request[c] EXCEPT !.phase = "built"]
  <2>1. r \in Requests
    BY DEF TypeOK, Requests, Phases
  <2> HIDE DEF r
  <2>2. [r EXCEPT !.used = Header] \in Requests
    BY <2>1 DEF Requests
  <2> USE DEF r
  <2> QED BY <2>2 DEF Construct, TypeOK
<1>2. ObjectsOK'
  BY DEF Construct, ObjectsOK, TypeOK, Requests, Phases
<1>3. CallsDistinct'
  BY DEF Construct, CallsDistinct, TypeOK, Requests, Phases
<1>4. MutexOK'
  BY DEF Construct, MutexOK, TypeOK, Requests, Phases
<1>5. TrafficOK'
  BY DEF Construct, TrafficOK, TypeOK, Requests, Phases
<1>6. InFlight'
  BY DEF Construct, InFlight
<1>7. RunsOK'
  BY DEF Construct, RunsOK
<1> QED BY <1>1, <1>2, <1>3, <1>4, <1>5, <1>6, <1>7

(* A value in the block.                                                   *)
LEMMA PushKeeps ==
    ASSUME IInv, NEW c \in Client, NEW length \in ArgSizes, Push(c, length)
    PROVE  IInv'
<1> USE SizesAssumption, MaxCallsAssumption, NoClientAssumption DEF IInv
<1>1. TypeOK'
  BY DEF Push, TypeOK, Requests, Phases, NoRequest
<1>2. ObjectsOK'
  BY DEF Push, ObjectsOK, TypeOK, Requests, Phases, NoRequest
<1>3. CallsDistinct'
  BY DEF Push, CallsDistinct, TypeOK, Requests, Phases, NoRequest, ObjectsOK
<1>4. MutexOK'
  BY DEF Push, MutexOK, TypeOK, Requests, Phases, NoRequest
<1>5. TrafficOK'
  BY DEF Push, TrafficOK, TypeOK, Requests, Phases, MutexOK, NoRequest
<1>6. InFlight'
  BY DEF Push, InFlight
<1>7. RunsOK'
  BY DEF Push, RunsOK
<1> QED BY <1>1, <1>2, <1>3, <1>4, <1>5, <1>6, <1>7

(* A call begins.                                                          *)
LEMMA CallKeeps ==
    ASSUME IInv, NEW c \in Client, Call(c)
    PROVE  IInv'
<1> USE SizesAssumption, MaxCallsAssumption, NoClientAssumption DEF IInv
<1>1. TypeOK'
  <2> DEFINE r == [request[c] EXCEPT !.phase = "locking"]
  <2>1. r \in Requests /\ issued + 1 \in 0..MaxCalls
    BY DEF Call, TypeOK, Requests, Phases
  <2> HIDE DEF r
  <2>2. [r EXCEPT !.call = issued + 1] \in Requests
    BY <2>1 DEF Requests
  <2> USE DEF r
  <2> QED BY <2>2 DEF Call, TypeOK
<1>2. ObjectsOK'
  BY DEF Call, ObjectsOK, TypeOK, Requests, Phases, RunsOK, Calls
<1>3. CallsDistinct'
  BY DEF Call, CallsDistinct, TypeOK, Requests, Phases, ObjectsOK
<1>4. MutexOK'
  BY DEF Call, MutexOK, TypeOK, Requests, Phases
<1>5. TrafficOK'
  BY DEF Call, TrafficOK, TypeOK, Requests, Phases, MutexOK
<1>6. InFlight'
  BY DEF Call, InFlight
<1>7. RunsOK'
  BY DEF Call, RunsOK, Calls, TypeOK
<1> QED BY <1>1, <1>2, <1>3, <1>4, <1>5, <1>6, <1>7

(* A transaction begins.                                                   *)
LEMMA TransactKeeps ==
    ASSUME IInv, NEW c \in Client, Transact(c)
    PROVE  IInv'
<1> USE SizesAssumption, MaxCallsAssumption, NoClientAssumption DEF IInv
<1>1. TypeOK'
  BY DEF Transact, SetPhase, TypeOK, Requests, Phases, MessageOf, ObjectsOK, Messages, Calls
<1>2. ObjectsOK'
  BY DEF Transact, SetPhase, ObjectsOK, TypeOK, Requests, Phases
<1>3. CallsDistinct'
  BY DEF Transact, SetPhase, CallsDistinct, TypeOK, Requests, Phases
<1>4. MutexOK'
  BY DEF Transact, SetPhase, MutexOK, TypeOK, Requests, Phases
<1>5. TrafficOK'
  BY DEF Transact, SetPhase, TrafficOK, TypeOK, Requests, Phases, MessageOf
<1>6. InFlight'
  BY DEF Transact, SetPhase, InFlight, TrafficOK
<1>7. RunsOK'
  BY DEF Transact, SetPhase, RunsOK, MessageOf, ObjectsOK
<1> QED BY <1>1, <1>2, <1>3, <1>4, <1>5, <1>6, <1>7

(* A transaction is refused.                                               *)
LEMMA RefuseKeeps ==
    ASSUME IInv, NEW c \in Client, Refuse(c)
    PROVE  IInv'
<1> USE SizesAssumption, MaxCallsAssumption, NoClientAssumption DEF IInv
<1>1. TypeOK'
  BY DEF Refuse, SetPhase, TypeOK, Requests, Phases
<1>2. ObjectsOK'
  BY DEF Refuse, SetPhase, ObjectsOK, TypeOK, Requests, Phases
<1>3. CallsDistinct'
  BY DEF Refuse, SetPhase, CallsDistinct, TypeOK, Requests, Phases
<1>4. MutexOK'
  BY DEF Refuse, SetPhase, MutexOK, TypeOK, Requests, Phases
<1>5. TrafficOK'
  BY DEF Refuse, SetPhase, TrafficOK, TypeOK, Requests, Phases, MutexOK
<1>6. InFlight'
  BY DEF Refuse, SetPhase, InFlight
<1>7. RunsOK'
  BY DEF Refuse, SetPhase, RunsOK
<1> QED BY <1>1, <1>2, <1>3, <1>4, <1>5, <1>6, <1>7

(* A transaction ends with an answer.                                      *)
LEMMA ReceiveKeeps ==
    ASSUME IInv, NEW c \in Client, NEW reply \in unread, Receive(c, reply)
    PROVE  IInv'
<1> USE NoClientAssumption DEF IInv
<1> DEFINE thrown == [request[c] EXCEPT !.phase = "thrown"]
           answered == [request[c] EXCEPT !.phase = "answered", !.response = reply.call]
<1>1. request[c] \in Requests /\ reply.call \in 0..MaxCalls
  BY DEF TypeOK, Replies, Calls
<1>2. /\ thrown \in Requests /\ thrown.phase = "thrown" /\ thrown.call = request[c].call
      /\ answered \in Requests /\ answered.phase = "answered"
      /\ answered.call = request[c].call /\ answered.response = reply.call
  BY <1>1 DEF Requests, Phases
\* The object as the call leaves it.
<1> DEFINE r == IF reply.size > PipeBuffer \/ reply.error THEN thrown ELSE answered
<1>3. request' = [request EXCEPT ![c] = r]
  BY DEF Receive, SetPhase
<1> HIDE DEF thrown, answered
<1>4. /\ r \in Requests
      /\ r.call = request[c].call
      /\ r.phase = "thrown" \/ (r.phase = "answered" /\ r.response = reply.call)
  BY <1>2
<1> HIDE DEF r
<1>5. request'[c] = r /\ \A d \in Client : d # c => request'[d] = request[d]
  BY <1>3 DEF TypeOK
<1>6. request[c].phase = "waiting" /\ owner = c /\ owner' = NoClient
  BY DEF Receive, MutexOK
<1>7. reply.call = request[c].call /\ runs[reply.call] = 1
  BY <1>6 DEF TrafficOK, RunsOK
<1>8. UNCHANGED <<issued, toServer, held, connected, runs>> /\ unread' \subseteq unread
  BY DEF Receive
<1>9. TypeOK'
  BY <1>3, <1>4, <1>6, <1>8 DEF TypeOK
<1>10. ObjectsOK'
  BY <1>4, <1>5, <1>6, <1>7, <1>8 DEF ObjectsOK
<1>11. CallsDistinct'
  BY <1>4, <1>5 DEF CallsDistinct
<1>12. MutexOK'
  BY <1>4, <1>5, <1>6 DEF MutexOK
<1>13. TrafficOK'
  <2>1. toServer' = {} /\ held' = {}
    BY <1>8 DEF InFlight
  <2>2. \A other \in unread' : other.size > PipeBuffer
    BY SizesAssumption DEF Receive, InFlight, TypeOK, Replies
  <2> QED BY <2>1, <2>2, <1>6 DEF TrafficOK
<1>14. InFlight'
  BY <1>8 DEF InFlight
<1>15. RunsOK'
  BY <1>8 DEF RunsOK
<1> QED BY <1>9, <1>10, <1>11, <1>12, <1>13, <1>14, <1>15

(* A transaction ends because the pipe is closed.                          *)
LEMMA BreakKeeps ==
    ASSUME IInv, NEW c \in Client, Break(c)
    PROVE  IInv'
<1> USE SizesAssumption, MaxCallsAssumption, NoClientAssumption DEF IInv
<1>1. TypeOK'
  BY DEF Break, SetPhase, TypeOK, Requests, Phases
<1>2. ObjectsOK'
  BY DEF Break, SetPhase, ObjectsOK, TypeOK, Requests, Phases
<1>3. CallsDistinct'
  BY DEF Break, SetPhase, CallsDistinct, TypeOK, Requests, Phases
<1>4. MutexOK'
  BY DEF Break, SetPhase, MutexOK, TypeOK, Requests, Phases
<1>5. TrafficOK'
  BY DEF Break, SetPhase, TrafficOK, TypeOK, Requests, Phases
<1>6. InFlight'
  BY DEF Break, SetPhase, InFlight
<1>7. RunsOK'
  BY DEF Break, SetPhase, RunsOK
<1> QED BY <1>1, <1>2, <1>3, <1>4, <1>5, <1>6, <1>7

(* An object goes.                                                         *)
LEMMA DestroyKeeps ==
    ASSUME IInv, NEW c \in Client, Destroy(c)
    PROVE  IInv'
<1> USE SizesAssumption, MaxCallsAssumption, NoClientAssumption DEF IInv
<1>1. TypeOK'
  BY DEF Destroy, NoRequest, TypeOK, Requests, Phases
<1>2. ObjectsOK'
  BY DEF Destroy, NoRequest, ObjectsOK, TypeOK, Requests, Phases
<1>3. CallsDistinct'
  BY DEF Destroy, NoRequest, CallsDistinct, TypeOK, Requests, Phases, ObjectsOK
<1>4. MutexOK'
  BY DEF Destroy, NoRequest, MutexOK, TypeOK, Requests, Phases
<1>5. TrafficOK'
  BY DEF Destroy, NoRequest, TrafficOK, TypeOK, Requests, Phases, MutexOK
<1>6. InFlight'
  BY DEF Destroy, NoRequest, InFlight
<1>7. RunsOK'
  BY DEF Destroy, NoRequest, RunsOK
<1> QED BY <1>1, <1>2, <1>3, <1>4, <1>5, <1>6, <1>7

(* pw3270 takes a message.                                                 *)
LEMMA ExecuteKeeps ==
    ASSUME IInv, NEW m \in toServer, Execute(m)
    PROVE  IInv'
<1> USE SizesAssumption, MaxCallsAssumption, NoClientAssumption DEF IInv
<1>1. TypeOK'
  BY DEF Execute, TypeOK, Messages, Calls
<1>2. ObjectsOK'
  <2>1. \A d \in Client : request[d].phase \in {"locking", "answered"} => request[d].call # m.call
    BY DEF ObjectsOK, RunsOK, TrafficOK, MutexOK, CallsDistinct, TypeOK, Requests
  <2> QED BY <2>1 DEF Execute, ObjectsOK, TypeOK, Messages
<1>3. CallsDistinct'
  BY DEF Execute, CallsDistinct
<1>4. MutexOK'
  BY DEF Execute, MutexOK
<1>5. TrafficOK'
  BY DEF Execute, TrafficOK
<1>6. InFlight'
  BY DEF Execute, InFlight
<1>7. RunsOK'
  <2>1. /\ m.call \in Calls /\ m.call <= issued /\ runs[m.call] = 0
        /\ toServer' = {} /\ held' = {m} /\ unread' = {}
    <3>1. owner \in Client /\ m.call = request[owner].call
      BY DEF TypeOK, TrafficOK
    <3> QED BY <3>1 DEF Execute, TypeOK, Messages, InFlight, RunsOK, ObjectsOK
  <2>2. runs' = [runs EXCEPT ![m.call] = 1] /\ issued' = issued
    BY <2>1 DEF Execute
  <2> QED BY <2>1, <2>2 DEF RunsOK, TypeOK, Calls
<1> QED BY <1>1, <1>2, <1>3, <1>4, <1>5, <1>6, <1>7

(* pw3270 answers.                                                         *)
LEMMA AnswerKeeps ==
    ASSUME IInv, NEW m \in held, NEW size \in ReplySizes, NEW error \in BOOLEAN,
           Answer(m, size, error)
    PROVE  IInv'
<1> USE SizesAssumption, MaxCallsAssumption, NoClientAssumption DEF IInv
<1>1. TypeOK'
  BY DEF Answer, TypeOK, Messages, Replies
<1>2. ObjectsOK'
  BY DEF Answer, ObjectsOK, TypeOK
<1>3. CallsDistinct'
  BY DEF Answer, CallsDistinct
<1>4. MutexOK'
  BY DEF Answer, MutexOK
<1>5. TrafficOK'
  BY DEF Answer, TrafficOK
<1>6. InFlight'
  BY DEF Answer, InFlight
<1>7. RunsOK'
  BY DEF Answer, RunsOK
<1> QED BY <1>1, <1>2, <1>3, <1>4, <1>5, <1>6, <1>7

(* pw3270 exits.                                                           *)
LEMMA ExitKeeps ==
    ASSUME IInv, Exit
    PROVE  IInv'
<1> USE SizesAssumption, MaxCallsAssumption, NoClientAssumption DEF IInv
<1>1. TypeOK'
  BY DEF Exit, TypeOK
<1>2. ObjectsOK'
  BY DEF Exit, ObjectsOK, TypeOK
<1>3. CallsDistinct'
  BY DEF Exit, CallsDistinct
<1>4. MutexOK'
  BY DEF Exit, MutexOK
<1>5. TrafficOK'
  BY DEF Exit, TrafficOK
<1>6. InFlight'
  BY DEF Exit, InFlight
<1>7. RunsOK'
  BY DEF Exit, RunsOK
<1> QED BY <1>1, <1>2, <1>3, <1>4, <1>5, <1>6, <1>7

(* Every step keeps the invariant.                                         *)
LEMMA NextIInv == IInv /\ [Next]_vars => IInv'
<1> SUFFICES ASSUME IInv, [Next]_vars PROVE IInv'
    OBVIOUS
<1>1. CASE UNCHANGED vars
  BY <1>1 DEF vars, IInv, TypeOK, ObjectsOK, CallsDistinct, MutexOK, TrafficOK, InFlight, RunsOK
<1>2. CASE Next
  BY <1>2, ConstructKeeps, PushKeeps, CallKeeps, TransactKeeps, RefuseKeeps, ReceiveKeeps,
     BreakKeeps, DestroyKeeps, ExecuteKeeps, AnswerKeeps, ExitKeeps DEF Next
<1> QED BY <1>1, <1>2

-----------------------------------------------------------------------------
(* The invariant holds always.                                             *)
THEOREM Invariant == Spec => []IInv
<1>1. Init => IInv
  BY InitIInv
<1>2. IInv /\ [Next]_vars => IInv'
  BY NextIInv
<1> QED BY <1>1, <1>2, PTL DEF Spec

(* Objects, messages and answers are well formed; in particular no message *)
(* fills the buffer it is built in.                                        *)
THEOREM TypeCorrect == Spec => []TypeOK
<1>1. IInv => TypeOK
  BY DEF IInv
<1> QED BY <1>1, Invariant, PTL

(* A thread only reads the response to its own call, whichever thread has  *)
(* used the pipe before.                                                   *)
THEOREM OwnResponse == Spec => []ResponseIsOwn
<1>1. IInv => ResponseIsOwn
  BY DEF IInv, ObjectsOK, ResponseIsOwn
<1> QED BY <1>1, Invariant, PTL

(* When a call has thrown, pw3270 has executed it or never will.           *)
THEOREM SettledThrow == Spec => []ThrownIsSettled
<1>1. IInv => ThrownIsSettled
  <2> SUFFICES ASSUME IInv, NEW c \in Client, request[c].phase = "thrown",
                      NEW m \in toServer \cup held
               PROVE  m.call # request[c].call
      BY DEF ThrownIsSettled
  <2>1. owner \in Client /\ owner # c /\ m.call = request[owner].call
    BY DEF IInv, TypeOK, TrafficOK, MutexOK
  <2>2. request[owner].call > 0
    BY <2>1 DEF IInv, TypeOK, Requests, ObjectsOK, MutexOK
  <2> QED BY <2>1, <2>2 DEF IInv, CallsDistinct
<1> QED BY <1>1, Invariant, PTL

(* Between transactions the pipe is empty, but for an answer that did not  *)
(* fit.                                                                    *)
THEOREM CleanPipe == Spec => []PipeClean
<1>1. IInv => PipeClean
  BY DEF IInv, TrafficOK, PipeClean
<1> QED BY <1>1, Invariant, PTL

-----------------------------------------------------------------------------
(* The pipe begins as the channel does.                                    *)
LEMMA InitChannel == Init => Channel!Init
BY DEF Init, Channel!Init, ChannelState, NoRequest, Calls, Channel!Calls

(* What the channel sees of a step that changes one object.                *)
LEMMA OneObject ==
    ASSUME NEW c \in Client, NEW r, request \in [Client -> Requests],
           request' = [request EXCEPT ![c] = r]
    PROVE  /\ [d \in Client |-> ChannelState(request[d])]'
                = [[d \in Client |-> ChannelState(request[d])]
                      EXCEPT ![c] = ChannelState(r)]
           /\ [d \in Client |-> request[d].call]'
                = [[d \in Client |-> request[d].call] EXCEPT ![c] = r.call]
OBVIOUS

(* Every step of the pipe is a step of the channel or none.                *)
LEMMA NextChannel == IInv /\ [Next]_vars => [Channel!Next]_(Channel!vars)
<1> SUFFICES ASSUME IInv, [Next]_vars PROVE [Channel!Next]_(Channel!vars)
    OBVIOUS
<1> DEFINE state == [d \in Client |-> ChannelState(request[d])]
           call == [d \in Client |-> request[d].call]
<1>t. request \in [Client -> Requests]
  BY DEF IInv, TypeOK
\* Steps that the channel does not see.
<1>1. ASSUME request' = request, issued' = issued, runs' = runs
      PROVE UNCHANGED Channel!vars
  BY <1>1 DEF Channel!vars
<1>2. ASSUME NEW c \in Client, NEW r, request' = [request EXCEPT ![c] = r],
             ChannelState(r) = ChannelState(request[c]), r.call = request[c].call,
             issued' = issued, runs' = runs
      PROVE UNCHANGED Channel!vars
  <2>1. state' = state /\ call' = call
    BY <1>2, <1>t, OneObject
  <2> QED BY <1>2, <2>1 DEF Channel!vars
<1>3. ASSUME NEW c \in Client, Construct(c) PROVE UNCHANGED Channel!vars
  <2> DEFINE q == [request[c] EXCEPT !.phase = "built"]
             r == [q EXCEPT !.used = Header]
  <2>1. q \in Requests /\ q.phase = "built" /\ q.call = request[c].call
    BY <1>t DEF Requests, Phases
  <2>2. request' = [request EXCEPT ![c] = r]
    BY <1>3 DEF Construct
  <2> HIDE DEF q
  <2>3. r.phase = "built" /\ r.call = request[c].call
    BY <2>1 DEF Requests
  <2>4. ChannelState(r) = ChannelState(request[c])
    BY <1>3, <2>3 DEF Construct, ChannelState
  <2> HIDE DEF r
  <2> QED BY <1>2, <1>3, <2>2, <2>3, <2>4 DEF Construct
<1>4. ASSUME NEW c \in Client, NEW length \in ArgSizes, Push(c, length)
      PROVE UNCHANGED Channel!vars
  <2> DEFINE r == [request[c] EXCEPT !.used = request[c].used + length + 1]
  <2>1. r.phase = "built" /\ r.call = request[c].call /\ request[c].phase = "built"
    BY <1>4, <1>t DEF Push, Requests
  <2>2. request[c].call = 0
    BY <2>1 DEF IInv, ObjectsOK
  <2>3. /\ ChannelState(r) = ChannelState(request[c])
        /\ ChannelState(NoRequest) = ChannelState(request[c])
        /\ NoRequest.call = request[c].call
    BY <2>1, <2>2 DEF ChannelState, NoRequest
  <2>4. request' = [request EXCEPT ![c] = r] \/ request' = [request EXCEPT ![c] = NoRequest]
    BY <1>4 DEF Push
  <2> HIDE DEF r
  <2> QED BY <1>2, <1>4, <2>1, <2>3, <2>4 DEF Push
<1>5. ASSUME NEW c \in Client, Call(c) PROVE Channel!Begin(c)
  <2> DEFINE q == [request[c] EXCEPT !.phase = "locking"]
             r == [q EXCEPT !.call = issued + 1]
  <2>1. q \in Requests /\ q.phase = "locking"
    BY <1>t DEF Requests, Phases
  <2>2. /\ request' = [request EXCEPT ![c] = r]
        /\ issued < MaxCalls /\ issued' = issued + 1 /\ runs' = runs
    BY <1>5 DEF Call
  <2>3. state[c] \in {"idle", "ok"}
    BY <1>5 DEF Call, ChannelState
  <2> HIDE DEF q
  <2>4. r.call = issued + 1 /\ ChannelState(r) = "waiting"
    BY <2>1 DEF Requests, ChannelState
  <2> HIDE DEF r
  <2>5. /\ state' = [state EXCEPT ![c] = "waiting"]
        /\ call' = [call EXCEPT ![c] = issued + 1]
    BY <2>2, <2>4, <1>t, OneObject
  <2> QED BY <2>2, <2>3, <2>5 DEF Channel!Begin
<1>6. ASSUME NEW c \in Client, Transact(c) PROVE UNCHANGED Channel!vars
  <2> DEFINE r == [request[c] EXCEPT !.phase = "waiting"]
  <2>1. /\ ChannelState(r) = ChannelState(request[c]) /\ r.call = request[c].call
        /\ request' = [request EXCEPT ![c] = r]
    BY <1>6, <1>t DEF Transact, SetPhase, ChannelState, Requests
  <2> HIDE DEF r
  <2> QED BY <1>2, <1>6, <2>1 DEF Transact
\* Throwing, from wherever it comes.
<1>7. ASSUME NEW c \in Client, request[c].phase \in {"locking", "waiting"},
             request' = [request EXCEPT ![c] = [request[c] EXCEPT !.phase = "thrown"]],
             issued' = issued, runs' = runs
      PROVE Channel!Throw(c)
  <2> DEFINE r == [request[c] EXCEPT !.phase = "thrown"]
  <2>1. ChannelState(r) = "failed" /\ r.call = request[c].call /\ state[c] = "waiting"
    BY <1>7, <1>t DEF ChannelState, Requests
  <2> HIDE DEF r
  <2>2. state' = [state EXCEPT ![c] = "failed"] /\ call' = call
    BY <2>1, <1>7, <1>t, OneObject DEF r
  <2> QED BY <2>1, <2>2, <1>7 DEF Channel!Throw
<1>8. ASSUME NEW c \in Client, Refuse(c) \/ Break(c) PROVE Channel!Throw(c)
  BY <1>7, <1>8 DEF Refuse, Break, SetPhase
<1>9. ASSUME NEW c \in Client, NEW reply \in unread, Receive(c, reply)
      PROVE Channel!Return(c) \/ Channel!Throw(c)
  <2>1. CASE reply.size > PipeBuffer \/ reply.error
    BY <1>7, <1>9, <2>1 DEF Receive, SetPhase
  <2>2. CASE ~ (reply.size > PipeBuffer \/ reply.error)
    <3> DEFINE q == [request[c] EXCEPT !.phase = "answered"]
    <3>1. request' = [request EXCEPT ![c] = [q EXCEPT !.response = reply.call]]
      BY <1>9, <2>2 DEF Receive
    <3>2. owner = c /\ reply.call = request[c].call /\ runs[reply.call] = 1
      <4>1. owner = c
        BY <1>9 DEF Receive, IInv, MutexOK
      <4> QED BY <4>1, NoClientAssumption DEF IInv, TrafficOK, RunsOK
    <3>3. q \in Requests /\ q.phase = "answered" /\ q.call = request[c].call
      BY <1>t DEF Requests, Phases
    <3> HIDE DEF q
    <3> DEFINE p == [q EXCEPT !.response = reply.call]
    <3>4. ChannelState(p) = "ok" /\ p.call = request[c].call
      BY <3>3 DEF Requests, ChannelState
    <3> HIDE DEF p
    <3>5. state' = [state EXCEPT ![c] = "ok"] /\ call' = call
      BY <3>1, <3>4, <1>t, OneObject DEF p
    <3>6. state[c] = "waiting"
      BY <1>9 DEF Receive, ChannelState
    <3> QED BY <1>9, <3>2, <3>5, <3>6 DEF Receive, Channel!Return
  <2> QED BY <2>1, <2>2
<1>10. ASSUME NEW c \in Client, Destroy(c) PROVE Channel!Release(c)
  <2>1. /\ ChannelState(NoRequest) = "idle" /\ NoRequest.call = 0
        /\ state[c] \in {"ok", "failed"}
        /\ request' = [request EXCEPT ![c] = NoRequest]
    BY <1>10 DEF Destroy, ChannelState, NoRequest
  <2>2. state' = [state EXCEPT ![c] = "idle"] /\ call' = [call EXCEPT ![c] = 0]
    BY <2>1, <1>t, OneObject
  <2> QED BY <1>10, <2>1, <2>2 DEF Destroy, Channel!Release
<1>11. ASSUME NEW m \in toServer, Execute(m) PROVE \E n \in Calls : Channel!Execute(n)
  <2>1. owner \in Client /\ m.call = request[owner].call
    BY DEF IInv, TypeOK, TrafficOK
  <2>2. m.call \in Calls /\ m.call <= issued /\ runs[m.call] = 0
    BY <2>1 DEF IInv, TypeOK, Messages, ObjectsOK, RunsOK
  <2>3. runs' = [runs EXCEPT ![m.call] = 1] /\ request' = request /\ issued' = issued
    BY <1>11, <2>2 DEF Execute
  <2> QED BY <2>2, <2>3 DEF Channel!Execute
<1>12. ASSUME NEW m \in held, NEW size \in ReplySizes, NEW error \in BOOLEAN,
              Answer(m, size, error)
       PROVE UNCHANGED Channel!vars
  BY <1>1, <1>12 DEF Answer
<1>13. ASSUME Exit PROVE UNCHANGED Channel!vars
  BY <1>1, <1>13 DEF Exit
<1>14. CASE UNCHANGED vars
  BY <1>1, <1>14 DEF vars
<1> HIDE DEF state, call
<1>15. Calls = Channel!Calls
  BY DEF Calls, Channel!Calls
<1> QED
  BY <1>3, <1>4, <1>5, <1>6, <1>8, <1>9, <1>10, <1>11, <1>12, <1>13, <1>14, <1>15
     DEF Next, Channel!Next

(* The named pipe is a second implementation of RequestChannel: at most    *)
(* one execution per call, a response only from an execution.              *)
THEOREM Refinement == Spec => ImplementsChannel
<1>1. Init => Channel!Init
  BY InitChannel
<1>2. IInv /\ [Next]_vars => [Channel!Next]_(Channel!vars)
  BY NextChannel
<1> QED BY <1>1, <1>2, Invariant, PTL DEF Spec, Channel!Spec, ImplementsChannel
=============================================================================
