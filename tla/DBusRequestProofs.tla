------------------------- MODULE DBusRequestProofs -------------------------
(***************************************************************************)
(* Proofs about DBusRequest, for every set of threads, every limit and any *)
(* number of calls.                                                        *)
(*                                                                         *)
(* The inductive invariant says where the answer to a call can be: a call  *)
(* is in one place only, and what travels under the serial of an object    *)
(* belongs to the call the object is in.                                   *)
(***************************************************************************)
EXTENDS DBusRequest, TLAPS

Traffic == toServer \cup held \cup toClient

\* An object has a serial and a call from its first call() on; its response,
\* if it has one, is the one to its call, and that call was executed once.
ObjectsOK ==
    \A c \in Client :
        LET r == request[c] IN
        /\ r.phase \in {"none", "built"} => r.serial = 0 /\ r.call = 0
        /\ r.phase \notin {"none", "built"} => r.serial > 0 /\ r.call > 0
        /\ r.serial <= serials
        /\ r.call <= issued
        /\ r.phase = "answered" => r.response = r.call /\ runs[r.call] = 1

\* No serial is given twice.
SerialsDistinct ==
    \A c, d \in Client :
        c /= d /\ request[c].serial > 0 => request[c].serial /= request[d].serial

\* What travels was sent; under the serial of an object travels only the call
\* the object is in, and nothing once it has its response.
TrafficOK ==
    /\ serials <= issued
    /\ \A m \in Traffic : m.call <= issued /\ m.serial <= serials
    /\ \A c \in Client : \A m \in Traffic :
           m.serial = request[c].serial =>
               m.call = request[c].call /\ request[c].phase /= "answered"

\* A call is in one place: on its way, with pw3270, or on its way back.
OnePlace ==
    /\ \A m, n \in toServer : m.call = n.call => m = n
    /\ \A m, n \in held : m.call = n.call => m = n
    /\ \A m, n \in toClient : m.call = n.call => m = n
    /\ \A m \in toServer, n \in held : m.call /= n.call
    /\ \A m \in toServer, n \in toClient : m.call /= n.call
    /\ \A m \in held, n \in toClient : m.call /= n.call

\* A call is executed when pw3270 takes it, not before and not again.
RunsOK ==
    /\ \A n \in Calls : n > issued => runs[n] = 0
    /\ \A m \in toServer : runs[m.call] = 0
    /\ \A m \in held : runs[m.call] = 1
    /\ \A m \in toClient : ~m.error => runs[m.call] = 1

IInv ==
    /\ TypeOK
    /\ ObjectsOK
    /\ SerialsDistinct
    /\ TrafficOK
    /\ OnePlace
    /\ RunsOK
-----------------------------------------------------------------------------
(* The invariant holds at first. *)
LEMMA InitIInv == Init => IInv
BY MaxCallsAssumption, CallLimitAssumption
   DEF Init, IInv, TypeOK, Requests, Phases, Messages, Replies, Calls, NoRequest,
       NoResponse, ObjectsOK, SerialsDistinct, TrafficOK, Traffic, OnePlace, RunsOK

(* Every step of the protocol keeps it. *)
LEMMA NextIInv == IInv /\ [Next]_vars => IInv'
<1> SUFFICES ASSUME IInv, [Next]_vars PROVE IInv'
    OBVIOUS
<1> USE MaxCallsAssumption, CallLimitAssumption DEF IInv
<1>1. ASSUME NEW c \in Client, Construct(c) PROVE IInv'
  <2>1. TypeOK'
    BY <1>1 DEF Construct, TypeOK, Requests, Phases
  <2>2. ObjectsOK'
    BY <1>1 DEF Construct, TypeOK, Requests, ObjectsOK
  <2>3. SerialsDistinct'
    BY <1>1 DEF Construct, TypeOK, Requests, SerialsDistinct
  <2>4. TrafficOK'
    BY <1>1 DEF Construct, TypeOK, Requests, TrafficOK, Traffic
  <2>5. OnePlace'
    BY <1>1 DEF Construct, OnePlace
  <2>6. RunsOK'
    BY <1>1 DEF Construct, RunsOK
  <2> QED BY <2>1, <2>2, <2>3, <2>4, <2>5, <2>6
<1>2. ASSUME NEW c \in Client, Call(c) PROVE IInv'
  <2>1. TypeOK'
    <3> DEFINE s == SerialOf(request[c])
    <3>1. issued + 1 \in 1..MaxCalls /\ s \in 1..MaxCalls
      BY <1>2 DEF Call, SerialOf, TypeOK, Requests, ObjectsOK, TrafficOK
    <3> HIDE DEF s
    <3>2. [phase |-> "blocked", serial |-> s, call |-> issued + 1,
           response |-> NoResponse, left |-> CallLimit] \in Requests
      BY <3>1 DEF Requests, Phases, NoResponse
    <3>3. [serial |-> s, call |-> issued + 1] \in Messages
      BY <3>1 DEF Messages, Calls
    <3>4. /\ request' = [request EXCEPT ![c] =
               [phase |-> "blocked", serial |-> s, call |-> issued + 1,
                response |-> NoResponse, left |-> CallLimit]]
          /\ toServer' = toServer \cup {[serial |-> s, call |-> issued + 1]}
          /\ serials' = IF request[c].serial = 0 THEN s ELSE serials
          /\ issued' = issued + 1
          /\ UNCHANGED <<held, toClient, serverUp, runs>>
      BY <1>2 DEF Call, s
    <3> QED BY <3>1, <3>2, <3>3, <3>4 DEF TypeOK
  <2>2. ObjectsOK'
    BY <1>2 DEF Call, SerialOf, TypeOK, Requests, ObjectsOK, RunsOK
  <2>3. SerialsDistinct'
    BY <1>2 DEF Call, SerialOf, TypeOK, Requests, ObjectsOK, SerialsDistinct
  <2>4. TrafficOK'
    <3> DEFINE n == [serial |-> SerialOf(request[c]), call |-> issued + 1]
    <3>1. /\ n.call = issued + 1 /\ n.serial = SerialOf(request[c])
          /\ toServer' = toServer \cup {n}
          /\ held' = held /\ toClient' = toClient /\ issued' = issued + 1
      BY <1>2 DEF Call
    <3>2. /\ \A d \in Client \ {c} : request'[d] = request[d]
          /\ request'[c].serial = n.serial /\ request'[c].call = n.call
          /\ request'[c].phase = "blocked"
          /\ serials' = IF request[c].serial = 0 THEN n.serial ELSE serials
      BY <1>2 DEF Call, TypeOK
    <3>3. /\ issued \in Nat /\ serials \in Nat
          /\ \A d \in Client : request[d].serial \in Nat
          /\ \A k \in Traffic : k.serial \in Nat /\ k.call \in Nat /\ k.serial > 0
      BY DEF TypeOK, Requests, Traffic, Messages, Replies, Calls
    <3>4. /\ serials' \in Nat /\ serials <= serials'
          /\ serials' <= issued' /\ n.serial <= serials'
      BY <1>2, <3>1, <3>2, <3>3 DEF SerialOf, TrafficOK, ObjectsOK
    <3>5. \A d \in Client \ {c} : request[d].serial /= n.serial
      BY <3>1, <3>3 DEF SerialOf, SerialsDistinct, ObjectsOK
    <3>6. \A k \in Traffic : k.serial /= n.serial
      BY <1>2, <3>1, <3>3 DEF Call, SerialOf, TrafficOK, ObjectsOK
    <3>7. Traffic' = Traffic \cup {n}
      BY <3>1 DEF Traffic
    <3> HIDE DEF n
    <3>8. \A k \in Traffic' : k.call <= issued' /\ k.serial <= serials'
      <4>1. \A k \in Traffic : k.call <= issued + 1 /\ k.serial <= serials'
        BY <3>1, <3>3, <3>4 DEF TrafficOK, TypeOK
      <4>2. n.call <= issued + 1 /\ n.serial <= serials'
        BY <3>1, <3>3, <3>4
      <4> QED BY <3>1, <3>7, <4>1, <4>2
    <3>9. ASSUME NEW d \in Client, NEW k \in Traffic', k.serial = request'[d].serial
          PROVE k.call = request'[d].call /\ request'[d].phase /= "answered"
      <4>1. CASE d = c
        BY <3>1, <3>2, <3>6, <3>7, <3>9, <4>1
      <4>2. CASE d /= c
        BY <3>2, <3>5, <3>7, <3>9, <4>2 DEF TrafficOK
      <4> QED BY <4>1, <4>2
    <3> QED BY <3>4, <3>8, <3>9 DEF TrafficOK
  <2>5. OnePlace'
    <3> DEFINE n == [serial |-> SerialOf(request[c]), call |-> issued + 1]
    <3>1. /\ n.call = issued + 1 /\ n.serial = SerialOf(request[c])
          /\ toServer' = toServer \cup {n}
          /\ held' = held /\ toClient' = toClient /\ issued' = issued + 1
      BY <1>2 DEF Call
    <3>2. \A k \in Traffic : k.call \in Nat /\ k.call <= issued
      BY DEF TrafficOK, TypeOK, Traffic, Messages, Replies, Calls
    <3>3. issued \in Nat
      BY DEF TypeOK
    <3> HIDE DEF n
    <3> QED BY <3>1, <3>2, <3>3 DEF OnePlace, Traffic
  <2>6. RunsOK'
    BY <1>2 DEF Call, TypeOK, Calls, TrafficOK, Traffic, RunsOK
  <2> QED BY <2>1, <2>2, <2>3, <2>4, <2>5, <2>6
<1>3. ASSUME NEW c \in Client, Expire(c) PROVE IInv'
  <2>1. TypeOK'
    <3>1. [request[c] EXCEPT !.phase = "thrown"] \in Requests
      BY DEF TypeOK, Requests, Phases
    <3> QED BY <1>3, <3>1 DEF Expire, TypeOK
  <2>2. ObjectsOK'
    BY <1>3 DEF Expire, TypeOK, Requests, ObjectsOK
  <2>3. SerialsDistinct'
    BY <1>3 DEF Expire, TypeOK, Requests, SerialsDistinct
  <2>4. TrafficOK'
    BY <1>3 DEF Expire, TypeOK, Requests, TrafficOK, Traffic
  <2>5. OnePlace'
    BY <1>3 DEF Expire, OnePlace
  <2>6. RunsOK'
    BY <1>3 DEF Expire, RunsOK
  <2> QED BY <2>1, <2>2, <2>3, <2>4, <2>5, <2>6
<1>4. ASSUME NEW c \in Client, Destroy(c) PROVE IInv'
  <2>1. TypeOK'
    <3>1. NoRequest \in Requests
      BY DEF NoRequest, NoResponse, Requests, Phases
    <3> QED BY <1>4, <3>1 DEF Destroy, TypeOK
  <2>2. ObjectsOK'
    BY <1>4 DEF Destroy, TypeOK, Requests, ObjectsOK, NoRequest
  <2>3. SerialsDistinct'
    BY <1>4 DEF Destroy, TypeOK, Requests, SerialsDistinct, NoRequest
  <2>4. TrafficOK'
    <3>1. \A m \in Traffic : m.serial > 0
      BY DEF TypeOK, Traffic, Messages, Replies
    <3>2. /\ request'[c].serial = 0
          /\ \A d \in Client \ {c} : request'[d] = request[d]
          /\ Traffic' = Traffic /\ issued' = issued /\ serials' = serials
      BY <1>4 DEF Destroy, TypeOK, NoRequest, Traffic
    <3> QED BY <3>1, <3>2 DEF TrafficOK
  <2>5. OnePlace'
    BY <1>4 DEF Destroy, OnePlace
  <2>6. RunsOK'
    BY <1>4 DEF Destroy, RunsOK
  <2> QED BY <2>1, <2>2, <2>3, <2>4, <2>5, <2>6
<1>5. ASSUME NEW r \in toClient, Drop(r) PROVE IInv'
  <2>1. TypeOK'
    BY <1>5 DEF Drop, TypeOK
  <2>2. ObjectsOK'
    BY <1>5 DEF Drop, ObjectsOK
  <2>3. SerialsDistinct'
    BY <1>5 DEF Drop, SerialsDistinct
  <2>4. TrafficOK'
    BY <1>5 DEF Drop, TrafficOK, Traffic
  <2>5. OnePlace'
    BY <1>5 DEF Drop, OnePlace
  <2>6. RunsOK'
    BY <1>5 DEF Drop, RunsOK
  <2> QED BY <2>1, <2>2, <2>3, <2>4, <2>5, <2>6
<1>6. ASSUME NEW c \in Client, NEW r \in toClient, Deliver(c, r) PROVE IInv'
  <2>1. TypeOK'
    <3>1. [request[c] EXCEPT !.phase = "thrown"] \in Requests
      BY DEF TypeOK, Requests, Phases
    <3>2. r.call \in 0..MaxCalls
      BY DEF TypeOK, Replies, Calls
    <3>3. [request[c] EXCEPT !.phase = "answered", !.response = r.call] \in Requests
      <4>1. request[c] \in Requests
        BY DEF TypeOK
      <4> QED BY <3>2, <4>1 DEF Requests, Phases
    <3>4. PICK x \in Requests : request' = [request EXCEPT ![c] = x]
      BY <1>6, <3>1, <3>3 DEF Deliver, Complete
    <3> QED BY <1>6, <3>4 DEF Deliver, TypeOK
  <2>2. ObjectsOK'
    BY <1>6 DEF Deliver, Waits, Complete, TypeOK, Requests, ObjectsOK, TrafficOK, Traffic, RunsOK
  <2>3. SerialsDistinct'
    BY <1>6 DEF Deliver, Waits, Complete, TypeOK, Requests, SerialsDistinct
  <2>4. TrafficOK'
    BY <1>6 DEF Deliver, Waits, Complete, TypeOK, Requests, OnePlace, TrafficOK, Traffic
  <2>5. OnePlace'
    BY <1>6 DEF Deliver, OnePlace
  <2>6. RunsOK'
    BY <1>6 DEF Deliver, RunsOK
  <2> QED BY <2>1, <2>2, <2>3, <2>4, <2>5, <2>6
<1>7. ASSUME NEW m \in toServer, Execute(m) PROVE IInv'
  <2>1. TypeOK'
    BY <1>7 DEF Execute, TypeOK, Messages, Calls, OnePlace, TrafficOK, Traffic, RunsOK
  <2>2. ObjectsOK'
    BY <1>7 DEF Execute, ObjectsOK, TypeOK, Messages, Calls, OnePlace, TrafficOK, Traffic, RunsOK
  <2>3. SerialsDistinct'
    BY <1>7 DEF Execute, SerialsDistinct
  <2>4. TrafficOK'
    BY <1>7 DEF Execute, TrafficOK, Traffic
  <2>5. OnePlace'
    BY <1>7 DEF Execute, OnePlace
  <2>6. RunsOK'
    BY <1>7 DEF Execute, RunsOK, TypeOK, Messages, Calls, OnePlace, TrafficOK, Traffic
  <2> QED BY <2>1, <2>2, <2>3, <2>4, <2>5, <2>6
<1>8. ASSUME NEW m \in held, Answer(m) PROVE IInv'
  <2>1. TypeOK'
    <3> DEFINE r == ReplyTo(m, FALSE)
    <3>1. r \in Replies /\ r.call = m.call
      BY <1>8 DEF ReplyTo, TypeOK, Messages, Replies
    <3>2. toClient' = toClient \cup {r}
      BY <1>8 DEF Answer
    <3> HIDE DEF r
    <3> QED BY <1>8, <3>1, <3>2 DEF Answer, TypeOK
  <2>2. ObjectsOK'
    BY <1>8 DEF Answer, ReplyTo, ObjectsOK
  <2>3. SerialsDistinct'
    BY <1>8 DEF Answer, ReplyTo, SerialsDistinct
  <2>4. TrafficOK'
    BY <1>8 DEF Answer, ReplyTo, TrafficOK, Traffic
  <2>5. OnePlace'
    <3> DEFINE r == ReplyTo(m, FALSE)
    <3>1. r \in Replies /\ r.call = m.call
      BY <1>8 DEF ReplyTo, TypeOK, Messages, Replies
    <3>2. toClient' = toClient \cup {r}
      BY <1>8 DEF Answer
    <3>3. toServer' = toServer /\ held' = held \ {m}
      BY <1>8 DEF Answer
    <3> HIDE DEF r
    <3> QED BY <1>8, <3>1, <3>2, <3>3 DEF OnePlace
  <2>6. RunsOK'
    BY <1>8 DEF Answer, ReplyTo, RunsOK
  <2> QED BY <2>1, <2>2, <2>3, <2>4, <2>5, <2>6
<1>9. ASSUME NEW m \in toServer \cup held, Bounce(m) PROVE IInv'
  <2>1. TypeOK'
    <3> DEFINE r == ReplyTo(m, TRUE)
    <3>1. r \in Replies /\ r.call = m.call
      BY <1>9 DEF ReplyTo, TypeOK, Messages, Replies
    <3>2. toClient' = toClient \cup {r}
      BY <1>9 DEF Bounce
    <3> HIDE DEF r
    <3> QED BY <1>9, <3>1, <3>2 DEF Bounce, TypeOK
  <2>2. ObjectsOK'
    BY <1>9 DEF Bounce, ReplyTo, ObjectsOK
  <2>3. SerialsDistinct'
    BY <1>9 DEF Bounce, ReplyTo, SerialsDistinct
  <2>4. TrafficOK'
    BY <1>9 DEF Bounce, ReplyTo, TrafficOK, Traffic
  <2>5. OnePlace'
    <3> DEFINE r == ReplyTo(m, TRUE)
    <3>1. r \in Replies /\ r.call = m.call
      BY <1>9 DEF ReplyTo, TypeOK, Messages, Replies
    <3>2. toClient' = toClient \cup {r}
      BY <1>9 DEF Bounce
    <3>3. toServer' = toServer \ {m} /\ held' = held \ {m}
      BY <1>9 DEF Bounce
    <3> HIDE DEF r
    <3> QED BY <1>9, <3>1, <3>2, <3>3 DEF OnePlace
  <2>6. RunsOK'
    BY <1>9 DEF Bounce, ReplyTo, RunsOK
  <2> QED BY <2>1, <2>2, <2>3, <2>4, <2>5, <2>6
<1>10. CASE Exit
  <2>1. TypeOK'
    BY <1>10 DEF Exit, TypeOK
  <2>2. ObjectsOK' BY <1>10 DEF Exit, ObjectsOK, Calls
  <2>3. SerialsDistinct' BY <1>10 DEF Exit, SerialsDistinct
  <2>4. TrafficOK' BY <1>10 DEF Exit, TrafficOK, Traffic
  <2>5. OnePlace' BY <1>10 DEF Exit, OnePlace
  <2>6. RunsOK' BY <1>10 DEF Exit, RunsOK, Calls
  <2> QED BY <2>1, <2>2, <2>3, <2>4, <2>5, <2>6
<1>11. CASE Restart
  <2>1. TypeOK'
    BY <1>11 DEF Restart, TypeOK
  <2>2. ObjectsOK' BY <1>11 DEF Restart, ObjectsOK, Calls
  <2>3. SerialsDistinct' BY <1>11 DEF Restart, SerialsDistinct
  <2>4. TrafficOK' BY <1>11 DEF Restart, TrafficOK, Traffic
  <2>5. OnePlace' BY <1>11 DEF Restart, OnePlace
  <2>6. RunsOK' BY <1>11 DEF Restart, RunsOK, Calls
  <2> QED BY <2>1, <2>2, <2>3, <2>4, <2>5, <2>6
<1>12. CASE Tick
  <2>1. TypeOK'
    <3>1. ASSUME NEW c \in Client, request[c].phase = "blocked"
          PROVE [request[c] EXCEPT !.left = @ - 1] \in Requests
      BY <1>12, <3>1 DEF Tick, TypeOK, Requests
    <3> QED BY <1>12, <3>1 DEF Tick, TypeOK
  <2>2. ObjectsOK'
    BY <1>12 DEF Tick, TypeOK, Requests, ObjectsOK
  <2>3. SerialsDistinct'
    BY <1>12 DEF Tick, TypeOK, Requests, SerialsDistinct
  <2>4. TrafficOK'
    BY <1>12 DEF Tick, TypeOK, Requests, TrafficOK, Traffic
  <2>5. OnePlace'
    BY <1>12 DEF Tick, OnePlace
  <2>6. RunsOK'
    BY <1>12 DEF Tick, RunsOK
  <2> QED BY <2>1, <2>2, <2>3, <2>4, <2>5, <2>6
<1>13. CASE UNCHANGED vars
  <2>1. TypeOK'
    BY <1>13 DEF vars, TypeOK
  <2>2. ObjectsOK' BY <1>13 DEF vars, ObjectsOK, Calls
  <2>3. SerialsDistinct' BY <1>13 DEF vars, SerialsDistinct
  <2>4. TrafficOK' BY <1>13 DEF vars, TrafficOK, Traffic
  <2>5. OnePlace' BY <1>13 DEF vars, OnePlace
  <2>6. RunsOK' BY <1>13 DEF vars, RunsOK, Calls
  <2> QED BY <2>1, <2>2, <2>3, <2>4, <2>5, <2>6
<1> QED BY <1>1, <1>2, <1>3, <1>4, <1>5, <1>6, <1>7, <1>8, <1>9,
       <1>10, <1>11, <1>12, <1>13
    DEF Next

-----------------------------------------------------------------------------
(* The invariant holds in every behaviour of the protocol.                 *)
THEOREM Invariant == Spec => []IInv
<1>1. Init => IInv
  BY InitIInv
<1>2. IInv /\ [Next]_vars => IInv'
  BY NextIInv
<1> QED BY <1>1, <1>2, PTL DEF Spec

(* Every Request object, message and reply is well formed, always: no call *)
(* blocks for longer than its limit, no serial is made up.                 *)
THEOREM TypeCorrect == Spec => []TypeOK
<1>1. IInv => TypeOK
  BY DEF IInv
<1> QED BY <1>1, Invariant, PTL

(* The response call() leaves in an object is the one to that very call,   *)
(* even when answers come late, out of order, or under a serial that was   *)
(* used before.                                                            *)
THEOREM OwnResponse == Spec => []ResponseIsOwn
<1>1. IInv => ResponseIsOwn
  BY DEF IInv, ObjectsOK, ResponseIsOwn
<1> QED BY <1>1, Invariant, PTL

(* A call that returned a response was executed exactly once.              *)
THEOREM RanOnce == Spec => []AnsweredRanOnce
<1>1. IInv => AnsweredRanOnce
  BY DEF IInv, ObjectsOK, AnsweredRanOnce
<1> QED BY <1>1, Invariant, PTL

-----------------------------------------------------------------------------
(* The protocol begins as the channel does.                                *)
LEMMA InitChannel == Init => Channel!Init
BY DEF Init, Channel!Init, ChannelState, NoRequest, Calls, Channel!Calls

(* A step of one thread's object changes one entry of what the channel     *)
(* sees.                                                                   *)
LEMMA OneEntry ==
    ASSUME NEW c \in Client, NEW r, request \in [Client -> Requests],
           request' = [request EXCEPT ![c] = r]
    PROVE  /\ [d \in Client |-> ChannelState(request[d])]'
                = [[d \in Client |-> ChannelState(request[d])]
                      EXCEPT ![c] = ChannelState(r)]
           /\ [d \in Client |-> request[d].call]'
                = [[d \in Client |-> request[d].call] EXCEPT ![c] = r.call]
OBVIOUS

(* Every step of the protocol is a step of the channel or none.            *)
LEMMA NextChannel == IInv /\ [Next]_vars => [Channel!Next]_(Channel!vars)
<1> SUFFICES ASSUME IInv, [Next]_vars PROVE [Channel!Next]_(Channel!vars)
    OBVIOUS
<1> DEFINE state == [d \in Client |-> ChannelState(request[d])]
           call == [d \in Client |-> request[d].call]
<1>t. request \in [Client -> Requests]
  BY DEF IInv, TypeOK
<1>0. ASSUME request' = request, issued' = issued, runs' = runs
      PROVE UNCHANGED Channel!vars
  BY <1>0 DEF Channel!vars
<1>1. ASSUME NEW c \in Client, Construct(c) PROVE UNCHANGED Channel!vars
  <2> DEFINE r == [request[c] EXCEPT !.phase = "built"]
  <2>1. /\ ChannelState(r) = ChannelState(request[c]) /\ r.call = request[c].call
        /\ request' = [request EXCEPT ![c] = r]
        /\ issued' = issued /\ runs' = runs
    BY <1>1, <1>t DEF Construct, ChannelState, Requests
  <2> HIDE DEF r
  <2>2. state' = state /\ call' = call
    BY <2>1, <1>t, OneEntry
  <2> QED BY <2>1, <2>2 DEF Channel!vars
<1>2. ASSUME NEW c \in Client, Call(c) PROVE Channel!Begin(c)
  <2> DEFINE r == [phase |-> "blocked", serial |-> SerialOf(request[c]),
                   call |-> issued + 1, response |-> NoResponse, left |-> CallLimit]
  <2>1. /\ ChannelState(r) = "waiting" /\ r.call = issued + 1
        /\ request' = [request EXCEPT ![c] = r]
        /\ issued < MaxCalls /\ issued' = issued + 1 /\ runs' = runs
    BY <1>2 DEF Call, ChannelState
  <2>2. state[c] \in {"idle", "ok"}
    BY <1>2 DEF Call, ChannelState
  <2> HIDE DEF r
  <2>3. /\ state' = [state EXCEPT ![c] = "waiting"]
        /\ call' = [call EXCEPT ![c] = issued + 1]
    BY <2>1, <1>t, OneEntry
  <2> QED BY <2>1, <2>2, <2>3 DEF Channel!Begin
<1>3. ASSUME NEW c \in Client, NEW r, request' = [request EXCEPT ![c] = r],
             request[c].phase = "blocked", r.phase = "thrown", r.call = request[c].call,
             issued' = issued, runs' = runs
      PROVE Channel!Throw(c)
  <2>1. ChannelState(r) = "failed" /\ state[c] = "waiting"
    BY <1>3 DEF ChannelState
  <2>2. state' = [state EXCEPT ![c] = "failed"] /\ call' = call
    BY <2>1, <1>3, <1>t, OneEntry
  <2> QED BY <2>1, <2>2, <1>3 DEF Channel!Throw
<1>4. ASSUME NEW c \in Client, Expire(c) PROVE Channel!Throw(c)
  <2> DEFINE r == [request[c] EXCEPT !.phase = "thrown"]
  <2>1. /\ r.phase = "thrown" /\ r.call = request[c].call
        /\ request' = [request EXCEPT ![c] = r]
    BY <1>4, <1>t DEF Expire, Requests
  <2> QED BY <1>3, <1>4, <2>1 DEF Expire
<1>5. ASSUME NEW r \in toClient, NEW c \in Client, Deliver(c, r)
      PROVE Channel!Return(c) \/ Channel!Throw(c)
  <2>1. CASE r.error
    <3> DEFINE q == [request[c] EXCEPT !.phase = "thrown"]
    <3>1. q.phase = "thrown" /\ q.call = request[c].call
      BY <1>t DEF Requests
    <3>2. request' = [request EXCEPT ![c] = q]
      BY <1>5, <2>1 DEF Deliver, Complete
    <3> QED BY <1>3, <1>5, <3>1, <3>2 DEF Deliver, Waits
  <2>2. CASE ~r.error
    <3> DEFINE q == [request[c] EXCEPT !.phase = "answered", !.response = r.call]
    <3>1. runs[request[c].call] = 1
      BY <1>5, <2>2 DEF IInv, TrafficOK, Traffic, RunsOK, Deliver, Waits
    <3>2. ChannelState(q) = "ok" /\ q.call = request[c].call
      BY <1>t DEF ChannelState, Requests
    <3>3. request' = [request EXCEPT ![c] = q]
      BY <1>5, <2>2 DEF Deliver, Complete
    <3> HIDE DEF q
    <3>4. state' = [state EXCEPT ![c] = "ok"] /\ call' = call
      BY <3>2, <3>3, <1>t, OneEntry
    <3>5. state[c] = "waiting"
      BY <1>5 DEF Deliver, Waits, ChannelState
    <3> QED BY <1>5, <3>1, <3>4, <3>5 DEF Deliver, Channel!Return
  <2> QED BY <2>1, <2>2
<1>6. ASSUME NEW m \in toServer, Execute(m) PROVE \E n \in Calls : Channel!Execute(n)
  <2>1. m.call \in Calls /\ m.call <= issued /\ runs[m.call] = 0
    BY DEF IInv, TypeOK, Messages, TrafficOK, Traffic, RunsOK
  <2>2. runs' = [runs EXCEPT ![m.call] = 1]
    BY <1>6, <2>1 DEF Execute
  <2>3. request' = request /\ issued' = issued
    BY <1>6 DEF Execute
  <2> QED BY <2>1, <2>2, <2>3 DEF Channel!Execute
<1>7. ASSUME Tick PROVE UNCHANGED Channel!vars
  <2>1. \A d \in Client : /\ ChannelState(request'[d]) = ChannelState(request[d])
                          /\ request'[d].call = request[d].call
    BY <1>7, <1>t DEF Tick, Requests, ChannelState
  <2>2. state' = state /\ call' = call
    BY <2>1
  <2> QED BY <1>7, <2>2 DEF Tick, Channel!vars
<1>8. CASE UNCHANGED vars
  BY <1>8, <1>0 DEF vars
<1>9. ASSUME NEW r \in toClient, Drop(r) PROVE UNCHANGED Channel!vars
  BY <1>9, <1>0 DEF Drop
<1>10. ASSUME NEW m \in held, Answer(m) PROVE UNCHANGED Channel!vars
  BY <1>10, <1>0 DEF Answer
<1>11. ASSUME NEW m \in toServer \cup held, Bounce(m) PROVE UNCHANGED Channel!vars
  BY <1>11, <1>0 DEF Bounce
<1>12. ASSUME Exit \/ Restart PROVE UNCHANGED Channel!vars
  BY <1>12, <1>0 DEF Exit, Restart
<1>13. ASSUME NEW c \in Client, Destroy(c) PROVE Channel!Release(c)
  <2>1. /\ ChannelState(NoRequest) = "idle" /\ NoRequest.call = 0
        /\ state[c] \in {"ok", "failed"}
        /\ request' = [request EXCEPT ![c] = NoRequest]
    BY <1>13 DEF Destroy, ChannelState, NoRequest
  <2>2. state' = [state EXCEPT ![c] = "idle"] /\ call' = [call EXCEPT ![c] = 0]
    BY <2>1, <1>t, OneEntry
  <2> QED BY <1>13, <2>1, <2>2 DEF Destroy, Channel!Release
<1> HIDE DEF state, call
<1>14. Calls = Channel!Calls
  BY DEF Calls, Channel!Calls
<1> QED
  BY <1>1, <1>2, <1>4, <1>5, <1>6, <1>7, <1>8, <1>9, <1>10, <1>11, <1>12, <1>13, <1>14
     DEF Next, Channel!Next

(* The D-Bus protocol keeps the promise of RequestChannel: at most one     *)
(* execution per call, a response only from an execution.                  *)
THEOREM Refinement == Spec => ImplementsChannel
<1>1. Init => Channel!Init
  BY InitChannel
<1>2. IInv /\ [Next]_vars => [Channel!Next]_(Channel!vars)
  BY NextChannel
<1> QED BY <1>1, <1>2, Invariant, PTL DEF Spec, Channel!Spec, ImplementsChannel
=============================================================================
