------------------------ MODULE LocalSessionProofs ------------------------
(***************************************************************************)
(* The safety properties of LocalSession for any threads, sessions and     *)
(* timeouts.  The mutex of a session is held exactly by the thread that is *)
(* inside lib3270 for it (MutexHeld, HolderInside), and the handler lives  *)
(* as long as the session or an Action does (UserAlive, HandlerAlive):     *)
(* together they are inductive, and the properties follow.                 *)
(***************************************************************************)
EXTENDS LocalSession, SequenceTheorems, TLAPS

\* An operation in progress has a section to do.
SectionLeft == \A t \in Thread : op[t].stage # "idle" => op[t].todo # <<>>

\* Whoever is inside has locked the mutex.
MutexHeld == \A t \in Thread : Inside(t) => owner[op[t].on] = t

\* Whoever has locked a mutex is inside.
HolderInside ==
    \A s \in Session : owner[s] # NoThread =>
        owner[s] \in Thread /\ Inside(owner[s]) /\ op[owner[s]].on = s

\* The object an operation was called on is there until it ends.
UserAlive ==
    \A t \in Thread : op[t].stage # "idle" =>
        \/ op[t].through = "session" /\ session[op[t].on] = "open"
        \/ op[t].through = "action" /\ op[t].on \in actions

\* A pointer to the handler keeps it, and with it the handle.
HandlerAlive ==
    \A s \in Session : session[s] = "open" \/ s \in actions => handle[s] = "live"

\* A timeout other than zero has been seen by every operation in progress.
TimeoutSeen ==
    \A t \in Thread :
        /\ op[t].stage # "idle" /\ timeout[op[t].on] # 0 => op[t].wanted
        /\ op[t].stage \in {"locking", "inside", "callback"}
             /\ Head(op[t].todo) = "autowait" => op[t].wanted

IInv ==
    /\ TypeOK
    /\ SectionLeft
    /\ MutexHeld
    /\ HolderInside
    /\ UserAlive
    /\ HandlerAlive
    /\ TimeoutSeen

\* The two kinds of operations are non-empty sequences of sections.
LEMMA OperationsAreSections ==
    \A todo \in SessionOperations \cup ActionOperations :
        todo \in Seq(Sections) /\ todo # <<>>
BY DEF SessionOperations, CommandOperations, ReadOperations, WriteOperations,
       PropertyOperations, WaitOperations, KeyOperations, FieldOperations,
       ActionOperations, Sections

\* All but the first of two or more sections.
LEMMA TailNotEmpty ==
    ASSUME NEW todo \in Seq(Sections), todo # <<>>, Len(todo) # 1
    PROVE  Tail(todo) \in Seq(Sections) /\ Tail(todo) # <<>>
<1>1. Len(todo) \in Nat \ {0}
  BY EmptySeq, Zenon
<1>2. Tail(todo) \in Seq(Sections) /\ Len(Tail(todo)) = Len(todo) - 1
  BY HeadTailProperties, Zenon
<1>3. Len(Tail(todo)) # 0
  BY <1>1, <1>2
<1>4. Len(<<>>) = 0
  BY EmptySeq, Zenon
<1> QED BY <1>2, <1>3, <1>4, Zenon

\* A thread without an operation.
LEMMA IdleType == Idle \in Operations /\ Idle.stage = "idle"
BY SessionAssumption DEF Idle, Operations, Stages

LEMMA Initial == Init => IInv
BY IdleType, TimeoutsAssumption, NoThreadAssumption DEF Init, IInv, TypeOK, SectionLeft, MutexHeld, HolderInside, UserAlive,
       HandlerAlive, TimeoutSeen, Inside, InsideStages


-----------------------------------------------------------------------------
(* Objects.                                                                *)

LEMMA OpenKeeps ==
    ASSUME IInv, NEW s \in Session, Open(s)
    PROVE  IInv'
<1>1. TypeOK'
  <2>1. session' \in [Session -> {"none", "open", "closed"}]
    BY DEF IInv, TypeOK, Open
  <2>2. handle' \in [Session -> {"none", "live", "freed"}]
    BY DEF IInv, TypeOK, Open
  <2>3. timeout' \in [Session -> Timeouts]
    BY TimeoutsAssumption DEF IInv, TypeOK, Open
  <2> QED BY <2>1, <2>2, <2>3 DEF IInv, TypeOK, Open
\* No thread is in an operation on a session that is not there.
<1>2. \A t \in Thread : op[t].stage # "idle" => op[t].on # s
  BY DEF IInv, UserAlive, Open
<1>3. SectionLeft' /\ MutexHeld' /\ HolderInside'
  BY DEF IInv, SectionLeft, MutexHeld, HolderInside, Inside, InsideStages, Open
<1>4. UserAlive'
  BY <1>2 DEF IInv, UserAlive, TypeOK, Operations, Open
<1>5. HandlerAlive'
  BY DEF IInv, HandlerAlive, TypeOK, Open
<1>6. TimeoutSeen'
  BY <1>2 DEF IInv, TimeoutSeen, TypeOK, Operations, Open
<1> QED BY <1>1, <1>3, <1>4, <1>5, <1>6 DEF IInv

LEMMA CloseKeeps ==
    ASSUME IInv, NEW s \in Session, Close(s)
    PROVE  IInv'
<1>1. TypeOK'
  BY DEF IInv, TypeOK, Close, Freed
<1>2. SectionLeft' /\ MutexHeld' /\ HolderInside'
  BY DEF IInv, SectionLeft, MutexHeld, HolderInside, Inside, InsideStages, Close
<1>3. UserAlive'
  BY DEF IInv, UserAlive, TypeOK, Close, UsingSession
<1>4. HandlerAlive'
  BY DEF IInv, HandlerAlive, TypeOK, Close, Freed
<1>5. TimeoutSeen'
  BY DEF IInv, TimeoutSeen, Close
<1> QED BY <1>1, <1>2, <1>3, <1>4, <1>5 DEF IInv

LEMMA MakeActionKeeps ==
    ASSUME IInv, NEW s \in Session, MakeAction(s)
    PROVE  IInv'
<1>1. TypeOK' /\ HandlerAlive'
  BY DEF IInv, TypeOK, HandlerAlive, MakeAction
<1>2. SectionLeft' /\ MutexHeld' /\ HolderInside' /\ TimeoutSeen'
  BY DEF IInv, SectionLeft, MutexHeld, HolderInside, TimeoutSeen, Inside, InsideStages,
         MakeAction
<1>3. UserAlive'
  BY DEF IInv, UserAlive, MakeAction
<1> QED BY <1>1, <1>2, <1>3 DEF IInv

LEMMA DropActionKeeps ==
    ASSUME IInv, NEW s \in Session, DropAction(s)
    PROVE  IInv'
<1>1. TypeOK'
  BY DEF IInv, TypeOK, DropAction, Freed
<1>2. SectionLeft' /\ MutexHeld' /\ HolderInside' /\ TimeoutSeen'
  BY DEF IInv, SectionLeft, MutexHeld, HolderInside, TimeoutSeen, Inside, InsideStages,
         DropAction
<1>3. UserAlive'
  BY DEF IInv, UserAlive, DropAction, UsingAction
<1>4. HandlerAlive'
  BY DEF IInv, HandlerAlive, TypeOK, DropAction, Freed
<1> QED BY <1>1, <1>2, <1>3, <1>4 DEF IInv

LEMMA SetTimeoutKeeps ==
    ASSUME IInv, NEW s \in Session, NEW seconds \in Timeouts, SetTimeout(s, seconds)
    PROVE  IInv'
\* Only "wanted" changes in an operation, and only to TRUE.
<1>1. \A t \in Thread :
        /\ op'[t] \in Operations
        /\ op'[t].stage = op[t].stage /\ op'[t].through = op[t].through
        /\ op'[t].on = op[t].on /\ op'[t].todo = op[t].todo
  BY DEF IInv, TypeOK, Operations, SetTimeout
<1>2. \A t \in Thread : op[t].wanted => op'[t].wanted
  BY DEF IInv, TypeOK, Operations, SetTimeout
<1>3. \A t \in Thread :
        op[t].stage # "idle" /\ op[t].on = s /\ seconds # 0 => op'[t].wanted
  BY DEF IInv, TypeOK, Operations, SetTimeout
<1>4. TypeOK'
  BY <1>1 DEF IInv, TypeOK, SetTimeout
<1>5. SectionLeft' /\ MutexHeld' /\ UserAlive' /\ HandlerAlive'
  BY <1>1 DEF IInv, SectionLeft, MutexHeld, UserAlive, HandlerAlive, Inside,
              InsideStages, SetTimeout
<1>6. HolderInside'
  BY <1>1 DEF IInv, HolderInside, Inside, InsideStages, SetTimeout
<1>7. TimeoutSeen'
  <2> SUFFICES ASSUME NEW t \in Thread
               PROVE  /\ op[t].stage # "idle" /\ timeout'[op[t].on] # 0 => op'[t].wanted
                      /\ op[t].stage \in {"locking", "inside", "callback"}
                           /\ Head(op[t].todo) = "autowait" => op'[t].wanted
    BY <1>1 DEF TimeoutSeen
  <2>1. CASE op[t].on = s
    <3>1. timeout'[op[t].on] = seconds
      BY <2>1 DEF IInv, TypeOK, SetTimeout
    <3> QED BY <1>2, <1>3, <2>1, <3>1 DEF IInv, TimeoutSeen
  <2>2. CASE op[t].on # s
    <3>1. timeout'[op[t].on] = timeout[op[t].on]
      BY <2>2 DEF IInv, TypeOK, Operations, SetTimeout
    <3> QED BY <1>2, <3>1 DEF IInv, TimeoutSeen
  <2> QED BY <2>1, <2>2
<1> QED BY <1>4, <1>5, <1>6, <1>7 DEF IInv

-----------------------------------------------------------------------------
(* Operations.  Each step changes the operation of one thread.             *)

\* What a thread inside has, in the terms of the invariant.
LEMMA InsideOwns ==
    ASSUME IInv, NEW t \in Thread, Inside(t)
    PROVE  /\ op[t] \in Operations /\ op[t].stage # "idle"
           /\ owner[op[t].on] = t /\ op[t].todo # <<>>
BY DEF IInv, TypeOK, SectionLeft, MutexHeld, Inside, InsideStages

\* The new operation of the thread keeps the invariant, the mutexes being
\* as before.
LEMMA OperationKeeps ==
    ASSUME IInv, NEW t \in Thread, NEW o \in Operations,
           op' = [op EXCEPT ![t] = o],
           UNCHANGED <<session, actions, handle, owner, timeout>>,
           o.stage # "idle" => o.todo # <<>>,
           Inside(t) <=> o.stage \in InsideStages,
           Inside(t) => o.on = op[t].on,
           o.stage # "idle" =>
               \/ o.through = "session" /\ session[o.on] = "open"
               \/ o.through = "action" /\ o.on \in actions,
           o.stage # "idle" /\ timeout[o.on] # 0 => o.wanted,
           o.stage \in {"locking", "inside", "callback"}
               /\ Head(o.todo) = "autowait" => o.wanted
    PROVE  IInv'
<1>1. op'[t] = o /\ \A u \in Thread : u # t => op'[u] = op[u]
  BY DEF IInv, TypeOK
<1>2. TypeOK'
  BY DEF IInv, TypeOK
<1>3. SectionLeft'
  BY <1>1 DEF IInv, SectionLeft
<1>4. MutexHeld'
  BY <1>1 DEF IInv, MutexHeld, Inside
<1>5. HolderInside'
  BY <1>1 DEF IInv, HolderInside, Inside
<1>6. UserAlive'
  BY <1>1 DEF IInv, UserAlive
<1>7. HandlerAlive'
  BY DEF IInv, HandlerAlive
<1>8. TimeoutSeen'
  BY <1>1 DEF IInv, TimeoutSeen
<1> QED BY <1>2, <1>3, <1>4, <1>5, <1>6, <1>7, <1>8 DEF IInv

LEMMA BeginKeeps ==
    ASSUME IInv, NEW t \in Thread, NEW s \in Session,
           BeginOnSession(t, s) \/ BeginOnAction(t, s)
    PROVE  IInv'
<1>1. PICK through \in {"session", "action"},
           todo \in SessionOperations \cup ActionOperations :
        /\ Begin(t, s, through, todo)
        /\ \/ through = "session" /\ session[s] = "open"
           \/ through = "action" /\ s \in actions
  BY DEF BeginOnSession, BeginOnAction
<1> DEFINE o == [stage |-> "between", through |-> through, on |-> s,
                 todo |-> todo, wanted |-> timeout[s] # 0]
<1>2. (timeout[s] # 0) \in BOOLEAN
  OBVIOUS
<1>3. o \in Operations
  BY <1>2, OperationsAreSections DEF Operations, Stages
<1>4. op' = [op EXCEPT ![t] = o] /\ ~ Inside(t)
      /\ UNCHANGED <<session, actions, handle, owner, timeout>>
  BY <1>1 DEF Begin, Inside, InsideStages
<1>5. o.stage \notin {"locking", "inside", "callback"} /\ o.todo # <<>>
  BY OperationsAreSections
<1>6. timeout[o.on] # 0 => o.wanted
  OBVIOUS
<1>7. \/ o.through = "session" /\ session[o.on] = "open"
      \/ o.through = "action" /\ o.on \in actions
  BY <1>1
<1> HIDE DEF o
<1> QED BY <1>3, <1>4, <1>5, <1>6, <1>7, OperationKeeps DEF InsideStages

\* The new stage of a thread's operation.
LEMMA StageType ==
    ASSUME IInv, NEW t \in Thread, NEW stage \in Stages
    PROVE  [op[t] EXCEPT !.stage = stage] \in Operations
BY DEF IInv, TypeOK, Operations

LEMMA ProceedKeeps ==
    ASSUME IInv, NEW t \in Thread, Proceed(t)
    PROVE  IInv'
<1>1. op[t] \in Operations /\ op[t].stage = "between" /\ ~ Inside(t)
      /\ UNCHANGED <<session, actions, handle, owner, timeout>>
  BY DEF IInv, TypeOK, Proceed, Inside, InsideStages
<1>2. CASE Head(op[t].todo) = "autowait" /\ timeout[op[t].on] = 0
  <2>1. op' = [op EXCEPT ![t] = Idle]
    BY <1>2 DEF Proceed
  <2> QED BY <1>1, <2>1, IdleType, OperationKeeps DEF InsideStages
<1>3. CASE ~ (Head(op[t].todo) = "autowait" /\ timeout[op[t].on] = 0)
  <2> DEFINE o == [op[t] EXCEPT !.stage = "locking"]
  <2>1. op' = [op EXCEPT ![t] = o]
    BY <1>3 DEF Proceed, SetStage
  <2>2. o \in Operations
    BY StageType DEF Stages
  <2>3. o.stage = "locking" /\ o.on = op[t].on /\ o.through = op[t].through
        /\ o.todo = op[t].todo /\ o.wanted = op[t].wanted
    BY <1>1 DEF Operations
  <2>4. timeout[o.on] # 0 => o.wanted
    BY <1>1, <2>3 DEF IInv, TimeoutSeen
  <2>5. Head(o.todo) = "autowait" => o.wanted
    BY <1>3, <2>3, <2>4
  <2>6. /\ o.todo # <<>>
        /\ \/ o.through = "session" /\ session[o.on] = "open"
           \/ o.through = "action" /\ o.on \in actions
    BY <1>1, <2>3 DEF IInv, SectionLeft, UserAlive
  <2> HIDE DEF o
  <2> QED BY <1>1, <2>1, <2>2, <2>3, <2>4, <2>5, <2>6, OperationKeeps DEF InsideStages
<1> QED BY <1>2, <1>3

LEMMA CallbackKeeps ==
    ASSUME IInv, NEW t \in Thread, Callback(t) \/ CallbackReturns(t)
    PROVE  IInv'
<1>1. PICK stage \in InsideStages : SetStage(t, stage)
  BY DEF Callback, CallbackReturns, InsideStages
<1>2. op[t] \in Operations /\ op[t].stage \in InsideStages /\ Inside(t)
      /\ UNCHANGED <<session, actions, handle, owner, timeout>>
  BY DEF IInv, TypeOK, Callback, CallbackReturns, Inside, InsideStages
<1> DEFINE o == [op[t] EXCEPT !.stage = stage]
<1>3. o \in Operations
  BY StageType DEF Stages, InsideStages
<1>4. o.stage = stage /\ o.on = op[t].on /\ o.through = op[t].through
      /\ o.todo = op[t].todo /\ o.wanted = op[t].wanted
  BY <1>2 DEF Operations
<1>5. op' = [op EXCEPT ![t] = o]
  BY <1>1 DEF SetStage
<1>6. /\ timeout[o.on] # 0 => o.wanted
      /\ Head(o.todo) = "autowait" => o.wanted
  BY <1>2, <1>4 DEF IInv, TimeoutSeen, InsideStages
<1>7. /\ o.todo # <<>>
      /\ \/ o.through = "session" /\ session[o.on] = "open"
         \/ o.through = "action" /\ o.on \in actions
  BY <1>2, <1>4 DEF IInv, SectionLeft, UserAlive, InsideStages
<1> HIDE DEF o
<1> QED BY <1>2, <1>3, <1>4, <1>5, <1>6, <1>7, OperationKeeps

LEMMA EnterKeeps ==
    ASSUME IInv, NEW t \in Thread, Enter(t)
    PROVE  IInv'
<1> DEFINE o == [op[t] EXCEPT !.stage = "inside"]
           s == op[t].on
<1>1. op[t] \in Operations /\ op[t].stage = "locking" /\ s \in Session
  BY DEF IInv, TypeOK, Operations, Enter
<1>2. o \in Operations
  BY StageType DEF Stages
<1>3. o.stage = "inside" /\ o.on = s /\ o.through = op[t].through
      /\ o.todo = op[t].todo /\ o.wanted = op[t].wanted
  BY <1>1 DEF Operations
<1>4. /\ op'[t] = o /\ \A u \in Thread : u # t => op'[u] = op[u]
      /\ owner'[s] = t /\ \A r \in Session : r # s => owner'[r] = owner[r]
  BY <1>1 DEF IInv, TypeOK, Enter, SetStage
\* The mutex was free, so nobody was inside.
<1>5. owner[s] = NoThread /\ ~ Inside(t)
      /\ \A u \in Thread : Inside(u) => op[u].on # s
  BY <1>1, NoThreadAssumption DEF IInv, MutexHeld, Enter, Inside, InsideStages
<1> HIDE DEF o
<1>6. TypeOK'
  BY <1>1, <1>2 DEF IInv, TypeOK, Enter, SetStage, o
<1>7. SectionLeft'
  BY <1>1, <1>3, <1>4 DEF IInv, SectionLeft
<1>8. MutexHeld'
  <2> SUFFICES ASSUME NEW u \in Thread, Inside(u)' PROVE owner'[op'[u].on] = u
    BY DEF MutexHeld
  <2>1. CASE u = t
    BY <2>1, <1>3, <1>4
  <2>2. CASE u # t
    <3>1. op'[u] = op[u] /\ Inside(u) /\ op[u].on \in Session
      BY <2>2, <1>4 DEF Inside, IInv, TypeOK, Operations
    <3> QED BY <3>1, <1>4, <1>5 DEF IInv, MutexHeld
  <2> QED BY <2>1, <2>2
<1>9. HolderInside'
  <2> SUFFICES ASSUME NEW r \in Session, owner'[r] # NoThread
               PROVE  owner'[r] \in Thread /\ op'[owner'[r]].stage \in InsideStages
                      /\ op'[owner'[r]].on = r
    BY DEF HolderInside, Inside
  <2>1. CASE r = s
    BY <2>1, <1>3, <1>4 DEF Inside, InsideStages
  <2>2. CASE r # s
    <3>1. owner'[r] = owner[r] /\ owner[r] \in Thread /\ Inside(owner[r])
      BY <2>2, <1>4 DEF IInv, HolderInside
    <3> QED BY <3>1, <1>4, <1>5 DEF IInv, HolderInside, Inside
  <2> QED BY <2>1, <2>2
<1>10. UserAlive' /\ HandlerAlive'
  BY <1>1, <1>3, <1>4 DEF IInv, UserAlive, HandlerAlive, Enter
<1>11. TimeoutSeen'
  BY <1>1, <1>3, <1>4 DEF IInv, TimeoutSeen, Enter
<1> QED BY <1>6, <1>7, <1>8, <1>9, <1>10, <1>11 DEF IInv

LEMMA LeaveKeeps ==
    ASSUME IInv, NEW t \in Thread, Leave(t)
    PROVE  IInv'
<1> DEFINE s == op[t].on
<1>1. Inside(t) /\ op[t] \in Operations /\ op[t].todo # <<>> /\ s \in Session
      /\ owner[s] = t /\ op[t].stage # "idle"
  BY InsideOwns DEF Leave, Inside, InsideStages, Operations
\* What the thread's operation becomes: over, or on to the next section.
<1>2. PICK o \in Operations :
        /\ op' = [op EXCEPT ![t] = o]
        /\ o.stage \in {"idle", "between"}
        /\ o.stage = "between" => /\ o.todo # <<>> /\ o.on = s
                                  /\ o.through = op[t].through
                                  /\ o.wanted = op[t].wanted
  <2>1. CASE op' = [op EXCEPT ![t] = Idle]
    BY <2>1, IdleType
  <2>2. CASE op' = [op EXCEPT ![t] = Continued(op[t])]
    <3>1. CASE Len(op[t].todo) = 1
      BY <2>2, <3>1, IdleType DEF Continued
    <3>2. CASE Len(op[t].todo) # 1
      <4> DEFINE o == [op[t] EXCEPT !.stage = "between", !.todo = Tail(@)]
      <4>1. op' = [op EXCEPT ![t] = o]
        BY <2>2, <3>2 DEF Continued
      <4>2. op[t].todo \in Seq(Sections)
        BY <1>1 DEF Operations
      <4>3. Tail(op[t].todo) \in Seq(Sections) /\ Tail(op[t].todo) # <<>>
        BY <1>1, <3>2, <4>2, TailNotEmpty
      <4>4. o \in Operations
        BY <1>1, <4>3 DEF Operations, Stages
      <4>5. o.stage = "between" /\ o.on = s /\ o.through = op[t].through
            /\ o.wanted = op[t].wanted /\ o.todo = Tail(op[t].todo)
        BY <1>1 DEF Operations
      <4> HIDE DEF o
      <4> QED BY <4>1, <4>3, <4>4, <4>5
    <3> QED BY <3>1, <3>2
  <2> QED BY <2>1, <2>2 DEF Leave
<1>3. /\ op'[t] = o /\ \A u \in Thread : u # t => op'[u] = op[u]
      /\ owner'[s] = NoThread /\ \A r \in Session : r # s => owner'[r] = owner[r]
  BY <1>1, <1>2 DEF IInv, TypeOK, Leave
<1>4. TypeOK'
  BY <1>1, <1>2 DEF IInv, TypeOK, Leave
<1>5. SectionLeft'
  BY <1>2, <1>3 DEF IInv, SectionLeft
<1>6. MutexHeld'
  <2> SUFFICES ASSUME NEW u \in Thread, Inside(u)' PROVE owner'[op'[u].on] = u
    BY DEF MutexHeld
  <2>1. u # t
    BY <1>2, <1>3 DEF Inside, InsideStages
  <2>2. op'[u] = op[u] /\ Inside(u) /\ op[u].on \in Session /\ owner[op[u].on] = u
    BY <2>1, <1>3 DEF Inside, IInv, TypeOK, Operations, MutexHeld
  <2> QED BY <1>1, <1>3, <2>1, <2>2
<1>7. HolderInside'
  <2> SUFFICES ASSUME NEW r \in Session, owner'[r] # NoThread
               PROVE  owner'[r] \in Thread /\ op'[owner'[r]].stage \in InsideStages
                      /\ op'[owner'[r]].on = r
    BY DEF HolderInside, Inside
  <2>1. r # s /\ owner'[r] = owner[r]
    BY <1>3
  <2>2. owner[r] \in Thread /\ Inside(owner[r]) /\ op[owner[r]].on = r
    BY <2>1 DEF IInv, HolderInside
  <2>3. owner[r] # t
    BY <2>1, <2>2
  <2> QED BY <1>3, <2>1, <2>2, <2>3 DEF Inside
<1>8. UserAlive' /\ HandlerAlive'
  BY <1>1, <1>2, <1>3 DEF IInv, UserAlive, HandlerAlive, Leave
<1>9. TimeoutSeen'
  BY <1>1, <1>2, <1>3 DEF IInv, TimeoutSeen, Leave
<1> QED BY <1>4, <1>5, <1>6, <1>7, <1>8, <1>9 DEF IInv

-----------------------------------------------------------------------------
(* The theorems.                                                           *)

LEMMA Inductive == IInv /\ [Next]_vars => IInv'
<1> SUFFICES ASSUME IInv, [Next]_vars PROVE IInv'
  OBVIOUS
<1>1. ASSUME NEW s \in Session, Open(s) PROVE IInv'
  BY <1>1, OpenKeeps
<1>2. ASSUME NEW s \in Session, Close(s) PROVE IInv'
  BY <1>2, CloseKeeps
<1>3. ASSUME NEW s \in Session, MakeAction(s) PROVE IInv'
  BY <1>3, MakeActionKeeps
<1>4. ASSUME NEW s \in Session, DropAction(s) PROVE IInv'
  BY <1>4, DropActionKeeps
<1>5. ASSUME NEW s \in Session, NEW seconds \in Timeouts, SetTimeout(s, seconds)
      PROVE  IInv'
  BY <1>5, SetTimeoutKeeps
<1>6. ASSUME NEW s \in Session, NEW t \in Thread, BeginOnSession(t, s) \/ BeginOnAction(t, s)
      PROVE  IInv'
  BY <1>6, BeginKeeps
<1>7. ASSUME NEW t \in Thread, Proceed(t) PROVE IInv'
  BY <1>7, ProceedKeeps
<1>8. ASSUME NEW t \in Thread, Enter(t) PROVE IInv'
  BY <1>8, EnterKeeps
<1>9. ASSUME NEW t \in Thread, Callback(t) \/ CallbackReturns(t) PROVE IInv'
  BY <1>9, CallbackKeeps
<1>10. ASSUME NEW t \in Thread, Leave(t) PROVE IInv'
  BY <1>10, LeaveKeeps
<1>11. CASE UNCHANGED vars
  BY <1>11 DEF vars, IInv, TypeOK, SectionLeft, MutexHeld, HolderInside, UserAlive,
               HandlerAlive, TimeoutSeen, Inside
<1> QED BY <1>1, <1>2, <1>3, <1>4, <1>5, <1>6, <1>7, <1>8, <1>9, <1>10, <1>11 DEF Next

LEMMA Invariance == Spec => []IInv
BY Initial, Inductive, PTL DEF Spec

\* Sessions, handles, mutexes and operations are well formed.
THEOREM TypeCorrect == Spec => []TypeOK
<1>1. IInv => TypeOK
  BY DEF IInv
<1> QED BY <1>1, Invariance, PTL

\* If no two sessions are made for one handle, calls of lib3270 with a handle
\* are serialised.
THEOREM SerializedCalls ==
    ASSUME \A r, s \in Session : HandleOf[r] = HandleOf[s] => r = s
    PROVE  Spec => []Serialized
<1>1. IInv => Serialized
  <2> SUFFICES ASSUME IInv, NEW t \in Thread, NEW u \in Thread, Inside(t), Inside(u),
                      HandleOf[op[t].on] = HandleOf[op[u].on]
               PROVE  t = u
    BY DEF Serialized
  <2>1. op[t].on \in Session /\ op[u].on \in Session
    BY InsideOwns DEF Operations
  <2> QED BY <2>1, InsideOwns
<1> QED BY <1>1, Invariance, PTL

\* No operation ever runs on a handle that has been freed, and no handler is
\* destroyed while it is locked.
THEOREM LiveHandles == Spec => []HandleLive
<1>1. IInv => HandleLive
  <2> SUFFICES ASSUME IInv PROVE HandleLive
    OBVIOUS
  <2>1. \A t \in Thread : op[t].stage # "idle" => handle[op[t].on] = "live"
    BY DEF IInv, TypeOK, Operations, UserAlive, HandlerAlive
  <2>2. \A s \in Session : handle[s] # "live" => owner[s] = NoThread
    BY <2>1, InsideOwns DEF IInv, HolderInside
  <2> QED BY <2>1, <2>2 DEF HandleLive
<1> QED BY <1>1, Invariance, PTL

\* A key press asks for a wait only if the timeout has been other than zero
\* during it.
THEOREM WantedWaits == Spec => []OnlyWantedWaits
<1>1. IInv => OnlyWantedWaits
  BY DEF IInv, TimeoutSeen, OnlyWantedWaits, Inside, InsideStages
<1> QED BY <1>1, Invariance, PTL

=============================================================================
