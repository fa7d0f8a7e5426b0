---------------------------- MODULE LocalSession ----------------------------
(***************************************************************************)
(* Sessions on a lib3270 handle of this process (src/src/session/local):   *)
(* the Handler that owns the handle and is the mutex around it, shared by  *)
(* the session and by the Action objects it makes; operations of one and   *)
(* of several critical sections; the timeout that no mutex protects.       *)
(*                                                                         *)
(* lib3270 is not in the repository.  It appears as the code in src uses   *)
(* it: a call returns or fails after a while, and before that may call one *)
(* of the handlers that the session installed.                             *)
(***************************************************************************)
EXTENDS Naturals, Sequences

CONSTANTS
    Thread,     \* threads of the application
    Session,    \* Session objects
    Local,      \* those of getLocalInstance(); the others are of getInstance(H3270 *)
    HandleOf,   \* the lib3270 handle of each session
    Timeouts,   \* arguments of setTimeout()
    NoThread

ASSUME SessionAssumption == Session # {}
ASSUME LocalAssumption == Local \subseteq Session
\* getLocalInstance() makes a handle of its own for each session.
ASSUME OwnHandleAssumption ==
    \A s \in Local, r \in Session : HandleOf[r] = HandleOf[s] => r = s
ASSUME TimeoutsAssumption == Timeouts \subseteq Nat /\ 5 \in Timeouts
ASSUME NoThreadAssumption == NoThread \notin Thread

VARIABLES
    session,    \* is the Session object there?
    actions,    \* sessions of which the application holds an Action object
    handle,     \* the lib3270 handle of a local session
    owner,      \* who has locked the session's Handler
    timeout,    \* "Timeout for automatic waits"
    op          \* the operation each thread is in

vars == <<session, actions, handle, owner, timeout, op>>

-----------------------------------------------------------------------------
(* What the operations consist of: the critical sections each goes         *)
(* through.  "call" is any single call of lib3270.                         *)

\* connect(), disconnect(), print().
CommandOperations == {<<"call">>}
ReadOperations == {<<"call">>}
WriteOperations == {<<"call">>}
PropertyOperations == {<<"call">>}
WaitOperations == {<<"call">>}
\* pfkey(), pakey(), push(): the key, and the automatic wait after it.
KeyOperations == {<<"press", "autowait">>}
\* FieldFactory(): by address; by row and column, which are translated first.
FieldOperations == {<<"call">>, <<"call", "call">>}

SessionOperations ==
    CommandOperations \cup ReadOperations \cup WriteOperations \cup PropertyOperations
        \cup WaitOperations \cup KeyOperations \cup FieldOperations

\* activatable(), activate() and wait(); activate(seconds); try_activate(0);
\* try_activate(seconds).
ActionOperations ==
    {<<"call">>, <<"call", "call">>, <<"test", "call">>, <<"test", "call", "call">>}

Sections == {"call", "press", "autowait", "test"}

\* through: the object the operation was called on
\* todo: sections left, the one in progress first
\* wanted: has the timeout been other than zero since the call? (history)
Stages == {"idle", "between", "locking", "inside", "callback"}
Operations == [stage : Stages, through : {"session", "action"}, on : Session,
               todo : Seq(Sections), wanted : BOOLEAN]

Idle == [stage |-> "idle", through |-> "session", on |-> CHOOSE s \in Session : TRUE,
         todo |-> <<>>, wanted |-> FALSE]

InsideStages == {"inside", "callback"}

Inside(t) == op[t].stage \in InsideStages

TypeOK ==
    /\ session \in [Session -> {"none", "open", "closed"}]
    /\ actions \subseteq Session
    /\ handle \in [Session -> {"none", "live", "freed"}]
    /\ owner \in [Session -> Thread \cup {NoThread}]
    /\ timeout \in [Session -> Timeouts]
    /\ op \in [Thread -> Operations]

Init ==
    /\ session = [s \in Session |-> "none"]
    /\ actions = {}
    \* an attached session is given the handle by the application
    /\ handle = [s \in Session |-> IF s \in Local THEN "none" ELSE "live"]
    /\ owner = [s \in Session |-> NoThread]
    /\ timeout = [s \in Session |-> 5]
    /\ op = [t \in Thread |-> Idle]

-----------------------------------------------------------------------------
(* Objects and their lives.                                                *)

\* Threads in an operation on a session, or on an Action object of it.
UsingSession(s) ==
    \E t \in Thread : op[t].stage # "idle" /\ op[t].through = "session" /\ op[t].on = s
UsingAction(s) ==
    \E t \in Thread : op[t].stage # "idle" /\ op[t].through = "action" /\ op[t].on = s

\* getLocalInstance(), getInstance(H3270 *).  The first makes the handle, and
\* frees it again when the callback table is not the expected one.
Open(s) ==
    /\ session[s] # "open"
    /\ s \notin actions
    /\ \/ /\ session' = [session EXCEPT ![s] = "open"]
          /\ handle' = [handle EXCEPT ![s] = "live"]
          /\ timeout' = [timeout EXCEPT ![s] = 5]
       \/ /\ s \in Local
          /\ handle' = [handle EXCEPT ![s] = "freed"]
          /\ UNCHANGED <<session, timeout>>
    /\ UNCHANGED <<actions, owner, op>>

\* ~Handler: only a local session's handler frees its handle.
Freed(s) == IF s \in Local THEN [handle EXCEPT ![s] = "freed"] ELSE handle

\* Wrong: the handler goes with the session, whoever else has a pointer to it.
CloseFrees(s) ==
    /\ session[s] = "open"
    /\ ~ UsingSession(s)
    /\ session' = [session EXCEPT ![s] = "closed"]
    /\ handle' = Freed(s)
    /\ UNCHANGED <<actions, owner, timeout, op>>

\* ~Session, when no thread uses it any more.  The handler goes with it,
\* unless an Action has a pointer to it too.
Close(s) ==
    /\ session[s] = "open"
    /\ ~ UsingSession(s)
    /\ session' = [session EXCEPT ![s] = "closed"]
    /\ handle' = IF s \in actions THEN handle ELSE Freed(s)
    /\ UNCHANGED <<actions, owner, timeout, op>>

\* ActionFactory().
MakeAction(s) ==
    /\ session[s] = "open"
    /\ s \notin actions
    /\ actions' = actions \cup {s}
    /\ UNCHANGED <<session, handle, owner, timeout, op>>

\* ~Action.
DropAction(s) ==
    /\ s \in actions
    /\ ~ UsingAction(s)
    /\ actions' = actions \ {s}
    /\ handle' = IF session[s] = "open" THEN handle ELSE Freed(s)
    /\ UNCHANGED <<session, owner, timeout, op>>

\* setTimeout(): without the mutex, whatever the other threads are doing.
SetTimeout(s, seconds) ==
    /\ session[s] = "open"
    /\ timeout' = [timeout EXCEPT ![s] = seconds]
    /\ op' = [t \in Thread |->
                 IF seconds # 0 /\ op[t].on = s /\ op[t].stage # "idle"
                 THEN [op[t] EXCEPT !.wanted = TRUE] ELSE op[t]]
    /\ UNCHANGED <<session, actions, handle, owner>>

-----------------------------------------------------------------------------
(* Operations.                                                             *)

SetStage(t, stage) == op' = [op EXCEPT ![t] = [@ EXCEPT !.stage = stage]]

\* The operation goes on with the section after this one, if there is one.
Continued(o) ==
    IF Len(o.todo) = 1 THEN Idle
    ELSE [o EXCEPT !.stage = "between", !.todo = Tail(@)]

Begin(t, s, through, todo) ==
    /\ op[t].stage = "idle"
    /\ op' = [op EXCEPT ![t] = [stage |-> "between", through |-> through, on |-> s,
                                todo |-> todo, wanted |-> timeout[s] # 0]]
    /\ UNCHANGED <<session, actions, handle, owner, timeout>>

BeginOnSession(t, s) ==
    /\ session[s] = "open"
    /\ \E todo \in SessionOperations : Begin(t, s, "session", todo)

BeginOnAction(t, s) ==
    /\ s \in actions
    /\ \E todo \in ActionOperations : Begin(t, s, "action", todo)

\* Wrong: the wait is not skipped.
ProceedAlways(t) ==
    /\ op[t].stage = "between"
    /\ SetStage(t, "locking")
    /\ UNCHANGED <<session, actions, handle, owner, timeout>>

\* To the next section.  "if(this->timeout)" is read without the mutex.
Proceed(t) ==
    /\ op[t].stage = "between"
    /\ IF Head(op[t].todo) = "autowait" /\ timeout[op[t].on] = 0
       THEN op' = [op EXCEPT ![t] = Idle]
       ELSE SetStage(t, "locking")
    /\ UNCHANGED <<session, actions, handle, owner, timeout>>

\* Wrong: the section is entered without the mutex.
EnterUnlocked(t) ==
    /\ op[t].stage = "locking"
    /\ owner' = [owner EXCEPT ![op[t].on] = t]
    /\ SetStage(t, "inside")
    /\ UNCHANGED <<session, actions, handle, timeout>>

\* Handler::call(), Handler::get(): lock, then into lib3270.
Enter(t) ==
    /\ op[t].stage = "locking"
    /\ owner[op[t].on] = NoThread
    /\ owner' = [owner EXCEPT ![op[t].on] = t]
    /\ SetStage(t, "inside")
    /\ UNCHANGED <<session, actions, handle, timeout>>

\* lib3270 calls popupHandler or connectHandler, which only local sessions
\* install.  They find the session by the user data and fire() an event at it.
Callback(t) ==
    /\ op[t].stage = "inside"
    /\ op[t].on \in Local
    /\ SetStage(t, "callback")
    /\ UNCHANGED <<session, actions, handle, owner, timeout>>

\* fire() does nothing; the handler returns into lib3270.
CallbackReturns(t) ==
    /\ op[t].stage = "callback"
    /\ SetStage(t, "inside")
    /\ UNCHANGED <<session, actions, handle, owner, timeout>>

\* Wrong: a section that throws leaves the mutex locked.
LeaveLocked(t) ==
    /\ op[t].stage = "inside"
    /\ op' \in {[op EXCEPT ![t] = Continued(@)], [op EXCEPT ![t] = Idle]}
    /\ owner' = [owner EXCEPT ![op[t].on] =
                    IF op'[t].stage = "between" THEN NoThread ELSE @]
    /\ UNCHANGED <<session, actions, handle, timeout>>

\* Out of lib3270: the section succeeds, or its response or a check throws,
\* or activatable() is false.  lock_guard unlocks either way.
Leave(t) ==
    /\ op[t].stage = "inside"
    /\ op' \in {[op EXCEPT ![t] = Continued(@)], [op EXCEPT ![t] = Idle]}
    /\ owner' = [owner EXCEPT ![op[t].on] = NoThread]
    /\ UNCHANGED <<session, actions, handle, timeout>>

Next ==
    \/ \E s \in Session :
        \/ Open(s)
        \/ Close(s)
        \/ MakeAction(s)
        \/ DropAction(s)
        \/ \E seconds \in Timeouts : SetTimeout(s, seconds)
        \/ \E t \in Thread : BeginOnSession(t, s) \/ BeginOnAction(t, s)
    \/ \E t \in Thread :
        \/ Proceed(t)
        \/ Enter(t)
        \/ Callback(t)
        \/ CallbackReturns(t)
        \/ Leave(t)

Spec == Init /\ [][Next]_vars

\* A handler does next to nothing and returns, and calls of lib3270 return
\* however many handlers they call: each wait has its seconds.  Nothing says in
\* which order waiting threads get a mutex.
FairSpec ==
    Spec /\ \A t \in Thread : WF_vars(CallbackReturns(t)) /\ SF_vars(Leave(t))

-----------------------------------------------------------------------------
(* Properties.                                                             *)

\* "Do serialized calls to lib3270 methods" (private.h:66): no two threads
\* are inside lib3270 with the same handle.
Serialized ==
    \A t, u \in Thread :
        Inside(t) /\ Inside(u) /\ HandleOf[op[t].on] = HandleOf[op[u].on] => t = u

\* Whoever is inside lib3270, or on the way there, has a handle that exists,
\* though the session may be gone; and a handle that is freed is unlocked.
HandleLive ==
    /\ \A t \in Thread : op[t].stage # "idle" => handle[op[t].on] = "live"
    /\ \A s \in Session : handle[s] # "live" => owner[s] = NoThread

\* A key press is followed by a wait only if the timeout has been other than
\* zero at some time since the press was asked for.
OnlyWantedWaits ==
    \A t \in Thread :
        Inside(t) /\ Head(op[t].todo) = "autowait" => op[t].wanted

\* However operations end, the mutex does not stay locked.
MutexFreed == \A s \in Session : []<>(owner[s] = NoThread)
=============================================================================
