----------------------------- MODULE HostProofs -----------------------------
(***************************************************************************)
(* Timeouts, waits and streams of TN3270::Host, for any number of hosts    *)
(* and operations, any texts and any times.                                *)
(***************************************************************************)
EXTENDS Host, TLAPS

-----------------------------------------------------------------------------
(* The invariant, in parts.                                                *)

\* A Host and its local session agree.
AgreeOK(h) == kind[h] = "local" => session[h] = timeout[h]

\* Nobody has set the mode since: it is what was asked for.
ModeOK(h) == kind[h] = "remote" /\ setting[h] = "returned" /\ setBy = h => mode = (timeout[h] # 0)

WaitOK(h, o) ==
    o.name = "connect" \/ (o.name = "pfkey" /\ kind[h] = "local") => o.waits = timeout[h]

\* A keyboard that is unlocked now has been unlocked since the operation began.
UnlockOK(h, o) ==
    o.name = "waitForKeyboardUnlock" =>
        /\ o.stage = "calling" => locked[Terminal(h)] \/ o.unlocked
        /\ o.stage = "returned" /\ o.result = "unlocked" /\ ~ o.unlocked =>
               kind[h] = "remote" /\ timeout[h] = 0

Lasting(h, o) == {i \in DOMAIN o.text : Pushed(h, o.text[i])}
Written(h, o) == {i \in Lasting(h, o) : i <= o.at}

\* A stream has typed what it has passed and does not vanish.
StreamOK(h, o) ==
    o.name = "stream" =>
        /\ o.spoiled \subseteq o.typed
        /\ \A i \in o.spoiled : Converter[h] = "open" /\ o.text[i] = "wide"
        /\ o.stage \in {"calling", "returned"} => o.typed = Written(h, o)
        /\ o.stage = "calling" => o.at < Len(o.text)
        /\ o.stage = "returned" => o.at = Len(o.text)
        /\ o.stage = "thrown" =>
               /\ o.failed
               /\ Written(h, o) \subseteq o.typed
               /\ o.typed \subseteq Written(h, o) \cup {o.at + 1}
        /\ o.stage # "idle"

OpOK(h, o) == WaitOK(h, o) /\ UnlockOK(h, o) /\ StreamOK(h, o)

IInv ==
    /\ TypeOK
    /\ \A h \in Hosts : AgreeOK(h) /\ ModeOK(h) /\ OpOK(h, op[h])
    /\ TerminatedByNoExcept

-----------------------------------------------------------------------------
LEMMA InitIInv == Init => IInv
<1> SUFFICES ASSUME Init PROVE IInv
    OBVIOUS
<1>1. Idle \in Operations
  BY DEF Idle, Operations, Names, Sort
<1>2. TypeOK
  BY <1>1, DefaultAssumption DEF Init, TypeOK
<1>3. ASSUME NEW h \in Hosts PROVE AgreeOK(h) /\ ModeOK(h) /\ OpOK(h, op[h])
  BY <1>3 DEF Init, AgreeOK, ModeOK, OpOK, WaitOK, UnlockOK, StreamOK, Idle
<1> QED BY <1>2, <1>3 DEF IInv, Init, TerminatedByNoExcept

\* What an operation is in order about depends on little: it stays so while the rest
\* changes.
LEMMA OpStays ==
    ASSUME NEW h \in Hosts, NEW o, OpOK(h, o),
           kind' = kind, locked' = locked, timeout'[h] = timeout[h]
    PROVE  OpOK(h, o)'
BY DEF OpOK, WaitOK, UnlockOK, StreamOK, Terminal, Written, Lasting

\* An operation begins: it is enough that the new one is in order.
LEMMA BeginIInv ==
    ASSUME IInv, NEW h \in Hosts, NEW o \in Operations,
           Ready(h), kind' = kind, mode' = mode, locked' = locked, alive' = alive, setBy' = setBy,
           op' = [op EXCEPT ![h] = o], calls' = [calls EXCEPT ![h] = @ + 1],
           timeout' \in [Hosts -> Nat], session' \in [Hosts -> Nat],
           setting' \in [Hosts -> {"never", "calling", "returned", "thrown"}],
           \A g \in Hosts \ {h} : /\ timeout'[g] = timeout[g] /\ session'[g] = session[g]
                                  /\ setting'[g] = setting[g],
           OpOK(h, o)', AgreeOK(h)', ModeOK(h)'
    PROVE  IInv'
<1>1. alive /\ TypeOK
  BY DEF IInv, Ready
<1>2. TypeOK'
  BY <1>1 DEF TypeOK, Terminal
<1>3. ASSUME NEW g \in Hosts PROVE AgreeOK(g)' /\ ModeOK(g)' /\ OpOK(g, op[g])'
  <2>1. CASE g = h
    <3>1. op'[h] = o
      BY <1>1 DEF TypeOK
    <3> QED BY <2>1, <3>1 DEF OpOK, WaitOK, UnlockOK, StreamOK, Terminal, Written, Lasting
  <2>2. CASE g # h
    <3>1. op'[g] = op[g] /\ AgreeOK(g) /\ ModeOK(g) /\ OpOK(g, op[g])
      BY <1>1, <2>2 DEF TypeOK, IInv
    <3> QED
      BY <2>2, <3>1
      DEF AgreeOK, ModeOK, OpOK, WaitOK, UnlockOK, StreamOK, Terminal, Written, Lasting
  <2> QED BY <2>1, <2>2
<1>4. TerminatedByNoExcept'
  BY <1>1 DEF TerminatedByNoExcept
<1> QED BY <1>2, <1>3, <1>4 DEF IInv

\* An operation of a host goes on or ends, and nothing else changes.
LEMMA StepIInv ==
    ASSUME IInv, NEW h \in Hosts, NEW o \in Operations, Calling(h),
           kind' = kind, timeout' = timeout, session' = session, mode' = mode, locked' = locked,
           calls' = calls, alive' = alive, setBy' = setBy, setting' = setting,
           op' = [op EXCEPT ![h] = o], OpOK(h, o)
    PROVE  IInv'
<1>1. alive /\ TypeOK
  BY DEF IInv, Calling
<1>2. TypeOK'
  BY <1>1 DEF TypeOK, Terminal
<1>3. ASSUME NEW g \in Hosts PROVE AgreeOK(g)' /\ ModeOK(g)' /\ OpOK(g, op[g])'
  <2>1. op'[g] \in {op[g], o} /\ (g # h => op'[g] = op[g]) /\ (g = h => op'[g] = o)
    BY <1>1 DEF TypeOK
  <2>2. OpOK(g, op'[g])
    BY <2>1 DEF IInv
  <2>3. AgreeOK(g)' /\ ModeOK(g)'
    BY DEF IInv, AgreeOK, ModeOK
  <2> QED BY <2>2, <2>3 DEF OpOK, WaitOK, UnlockOK, StreamOK, Terminal, Written, Lasting
<1>4. TerminatedByNoExcept'
  BY <1>1 DEF TerminatedByNoExcept
<1> QED BY <1>2, <1>3, <1>4 DEF IInv

\* The start of an operation, as Begin has it.
LEMMA NewOperation ==
    ASSUME TypeOK, NEW h \in Hosts, NEW i \in Operations, Begin(h, i)
    PROVE  \E o \in Operations :
               /\ op' = [op EXCEPT ![h] = o] /\ calls' = [calls EXCEPT ![h] = @ + 1] /\ Ready(h)
               /\ o.name = i.name /\ o.stage = i.stage /\ o.left = i.left /\ o.waits = i.waits
               /\ o.text = i.text /\ o.at = i.at /\ o.typed = i.typed /\ o.spoiled = i.spoiled
      /\ o.result = i.result
               /\ o.failed = i.failed /\ o.unlocked = ~ locked[Terminal(h)]
<1> DEFINE o == [i EXCEPT !.unlocked = ~ locked[Terminal(h)]]
<1>1. (~ locked[Terminal(h)]) \in BOOLEAN
  OBVIOUS
<1>2. /\ o \in Operations
      /\ o.name = i.name /\ o.stage = i.stage /\ o.left = i.left /\ o.waits = i.waits
      /\ o.text = i.text /\ o.at = i.at /\ o.typed = i.typed /\ o.spoiled = i.spoiled
      /\ o.result = i.result
      /\ o.failed = i.failed /\ o.unlocked = ~ locked[Terminal(h)]
  BY <1>1 DEF Operations
<1>3. op' = [op EXCEPT ![h] = o] /\ calls' = [calls EXCEPT ![h] = @ + 1] /\ Ready(h)
  BY DEF Begin
<1> HIDE DEF o
<1> QED BY <1>2, <1>3

\* Operations as they are when they begin.
LEMMA Initials ==
    /\ \A name \in Names :
        /\ Asking(name) \in Operations
        /\ Asking(name).name = name /\ Asking(name).stage = "calling"
        /\ Asking(name).typed = {} /\ Asking(name).spoiled = {} /\ Asking(name).at = 0
        /\ Asking(name).failed = FALSE
        /\ Asking(name).result = "none"
    /\ \A name \in Names, n \in Nat :
        /\ Waiting(name, n) \in Operations
        /\ Waiting(name, n).name = name /\ Waiting(name, n).stage = "calling"
        /\ Waiting(name, n).waits = n /\ Waiting(name, n).result = "none"
<1>1. {} \in SUBSET Nat /\ <<>> \in Seq(Sort) /\ FALSE \in BOOLEAN /\ 0 \in Nat
  OBVIOUS
<1> QED BY <1>1 DEF Asking, Waiting, Idle, Operations

\* A host that begins an operation with its timeout as it is.
LEMMA PlainBegin ==
    ASSUME IInv, NEW h \in Hosts, NEW i \in Operations, Begin(h, i),
           UNCHANGED <<timeout, session, setting>>, Quiet,
           WaitOK(h, i), StreamOK(h, i),
           i.name = "waitForKeyboardUnlock" /\ i.stage = "returned" /\ i.result = "unlocked" =>
               kind[h] = "remote" /\ timeout[h] = 0
    PROVE  IInv'
<1>0. TypeOK
  BY DEF IInv
<1>1. PICK o \in Operations :
          /\ op' = [op EXCEPT ![h] = o] /\ calls' = [calls EXCEPT ![h] = @ + 1] /\ Ready(h)
          /\ o.name = i.name /\ o.stage = i.stage /\ o.left = i.left /\ o.waits = i.waits
          /\ o.text = i.text /\ o.at = i.at /\ o.typed = i.typed /\ o.spoiled = i.spoiled
      /\ o.result = i.result
          /\ o.failed = i.failed /\ o.unlocked = ~ locked[Terminal(h)]
  BY <1>0, NewOperation
<1>2. /\ kind' = kind /\ mode' = mode /\ locked' = locked /\ alive' = alive /\ setBy' = setBy
      /\ timeout' = timeout /\ session' = session /\ setting' = setting
  BY DEF Quiet
<1>3. WaitOK(h, o) /\ UnlockOK(h, o)
  BY <1>1 DEF WaitOK, UnlockOK
<1>4. StreamOK(h, o)
  BY <1>1 DEF StreamOK, Written, Lasting
<1>5. OpOK(h, o)'
  BY <1>2, <1>3, <1>4 DEF OpOK, WaitOK, UnlockOK, StreamOK, Terminal, Written, Lasting
<1>6. AgreeOK(h)' /\ ModeOK(h)'
  BY <1>2 DEF IInv, AgreeOK, ModeOK
<1> QED BY <1>0, <1>1, <1>2, <1>5, <1>6, BeginIInv DEF TypeOK

LEMMA SetTimeoutIInv == ASSUME IInv, NEW h \in Hosts, SetTimeout(h) PROVE IInv'
<1>1. PICK n \in Timeouts :
          /\ timeout' = [timeout EXCEPT ![h] = n]
          /\ session' = IF kind[h] = "local" THEN [session EXCEPT ![h] = n] ELSE session
  BY DEF SetTimeout
<1>2. TypeOK /\ n \in Nat
  BY TimeoutsAssumption DEF IInv
<1> DEFINE stage == IF kind[h] = "local" THEN "returned" ELSE "calling"
           i == [Asking("setTimeout") EXCEPT !.stage = stage]
<1>3. /\ Begin(h, i) /\ setting' = [setting EXCEPT ![h] = stage]
      /\ kind' = kind /\ mode' = mode /\ locked' = locked /\ alive' = alive /\ setBy' = setBy
  BY DEF SetTimeout, Quiet
<1>4. i \in Operations /\ i.name = "setTimeout"
  <2>1. Asking("setTimeout") \in Operations /\ Asking("setTimeout").name = "setTimeout"
    BY Initials DEF Names
  <2>2. stage \in {"calling", "returned"}
    OBVIOUS
  <2> HIDE DEF stage
  <2> QED BY <2>1, <2>2 DEF Operations
<1>5. AgreeOK(h)'
  BY <1>1, <1>2, <1>3 DEF AgreeOK, TypeOK
<1>6. ModeOK(h)'
  BY <1>2, <1>3 DEF ModeOK, TypeOK
<1>7. stage \in {"calling", "returned"}
  OBVIOUS
<1> HIDE DEF i, stage
<1>8. PICK o \in Operations :
          /\ op' = [op EXCEPT ![h] = o] /\ calls' = [calls EXCEPT ![h] = @ + 1] /\ Ready(h)
          /\ o.name = "setTimeout"
  BY <1>2, <1>3, <1>4, NewOperation
<1>9. OpOK(h, o)'
  BY <1>8 DEF OpOK, WaitOK, UnlockOK, StreamOK
<1>10. /\ timeout' \in [Hosts -> Nat] /\ session' \in [Hosts -> Nat]
       /\ setting' \in [Hosts -> {"never", "calling", "returned", "thrown"}]
       /\ \A g \in Hosts \ {h} : /\ timeout'[g] = timeout[g] /\ session'[g] = session[g]
                                 /\ setting'[g] = setting[g]
  BY <1>1, <1>2, <1>3, <1>7 DEF TypeOK
<1> QED BY <1>3, <1>5, <1>6, <1>8, <1>9, <1>10, BeginIInv

\* The other operations begin.
LEMMA BeginningsIInv ==
    ASSUME IInv, NEW h \in Hosts,
           \/ Connect(h) \/ Key(h) \/ WaitForReady(h) \/ WaitForKeyboardUnlock(h)
           \/ Compare(h) \/ Write(h) \/ InputDefault(h)
    PROVE  IInv'
<1>0. TypeOK /\ AgreeOK(h) /\ timeout[h] \in Nat /\ session[h] \in Nat
  BY DEF IInv, TypeOK
<1>1. CASE Connect(h)
  <2> DEFINE n == IF kind[h] = "local" /\ timeout[h] = 0 THEN session[h] ELSE timeout[h]
             i == Waiting("connect", n)
  <2>1. n = timeout[h]
    BY <1>0 DEF AgreeOK
  <2>2. Begin(h, i) /\ UNCHANGED <<timeout, session, setting>> /\ Quiet
    BY <1>1 DEF Connect
  <2> HIDE DEF n
  <2>3. i \in Operations /\ i.name = "connect" /\ i.waits = timeout[h]
    BY <1>0, <2>1, Initials DEF Names
  <2>4. WaitOK(h, i) /\ StreamOK(h, i)
    BY <2>3 DEF WaitOK, StreamOK
  <2> HIDE DEF i
  <2> QED BY <2>2, <2>3, <2>4, PlainBegin
<1>2. CASE Key(h)
  <2> DEFINE n == IF kind[h] = "local" THEN session[h] ELSE 0
             i == Waiting("pfkey", n)
  <2>1. n \in Nat /\ (kind[h] = "local" => n = timeout[h])
    BY <1>0 DEF AgreeOK
  <2>2. Begin(h, i) /\ UNCHANGED <<timeout, session, setting>> /\ Quiet
    BY <1>2 DEF Key
  <2> HIDE DEF n
  <2>3. i \in Operations /\ i.name = "pfkey" /\ i.waits = n
    BY <2>1, Initials DEF Names
  <2>4. WaitOK(h, i) /\ StreamOK(h, i)
    BY <2>1, <2>3 DEF WaitOK, StreamOK
  <2> HIDE DEF i
  <2> QED BY <2>2, <2>3, <2>4, PlainBegin
<1>3. CASE WaitForReady(h)
  <2> DEFINE i == Waiting("waitForReady", timeout[h])
  <2>1. Begin(h, i) /\ UNCHANGED <<timeout, session, setting>> /\ Quiet
    BY <1>3 DEF WaitForReady
  <2>2. i \in Operations /\ i.name = "waitForReady"
    BY <1>0, Initials DEF Names
  <2>3. WaitOK(h, i) /\ StreamOK(h, i)
    BY <2>2 DEF WaitOK, StreamOK
  <2> HIDE DEF i
  <2> QED BY <2>1, <2>2, <2>3, PlainBegin
<1>4. CASE WaitForKeyboardUnlock(h)
  <2>1. CASE kind[h] = "remote" /\ timeout[h] = 0
    <3> DEFINE i == [Idle EXCEPT !.name = "waitForKeyboardUnlock", !.stage = "returned",
                                 !.result = "unlocked"]
    <3>1. Begin(h, i) /\ UNCHANGED <<timeout, session, setting>> /\ Quiet
      BY <1>4, <2>1 DEF WaitForKeyboardUnlock
    <3>2. {} \in SUBSET Nat /\ <<>> \in Seq(Sort) /\ FALSE \in BOOLEAN /\ 0 \in Nat
      OBVIOUS
    <3>3. i \in Operations /\ i.name = "waitForKeyboardUnlock"
      BY <3>2 DEF Idle, Operations, Names
    <3>4. WaitOK(h, i) /\ StreamOK(h, i)
      BY <3>3 DEF WaitOK, StreamOK
    <3> HIDE DEF i
    <3> QED BY <2>1, <3>1, <3>3, <3>4, PlainBegin
  <2>2. CASE ~ (kind[h] = "remote" /\ timeout[h] = 0)
    <3> DEFINE i == Waiting("waitForKeyboardUnlock", timeout[h])
    <3>1. Begin(h, i) /\ UNCHANGED <<timeout, session, setting>> /\ Quiet
      BY <1>4, <2>2 DEF WaitForKeyboardUnlock
    <3>2. i \in Operations /\ i.name = "waitForKeyboardUnlock" /\ i.stage = "calling"
      BY <1>0, Initials DEF Names
    <3>3. WaitOK(h, i) /\ StreamOK(h, i)
      BY <3>2 DEF WaitOK, StreamOK
    <3> HIDE DEF i
    <3> QED BY <3>1, <3>2, <3>3, PlainBegin
  <2> QED BY <2>1, <2>2
<1>5. CASE Compare(h)
  <2> DEFINE i == Asking("operator==")
  <2>1. Begin(h, i) /\ UNCHANGED <<timeout, session, setting>> /\ Quiet
    BY <1>5 DEF Compare
  <2>2. i \in Operations /\ i.name = "operator=="
    BY Initials DEF Names
  <2>3. WaitOK(h, i) /\ StreamOK(h, i)
    BY <2>2 DEF WaitOK, StreamOK
  <2> HIDE DEF i
  <2> QED BY <2>1, <2>2, <2>3, PlainBegin
<1>6. CASE Write(h)
  <2>1. PICK text \in Texts \ {<<>>}, name \in {"push", "stream"} :
            Begin(h, [Asking(name) EXCEPT !.text = text])
    BY <1>6 DEF Write
  <2> DEFINE i == [Asking(name) EXCEPT !.text = text]
  <2>2. /\ Asking(name) \in Operations /\ Asking(name).name = name /\ text \in Seq(Sort)
        /\ Asking(name).stage = "calling" /\ Asking(name).typed = {} /\ Asking(name).spoiled = {}
        /\ Asking(name).at = 0
    BY Initials, TextsAssumption DEF Names
  <2>3. /\ i \in Operations /\ i.name = name /\ i.text = text /\ i.stage = "calling"
        /\ i.typed = {} /\ i.spoiled = {} /\ i.at = 0
    BY <2>2 DEF Operations
  <2>4. Len(text) > 0 /\ DOMAIN text = 1..Len(text)
    BY <2>2
  <2>5. WaitOK(h, i)
    BY <2>3 DEF WaitOK
  <2>6. StreamOK(h, i)
    <3>1. Written(h, i) = {}
      BY <2>3, <2>4 DEF Written, Lasting
    <3> QED BY <2>3, <2>4, <3>1 DEF StreamOK
  <2> HIDE DEF i
  <2>7. UNCHANGED <<timeout, session, setting>> /\ Quiet
    BY <1>6 DEF Write
  <2>8. Begin(h, i)
    BY <2>1 DEF i
  <2> QED BY <2>3, <2>5, <2>6, <2>7, <2>8, PlainBegin
<1>7. CASE InputDefault(h)
  <2>1. PICK text \in Texts : Begin(h, [Asking("input") EXCEPT !.text = text, !.stage = "thrown"])
    BY <1>7 DEF InputDefault
  <2> DEFINE i == [Asking("input") EXCEPT !.text = text, !.stage = "thrown"]
  <2>2. Asking("input") \in Operations /\ Asking("input").name = "input" /\ text \in Seq(Sort)
    BY Initials, TextsAssumption DEF Names
  <2>3. i \in Operations /\ i.name = "input"
    BY <2>2 DEF Operations
  <2>4. WaitOK(h, i) /\ StreamOK(h, i)
    BY <2>3 DEF WaitOK, StreamOK
  <2> HIDE DEF i
  <2>5. Begin(h, i) /\ UNCHANGED <<timeout, session, setting>> /\ Quiet
    BY <1>7, <2>1 DEF i, InputDefault
  <2> QED BY <2>3, <2>4, <2>5, PlainBegin
<1> QED BY <1>1, <1>2, <1>3, <1>4, <1>5, <1>6, <1>7

-----------------------------------------------------------------------------
(* Calls and their ends.                                                   *)

\* The byte a call types is written as far as it has come.
LEMMA ConvertedOf ==
    ASSUME NEW h \in Hosts, NEW o \in Operations, o.name = "stream", o.at < Len(o.text)
    PROVE  /\ Converted(h, o) \subseteq {o.at + 1} /\ o.at + 1 \in DOMAIN o.text
           /\ Written(h, o) \cup Converted(h, o) = {i \in Lasting(h, o) : i <= o.at + 1}
<1>1. o.text \in Seq(Sort) /\ o.at \in Nat
  BY DEF Operations
<1>2. DOMAIN o.text = 1..Len(o.text) /\ Len(o.text) \in Nat
  BY <1>1
<1>3. o.at + 1 \in DOMAIN o.text /\ \A i \in DOMAIN o.text : i \in Int
  BY <1>1, <1>2
<1>4. \A i \in DOMAIN o.text : i <= o.at + 1 <=> i <= o.at \/ i = o.at + 1
  BY <1>1, <1>3
<1>5. Converted(h, o) = IF Pushed(h, o.text[o.at + 1]) THEN {o.at + 1} ELSE {}
  BY DEF Converted
<1> QED BY <1>3, <1>4, <1>5 DEF Written, Lasting

\* An operation that has typed its byte, and perhaps others behind it.
LEMMA Typed ==
    ASSUME NEW h \in Hosts, NEW o \in Operations, NEW spoiled \in Spoils(h, o)
    PROVE  LET p == Type(h, o, spoiled)
           IN  /\ p \in Operations
               /\ p.name = o.name /\ p.stage = o.stage /\ p.waits = o.waits /\ p.text = o.text
               /\ p.at = o.at /\ p.failed = o.failed
               /\ p.typed = o.typed \cup Converted(h, o) /\ p.spoiled = o.spoiled \cup spoiled
               /\ spoiled \subseteq Converted(h, o)
               /\ \A i \in spoiled : Converter[h] = "open" /\ o.text[i] = "wide"
<1>1. o.at \in Nat /\ o.typed \in SUBSET Nat /\ o.spoiled \in SUBSET Nat
  BY DEF Operations
<1>2. Converted(h, o) \subseteq Nat
  BY <1>1 DEF Converted
<1>3. /\ spoiled \subseteq Converted(h, o)
      /\ \A i \in spoiled : Converter[h] = "open" /\ o.text[i] = "wide"
  BY DEF Spoils
<1>4. o.typed \cup Converted(h, o) \in SUBSET Nat /\ o.spoiled \cup spoiled \in SUBSET Nat
  BY <1>1, <1>2, <1>3
<1> QED BY <1>3, <1>4 DEF Type, Operations

LEMMA AnswerDoneIInv == ASSUME IInv, NEW h \in Hosts, AnswerDone(h) PROVE IInv'
<1>1. PICK i \in Operations : i = op[h]
  BY DEF IInv, TypeOK
<1>2. Calling(h) /\ i.stage = "calling" /\ i.name \in {"push", "stream", "operator=="} /\ OpOK(h, i)
  BY <1>1 DEF AnswerDone, Calling, IInv
<1>3. PICK spoiled \in Spoils(h, i) : op' = [op EXCEPT ![h] = Advance(h, i, spoiled)]
  BY <1>1 DEF AnswerDone
<1> DEFINE p == Type(h, i, spoiled)
           next == [p EXCEPT !.at = @ + 1]
<1>4. /\ p \in Operations /\ p.name = i.name /\ p.stage = i.stage /\ p.waits = i.waits
      /\ p.text = i.text /\ p.at = i.at /\ p.failed = i.failed
      /\ p.typed = i.typed \cup Converted(h, i) /\ p.spoiled = i.spoiled \cup spoiled
      /\ spoiled \subseteq Converted(h, i)
      /\ \A k \in spoiled : Converter[h] = "open" /\ i.text[k] = "wide"
  BY Typed
<1>5. Advance(h, i, spoiled) = IF i.name = "stream" /\ next.at < Len(i.text) THEN next
                               ELSE [next EXCEPT !.stage = "returned"]
  BY DEF Advance
<1> HIDE DEF p
<1>6. /\ next \in Operations /\ next.name = i.name /\ next.stage = "calling"
      /\ next.text = i.text /\ next.at = i.at + 1 /\ next.typed = p.typed
      /\ next.spoiled = p.spoiled /\ i.at \in Nat /\ i.text \in Seq(Sort)
  <2>1. i.at \in Nat /\ i.at + 1 \in Nat /\ i.text \in Seq(Sort)
    BY DEF Operations
  <2> QED BY <1>2, <1>4, <2>1 DEF Operations
<1> HIDE DEF next
<1>7. PICK o \in Operations : o = Advance(h, i, spoiled)
  BY <1>5, <1>6 DEF Operations
<1>8. /\ o.name = i.name /\ o.text = i.text /\ o.at = i.at + 1
      /\ o.typed = i.typed \cup Converted(h, i) /\ o.spoiled = i.spoiled \cup spoiled
      /\ i.name = "stream" =>
             o.stage = IF i.at + 1 < Len(i.text) THEN "calling" ELSE "returned"
  BY <1>4, <1>5, <1>6, <1>7 DEF Operations
<1>9. StreamOK(h, o)
  <2> SUFFICES ASSUME o.name = "stream" PROVE StreamOK(h, o)
    BY DEF StreamOK
  <2>1. /\ i.name = "stream" /\ i.typed = Written(h, i) /\ i.at < Len(i.text)
        /\ i.spoiled \subseteq i.typed
        /\ \A k \in i.spoiled : Converter[h] = "open" /\ i.text[k] = "wide"
    BY <1>2, <1>8 DEF OpOK, StreamOK
  <2>2. o.typed = Written(h, o)
    BY <1>8, <2>1, ConvertedOf DEF Written, Lasting
  <2>3. Len(i.text) \in Nat
    BY <1>6
  <2>4. /\ o.spoiled \subseteq o.typed
        /\ \A k \in o.spoiled : Converter[h] = "open" /\ o.text[k] = "wide"
    BY <1>4, <1>8, <2>1
  <2>5. o.stage \in {"calling", "returned"}
    BY <1>8, <2>1
  <2>6. /\ o.stage = "calling" => o.at < Len(o.text)
        /\ o.stage = "returned" => o.at = Len(o.text)
    BY <1>6, <1>8, <2>1, <2>3
  <2> QED BY <2>2, <2>4, <2>5, <2>6 DEF StreamOK
<1>10. OpOK(h, o)
  BY <1>2, <1>8, <1>9 DEF OpOK, WaitOK, UnlockOK
<1>11. op' = [op EXCEPT ![h] = o]
  BY <1>3, <1>7
<1> QED BY <1>2, <1>10, <1>11, StepIInv DEF AnswerDone

LEMMA AnswerWaitIInv == ASSUME IInv, NEW h \in Hosts, AnswerWait(h) PROVE IInv'
<1>1. PICK i \in Operations : i = op[h]
  BY DEF IInv, TypeOK
<1>2. Calling(h) /\ i.stage = "calling" /\ i.name \in Waits /\ OpOK(h, i)
  BY <1>1 DEF AnswerWait, Calling, IInv
<1>3. PICK o \in Operations : o = [i EXCEPT !.stage = "returned", !.result = "unlocked"]
  BY DEF Operations
<1>4. o.name = i.name /\ o.waits = i.waits /\ o.unlocked = i.unlocked /\ o.stage = "returned"
  BY <1>3 DEF Operations
<1>5. o.name = "waitForKeyboardUnlock" => o.unlocked
  BY <1>1, <1>2, <1>4 DEF AnswerWait, OpOK, UnlockOK
<1>6. OpOK(h, o)
  BY <1>2, <1>4, <1>5 DEF OpOK, WaitOK, UnlockOK, StreamOK, Waits
<1>7. op' = [op EXCEPT ![h] = o]
  BY <1>1, <1>3 DEF AnswerWait
<1> QED BY <1>2, <1>6, <1>7, StepIInv DEF AnswerWait

LEMMA AnswerNotYetIInv == ASSUME IInv, NEW h \in Hosts, AnswerNotYet(h) PROVE IInv'
<1>1. PICK i \in Operations : i = op[h]
  BY DEF IInv, TypeOK
<1>2. Calling(h) /\ i.stage = "calling" /\ i.name \in Waits /\ OpOK(h, i)
  BY <1>1 DEF AnswerNotYet, Calling, IInv
<1>3. CASE \E left \in 1..op[h].left : op' = [op EXCEPT ![h].left = left]
  <2>1. PICK left \in 1..i.left : op' = [op EXCEPT ![h].left = left]
    BY <1>1, <1>3
  <2>2. left \in Nat
    BY <2>1 DEF Operations
  <2>3. PICK o \in Operations : o = [i EXCEPT !.left = left]
    BY <2>2 DEF Operations
  <2>4. OpOK(h, o)
    BY <1>2, <2>3 DEF Operations, OpOK, WaitOK, UnlockOK, StreamOK, Written, Lasting
  <2>5. op' = [op EXCEPT ![h] = o]
    BY <1>1, <2>1, <2>3
  <2> QED BY <1>2, <2>4, <2>5, StepIInv DEF AnswerNotYet
<1>4. CASE op' = [op EXCEPT ![h] =
               [@ EXCEPT !.left = 0, !.result = "locked",
                         !.stage = IF op[h].name = "waitForKeyboardUnlock" THEN "returned"
                                   ELSE "thrown"]]
  <2> DEFINE ends == IF i.name = "waitForKeyboardUnlock" THEN "returned" ELSE "thrown"
  <2>1. ends \in {"returned", "thrown"}
    OBVIOUS
  <2>2. op' = [op EXCEPT ![h] = [i EXCEPT !.left = 0, !.result = "locked", !.stage = ends]]
    BY <1>1, <1>4
  <2> HIDE DEF ends
  <2>3. PICK o \in Operations : o = [i EXCEPT !.left = 0, !.result = "locked", !.stage = ends]
    BY <2>1 DEF Operations
  <2>4. o.name = i.name /\ o.waits = i.waits /\ o.result = "locked" /\ o.stage # "calling"
    BY <2>1, <2>3 DEF Operations
  <2>5. OpOK(h, o)
    BY <1>2, <2>4 DEF OpOK, WaitOK, UnlockOK, StreamOK, Waits
  <2>6. op' = [op EXCEPT ![h] = o]
    BY <2>2, <2>3
  <2> QED BY <1>2, <2>5, <2>6, StepIInv DEF AnswerNotYet
<1> QED BY <1>3, <1>4 DEF AnswerNotYet

\* The end of a call that may have set the mode or ended the process.
LEMMA EndIInv ==
    ASSUME IInv, NEW h \in Hosts, NEW o \in Operations,
           kind' = kind, timeout' = timeout, session' = session, locked' = locked, calls' = calls,
           mode' \in BOOLEAN, alive' \in BOOLEAN, setBy' \in Hosts \cup {"other"},
           setting' \in [Hosts -> {"never", "calling", "returned", "thrown"}],
           op' = [op EXCEPT ![h] = o], OpOK(h, o),
           \A g \in Hosts : ModeOK(g)', TerminatedByNoExcept'
    PROVE  IInv'
<1>1. TypeOK
  BY DEF IInv
<1>2. TypeOK'
  BY <1>1 DEF TypeOK, Terminal
<1>3. ASSUME NEW g \in Hosts PROVE AgreeOK(g)' /\ OpOK(g, op[g])'
  <2>1. op'[g] \in {op[g], o} /\ (g # h => op'[g] = op[g]) /\ (g = h => op'[g] = o)
    BY <1>1 DEF TypeOK
  <2>2. OpOK(g, op'[g])
    BY <2>1 DEF IInv
  <2>3. AgreeOK(g)'
    BY DEF IInv, AgreeOK
  <2> QED BY <2>2, <2>3 DEF OpOK, WaitOK, UnlockOK, StreamOK, Terminal, Written, Lasting
<1> QED BY <1>2, <1>3 DEF IInv

\* An exception ends an operation; a stream has typed the byte it had or not.
LEMMA ThrownOK ==
    ASSUME IInv, NEW h \in Hosts, Calling(h), NEW o \in Operations,
           o.name = op[h].name, o.waits = op[h].waits, o.text = op[h].text, o.at = op[h].at,
           o.stage = "thrown", o.failed = TRUE,
           \/ o.typed = op[h].typed /\ o.spoiled = op[h].spoiled
           \/ \E spoiled \in Spoils(h, op[h]) :
                  /\ o.typed = op[h].typed \cup Converted(h, op[h])
                  /\ o.spoiled = op[h].spoiled \cup spoiled
    PROVE  OpOK(h, o)
<1>1. PICK i \in Operations : i = op[h]
  BY DEF IInv, TypeOK
<1>2. OpOK(h, i) /\ i.stage = "calling"
  BY <1>1 DEF IInv, Calling
<1>3. WaitOK(h, o) /\ UnlockOK(h, o)
  BY <1>1, <1>2 DEF OpOK, WaitOK, UnlockOK
<1>4. StreamOK(h, o)
  <2> SUFFICES ASSUME o.name = "stream" PROVE StreamOK(h, o)
    BY DEF StreamOK
  <2>1. /\ i.name = "stream" /\ i.typed = Written(h, i) /\ i.at < Len(i.text)
        /\ i.spoiled \subseteq i.typed
        /\ \A k \in i.spoiled : Converter[h] = "open" /\ i.text[k] = "wide"
    BY <1>1, <1>2 DEF OpOK, StreamOK
  <2>2. Converted(h, i) \subseteq {i.at + 1}
    BY <2>1, ConvertedOf
  <2>3. Written(h, o) = Written(h, i) /\ o.at = i.at /\ o.text = i.text
    BY <1>1 DEF Written, Lasting
  <2>4. CASE o.typed = i.typed /\ o.spoiled = i.spoiled
    BY <2>1, <2>3, <2>4 DEF StreamOK
  <2>5. CASE \E spoiled \in Spoils(h, i) :
                 /\ o.typed = i.typed \cup Converted(h, i)
                 /\ o.spoiled = i.spoiled \cup spoiled
    <3>1. PICK spoiled \in Spoils(h, i) : /\ o.typed = i.typed \cup Converted(h, i)
                                         /\ o.spoiled = i.spoiled \cup spoiled
      BY <2>5
    <3>2. /\ spoiled \subseteq Converted(h, i)
          /\ \A k \in spoiled : Converter[h] = "open" /\ i.text[k] = "wide"
      BY Typed
    <3>3. /\ o.spoiled \subseteq o.typed
          /\ \A k \in o.spoiled : Converter[h] = "open" /\ o.text[k] = "wide"
      BY <2>1, <2>3, <3>1, <3>2
    <3> QED BY <2>1, <2>2, <2>3, <3>1, <3>3 DEF StreamOK
  <2> QED BY <1>1, <2>4, <2>5
<1> QED BY <1>3, <1>4 DEF OpOK

LEMMA FailIInv == ASSUME IInv, NEW h \in Hosts, Fail(h) PROVE IInv'
<1>0. TypeOK /\ Calling(h) /\ alive
  BY DEF IInv, Fail, Calling
<1>1. PICK i \in Operations : i = op[h]
  BY <1>0 DEF TypeOK
<1>2. PICK o \in Operations : o = [i EXCEPT !.stage = "thrown", !.failed = TRUE]
  BY DEF Operations
<1>3. /\ o.name = i.name /\ o.waits = i.waits /\ o.text = i.text /\ o.at = i.at
      /\ o.typed = i.typed /\ o.spoiled = i.spoiled /\ o.stage = "thrown" /\ o.failed = TRUE
  BY <1>2 DEF Operations
<1>4. OpOK(h, o)
  BY <1>0, <1>1, <1>3, ThrownOK
<1>5. op' = [op EXCEPT ![h] = o] /\ op'[h] = o
  BY <1>0, <1>1, <1>2 DEF Fail, TypeOK
<1>6. /\ kind' = kind /\ timeout' = timeout /\ session' = session /\ mode' = mode
      /\ locked' = locked /\ calls' = calls /\ setBy' = setBy
      /\ alive' = (i.name \notin NoExcept) /\ kind[h] = "remote"
  BY <1>1 DEF Fail
<1>7. alive' \in BOOLEAN /\ mode' \in BOOLEAN /\ setBy' \in Hosts \cup {"other"}
  BY <1>0, <1>6 DEF TypeOK
<1>8. /\ setting' \in [Hosts -> {"never", "calling", "returned", "thrown"}]
      /\ \A g \in Hosts : setting'[g] \in {setting[g], "thrown"}
  BY <1>0 DEF TypeOK, Fail
<1>9. ASSUME NEW g \in Hosts PROVE ModeOK(g)'
  <2>1. ModeOK(g)
    BY DEF IInv
  <2> QED BY <1>6, <1>8, <2>1 DEF ModeOK
<1>10. TerminatedByNoExcept'
  BY <1>1, <1>3, <1>5, <1>6 DEF TerminatedByNoExcept
<1> QED BY <1>4, <1>5, <1>6, <1>7, <1>8, <1>9, <1>10, EndIInv

LEMMA FailDoneIInv == ASSUME IInv, NEW h \in Hosts, FailDone(h) PROVE IInv'
<1>0. TypeOK /\ Calling(h) /\ alive
  BY DEF IInv, FailDone, Calling
<1>1. PICK i \in Operations : i = op[h]
  BY <1>0 DEF TypeOK
<1>2. PICK spoiled \in Spoils(h, i) :
          op' = [op EXCEPT ![h] = [Type(h, i, spoiled) EXCEPT !.stage = "thrown", !.failed = TRUE]]
  BY <1>1 DEF FailDone
<1> DEFINE p == Type(h, i, spoiled)
<1>3. /\ p \in Operations /\ p.name = i.name /\ p.waits = i.waits /\ p.text = i.text
      /\ p.at = i.at /\ p.typed = i.typed \cup Converted(h, i)
      /\ p.spoiled = i.spoiled \cup spoiled
  BY Typed
<1>4. op' = [op EXCEPT ![h] = [p EXCEPT !.stage = "thrown", !.failed = TRUE]]
  BY <1>2
<1> HIDE DEF p
<1>5. PICK o \in Operations : o = [p EXCEPT !.stage = "thrown", !.failed = TRUE]
  BY <1>3 DEF Operations
<1>6. /\ o.name = p.name /\ o.waits = p.waits /\ o.text = p.text /\ o.at = p.at
       /\ o.typed = p.typed /\ o.spoiled = p.spoiled /\ o.stage = "thrown" /\ o.failed = TRUE
  BY <1>3, <1>5 DEF Operations
<1>7. /\ o.name = i.name /\ o.waits = i.waits /\ o.text = i.text /\ o.at = i.at
      /\ o.typed = i.typed \cup Converted(h, i) /\ o.spoiled = i.spoiled \cup spoiled
      /\ o.stage = "thrown" /\ o.failed = TRUE
  BY <1>3, <1>6
<1>8. OpOK(h, o)
  BY <1>0, <1>1, <1>7, ThrownOK
<1>9. op' = [op EXCEPT ![h] = o]
  BY <1>4, <1>5
<1>10. /\ kind' = kind /\ timeout' = timeout /\ session' = session
      /\ locked' = locked /\ calls' = calls /\ alive' = alive
  BY DEF FailDone
<1>11. CASE i.name = "setTimeout"
  <2>1. /\ mode' = (timeout[h] # 0) /\ setBy' = h
        /\ setting' = [setting EXCEPT ![h] = "thrown"]
    BY <1>1, <1>11 DEF FailDone
  <2>2. /\ setting' \in [Hosts -> {"never", "calling", "returned", "thrown"}]
        /\ setting'[h] = "thrown" /\ mode' \in BOOLEAN
    BY <1>0, <2>1 DEF TypeOK
  <2>3. ASSUME NEW g \in Hosts PROVE ModeOK(g)'
    BY <2>1, <2>2 DEF ModeOK
  <2>4. TerminatedByNoExcept'
    BY <1>0, <1>10 DEF TerminatedByNoExcept
  <2> QED BY <1>0, <1>8, <1>9, <1>10, <2>1, <2>2, <2>3, <2>4, EndIInv
<1>12. CASE i.name # "setTimeout"
  <2>1. mode' = mode /\ setBy' = setBy /\ setting' = setting
    BY <1>1, <1>12 DEF FailDone
  <2> QED BY <1>0, <1>8, <1>9, <1>10, <2>1, StepIInv
<1> QED BY <1>11, <1>12

LEMMA AnswerSetIInv == ASSUME IInv, NEW h \in Hosts, AnswerSet(h) PROVE IInv'
<1>0. TypeOK /\ Calling(h) /\ alive
  BY DEF IInv, AnswerSet, Calling
<1>1. PICK i \in Operations : i = op[h]
  BY <1>0 DEF TypeOK
<1>2. PICK o \in Operations : o = [i EXCEPT !.stage = "returned"]
  BY DEF Operations
<1>3. o.name = "setTimeout"
  BY <1>1, <1>2 DEF Operations, AnswerSet
<1>4. OpOK(h, o)
  BY <1>3 DEF OpOK, WaitOK, UnlockOK, StreamOK
<1>5. op' = [op EXCEPT ![h] = o]
  BY <1>1, <1>2 DEF AnswerSet
<1>6. /\ kind' = kind /\ timeout' = timeout /\ session' = session
      /\ locked' = locked /\ calls' = calls /\ alive' = alive
      /\ mode' = (timeout[h] # 0) /\ setBy' = h /\ setting' = [setting EXCEPT ![h] = "returned"]
  BY DEF AnswerSet
<1>7. /\ setting' \in [Hosts -> {"never", "calling", "returned", "thrown"}]
      /\ mode' \in BOOLEAN
  BY <1>0, <1>6 DEF TypeOK
<1>8. ASSUME NEW g \in Hosts PROVE ModeOK(g)'
  BY <1>6 DEF ModeOK
<1>9. TerminatedByNoExcept'
  BY <1>0, <1>6 DEF TerminatedByNoExcept
<1> QED BY <1>0, <1>4, <1>5, <1>6, <1>7, <1>8, <1>9, EndIInv

\* A keyboard is locked or unlocked: those that wait for it notice.
LEMMA ChangeIInv == ASSUME IInv, NEW t \in DOMAIN locked, Change(t) PROVE IInv'
<1>0. TypeOK /\ alive
  BY DEF IInv, Change
<1>1. /\ kind' = kind /\ timeout' = timeout /\ session' = session /\ mode' = mode
      /\ calls' = calls /\ alive' = alive /\ setBy' = setBy /\ setting' = setting
      /\ locked' = [locked EXCEPT ![t] = ~ @]
  BY DEF Change
<1>2. \A g \in Hosts :
          op'[g] = IF Terminal(g) = t /\ locked[t] /\ op[g].stage = "calling"
                   THEN [op[g] EXCEPT !.unlocked = TRUE] ELSE op[g]
  BY DEF Change
<1>3. ASSUME NEW g \in Hosts PROVE op'[g] \in Operations /\ OpOK(g, op[g])'
  <2>1. PICK i \in Operations : i = op[g]
    BY <1>0 DEF TypeOK
  <2>2. OpOK(g, i)
    BY <2>1 DEF IInv
  <2>3. PICK o \in Operations : o = [i EXCEPT !.unlocked = TRUE]
    BY DEF Operations
  <2>4. /\ o.name = i.name /\ o.stage = i.stage /\ o.waits = i.waits /\ o.result = i.result
        /\ o.text = i.text /\ o.at = i.at /\ o.typed = i.typed /\ o.spoiled = i.spoiled
        /\ o.failed = i.failed
        /\ o.unlocked = TRUE
    BY <2>3 DEF Operations
  <2>5. op'[g] = IF Terminal(g) = t /\ locked[t] /\ i.stage = "calling" THEN o ELSE i
    BY <1>2, <2>1, <2>3
  <2>6. PICK p \in Operations : p = op'[g]
    BY <2>5
  <2>7. /\ p.name = i.name /\ p.stage = i.stage /\ p.waits = i.waits /\ p.result = i.result
        /\ p.text = i.text /\ p.at = i.at /\ p.typed = i.typed /\ p.spoiled = i.spoiled
        /\ p.failed = i.failed
        /\ i.unlocked => p.unlocked
        /\ Terminal(g) = t /\ locked[t] /\ i.stage = "calling" => p.unlocked
    BY <2>4, <2>5, <2>6
  <2>8. WaitOK(g, p)'
    BY <1>1, <2>2, <2>7 DEF OpOK, WaitOK
  <2>9. UnlockOK(g, p)'
    <3>1. Terminal(g)' = Terminal(g) /\ Terminal(g) \in DOMAIN locked
      BY <1>0, <1>1 DEF Terminal, TypeOK
    <3>2. locked'[Terminal(g)] = IF Terminal(g) = t THEN ~ locked[t] ELSE locked[Terminal(g)]
      BY <1>1, <3>1
    <3>3. i.name = "waitForKeyboardUnlock" =>
              /\ i.stage = "calling" => locked[Terminal(g)] \/ i.unlocked
              /\ i.stage = "returned" /\ i.result = "unlocked" /\ ~ i.unlocked =>
                     kind[g] = "remote" /\ timeout[g] = 0
      BY <2>2 DEF OpOK, UnlockOK
    <3>4. p.name = "waitForKeyboardUnlock" /\ p.stage = "calling" =>
              locked'[Terminal(g)] \/ p.unlocked
      BY <2>7, <3>2, <3>3
    <3>5. p.name = "waitForKeyboardUnlock" /\ p.stage = "returned" /\ p.result = "unlocked"
          /\ ~ p.unlocked => kind[g] = "remote" /\ timeout[g] = 0
      BY <2>7, <3>3
    <3> QED BY <1>1, <3>1, <3>4, <3>5 DEF UnlockOK
  <2>10. StreamOK(g, p)
    BY <2>2, <2>7 DEF OpOK, StreamOK, Written, Lasting
  <2>11. OpOK(g, p)'
    BY <2>8, <2>9, <2>10 DEF OpOK, StreamOK, Written, Lasting
  <2> QED BY <2>6, <2>11 DEF OpOK, WaitOK, UnlockOK, StreamOK, Written, Lasting
<1>4. op' \in [Hosts -> Operations]
  <2>1. op' = [g \in Hosts |-> op'[g]]
    BY DEF Change
  <2> QED BY <1>3, <2>1
<1>5. locked' \in [{Terminal(g) : g \in Hosts} -> BOOLEAN]
  BY <1>0, <1>1 DEF TypeOK
<1>6. TypeOK'
  BY <1>0, <1>1, <1>4, <1>5 DEF TypeOK, Terminal
<1>7. ASSUME NEW g \in Hosts PROVE AgreeOK(g)' /\ ModeOK(g)'
  BY <1>1 DEF IInv, AgreeOK, ModeOK
<1>8. TerminatedByNoExcept'
  BY <1>0, <1>1 DEF TerminatedByNoExcept
<1> QED BY <1>3, <1>6, <1>7, <1>8 DEF IInv

\* The user of pw3270 is none of the hosts.
LEMMA ChangeModeIInv == ASSUME IInv, ChangeMode PROVE IInv'
<1>0. TypeOK /\ alive
  BY DEF IInv, ChangeMode
<1>1. /\ kind' = kind /\ timeout' = timeout /\ session' = session /\ locked' = locked
      /\ op' = op /\ calls' = calls /\ alive' = alive /\ setting' = setting
      /\ mode' = ~ mode /\ setBy' = "other"
  BY DEF ChangeMode
<1>2. TypeOK'
  BY <1>0, <1>1 DEF TypeOK, Terminal
<1>3. ASSUME NEW g \in Hosts PROVE AgreeOK(g)' /\ ModeOK(g)' /\ OpOK(g, op[g])'
  <2>1. g # "other"
    BY NamesAssumption
  <2>2. AgreeOK(g) /\ OpOK(g, op[g])
    BY DEF IInv
  <2> QED
    BY <1>1, <2>1, <2>2
    DEF AgreeOK, ModeOK, OpOK, WaitOK, UnlockOK, StreamOK, Terminal, Written, Lasting
<1>4. TerminatedByNoExcept'
  BY <1>0, <1>1 DEF TerminatedByNoExcept
<1> QED BY <1>2, <1>3, <1>4 DEF IInv

LEMMA StutterIInv == ASSUME IInv, UNCHANGED vars PROVE IInv'
<1>1. /\ kind' = kind /\ timeout' = timeout /\ session' = session /\ locked' = locked
      /\ mode' = mode /\ setBy' = setBy
      /\ op' = op /\ calls' = calls /\ alive' = alive /\ setting' = setting
  BY DEF vars
<1>2. TypeOK'
  BY <1>1 DEF IInv, TypeOK, Terminal
<1>3. ASSUME NEW g \in Hosts PROVE AgreeOK(g)' /\ ModeOK(g)' /\ OpOK(g, op[g])'
  BY <1>1
  DEF IInv, AgreeOK, ModeOK, OpOK, WaitOK, UnlockOK, StreamOK, Terminal, Written, Lasting
<1>4. TerminatedByNoExcept'
  BY <1>1 DEF IInv, TerminatedByNoExcept
<1> QED BY <1>2, <1>3, <1>4 DEF IInv

LEMMA NextIInv == IInv /\ [Next]_vars => IInv'
<1> SUFFICES ASSUME IInv, [Next]_vars PROVE IInv'
    OBVIOUS
<1>1. ASSUME NEW h \in Hosts, Step(h) PROVE IInv'
  BY <1>1, SetTimeoutIInv, BeginningsIInv, FailIInv, FailDoneIInv, AnswerSetIInv, AnswerDoneIInv,
     AnswerWaitIInv, AnswerNotYetIInv DEF Step
<1> QED BY <1>1, ChangeIInv, ChangeModeIInv, StutterIInv DEF Next

-----------------------------------------------------------------------------
(* Theorems.                                                               *)

\* Every state is in order.
THEOREM Invariant == Spec => []IInv
<1>1. Init => IInv
  BY InitIInv
<1>2. IInv /\ [Next]_vars => IInv'
  BY NextIInv
<1> QED BY <1>1, <1>2, PTL DEF Spec

\* Timeouts, modes and operations have their types.
THEOREM TypeCorrect == Spec => []TypeOK
<1>1. IInv => TypeOK
  BY DEF IInv
<1> QED BY <1>1, Invariant, PTL

\* connect() and a local pfkey() wait as long as the Host was told: setTimeout()
\* keeps the two timeouts equal.
THEOREM WaitsSet == Spec => []WaitsAsSet
<1>1. IInv => WaitsAsSet
  BY DEF IInv, OpOK, WaitOK, WaitsAsSet
<1> QED BY <1>1, Invariant, PTL

\* A setTimeout() that returned has left the wait mode of pw3270 as it says, until
\* somebody else sets it.
THEOREM ModeSet == Spec => []ModeAsSet
<1>1. ASSUME IInv PROVE ModeAsSet
  <2> SUFFICES ASSUME NEW h \in Hosts, kind[h] = "remote", mode # (timeout[h] # 0), setBy = h
               PROVE  setting[h] \in {"never", "calling", "thrown"}
    BY DEF ModeAsSet
  <2>1. ModeOK(h) /\ setting[h] \in {"never", "calling", "returned", "thrown"}
    BY <1>1 DEF IInv, TypeOK
  <2> QED BY <2>1 DEF ModeOK
<1> QED BY <1>1, Invariant, PTL

\* "unlocked" is said of a keyboard that was unlocked meanwhile, but for a remote
\* session with a timeout of 0.
THEOREM UnlockedTrue == Spec => []UnlockedIsTrue
<1>1. IInv => UnlockedIsTrue
  BY DEF IInv, OpOK, UnlockOK, UnlockedIsTrue
<1> QED BY <1>1, Invariant, PTL

\* Only the failed request of an operation that is noexcept ends the process.
THEOREM OnlyNoExcept == Spec => []TerminatedByNoExcept
<1>1. IInv => TerminatedByNoExcept
  BY DEF IInv
<1> QED BY <1>1, Invariant, PTL

\* An ostream types what it says, but for what its session's converter makes vanish.
THEOREM StreamTypes == Spec => []StreamTyped
<1>1. ASSUME IInv PROVE StreamTyped
  <2> SUFFICES ASSUME NEW h \in Hosts, NEW o \in Operations, o = op[h], o.name = "stream"
               PROVE  LET vanishing == IF Converter[h] = "none" THEN {"nul"}
                                       ELSE {"nul", "part", "lacking"}
                          lasting == {i \in DOMAIN o.text : o.text[i] \notin vanishing}
                          written == {i \in lasting : i <= o.at}
                      IN  /\ o.stage = "returned" => o.typed = lasting
                          /\ written \subseteq o.typed
                          /\ o.typed \subseteq written \cup (IF o.failed THEN {o.at + 1} ELSE {})
                          /\ o.spoiled \subseteq o.typed
                          /\ \A i \in o.spoiled : Converter[h] = "open" /\ o.text[i] = "wide"
    BY <1>1 DEF StreamTyped, IInv, TypeOK
  <2>1. /\ StreamOK(h, o) /\ o.text \in Seq(Sort)
        /\ o.stage \in {"idle", "calling", "returned", "thrown"}
    BY <1>1 DEF IInv, OpOK, Operations
  <2>2. o.at = Len(o.text) => Written(h, o) = Lasting(h, o)
    <3>1. DOMAIN o.text = 1..Len(o.text)
      BY <2>1
    <3> QED BY <3>1 DEF Written, Lasting
  <2> DEFINE vanishing == IF Converter[h] = "none" THEN {"nul"} ELSE {"nul", "part", "lacking"}
  <2>3. \A i \in DOMAIN o.text : Pushed(h, o.text[i]) <=> o.text[i] \notin vanishing
    <3>1. \A i \in DOMAIN o.text : o.text[i] \in Sort
      BY <2>1
    <3>2. Converter[h] \in {"none", "open"}
      BY ConverterAssumption
    <3> QED BY <3>1, <3>2 DEF Pushed, Sort
  <2>4. Lasting(h, o) = {i \in DOMAIN o.text : o.text[i] \notin vanishing}
    BY <2>3 DEF Lasting
  <2> HIDE DEF vanishing
  <2>5. /\ o.stage = "returned" => o.typed = Lasting(h, o)
        /\ Written(h, o) \subseteq o.typed
        /\ o.typed \subseteq Written(h, o) \cup (IF o.failed THEN {o.at + 1} ELSE {})
        /\ o.spoiled \subseteq o.typed
        /\ \A i \in o.spoiled : Converter[h] = "open" /\ o.text[i] = "wide"
    BY <2>1, <2>2 DEF StreamOK
  <2>6. Written(h, o) = {i \in Lasting(h, o) : i <= o.at}
    BY DEF Written
  <2> QED BY <2>4, <2>5, <2>6 DEF vanishing
<1> QED BY <1>1, Invariant, PTL
=============================================================================
