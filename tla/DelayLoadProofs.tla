-------------------------- MODULE DelayLoadProofs --------------------------
(***************************************************************************)
(* What the hook of the delayed loads does to the current directory, for   *)
(* any number of threads, directories and keys of the registry.            *)
(***************************************************************************)
EXTENDS DelayLoad, TLAPS

\* Where the loads look.
Target == IF InstallLocation \in Dir THEN InstallLocation ELSE home

Active(t) == thread[t].stage # "idle"
Calm == disturbed \cap {"overlap", "moved"} = {}
Sound == disturbed \cap {"moved", "race"} = {}
Saving(t) == thread[t].stage \in {"enter", "loading", "check", "restore", "clear"}

-----------------------------------------------------------------------------
(* The invariant, in parts.                                                *)

\* Without a place of installation the hook does nothing.
NowhereOK ==
    InstallLocation = Empty =>
        savedpath = Empty /\ \A t \in Thread : thread[t].stage \in {"idle", "loading", "check"}

\* Loads that have not overlapped are one at a time; a data race is of two that have.
AloneOK ==
    /\ "overlap" \notin disturbed => \A t, u \in Thread : Active(t) /\ Active(u) => t = u
    /\ "race" \in disturbed => "overlap" \in disturbed

\* Between the application's directory and the installation's there is no third.  What
\* a race has left in savedpath is written over before it is read.
PlacesOK ==
    /\ \A t \in Thread : thread[t].stage # "save" => thread[t].curdir = Empty
    /\ Sound =>
        /\ cwd \in {home, Target}
        /\ (\E t \in Thread : Saving(t)) => savedpath \in {home, Target, Empty}
        /\ \A t \in Thread : thread[t].curdir \in {home, Target, Empty}

\* One load alone: where it is at each of its stages.
LoadOK(t) ==
    Calm =>
        LET known == "unread" \notin disturbed
        IN  /\ thread[t].stage \in {"loading", "check", "restore"} => cwd = Target
            /\ thread[t].stage = "check" => from[t] = Target
            /\ thread[t].stage = "restore" => savedpath # Empty
            /\ thread[t].stage = "save" /\ known => cwd = home /\ thread[t].curdir = home
            /\ thread[t].stage \in {"enter", "loading", "check", "restore"} /\ known =>
                   savedpath = home \/ Target = home
            /\ thread[t].stage = "clear" /\ known => cwd = home

QuietOK == Quiet /\ disturbed = {} => cwd = home

IInv ==
    /\ TypeOK /\ NowhereOK /\ AloneOK /\ PlacesOK /\ QuietOK
    /\ \A t \in Thread : LoadOK(t)

-----------------------------------------------------------------------------
\* The registry is only read.
LEMMA SamePlace == ASSUME registry' = registry PROVE InstallLocation' = InstallLocation
BY DEF InstallLocation

LEMMA SameTarget ==
    ASSUME registry' = registry, home' = home PROVE Target' = Target
BY SamePlace DEF Target

LEMMA InitIInv == Init => IInv
<1> SUFFICES ASSUME Init PROVE IInv
    OBVIOUS
<1>1. TypeOK
  BY DEF Init, TypeOK, Saved, Stages
<1>2. NowhereOK /\ AloneOK /\ PlacesOK /\ QuietOK
  BY DEF Init, NowhereOK, AloneOK, PlacesOK, QuietOK, Active
<1>3. \A t \in Thread : LoadOK(t)
  BY DEF Init, LoadOK, Active
<1> QED BY <1>1, <1>2, <1>3 DEF IInv

\* A load begins.
LEMMA StartIInv ==
    ASSUME IInv, NEW t \in Thread, Start(t) \/ StartNowhere(t) PROVE IInv'
<1>0. /\ TypeOK /\ NowhereOK /\ AloneOK /\ PlacesOK /\ QuietOK
      /\ \A u \in Thread : LoadOK(u)
      /\ thread[t].stage = "idle"
  BY DEF IInv, Start, StartNowhere
<1>1. /\ InstallLocation' = InstallLocation /\ Target' = Target
      /\ registry' = registry /\ cwd' = cwd /\ savedpath' = savedpath /\ from' = from
      /\ home' = home /\ moves' = moves
  BY SamePlace, SameTarget DEF Start, StartNowhere
<1>2. PICK p, read :
          /\ thread' = [thread EXCEPT ![t] = p]
          /\ Disturb(t, read)
          /\ read = Empty => InstallLocation # Empty
          /\ \/ InstallLocation # Empty /\ p = [stage |-> "save", curdir |-> read]
                /\ read \in {Empty, cwd}
             \/ InstallLocation = Empty /\ p = [thread[t] EXCEPT !.stage = "loading"]
                /\ read = cwd
  BY <1>0, NotDirAssumption DEF Start, StartNowhere, Goto, TypeOK
<1>3. disturbed' \in {disturbed, disturbed \cup {"overlap"}, disturbed \cup {"unread"},
                      disturbed \cup {"overlap"} \cup {"unread"}}
  BY <1>2 DEF Disturb
<1>4. TypeOK'
  BY <1>0, <1>1, <1>2, <1>3, NotDirAssumption DEF TypeOK, Stages
<1>5. /\ \A u \in Thread \ {t} : thread'[u] = thread[u]
      /\ thread'[t] = p
  BY <1>0, <1>2 DEF TypeOK
<1>6. \/ p.stage = "save" /\ p.curdir \in {Empty, cwd}
      \/ p.stage = "loading" /\ p.curdir = thread[t].curdir
  <2>1. CASE p = [stage |-> "save", curdir |-> read] /\ read \in {Empty, cwd}
    <3>1. p.stage = "save" /\ p.curdir = read
      BY <2>1
    <3> QED BY <2>1, <3>1
  <2>2. CASE p = [thread[t] EXCEPT !.stage = "loading"]
    BY <1>0, <2>2 DEF TypeOK
  <2> QED BY <1>2, <2>1, <2>2
<1>7. NowhereOK'
  <2>1. InstallLocation = Empty => p.stage = "loading"
    BY <1>0, <1>2 DEF TypeOK
  <2> QED BY <1>0, <1>1, <1>5, <2>1 DEF NowhereOK
<1>8. "overlap" \notin disturbed' => \A u \in Thread \ {t} : ~ Active(u)
  BY <1>2 DEF Disturb, Active
<1>9. AloneOK'
  BY <1>0, <1>3, <1>5, <1>8 DEF AloneOK, Active
<1>10. PlacesOK'
  <2>1. Sound' => Sound
    BY <1>3 DEF Sound
  <2>2. p.stage = "loading" => savedpath = Empty
    <3>1. p.stage = "loading" => InstallLocation = Empty
      BY <1>2
    <3> QED BY <1>0, <3>1 DEF NowhereOK
  <2>3. (\E u \in Thread : Saving(u)') =>
            savedpath = Empty \/ \E u \in Thread : Saving(u)
    BY <1>5, <1>6, <2>2 DEF Saving
  <2> QED BY <1>0, <1>1, <1>5, <1>6, <2>1, <2>3 DEF PlacesOK
<1>11. QuietOK'
  BY <1>5, <1>6 DEF QuietOK, Quiet
<1>12. ASSUME NEW u \in Thread PROVE LoadOK(u)'
  <2>1. CASE u # t
    BY <1>1, <1>3, <1>5, <1>8, <2>1 DEF LoadOK, Calm, Active
  <2>2. CASE u = t /\ InstallLocation # Empty
    <3>1. p.stage = "save" /\ p.curdir = read /\ ("unread" \notin disturbed' => read = cwd)
      BY <1>2, <2>2 DEF Disturb
    <3>2. Calm' /\ "unread" \notin disturbed' => Quiet /\ disturbed = {}
      BY <1>0, <1>3, <1>8 DEF Calm, Quiet, Active, TypeOK, AloneOK
    <3> QED BY <1>0, <1>1, <1>5, <2>2, <3>1, <3>2 DEF LoadOK, QuietOK, Active
  <2>3. CASE u = t /\ InstallLocation = Empty
    <3>1. p.stage = "loading" /\ savedpath = Empty /\ Target = home
      BY <1>0, <1>2, <2>3, NotDirAssumption DEF NowhereOK, TypeOK, Target
    <3>2. Calm' => cwd = home
      BY <1>0, <1>3, <3>1 DEF Calm, Sound, PlacesOK, AloneOK
    <3> QED BY <1>1, <1>5, <2>3, <3>1, <3>2 DEF LoadOK, Active, Empty
  <2> QED BY <2>1, <2>2, <2>3
<1> QED BY <1>4, <1>7, <1>9, <1>10, <1>11, <1>12 DEF IInv

\* The facts about a step of a load that is under way.
LEMMA StepFacts ==
    ASSUME IInv, NEW t \in Thread, Active(t)
    PROVE  /\ TypeOK /\ NowhereOK /\ AloneOK /\ PlacesOK
           /\ LoadOK(t)
           /\ Calm => \A u \in Thread \ {t} : thread[u].stage = "idle"
           /\ Calm => ~ Racing(t)
<1>1. Calm => \A u \in Thread \ {t} : thread[u].stage = "idle"
  BY DEF IInv, AloneOK, Calm, Active
<1> QED BY <1>1 DEF IInv, Racing

\* A load uses savedpath.
LEMMA UseFacts ==
    ASSUME IInv, NEW t \in Thread, Active(t), Use(t)
    PROVE  /\ disturbed' \subseteq {"overlap", "unread", "moved", "race"}
           /\ \A d \in {"overlap", "unread", "moved"} : d \in disturbed' <=> d \in disturbed
           /\ "race" \in disturbed' => "overlap" \in disturbed'
           /\ Calm' <=> Calm
           /\ Calm => Sound /\ ~ Racing(t)
           /\ Sound' => Sound /\ ~ Racing(t)
           /\ disturbed' = {} => disturbed = {}
<1>1. /\ disturbed \subseteq {"overlap", "unread", "moved", "race"}
      /\ "race" \in disturbed => "overlap" \in disturbed
      /\ Calm => ~ Racing(t)
  BY StepFacts DEF TypeOK, AloneOK
<1>2. CASE Racing(t)
  <2>1. disturbed' = disturbed \cup {"race"}
    BY <1>2 DEF Use
  <2>2. "overlap" \in disturbed
    BY <1>1, <1>2, StepFacts DEF Racing, AloneOK, Active
  <2> QED BY <1>1, <1>2, <2>1, <2>2 DEF Calm, Sound
<1>3. CASE ~ Racing(t)
  <2>1. disturbed' = disturbed
    BY <1>3 DEF Use
  <2> QED BY <1>1, <1>3, <2>1 DEF Calm, Sound
<1> QED BY <1>2, <1>3

LEMMA SaveIInv == ASSUME IInv, NEW t \in Thread, Save(t) PROVE IInv'
<1>0. /\ Active(t) /\ thread[t].stage = "save"
  BY DEF Save, Active
<1>1. /\ TypeOK /\ NowhereOK /\ AloneOK /\ PlacesOK /\ LoadOK(t)
      /\ Calm => \A u \in Thread \ {t} : thread[u].stage = "idle"
      /\ Calm => ~ Racing(t)
  BY <1>0, StepFacts
<1>2. /\ disturbed' \subseteq {"overlap", "unread", "moved", "race"}
      /\ \A d \in {"overlap", "unread", "moved"} : d \in disturbed' <=> d \in disturbed
      /\ "race" \in disturbed' => "overlap" \in disturbed'
      /\ (Calm' <=> Calm) /\ (Calm => Sound) /\ (Sound' => Sound /\ ~ Racing(t))
      /\ disturbed' = {} => disturbed = {}
  BY <1>0, UseFacts DEF Save
<1>3. /\ InstallLocation' = InstallLocation /\ Target' = Target
      /\ registry' = registry /\ cwd' = cwd /\ from' = from
      /\ home' = home /\ moves' = moves
      /\ savedpath' \in Saved
      /\ ~ Racing(t) => savedpath' = thread[t].curdir
  BY <1>1, SamePlace, SameTarget DEF Save, Mixed, Saved, TypeOK
<1>4. /\ \A u \in Thread \ {t} : thread'[u] = thread[u]
      /\ thread'[t] = [stage |-> "enter", curdir |-> Empty]
      /\ thread' \in [Thread -> [stage : Stages, curdir : Dir \cup {Empty}]]
  BY <1>1 DEF Save, TypeOK, Stages
<1>5. TypeOK'
  BY <1>1, <1>2, <1>3, <1>4 DEF TypeOK
<1>6. NowhereOK'
  BY <1>0, <1>1, <1>3, <1>4 DEF NowhereOK
<1>7. AloneOK'
  BY <1>0, <1>1, <1>2, <1>3, <1>4 DEF AloneOK, Active
<1>8. PlacesOK'
  BY <1>0, <1>1, <1>2, <1>3, <1>4 DEF PlacesOK, Saving
<1>9. QuietOK'
  BY <1>4 DEF QuietOK, Quiet
<1>10. ASSUME NEW u \in Thread PROVE LoadOK(u)'
  <2>1. CASE u # t
    BY <1>1, <1>2, <1>3, <1>4, <2>1 DEF LoadOK, Active
  <2>2. CASE u = t
    BY <1>0, <1>1, <1>2, <1>3, <1>4, <2>2 DEF LoadOK, Active
  <2> QED BY <2>1, <2>2
<1> QED BY <1>5, <1>6, <1>7, <1>8, <1>9, <1>10 DEF IInv

LEMMA EnterIInv == ASSUME IInv, NEW t \in Thread, Enter(t) PROVE IInv'
<1>0. Active(t) /\ thread[t].stage = "enter"
  BY DEF Enter, Active
<1>1. /\ TypeOK /\ NowhereOK /\ AloneOK /\ PlacesOK /\ LoadOK(t)
      /\ Calm => \A u \in Thread \ {t} : thread[u].stage = "idle"
      /\ Calm => ~ Racing(t)
  BY <1>0, StepFacts
<1>2. /\ InstallLocation' = InstallLocation /\ Target' = Target
      /\ registry' = registry /\ savedpath' = savedpath /\ from' = from
      /\ home' = home /\ moves' = moves /\ disturbed' = disturbed
      /\ cwd' = IF InstallLocation \in Dir THEN InstallLocation ELSE cwd
  BY SamePlace, SameTarget DEF Enter, Entered
<1>3. /\ \A u \in Thread \ {t} : thread'[u] = thread[u]
      /\ thread'[t].stage = "loading" /\ thread'[t].curdir = thread[t].curdir
      /\ thread' \in [Thread -> [stage : Stages, curdir : Dir \cup {Empty}]]
  BY <1>1 DEF Enter, Goto, TypeOK, Stages
<1>4. TypeOK'
  BY <1>1, <1>2, <1>3 DEF TypeOK
<1>5. NowhereOK'
  BY <1>0, <1>1, <1>2, <1>3 DEF NowhereOK
<1>6. AloneOK'
  BY <1>0, <1>1, <1>2, <1>3 DEF AloneOK, Active
<1>7. PlacesOK'
  BY <1>0, <1>1, <1>2, <1>3 DEF PlacesOK, Sound, Saving, Target
<1>8. QuietOK'
  BY <1>3 DEF QuietOK, Quiet
<1>9. ASSUME NEW u \in Thread PROVE LoadOK(u)'
  <2>1. CASE u # t
    BY <1>1, <1>2, <1>3, <2>1 DEF LoadOK, Calm, Active
  <2>2. CASE u = t
    <3>1. Calm => cwd' = Target
      BY <1>1, <1>2 DEF Calm, Sound, PlacesOK, Target, AloneOK
    <3> QED BY <1>0, <1>1, <1>2, <1>3, <2>2, <3>1 DEF LoadOK, Calm, Active
  <2> QED BY <2>1, <2>2
<1> QED BY <1>4, <1>5, <1>6, <1>7, <1>8, <1>9 DEF IInv

LEMMA LoadIInv == ASSUME IInv, NEW t \in Thread, Load(t) PROVE IInv'
<1>0. Active(t) /\ thread[t].stage = "loading"
  BY DEF Load, Active
<1>1. /\ TypeOK /\ NowhereOK /\ AloneOK /\ PlacesOK /\ LoadOK(t)
      /\ Calm => \A u \in Thread \ {t} : thread[u].stage = "idle"
      /\ Calm => ~ Racing(t)
  BY <1>0, StepFacts
<1>2. /\ InstallLocation' = InstallLocation /\ Target' = Target
      /\ registry' = registry /\ savedpath' = savedpath /\ cwd' = cwd
      /\ home' = home /\ moves' = moves /\ disturbed' = disturbed
      /\ from' = [from EXCEPT ![t] = cwd]
  BY SamePlace, SameTarget DEF Load
<1>3. /\ \A u \in Thread \ {t} : thread'[u] = thread[u]
      /\ thread'[t].stage = "check" /\ thread'[t].curdir = thread[t].curdir
      /\ thread' \in [Thread -> [stage : Stages, curdir : Dir \cup {Empty}]]
  BY <1>1 DEF Load, Goto, TypeOK, Stages
<1>4. TypeOK'
  BY <1>1, <1>2, <1>3 DEF TypeOK
<1>5. NowhereOK'
  BY <1>0, <1>1, <1>2, <1>3 DEF NowhereOK
<1>6. AloneOK'
  BY <1>0, <1>1, <1>2, <1>3 DEF AloneOK, Active
<1>7. PlacesOK'
  BY <1>0, <1>1, <1>2, <1>3 DEF PlacesOK, Sound, Saving
<1>8. QuietOK'
  BY <1>3 DEF QuietOK, Quiet
<1>9. ASSUME NEW u \in Thread PROVE LoadOK(u)'
  <2>1. CASE u # t
    BY <1>1, <1>2, <1>3, <2>1 DEF LoadOK, Calm, Active
  <2>2. CASE u = t
    <3>1. from'[t] = cwd
      BY <1>1, <1>2 DEF TypeOK
    <3> QED BY <1>0, <1>1, <1>2, <1>3, <2>2, <3>1 DEF LoadOK, Calm, Active
  <2> QED BY <2>1, <2>2
<1> QED BY <1>4, <1>5, <1>6, <1>7, <1>8, <1>9 DEF IInv

LEMMA CheckIInv == ASSUME IInv, NEW t \in Thread, Check(t) PROVE IInv'
<1>0. Active(t) /\ thread[t].stage = "check"
  BY DEF Check, Active
<1>1. /\ TypeOK /\ NowhereOK /\ AloneOK /\ PlacesOK /\ LoadOK(t)
      /\ Calm => \A u \in Thread \ {t} : thread[u].stage = "idle"
      /\ Calm => ~ Racing(t)
  BY <1>0, StepFacts
<1>2. /\ disturbed' \subseteq {"overlap", "unread", "moved", "race"}
      /\ \A d \in {"overlap", "unread", "moved"} : d \in disturbed' <=> d \in disturbed
      /\ "race" \in disturbed' => "overlap" \in disturbed'
      /\ (Calm' <=> Calm) /\ (Calm => Sound) /\ (Sound' => Sound /\ ~ Racing(t))
      /\ disturbed' = {} => disturbed = {}
  BY <1>0, UseFacts DEF Check
<1>3. /\ InstallLocation' = InstallLocation /\ Target' = Target
      /\ registry' = registry /\ savedpath' = savedpath /\ cwd' = cwd
      /\ home' = home /\ moves' = moves
      /\ from' = [from EXCEPT ![t] = None]
  BY SamePlace, SameTarget DEF Check
<1>4. /\ \A u \in Thread \ {t} : thread'[u] = thread[u]
      /\ thread'[t].stage \in {"idle", "restore"}
      /\ ~ Racing(t) => thread'[t].stage = (IF savedpath = Empty THEN "idle" ELSE "restore")
      /\ thread'[t].curdir = thread[t].curdir
      /\ thread' \in [Thread -> [stage : Stages, curdir : Dir \cup {Empty}]]
  BY <1>1 DEF Check, Goto, Mixed, TypeOK, Stages
<1>5. TypeOK'
  BY <1>1, <1>2, <1>3, <1>4 DEF TypeOK
<1>6. NowhereOK'
  BY <1>0, <1>1, <1>3, <1>4 DEF NowhereOK, Racing
<1>7. AloneOK'
  BY <1>0, <1>1, <1>2, <1>3, <1>4 DEF AloneOK, Active
<1>8. PlacesOK'
  BY <1>0, <1>1, <1>2, <1>3, <1>4 DEF PlacesOK, Saving
<1>9. QuietOK'
  <2>1. ASSUME Quiet', disturbed = {} PROVE cwd = home
    <3>1. savedpath = Empty
      BY <1>1, <1>4, <2>1 DEF Quiet, Calm
    <3>2. savedpath = home \/ Target = home
      BY <1>0, <1>1, <2>1 DEF LoadOK, Calm
    <3>3. Target = home
      BY <1>1, <3>1, <3>2, NotDirAssumption DEF TypeOK
    <3> QED BY <1>0, <1>1, <2>1, <3>3 DEF LoadOK, Calm
  <2> QED BY <1>2, <1>3, <2>1 DEF QuietOK
<1>10. ASSUME NEW u \in Thread PROVE LoadOK(u)'
  <2>1. CASE u # t
    BY <1>1, <1>2, <1>3, <1>4, <2>1 DEF LoadOK, Active
  <2>2. CASE u = t
    BY <1>0, <1>1, <1>2, <1>3, <1>4, <2>2 DEF LoadOK, Active
  <2> QED BY <2>1, <2>2
<1> QED BY <1>5, <1>6, <1>7, <1>8, <1>9, <1>10 DEF IInv

LEMMA RestoreIInv == ASSUME IInv, NEW t \in Thread, Restore(t) PROVE IInv'
<1>0. Active(t) /\ thread[t].stage = "restore"
  BY DEF Restore, Active
<1>1. /\ TypeOK /\ NowhereOK /\ AloneOK /\ PlacesOK /\ LoadOK(t)
      /\ Calm => \A u \in Thread \ {t} : thread[u].stage = "idle"
      /\ Calm => ~ Racing(t)
  BY <1>0, StepFacts
<1>2. /\ disturbed' \subseteq {"overlap", "unread", "moved", "race"}
      /\ \A d \in {"overlap", "unread", "moved"} : d \in disturbed' <=> d \in disturbed
      /\ "race" \in disturbed' => "overlap" \in disturbed'
      /\ (Calm' <=> Calm) /\ (Calm => Sound) /\ (Sound' => Sound /\ ~ Racing(t))
      /\ disturbed' = {} => disturbed = {}
  BY <1>0, UseFacts DEF Restore
<1>3. /\ InstallLocation' = InstallLocation /\ Target' = Target
      /\ registry' = registry /\ savedpath' = savedpath /\ from' = from
      /\ home' = home /\ moves' = moves
      /\ cwd' \in Dir
      /\ ~ Racing(t) => cwd' = IF savedpath \in Dir THEN savedpath ELSE cwd
  BY <1>1, SamePlace, SameTarget DEF Restore, Entered, Mixed, TypeOK
<1>4. /\ \A u \in Thread \ {t} : thread'[u] = thread[u]
      /\ thread'[t].stage = "clear" /\ thread'[t].curdir = thread[t].curdir
      /\ thread' \in [Thread -> [stage : Stages, curdir : Dir \cup {Empty}]]
  BY <1>1 DEF Restore, Goto, TypeOK, Stages
<1>5. TypeOK'
  BY <1>1, <1>2, <1>3, <1>4 DEF TypeOK
<1>6. NowhereOK'
  BY <1>0, <1>1, <1>3, <1>4 DEF NowhereOK
<1>7. AloneOK'
  BY <1>0, <1>1, <1>2, <1>3, <1>4 DEF AloneOK, Active
<1>8. PlacesOK'
  <2>1. Sound' => cwd' \in {home, Target}
    BY <1>0, <1>1, <1>2, <1>3, NotDirAssumption DEF PlacesOK, Saving
  <2> QED BY <1>0, <1>1, <1>2, <1>3, <1>4, <2>1 DEF PlacesOK, Saving
<1>9. QuietOK'
  BY <1>4 DEF QuietOK, Quiet
<1>10. ASSUME NEW u \in Thread PROVE LoadOK(u)'
  <2>1. CASE u # t
    BY <1>1, <1>2, <1>3, <1>4, <2>1 DEF LoadOK, Active
  <2>2. CASE u = t
    <3>1. Calm /\ "unread" \notin disturbed => cwd' = home
      <4>1. home \in Dir
        BY <1>1 DEF TypeOK
      <4>2. ASSUME Calm, "unread" \notin disturbed PROVE cwd' = home
        <5>1. savedpath \in {home, Target} /\ (savedpath = home \/ Target = home) /\ cwd = Target
          BY <1>0, <1>1, <1>2, <4>2 DEF LoadOK, PlacesOK, Saving
        <5> QED BY <1>1, <1>3, <4>1, <4>2, <5>1
      <4> QED BY <4>2
    <3> QED BY <1>0, <1>1, <1>2, <1>3, <1>4, <2>2, <3>1 DEF LoadOK, Active
  <2> QED BY <2>1, <2>2
<1> QED BY <1>5, <1>6, <1>7, <1>8, <1>9, <1>10 DEF IInv

LEMMA ClearIInv == ASSUME IInv, NEW t \in Thread, Clear(t) PROVE IInv'
<1>0. Active(t) /\ thread[t].stage = "clear"
  BY DEF Clear, Active
<1>1. /\ TypeOK /\ NowhereOK /\ AloneOK /\ PlacesOK /\ LoadOK(t)
      /\ Calm => \A u \in Thread \ {t} : thread[u].stage = "idle"
      /\ Calm => ~ Racing(t)
  BY <1>0, StepFacts
<1>2. /\ disturbed' \subseteq {"overlap", "unread", "moved", "race"}
      /\ \A d \in {"overlap", "unread", "moved"} : d \in disturbed' <=> d \in disturbed
      /\ "race" \in disturbed' => "overlap" \in disturbed'
      /\ (Calm' <=> Calm) /\ (Calm => Sound) /\ (Sound' => Sound /\ ~ Racing(t))
      /\ disturbed' = {} => disturbed = {}
  BY <1>0, UseFacts DEF Clear
<1>3. /\ InstallLocation' = InstallLocation /\ Target' = Target
      /\ registry' = registry /\ cwd' = cwd /\ from' = from
      /\ home' = home /\ moves' = moves
      /\ savedpath' \in Saved
      /\ ~ Racing(t) => savedpath' = Empty
  BY <1>1, SamePlace, SameTarget DEF Clear, Mixed, Saved
<1>4. /\ \A u \in Thread \ {t} : thread'[u] = thread[u]
      /\ thread'[t].stage = "idle" /\ thread'[t].curdir = thread[t].curdir
      /\ thread' \in [Thread -> [stage : Stages, curdir : Dir \cup {Empty}]]
  BY <1>1 DEF Clear, Goto, TypeOK, Stages
<1>5. TypeOK'
  BY <1>1, <1>2, <1>3, <1>4 DEF TypeOK
<1>6. NowhereOK'
  BY <1>0, <1>1, <1>3, <1>4 DEF NowhereOK
<1>7. AloneOK'
  BY <1>0, <1>1, <1>2, <1>3, <1>4 DEF AloneOK, Active
<1>8. PlacesOK'
  BY <1>0, <1>1, <1>2, <1>3, <1>4 DEF PlacesOK, Saving
<1>9. QuietOK'
  BY <1>0, <1>1, <1>2, <1>3 DEF QuietOK, LoadOK, Calm
<1>10. ASSUME NEW u \in Thread PROVE LoadOK(u)'
  BY <1>1, <1>2, <1>3, <1>4 DEF LoadOK, Active
<1> QED BY <1>5, <1>6, <1>7, <1>8, <1>9, <1>10 DEF IInv

\* The application moves: a new directory to be restored, if no load is on.
LEMMA MoveIInv == ASSUME IInv, Move PROVE IInv'
<1>1. /\ TypeOK /\ NowhereOK /\ AloneOK /\ PlacesOK /\ \A u \in Thread : LoadOK(u)
      /\ InstallLocation' = InstallLocation
      /\ registry' = registry /\ savedpath' = savedpath /\ from' = from /\ thread' = thread
      /\ cwd' = home' /\ home' \in Dir /\ moves' = moves + 1
      /\ disturbed' = IF Quiet THEN {} ELSE disturbed \cup {"moved"}
  BY SamePlace DEF Move, IInv
<1>2. TypeOK' /\ NowhereOK'
  <2>1. TypeOK'
    <3>1. disturbed' \subseteq {"overlap", "unread", "moved", "race"}
      BY <1>1 DEF TypeOK
    <3>2. moves' \in Nat
      BY <1>1 DEF TypeOK
    <3> QED BY <1>1, <3>1, <3>2 DEF TypeOK
  <2>2. NowhereOK'
    BY <1>1 DEF NowhereOK
  <2> QED BY <2>1, <2>2
<1>3. CASE Quiet
  <2>1. \A u \in Thread : ~ Active(u) /\ ~ Active(u)' /\ thread'[u].stage = "idle"
    BY <1>1, <1>3 DEF Quiet, Active
  <2>2. disturbed' = {}
    BY <1>1, <1>3
  <2>3. PlacesOK'
    BY <1>1, <1>3, <2>1 DEF PlacesOK, Quiet, Saving
  <2>4. AloneOK' /\ QuietOK' /\ \A u \in Thread : LoadOK(u)'
    <3>1. AloneOK' /\ QuietOK'
      BY <1>1, <2>1, <2>2 DEF AloneOK, QuietOK, Active
    <3>2. \A u \in Thread : LoadOK(u)'
      BY <2>1 DEF LoadOK, Active
    <3> QED BY <3>1, <3>2
  <2> QED BY <1>2, <2>3, <2>4 DEF IInv
<1>4. CASE ~ Quiet
  <2>1. disturbed' = disturbed \cup {"moved"}
    BY <1>1, <1>4
  <2>2. PlacesOK' /\ QuietOK' /\ \A u \in Thread : LoadOK(u)'
    BY <1>1, <2>1 DEF PlacesOK, Sound, Saving, QuietOK, LoadOK, Calm
  <2>3. AloneOK'
    BY <1>1, <2>1 DEF AloneOK, Active
  <2> QED BY <1>2, <2>2, <2>3 DEF IInv
<1> QED BY <1>3, <1>4

LEMMA StutterIInv == ASSUME IInv, UNCHANGED vars PROVE IInv'
<1>1. InstallLocation' = InstallLocation /\ Target' = Target
  BY SamePlace, SameTarget DEF vars
<1> QED
  BY <1>1 DEF vars, IInv, TypeOK, NowhereOK, AloneOK, PlacesOK, QuietOK, LoadOK, Active,
              Calm, Sound, Saving, Quiet

-----------------------------------------------------------------------------
(* The invariant holds in every behaviour.                                 *)
THEOREM Invariant == Spec => []IInv
<1>1. IInv /\ [Next]_vars => IInv'
  BY StartIInv, SaveIInv, EnterIInv, LoadIInv, CheckIInv, RestoreIInv, ClearIInv, MoveIInv,
     StutterIInv DEF Next
<1> QED BY <1>1, InitIInv, PTL DEF Spec

(* Directories and stages are well formed, whatever races there are for    *)
(* savedpath.                                                              *)
THEOREM TypeCorrect == Spec => []TypeOK
<1>1. IInv => TypeOK
  BY DEF IInv
<1> QED BY <1>1, Invariant, PTL

(* Loads that do not overlap bring the application back to its directory.  *)
THEOREM Restored == Spec => []CwdRestored
<1>1. IInv => CwdRestored
  BY DEF IInv, QuietOK, CwdRestored
<1> QED BY <1>1, Invariant, PTL

(* Loads that do not overlap look in the place of installation.            *)
THEOREM FromInstall == Spec => []LoadsFromInstall
<1>1. IInv => LoadsFromInstall
  BY DEF IInv, LoadOK, LoadsFromInstall, Calm, Target
<1> QED BY <1>1, Invariant, PTL

(* Overlapping loads leave the application in one of two directories, if   *)
(* none uses savedpath while another writes it.                            *)
THEOREM NoThirdPlace == Spec => []LeftAtHomeOrInstall
<1>1. IInv => LeftAtHomeOrInstall
  BY DEF IInv, PlacesOK, LeftAtHomeOrInstall, Sound, Target
<1> QED BY <1>1, Invariant, PTL
=============================================================================
