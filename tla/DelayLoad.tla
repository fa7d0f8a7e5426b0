------------------------------ MODULE DelayLoad ------------------------------
(***************************************************************************)
(* The library on Windows loads what it links to when it is first called:  *)
(* IPC3270_DelayLoadHook() (src/src/core/windows/dynamic/init.cc) is told  *)
(* when such a load starts, and makes the place of installation the        *)
(* current directory, and when it ends, and goes back.  The current        *)
(* directory belongs to the process, and the path to go back to is a       *)
(* static std::string that no lock protects.                               *)
(*                                                                         *)
(* Windows, its loader and the registry are external.                      *)
(***************************************************************************)
EXTENDS Integers, FiniteSets, FiniteSetsExt

CONSTANTS
    Thread,     \* threads that call the library
    Dir,        \* directories that exist
    LongDir,    \* those of them whose path is longer than 4095 bytes
    Missing,    \* paths that are not of a directory
    Keys,       \* how many keys of the registry are looked at (6 in the code)
    MaxMoves    \* bound: how often the application changes its directory

\* No path; a value the registry does not have; bytes of two paths, if they are not
\* by chance those of a directory.
Empty == ""
None == "none"
Torn == "torn"
Here == "."

ASSUME LongDirAssumption == LongDir \subseteq Dir
ASSUME NotDirAssumption == ({Empty, None, Torn, Here} \cup Missing) \cap Dir = {}
ASSUME KeysAssumption == Keys \in Nat
ASSUME MaxMovesAssumption == MaxMoves \in Nat

VARIABLES
    registry,   \* "InstallLocation" of each key, in the order they are looked at
    cwd,        \* the current directory
    savedpath,  \* of the hook
    thread,     \* what each thread is doing, and the directory it has read
    from,       \* where it looked for its library, until the load ends (history)
    home,       \* where the application wants to be (history)
    moves,      \* how often it has moved (history)
    disturbed   \* what has come between since it last moved (history)

vars == <<registry, cwd, savedpath, thread, from, home, moves, disturbed>>

Paths == (Dir \ LongDir) \cup Missing \cup {Empty, Here}
Saved == Dir \cup {Empty, Torn}
Stages == {"idle", "save", "enter", "loading", "check", "restore", "clear"}

\* getInstallLocation(): the value of the first key that has one.
InstallLocation ==
    LET found == {k \in 1..Keys : registry[k] # None}
    IN  IF found = {} THEN Here ELSE registry[Min(found)]

\* SetCurrentDirectory(), whose result nobody looks at.
Entered(path) == IF path \in Dir THEN path ELSE cwd

Init ==
    /\ registry \in [1..Keys -> Paths \cup {None}]
    /\ cwd \in Dir
    /\ savedpath = Empty
    /\ thread = [t \in Thread |-> [stage |-> "idle", curdir |-> Empty]]
    /\ from = [t \in Thread |-> None]
    /\ home = cwd
    /\ moves = 0
    /\ disturbed = {}

-----------------------------------------------------------------------------
Quiet == \A t \in Thread : thread[t].stage = "idle"

Goto(t, stage) == thread' = [thread EXCEPT ![t].stage = stage]

\* Another thread writes savedpath: what is read of it, or stays in it, may be of two
\* paths, which together may be that of any directory.  (The race may also end the
\* process, after which nothing happens.)
Racing(t) == \E u \in Thread \ {t} : thread[u].stage \in {"save", "clear"}

Mixed(t, path) == IF Racing(t) THEN Saved ELSE {path}

Use(t) == disturbed' = disturbed \cup (IF Racing(t) THEN {"race"} ELSE {})

Disturb(t, read) ==
    disturbed' = disturbed \cup (IF \E u \in Thread \ {t} : thread[u].stage # "idle"
                                 THEN {"overlap"} ELSE {})
                           \cup (IF read = Empty THEN {"unread"} ELSE {})

\* Wrong: the directory is read after it was changed.
StartSwapped(t) ==
    /\ thread[t].stage = "idle"
    /\ InstallLocation # Empty
    /\ cwd' = Entered(InstallLocation)
    /\ thread' = [thread EXCEPT ![t] = [stage |-> "save", curdir |-> cwd']]
    /\ Disturb(t, cwd')
    /\ UNCHANGED <<registry, savedpath, from, home, moves>>

\* Wrong: of a path that is too long the beginning is taken.
StartTruncated(t) ==
    /\ thread[t].stage = "idle"
    /\ InstallLocation # Empty
    /\ LET read == IF cwd \in LongDir THEN CHOOSE d \in Dir \ (LongDir \cup {InstallLocation}) : TRUE
                   ELSE cwd
       IN  /\ thread' = [thread EXCEPT ![t] = [stage |-> "save", curdir |-> read]]
           /\ Disturb(t, IF cwd \in LongDir THEN Empty ELSE cwd)
    /\ UNCHANGED <<registry, cwd, savedpath, from, home, moves>>

\* dliNoteStartProcessing: GetCurrentDirectory() fails, or it says how long a buffer
\* it needs, which is no error, and leaves this one empty.
Start(t) ==
    /\ thread[t].stage = "idle"
    /\ InstallLocation # Empty
    /\ \E read \in {Empty} \cup ({cwd} \ LongDir) :
        /\ thread' = [thread EXCEPT ![t] = [stage |-> "save", curdir |-> read]]
        /\ Disturb(t, read)
    /\ UNCHANGED <<registry, cwd, savedpath, from, home, moves>>

StartNowhere(t) ==
    /\ thread[t].stage = "idle"
    /\ InstallLocation = Empty
    /\ Goto(t, "loading")
    /\ Disturb(t, cwd)
    /\ UNCHANGED <<registry, cwd, savedpath, from, home, moves>>

\* savedpath = curdir, or savedpath.clear(); curdir is gone.
Save(t) ==
    /\ thread[t].stage = "save"
    /\ savedpath' \in Mixed(t, thread[t].curdir)
    /\ thread' = [thread EXCEPT ![t] = [stage |-> "enter", curdir |-> Empty]]
    /\ Use(t)
    /\ UNCHANGED <<registry, cwd, from, home, moves>>

\* Wrong: not without a path to go back to.
EnterIfSaved(t) ==
    /\ thread[t].stage = "enter"
    /\ cwd' = IF savedpath # Empty THEN Entered(InstallLocation) ELSE cwd
    /\ Goto(t, "loading")
    /\ UNCHANGED <<registry, savedpath, from, home, moves, disturbed>>

\* SetCurrentDirectory(installLocation)
Enter(t) ==
    /\ thread[t].stage = "enter"
    /\ cwd' = Entered(InstallLocation)
    /\ Goto(t, "loading")
    /\ UNCHANGED <<registry, savedpath, from, home, moves, disturbed>>

\* The loader looks for the library.  If it fails the hook has it take this library
\* instead, and for a function that is missing one that throws: the load ends.
Load(t) ==
    /\ thread[t].stage = "loading"
    /\ from' = [from EXCEPT ![t] = cwd]
    /\ Goto(t, "check")
    /\ UNCHANGED <<registry, cwd, savedpath, home, moves, disturbed>>

\* dliNoteEndProcessing: if(!savedpath.empty())
Check(t) ==
    /\ thread[t].stage = "check"
    /\ \E path \in Mixed(t, savedpath) : Goto(t, IF path = Empty THEN "idle" ELSE "restore")
    /\ from' = [from EXCEPT ![t] = None]
    /\ Use(t)
    /\ UNCHANGED <<registry, cwd, savedpath, home, moves>>

Restore(t) ==
    /\ thread[t].stage = "restore"
    /\ \E path \in Mixed(t, savedpath) : cwd' = Entered(path)
    /\ Goto(t, "clear")
    /\ Use(t)
    /\ UNCHANGED <<registry, savedpath, from, home, moves>>

Clear(t) ==
    /\ thread[t].stage = "clear"
    /\ savedpath' \in Mixed(t, Empty)
    /\ Goto(t, "idle")
    /\ Use(t)
    /\ UNCHANGED <<registry, cwd, from, home, moves>>

\* The application changes its directory itself, in any thread.
Move ==
    /\ moves < MaxMoves
    /\ moves' = moves + 1
    /\ home' \in Dir
    /\ cwd' = home'
    /\ disturbed' = IF Quiet THEN {} ELSE disturbed \cup {"moved"}
    /\ UNCHANGED <<registry, savedpath, thread, from>>

Next ==
    \/ \E t \in Thread :
        \/ Start(t) \/ StartNowhere(t) \/ Save(t) \/ Enter(t) \/ Load(t)
        \/ Check(t) \/ Restore(t) \/ Clear(t)
    \/ Move

Spec == Init /\ [][Next]_vars

-----------------------------------------------------------------------------
(* Properties.                                                             *)

TypeOK ==
    /\ registry \in [1..Keys -> Paths \cup {None}]
    /\ cwd \in Dir /\ home \in Dir
    /\ savedpath \in Saved
    /\ thread \in [Thread -> [stage : Stages, curdir : Dir \cup {Empty}]]
    /\ from \in [Thread -> Dir \cup {None}]
    /\ moves \in Nat
    /\ disturbed \subseteq {"overlap", "unread", "moved", "race"}

\* After a load the application is where it was, unless loads of two threads have
\* overlapped, the directory could not be read (its path may be too long), or the
\* application has moved under a load: then it is left somewhere else, and nobody
\* says so.
CwdRestored == Quiet /\ disturbed = {} => cwd = home

\* The library is looked for in the place of installation, if that is a directory, even
\* if the current one cannot be read; a load of another thread that ends meanwhile
\* takes it away.
LoadsFromInstall ==
    \A t \in Thread :
        thread[t].stage = "check" /\ disturbed \cap {"overlap", "moved"} = {} =>
            from[t] = (IF InstallLocation \in Dir THEN InstallLocation ELSE home)

\* Loads that overlap, but of which none uses savedpath while another writes it, leave
\* the application in its directory or in that of the installation, if it does not move
\* under a load: what is restored was read before a load, though perhaps not before
\* this one.  After a data race it may be in a third one.
LeftAtHomeOrInstall ==
    Quiet /\ disturbed \cap {"moved", "race"} = {} => cwd \in {home, InstallLocation}
=============================================================================
