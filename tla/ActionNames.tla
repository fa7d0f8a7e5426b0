----------------------------- MODULE ActionNames -----------------------------
(***************************************************************************)
(* The names under which a remote session asks for the keyboard actions:   *)
(* toCharString() (src/src/core/constants.cc), for an enumerator of        *)
(* KeyboardAction (src/src/include/lib3270/ipc.h).                         *)
(***************************************************************************)
EXTENDS Naturals, Sequences

\* The enumerators of KeyboardAction, in order, by the lib3270 action each is
\* documented to perform.
KeyboardAction ==
    <<"enter", "erase", "eraseeof", "eraseeol", "eraseinput", "kybdreset", "newline",
      "clear", "select_field", "select_all", "unselect", "reselect", "delete", "dup",
      "fieldmark", "backspace", "previousword", "nextword", "fieldend", "firstfield",
      "nextfield", "previousfield", "attn", "break", "deleteword", "deletefield",
      "sysreq", "kybdunlock">>

\* The literals of toCharString's table, with a comma after each of them.
Literals == KeyboardAction

\* There is none after the fifth: the compiler joins it with the sixth.
Joined == 5

actions ==
    [i \in 1..(Len(Literals) - 1) |->
        CASE i < Joined -> Literals[i]
          [] i = Joined -> Literals[i] \o Literals[i + 1]
          [] i > Joined -> Literals[i + 1]]

\* What toCharString(action) may return.  Its check lets the index one behind
\* the table through; what is read there is anything.
toCharString(k) ==
    CASE k - 1 > Len(actions) -> {"EINVAL"}
      [] k - 1 = Len(actions) -> {"garbage"}
      [] k - 1 < Len(actions) -> {actions[k]}
=============================================================================
