--------------------------- MODULE KeyboardActions ---------------------------
(***************************************************************************)
(* Session::push(KeyboardAction) on a local and on a remote session: the   *)
(* local one calls the lib3270 function at the action's place in a table   *)
(* (src/src/session/local/actions.cc), the remote one looks the action's   *)
(* name up in another table (ActionNames), finds the lib3270 action of     *)
(* that name (src/src/core/actions.cc) and activates it.                   *)
(***************************************************************************)
EXTENDS ActionNames

\* The actions lib3270 knows by name.
Known == {KeyboardAction[i] : i \in 1..Len(KeyboardAction)}

\* ActionFactory(name)->activate(), or "Invalid action name".
Activated(name) == IF name \in Known THEN name ELSE "exception"

VARIABLES
    key,        \* the last KeyboardAction pushed, 0 before the first
    performed   \* what the terminal did for it, "exception" if push threw

vars == <<key, performed>>

Init == key = 0 /\ performed = "nothing"

PushLocal(k) ==
    /\ key' = k
    /\ performed' = KeyboardAction[k]

PushRemote(k) ==
    /\ key' = k
    /\ \E name \in toCharString(k) : performed' = Activated(name)

Next == \E k \in 1..Len(KeyboardAction) : PushLocal(k) \/ PushRemote(k)

Spec == Init /\ [][Next]_vars

\* Pushing a keyboard action performs that action, on every kind of session:
\* FIELD_NEXT is documented to "Jump to the next field".
PerformsItsAction == key /= 0 => performed = KeyboardAction[key]
=============================================================================
