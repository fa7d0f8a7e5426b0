--------------------------- MODULE MCLocalSession ---------------------------
(* Instance of LocalSession for TLC: threads, sessions and their handles. *)
EXTENDS LocalSession, TLC

CONSTANTS t1, t2, s1, s2, h1, h2

\* Each session with a handle of its own.
MCOwnHandles == s1 :> h1 @@ s2 :> h2
=============================================================================
