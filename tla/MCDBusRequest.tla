--------------------------- MODULE MCDBusRequest ---------------------------
(* Instance of DBusRequest for TLC: which threads, how many calls. *)
EXTENDS DBusRequest

CONSTANTS t1, t2
=============================================================================
