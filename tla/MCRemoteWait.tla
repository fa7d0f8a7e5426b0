---------------------------- MODULE MCRemoteWait ----------------------------
(* Instance of RemoteWait for TLC. *)
EXTENDS RemoteWait

CONSTANT t1
=============================================================================
