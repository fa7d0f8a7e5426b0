--------------------------- MODULE MCPipeRequest ---------------------------
(* Instance of PipeRequest for TLC: which threads, how many bytes. *)
EXTENDS PipeRequest

CONSTANTS t1, t2
=============================================================================
