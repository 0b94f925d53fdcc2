------------------------------- MODULE MCPipe -------------------------------
(* Pipe on small instances. *)
EXTENDS Pipe
=============================================================================
