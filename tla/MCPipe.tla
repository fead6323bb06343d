------------------------------- MODULE MCPipe --------------------------------
(* Pipe on small instances. *)
EXTENDS Pipe

CONSTANTS w1, w2, r1, r2, e1, e2, none
=============================================================================
