---------------------------- MODULE MCRpcSession -----------------------------
(* RpcSession on small instances. *)
EXTENDS RpcSession

CONSTANTS c1, c2, main
=============================================================================
