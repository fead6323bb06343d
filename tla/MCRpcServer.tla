----------------------------- MODULE MCRpcServer -----------------------------
(* RpcServer on small instances. *)
EXTENDS RpcServer

CONSTANTS i1, i2, none, w1
=============================================================================
