----------------------------- MODULE MCRpcClient -----------------------------
(* RpcClient on a small instance: two callers, and two event handlers that call, *)
(* one of them without a deadline.                                              *)
EXTENDS RpcClient

CONSTANTS c1, c2, h1, h2
=============================================================================
