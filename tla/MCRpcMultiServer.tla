-------------------------- MODULE MCRpcMultiServer ---------------------------
EXTENDS RpcMultiServer, TLC
CONSTANTS a, b, c
Symmetry == Permutations({a, b, c})
=============================================================================
