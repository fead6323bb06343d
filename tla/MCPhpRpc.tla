------------------------------- MODULE MCPhpRpc -------------------------------
EXTENDS PhpRpc
=============================================================================
