------------------------------ MODULE MCRubyRpc -------------------------------
EXTENDS RubyRpc
=============================================================================
