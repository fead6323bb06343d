------------------------------- MODULE MCWire --------------------------------
EXTENDS Wire

MCNames == {"Interop-Rpc-Id", "Interop-Error", "Content-Length", "content-length"}

H(name, value) == [name |-> name, value |-> value]
Raw(hs, b) == [headers |-> hs, body |-> b, how |-> "raw"]
Content(hs, b) == [headers |-> hs, body |-> b, how |-> "content"]

\* Framed by a length (one of a body that looks like a blank line), by a blank line, and
\* without a header; content with Content-Length missing, wrong and wrong twice; then a
\* body with no terminator, a length that is out of date and a header that is repeated.
MCMessages == {
  Raw(<<H("Interop-Rpc-Id", 1), H("content-length", 2)>>, <<CR, NL>>),
  Raw(<<H("Content-Length", 0)>>, <<>>),
  Raw(<<H("Interop-Rpc-Id", 1)>>, <<X, NL>>),
  Raw(<<H("Content-Length", Empty)>>, <<>>),
  Raw(<<>>, <<X, NL>>),
  Content(<<>>, <<X, NL>>),
  Content(<<H("content-length", 3), H("Interop-Rpc-Id", 1)>>, <<X>>),
  Content(<<H("Content-Length", 3), H("Content-Length", 0)>>, <<X>>),
  Raw(<<H("Interop-Rpc-Id", 1)>>, <<X>>),
  Raw(<<H("Content-Length", 1)>>, <<X, X>>),
  Raw(<<H("Interop-Error", 1), H("Interop-Error", 2)>>, <<>>)}
=============================================================================
