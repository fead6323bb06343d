------------------------------ MODULE MCJsClient ------------------------------
(* JsClient with pages that do different things. *)
EXTENDS JsClient

CONSTANTS c1, c2, h1, h2, l1, e1, e2

\* A caller: does it pass content, and has its method a guard?
Caller(content, guard) == [content |-> content, guard |-> guard]

Event(class, type, body) == Message(
  IF type = None THEN [Class |-> class] ELSE [Class |-> class, Type |-> type], body)
JsonEvent(class, e) == Event(class, ContentTypes.json, marshal(ContentTypes.json, e))
Malformed == [is |-> "malformed", headers |-> <<>>, body |-> EmptyBlob]
Text == [is |-> "string", headers |-> <<>>, body |-> EmptyBlob]

Idle == [socket |-> "options", callers |-> <<>>, encoder |-> ContentTypes.json,
         replies |-> {"echo"}, frames |-> {},
         handlers |-> <<>>, decoder |-> [is |-> "ContentType", name |-> ContentTypes.json],
         logged |-> FALSE, acts |-> <<>>, listeners |-> <<>>, adds |-> 0,
         drops |-> 1, closes |-> TRUE]

\* Two calls that race each other.
Calling == [Idle EXCEPT
  !.callers = [c \in {c1, c2} |-> Caller(TRUE, c = c1)],
  !.replies = {"echo", "error"}]

\* A call through a logger, answered in every way, among frames that mean nothing.
Logging == [Idle EXCEPT
  !.callers = [c \in {c1} |-> Caller(TRUE, FALSE)],
  !.replies = {"echo", "error", "blank", "empty", "garbage"},
  !.frames = {Malformed, Message(<<>>, EmptyBlob)},
  !.logged = TRUE]

Named(name, prefix, guard, throws) ==
  [is |-> "named", name |-> name, source |-> [prefix |-> prefix, guard |-> guard], throws |-> throws]

\* A call and events, whose handlers come and go.
Subscribing == [Idle EXCEPT
  !.callers = [c \in {c1} |-> Caller(FALSE, FALSE)],
  !.drops = 0, !.closes = FALSE,
  !.frames = {JsonEvent("add", e1), JsonEvent("leave", e2)},
  !.handlers = [h \in {h1, h2} |->
    IF h = h1 THEN Named("onAdd", "add", {e1}, FALSE)
              ELSE [is |-> "RegExp", classes |-> {"add", "leave"}, throws |-> FALSE]]]

\* Events that cannot be decoded, or that a guard or a handler refuses.
Failing == [Subscribing EXCEPT
  !.frames = {JsonEvent("leave", e1), Event("other", None, EmptyBlob)},
  !.handlers = [h \in {h1, h2} |->
    IF h = h1 THEN Named("leave", None, {e2}, FALSE) ELSE [is |-> "string", name |-> "other", throws |-> TRUE]],
  !.decoder = [is |-> "source"]]

\* A listener for close that is added, perhaps twice, and removed.
Listening == [Idle EXCEPT !.acts = [l \in {l1} |-> "listens"], !.adds = 2]

\* One that closes the socket or throws, before or after that of the connection.
Meddling(act, listeners) == [Idle EXCEPT
  !.callers = [c \in {c1} |-> Caller(TRUE, FALSE)],
  !.acts = [l \in {l1} |-> act],
  !.listeners = listeners, !.adds = IF listeners = <<>> THEN 1 ELSE 0]

\* A WebSocket of the page's own, binary content, and events that are not decoded.
Plain == [Idle EXCEPT
  !.socket = "WebSocket",
  !.callers = [c \in {c1} |-> Caller(TRUE, FALSE)], !.encoder = ContentTypes.binary,
  !.frames = {JsonEvent("add", e1), Text},
  !.handlers = [h \in {h1} |-> [is |-> "function", classes |-> {"add"}, throws |-> FALSE]],
  !.decoder = [is |-> "function"]]

MCPages == {Calling, Plain, Logging, Subscribing, Failing, Listening} \cup
  {Meddling(act, s) : act \in {"closes", "throws"}, s \in {<<>>, <<Registration(l1, FALSE, FALSE)>>}}
=============================================================================
