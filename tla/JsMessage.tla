------------------------------ MODULE JsMessage -------------------------------
(***************************************************************************)
(* Messages in JavaScript: what tells the kinds of messages apart, how     *)
(* they are built and how their content is encoded and decoded.            *)
(*                                                                         *)
(* A message has headers, a function from some of Header to values, and a  *)
(* body: a format and the value that was encoded in it.  A function of     *)
(* JavaScript that may throw yields Value(v), or Thrown.                   *)
(***************************************************************************)
EXTENDS Integers, Sequences

CONSTANT None   \* no value: undefined

Header == {"ID", "Type", "Class", "Error", "Length"}

Value(v) == [is |-> "value", of |-> v]
Thrown == [is |-> "thrown", of |-> None]

With(headers, h, v) ==
  [k \in DOMAIN headers \cup {h} |-> IF k = h THEN v ELSE headers[k]]

EmptyBlob == [format |-> "none", of |-> None]
size(body) == IF body.format = "none" THEN 0 ELSE 1

-----------------------------------------------------------------------------
(* Guards.  An object is a Message, headers, a Blob or a ContentType.      *)

isObj(x) == x.is \in {"Message", "headers", "Blob", "ContentType"}

\* The types of an object's own properties; a Blob has none.
OwnTypes(x) ==
  CASE x.is = "Message" -> {"object"} [] x.is = "headers" -> {"string"}
    [] x.is = "Blob" -> {} [] x.is = "ContentType" -> {"string", "object"}

isHeaders(x) == isObj(x) /\ OwnTypes(x) \subseteq {"string"}
isContentType(x) == isObj(x) /\ x.is = "ContentType"

isMessage(x) == isObj(x) /\ x.is = "Message"
isRpcHeaders(headers) == "ID" \in DOMAIN headers
isRpcEventHeaders(headers) == "Class" \in DOMAIN headers
isRpcMessage(x) == isMessage(x) /\ isRpcHeaders(x.headers)
isRpcEventMessage(x) == isMessage(x) /\ isRpcEventHeaders(x.headers)

messageHeader(m, h) == IF h \in DOMAIN m.headers THEN m.headers[h] ELSE None
messageID(m) == messageHeader(m, "ID")
messageClass(m) == messageHeader(m, "Class")
messageError(m) == messageHeader(m, "Error")
\* The header is there and not "".
hasType(m) == messageHeader(m, "Type") \notin {None, ""}

-----------------------------------------------------------------------------
(* Content types *)

ContentTypes == [json |-> "application/json", binary |-> "application/octet-stream"]

marshal(type, obj) ==
  [format |-> IF type = ContentTypes.json THEN "json" ELSE "bytes", of |-> obj]

unmarshal(type, blob) ==
  IF type = ContentTypes.binary THEN Value(blob)
  ELSE IF blob.format = "json" THEN Value(blob.of) ELSE Thrown

\* A decoder for some content types: it refuses others, and a message without one.
createDecoder(types, m) ==
  IF messageHeader(m, "Type") \in types THEN unmarshal(messageHeader(m, "Type"), m.body) ELSE Thrown
decode(m) == createDecoder({ContentTypes.json, ContentTypes.binary}, m)
nullDecoder(m) == Value(m)

-----------------------------------------------------------------------------
(* Builders.  The arguments are a sequence of objects and contents.        *)

Message(headers, body) == [is |-> "Message", headers |-> headers, body |-> body]

\* The content type, and its content if there is one.
WithContent(headers, type, contents) ==
  LET typed == With(headers, "Type", type)
      body == marshal(type, Head(contents))
  IN  IF contents = <<>> THEN Message(typed, EmptyBlob)
      ELSE Message(With(typed, "Length", size(body)), body)

createMessageBase(args) ==
  LET given == args # <<>> /\ isHeaders(Head(args))
      headers == IF given /\ Head(args).is = "headers" THEN Head(args).headers ELSE <<>>
      rest == IF given THEN Tail(args) ELSE args
  IN  IF rest # <<>> /\ Head(rest).is = "Blob" THEN Message(headers, Head(rest).body)
      ELSE IF rest # <<>> /\ isContentType(Head(rest))
           THEN WithContent(headers, Head(rest).name, Tail(rest))
           ELSE Message(headers, EmptyBlob)

\* nextId has been incremented to id.
createRpcMessageBase(args, id) ==
  LET message == createMessageBase(args)
  IN  [message EXCEPT !.headers = With(message.headers, "ID", id)]

createRpcRequestMessage(className, args, id) ==
  LET message == createRpcMessageBase(args, id)
  IN  [message EXCEPT !.headers = With(message.headers, "Class", className)]
=============================================================================
