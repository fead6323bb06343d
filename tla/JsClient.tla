------------------------------ MODULE JsClient --------------------------------
(***************************************************************************)
(* The JavaScript client: a connection on the reconnecting web socket      *)
(* (createWebSocketConn, with its Exchange of promises), perhaps wrapped   *)
(* in a logger (createRpcLogger), the RPC client on that (RpcReactor and   *)
(* RpcMethods), and the dispatcher that it gives events to.                *)
(*                                                                         *)
(* Each caller makes one call, with itself for content.  The server        *)
(* answers requests and sends the frames of page.frames, each once.        *)
(***************************************************************************)
EXTENDS JsDispatcher

VARIABLES
  call,             \* caller -> where its call is
  write,            \* caller -> where the conn.write of its request is
  nextId,           \* createRpcMessage
  calls,            \* RpcReactor's calls: the caller of an ID
  run,              \* where RpcReactor's run is
  exchange,         \* the exchange of the connection
  closed,           \* createWebSocketConn's closed
  parsing,          \* the frames whose blobs are being parsed
  received,         \* the requests that the server has got on this connection
  inbox,            \* the frames that the server has sent on this connection
  events,           \* the frames of page.frames that were sent
  replied,          \* caller -> the kind of reply that the server has sent
  lost,             \* callers whose request or reply was on a connection that went down
  given, taken,     \* what was given to the exchange, and what run has got of it
  dispatched        \* the events that run has got, with the handler chosen for each

callVars == <<call, write, nextId, calls>>
readVars == <<run, exchange, closed, parsing, given, taken, dispatched>>
serverVars == <<received, inbox, events, replied, lost>>
vars == <<socketVars, routeVars, callVars, readVars, serverVars>>

Callers == UNION {DOMAIN p.callers : p \in Pages}
Ids == 1 .. Cardinality(Callers)

\* The kinds of replies that a server can make.
Kinds == {"echo", "error", "blank", "empty", "garbage"}

\* No frame that the server sends of its own accord is taken for a response.
ASSUME ClientConstants ==
  /\ IsFiniteSet(Callers)
  /\ None \notin {"", "failed", "none"} \cup {ContentTypes.json, ContentTypes.binary}
  /\ \A p \in Pages :
       /\ p.encoder \in {ContentTypes.json, ContentTypes.binary}
       /\ p.replies \subseteq Kinds
       /\ \A frame \in p.frames : ~isRpcMessage(frame)

Init ==
  /\ SocketInit /\ DispatcherInit
  /\ call = [c \in Callers |-> [at |-> "none"]]
  /\ write = [c \in Callers |-> [at |-> "none"]]
  /\ nextId = 0
  /\ calls = [i \in Ids |-> None]
  /\ run = [at |-> "read"]
  /\ exchange = [side |-> FALSE, buffer |-> <<>>]
  /\ closed = FALSE
  /\ parsing = {}
  /\ received = {} /\ inbox = <<>> /\ events = {}
  /\ replied = [c \in Callers |-> "none"] /\ lost = {}
  /\ given = <<>> /\ taken = <<>> /\ dispatched = <<>>

-----------------------------------------------------------------------------
(* newExchange: one buffer, of the triplets of whichever side is ahead.    *)
(* taking is TRUE for take and FALSE for give.  A triplet in the buffer is *)
(* the message that it was resolved with, or None.                         *)

Ahead(taking) == exchange.buffer # <<>> /\ exchange.side = taking
\* buffer.pop() in place of buffer.shift().
Popped == [exchange EXCEPT !.buffer = SubSeq(@, 1, Len(@) - 1)]
Shifted == [exchange EXCEPT !.buffer = Tail(@)]
\* side is not set.
PushedSameSide(taking, triplet) == [exchange EXCEPT !.buffer = Append(@, triplet)]
Pushed(taking, triplet) ==
  [side |-> ~taking, buffer |-> Append(exchange.buffer, triplet)]
\* exchange.taken(): the triplets of the reads that wait.
Waiting == IF exchange.side THEN <<>> ELSE exchange.buffer

-----------------------------------------------------------------------------
(* PersistentWebSocket, with the connection's listener for close *)

\* A connection that is going down takes everything on it along.
Lose ==
  IF ~(ws = "open" /\ ws' = "closing") THEN UNCHANGED <<received, inbox, lost>>
  ELSE /\ received' = {} /\ inbox' = <<>>
       /\ lost' = lost \cup {r.from : r \in received} \cup
            {c \in Callers : call[c].at = "waiting" /\ \E i \in DOMAIN inbox :
               isRpcMessage(inbox[i]) /\ messageID(inbox[i]) = messageID(call[c].request)}

Socket ==
  /\ connect \/ onopen \/ CloseSocket \/ PlainOpens
  /\ Lose
  /\ UNCHANGED <<routeVars, callVars, readVars, events, replied>>

\* The connection's listener forgets the read that waits.
CloseConnOnly ==
  /\ closed' = TRUE
  /\ UNCHANGED run

\* The connection's listener: a read that waits is rejected, and run with it.
CloseConn ==
  /\ closed' = TRUE
  /\ run' = IF run.at = "taking" /\ Waiting # <<>> THEN [at |-> "ended"] ELSE run

SocketCloses ==
  /\ \/ onclose /\ IF ConnHears THEN CloseConn ELSE UNCHANGED <<closed, run>>
     \/ PlainCloses /\ CloseConn
  /\ UNCHANGED <<routeVars, callVars, exchange, parsing, given, taken, dispatched, serverVars>>

-----------------------------------------------------------------------------
(* RpcReactor's call, the logger, the writer, and send *)

\* The writer makes a blob of the request, and an array buffer of the blob.
WriteBlob(c) == [write EXCEPT ![c] = [at |-> "blob"]]
\* The logger writes once it has decoded and logged the request.
Written(c) == IF page.logged THEN [write EXCEPT ![c] = [at |-> "logging"]] ELSE WriteBlob(c)

\* createRpcRequestMessage is called: content may have to be marshalled first.
Call(c) ==
  /\ c \in DOMAIN page.callers
  /\ call[c].at = "none"
  /\ call' = [call EXCEPT ![c] = [at |-> "encoding"]]
  /\ UNCHANGED <<socketVars, routeVars, write, nextId, calls, readVars, serverVars>>

Arguments(c) ==
  IF page.callers[c].content THEN <<[is |-> "ContentType", name |-> page.encoder], c>> ELSE <<>>

\* The triplet is registered under this ID, and conn.write is called.
Registered(c, id) ==
  /\ call' = [call EXCEPT ![c] =
       [at |-> "waiting", request |-> createRpcRequestMessage("call", Arguments(c), id)]]
  /\ calls' = [calls EXCEPT ![id] = c]
  /\ write' = Written(c)

\* The ID is that of the last call to be encoded, if there is one.
EncodedStale(c) ==
  /\ call[c].at = "encoding"
  /\ nextId' = nextId + 1
  /\ Registered(c, IF nextId = 0 THEN 1 ELSE nextId)
  /\ UNCHANGED <<socketVars, routeVars, readVars, serverVars>>

Encoded(c) ==
  /\ call[c].at = "encoding"
  /\ nextId' = nextId + 1
  /\ Registered(c, nextId + 1)
  /\ UNCHANGED <<socketVars, routeVars, readVars, serverVars>>

WriteLogged(c) ==
  /\ write[c].at = "logging"
  /\ write' = WriteBlob(c)
  /\ UNCHANGED <<socketVars, routeVars, call, nextId, calls, readVars, serverVars>>

\* The request is on an open socket, or else the data is dropped.
Sent(c, open) ==
  IF open THEN received' = received \cup {[from |-> c, request |-> call[c].request]} /\ UNCHANGED lost
          ELSE lost' = lost \cup {c} /\ UNCHANGED received

\* The blob is an array buffer.  A WebSocket that connects refuses it.
PlainSend(c) ==
  /\ write[c].at = "blob" /\ isPartialWebSocket
  /\ \/ /\ ws = "connecting"
        /\ write' = [write EXCEPT ![c] = [at |-> "refused"]]
        /\ UNCHANGED <<received, lost>>
     \/ /\ ws # "connecting"
        /\ write' = [write EXCEPT ![c] = [at |-> "sent"]]
        /\ Sent(c, ws = "open")
  /\ UNCHANGED <<socketVars, routeVars, call, nextId, calls, readVars, inbox, events, replied>>

\* PersistentWebSocket's send refuses it, or awaits the current promise.
Send(c) ==
  /\ write[c].at = "blob" /\ ~isPartialWebSocket
  /\ write' = [write EXCEPT ![c] =
       IF readyState = "CLOSED" THEN [at |-> "refused"]
                                ELSE [at |-> "await", promise |-> Len(promises)]]
  /\ UNCHANGED <<socketVars, routeVars, call, nextId, calls, readVars, serverVars>>

\* The promise is settled.  A socket that is not open any more drops the data.
SendResumes(c) ==
  /\ write[c].at = "await"
  /\ \E promise \in {promises[write[c].promise]} :
       /\ promise # Pending
       /\ write' = [write EXCEPT ![c] = [at |-> IF promise = Rejected THEN "refused" ELSE "sent"]]
       /\ IF promise = Rejected THEN UNCHANGED <<received, lost>>
          ELSE Sent(c, promise = Resolved(sockets) /\ ws = "open")
  /\ UNCHANGED <<socketVars, routeVars, call, nextId, calls, readVars, inbox, events, replied>>

\* What the call does with its response.
Result(response) ==
  IF messageError(response) # None THEN Thrown
  ELSE IF hasType(response) THEN decode(response) ELSE Value(None)

\* createRpcMethods: a method with a guard checks the result.
Guarded(c, result) ==
  IF result.is = "value" /\ page.callers[c].guard /\ result.of # c THEN Thrown ELSE result

CallResumes(c) ==
  /\ call[c].at = "resolved"
  /\ call' = [call EXCEPT ![c] = [at |-> "settled", result |-> Guarded(c, Result(@.response))]]
  /\ UNCHANGED <<socketVars, routeVars, write, nextId, calls, readVars, serverVars>>

-----------------------------------------------------------------------------
(* The server, on the other end of the connection *)

\* A reply: the request's content, an error, one without words, nothing, or garbage.
Reply(kind, request) ==
  LET id == [ID |-> messageID(request)]
  IN  CASE kind = "echo" -> Message(
             IF hasType(request) THEN With(id, "Type", request.headers["Type"]) ELSE id, request.body)
        [] kind = "error" -> Message(With(id, "Error", "failed"), EmptyBlob)
        [] kind = "blank" -> Message(With(id, "Error", ""), EmptyBlob)
        [] kind = "empty" -> Message(With(id, "Type", ""), EmptyBlob)
        [] kind = "garbage" -> Message(With(id, "Type", ContentTypes.json), EmptyBlob)

Respond ==
  \E r \in received, kind \in page.replies :
    /\ received' = received \ {r}
    /\ inbox' = Append(inbox, Reply(kind, r.request))
    /\ replied' = [replied EXCEPT ![r.from] = kind]
    /\ UNCHANGED <<socketVars, routeVars, callVars, readVars, events, lost>>

SendFrame ==
  /\ ws = "open"
  /\ \E frame \in page.frames \ events :
       /\ events' = events \cup {frame}
       /\ inbox' = Append(inbox, frame)
  /\ UNCHANGED <<socketVars, routeVars, callVars, readVars, received, replied, lost>>

ConnectionDrops ==
  /\ Drop
  /\ Lose
  /\ UNCHANGED <<routeVars, callVars, readVars, events, replied>>
-----------------------------------------------------------------------------
(* createWebSocketConn's listener for messages, and RpcReactor's run *)

\* The listener refuses what is not a Blob, and awaits the parser; blobs may be parsed
\* in any order.
onmessage ==
  /\ ws = "open" /\ inbox # <<>>
  /\ inbox' = Tail(inbox)
  /\ parsing' = IF Head(inbox).is = "string" THEN parsing ELSE parsing \cup {Head(inbox)}
  /\ UNCHANGED <<socketVars, routeVars, callVars, run, exchange, closed, given, taken, dispatched,
                 received, events, replied, lost>>

\* A response resolves its call, if there is one; the first route for an event is chosen
\* and its content decoded; anything else is ignored.
Handle(m) ==
  LET answered == isRpcMessage(m) /\ calls[messageID(m)] # None
      event == ~isRpcMessage(m) /\ isRpcEventMessage(m)
      route == RouteOf(m)
  IN  /\ run' = IF event /\ route # None
                THEN [at |-> "decoding", message |-> m, handler |-> route] ELSE [at |-> "read"]
      /\ IF answered
         THEN /\ call' = [call EXCEPT ![calls[messageID(m)]] = [at |-> "resolved", response |-> m]]
              /\ calls' = [calls EXCEPT ![messageID(m)] = None]
         ELSE UNCHANGED <<call, calls>>
      /\ dispatched' = IF ~event THEN dispatched ELSE Append(dispatched,
           [event |-> m, handler |-> route,
            wanted |-> {h \in Handlers : subscription[h] = "on" /\ Matches(Matcher(h), m)}])

\* conn.read returns the message to run, or to the logger.
Take(m) ==
  /\ taken' = Append(taken, m)
  /\ IF page.logged
     THEN /\ run' = [at |-> "logging", message |-> m]
          /\ UNCHANGED <<call, calls, dispatched>>
     ELSE Handle(m)

ReadLogged ==
  /\ run.at = "logging"
  /\ Handle(run.message)
  /\ UNCHANGED <<socketVars, routeVars, write, nextId, exchange, closed, parsing, given, taken, serverVars>>

\* The parser fails, and the message is gone; or it is given to the read that waits, which
\* a close may have rejected, or to the buffer.
Parsed(m) ==
  /\ m \in parsing
  /\ parsing' = parsing \ {m}
  /\ \/ /\ m.is = "malformed"
        /\ UNCHANGED <<run, exchange, given, taken, dispatched, call, calls>>
     \/ /\ m.is = "Message" /\ Ahead(FALSE)
        /\ given' = Append(given, m)
        /\ exchange' = Shifted
        /\ IF run.at = "taking" THEN Take(m) ELSE UNCHANGED <<run, call, calls, taken, dispatched>>
     \/ /\ m.is = "Message" /\ ~Ahead(FALSE)
        /\ given' = Append(given, m)
        /\ exchange' = Pushed(FALSE, m)
        /\ UNCHANGED <<run, taken, dispatched, call, calls>>
  /\ UNCHANGED <<socketVars, routeVars, write, nextId, closed, serverVars>>

\* run calls conn.read.
Read ==
  /\ run.at = "read"
  /\ \/ /\ closed
        /\ run' = [at |-> "ended"]
        /\ UNCHANGED <<exchange, call, calls, taken, dispatched>>
     \/ /\ ~closed /\ Ahead(TRUE)
        /\ exchange' = Shifted
        /\ Take(Head(exchange.buffer))
     \/ /\ ~closed /\ ~Ahead(TRUE)
        /\ exchange' = Pushed(TRUE, None)
        /\ run' = [at |-> "taking"]
        /\ UNCHANGED <<call, calls, taken, dispatched>>
  /\ UNCHANGED <<socketVars, routeVars, write, nextId, closed, parsing, given, serverVars>>

\* The event is decoded and its handler called.  What throws ends run.
Dispatched ==
  LET decoded == Decoder(run.message)
  IN  /\ run.at = "decoding"
      /\ run' = IF decoded.is = "value" /\ HandlerReturns(run.handler, decoded.of)
                THEN [at |-> "read"] ELSE [at |-> "ended"]
      /\ UNCHANGED <<socketVars, routeVars, callVars, exchange, closed, parsing, given, taken,
                     dispatched, serverVars>>

-----------------------------------------------------------------------------
\* What the page does of its own accord.
Page ==
  \/ \E c \in Callers : Call(c)
  \/ /\ \E h \in Handlers : handle(h) \/ unsubscribe(h)
     /\ UNCHANGED <<socketVars, callVars, readVars, serverVars>>
  \/ /\ close \/ PlainClose \/ Listen \/ Unlisten
     /\ Lose
     /\ UNCHANGED <<routeVars, callVars, readVars, events, replied>>

EventLoop ==
  \/ Socket \/ SocketCloses
  \/ \E c \in Callers :
       Encoded(c) \/ WriteLogged(c) \/ PlainSend(c) \/ Send(c) \/ SendResumes(c) \/ CallResumes(c)
  \/ onmessage \/ (\E m \in parsing : Parsed(m)) \/ Read \/ ReadLogged \/ Dispatched

Next == EventLoop \/ Page \/ Respond \/ SendFrame \/ ConnectionDrops

\* The event loop runs every callback that is due: a connection opens, fails or times
\* out, and handlers settle.  The server answers what it has received.
Spec == Init /\ [][Next]_vars /\ WF_vars(EventLoop \/ Respond)

-----------------------------------------------------------------------------
\* Every write settles, whatever becomes of the connection: its send is refused, or the
\* promise that it waits for is resolved or rejected (maxRetries of PersistentWebSocket, if
\* it is finite, and the timeout of connect), unless a listener of the page has thrown.
WritesSettle ==
  []<>(\A c \in Callers : write[c].at \in {"none", "sent", "refused"} \/ threw)

\* After close is called on an open socket, run ends: the read that waits is rejected,
\* or the next one is (createWebSocketConn's listener for close), and no new connection
\* keeps it alive.  Only a listener that throws can keep the connection's from being
\* called.
CloseEndsRun == []<>(asked => run.at = "ended" \/ threw)

\* The value that a caller gets when its request is answered so.
Echoed(c, kind) ==
  IF kind = "echo" /\ page.callers[c].content
  THEN IF page.encoder = ContentTypes.json THEN c ELSE marshal(page.encoder, c)
  ELSE None

\* What the server made of a caller's own request.
OwnResult(c) ==
  LET value == Echoed(c, replied[c])
  IN  IF replied[c] \in {"echo", "empty"} /\ (page.callers[c].guard => value = c)
      THEN Value(value) ELSE Thrown

\* A call settles with what the server made of its own request: its content, the
\* server's error, even one without words, or an error if the reply cannot be decoded or
\* the method's guard refuses it (call in RpcReactor, createRpcMethods); IDs are drawn
\* after an await, and frames are parsed in any order.
CallGetsOwnResult ==
  \A c \in Callers : call[c].at = "settled" => call[c].result = OwnResult(c)

\* A call whose request was sent settles, unless its request or its response was on a
\* connection that went down, or run has ended: by closing, or by an event that could not
\* be decoded or handled.  Frames that are not messages and events nobody handles are no
\* obstacle.
CallsSettle ==
  []<>(\A c \in Callers :
         write[c].at = "sent" => call[c].at = "settled" \/ c \in lost \/ run.at = "ended")

\* run gets the messages in the order in which they were given to the exchange, each
\* once, whether reads or messages are ahead (newExchange's one buffer for both).
TakenInOrder == Len(taken) <= Len(given) /\ taken = SubSeq(given, 1, Len(taken))

\* An event goes to a handler whose subscription to it is on, and to nobody only when
\* there is none: routes that come and go while others are dispatched do not disturb it
\* (dispatch and handle of createDecodingDispatcher), unless the page calls an
\* unsubscribe function twice, which takes somebody else's route.
MissedOnlyIfTwice ==
  (\A h \in Handlers : subscription[h] # "twice") =>
    \A i \in DOMAIN dispatched :
      IF dispatched[i].wanted = {} THEN dispatched[i].handler = None
                                  ELSE dispatched[i].handler \in dispatched[i].wanted
=============================================================================
