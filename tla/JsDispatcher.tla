----------------------------- MODULE JsDispatcher -----------------------------
(***************************************************************************)
(* The dispatcher of events in JavaScript: a list of routes that handle    *)
(* appends to and unsubscribing takes from, while an event that is         *)
(* dispatched may be waiting to be decoded.                                *)
(*                                                                         *)
(* A route is known by its handler, and page.handlers says how that was    *)
(* subscribed: by a matcher, which is a string, a RegExp or a function, or *)
(* through a named subscriber, which has a name and a source.  A source is *)
(* a guard, the set of values that it accepts, with or without a prefix.   *)
(***************************************************************************)
EXTENDS JsMessage, JsSocket

VARIABLES
  routes,       \* the handlers of the routes, in order
  subscription  \* handler -> "none", "on", "off", or "twice" if unsubscribed again

routeVars == <<routes, subscription>>

Handlers == UNION {DOMAIN p.handlers : p \in Pages}

DispatcherInit ==
  /\ routes = <<>>
  /\ subscription = [h \in Handlers |-> "none"]

-----------------------------------------------------------------------------
(* Matchers, guards and decoders *)

splitPrefix(defaultPrefix, pair) ==
  IF pair.prefix = None THEN <<defaultPrefix, pair.guard>> ELSE <<pair.prefix, pair.guard>>

\* createDecodingEventDispatcher's handle; a RegExp or a function is the classes it matches.
Matches(matcher, m) ==
  IF matcher.is = "string" THEN messageClass(m) = matcher.name ELSE messageClass(m) \in matcher.classes

\* createNamedSubscribers: the matcher is made of the event's name.
Matcher(h) ==
  LET s == page.handlers[h]
  IN  IF s.is = "named" THEN [is |-> "string", name |-> splitPrefix(s.name, s.source)[1]] ELSE s

\* Does the handler return?  A named one checks the event's type; any may throw.
HandlerReturns(h, obj) ==
  LET s == page.handlers[h]
  IN  /\ s.is = "named" => obj \in splitPrefix(s.name, s.source)[2]
      /\ ~s.throws

\* What createRpcEventDispatcher was given first: a decoder, a content type, or the
\* sources of its named subscribers, in which case it takes the content type for JSON.
Decoder(m) ==
  IF page.decoder.is = "function" THEN nullDecoder(m)
  ELSE createDecoder({IF page.decoder.is = "ContentType" THEN page.decoder.name
                                                         ELSE ContentTypes.json}, m)

-----------------------------------------------------------------------------
(* createDecodingDispatcher *)

Candidates(m) == {i \in DOMAIN routes : Matches(Matcher(routes[i]), m)}
\* The handler of the first route that matches.
RouteOf(m) == IF Candidates(m) = {} THEN None ELSE routes[Min(Candidates(m))]

handle(h) ==
  /\ h \in DOMAIN page.handlers
  /\ subscription[h] = "none"
  /\ subscription' = [subscription EXCEPT ![h] = "on"]
  /\ routes' = Append(routes, h)

\* 0 when the route is not there.
indexOf(h) ==
  LET found == {i \in DOMAIN routes : routes[i] = h} IN IF found = {} THEN 0 ELSE Min(found)

\* The route after the one that indexOf finds.
SplicedNext(n) == splice(routes, n + 1)

\* routes.splice(n, 1): n is 0 when indexOf finds nothing, and then the last route goes.
Spliced(n) == IF routes = <<>> THEN routes ELSE splice(routes, IF n = 0 THEN Len(routes) ELSE n)

\* The function that handle returned; the page may call it once too often.
unsubscribe(h) ==
  /\ subscription[h] \in {"on", "off"}
  /\ subscription' = [subscription EXCEPT ![h] = IF @ = "on" THEN "off" ELSE "twice"]
  /\ routes' = Spliced(indexOf(h))
=============================================================================
