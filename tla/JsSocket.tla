------------------------------- MODULE JsSocket -------------------------------
(***************************************************************************)
(* The reconnecting web socket of JavaScript (PersistentWebSocket) and the *)
(* listeners for its close event (createConstrainedEventTarget).           *)
(*                                                                         *)
(* The event loop runs one callback, or one continuation of an await, at a *)
(* time: each is an action.  What the web page does with the library is    *)
(* chosen at the start: page.listeners were there before the connection's, *)
(* page.acts says what a listener does when called, page.closes whether    *)
(* the page may call close.  page.drops bounds the connections that are    *)
(* lost after they were open, page.adds the listeners added later.         *)
(* page.socket is what the connection was made of: options, or a WebSocket *)
(* of the page's own, which is used as it is.                              *)
(***************************************************************************)
EXTENDS Integers, Sequences, FiniteSetsExt

CONSTANTS
  Pages,
  Conn,         \* the listener of createWebSocketConn
  maxRetries    \* the option of createPersistentWebSocket

VARIABLES
  page,
  readyState, attempts,
  promises,         \* the promises for an open socket, oldest first; the last is the current
  ws, sockets,      \* the state of the latest WebSocket, and how many were created
  timer,            \* a setTimeout(connect) is pending
  closing,          \* promises with a pending then(ws => ws.close())
  stack,            \* listeners.close, as indices of registered
  registered,       \* every pair of a listener and options that was added
  drops,
  asked,            \* close was called on an open PersistentWebSocket
  shut,             \* close was called by a listener
  threw             \* a listener has thrown

wsVars == <<readyState, attempts, promises, ws, sockets, timer, closing, drops, asked>>
listenerVars == <<stack, registered, shut, threw>>
socketVars == <<page, wsVars, listenerVars>>

-----------------------------------------------------------------------------
(* createConstrainedEventTarget *)

Registration(listener, once, capture) ==
  [listener |-> listener, once |-> once, capture |-> capture, called |-> 0]

\* What a page can add to the stack.
Registrations(p) ==
  {Registration(l, once, capture) : l \in DOMAIN p.acts, once, capture \in BOOLEAN}

ASSUME SocketConstants ==
  /\ maxRetries \in Nat
  /\ \A p \in Pages : p.listeners \in Seq(Registrations(p))

addEventListener(listener, once, capture) ==
  /\ registered' = Append(registered, Registration(listener, once, capture))
  /\ stack' = Append(stack, Len(registered) + 1)

\* What splice(n, 1) leaves of an array; indices start at 1.
splice(s, n) == SubSeq(s, 1, n - 1) \o SubSeq(s, n + 1, Len(s))

\* The stack without its first pair of this listener and capture.
Without(s, listener, capture) ==
  LET equal == {i \in DOMAIN s : /\ registered[s[i]].listener = listener
                                /\ registered[s[i]].capture = capture}
  IN  IF equal = {} THEN s ELSE splice(s, Min(equal))

removeEventListener(listener, capture) == stack' = Without(stack, listener, capture)

Act(i) == IF registered[stack[i]].listener = Conn THEN "listen"
          ELSE page.acts[registered[stack[i]].listener]
Throwers == {i \in DOMAIN stack : Act(i) = "throws"}
\* The listeners that an event reaches: one that throws is the last.
Reached == {i \in DOMAIN stack : \A j \in Throwers : i <= j}
\* Those of them that close the socket; the page does so once.
Closers == {i \in Reached : Act(i) = "closes" /\ ~shut}
\* What is left of the stack when the first i listeners of an event have been called.
AfterCalls[i \in Nat] ==
  IF i = 0 THEN stack
  ELSE IF registered[stack[i]].once
       THEN Without(AfterCalls[i - 1], registered[stack[i]].listener, registered[stack[i]].capture)
       ELSE AfterCalls[i - 1]

\* A listener for one event stays on the stack.
dispatchEventKeeping ==
  /\ registered' = [n \in DOMAIN registered |->
       IF \E i \in Reached : stack[i] = n THEN [registered[n] EXCEPT !.called = @ + 1]
                                          ELSE registered[n]]
  /\ shut' = (shut \/ Closers # {})
  /\ threw' = (threw \/ Throwers # {})
  /\ UNCHANGED stack

dispatchEvent ==
  /\ registered' = [n \in DOMAIN registered |->
       IF \E i \in Reached : stack[i] = n THEN [registered[n] EXCEPT !.called = @ + 1]
                                          ELSE registered[n]]
  /\ stack' = AfterCalls[Cardinality(Reached)]
  /\ shut' = (shut \/ Closers # {})
  /\ threw' = (threw \/ Throwers # {})

\* The connection's listener is called, and finds the socket CLOSED.
ConnHears ==
  \E i \in Reached :
    /\ Act(i) = "listen"
    /\ readyState = "CLOSED" \/ (readyState = "OPEN" /\ \E j \in Closers : j < i)

-----------------------------------------------------------------------------
(* createPersistentWebSocket *)

isPartialWebSocket == page.socket = "WebSocket"

Pending == [state |-> "pending", ws |-> 0]
Rejected == [state |-> "rejected", ws |-> 0]
Resolved(n) == [state |-> "resolved", ws |-> n]
Current == promises[Len(promises)]
\* resolve and reject do nothing to a promise that is settled.
Settle(value) ==
  IF Current = Pending THEN [promises EXCEPT ![Len(promises)] = value] ELSE promises
\* A promise that is left pending.
RejectNothing == promises
Reject == Settle(Rejected)

SocketInit ==
  /\ page \in Pages
  /\ readyState = "CONNECTING" /\ attempts = 0
  /\ promises = <<Pending>>
  /\ ws = "connecting" /\ sockets = 1
  /\ timer = FALSE /\ closing = {}
  /\ registered = Append(page.listeners, Registration(Conn, FALSE, FALSE))
  /\ stack = [n \in 1 .. Len(page.listeners) + 1 |-> n]
  /\ drops = 0
  /\ asked = FALSE /\ shut = FALSE /\ threw = FALSE

\* connect, from its timer.
connect ==
  /\ timer
  /\ timer' = FALSE
  /\ ws' = "connecting" /\ sockets' = sockets + 1
  /\ UNCHANGED <<page, readyState, attempts, promises, closing, drops, asked, listenerVars>>

onopen ==
  /\ ws = "connecting" /\ ~isPartialWebSocket
  /\ ws' = "open"
  /\ attempts' = 0
  /\ readyState' = "OPEN"
  /\ promises' = Settle(Resolved(sockets))
  /\ UNCHANGED <<page, sockets, timer, closing, drops, asked, listenerVars>>

\* A connection is replaced while sends still wait for the promise of the last.
KeepPromise == promises
NewPromise == Append(promises, Pending)

\* An open connection is gone.  A listener that throws leaves the rest undone; one that
\* closes finds the new promise.
ClosedOpen ==
  /\ readyState = "OPEN"
  /\ promises' = NewPromise
  /\ dispatchEvent
  /\ closing' = IF Closers # {} THEN closing \cup {Len(promises')} ELSE closing
  /\ \/ /\ Throwers = {}
        /\ timer' = TRUE
        /\ readyState' = "CONNECTING"
     \/ /\ Throwers # {}
        /\ readyState' = IF Closers # {} THEN "CLOSED" ELSE "OPEN"
        /\ UNCHANGED timer
  /\ UNCHANGED attempts

ClosedForGood ==
  /\ readyState = "CLOSED"
  /\ dispatchEvent
  /\ promises' = IF Throwers = {} THEN Reject ELSE promises
  /\ UNCHANGED <<timer, readyState, attempts, closing>>

\* Connecting ended with an error, or with the timeout, which closes the socket.
ConnectFailed ==
  /\ readyState = "CONNECTING"
  /\ attempts' = attempts + 1
  /\ \/ /\ attempts = maxRetries
        /\ readyState' = "CLOSED"     \* close(), and no event
        /\ promises' = Reject
        /\ UNCHANGED timer
     \/ /\ attempts # maxRetries
        /\ timer' = TRUE
        /\ UNCHANGED <<readyState, promises>>
  /\ UNCHANGED <<closing, listenerVars>>

onclose ==
  /\ ws \in {"connecting", "closing"} /\ ~isPartialWebSocket
  /\ ws' = "none"
  /\ ClosedOpen \/ ClosedForGood \/ ConnectFailed
  /\ UNCHANGED <<page, sockets, drops, asked>>

\* close, called by the program.
close ==
  /\ page.closes /\ ~isPartialWebSocket /\ ~asked /\ readyState # "CLOSED"
  /\ asked' = (readyState = "OPEN")
  /\ closing' = IF readyState = "OPEN" THEN closing \cup {Len(promises)} ELSE closing
  /\ readyState' = "CLOSED"
  /\ UNCHANGED <<page, attempts, promises, ws, sockets, timer, drops, listenerVars>>

\* promise.then(ws => ws.close()): nothing is sent or received on that socket any more.
CloseSocket ==
  \E n \in closing :
    /\ promises[n] # Pending
    /\ closing' = closing \ {n}
    /\ ws' = IF promises[n] = Resolved(sockets) /\ ws = "open" THEN "closing" ELSE ws
    /\ UNCHANGED <<page, readyState, attempts, promises, sockets, timer, drops, asked, listenerVars>>

-----------------------------------------------------------------------------
(* A WebSocket of the page's own connects once, and closes at once *)

PlainOpens ==
  /\ ws = "connecting" /\ isPartialWebSocket
  /\ ws' = "open" /\ readyState' = "OPEN"
  /\ UNCHANGED <<page, attempts, promises, sockets, timer, closing, drops, asked, listenerVars>>

PlainCloses ==
  /\ ws \in {"connecting", "closing"} /\ isPartialWebSocket
  /\ ws' = "none" /\ readyState' = "CLOSED"
  /\ UNCHANGED <<page, attempts, promises, sockets, timer, closing, drops, asked, listenerVars>>

PlainClose ==
  /\ page.closes /\ ws \in {"connecting", "open"} /\ isPartialWebSocket
  /\ ws' = "closing" /\ readyState' = "CLOSING"
  /\ asked' = TRUE
  /\ UNCHANGED <<page, attempts, promises, sockets, timer, closing, drops, listenerVars>>

-----------------------------------------------------------------------------
(* The network and the page *)

\* The peer or the network ends an open connection.
Drop ==
  /\ ws = "open"
  /\ drops < page.drops
  /\ drops' = drops + 1
  /\ ws' = "closing"
  /\ UNCHANGED <<page, readyState, attempts, promises, sockets, timer, closing, asked, listenerVars>>

Listen ==
  /\ Len(registered) <= Len(page.listeners) + page.adds
  /\ \E l \in DOMAIN page.acts, once, capture \in BOOLEAN : addEventListener(l, once, capture)
  /\ UNCHANGED <<page, wsVars, shut, threw>>

Unlisten ==
  /\ \E l \in DOMAIN page.acts, capture \in BOOLEAN : removeEventListener(l, capture)
  /\ UNCHANGED <<page, wsVars, registered, shut, threw>>

SocketNext ==
  \/ connect \/ onopen \/ onclose \/ close \/ CloseSocket \/ Drop \/ Listen \/ Unlisten
  \/ PlainOpens \/ PlainCloses \/ PlainClose

-----------------------------------------------------------------------------
\* While the persistent socket says that it is OPEN its promise is resolved with the
\* latest WebSocket, so that nothing is sent on an older one (onopen resolves the
\* promise that onclose made anew, however often connections come and go, and whether or
\* not close was called meanwhile, by a listener even).  A listener that throws stops
\* onclose halfway.
OpenIsCurrent ==
  readyState = "OPEN" /\ ~isPartialWebSocket /\ ~threw =>
    Current = Resolved(sockets) /\ ws \in {"open", "closing"} /\ ~timer

\* A listener added with the option once is called for one event only, although it
\* comes off the stack by a search for an equal one (dispatchEvent), unless the page has
\* added it twice.
OnceAtMostOnce ==
  \A n \in DOMAIN registered : registered[n].once =>
    \/ registered[n].called <= 1
    \/ \E k \in DOMAIN registered \ {n} :
         /\ registered[k].listener = registered[n].listener
         /\ registered[k].capture = registered[n].capture
=============================================================================
