------------------------------- MODULE PhpRpc ---------------------------------
(***************************************************************************)
(* A PHP RPC client and a PHP RPC server (php/Interop/RPC/), each a        *)
(* process of one thread, on two streams.                                  *)
(*                                                                         *)
(* The client reads only inside Client::call and Client::wait, and runs    *)
(* event handlers and responders there; they may call and wait in turn.    *)
(* frames is its call stack: "code" is the program or a handler of it,     *)
(* "call" and "wait" are the reading loops.  A message is its ID header,   *)
(* None for an event; an event has routes on which its handlers are, and a *)
(* response that no call gets may match them too.                          *)
(***************************************************************************)
EXTENDS Integers, Sequences, SequencesExt

CONSTANTS
  None,
  Routes,       \* the number of routes of the client that a message matches
  MaxUses,      \* bound on the calls and waits of the client's program
  MaxEvents     \* bound on the events of the server

ASSUME PhpConstants ==
  /\ Routes \in Nat \ {0} /\ MaxUses \in Nat /\ MaxEvents \in Nat
  /\ None \notin Nat

VARIABLES
  frames,               \* the client's stack, the program first
  waiting,              \* Client::$waiting
  responders, lastId,   \* Client::$responders (its keys) and Client::$lastId
  raised,               \* the exception that is unwinding the stack, or None
  uses,
  toServer, closed,     \* the stream to the server, and whether the client has closed it
  server,               \* what the server does
  toClient, events,     \* the stream to the client, and the events sent
  lost, failed          \* IDs: of responses given to the routes, of calls that raised

clientVars == <<frames, waiting, responders, lastId, raised, uses, lost, failed>>
serverVars == <<server, events>>
vars == <<clientVars, toServer, closed, serverVars, toClient>>

Code(routes) == [at |-> "code", routes |-> routes]
Reading == [at |-> "reading"]
Ended == [at |-> "ended"]

Init ==
  /\ frames = <<Code(1)>>
  /\ waiting = FALSE
  /\ responders = {} /\ lastId = 0
  /\ raised = None
  /\ uses = 0
  /\ toServer = <<>> /\ closed = FALSE
  /\ server = Reading
  /\ toClient = <<>> /\ events = 0
  /\ lost = {} /\ failed = {}

\* The frame that runs, with no exception to unwind it.
Top == Last(frames)
Runs(at) == frames # <<>> /\ raised = None /\ Top.at = at

-----------------------------------------------------------------------------
(* The program of the client *)

\* Client::call up to its write; the stream may have been closed on either side.
Request(Then) ==
  /\ Runs("code")
  /\ uses < MaxUses
  /\ uses' = uses + 1
  /\ lastId' = lastId + 1
  /\ \/ /\ ~closed /\ server # Ended
        /\ toServer' = Append(toServer, lastId')
        /\ Then
        /\ UNCHANGED raised
     \/ /\ closed \/ server = Ended
        /\ raised' = "AlreadyClosed"
        /\ UNCHANGED <<frames, waiting, responders, toServer>>
  /\ UNCHANGED <<closed, serverVars, toClient, lost, failed>>

\* call with a closure returns at once; without, it waits for the response.
CallAsync == Request(/\ responders' = responders \cup {lastId'}
                     /\ UNCHANGED <<frames, waiting>>)
CallSync == Request(/\ frames' = Append(frames, [at |-> "call", id |-> lastId', was |-> waiting])
                    /\ waiting' = TRUE
                    /\ UNCHANGED responders)

\* Client::wait.
Wait ==
  /\ Runs("code")
  /\ uses < MaxUses
  /\ uses' = uses + 1
  /\ \/ /\ waiting
        /\ raised' = "AlreadyWaiting"
        /\ UNCHANGED frames
     \/ /\ ~waiting
        /\ frames' = Append(frames, [at |-> "wait"])
        /\ UNCHANGED raised
  /\ UNCHANGED <<waiting, responders, lastId, toServer, closed, serverVars, toClient, lost, failed>>

\* The program closes the stream to the server, as examples/php/client.php does.
CloseWriter ==
  /\ Runs("code")
  /\ ~closed
  /\ closed' = TRUE
  /\ UNCHANGED <<clientVars, toServer, serverVars, toClient>>

\* A handler returns to the loop of Dispatcher::dispatch, or a responder to handle.
\* When the program itself ends, so do its streams.
Return ==
  /\ Runs("code")
  /\ frames' = IF Top.routes > 1 THEN Front(frames) \o <<Code(Top.routes - 1)>>
                                 ELSE Front(frames)
  /\ closed' = (closed \/ frames' = <<>>)
  /\ UNCHANGED <<waiting, responders, lastId, raised, uses, toServer, serverVars, toClient, lost, failed>>

-----------------------------------------------------------------------------
(* The reading loops of the client *)

\* Client::handle and Dispatcher::dispatch.
Handle(m) ==
  \/ /\ m \in responders
     /\ responders' = responders \ {m}
     /\ frames' = Append(frames, Code(1))
     /\ UNCHANGED lost
  \/ /\ m = None
     /\ frames' = Append(frames, Code(Routes))
     /\ UNCHANGED <<responders, lost>>
  \/ /\ m # None /\ m \notin responders
     /\ lost' = lost \cup {m}
     /\ frames' \in {frames, Append(frames, Code(Routes))}
     /\ UNCHANGED responders

\* The loop handles a message before it looks for its own.
HandleEach ==
  /\ Runs("call") \/ Runs("wait")
  /\ toClient # <<>>
  /\ toClient' = Tail(toClient)
  /\ Handle(Head(toClient))
  /\ UNCHANGED <<waiting, lastId, raised, uses, failed, toServer, closed, serverVars>>

\* The IDMatcher of the call that reads; wait has none.
Awaited(m) == Top.at = "call" /\ Top.id = m

\* Client::waitUntil returns the response it waits for, and handles every other message.
ReadMessage ==
  /\ Runs("call") \/ Runs("wait")
  /\ toClient # <<>>
  /\ toClient' = Tail(toClient)
  /\ IF Awaited(Head(toClient))
     THEN /\ frames' = Front(frames)
          /\ waiting' = Top.was
          /\ UNCHANGED <<responders, lost>>
     ELSE /\ Handle(Head(toClient))
          /\ UNCHANGED waiting
  /\ UNCHANGED <<lastId, raised, uses, failed, toServer, closed, serverVars>>

\* The stream ends: read throws EOF.
ReadEOF ==
  /\ Runs("call") \/ Runs("wait")
  /\ toClient = <<>> /\ server = Ended
  /\ raised' = "EOF"
  /\ UNCHANGED <<frames, waiting, responders, lastId, uses, lost, failed, toServer, closed, serverVars, toClient>>

\* An exception leaves a frame.
LeaveCode ==
  /\ Top.at = "code"
  /\ \/ /\ raised' = None       \* the program catches it
        /\ UNCHANGED frames
     \/ /\ frames' = Front(frames)
        /\ raised' = IF Len(frames) = 1 THEN None ELSE raised
  /\ UNCHANGED <<waiting, failed>>

LeaveWait ==
  /\ Top.at = "wait"
  /\ frames' = Front(frames)
  /\ raised' = IF raised = "EOF" THEN None ELSE raised
  /\ UNCHANGED <<waiting, failed>>

\* The flag is restored only when call returns.
LeaveCallWaiting ==
  /\ Top.at = "call"
  /\ frames' = Front(frames)
  /\ failed' = failed \cup {Top.id}
  /\ UNCHANGED <<raised, waiting>>

LeaveCall ==
  /\ Top.at = "call"
  /\ frames' = Front(frames)
  /\ waiting' = Top.was
  /\ failed' = failed \cup {Top.id}
  /\ UNCHANGED raised

Unwind ==
  /\ raised # None
  /\ LeaveCode \/ LeaveWait \/ LeaveCall
  /\ closed' = (closed \/ frames' = <<>>)
  /\ UNCHANGED <<responders, lastId, uses, lost, toServer, serverVars, toClient>>

-----------------------------------------------------------------------------
(* Server::wait *)

\* It reads a request, and there is a route that matches it or not; or it returns at EOF.
ServerRead ==
  /\ server = Reading
  /\ \/ /\ toServer # <<>>
        /\ toServer' = Tail(toServer)
        /\ \E matched \in BOOLEAN :
             server' = [at |-> "handling", id |-> Head(toServer), matched |-> matched]
     \/ /\ toServer = <<>> /\ closed
        /\ server' = Ended
        /\ UNCHANGED toServer
  /\ UNCHANGED <<clientVars, closed, events, toClient>>

\* Server::send, from a handler.
SendEvent ==
  /\ server.at = "handling" /\ server.matched
  /\ events < MaxEvents
  /\ events' = events + 1
  /\ \/ /\ frames # <<>>
        /\ toClient' = Append(toClient, None)
        /\ UNCHANGED server
     \/ /\ frames = <<>>        \* AlreadyClosed, and nobody catches it
        /\ server' = Ended
        /\ UNCHANGED toClient
  /\ UNCHANGED <<clientVars, toServer, closed>>

\* A request without a route is not answered.
RespondIfMatched ==
  /\ server.at = "handling"
  /\ toClient' = IF server.matched THEN Append(toClient, server.id) ELSE toClient
  /\ server' = IF frames # <<>> THEN Reading ELSE Ended
  /\ UNCHANGED <<clientVars, toServer, closed, events>>

\* The response, of a handler or empty, with the ID of the request.
Respond ==
  /\ server.at = "handling"
  /\ \/ /\ frames # <<>>
        /\ toClient' = Append(toClient, server.id)
        /\ server' = Reading
     \/ /\ frames = <<>>
        /\ server' = Ended
        /\ UNCHANGED toClient
  /\ UNCHANGED <<clientVars, toServer, closed, events>>

\* A handler throws: nothing catches it, and the process ends.
HandlerThrows ==
  /\ server.at = "handling" /\ server.matched
  /\ server' = Ended
  /\ UNCHANGED <<clientVars, toServer, closed, events, toClient>>

-----------------------------------------------------------------------------
Next == \/ CallAsync \/ CallSync \/ Wait \/ CloseWriter \/ Return
        \/ ReadMessage \/ ReadEOF \/ Unwind
        \/ ServerRead \/ SendEvent \/ Respond \/ HandlerThrows

\* Handlers return, exceptions unwind, and both processes read what there is to read.
Progress == Return \/ ReadMessage \/ ReadEOF \/ Unwind \/ ServerRead \/ Respond

Spec == Init /\ [][Next]_vars /\ WF_vars(Progress)

-----------------------------------------------------------------------------
Calling(id) == \E k \in DOMAIN frames : frames[k].at = "call" /\ frames[k].id = id

\* $waiting is set exactly while a call without a closure is on the stack, whichever way
\* the calls above it ended: wait throws AlreadyWaiting inside a call, and never after it
\* (the finally of Client::waitUntil).
WaitingIffCalling == waiting <=> \E k \in DOMAIN frames : frames[k].at = "call"

\* A response goes to the event routes, where its call does not get it, only if the call has
\* raised, or waits beneath a call or a wait that a handler has made (Client::handle has
\* no other place for the response of a call that is not the innermost).
LostOnlyIfNested ==
  [][\A id \in lost' \ lost : \/ id \in failed
                              \/ Calling(id) /\ ~(Top.at = "call" /\ Top.id = id)]_vars

\* A call without a closure returns or raises, unless its response is lost
\* (Client::waitUntil against Server::wait, which answers every request that it reads).
CallsEnd == \A id \in 1..MaxUses : Calling(id) ~> ~Calling(id) \/ id \in lost
=============================================================================
