----------------------------- MODULE RpcSession ------------------------------
(***************************************************************************)
(* A Go client and a Go server at the two ends of a conn, as in            *)
(* interop/rpc_server_test.go and the examples: RpcClient, whose peer is   *)
(* an instance of RpcServer.                                               *)
(*                                                                         *)
(* reqLog is the stream to the server and inLog the one to the client.     *)
(* The client closes reqLog (once it has seen CloseAfter events); the      *)
(* server process ends, closing inLog (eof), when Wait returns and, if     *)
(* CleanExit, WaitClean as well.                                           *)
(***************************************************************************)
EXTENDS RpcClient

CONSTANTS
  Main, ErrCap, MaxEvents, MaxFailures,   \* of the server
  CloseAfter,   \* events the client handles before it closes reqLog
  CleanExit     \* does the server's main goroutine call WaitClean before it ends?

ASSUME SessionConstants ==
  /\ {ErrCap, MaxEvents, MaxFailures} \subseteq Nat
  /\ MaxInbound >= MaxCalls + MaxEvents

VARIABLES
  serverRun, serverRd, handler, errs, sentAt, errCh, runErr, ctxDone,
  wait, cleaner, gaveUp, failed, events, serverCrashed,
  reqClosed     \* the client has closed reqLog

clientVars == <<nextId, results, chanVars, callVars, loopVars, torn, crashed>>
serverVars == <<serverRun, serverRd, handler, errs, sentAt, errCh, runErr, ctxDone,
                wait, cleaner, gaveUp, failed, events, serverCrashed>>
sessionVars == <<vars, serverVars, reqClosed>>

Server == INSTANCE RpcServer WITH
  Cleaners <- {Main}, Expiring <- {}, MaxRequests <- MaxCalls, WaitEarly <- FALSE,
  run <- serverRun, rd <- serverRd, crashed <- serverCrashed,
  reqs <- reqLog, outLog <- inLog, eof <- reqClosed

SessionInit == Init /\ Server!Init

\* A stream that its writer has closed takes no more messages.
ClientMoves ==
  /\ ClientStep
  /\ reqClosed => reqLog' = reqLog
  /\ UNCHANGED <<serverVars, reqClosed>>

\* The goroutines of the server end with its process.  Events are sent by responders.
ServerMoves ==
  /\ ~eof
  /\ Server!ServerStep
  /\ events' # events => \E p \in 1 .. MaxCalls : handler[p] = "responding"
  /\ UNCHANGED <<clientVars, eof>>

\* Events the client has handled, or is handling.
Seen ==
  {p \in dispatched \cup (IF run = "dispatching" THEN {rd} ELSE {}) :
     inLog[p].id = NoId}

ClientCloses ==
  /\ ~reqClosed
  /\ Cardinality(Seen) >= CloseAfter
  /\ reqClosed' = TRUE
  /\ UNCHANGED <<clientVars, serverVars, reqLog, inLog, eof>>

\* The server is started and waited for; its process ends without WaitClean.
ServerEndsUnclean ==
  /\ ~eof
  /\ serverRun = "blockerClosed"
  /\ eof' = TRUE
  /\ UNCHANGED <<clientVars, serverVars, reqLog, reqClosed, inLog>>

ServerEnds ==
  /\ ~eof
  /\ serverRun = "blockerClosed"
  /\ CleanExit => cleaner[Main] = "clean"
  /\ eof' = TRUE
  /\ UNCHANGED <<clientVars, serverVars, reqLog, reqClosed, inLog>>

SessionNext == ClientMoves \/ ServerMoves \/ ClientCloses \/ ServerEnds

SessionSpec == SessionInit /\ [][SessionNext]_sessionVars

\* Some goroutine that is able to move does so: less than the schedulers of the two
\* processes give.  No call, no event and no timeout has to happen.
SessionProgress ==
  \/ /\ ~crashed
     /\ (\E c \in Callers : CallerStep(c)) \/ LoopStep
     /\ ClientMoves
  \/ /\ Server!RunStep \/ (\E p \in 1 .. MaxCalls : Server!HandlerStep(p))
        \/ Server!WaitClean(Main) \/ Server!WokenReturns(Main)
     /\ ServerMoves
  \/ ServerEnds

FairSession == SessionSpec /\ WF_sessionVars(SessionProgress)

-----------------------------------------------------------------------------
(* Properties. *)

\* The server is a peer as the client expects it, and the client one as the server
\* expects it: what is shown of each of them holds in the session.
ServerIsPeer == Spec
ClientIsPeer == Server!Spec

\* A call returns what the goroutine of its own request wrote: the request reached
\* the server once, and the response reports an error when the responder did.
CallGetsOwnResult ==
  \A i \in Ids : outcome[i] \in {"response", "remoteErr"} =>
    \E k \in DOMAIN reqLog :
      /\ reqLog[k] = i
      /\ \A j \in DOMAIN reqLog : reqLog[j] = i => j = k
      /\ sentAt[k] = answer[i]
      /\ outcome[i] = "remoteErr" <=> errs[k]

\* When the client closes its stream and the server waits for its responders before
\* it ends, every call that reached the server returns, unless the server could not
\* write its response or an error of an event handler ended the client's Run.
CallsReturn ==
  \A i \in Ids :
    (reqClosed /\ \E k \in DOMAIN reqLog : reqLog[k] = i)
      ~> \/ outcome[i] # "pending"
         \/ failed # {}
         \/ run = "returned" /\ rd < Len(inLog)

\* README.md: clients "close FIFO `a`, which causes the server to exit, which in turn
\* causes the client to exit": no call keeps the client's main goroutine waiting.
ClientExits == reqClosed ~> (run = "returned" /\ \A c \in Callers : pc[c] = "idle")
=============================================================================
