-------------------------- MODULE RpcSessionProofs --------------------------
(***************************************************************************)
(* Proofs about a Go client and a Go server that are each other's peer,    *)
(* for any number of callers, calls, events and failing writes.            *)
(*                                                                         *)
(* The session implements the specification of either side.  That the      *)
(* streams stay within the bounds of the other side is the hard part: it   *)
(* is counted in the inductive invariant SessionInv.  As the session       *)
(* implements RpcClient, what RpcClientProofs shows holds in it, and joins *)
(* with SessionInv to the property of the round trip.                      *)
(***************************************************************************)
EXTENDS RpcSession, RpcClientProofs, FiniteSetTheorems

Requests == 1 .. MaxCalls
Answered == {p \in Requests : sentAt[p] # 0}

\* The part of the server's state that its responses depend on.
ServerTypes ==
  /\ serverRd \in 0 .. Len(reqLog)
  /\ handler \in [Requests -> Server!Unfinished \cup {"none", "done"}]
  /\ errs \in [Requests -> BOOLEAN]
  /\ sentAt \in [Requests -> Nat]
  /\ events \in 0 .. MaxEvents

\* A request is handled after it was read, and answered after it was handled.
HandledWasRead ==
  \A p \in Requests :
    /\ handler[p] # "none" => p <= serverRd
    /\ sentAt[p] # 0 => handler[p] \in {"finishing", "done"}

\* Each request reached the server once.
RequestsDistinct == \A j, k \in DOMAIN reqLog : reqLog[j] = reqLog[k] => j = k

\* inLog holds the events and one response per answered request.
InLogCounted == Len(inLog) = events + Cardinality(Answered)

\* Each response answers a request of its own, and what is no response has no ID.
ResponsesOwned ==
  /\ \A p \in Requests : sentAt[p] # 0 =>
       /\ sentAt[p] \in DOMAIN inLog
       /\ inLog[sentAt[p]] = [id |-> reqLog[p], errs |-> errs[p]]
  /\ \A k \in DOMAIN inLog : inLog[k].id # NoId => \E p \in Requests : sentAt[p] = k

SessionInv ==
  /\ ServerTypes /\ HandledWasRead /\ RequestsDistinct /\ InLogCounted /\ ResponsesOwned

-----------------------------------------------------------------------------
(* The streams have room. *)

\* The sizes of the intervals that IDs and requests are drawn from.
LEMMA IntervalSizes ==
  ASSUME NEW n \in Nat
  PROVE  /\ IsFiniteSet(1 .. n) /\ Cardinality(1 .. n) = n
         /\ IsFiniteSet(0 .. n - 1) /\ Cardinality(0 .. n - 1) = n
<1>1. n \in Int /\ n - 1 \in Int /\ 0 \in Int /\ 1 \in Int
  OBVIOUS
<1> QED
  BY <1>1, FS_Interval

\* The server answers at most as many requests as there are.
LEMMA AnsweredBounded ==
  /\ IsFiniteSet(Answered)
  /\ Cardinality(Answered) \in Nat
  /\ Cardinality(Answered) <= MaxCalls
<1>1. IsFiniteSet(Requests) /\ Cardinality(Requests) = MaxCalls
  BY IntervalSizes, ClientConstants DEF Requests, ClientConstants
<1>2. Answered \in SUBSET Requests
  BY DEF Answered
<1> QED
  BY <1>1, <1>2, FS_Subset, FS_CardinalityType

\* With a request still to be written, the server has met fewer than MaxCalls:
\* each has an ID of its own, and none that of the call that writes.
LEMMA RoomForRequest ==
  ASSUME TypeOK, ClientInv, RequestsDistinct, NEW c \in Callers, pc[c] = "writing"
  PROVE  Len(reqLog) < MaxCalls
<1> DEFINE S == 1 .. Len(reqLog)
           T == Ids \ {call[c]}
<1>1. call[c] \in Ids /\ call[c] \notin Delivered
  BY DEF TypeOK, ClientInv, FailedUndelivered
<1>2. reqLog \in [S -> T]
  BY <1>1 DEF TypeOK, Delivered
<1>n. Len(reqLog) \in Nat
  BY DEF TypeOK
<1>3. IsFiniteSet(S) /\ Cardinality(S) = Len(reqLog)
  BY <1>n, IntervalSizes
<1>4. IsFiniteSet(Ids) /\ Cardinality(Ids) = MaxCalls
  BY IntervalSizes, ClientConstants DEF Ids, ClientConstants
<1>5. IsFiniteSet(T) /\ Cardinality(T) = MaxCalls - 1
  BY <1>1, <1>4, FS_RemoveElement
<1>6. ASSUME Len(reqLog) >= MaxCalls PROVE FALSE
  <2>1. Cardinality(T) < Cardinality(S)
    BY <1>n, <1>3, <1>5, <1>6, ClientConstants DEF ClientConstants
  <2>2. \E x, y \in S : x # y /\ reqLog[x] = reqLog[y]
    BY <1>2, <1>3, <1>5, <2>1, FS_PigeonHole
  <2> QED
    BY <2>2 DEF RequestsDistinct, TypeOK
<1> QED
  BY <1>n, <1>6, ClientConstants DEF ClientConstants

-----------------------------------------------------------------------------
(* What the steps of either side do to the streams. *)

\* A goroutine of the client writes to reqLog in conn.Write, and never to inLog.
LEMMA ClientTouches ==
  ASSUME ClientMoves
  PROVE  /\ UNCHANGED <<inLog, eof>>
         /\ reqLog' = reqLog \/ \E c \in Callers : WriteDelivers(c)
<1> USE DEF connVars, callVars, chanVars, loopVars
<1>1. ASSUME NEW c \in Callers, Register(c) \/ CallerStep(c) \/ CtxDone(c)
      PROVE  UNCHANGED <<inLog, eof>> /\ (reqLog' = reqLog \/ WriteDelivers(c))
  BY <1>1 DEF Register, RegisterWith, CallerStep, WriteDelivers, WriteReturns, WriteFails,
     ReleaseAfterError, CloseAfterError, Receive, ReleaseAfterExpiry, CtxDone
<1>2. ASSUME LoopStep PROVE UNCHANGED <<inLog, eof, reqLog>>
  BY <1>2 DEF LoopStep, OnReceiveMessage, OnReceiveMessageWhen, SendResponse, CloseResponse,
     DispatchReturns, ReadFails
<1> QED
  BY <1>1, <1>2 DEF ClientMoves, ClientStep

\* A goroutine of the server that is not that of a request being answered, nor Send,
\* leaves the streams, the responses and the events alone.
LEMMA ServerTouches ==
  ASSUME ServerMoves
  PROVE  /\ UNCHANGED <<reqLog, reqClosed>>
         /\ \/ UNCHANGED <<inLog, sentAt, events>>
            \/ Server!Send /\ UNCHANGED <<sentAt, handler, errs, serverRd>>
            \/ \E p \in Requests : Server!WriteResponse(p) /\ UNCHANGED <<events, serverRd, errs>>
<1> USE DEF Server!connVars, Server!runVars, Server!handlerVars, Server!waitVars
<1>1. CASE Server!RunStep
  BY <1>1 DEF Server!RunStep, Server!ReadRequest, Server!ReadFails, Server!PushReadErr,
     Server!PopErr, Server!CancelAndReturn, Server!CloseBlocker
<1>2. ASSUME NEW p \in Requests, Server!HandlerStep(p)
      PROVE  /\ UNCHANGED <<reqLog, reqClosed>>
             /\ \/ UNCHANGED <<inLog, sentAt, events>>
                \/ Server!WriteResponse(p) /\ UNCHANGED <<events, serverRd, errs>>
  BY <1>2 DEF Server!HandlerStep, Server!Respond, Server!WriteResponse, Server!WriteWithId,
     Server!WriteFails, Server!PushWriteErr, Server!Done, Server!DoneWhen
<1>3. CASE Server!Send
  BY <1>3 DEF Server!Send, Server!SendMessage
<1>4. ASSUME NEW w \in {Main}, Server!WaitClean(w) \/ Server!WokenReturns(w) \/ Server!CtxExpires(w)
      PROVE  UNCHANGED <<reqLog, reqClosed, inLog, sentAt, events>>
  BY <1>4 DEF Server!WaitClean, Server!WokenReturns, Server!CtxExpires
<1> QED
  BY <1>1, <1>2, <1>3, <1>4 DEF ServerMoves, Server!ServerStep, Server!Requests, Requests

-----------------------------------------------------------------------------
(* The session implements the specification of the client. *)

\* A response goes to the client with the ID of a request that came from it, and an
\* event without; inLog has room for either, and the client sees a step of its peer.
LEMMA ServerSends ==
  ASSUME TypeOK, SessionInv, ServerMoves
  PROVE  PeerSends \/ UNCHANGED vars
<1> USE ClientConstants, SessionConstants DEF ClientConstants, SessionConstants, SessionInv
<1>1. UNCHANGED <<clientVars, reqLog, eof>> /\ ~eof
  BY ServerTouches DEF ServerMoves
<1>2. ASSUME NEW id \in Delivered \cup {NoId}, NEW e \in BOOLEAN, id = NoId => ~e,
             inLog' = Append(inLog, [id |-> id, errs |-> e]), Len(inLog) < MaxInbound
      PROVE  PeerSends
  BY <1>1, <1>2 DEF PeerSends, clientVars
<1>3. CASE UNCHANGED <<inLog, sentAt, events>>
  BY <1>1, <1>3 DEF vars, clientVars, connVars
<1>4. CASE Server!Send
  <2>1. Len(inLog) < MaxInbound
    BY <1>4, AnsweredBounded DEF Server!Send, Server!SendMessage, InLogCounted, ServerTypes
  <2>2. inLog' = Append(inLog, [id |-> NoId, errs |-> FALSE])
    BY <1>4 DEF Server!Send, Server!SendMessage
  <2> QED
    BY <1>2, <2>1, <2>2
<1>5. ASSUME NEW p \in Requests, Server!WriteResponse(p)
      PROVE  PeerSends
  <2>1. handler[p] = "writing" /\ inLog' = Append(inLog, [id |-> reqLog[p], errs |-> errs[p]])
    BY <1>5 DEF Server!WriteResponse, Server!WriteWithId
  <2>2. sentAt[p] = 0 /\ p \in DOMAIN reqLog
    <3>1. p \in Nat \ {0} /\ serverRd \in 0 .. Len(reqLog)
      BY DEF ServerTypes, Requests
    <3>2. DOMAIN reqLog = 1 .. Len(reqLog) /\ Len(reqLog) \in Nat
      BY DEF TypeOK
    <3>3. p <= serverRd /\ sentAt[p] = 0
      BY <2>1 DEF HandledWasRead
    <3>4. p \in 1 .. Len(reqLog)
      BY <3>1, <3>2, <3>3
    <3> QED
      BY <3>2, <3>3, <3>4
  <2>3. reqLog[p] \in Delivered /\ reqLog[p] # NoId
    <3>1. reqLog \in Seq(Ids)
      BY DEF TypeOK
    <3>2. reqLog[p] \in Ids
      BY <2>2, <3>1
    <3>3. reqLog[p] # NoId
      BY <3>2 DEF Ids, NoId
    <3> QED
      BY <2>2, <3>3 DEF Delivered
  <2>4. errs[p] \in BOOLEAN
    BY Zenon DEF ServerTypes
  <2>5. Cardinality(Answered) < MaxCalls
    <3>1. Answered \in SUBSET Requests /\ Answered # Requests
      BY <2>2 DEF Answered
    <3>2. IsFiniteSet(Requests) /\ Cardinality(Requests) = MaxCalls
      BY IntervalSizes DEF Requests
    <3> QED
      BY <3>1, <3>2, FS_Subset, AnsweredBounded
  <2>6. Len(inLog) < MaxInbound
    BY <2>5, AnsweredBounded DEF InLogCounted, ServerTypes
  <2> QED
    BY <1>2, <2>1, <2>3, <2>4, <2>6, Zenon
<1> QED
  BY <1>3, <1>4, <1>5, ServerTouches

\* Every step of the session is a step of the client, of its peer, or none of theirs.
LEMMA StepOfClient ==
  ASSUME TypeOK, SessionInv, [SessionNext]_sessionVars
  PROVE  [Next]_vars
<1>1. CASE ClientMoves
  BY <1>1 DEF ClientMoves, Next
<1>2. CASE ServerMoves
  BY <1>2, ServerSends DEF Next
<1>3. CASE ClientCloses
  BY <1>3 DEF ClientCloses, clientVars, vars, connVars
<1>4. CASE ServerEnds
  BY <1>4 DEF ServerEnds, clientVars, Next, PeerCloses
<1>5. CASE UNCHANGED sessionVars
  BY <1>5 DEF sessionVars
<1> QED
  BY <1>1, <1>2, <1>3, <1>4, <1>5 DEF SessionNext

-----------------------------------------------------------------------------
(* SessionInv is kept. *)

\* A call writes its request once, and with an ID no other call has.
LEMMA ClientMovesKeep ==
  ASSUME TypeOK, ClientInv, SessionInv, ClientMoves
  PROVE  SessionInv'
<1> USE DEF SessionInv
<1>1. UNCHANGED serverVars /\ UNCHANGED <<inLog, eof>>
  BY ClientTouches DEF ClientMoves
<1>2. Answered' = Answered
  BY <1>1 DEF serverVars, Answered
<1>3. CASE reqLog' = reqLog
  BY <1>1, <1>2, <1>3 DEF serverVars, ServerTypes, HandledWasRead, RequestsDistinct, InLogCounted, ResponsesOwned
<1>4. ASSUME NEW c \in Callers, WriteDelivers(c)
      PROVE  SessionInv'
  <2>1. /\ reqLog' = Append(reqLog, call[c])
        /\ call[c] \in Ids /\ call[c] \notin Delivered
    BY <1>4 DEF WriteDelivers, Goto, TypeOK, ClientInv, FailedUndelivered
  <2>2. /\ reqLog \in Seq(Ids) /\ Len(reqLog) \in Nat
        /\ Len(reqLog') = Len(reqLog) + 1
        /\ DOMAIN reqLog' = 1 .. Len(reqLog) + 1
        /\ \A k \in 1 .. Len(reqLog) : reqLog'[k] = reqLog[k] /\ reqLog[k] \in Delivered
        /\ reqLog'[Len(reqLog) + 1] = call[c]
    BY <2>1 DEF TypeOK, Delivered
  <2>3. RequestsDistinct'
    BY <2>1, <2>2 DEF RequestsDistinct
  <2>4. ServerTypes'
    BY <1>1, <2>2 DEF serverVars, ServerTypes
  <2>5. HandledWasRead' /\ InLogCounted'
    BY <1>1, <1>2 DEF serverVars, HandledWasRead, InLogCounted
  <2>6. ASSUME NEW p \in Requests, sentAt[p] # 0
        PROVE  reqLog'[p] = reqLog[p]
    BY <2>2, <2>6 DEF HandledWasRead, ServerTypes, Requests
  <2>7. ResponsesOwned'
    BY <1>1, <2>6 DEF serverVars, ResponsesOwned
  <2> QED
    BY <2>3, <2>4, <2>5, <2>7
<1> QED
  BY <1>3, <1>4, ClientTouches

\* Reading a request starts a goroutine that has answered nothing.
LEMMA ServerReadsKeep ==
  ASSUME TypeOK, SessionInv, ServerMoves, Server!RunStep
  PROVE  SessionInv'
<1> USE DEF SessionInv
<1> USE DEF Server!connVars, Server!runVars, Server!handlerVars, Server!waitVars
<1>1. UNCHANGED <<inLog, reqLog, sentAt, events, errs>>
  BY DEF Server!RunStep, Server!ReadRequest, Server!ReadFails, Server!PushReadErr,
     Server!PopErr, Server!CancelAndReturn, Server!CloseBlocker
<1>2. Answered' = Answered /\ RequestsDistinct' /\ ResponsesOwned'
  BY <1>1 DEF Answered, RequestsDistinct, ResponsesOwned
<1>3. InLogCounted'
  BY <1>1, <1>2 DEF InLogCounted
<1>4. CASE UNCHANGED <<serverRd, handler>>
  BY <1>1, <1>2, <1>3, <1>4 DEF ServerTypes, HandledWasRead
<1>5. CASE Server!ReadRequest
  <2>1. PICK kind \in {"responding", "streaming"} : handler' = [handler EXCEPT ![serverRd + 1] = kind]
    BY <1>5 DEF Server!ReadRequest
  <2>2. serverRd' = serverRd + 1 /\ serverRd < Len(reqLog)
    BY <1>5 DEF Server!ReadRequest
  <2>3. ServerTypes'
    <3>1. handler' \in [Requests -> Server!Unfinished \cup {"none", "done"}]
      BY <2>1 DEF ServerTypes, Server!Unfinished
    <3>2. serverRd' \in 0 .. Len(reqLog)
      BY <2>2 DEF ServerTypes, TypeOK
    <3> QED
      BY <1>1, <3>1, <3>2 DEF ServerTypes
  <2>4. HandledWasRead'
    BY <1>1, <2>1, <2>2 DEF ServerTypes, HandledWasRead, Requests
  <2> QED
    BY <1>2, <1>3, <2>3, <2>4
<1> QED
  BY <1>4, <1>5 DEF Server!RunStep, Server!ReadFails, Server!PushReadErr,
     Server!PopErr, Server!CancelAndReturn, Server!CloseBlocker

\* A goroutine that has not written its response, or has, and goes on.
LEMMA HandlerKeeps ==
  ASSUME TypeOK, SessionInv, ServerMoves, NEW p \in Requests,
         Server!Respond(p) \/ Server!WriteFails(p) \/ Server!PushWriteErr(p) \/ Server!Done(p)
  PROVE  SessionInv'
<1> USE DEF SessionInv
<1> USE DEF Server!connVars, Server!runVars, Server!handlerVars, Server!waitVars
<1> USE DEF Server!Respond, Server!WriteFails, Server!PushWriteErr, Server!Done, Server!DoneWhen
<1>1. UNCHANGED <<inLog, reqLog, sentAt, events, serverRd>>
  OBVIOUS
<1>2. Answered' = Answered /\ RequestsDistinct'
  BY <1>1 DEF Answered, RequestsDistinct
<1>3. InLogCounted'
  BY <1>1, <1>2 DEF InLogCounted
<1>4. \A q \in Requests : q # p => handler'[q] = handler[q] /\ errs'[q] = errs[q]
  BY DEF ServerTypes
<1>5. /\ handler[p] \in {"responding", "streaming", "writing", "pushing", "finishing"}
      /\ handler'[p] \in {"writing", "pushing", "finishing", "done"}
      /\ sentAt[p] # 0 => handler'[p] = "done" /\ errs' = errs
  BY DEF ServerTypes, HandledWasRead
<1>6. HandledWasRead'
  BY <1>1, <1>4, <1>5 DEF HandledWasRead
<1>7. ResponsesOwned'
  BY <1>1, <1>4, <1>5 DEF ResponsesOwned
<1>8. handler' \in [Requests -> Server!Unfinished \cup {"none", "done"}]
  BY DEF ServerTypes, Server!Unfinished
<1>9. errs' \in [Requests -> BOOLEAN]
  <2>1. CASE errs' = errs
    BY <2>1 DEF ServerTypes
  <2>2. CASE Server!Respond(p)
    BY <2>2, Zenon DEF ServerTypes
  <2> QED
    BY <2>1, <2>2
<1>10. ServerTypes'
  BY <1>1, <1>8, <1>9 DEF ServerTypes
<1> QED
  BY <1>2, <1>3, <1>6, <1>7, <1>10

\* A response takes the next position of inLog, for a request that had none.
LEMMA WriteResponseKeepsSession ==
  ASSUME TypeOK, SessionInv, ServerMoves, NEW p \in Requests, Server!WriteResponse(p)
  PROVE  SessionInv'
<1> USE DEF SessionInv
<1>1. /\ handler[p] = "writing"
      /\ handler' = [handler EXCEPT ![p] = "finishing"]
      /\ inLog' = Append(inLog, [id |-> reqLog[p], errs |-> errs[p]])
      /\ sentAt' = [sentAt EXCEPT ![p] = Len(inLog) + 1]
      /\ UNCHANGED <<reqLog, errs, events, serverRd>>
  BY DEF Server!WriteResponse, Server!WriteWithId, Server!runVars
<1>2. sentAt[p] = 0 /\ p <= serverRd
  BY <1>1 DEF HandledWasRead
<1>3. \E S : inLog \in Seq(S)
  BY DEF TypeOK
<1>4. /\ Len(inLog) \in Nat /\ DOMAIN inLog = 1 .. Len(inLog)
      /\ Len(inLog') = Len(inLog) + 1 /\ DOMAIN inLog' = 1 .. Len(inLog) + 1
      /\ \A k \in 1 .. Len(inLog) : inLog'[k] = inLog[k]
      /\ inLog'[Len(inLog) + 1] = [id |-> reqLog[p], errs |-> errs[p]]
  <2>1. PICK S : inLog \in Seq(S) /\ [id |-> reqLog[p], errs |-> errs[p]] \in S
    <3>1. PICK R : inLog \in Seq(R)
      BY <1>3
    <3>2. inLog \in Seq(R \cup {[id |-> reqLog[p], errs |-> errs[p]]})
      BY <3>1
    <3> QED
      BY <3>2
  <2> QED
    BY <1>1, <2>1
<1>5. ServerTypes'
  <2>1. handler' \in [Requests -> Server!Unfinished \cup {"none", "done"}]
    BY <1>1 DEF ServerTypes, Server!Unfinished
  <2>2. sentAt' \in [Requests -> Nat]
    BY <1>1, <1>4 DEF ServerTypes
  <2> QED
    BY <1>1, <2>1, <2>2 DEF ServerTypes
<1>6. HandledWasRead' /\ RequestsDistinct'
  BY <1>1, <1>2 DEF HandledWasRead, RequestsDistinct, ServerTypes
<1>7. InLogCounted'
  <2>1. Answered' = Answered \cup {p} /\ p \notin Answered
    BY <1>1, <1>2, <1>4 DEF Answered, ServerTypes
  <2>2. Cardinality(Answered') = Cardinality(Answered) + 1
    BY <2>1, AnsweredBounded, FS_AddElement
  <2> QED
    BY <1>1, <1>4, <2>2, AnsweredBounded DEF InLogCounted, ServerTypes
<1>8. ResponsesOwned'
  <2>1. /\ sentAt'[p] = Len(inLog) + 1
        /\ \A q \in Requests : q # p => sentAt'[q] = sentAt[q]
    BY <1>1 DEF ServerTypes
  <2>2. ASSUME NEW q \in Requests, sentAt'[q] # 0
        PROVE  /\ sentAt'[q] \in DOMAIN inLog'
               /\ inLog'[sentAt'[q]] = [id |-> reqLog[q], errs |-> errs[q]]
    BY <1>4, <2>1, <2>2 DEF ResponsesOwned
  <2>3. ASSUME NEW k \in DOMAIN inLog', inLog'[k].id # NoId
        PROVE  \E q \in Requests : sentAt'[q] = k
    BY <1>2, <1>4, <2>1, <2>3 DEF ResponsesOwned
  <2> QED
    BY <1>1, <2>2, <2>3 DEF ResponsesOwned
<1> QED
  BY <1>5, <1>6, <1>7, <1>8

\* An event takes the next position of inLog, and has no ID.
LEMMA SendKeepsSession ==
  ASSUME TypeOK, SessionInv, ServerMoves, Server!Send
  PROVE  SessionInv'
<1> USE DEF SessionInv
<1>1. /\ events < MaxEvents /\ events' = events + 1
      /\ inLog' = Append(inLog, [id |-> NoId, errs |-> FALSE])
      /\ UNCHANGED <<reqLog, errs, sentAt, handler, serverRd>>
  BY DEF Server!Send, Server!SendMessage, Server!runVars, Server!handlerVars
<1>2. inLog \in Seq(Message) /\ [id |-> NoId, errs |-> FALSE] \in Message
  BY DEF TypeOK, Message
<1>3. /\ Len(inLog) \in Nat /\ DOMAIN inLog = 1 .. Len(inLog)
      /\ Len(inLog') = Len(inLog) + 1 /\ DOMAIN inLog' = 1 .. Len(inLog) + 1
      /\ \A k \in 1 .. Len(inLog) : inLog'[k] = inLog[k]
      /\ inLog'[Len(inLog) + 1].id = NoId
  BY <1>1, <1>2
<1>4. Answered' = Answered
  BY <1>1 DEF Answered
<1>5. ServerTypes'
  BY <1>1, SessionConstants DEF ServerTypes, SessionConstants
<1>6. HandledWasRead' /\ RequestsDistinct'
  BY <1>1 DEF HandledWasRead, RequestsDistinct
<1>7. InLogCounted'
  BY <1>1, <1>3, <1>4, AnsweredBounded DEF InLogCounted, ServerTypes
<1>8. ResponsesOwned'
  BY <1>1, <1>3 DEF ResponsesOwned
<1> QED
  BY <1>5, <1>6, <1>7, <1>8

\* Every step of the session keeps SessionInv.
LEMMA SessionInvStep ==
  ASSUME TypeOK, ClientInv, SessionInv, [SessionNext]_sessionVars
  PROVE  SessionInv'
<1>1. ASSUME UNCHANGED <<reqLog, inLog, serverRd, handler, errs, sentAt, events>>
      PROVE  SessionInv'
  <2>1. Answered' = Answered
    BY <1>1 DEF Answered
  <2> QED
    BY <1>1, <2>1 DEF SessionInv, ServerTypes, HandledWasRead, RequestsDistinct, InLogCounted, ResponsesOwned
<1>2. CASE ClientMoves
  BY <1>2, ClientMovesKeep
<1>3. CASE ServerMoves
  <2>1. ASSUME NEW p \in Requests, Server!HandlerStep(p)
        PROVE  SessionInv'
    BY <1>3, <2>1, HandlerKeeps, WriteResponseKeepsSession DEF Server!HandlerStep
  <2>2. ASSUME NEW w \in {Main}, Server!WaitClean(w) \/ Server!WokenReturns(w) \/ Server!CtxExpires(w)
        PROVE  SessionInv'
    BY <1>1, <2>2 DEF Server!WaitClean, Server!WokenReturns, Server!CtxExpires,
       Server!connVars, Server!runVars, Server!handlerVars
  <2> QED
    BY <1>3, <2>1, <2>2, ServerReadsKeep, SendKeepsSession
       DEF ServerMoves, Server!ServerStep, Server!Requests, Requests
<1>4. CASE ClientCloses \/ ServerEnds
  BY <1>1, <1>4 DEF ClientCloses, ServerEnds, serverVars
<1>5. CASE UNCHANGED sessionVars
  BY <1>1, <1>5 DEF sessionVars, serverVars, vars, connVars
<1> QED
  BY <1>2, <1>3, <1>4, <1>5 DEF SessionNext

\* The session starts with empty streams and no request answered.
LEMMA SessionInvInit == SessionInit => SessionInv
<1> SUFFICES ASSUME SessionInit PROVE SessionInv
  OBVIOUS
<1> USE ClientConstants, SessionConstants
    DEF ClientConstants, SessionConstants, SessionInit, Init, Server!Init, Requests, Server!Requests
<1>1. Answered = {}
  BY DEF Answered
<1>2. errs \in [Requests -> BOOLEAN]
  BY Zenon
<1>3. ServerTypes
  BY <1>2 DEF ServerTypes
<1>4. HandledWasRead /\ RequestsDistinct /\ ResponsesOwned
  BY DEF HandledWasRead, RequestsDistinct, ResponsesOwned
<1>5. InLogCounted
  BY <1>1, FS_EmptySet DEF InLogCounted
<1> QED
  BY <1>3, <1>4, <1>5 DEF SessionInv

\* The client's invariant and that of the session hold together, whatever the two
\* processes do and in whatever order.
THEOREM SessionInvariant == SessionSpec => [](TypeOK /\ ClientInv /\ SessionInv)
<1>1. SessionInit => TypeOK /\ ClientInv /\ SessionInv
  BY TypeInit, ClientInvInit, SessionInvInit DEF SessionInit
<1>2. TypeOK /\ ClientInv /\ SessionInv /\ [SessionNext]_sessionVars
        => (TypeOK /\ ClientInv /\ SessionInv)'
  BY StepOfClient, SessionInvStep, TypeStep, ClientInvStep
<1> QED
  BY <1>1, <1>2, PTL DEF SessionSpec

\* The server is a peer as the client expects it: it answers only requests that the
\* client delivered, its events have no ID, and it sends no more than one response per
\* request (rpc_server.go with rpc_client.go at the other end of the conn).
THEOREM SessionServerIsPeer == SessionSpec => ServerIsPeer
<1>1. SessionInit => Init
  BY DEF SessionInit
<1>2. TypeOK /\ SessionInv /\ [SessionNext]_sessionVars => [Next]_vars
  BY StepOfClient
<1> QED
  BY <1>1, <1>2, SessionInvariant, PTL DEF SessionSpec, ServerIsPeer, Spec

\* Every step of the session is a step of the server, of its peer, or none of theirs.
LEMMA StepOfServer ==
  ASSUME TypeOK, ClientInv, SessionInv, [SessionNext]_sessionVars
  PROVE  [Server!Next]_(Server!vars)
<1> USE DEF Server!vars, Server!runVars, Server!handlerVars, Server!waitVars, Server!connVars, serverVars
<1>1. CASE ClientMoves
  <2>1. UNCHANGED <<serverVars, reqClosed, inLog>> /\ (reqClosed => reqLog' = reqLog)
    BY <1>1, ClientTouches DEF ClientMoves
  <2>2. CASE reqLog' = reqLog
    BY <2>1, <2>2
  <2>3. ASSUME NEW c \in Callers, WriteDelivers(c), reqLog' # reqLog
        PROVE  Server!PeerSends
    <3>1. pc[c] = "writing" /\ reqLog' = Append(reqLog, call[c]) /\ call[c] \in Ids
      BY <2>3 DEF WriteDelivers, Goto, TypeOK
    <3>2. Len(reqLog) < MaxCalls
      BY <3>1, RoomForRequest DEF SessionInv
    <3> QED
      BY <2>1, <2>3, <3>1, <3>2 DEF Server!PeerSends
  <2> QED
    BY <1>1, <2>2, <2>3, ClientTouches DEF Server!Next
<1>2. CASE ServerMoves
  BY <1>2 DEF ServerMoves, Server!Next
<1>3. CASE ClientCloses
  BY <1>3 DEF ClientCloses, Server!Next, Server!PeerCloses
<1>4. CASE ServerEnds
  BY <1>4 DEF ServerEnds
<1>5. CASE UNCHANGED sessionVars
  BY <1>5 DEF sessionVars, vars, connVars
<1> QED
  BY <1>1, <1>2, <1>3, <1>4, <1>5 DEF SessionNext

\* The client is a peer as the server expects it: it writes requests with IDs, no more
\* than MaxCalls of them, and none after it has closed its stream.
THEOREM SessionClientIsPeer == SessionSpec => ClientIsPeer
<1>1. SessionInit => Server!Init
  BY DEF SessionInit
<1>2. TypeOK /\ ClientInv /\ SessionInv /\ [SessionNext]_sessionVars => [Server!Next]_(Server!vars)
  BY StepOfServer
<1> QED
  BY <1>1, <1>2, SessionInvariant, PTL DEF SessionSpec, ClientIsPeer, Server!Spec

\* A call returns what the goroutine of its own request wrote, whatever the number of
\* calls under way, of events between the responses and of contexts that expire.
THEOREM SessionOwnResult == SessionSpec => []CallGetsOwnResult
<1>1. ASSUME TypeOK, ClientInv, SessionInv
      PROVE  CallGetsOwnResult
  <2> SUFFICES ASSUME NEW i \in Ids, outcome[i] \in {"response", "remoteErr"}
               PROVE  \E k \in DOMAIN reqLog :
                        /\ reqLog[k] = i
                        /\ \A j \in DOMAIN reqLog : reqLog[j] = i => j = k
                        /\ sentAt[k] = answer[i]
                        /\ outcome[i] = "remoteErr" <=> errs[k]
    BY DEF CallGetsOwnResult
  <2> USE <1>1 DEF SessionInv, ClientInv
  <2>1. answer[i] # 0 /\ (outcome[i] = "remoteErr" <=> inLog[answer[i]].errs)
    BY DEF OutcomesReal
  <2>2. answer[i] \in DOMAIN inLog /\ inLog[answer[i]].id = i
    BY <2>1 DEF ContentsMatch, FirstWithId, HasId, TypeOK
  <2>3. i # NoId
    BY ClientConstants DEF ClientConstants, Ids, NoId
  <2>4. PICK k \in Requests : sentAt[k] = answer[i]
    BY <2>2, <2>3 DEF ResponsesOwned
  <2>5. inLog[answer[i]] = [id |-> reqLog[k], errs |-> errs[k]]
    BY <2>1, <2>4 DEF ResponsesOwned
  <2>6. k \in DOMAIN reqLog
    <3>1. k \in Nat \ {0} /\ serverRd \in 0 .. Len(reqLog) /\ k <= serverRd
      BY <2>1, <2>4 DEF ServerTypes, HandledWasRead, Requests
    <3>2. DOMAIN reqLog = 1 .. Len(reqLog) /\ Len(reqLog) \in Nat
      BY DEF TypeOK
    <3> QED
      BY <3>1, <3>2
  <2>7. reqLog[k] = i
    BY <2>2, <2>5
  <2>8. \A j \in DOMAIN reqLog : reqLog[j] = i => j = k
    BY <2>6, <2>7 DEF RequestsDistinct
  <2>9. outcome[i] = "remoteErr" <=> errs[k]
    <3>1. inLog[answer[i]].errs = errs[k]
      BY <2>5
    <3> QED
      BY <2>1, <3>1, Zenon
  <2> QED
    BY <2>4, <2>6, <2>7, <2>8, <2>9, Zenon
<1> QED
  BY <1>1, SessionInvariant, PTL

\* As the server is the client's peer, what is shown of the client with any peer holds
\* in the session; TestServer relies on this much of it (rpc_server_test.go:45).
THEOREM SessionHandlesInOrder == SessionSpec => []HandledBeforeReturn
BY SessionServerIsPeer, ClientHandlesInOrder, PTL DEF ServerIsPeer
=============================================================================
