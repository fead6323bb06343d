------------------------------ MODULE RpcClient ------------------------------
(***************************************************************************)
(* The Go RPC client (interop/rpc_client.go): goroutines call SendContext  *)
(* while one goroutine runs Run, the loop that reads messages and matches  *)
(* responses with requests by ID.  The two sides meet in the map results   *)
(* (guarded by a mutex) and in one channel of capacity 1 per call.         *)
(*                                                                         *)
(* The conn is the environment: requests that reach the peer are logged in *)
(* reqLog, what the peer sends is logged in inLog, in stream order.  The   *)
(* peer may answer late, twice or never, and may send events (no ID).      *)
(*                                                                         *)
(* A call is named by the number in its ID; IDPrefix is the same for all   *)
(* calls of a client, so the ID string and the number determine each other.*)
(***************************************************************************)
EXTENDS Integers, Sequences, FiniteSets

CONSTANTS
  Callers,     \* goroutines that call SendContext
  Handlers,    \* event handlers that call SendContext, in the goroutine of Run
  Expiring,    \* callers whose ctx gets done: Timeout > 0, or a ctx that ends; by
               \* default Timeout is 0, and Send uses context.Background()
  MaxCalls,    \* bound on the IDs handed out
  MaxInbound,  \* bound on the messages the peer sends
  TornWrites   \* may Write report an error for a message that was delivered?

ASSUME HandlersAssumption == Handlers \subseteq Callers

ASSUME ClientConstants ==
  /\ Expiring \subseteq Callers
  /\ MaxCalls \in Nat
  /\ MaxInbound \in Nat
  /\ TornWrites \in BOOLEAN

VARIABLES
  nextId,      \* c.nextId
  results,     \* the keys of c.results
  chanMsg,     \* per call: position in inLog of the message in responseChan, or 0
  chanClosed,  \* per call: is responseChan closed?
  pc, call,    \* per caller: where it is in SendContext, and the ID it drew
  outcome,     \* per call: how SendContext returned
  answer,      \* per call: position in inLog of the response it returned, or 0
  run, rd,     \* Run: where it is, and how many messages it has read
  dispatched,  \* positions of the messages Events.Dispatch is done with
  reqLog,      \* IDs of the requests that reached the peer, in order
  inLog, eof,  \* what the peer has sent, and whether it closed the stream
  torn,        \* calls whose Write failed although the request was delivered
  crashed      \* a channel operation panicked and took the process down

callVars == <<pc, call, outcome, answer>>
chanVars == <<chanMsg, chanClosed>>
loopVars == <<run, rd, dispatched>>
connVars == <<reqLog, inLog, eof>>
vars == <<nextId, results, chanVars, callVars, loopVars, connVars, torn, crashed>>

Ids == 0 .. MaxCalls - 1
NoId == -1
Message == [id : Ids \cup {NoId}, errs : BOOLEAN]
Delivered == {reqLog[k] : k \in DOMAIN reqLog}

Init ==
  /\ nextId = 0
  /\ results = {}
  /\ chanMsg = [i \in Ids |-> 0]
  /\ chanClosed = [i \in Ids |-> FALSE]
  /\ pc = [c \in Callers |-> "idle"]
  /\ call = [c \in Callers |-> NoId]
  /\ outcome = [i \in Ids |-> "pending"]
  /\ answer = [i \in Ids |-> 0]
  /\ run = "reading"
  /\ rd = 0
  /\ dispatched = {}
  /\ reqLog = <<>>
  /\ inLog = <<>>
  /\ eof = FALSE
  /\ torn = {}
  /\ crashed = FALSE

-----------------------------------------------------------------------------
(* Go channels and the map of pending calls. *)

ReleaseResponseChan(i) == results' = results \ {i}

\* close(responseChan): closing twice panics.
Close(i) ==
  /\ crashed' = chanClosed[i]
  /\ chanClosed' = [chanClosed EXCEPT ![i] = TRUE]

\* An unbuffered channel needs its receiver in the select.
RoomForUnbuffered(i) == \E c \in Callers : pc[c] = "waiting" /\ call[c] = i

\* The buffer of responseChan holds one message.
RoomFor(i) == chanMsg[i] = 0

Goto(c, from, to) ==
  /\ pc[c] = from
  /\ pc' = [pc EXCEPT ![c] = to]

Return(c, from, how) ==
  /\ Goto(c, from, "idle")
  /\ outcome' = [outcome EXCEPT ![call[c]] = how]

-----------------------------------------------------------------------------
(* SendContext, one action per step that another goroutine can observe. *)

\* The handlers run one after the other.
HandlersIdle == \A h \in Handlers : pc[h] = "idle"

RegisterWith(c, id, table) ==
  /\ nextId < MaxCalls
  /\ c \in Handlers => run = "dispatching" /\ HandlersIdle
  /\ Goto(c, "idle", "writing")
  /\ call' = [call EXCEPT ![c] = id]
  /\ nextId' = nextId + 1
  /\ results' = table
  /\ UNCHANGED <<chanVars, outcome, answer, loopVars, connVars, torn, crashed>>

\* The ID is drawn after the increment.
RegisterPreIncrement(c) == RegisterWith(c, nextId + 1, results \cup {nextId + 1})
\* The channel is not put in the map.
RegisterForgotten(c) == RegisterWith(c, nextId, results)

Register(c) == RegisterWith(c, nextId, results \cup {nextId})

\* conn.Write gets the whole message across; the peer may answer from now on.
WriteDelivers(c) ==
  /\ Goto(c, "writing", "written")
  /\ reqLog' = Append(reqLog, call[c])
  /\ UNCHANGED <<nextId, results, chanVars, call, outcome, answer, loopVars, inLog, eof, torn, crashed>>

WriteReturns(c) ==
  /\ Goto(c, "written", "waiting")
  /\ UNCHANGED <<nextId, results, chanVars, call, outcome, answer, loopVars, connVars, torn, crashed>>

\* conn.Write returns an error, normally with nothing delivered.  A write
\* interceptor may also fail after it has written the message.
WriteFails(c) ==
  /\ \/ Goto(c, "writing", "releasing") /\ UNCHANGED torn
     \/ /\ TornWrites
        /\ Goto(c, "written", "releasing")
        /\ torn' = torn \cup {call[c]}
  /\ UNCHANGED <<nextId, results, chanVars, call, outcome, answer, loopVars, connVars, crashed>>

ReleaseAfterError(c) ==
  /\ Goto(c, "releasing", "closing")
  /\ ReleaseResponseChan(call[c])
  /\ UNCHANGED <<nextId, chanVars, call, outcome, answer, loopVars, connVars, torn, crashed>>

CloseAfterError(c) ==
  /\ Return(c, "closing", "writeErr")
  /\ Close(call[c])
  /\ UNCHANGED <<nextId, results, chanMsg, call, answer, loopVars, connVars, torn>>

\* The first case of the select: a message, or nil from a closed channel.
Receive(c) ==
  LET i == call[c]
      p == chanMsg[i]
  IN  /\ pc[c] = "waiting"
      /\ p # 0 \/ chanClosed[i]
      /\ Return(c, "waiting", IF p = 0 THEN "unexpectedEOF"
                              ELSE IF inLog[p].errs THEN "remoteErr" ELSE "response")
      /\ answer' = [answer EXCEPT ![i] = p]
      /\ chanMsg' = [chanMsg EXCEPT ![i] = 0]
      /\ UNCHANGED <<nextId, results, chanClosed, call, loopVars, connVars, torn, crashed>>

\* The select does not watch ctx.
CtxIgnored(c) == FALSE /\ UNCHANGED vars

\* The second case: ctx is done, and the select picks it.
CtxDone(c) ==
  /\ c \in Expiring
  /\ Goto(c, "waiting", "expired")
  /\ UNCHANGED <<nextId, results, chanVars, call, outcome, answer, loopVars, connVars, torn, crashed>>

\* The entry stays in the map.
ExpireLeaking(c) ==
  /\ Return(c, "expired", "ctxErr")
  /\ UNCHANGED <<nextId, results, chanVars, call, answer, loopVars, connVars, torn, crashed>>
\* The channel is closed too, as on the write error path.
ExpireClosing(c) ==
  /\ Return(c, "expired", "ctxErr")
  /\ ReleaseResponseChan(call[c])
  /\ Close(call[c])
  /\ UNCHANGED <<nextId, chanMsg, call, answer, loopVars, connVars, torn>>

ReleaseAfterExpiry(c) ==
  /\ Return(c, "expired", "ctxErr")
  /\ ReleaseResponseChan(call[c])
  /\ UNCHANGED <<nextId, chanVars, call, answer, loopVars, connVars, torn, crashed>>

CallerStep(c) ==
  \/ WriteDelivers(c) \/ WriteReturns(c) \/ WriteFails(c)
  \/ ReleaseAfterError(c) \/ CloseAfterError(c)
  \/ Receive(c) \/ ReleaseAfterExpiry(c)

-----------------------------------------------------------------------------
(* Run: ReadAllMessages with onReceiveMessage. *)

\* Responses are handed out in the order of the calls, whatever their ID.
OldestPending(m) ==
  IF m.id = NoId \/ results = {} THEN m.id
  ELSE CHOOSE i \in results : \A j \in results : i <= j

\* The call a message is matched with.
MatchedCall(m) == m.id

\* Read returns the next message and releaseResponseChan looks its ID up.  The
\* read itself commutes with everything the callers do, so the two are one step.
OnReceiveMessageWhen(ready) ==
  /\ ready
  /\ rd < Len(inLog)
  /\ rd' = rd + 1
  /\ LET i == MatchedCall(inLog[rd + 1])
     IN  IF i \in results
         THEN run' = "claimed" /\ ReleaseResponseChan(i)
         ELSE run' = "dispatching" /\ UNCHANGED results
  /\ UNCHANGED <<nextId, chanVars, callVars, dispatched, connVars, torn, crashed>>

\* Events are dispatched in a goroutine of their own.
OnReceiveMessageAsync == OnReceiveMessageWhen(run \in {"reading", "dispatching"})

OnReceiveMessage == OnReceiveMessageWhen(run = "reading")

\* responseChan <- message: blocks when full, panics when closed.
SendResponse ==
  LET i == MatchedCall(inLog[rd])
  IN  /\ run = "claimed"
      /\ chanClosed[i] \/ RoomFor(i)
      /\ run' = "sent"
      /\ crashed' = chanClosed[i]
      /\ chanMsg' = [chanMsg EXCEPT ![i] = rd]
      /\ UNCHANGED <<nextId, results, chanClosed, callVars, rd, dispatched, connVars, torn>>

CloseResponse ==
  /\ run = "sent"
  /\ run' = "reading"
  /\ Close(MatchedCall(inLog[rd]))
  /\ UNCHANGED <<nextId, results, chanMsg, callVars, rd, dispatched, connVars, torn>>

\* Events.Dispatch runs the handlers in this goroutine; it is over when they are.
\* An error of a handler ends Run.
DispatchReturns ==
  /\ run = "dispatching"
  /\ HandlersIdle
  /\ run' \in {"reading", "returned"}
  /\ dispatched' = dispatched \cup {rd}
  /\ UNCHANGED <<nextId, results, chanVars, callVars, rd, connVars, torn, crashed>>

\* Read returns an error and Run returns it.
ReadFails ==
  /\ run = "reading"
  /\ eof
  /\ rd = Len(inLog)
  /\ run' = "returned"
  /\ UNCHANGED <<nextId, results, chanVars, callVars, rd, dispatched, connVars, torn, crashed>>

LoopStep ==
  OnReceiveMessage \/ SendResponse \/ CloseResponse \/ DispatchReturns \/ ReadFails

-----------------------------------------------------------------------------
(* The peer: answers requests it received, sends events, closes the stream. *)

PeerSends ==
  /\ ~eof
  /\ Len(inLog) < MaxInbound
  /\ \E i \in Delivered \cup {NoId}, e \in BOOLEAN :
       /\ i = NoId => ~e
       /\ inLog' = Append(inLog, [id |-> i, errs |-> e])
  /\ UNCHANGED <<nextId, results, chanVars, callVars, loopVars, reqLog, eof, torn, crashed>>

PeerCloses ==
  /\ ~eof
  /\ eof' = TRUE
  /\ UNCHANGED <<nextId, results, chanVars, callVars, loopVars, reqLog, inLog, torn, crashed>>

ClientStep ==
  /\ ~crashed
  /\ \/ \E c \in Callers : Register(c) \/ CallerStep(c) \/ CtxDone(c)
     \/ LoopStep

Next == ClientStep \/ PeerSends \/ PeerCloses

Spec == Init /\ [][Next]_vars

\* The scheduler runs every goroutine that can move; writes and event handlers
\* return; a ctx with a deadline gets done.  Nothing is assumed of the peer.
Fairness ==
  /\ \A c \in Callers : WF_vars(~crashed /\ CallerStep(c))
  /\ \A c \in Expiring : WF_vars(~crashed /\ CtxDone(c))
  /\ WF_vars(~crashed /\ LoopStep)

FairSpec == Spec /\ Fairness

-----------------------------------------------------------------------------
(* Properties. *)

TypeOK ==
  /\ nextId \in 0 .. MaxCalls
  /\ results \subseteq Ids
  /\ chanMsg \in [Ids -> Nat]
  /\ chanClosed \in [Ids -> BOOLEAN]
  /\ pc \in [Callers -> {"idle", "writing", "written", "releasing", "closing", "waiting", "expired"}]
  /\ call \in [Callers -> Ids \cup {NoId}]
  /\ \A c \in Callers : pc[c] # "idle" => call[c] \in Ids
  /\ outcome \in [Ids -> {"pending", "response", "remoteErr", "unexpectedEOF", "ctxErr", "writeErr"}]
  /\ answer \in [Ids -> Nat]
  /\ run \in {"reading", "claimed", "sent", "dispatching", "returned"}
  /\ rd \in 0 .. Len(inLog)
  /\ dispatched \subseteq Nat
  /\ reqLog \in Seq(Ids)
  /\ inLog \in Seq(Message)
  /\ run \in {"claimed", "sent"} => rd > 0 /\ inLog[rd].id \in Ids
  /\ eof \in BOOLEAN
  /\ torn \subseteq Ids
  /\ crashed \in BOOLEAN

\* A call that returns a response returns the first message the peer sent with
\* the ID of that call (never another call's, never a duplicate), and reports an
\* error exactly when that message has Error headers.
ResponseIsFirstMatch ==
  \A i \in Ids : outcome[i] \in {"response", "remoteErr"} =>
    LET p == answer[i]
    IN  /\ p \in 1 .. rd
        /\ inLog[p].id = i
        /\ \A q \in 1 .. p - 1 : inLog[q].id # i
        /\ outcome[i] = "remoteErr" <=> inLog[p].errs

\* The map results holds no entry of a call that has returned: every exit of
\* SendContext (response, ctx, write error) has released its entry.
NoLeakedEntry ==
  \A i \in results : \E c \in Callers : call[c] = i /\ pc[c] \notin {"idle", "closing"}

\* A message with an ID reaches the event handlers only when the call it answers
\* is over: it repeats an earlier ID, or the caller gave up, or its Write failed.
StrayOnlyWhenLate ==
  \A p \in dispatched :
    LET i == inLog[p].id
    IN  \/ i = NoId
        \/ \E q \in 1 .. p - 1 : inLog[q].id = i
        \/ outcome[i] = "ctxErr"
        \/ i \in torn

\* When SendContext returns a response, every message that precedes it in the
\* stream has been dealt with: its handlers have returned, or it was handed to
\* its own caller.  The test of the server relies on it (rpc_server_test.go:45).
HandledBeforeReturn ==
  \A i \in Ids : \A q \in 1 .. answer[i] - 1 :
    q \in dispatched \/ \E j \in Ids : q = answer[j] \/ q = chanMsg[j]

\* The channel of a call is closed by SendContext or by onReceiveMessage, and the
\* latter sends on it: they collide only when a delivered Write reports an error.
PanicOnlyIfTorn == crashed => torn # {}

\* Nobody closes a channel a caller still waits on without sending first: the
\* branch of SendContext for a nil response (io.ErrUnexpectedEOF) is never taken.
NeverUnexpectedEOF == \A i \in Ids : outcome[i] # "unexpectedEOF"

\* A call whose ctx gets done returns, whatever the peer does.
SendReturns == \A c \in Expiring : (pc[c] # "idle") ~> (pc[c] = "idle" \/ crashed)

\* An event handler is in a Send without a deadline.  The goroutine that would read its
\* response is its own.
HandlerWaits == \E h \in Handlers \ Expiring : pc[h] = "waiting"

\* Run gets to every message the peer has sent, unless an event handler waits for ever in
\* a Send that has no deadline: nothing else, be it a response that is handed out to a
\* caller who has left or a handler whose Send has a deadline, holds it up
\* (onReceiveMessage).
ReadingNotBlocked ==
  <>[]HandlerWaits \/ ((rd < Len(inLog)) ~> (rd = Len(inLog) \/ run = "returned" \/ crashed))

\* A call that the peer answers returns, unless Run stopped before, or stands still because
\* an event handler waits for ever in a Send that has no deadline.  Whose Send that is makes
\* no difference: its own answer is not read either (SendContext, onReceiveMessage).
AnsweredReturns ==
  <>[]HandlerWaits \/ \A i \in Ids : (\E p \in DOMAIN inLog : inLog[p].id = i)
                                     ~> (outcome[i] # "pending" \/ run = "returned" \/ crashed)

-----------------------------------------------------------------------------
(* The inductive invariant behind the safety properties. *)

Active(c) == pc[c] # "idle"
Busy == run \in {"claimed", "sent"}
\* Positions of the messages Run is done with, but for the one it may hold.
Past == 1 .. (IF run \in {"reading", "returned"} THEN rd ELSE rd - 1)
HasId(q, i) == inLog[q].id = i

\* Every active caller has an ID of its own, and its call is still undecided.
CallsDistinct ==
  /\ \A c \in Callers : call[c] < nextId
  /\ \A c \in Callers : Active(c) =>
       /\ outcome[call[c]] = "pending"
       /\ answer[call[c]] = 0
       /\ \A d \in Callers : Active(d) /\ call[d] = call[c] => d = c

\* Nothing refers to an ID that was not drawn yet, or to a request never delivered.
FreshIds ==
  /\ \A i \in Ids : i >= nextId =>
       /\ i \notin results /\ i \notin Delivered /\ i \notin torn
       /\ chanMsg[i] = 0 /\ ~chanClosed[i] /\ outcome[i] = "pending" /\ answer[i] = 0
  /\ \A q \in DOMAIN inLog : inLog[q].id \in Delivered \cup {NoId}

\* An entry of results belongs to a call in progress that no message has met yet.
EntriesWait ==
  \A i \in results :
    /\ \E c \in Callers : call[c] = i /\ pc[c] \notin {"idle", "closing"}
    /\ chanMsg[i] = 0 /\ ~chanClosed[i]
    /\ \A q \in 1 .. rd : ~HasId(q, i)

\* The message Run hands out has the ID of a call, and is the first that does.
ClaimedIsFirst ==
  Busy => LET i == inLog[rd].id
          IN  /\ i \notin results
              /\ \A q \in 1 .. rd - 1 : ~HasId(q, i)
              /\ run = "claimed" => chanMsg[i] = 0 /\ answer[i] = 0
              /\ run = "sent" => rd = chanMsg[i] \/ rd = answer[i]

\* What is in a channel, or was returned, is the first message with that ID.
FirstWithId(p, i) ==
  p # 0 => p \in 1 .. rd /\ HasId(p, i) /\ \A q \in 1 .. p - 1 : ~HasId(q, i)

ContentsMatch == \A i \in Ids : FirstWithId(chanMsg[i], i) /\ FirstWithId(answer[i], i)

\* Only torn writes fail with the request delivered.
FailedUndelivered ==
  /\ \A c \in Callers :
       /\ pc[c] = "writing" => call[c] \in results /\ call[c] \notin Delivered
       /\ pc[c] \in {"releasing", "closing"} => call[c] \in torn \/ call[c] \notin Delivered
       /\ pc[c] = "closing" => call[c] \notin results
  /\ \A i \in Ids : outcome[i] = "writeErr" => i \in torn \/ i \notin Delivered

\* A closed channel was closed by its caller, or by Run after sending on it.
ClosedByOwner ==
  /\ \A i \in Ids : chanClosed[i] =>
       outcome[i] = "writeErr" \/ \E q \in Past : HasId(q, i)
  /\ \A c \in Callers : pc[c] \in {"written", "waiting"} /\ chanClosed[call[c]] => chanMsg[call[c]] # 0

\* A delivered request without an entry has met a message, expired or failed.
LateIsOver ==
  \A i \in Delivered : i \notin results =>
    \/ \E q \in 1 .. rd : HasId(q, i)
    \/ outcome[i] = "ctxErr"
    \/ i \in torn

\* The message being dispatched is an event or late, as the dispatched ones are.
StrayIsLate(p) ==
  LET i == inLog[p].id
  IN  \/ i = NoId
      \/ \E q \in 1 .. p - 1 : HasId(q, i)
      \/ outcome[i] = "ctxErr"
      \/ i \in torn

StraysLate ==
  /\ \A p \in dispatched : p \in 1 .. rd /\ StrayIsLate(p)
  /\ run = "dispatching" => rd > 0 /\ StrayIsLate(rd)

PastHandled ==
  \A q \in Past : q \in dispatched \/ \E j \in Ids : q = answer[j] \/ q = chanMsg[j]

OutcomesReal ==
  \A i \in Ids :
    /\ outcome[i] # "unexpectedEOF"
    /\ outcome[i] \in {"response", "remoteErr"} =>
         answer[i] # 0 /\ (outcome[i] = "remoteErr" <=> inLog[answer[i]].errs)

\* Together with TypeOK: the state every interleaving of callers, Run and peer
\* preserves, and from which the safety properties above follow.
ClientInv ==
  /\ CallsDistinct /\ FreshIds /\ EntriesWait /\ ClaimedIsFirst /\ ContentsMatch
  /\ FailedUndelivered /\ ClosedByOwner /\ LateIsOver /\ StraysLate /\ PastHandled /\ OutcomesReal
  /\ PanicOnlyIfTorn
=============================================================================
