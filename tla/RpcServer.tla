------------------------------ MODULE RpcServer ------------------------------
(***************************************************************************)
(* The Go RPC server (interop/rpc_server.go, started by bg_runner.go): Run *)
(* reads requests and starts a goroutine for each, which lets the          *)
(* dispatcher respond and writes the response.  Errors of failed writes    *)
(* and the error that ends the read loop go through the channel s.err, of  *)
(* capacity ErrCap.  WaitClean waits on the WaitGroup s.wait.              *)
(*                                                                         *)
(* The conn is the environment: reqs holds the IDs of the messages the     *)
(* peer sent, outLog the messages the server got across.                   *)
(***************************************************************************)
EXTENDS Integers, Sequences, FiniteSets

CONSTANTS
  Ids,          \* IDs a request may have
  NoId,         \* a message without an ID
  Cleaners,     \* goroutines that call WaitClean or WaitCleanContext
  Expiring,     \* those of them whose ctx gets done
  ErrCap,       \* capacity of s.err: 2 in the code
  MaxRequests,  \* bound on the messages of the peer
  MaxEvents,    \* bound on the events sent with Send
  MaxFailures,  \* bound on the writes of responses that fail
  WaitEarly     \* may WaitClean be called while Run still reads?

ASSUME ServerConstants ==
  /\ NoId \notin Ids
  /\ Expiring \subseteq Cleaners
  /\ {ErrCap, MaxRequests, MaxEvents, MaxFailures} \subseteq Nat
  /\ WaitEarly \in BOOLEAN

VARIABLES
  run, rd,      \* Run: where it is, and how many messages it has read
  handler,      \* per request: where its goroutine is
  errs,         \* per request: has its response an Error header?
  sentAt,       \* per request: position of its response in outLog, or 0
  errCh,        \* contents of s.err
  runErr,       \* what Run returned
  ctxDone,      \* cancel() has been called
  wait,         \* counter of s.wait
  cleaner,      \* per cleaner: where its call of s.wait.Wait is
  gaveUp,       \* cleaners whose WaitCleanContext returned because of its ctx
  failed,       \* requests whose response could not be written
  events,       \* events sent
  reqs, eof,    \* what the peer has sent, and whether it closed the stream
  outLog,       \* messages that reached the peer
  crashed       \* sync.WaitGroup panicked

runVars == <<run, rd, errCh, runErr, ctxDone>>
handlerVars == <<handler, errs, sentAt, failed>>
waitVars == <<wait, cleaner, gaveUp, crashed>>
connVars == <<reqs, eof, outLog, events>>
vars == <<runVars, handlerVars, waitVars, connVars>>

Requests == 1 .. MaxRequests
Unfinished == {"responding", "streaming", "writing", "pushing", "finishing"}

Init ==
  /\ run = "reading" /\ rd = 0
  /\ handler = [p \in Requests |-> "none"]
  /\ errs = [p \in Requests |-> FALSE]
  /\ sentAt = [p \in Requests |-> 0]
  /\ errCh = <<>> /\ runErr = "none"
  /\ ctxDone = FALSE
  /\ wait = 0
  /\ cleaner = [w \in Cleaners |-> "idle"]
  /\ gaveUp = {}
  /\ failed = {} /\ events = 0
  /\ reqs = <<>> /\ eof = FALSE
  /\ outLog = <<>>
  /\ crashed = FALSE

-----------------------------------------------------------------------------
(* Run. *)

\* The goroutine itself would count, once it is scheduled.
ReadUncounted ==
  /\ run = "reading"
  /\ rd < Len(reqs)
  /\ rd' = rd + 1
  /\ \E kind \in {"responding", "streaming"} : handler' = [handler EXCEPT ![rd + 1] = kind]
  /\ UNCHANGED <<run, errCh, runErr, ctxDone, errs, sentAt, failed, waitVars, connVars>>

\* Read returns a request; s.wait.Add(1); go func.  A responder either returns by
\* itself or, "streaming", goes on until its ctx is done.
ReadRequest ==
  /\ run = "reading"
  /\ rd < Len(reqs)
  /\ rd' = rd + 1
  /\ wait' = wait + 1
  /\ \E kind \in {"responding", "streaming"} : handler' = [handler EXCEPT ![rd + 1] = kind]
  /\ UNCHANGED <<run, errCh, runErr, ctxDone, errs, sentAt, failed, cleaner, gaveUp, crashed, connVars>>

\* The loop is left without s.err <- err.
ReadFailsSilently ==
  /\ run = "reading"
  /\ eof
  /\ rd = Len(reqs)
  /\ run' = "popping"
  /\ UNCHANGED <<rd, errCh, runErr, ctxDone, handlerVars, waitVars, connVars>>

ReadFails ==
  /\ run = "reading"
  /\ eof
  /\ rd = Len(reqs)
  /\ run' = "pushing"
  /\ UNCHANGED <<rd, errCh, runErr, ctxDone, handlerVars, waitVars, connVars>>

\* s.err <- e: blocks while the channel is full.
PushErr(e) ==
  /\ Len(errCh) < ErrCap
  /\ errCh' = Append(errCh, e)

PushReadErr ==
  /\ run = "pushing"
  /\ PushErr("readErr")
  /\ run' = "popping"
  /\ UNCHANGED <<rd, runErr, ctxDone, handlerVars, waitVars, connVars>>

\* err = <-s.err
PopErr ==
  /\ run = "popping"
  /\ errCh # <<>>
  /\ runErr' = Head(errCh)
  /\ errCh' = Tail(errCh)
  /\ run' = "canceling"
  /\ UNCHANGED <<rd, ctxDone, handlerVars, waitVars, connVars>>

\* cancel() is forgotten.
ReturnUncanceled ==
  /\ run = "canceling"
  /\ run' = "returned"
  /\ UNCHANGED <<rd, errCh, runErr, ctxDone, handlerVars, waitVars, connVars>>

\* cancel(), and Run returns.
CancelAndReturn ==
  /\ run = "canceling"
  /\ ctxDone' = TRUE
  /\ run' = "returned"
  /\ UNCHANGED <<rd, errCh, runErr, handlerVars, waitVars, connVars>>

\* bgRunner.Start: b.err is set, then the blocker that Wait waits for is closed.
CloseBlocker ==
  /\ run = "returned"
  /\ run' = "blockerClosed"
  /\ UNCHANGED <<rd, errCh, runErr, ctxDone, handlerVars, waitVars, connVars>>

RunStep ==
  ReadRequest \/ ReadFails \/ PushReadErr \/ PopErr \/ CancelAndReturn \/ CloseBlocker

-----------------------------------------------------------------------------
(* The goroutine of request p. *)

\* The response is written after Respond and not in the deferred function, so that a
\* panicking responder is not answered for.
RespondUnrecovered(p) ==
  /\ handler[p] = "responding" \/ (handler[p] = "streaming" /\ ctxDone)
  /\ \E e \in BOOLEAN : errs' = [errs EXCEPT ![p] = e]
  /\ \E next \in {"writing", "finishing"} : handler' = [handler EXCEPT ![p] = next]
  /\ UNCHANGED <<runVars, sentAt, failed, waitVars, connVars>>

\* Respond returns or panics: AddError is called by the responder, or by the
\* deferred function that recovers.
Respond(p) ==
  /\ handler[p] = "responding" \/ (handler[p] = "streaming" /\ ctxDone)
  /\ \E e \in BOOLEAN : errs' = [errs EXCEPT ![p] = e]
  /\ handler' = [handler EXCEPT ![p] = "writing"]
  /\ UNCHANGED <<runVars, sentAt, failed, waitVars, connVars>>

WriteWithId(p, id) ==
  /\ handler[p] = "writing"
  /\ handler' = [handler EXCEPT ![p] = "finishing"]
  /\ outLog' = Append(outLog, [id |-> id, errs |-> errs[p]])
  /\ sentAt' = [sentAt EXCEPT ![p] = Len(outLog) + 1]
  /\ UNCHANGED <<runVars, errs, failed, waitVars, reqs, eof, events>>

\* The goroutine captures the loop variable req instead of its own copy.
WriteLatestId(p) == WriteWithId(p, reqs[rd])

WriteResponse(p) == WriteWithId(p, reqs[p])

WriteFails(p) ==
  /\ handler[p] = "writing"
  /\ Cardinality(failed) < MaxFailures
  /\ failed' = failed \cup {p}
  /\ handler' = [handler EXCEPT ![p] = "pushing"]
  /\ UNCHANGED <<runVars, errs, sentAt, waitVars, connVars>>

PushWriteErr(p) ==
  /\ handler[p] = "pushing"
  /\ PushErr("writeErr")
  /\ handler' = [handler EXCEPT ![p] = "finishing"]
  /\ UNCHANGED <<run, rd, runErr, ctxDone, errs, sentAt, failed, waitVars, connVars>>

\* s.wait.Done(): the last one wakes everybody in Wait.
DoneWhen(p, state) ==
  /\ handler[p] = state
  /\ handler' = [handler EXCEPT ![p] = "done"]
  /\ wait' = wait - 1
  /\ cleaner' = [w \in Cleaners |->
       IF wait = 1 /\ cleaner[w] = "waiting" THEN "woken" ELSE cleaner[w]]
  /\ UNCHANGED <<runVars, errs, sentAt, failed, gaveUp, crashed, connVars>>

Done(p) == DoneWhen(p, "finishing")

HandlerStep(p) ==
  Respond(p) \/ WriteResponse(p) \/ WriteFails(p) \/ PushWriteErr(p) \/ Done(p)

-----------------------------------------------------------------------------
(* Send, and WaitClean with sync.WaitGroup. *)

SendMessage(id) ==
  /\ events < MaxEvents
  /\ events' = events + 1
  /\ outLog' = Append(outLog, [id |-> id, errs |-> FALSE])
  /\ UNCHANGED <<runVars, handlerVars, waitVars, reqs, eof>>

SendUnchecked == \E id \in Ids \cup {NoId} : SendMessage(id)

\* An event with an ID is refused with ErrEventHasID, and nothing is written.
Send == SendMessage(NoId)

Returned == IF run = "reading" THEN "early" ELSE "clean"

WaitClean(w) ==
  /\ cleaner[w] = "idle"
  /\ WaitEarly \/ run # "reading"
  /\ cleaner' = [cleaner EXCEPT ![w] = IF wait = 0 THEN Returned ELSE "waiting"]
  /\ UNCHANGED <<runVars, handlerVars, wait, gaveUp, crashed, connVars>>

\* A goroutine woken in Wait panics when it finds that the group is in use again:
\* "WaitGroup is reused before previous Wait has returned".
WokenReturns(w) ==
  /\ cleaner[w] = "woken"
  /\ crashed' = (wait # 0)
  /\ cleaner' = [cleaner EXCEPT ![w] = IF wait = 0 THEN Returned ELSE "woken"]
  /\ UNCHANGED <<runVars, handlerVars, wait, gaveUp, connVars>>

\* WaitCleanContext returns an error when ctx is done first; the goroutine that
\* waits for it in s.wait.Wait stays there.
CtxExpires(w) ==
  /\ w \in Expiring \ gaveUp
  /\ cleaner[w] \in {"waiting", "woken"}
  /\ gaveUp' = gaveUp \cup {w}
  /\ UNCHANGED <<runVars, handlerVars, wait, cleaner, crashed, connVars>>

ServerStep ==
  /\ ~crashed
  /\ \/ RunStep
     \/ \E p \in Requests : HandlerStep(p)
     \/ Send
     \/ \E w \in Cleaners : WaitClean(w) \/ WokenReturns(w) \/ CtxExpires(w)

-----------------------------------------------------------------------------
(* The peer. *)

PeerSends ==
  /\ ~eof
  /\ Len(reqs) < MaxRequests
  /\ \E i \in Ids \cup {NoId} : reqs' = Append(reqs, i)
  /\ UNCHANGED <<runVars, handlerVars, waitVars, eof, outLog, events>>

PeerCloses ==
  /\ ~eof
  /\ eof' = TRUE
  /\ UNCHANGED <<runVars, handlerVars, waitVars, reqs, outLog, events>>

Next == ServerStep \/ PeerSends \/ PeerCloses

Spec == Init /\ [][Next]_vars

\* The scheduler runs every goroutine that can move, and writes return; a
\* responder returns, or returns once its ctx is done.
Fairness ==
  /\ WF_vars(~crashed /\ RunStep)
  /\ \A p \in Requests : WF_vars(~crashed /\ HandlerStep(p))
  /\ \A w \in Cleaners : WF_vars(~crashed /\ WokenReturns(w))

FairSpec == Spec /\ Fairness
-----------------------------------------------------------------------------
(* Properties. *)

TypeOK ==
  /\ run \in {"reading", "pushing", "popping", "canceling", "returned", "blockerClosed"}
  /\ rd \in 0 .. Len(reqs)
  /\ handler \in [Requests -> Unfinished \cup {"none", "done"}]
  /\ errs \in [Requests -> BOOLEAN]
  /\ sentAt \in [Requests -> 0 .. Len(outLog)]
  /\ errCh \in Seq({"readErr", "writeErr"})
  /\ runErr \in {"none", "readErr", "writeErr"}
  /\ ctxDone \in BOOLEAN
  /\ wait \in Nat
  /\ cleaner \in [Cleaners -> {"idle", "waiting", "woken", "early", "clean"}]
  /\ gaveUp \subseteq Expiring
  /\ failed \subseteq Requests
  /\ events \in 0 .. MaxEvents
  /\ reqs \in Seq(Ids \cup {NoId}) /\ Len(reqs) <= MaxRequests
  /\ eof \in BOOLEAN
  /\ outLog \in Seq([id : Ids \cup {NoId}, errs : BOOLEAN])
  /\ crashed \in BOOLEAN

\* The messages with an ID that reach the peer are the responses, one to one: each
\* has the ID and the errors of a request of its own that was read, whatever the
\* order in which the goroutines write, and no event is mistaken for a response.
ResponsesMirrorRequests ==
  /\ \A p \in Requests : sentAt[p] # 0 =>
       /\ p <= rd
       /\ outLog[sentAt[p]] = [id |-> reqs[p], errs |-> errs[p]]
       /\ \A q \in Requests : sentAt[q] = sentAt[p] => q = p
  /\ \A k \in DOMAIN outLog : outLog[k].id # NoId => \E p \in Requests : sentAt[p] = k

\* Every request read has a goroutine, and when that is done the request was
\* answered, or its write failed: a panicking responder loses no response.
DoneIsAnswered ==
  \A p \in 1 .. rd :
    /\ handler[p] # "none"
    /\ handler[p] = "done" => (sentAt[p] # 0 <=> p \notin failed)

\* "WaitClean blocks while RPC requests are running, even after Run has returned":
\* when it returns after the read loop, no request is running, and none will be.
CleanMeansQuiet ==
  (\E w \in Cleaners : cleaner[w] = "clean") => \A p \in Requests : handler[p] \notin Unfinished

\* sync.WaitGroup panics only if WaitClean was called while Run still read, when
\* s.wait.Add may come between the waking and the return of Wait.
PanicOnlyIfEarly == crashed => WaitEarly

\* As long as fewer than ErrCap writes have failed, neither Run nor a goroutine
\* that reports an error blocks on s.err.
ErrChHasRoom ==
  Cardinality(failed) < ErrCap /\ (run = "pushing" \/ \E p \in Requests : handler[p] = "pushing")
    => Len(errCh) < ErrCap

\* Once the peer closes the stream, Run returns and bgRunner.Wait with it, unless
\* the errors of failed writes have filled s.err.
RunReturns == eof ~> (run = "blockerClosed" \/ crashed \/ Cardinality(failed) >= ErrCap)

\* Once the peer closes the stream, WaitClean returns, under the same condition: the
\* responders that wait for their ctx are let go too.
CleanReturns ==
  \A w \in Cleaners : (eof /\ cleaner[w] = "waiting") ~>
    (cleaner[w] \in {"early", "clean"} \/ crashed \/ Cardinality(failed) >= ErrCap)

\* bg_runner.go: "Wait for the process to finish running in the background, returning
\* its error."
WaitReturnsAfterEOF == eof ~> (run = "blockerClosed" \/ crashed)

-----------------------------------------------------------------------------
(* The inductive invariant behind the safety properties. *)

\* Goroutines s.wait counts, and those that have put their error in s.err.
Running == {p \in Requests : handler[p] \in Unfinished}
Reported == {p \in failed : handler[p] \in {"finishing", "done"}}

\* A goroutine for every message read, and s.wait counts the unfinished ones.
RunningCounted ==
  /\ \A p \in Requests : handler[p] = "none" <=> p > rd
  /\ wait = Cardinality(Running)
  /\ run # "reading" => eof /\ rd = Len(reqs)

\* A goroutine past its write has either a response in outLog or a failure.
WrittenOrFailed ==
  /\ \A p \in Requests : sentAt[p] # 0 \/ p \in failed <=> handler[p] \in {"pushing", "finishing", "done"}
  /\ \A p \in Requests : sentAt[p] # 0 => p \notin failed /\ handler[p] # "pushing"

\* After the read loop nothing adds to s.wait: who is woken, or has left, finds 0.
WokenFindsZero ==
  /\ \A w \in Cleaners : cleaner[w] = "clean" => run # "reading" /\ wait = 0
  /\ ~WaitEarly => \A w \in Cleaners :
       /\ cleaner[w] \in {"waiting", "woken"} => run # "reading"
       /\ cleaner[w] = "woken" => wait = 0

\* s.err holds one error per reported failure, plus that of Read, less the one Run took.
ErrChCounts ==
  Len(errCh) = Cardinality(Reported) + (IF run = "popping" THEN 1 ELSE 0)

\* Together with TypeOK, what every interleaving of Run, the goroutines of the
\* requests and the callers of WaitClean preserves.
ServerInv ==
  /\ RunningCounted /\ WrittenOrFailed /\ ResponsesMirrorRequests
  /\ WokenFindsZero /\ ErrChCounts /\ PanicOnlyIfEarly
=============================================================================
