------------------------------ MODULE GoProofs ------------------------------
(***************************************************************************)
(* Proofs about two parts of the Go library that know nothing of each      *)
(* other, the RPC server and the message pipe.                             *)
(*                                                                         *)
(* The server, for any number of requests, events, failures and waiting    *)
(* goroutines: TypeOK and ServerInv hold in every reachable state, and the *)
(* safety properties follow.  There is one lemma per action, or per group  *)
(* of actions that touch the same part of the state.                       *)
(*                                                                         *)
(* The pipe, for any number of goroutines, any buffer size and any number  *)
(* of messages: it implements Fifo, and Read returns the closer's error    *)
(* only when everything was read.                                          *)
(***************************************************************************)
EXTENDS Pipe, RpcServer, FiniteSetTheorems, TLAPS

-----------------------------------------------------------------------------
(* The server. *)

\* The sets whose sizes s.wait and s.err follow are finite, and a goroutine that
\* is not done is counted.
LEMMA CountedSets ==
  ASSUME TypeOK
  PROVE  /\ IsFiniteSet(Running) /\ Cardinality(Running) \in Nat
         /\ IsFiniteSet(Reported) /\ Cardinality(Reported) \in Nat
         /\ IsFiniteSet(failed) /\ Cardinality(failed) \in Nat
         /\ Running # {} => Cardinality(Running) > 0
<1>1. IsFiniteSet(Requests)
  BY ServerConstants, FS_Interval DEF ServerConstants, Requests
<1>2. Running \subseteq Requests /\ Reported \subseteq Requests /\ failed \subseteq Requests
  BY DEF TypeOK, Running, Reported
<1>3. IsFiniteSet(Running) /\ IsFiniteSet(Reported) /\ IsFiniteSet(failed)
  BY <1>1, <1>2, FS_Subset
<1> QED
  BY <1>3, FS_CardinalityType, FS_EmptySet

\* Reading a request starts a goroutine that was not there, and counts it.
LEMMA ReadRequestKeeps ==
  ASSUME TypeOK, ServerInv, ReadRequest
  PROVE  ServerInv'
<1> USE ServerConstants DEF ServerConstants, ServerInv, Requests, Unfinished, runVars, handlerVars, waitVars, connVars
<1>1. Running' = Running \cup {rd + 1} /\ rd + 1 \notin Running /\ Reported' = Reported
  BY DEF TypeOK, ReadRequest, Running, Reported, RunningCounted, WrittenOrFailed
<1>2. Cardinality(Running') = Cardinality(Running) + 1
  BY ZenonT(30), <1>1, CountedSets, FS_AddElement
<1>3. RunningCounted'
  BY <1>2, SMTT(40) DEF TypeOK, ReadRequest, RunningCounted
<1>4. WrittenOrFailed' /\ ResponsesMirrorRequests'
  BY DEF TypeOK, ReadRequest, RunningCounted, WrittenOrFailed, ResponsesMirrorRequests
<1>5. WokenFindsZero' /\ ErrChCounts' /\ PanicOnlyIfEarly'
  BY <1>1 DEF ReadRequest, WokenFindsZero, ErrChCounts, PanicOnlyIfEarly
<1> QED
  BY <1>3, <1>4, <1>5

\* The other steps of Run start and end no goroutine.
LEMMA RunStepKeeps ==
  ASSUME TypeOK, ServerInv,
         ReadFails \/ PushReadErr \/ PopErr \/ CancelAndReturn \/ CloseBlocker
  PROVE  ServerInv'
<1> USE ServerConstants DEF ServerConstants, ServerInv, Requests, Unfinished, runVars, handlerVars, waitVars, connVars
<1> USE DEF ReadFails, PushReadErr, PushErr, PopErr, CancelAndReturn, CloseBlocker
<1>1. UNCHANGED <<handlerVars, waitVars, connVars, rd>>
  OBVIOUS
<1>2. Running' = Running /\ Reported' = Reported
  BY <1>1 DEF Running, Reported
<1>3. RunningCounted'
  BY <1>1, <1>2 DEF RunningCounted
<1>4. WrittenOrFailed' /\ ResponsesMirrorRequests' /\ PanicOnlyIfEarly'
  BY <1>1 DEF WrittenOrFailed, ResponsesMirrorRequests, PanicOnlyIfEarly
<1>5. WokenFindsZero'
  BY <1>1 DEF WokenFindsZero
<1>6. ErrChCounts'
  <2>1. CASE PushReadErr
    <3>1. Len(errCh') = Len(errCh) + 1
      BY <2>1 DEF TypeOK
    <3> QED
      BY <1>2, <2>1, <3>1, CountedSets DEF ErrChCounts
  <2>2. CASE PopErr
    <3>1. Len(errCh') = Len(errCh) - 1
      BY <2>2 DEF TypeOK
    <3> QED
      BY <1>2, <2>2, <3>1, CountedSets, SMTT(40) DEF ErrChCounts
  <2> QED
    BY <1>2, <2>1, <2>2 DEF ErrChCounts
<1> QED
  BY <1>3, <1>4, <1>5, <1>6

\* A goroutine that responds, or whose write fails, stays unfinished.
LEMMA UnwrittenKeeps ==
  ASSUME TypeOK, ServerInv, NEW p \in Requests, Respond(p) \/ WriteFails(p)
  PROVE  ServerInv'
<1> USE ServerConstants DEF ServerConstants, ServerInv, Requests, Unfinished, runVars, handlerVars, waitVars, connVars
<1> USE DEF Respond, WriteFails
<1>1. UNCHANGED <<runVars, sentAt, waitVars, connVars>>
  OBVIOUS
<1>7. sentAt[p] = 0 /\ p \notin failed
  BY ZenonT(30) DEF TypeOK, WrittenOrFailed
<1>2. Running' = Running /\ Reported' = Reported
  BY ZenonT(30), <1>7 DEF TypeOK, Running, Reported
<1>3. RunningCounted'
  BY <1>1, <1>2, SMTT(40) DEF TypeOK, RunningCounted
<1>4. WrittenOrFailed'
  BY <1>1, <1>7, ZenonT(40) DEF TypeOK, WrittenOrFailed
<1>8. ResponsesMirrorRequests'
  BY <1>1, <1>7, SMTT(40) DEF TypeOK, ResponsesMirrorRequests
<1>5. WokenFindsZero' /\ ErrChCounts' /\ PanicOnlyIfEarly'
  BY <1>1, <1>2 DEF WokenFindsZero, ErrChCounts, PanicOnlyIfEarly
<1> QED
  BY <1>3, <1>4, <1>5, <1>8

\* A response takes a new place in outLog.
LEMMA WriteResponseKeeps ==
  ASSUME TypeOK, ServerInv, NEW p \in Requests, WriteResponse(p)
  PROVE  ServerInv'
<1> USE ServerConstants DEF ServerConstants, ServerInv, Requests, Unfinished, runVars, handlerVars, waitVars, connVars
<1> USE DEF WriteResponse, WriteWithId
<1>6. p <= rd
  BY DEF TypeOK, RunningCounted
<1>7. sentAt[p] = 0 /\ p \notin failed
  BY ZenonT(30) DEF TypeOK, WrittenOrFailed
<1>2. Running' = Running /\ Reported' = Reported
  BY <1>7, SMTT(40) DEF TypeOK, Running, Reported
<1>3. RunningCounted'
  BY <1>2 DEF TypeOK, RunningCounted
<1>4. WrittenOrFailed'
  BY <1>7, SMTT(40) DEF TypeOK, WrittenOrFailed
<1>8. ResponsesMirrorRequests'
  <2>1. /\ Len(outLog') = Len(outLog) + 1
        /\ outLog'[Len(outLog) + 1] = [id |-> reqs[p], errs |-> errs[p]]
        /\ \A k \in 1 .. Len(outLog) : outLog'[k] = outLog[k]
    BY DEF TypeOK
  <2>2. /\ sentAt'[p] = Len(outLog) + 1
        /\ \A q \in Requests : q # p => sentAt'[q] = sentAt[q] /\ sentAt[q] \in 0 .. Len(outLog)
    BY ZenonT(30) DEF TypeOK
  <2>3. \A q \in Requests : sentAt'[q] # 0 =>
          /\ q <= rd
          /\ outLog'[sentAt'[q]] = [id |-> reqs[q], errs |-> errs[q]]
          /\ \A r \in Requests : sentAt'[r] = sentAt'[q] => r = q
    BY <1>6, <1>7, <2>1, <2>2 DEF TypeOK, ResponsesMirrorRequests
  <2>4. \A k \in 1 .. Len(outLog') : outLog'[k].id # NoId => \E q \in Requests : sentAt'[q] = k
    <3>1. ASSUME NEW k \in 1 .. Len(outLog), outLog'[k].id # NoId
          PROVE  \E q \in Requests : sentAt'[q] = k
      <4>1. PICK q \in Requests : sentAt[q] = k
        BY <2>1, <3>1 DEF TypeOK, ResponsesMirrorRequests
      <4> QED
        BY <1>7, <2>2, <4>1
    <3> QED
      BY <2>1, <2>2, <3>1 DEF TypeOK
  <2>5. DOMAIN outLog' = 1 .. Len(outLog')
    BY DEF TypeOK
  <2> QED
    BY ZenonT(30), <2>3, <2>4, <2>5 DEF ResponsesMirrorRequests
<1>5. WokenFindsZero' /\ ErrChCounts' /\ PanicOnlyIfEarly'
  BY <1>2 DEF WokenFindsZero, ErrChCounts, PanicOnlyIfEarly
<1> QED
  BY <1>3, <1>4, <1>5, <1>8

\* A reported failure and its error in s.err go together.
LEMMA PushWriteErrKeeps ==
  ASSUME TypeOK, ServerInv, NEW p \in Requests, PushWriteErr(p)
  PROVE  ServerInv'
<1> USE ServerConstants DEF ServerConstants, ServerInv, Requests, Unfinished, runVars, handlerVars, waitVars, connVars
<1> USE DEF PushWriteErr, PushErr
<1>7. p \in failed
  BY DEF TypeOK, WrittenOrFailed
<1>2. Running' = Running /\ Reported' = Reported \cup {p} /\ p \notin Reported
  BY <1>7 DEF TypeOK, Running, Reported
<1>9. Cardinality(Reported') = Cardinality(Reported) + 1
  BY ZenonT(30), <1>2, CountedSets, FS_AddElement
<1>3. RunningCounted'
  BY <1>2 DEF TypeOK, RunningCounted
<1>4. WrittenOrFailed'
  BY <1>7, SMTT(40) DEF TypeOK, WrittenOrFailed
<1>8. ResponsesMirrorRequests' /\ WokenFindsZero' /\ PanicOnlyIfEarly'
  BY SMTT(40) DEF ResponsesMirrorRequests, WokenFindsZero, PanicOnlyIfEarly
<1>10. Len(errCh') = Len(errCh) + 1
  BY DEF TypeOK
<1>5. ErrChCounts'
  BY <1>9, <1>10, CountedSets, SMTT(40) DEF ErrChCounts
<1> QED
  BY <1>3, <1>4, <1>5, <1>8

\* Done takes one goroutine from the count; whoever it wakes finds zero.
LEMMA DoneKeeps ==
  ASSUME TypeOK, ServerInv, NEW p \in Requests, Done(p)
  PROVE  ServerInv'
<1> USE ServerConstants DEF ServerConstants, ServerInv, Requests, Unfinished, runVars, handlerVars, waitVars, connVars
<1> USE DEF Done, DoneWhen
<1>2. Running' = Running \ {p} /\ p \in Running /\ Reported' = Reported
  BY DEF TypeOK, Running, Reported
<1>9. Cardinality(Running') = Cardinality(Running) - 1
  BY ZenonT(30), <1>2, CountedSets, FS_RemoveElement
<1>3. RunningCounted'
  BY <1>9 DEF TypeOK, RunningCounted
<1>4. WrittenOrFailed' /\ ResponsesMirrorRequests'
  BY SMTT(40) DEF TypeOK, WrittenOrFailed, ResponsesMirrorRequests
<1>6. wait # 0
  BY <1>2, CountedSets DEF RunningCounted
<1>8. WokenFindsZero'
  BY <1>6 DEF TypeOK, WokenFindsZero
<1>5. ErrChCounts' /\ PanicOnlyIfEarly'
  BY <1>2 DEF ErrChCounts, PanicOnlyIfEarly
<1> QED
  BY <1>3, <1>4, <1>5, <1>8

\* An event carries no ID: it is nobody's response.
LEMMA SendKeeps ==
  ASSUME TypeOK, ServerInv, Send
  PROVE  ServerInv'
<1> USE ServerConstants DEF ServerConstants, ServerInv, Requests, Unfinished, runVars, handlerVars, waitVars, connVars
<1> USE DEF Send, SendMessage
<1>2. Running' = Running /\ Reported' = Reported
  BY DEF Running, Reported
<1>3. RunningCounted' /\ WrittenOrFailed' /\ WokenFindsZero' /\ ErrChCounts' /\ PanicOnlyIfEarly'
  BY <1>2 DEF RunningCounted, WrittenOrFailed, WokenFindsZero, ErrChCounts, PanicOnlyIfEarly
<1>4. /\ Len(outLog') = Len(outLog) + 1
      /\ outLog'[Len(outLog) + 1].id = NoId
      /\ \A k \in 1 .. Len(outLog) : outLog'[k] = outLog[k]
  BY DEF TypeOK
<1>5. ResponsesMirrorRequests'
  <2>1. DOMAIN outLog' = 1 .. Len(outLog) + 1 /\ DOMAIN outLog = 1 .. Len(outLog)
    BY DEF TypeOK
  <2>2. \A q \in Requests : sentAt'[q] = sentAt[q] /\ sentAt[q] \in 0 .. Len(outLog)
    BY ZenonT(30) DEF TypeOK
  <2>3. \A k \in DOMAIN outLog' : outLog'[k].id # NoId => k \in DOMAIN outLog /\ outLog[k].id # NoId
    BY <1>4, <2>1
  <2>4. \A q \in Requests : sentAt'[q] # 0 => outLog'[sentAt'[q]] = outLog[sentAt[q]]
    BY <1>4, <2>2
  <2>5. /\ sentAt' = sentAt /\ rd' = rd /\ errs' = errs /\ reqs' = reqs
    OBVIOUS
  <2>8. ResponsesMirrorRequests
    OBVIOUS
  <2> HIDE DEF Send, SendMessage, Requests, ServerInv
  <2>6. ASSUME NEW q \in Requests, sentAt'[q] # 0
        PROVE  /\ q <= rd
               /\ outLog'[sentAt'[q]] = [id |-> reqs[q], errs |-> errs[q]]
               /\ \A r \in Requests : sentAt'[r] = sentAt'[q] => r = q
    BY <2>4, <2>5, <2>6, <2>8, SMTT(40) DEF ResponsesMirrorRequests
  <2>7. ASSUME NEW k \in DOMAIN outLog', outLog'[k].id # NoId
        PROVE  \E q \in Requests : sentAt'[q] = k
    BY <2>3, <2>5, <2>7, <2>8 DEF ResponsesMirrorRequests
  <2> QED
    BY <2>5, <2>6, <2>7 DEF ResponsesMirrorRequests
<1> QED
  BY <1>3, <1>5

\* Waiting on the group changes nothing but the waiter.
LEMMA CleanerKeeps ==
  ASSUME TypeOK, ServerInv, NEW w \in Cleaners, WaitClean(w) \/ WokenReturns(w) \/ CtxExpires(w)
  PROVE  ServerInv'
<1> USE ServerConstants DEF ServerConstants, ServerInv, Requests, Unfinished, runVars, handlerVars, waitVars, connVars
<1> USE DEF WaitClean, WokenReturns, CtxExpires, Returned
<1>1. UNCHANGED <<runVars, handlerVars, wait, connVars>>
  OBVIOUS
<1>2. Running' = Running /\ Reported' = Reported
  BY <1>1, SMTT(40) DEF Running, Reported
<1>3. RunningCounted' /\ WrittenOrFailed' /\ ErrChCounts'
  BY <1>1, <1>2, SMTT(40) DEF RunningCounted, WrittenOrFailed, ErrChCounts
<1>6. ResponsesMirrorRequests'
  BY <1>1, SMTT(40) DEF ResponsesMirrorRequests
<1>4. WokenFindsZero'
  BY <1>1, SMTT(40) DEF TypeOK, WokenFindsZero
<1>5. PanicOnlyIfEarly'
  BY ZenonT(30), <1>1 DEF PanicOnlyIfEarly, WokenFindsZero
<1> QED
  BY <1>3, <1>4, <1>5, <1>6

\* The peer only adds to the stream or closes it.
LEMMA PeerKeeps ==
  ASSUME TypeOK, ServerInv, PeerSends \/ PeerCloses
  PROVE  ServerInv'
<1> USE ServerConstants DEF ServerConstants, ServerInv, Requests, Unfinished, runVars, handlerVars, waitVars, connVars
<1> USE DEF PeerSends, PeerCloses
<1>1. UNCHANGED <<runVars, handlerVars, waitVars, outLog, events>>
  OBVIOUS
<1>2. Running' = Running /\ Reported' = Reported
  BY <1>1 DEF Running, Reported
<1>3. RunningCounted' /\ WrittenOrFailed' /\ ErrChCounts' /\ WokenFindsZero' /\ PanicOnlyIfEarly'
  BY <1>1, <1>2 DEF RunningCounted, WrittenOrFailed, ErrChCounts, WokenFindsZero, PanicOnlyIfEarly
<1>4. \A p \in 1 .. Len(reqs) : reqs'[p] = reqs[p]
  <2>1. CASE PeerSends
    BY <2>1, SMTT(40) DEF TypeOK
  <2> QED
    BY <2>1
<1>5. ResponsesMirrorRequests'
  <2>1. \A p \in Requests : p <= rd => reqs'[p] = reqs[p]
    BY <1>4 DEF TypeOK
  <2> QED
    BY ZenonT(30), <1>1, <2>1 DEF ResponsesMirrorRequests
<1> QED
  BY <1>3, <1>5

-----------------------------------------------------------------------------
\* Every step of the server and its peer keeps the type of every variable.  That
\* the counter of the WaitGroup stays natural takes the invariant.
LEMMA TypeStep ==
  ASSUME TypeOK, ServerInv, [Next]_vars
  PROVE  TypeOK'
<1> USE ServerConstants DEF ServerConstants, Requests, Unfinished, runVars, handlerVars, waitVars, connVars
<1>1. CASE ServerStep
  <2>1. CASE ReadRequest
    BY <2>1 DEF TypeOK, ReadRequest
  <2>2. CASE ReadFails \/ CancelAndReturn \/ CloseBlocker
    BY ZenonT(30), <2>2 DEF TypeOK, ReadFails, CancelAndReturn, CloseBlocker
  <2>3. CASE PushReadErr
    BY <2>3, SMTT(40) DEF TypeOK, PushReadErr, PushErr
  <2>10. CASE PopErr
    <3>1. errCh' \in Seq({"readErr", "writeErr"}) /\ runErr' \in {"readErr", "writeErr"}
      BY <2>10 DEF TypeOK, PopErr
    <3> QED
      BY <2>10, <3>1, SMTT(40) DEF TypeOK, PopErr
  <2>4. ASSUME NEW p \in Requests, Respond(p)
        PROVE  TypeOK'
    BY <2>4 DEF TypeOK, Respond
  <2>5. ASSUME NEW p \in Requests, WriteResponse(p)
        PROVE  TypeOK'
    <3>1. reqs[p] \in Ids \cup {NoId}
      BY <2>5, SMTT(40) DEF TypeOK, WriteResponse, WriteWithId, ServerInv, RunningCounted
    <3>4. [id |-> reqs[p], errs |-> errs[p]] \in [id : Ids \cup {NoId}, errs : BOOLEAN]
      BY <3>1, Zenon DEF TypeOK
    <3>2. /\ outLog' \in Seq([id : Ids \cup {NoId}, errs : BOOLEAN])
          /\ Len(outLog') = Len(outLog) + 1
      BY <2>5, <3>4 DEF TypeOK, WriteResponse, WriteWithId
    <3>3. sentAt' \in [Requests -> 0 .. Len(outLog')]
      BY <2>5, <3>2 DEF TypeOK, WriteResponse, WriteWithId
    <3> QED
      BY <2>5, <3>2, <3>3 DEF TypeOK, WriteResponse, WriteWithId
  <2>6. ASSUME NEW p \in Requests, WriteFails(p)
        PROVE  TypeOK'
    BY <2>6, SMTT(40) DEF TypeOK, WriteFails
  <2>11. ASSUME NEW p \in Requests, PushWriteErr(p)
        PROVE  TypeOK'
    <3>1. errCh' \in Seq({"readErr", "writeErr"})
      BY <2>11 DEF TypeOK, PushWriteErr, PushErr
    <3> QED
      BY <2>11, <3>1 DEF TypeOK, PushWriteErr
  <2>7. ASSUME NEW p \in Requests, Done(p)
        PROVE  TypeOK'
    <3>1. p \in Running
      BY <2>7 DEF Running, Done, DoneWhen
    <3>2. wait' \in Nat
      BY <2>7, <3>1, CountedSets DEF Done, DoneWhen, ServerInv, RunningCounted
    <3>3. cleaner' \in [Cleaners -> {"idle", "waiting", "woken", "early", "clean"}]
      BY <2>7 DEF TypeOK, Done, DoneWhen
    <3> QED
      BY <2>7, <3>2, <3>3, SMTT(40) DEF TypeOK, Done, DoneWhen
  <2>8. CASE Send
    <3>1. /\ outLog' \in Seq([id : Ids \cup {NoId}, errs : BOOLEAN])
          /\ Len(outLog') = Len(outLog) + 1
      BY <2>8 DEF TypeOK, Send, SendMessage
    <3>2. sentAt' \in [Requests -> 0 .. Len(outLog')]
      BY <2>8, <3>1 DEF TypeOK, Send, SendMessage
    <3> QED
      BY <2>8, <3>1, <3>2, SMTT(40) DEF TypeOK, Send, SendMessage
  <2>9. ASSUME NEW w \in Cleaners, WaitClean(w) \/ WokenReturns(w) \/ CtxExpires(w)
        PROVE  TypeOK'
    <3>1. crashed' \in BOOLEAN
      BY <2>9, Zenon DEF TypeOK, WaitClean, WokenReturns, CtxExpires
    <3> QED
      BY <2>9, <3>1, ZenonT(40) DEF TypeOK, WaitClean, WokenReturns, CtxExpires, Returned
  <2> QED
    BY <1>1, <2>1, <2>2, <2>3, <2>4, <2>5, <2>6, <2>7, <2>8, <2>9, <2>10, <2>11, Zenon
       DEF ServerStep, RunStep, HandlerStep
<1>2. CASE PeerSends
  BY <1>2, SMTT(40) DEF TypeOK, PeerSends
<1>3. CASE PeerCloses
  BY <1>3 DEF TypeOK, PeerCloses
<1>4. CASE UNCHANGED vars
  BY <1>4 DEF TypeOK, vars
<1> QED
  BY <1>1, <1>2, <1>3, <1>4 DEF Next

\* ServerInv holds in every state of every behaviour, whatever the number of
\* requests and failures and whoever calls WaitClean when.
THEOREM ServerInvariant == Spec => [](TypeOK /\ ServerInv)
<1>1. Init => TypeOK /\ ServerInv
  <2> SUFFICES ASSUME Init PROVE TypeOK /\ ServerInv
    OBVIOUS
  <2> USE ServerConstants DEF ServerConstants, Init, Requests, Unfinished
  <2>3. eof \in BOOLEAN /\ crashed \in BOOLEAN /\ ctxDone \in BOOLEAN /\ errs \in [Requests -> BOOLEAN]
    BY Zenon
  <2>1. TypeOK
    BY <2>3 DEF TypeOK
  <2>2. Running = {} /\ Reported = {}
    BY DEF Running, Reported
  <2> QED
    BY <2>1, <2>2, FS_EmptySet
       DEF ServerInv, RunningCounted, WrittenOrFailed, ResponsesMirrorRequests, WokenFindsZero,
           ErrChCounts, PanicOnlyIfEarly
<1>2. TypeOK /\ ServerInv /\ [Next]_vars => (TypeOK /\ ServerInv)'
  <2> SUFFICES ASSUME TypeOK, ServerInv, [Next]_vars PROVE ServerInv'
    BY TypeStep
  <2>1. CASE ServerStep
    BY <2>1, ReadRequestKeeps, RunStepKeeps, UnwrittenKeeps, WriteResponseKeeps,
       PushWriteErrKeeps, DoneKeeps, SendKeeps, CleanerKeeps, Zenon
       DEF ServerStep, RunStep, HandlerStep
  <2>2. CASE UNCHANGED vars
    <3>1. Running' = Running /\ Reported' = Reported
      BY <2>2 DEF vars, handlerVars, Running, Reported
    <3> QED
      BY <2>2, <3>1 DEF vars, runVars, handlerVars, waitVars, connVars, ServerInv, RunningCounted,
         WrittenOrFailed, ResponsesMirrorRequests, WokenFindsZero, ErrChCounts, PanicOnlyIfEarly
  <2> QED
    BY <2>1, <2>2, PeerKeeps DEF Next
<1> QED
  BY <1>1, <1>2, PTL DEF Spec

\* Responses and requests correspond one to one, however the goroutines that
\* respond are scheduled and however many events Send puts in between.
THEOREM ServerMirrorsRequests == Spec => []ResponsesMirrorRequests
<1>1. ServerInv => ResponsesMirrorRequests
  BY DEF ServerInv
<1> QED
  BY <1>1, ServerInvariant, PTL

\* No request read goes unanswered by the time its goroutine is done, unless its
\* write failed.
THEOREM ServerAnswersAll == Spec => []DoneIsAnswered
<1>1. TypeOK /\ ServerInv => DoneIsAnswered
  <2> SUFFICES ASSUME TypeOK, ServerInv, NEW p \in 1 .. rd
               PROVE  /\ handler[p] # "none"
                      /\ handler[p] = "done" => (sentAt[p] # 0 <=> p \notin failed)
    BY DEF DoneIsAnswered
  <2>1. p \in Requests /\ p <= rd
    BY ServerConstants, SMTT(40) DEF ServerConstants, TypeOK, Requests
  <2> QED
    BY <2>1 DEF TypeOK, ServerInv, RunningCounted, WrittenOrFailed
<1> QED
  BY <1>1, ServerInvariant, PTL

\* WaitClean, returning after the read loop has ended, leaves no request running.
THEOREM ServerCleanMeansQuiet == Spec => []CleanMeansQuiet
<1>1. TypeOK /\ ServerInv => CleanMeansQuiet
  <2> SUFFICES ASSUME TypeOK, ServerInv, NEW w \in Cleaners, cleaner[w] = "clean"
               PROVE  Running = {}
    BY DEF CleanMeansQuiet, Running
  <2> QED
    BY CountedSets DEF ServerInv, WokenFindsZero, RunningCounted
<1> QED
  BY <1>1, ServerInvariant, PTL

\* Every variable keeps its type; the counter of the WaitGroup never drops below zero.
THEOREM ServerTypeOK == Spec => []TypeOK
BY ServerInvariant, PTL

\* sync.WaitGroup never panics when WaitClean is called after the read loop.
THEOREM ServerPanicsOnlyIfEarly == Spec => []PanicOnlyIfEarly
<1>1. ServerInv => PanicOnlyIfEarly
  BY DEF ServerInv
<1> QED
  BY <1>1, ServerInvariant, PTL

\* s.err never blocks anybody before ErrCap writes have failed: with the capacity of
\* 2 in the code, one failed write is safe.
THEOREM ServerErrChHasRoom == Spec => []ErrChHasRoom
<1>1. TypeOK /\ ServerInv => ErrChHasRoom
  <2> SUFFICES ASSUME TypeOK, ServerInv, Cardinality(failed) < ErrCap,
                      run = "pushing" \/ \E p \in Requests : handler[p] = "pushing"
               PROVE  Len(errCh) < ErrCap
    BY DEF ErrChHasRoom
  <2>1. Cardinality(Reported) <= Cardinality(failed)
    BY CountedSets, FS_Subset DEF Reported
  <2>2. CASE run = "pushing"
    BY <2>1, <2>2, ServerConstants, CountedSets, SMTT(40) DEF ServerConstants, TypeOK, ServerInv, ErrChCounts
  <2>3. ASSUME NEW p \in Requests, handler[p] = "pushing"
        PROVE  Len(errCh) < ErrCap
    <3>1. p \in failed
      BY <2>3 DEF TypeOK, ServerInv, WrittenOrFailed
    <3>2. Reported \subseteq failed \ {p}
      BY <2>3 DEF Reported
    <3>3. Cardinality(failed \ {p}) = Cardinality(failed) - 1 /\ IsFiniteSet(failed \ {p})
      BY <3>1, CountedSets, FS_RemoveElement
    <3>4. Cardinality(Reported) <= Cardinality(failed) - 1
      BY <3>2, <3>3, FS_Subset
    <3> QED
      BY <3>4, ServerConstants, CountedSets DEF ServerConstants, TypeOK, ServerInv, ErrChCounts
  <2> QED
    BY <2>2, <2>3
<1> QED
  BY <1>1, ServerInvariant, PTL

-----------------------------------------------------------------------------
(* The pipe. *)

LOCAL INSTANCE SequenceTheorems

Buffered(m) == \E i \in DOMAIN queue : queue[i] = m
Delivered(m) == \E i \in DOMAIN delivered : delivered[i] = m

Begun == {c \in Closers : cpc[c] \in {"setting", "closing", "closed"}}

\* CompareAndSwap lets one closer through, whose error the pipe has when its channel
\* is closed.
OneCloser ==
  /\ ~closed => Begun = {}
  /\ \A c, d \in Begun : c = d
  /\ \A c \in Begun : cpc[c] # "setting" => err = c
  /\ chanClosed <=> \E c \in Closers : cpc[c] = "closed"

\* Who is parked in a receive, or was told of the end, found the channel empty.
ReadersFoundNone ==
  /\ Parked # {} => queue = <<>> /\ ~chanClosed
  /\ \A r \in Readers : rpc[r] = "ended" => queue = <<>> /\ chanClosed
  /\ reported # {} => queue = <<>> /\ chanClosed /\ reported = {err}

\* A message on its way is not acknowledged yet.
AckedBefore ==
  /\ \A w \in Writers : wpc[w] \in {"sending", "sent"} => sent[w] # 0
  /\ \A w \in Writers, n \in 1 .. MaxWrites :
       <<w, n>> \in acked => n <= sent[w] /\ (wpc[w] = "sending" => n < sent[w])

\* One that was sent is in the channel or was received, and once it is acknowledged, it
\* is in the buffer.
SentIsSafe ==
  /\ \A w \in Writers : wpc[w] = "sent" => Buffered(<<w, sent[w]>>) \/ Delivered(<<w, sent[w]>>)
  /\ \A m \in acked : Buffered(m) \/ Delivered(m)
  /\ \A i \in DOMAIN queue : queue[i] \in acked => i <= Cap

PipeInv == PipeTypes /\ OneCloser /\ ReadersFoundNone /\ AckedBefore /\ SentIsSafe

-----------------------------------------------------------------------------
\* What is in the channel once a message is sent.
LEMMA AppendedMessage ==
  ASSUME NEW S, NEW s \in Seq(S), NEW e \in S
  PROVE  /\ Append(s, e) \in Seq(S)
         /\ DOMAIN s = 1 .. Len(s) /\ Len(s) \in Nat
         /\ DOMAIN Append(s, e) = 1 .. Len(s) + 1
         /\ \A i \in DOMAIN s : i \in DOMAIN Append(s, e) /\ Append(s, e)[i] = s[i]
         /\ Append(s, e)[Len(s) + 1] = e
OBVIOUS

\* What is in the channel once a message is received.
LEMMA ReceivedMessage ==
  ASSUME NEW S, NEW s \in Seq(S), s # <<>>
  PROVE  /\ Tail(s) \in Seq(S) /\ Head(s) \in S /\ Head(s) = s[1] /\ Len(s) \in Nat \ {0}
         /\ DOMAIN s = 1 .. Len(s) /\ DOMAIN Tail(s) = 1 .. Len(s) - 1
         /\ \A i \in 1 .. Len(s) - 1 : Tail(s)[i] = s[i + 1]
OBVIOUS

\* What closing leaves in the buffer.
LEMMA KeptMessages ==
  ASSUME NEW S, NEW s \in Seq(S), NEW n \in Nat, n < Len(s)
  PROVE  /\ SubSeq(s, 1, n) \in Seq(S) /\ DOMAIN SubSeq(s, 1, n) = 1 .. n
         /\ DOMAIN s = 1 .. Len(s) /\ Len(s) \in Nat
         /\ \A i \in 1 .. n : SubSeq(s, 1, n)[i] = s[i]
OBVIOUS

\* What closing cuts off.
LEMMA CutMessages ==
  ASSUME NEW S, NEW s \in Seq(S), NEW n \in 0 .. Len(s)
  PROVE  \A i \in DOMAIN SubSeq(s, n + 1, Len(s)) :
           \E j \in DOMAIN s : j > n /\ SubSeq(s, n + 1, Len(s))[i] = s[j]
<1>1. Len(s) \in Nat /\ DOMAIN s = 1 .. Len(s) /\ n \in Nat /\ n <= Len(s)
  OBVIOUS
<1>2. PICK m \in Nat : m = n + 1
  BY <1>1
<1>3. PICK l \in Nat : l = Len(s)
  BY ZenonT(30), <1>1
<1>4. \A i \in m .. l : s[i] \in S
  BY <1>1, <1>2, <1>3
<1>5. PICK t : t = SubSeq(s, m, l)
  BY ZenonT(30)
<1>6. /\ t \in Seq(S) /\ Len(t) = IF m <= l THEN l - m + 1 ELSE 0
      /\ \A i \in 1 .. l - m + 1 : t[i] = s[m + i - 1]
  BY <1>4, <1>5, SubSeqProperties
<1>7. DOMAIN t = 1 .. l - m + 1
  <2>1. DOMAIN t = 1 .. Len(t)
    BY <1>6
  <2>2. (IF m <= l THEN l - m + 1 ELSE 0) = l - m + 1
    <3>1. m <= l + 1
      BY <1>1, <1>2, <1>3
    <3>2. CASE m <= l
      BY <3>2
    <3>3. CASE ~(m <= l)
      <4>1. m = l + 1
        BY <3>1, <3>3
      <4> QED
        BY <3>3, <4>1
    <3> QED
      BY <3>2, <3>3
  <2>3. Len(t) = l - m + 1
    BY <1>6, <2>2, Zenon
  <2> QED
    BY <2>1, <2>3, Zenon
<1>8. ASSUME NEW i \in DOMAIN t PROVE \E j \in DOMAIN s : j > n /\ t[i] = s[j]
  <2>1. t[i] = s[m + i - 1] /\ i \in 1 .. l - m + 1
    BY <1>6, <1>7
  <2>2. m + i - 1 \in DOMAIN s /\ m + i - 1 > n
    BY <1>1, <1>2, <1>3, <2>1
  <2> QED
    BY <2>1, <2>2
<1> QED
  BY <1>2, <1>3, <1>5, <1>8, Zenon

\* A message that is sent.
LEMMA SendingMessage ==
  ASSUME PipeInv, NEW w \in Writers, wpc[w] \in {"sending", "sent"}
  PROVE  <<w, sent[w]>> \in Messages /\ sent[w] \in 1 .. MaxWrites
BY PipeConstants DEF PipeConstants, PipeInv, PipeTypes, AckedBefore, Messages

-----------------------------------------------------------------------------
(* Write *)

\* Starting a Write: the message is new.
LEMMA CheckClosedKeeps ==
  ASSUME PipeInv, NEW w \in Writers, CheckClosed(w)
  PROVE  PipeInv'
<1> USE DEF PipeInv, chanVars
<1>1. PipeTypes'
  BY PipeConstants DEF PipeConstants, PipeTypes, CheckClosed
<1>2. OneCloser'
  BY DEF CheckClosed, OneCloser, Begun
<1>3. ReadersFoundNone'
  BY DEF CheckClosed, ReadersFoundNone, Parked
<1>4. /\ \A v \in Writers : v # w => wpc'[v] = wpc[v] /\ sent'[v] = sent[v]
      /\ wpc'[w] # "sent" /\ sent'[w] = sent[w] + 1 /\ sent[w] \in Nat
  BY DEF PipeTypes, CheckClosed
<1>5. AckedBefore'
  BY <1>4 DEF PipeTypes, CheckClosed, AckedBefore
<1>6. SentIsSafe'
  BY <1>4 DEF CheckClosed, SentIsSafe, Buffered, Delivered
<1> QED
  BY <1>1, <1>2, <1>3, <1>5, <1>6

\* A send: a panic, a message for a parked reader, or one more in the channel.
LEMMA ChanSendKeeps ==
  ASSUME PipeInv, NEW w \in Writers, ChanSend(w)
  PROVE  PipeInv'
<1> USE DEF PipeInv, chanVars
<1>0. PICK m \in Messages : m = <<w, sent[w]>> /\ sent[w] \in 1 .. MaxWrites /\ ChanSendMessage(w, m)
  BY ZenonT(30), SendingMessage DEF ChanSend, ChanSendMessage
<1>1. OneCloser'
  BY DEF ChanSend, ChanSendMessage, OneCloser, Begun
<1>2. m \notin acked
  BY <1>0 DEF PipeTypes, ChanSendMessage, AckedBefore
<1>6. sent' = sent /\ acked' = acked /\ wpc[w] = "sending"
      /\ \A v \in Writers : wpc'[v] = wpc[v] \/ (v = w /\ wpc'[v] \in {"sent", "panicked"})
  BY <1>0 DEF PipeTypes, ChanSendMessage
<1>7. AckedBefore'
  BY <1>0, <1>6 DEF AckedBefore
<1>3. CASE chanClosed /\ wpc' = [wpc EXCEPT ![w] = "panicked"] /\ UNCHANGED <<rpc, chanVars>>
  <2>1. PipeTypes'
    BY <1>0, <1>3 DEF PipeTypes, ChanSendMessage
  <2>2. ReadersFoundNone'
    BY <1>0, <1>3 DEF ChanSendMessage, ReadersFoundNone, Parked
  <2>3. SentIsSafe'
    BY ZenonT(30), <1>3, <1>6 DEF PipeTypes, SentIsSafe, Buffered, Delivered
  <2> QED
    BY <1>1, <1>7, <2>1, <2>2, <2>3
<1>4. ASSUME ~chanClosed, NEW r \in Parked, rpc' = [rpc EXCEPT ![r] = "idle"],
             delivered' = Append(delivered, m), wpc' = [wpc EXCEPT ![w] = "sent"],
             UNCHANGED <<queue, chanClosed>>
      PROVE  PipeInv'
  <2>0. delivered \in Seq(Messages)
    BY DEF PipeTypes
  <2>1. /\ delivered' \in Seq(Messages) /\ Delivered(m)'
        /\ \A x : Delivered(x) => Delivered(x)'
    <3>1. /\ delivered' \in Seq(Messages) /\ DOMAIN delivered' = 1 .. Len(delivered) + 1
          /\ \A i \in 1 .. Len(delivered) : delivered'[i] = delivered[i]
          /\ delivered'[Len(delivered) + 1] = m
      <4>1. /\ Append(delivered, m) \in Seq(Messages)
            /\ DOMAIN Append(delivered, m) = 1 .. Len(delivered) + 1
            /\ \A i \in 1 .. Len(delivered) : Append(delivered, m)[i] = delivered[i]
            /\ Append(delivered, m)[Len(delivered) + 1] = m
        BY <1>0, <2>0, AppendedMessage
      <4> QED
        BY <1>4, <4>1, Zenon
    <3>2. DOMAIN delivered = 1 .. Len(delivered) /\ Len(delivered) \in Nat
      BY <2>0
    <3> QED
      BY <3>1, <3>2 DEF Delivered
  <2>2. PipeTypes'
    BY <1>0, <1>4, <2>1 DEF PipeTypes, ChanSendMessage, Parked
  <2>3. ReadersFoundNone'
    BY <1>0, <1>4 DEF PipeTypes, ChanSendMessage, ReadersFoundNone, Parked
  <2>4. \A x : Buffered(x)' <=> Buffered(x)
    BY <1>4 DEF Buffered
  <2>5. SentIsSafe'
    <3>1. ASSUME NEW v \in Writers, wpc'[v] = "sent"
          PROVE  Buffered(<<v, sent[v]>>)' \/ Delivered(<<v, sent[v]>>)'
      <4>1. CASE v = w
        BY <1>0, <1>6, <2>1, <4>1, Zenon DEF Delivered
      <4>2. CASE v # w
        BY <1>6, <2>1, <2>4, <3>1, <4>2, Zenon DEF SentIsSafe, Buffered, Delivered
      <4> QED
        BY <4>1, <4>2
    <3>2. \A x \in acked' : Buffered(x)' \/ Delivered(x)'
      BY <1>6, <2>1, <2>4, Zenon DEF SentIsSafe
    <3> QED
      BY ZenonT(30), <1>4, <1>6, <3>1, <3>2 DEF SentIsSafe
  <2> QED
    BY <1>1, <1>7, <2>2, <2>3, <2>5
<1>5. CASE ~chanClosed /\ Parked = {} /\ queue' = Append(queue, m)
           /\ wpc' = [wpc EXCEPT ![w] = "sent"] /\ UNCHANGED <<rpc, chanClosed, delivered>>
  <2>0. queue \in Seq(Messages)
    BY DEF PipeTypes
  <2>1. /\ queue' \in Seq(Messages) /\ DOMAIN queue' = 1 .. Len(queue) + 1
        /\ \A i \in 1 .. Len(queue) : queue'[i] = queue[i]
        /\ queue'[Len(queue) + 1] = m
    <3>1. /\ Append(queue, m) \in Seq(Messages)
          /\ DOMAIN Append(queue, m) = 1 .. Len(queue) + 1
          /\ \A i \in 1 .. Len(queue) : Append(queue, m)[i] = queue[i]
          /\ Append(queue, m)[Len(queue) + 1] = m
      BY <1>0, <2>0, AppendedMessage
    <3> QED
      BY <1>5, <3>1, Zenon
  <2>7. DOMAIN queue = 1 .. Len(queue) /\ Len(queue) \in Nat
    BY <2>0
  <2>2. Buffered(m)' /\ \A x : (Buffered(x) => Buffered(x)') /\ (Delivered(x)' <=> Delivered(x))
    BY <1>5, <2>1, <2>7 DEF Buffered, Delivered
  <2>3. PipeTypes'
    BY <1>0, <1>5, <2>1 DEF PipeTypes, ChanSendMessage
  <2>4. ReadersFoundNone'
    BY <1>0, <1>5 DEF PipeTypes, ChanSendMessage, ReadersFoundNone, Parked
  <2>5. \A i \in DOMAIN queue' : queue'[i] \in acked => i \in DOMAIN queue /\ queue'[i] = queue[i]
    BY <1>2, <2>1, <2>7
  <2>6. SentIsSafe'
    <3>1. ASSUME NEW v \in Writers, wpc'[v] = "sent"
          PROVE  Buffered(<<v, sent[v]>>)' \/ Delivered(<<v, sent[v]>>)'
      <4>1. CASE v = w
        BY <1>0, <1>6, <2>2, <4>1, Zenon DEF Buffered
      <4>2. CASE v # w
        BY <1>6, <2>2, <3>1, <4>2, Zenon DEF SentIsSafe, Buffered, Delivered
      <4> QED
        BY <4>1, <4>2
    <3>2. \A x \in acked' : Buffered(x)' \/ Delivered(x)'
      BY <1>6, <2>2, Zenon DEF SentIsSafe
    <3>3. \A i \in DOMAIN queue' : queue'[i] \in acked => i <= Cap
      BY <2>5 DEF SentIsSafe
    <3> QED
      BY <1>6, <3>1, <3>2, <3>3, Zenon DEF SentIsSafe
  <2> QED
    BY <1>1, <1>7, <2>3, <2>4, <2>6
<1> QED
  BY <1>0, <1>3, <1>4, <1>5 DEF ChanSendMessage

\* A Write that returns nil: its message is received or in the buffer.
LEMMA WriteReturnsKeeps ==
  ASSUME PipeInv, NEW w \in Writers, WriteReturns(w)
  PROVE  PipeInv'
<1> USE DEF PipeInv, chanVars
<1>0. <<w, sent[w]>> \in Messages /\ sent[w] \in 1 .. MaxWrites
  BY SendingMessage DEF WriteReturns
<1>1. PipeTypes'
  BY ZenonT(30), <1>0 DEF PipeTypes, WriteReturns
<1>2. OneCloser'
  BY DEF WriteReturns, OneCloser, Begun
<1>3. ReadersFoundNone'
  BY DEF WriteReturns, ReadersFoundNone, Parked
<1>4. AckedBefore'
  BY <1>0 DEF PipeTypes, WriteReturns, AckedBefore
<1>5. SentIsSafe'
  BY ZenonT(30) DEF PipeTypes, WriteReturns, SentIsSafe, Buffered, Delivered
<1> QED
  BY <1>1, <1>2, <1>3, <1>4, <1>5

-----------------------------------------------------------------------------
(* Read *)

\* Receiving moves the head of the channel; an empty one parks the reader or ends it.
LEMMA ReceiveKeeps ==
  ASSUME PipeInv, NEW r \in Readers, Receive(r)
  PROVE  PipeInv'
<1> USE DEF PipeInv, chanVars
<1>1. OneCloser'
  BY DEF Receive, OneCloser, Begun
<1>2. AckedBefore'
  BY DEF Receive, AckedBefore
<1>3. queue \in Seq(Messages) /\ delivered \in Seq(Messages)
  BY DEF PipeTypes
<1>4. CASE queue # <<>> /\ delivered' = Append(delivered, Head(queue)) /\ queue' = Tail(queue) /\ UNCHANGED rpc
  <2>1. PICK h \in Messages : h = Head(queue)
    BY <1>3, <1>4, ReceivedMessage
  <2>2. /\ queue' \in Seq(Messages) /\ h = queue[1] /\ Len(queue) \in Nat \ {0}
        /\ DOMAIN queue = 1 .. Len(queue) /\ DOMAIN queue' = 1 .. Len(queue) - 1
        /\ \A i \in 1 .. Len(queue) - 1 : queue'[i] = queue[i + 1]
    BY <1>3, <1>4, <2>1, ReceivedMessage, Zenon
  <2>3. /\ delivered' \in Seq(Messages) /\ DOMAIN delivered' = 1 .. Len(delivered) + 1
        /\ DOMAIN delivered = 1 .. Len(delivered) /\ Len(delivered) \in Nat
        /\ \A i \in DOMAIN delivered : i \in DOMAIN delivered' /\ delivered'[i] = delivered[i]
        /\ delivered'[Len(delivered) + 1] = h
    <3>1. /\ Append(delivered, h) \in Seq(Messages)
          /\ DOMAIN Append(delivered, h) = 1 .. Len(delivered) + 1
          /\ DOMAIN delivered = 1 .. Len(delivered) /\ Len(delivered) \in Nat
          /\ \A i \in DOMAIN delivered :
               i \in DOMAIN Append(delivered, h) /\ Append(delivered, h)[i] = delivered[i]
          /\ Append(delivered, h)[Len(delivered) + 1] = h
      BY <1>3, <2>1, AppendedMessage
    <3>2. delivered' = Append(delivered, h)
      BY <1>4, <2>1, Zenon
    <3> QED
      BY <3>1, <3>2, Zenon
  <2>4. \A x : Delivered(x) \/ x = h => Delivered(x)'
    BY <2>3 DEF Delivered
  <2>5. ASSUME NEW x, Buffered(x) PROVE Buffered(x)' \/ Delivered(x)'
    <3>1. PICK i \in 1 .. Len(queue) : queue[i] = x
      BY <2>2, <2>5 DEF Buffered
    <3>2. CASE i = 1
      BY <2>2, <2>4, <3>1, <3>2
    <3>3. CASE i # 1
      <4>1. PICK j \in 1 .. Len(queue) - 1 : j + 1 = i
        <5>1. i - 1 \in 1 .. Len(queue) - 1 /\ (i - 1) + 1 = i
          BY <2>2, <3>3
        <5> QED
          BY <5>1
      <4> QED
        BY <2>2, <3>1, <4>1 DEF Buffered
    <3> QED
      BY <3>2, <3>3
  <2>6. SentIsSafe'
    <3>1. UNCHANGED <<wpc, sent, acked>>
      BY DEF Receive
    <3>2. \A v \in Writers : wpc'[v] = "sent" => Buffered(<<v, sent[v]>>)' \/ Delivered(<<v, sent[v]>>)'
      BY <2>4, <2>5, <3>1, Zenon DEF SentIsSafe, Buffered, Delivered
    <3>3. \A x \in acked' : Buffered(x)' \/ Delivered(x)'
      BY <2>4, <2>5, <3>1, Zenon DEF SentIsSafe
    <3>4. ASSUME NEW i \in DOMAIN queue', queue'[i] \in acked PROVE i <= Cap
      BY <2>2, <3>4, PipeConstants DEF PipeConstants, SentIsSafe
    <3> QED
      BY <3>1, <3>2, <3>3, <3>4 DEF SentIsSafe
  <2>7. PipeTypes'
    BY <1>4, <2>2, <2>3 DEF PipeTypes, Receive
  <2>8. ReadersFoundNone'
    BY <1>4 DEF PipeTypes, Receive, ReadersFoundNone, Parked
  <2> QED
    BY <1>1, <1>2, <2>6, <2>7, <2>8
<1>5. CASE queue = <<>> /\ rpc' = [rpc EXCEPT ![r] = IF chanClosed THEN "ended" ELSE "parked"]
           /\ UNCHANGED <<queue, delivered>>
  <2>1. PipeTypes'
    BY <1>5 DEF PipeTypes, Receive
  <2>2. ReadersFoundNone'
    BY <1>5 DEF PipeTypes, Receive, ReadersFoundNone, Parked
  <2>3. SentIsSafe'
    BY <1>5 DEF Receive, SentIsSafe, Buffered, Delivered
  <2> QED
    BY <1>1, <1>2, <2>1, <2>2, <2>3
<1> QED
  BY <1>4, <1>5 DEF Receive

\* Reporting the end.
LEMMA ReadErrKeeps ==
  ASSUME PipeInv, NEW r \in Readers, ReadErr(r)
  PROVE  PipeInv'
<1> USE DEF PipeInv, chanVars
<1>1. PipeTypes'
  BY DEF PipeTypes, ReadErr
<1>2. ReadersFoundNone'
  BY DEF PipeTypes, ReadErr, ReadersFoundNone, Parked
<1>3. OneCloser' /\ AckedBefore' /\ SentIsSafe'
  BY DEF ReadErr, OneCloser, Begun, AckedBefore, SentIsSafe, Buffered, Delivered
<1> QED
  BY <1>1, <1>2, <1>3

-----------------------------------------------------------------------------
(* CloseWithError *)

\* Only one closer gets past the flag, and it sets its error.
LEMMA CloserKeeps ==
  ASSUME PipeInv, NEW c \in Closers, CompareAndSwap(c) \/ SetErr(c)
  PROVE  PipeInv'
<1> USE DEF PipeInv, chanVars
<1>1. PipeTypes'
  BY ZenonT(30) DEF PipeTypes, CompareAndSwap, SetErr
<1>2. OneCloser'
  <2>1. CASE CompareAndSwap(c)
    <3>1. \A d \in Closers : cpc'[d] = IF d # c THEN cpc[d] ELSE IF closed THEN "refused" ELSE "setting"
      BY <2>1 DEF PipeTypes, CompareAndSwap
    <3>2. Begun' = IF closed THEN Begun ELSE {c}
      BY <2>1, <3>1 DEF CompareAndSwap, OneCloser, Begun
    <3>3. (\E d \in Closers : cpc'[d] = "closed") <=> \E d \in Closers : cpc[d] = "closed"
      BY <2>1, <3>1 DEF CompareAndSwap
    <3> QED
      BY <2>1, <3>1, <3>2, <3>3 DEF CompareAndSwap, OneCloser, Begun
  <2>2. CASE SetErr(c)
    <3>1. \A d \in Closers : cpc'[d] = IF d # c THEN cpc[d] ELSE "closing"
      BY <2>2 DEF PipeTypes, SetErr
    <3>2. Begun' = Begun /\ Begun = {c}
      BY <2>2, <3>1 DEF SetErr, OneCloser, Begun
    <3>3. ~ (\E d \in Closers : cpc'[d] = "closed") /\ ~ \E d \in Closers : cpc[d] = "closed"
      BY <2>2, <3>1, <3>2 DEF SetErr, Begun
    <3> QED
      BY <2>2, <3>1, <3>2, <3>3 DEF SetErr, OneCloser
  <2> QED
    BY <2>1, <2>2
<1>3. ReadersFoundNone'
  BY DEF PipeTypes, CompareAndSwap, SetErr, ReadersFoundNone, Parked, OneCloser, Begun
<1>4. AckedBefore' /\ SentIsSafe'
  BY DEF CompareAndSwap, SetErr, AckedBefore, SentIsSafe, Buffered, Delivered
<1> QED
  BY <1>1, <1>2, <1>3, <1>4

\* Closing the channel cuts off only what nobody has acknowledged.
LEMMA CloseChanKeeps ==
  ASSUME PipeInv, NEW c \in Closers, CloseChan(c)
  PROVE  PipeInv'
<1> USE DEF PipeInv, chanVars
<1>0. queue \in Seq(Messages) /\ Cap \in Nat
  BY PipeConstants DEF PipeConstants, PipeTypes
<1>1. /\ queue' \in Seq(Messages) /\ DOMAIN queue = 1 .. Len(queue) /\ DOMAIN queue' \subseteq DOMAIN queue
      /\ \A i \in DOMAIN queue : i <= Cap => i \in DOMAIN queue'
      /\ \A i \in DOMAIN queue' : queue'[i] = queue[i]
      /\ queue = <<>> => queue' = <<>>
  <2>1. CASE Len(queue) <= Cap
    BY <1>0, <2>1 DEF CloseChan, CloseKeeping
  <2>2. CASE ~(Len(queue) <= Cap)
    <3>1. Cap < Len(queue) /\ Len(queue) \in Nat /\ queue # <<>>
      BY <1>0, <2>2
    <3>2. queue' = SubSeq(queue, 1, Cap)
      BY ZenonT(30), <2>2 DEF CloseChan, CloseKeeping
    <3>3. /\ queue' \in Seq(Messages) /\ DOMAIN queue' = 1 .. Cap
          /\ DOMAIN queue = 1 .. Len(queue) /\ \A i \in 1 .. Cap : queue'[i] = queue[i]
      BY <1>0, <3>1, <3>2, KeptMessages, Zenon
    <3> QED
      BY <1>0, <3>1, <3>3
  <2> QED
    BY <2>1, <2>2
<1>2. PipeTypes'
  BY <1>1 DEF PipeTypes, CloseChan, CloseKeeping
<1>3. OneCloser'
  BY DEF PipeTypes, CloseChan, CloseKeeping, OneCloser, Begun
<1>4. ReadersFoundNone'
  <2>1. /\ \A r \in Readers : rpc'[r] # "parked" /\ (rpc'[r] = "ended" => rpc[r] \in {"parked", "ended"})
        /\ chanClosed' /\ reported' = reported /\ err' = err
    BY DEF PipeTypes, CloseChan, CloseKeeping
  <2> QED
    BY <1>1, <2>1 DEF ReadersFoundNone, Parked
<1>5. /\ \A v \in Writers : wpc'[v] = "sent" => wpc[v] = "sent" /\
             ~ \E i \in Cap + 1 .. Len(queue) : queue[i] = <<v, sent[v]>>
      /\ \A v \in Writers : wpc'[v] \in {wpc[v], "panicked"}
      /\ UNCHANGED <<sent, acked, delivered>>
  BY DEF PipeTypes, CloseChan, CloseKeeping
<1>6. AckedBefore'
  BY <1>5 DEF AckedBefore
<1>7. \A x : Delivered(x)' <=> Delivered(x)
  BY <1>5 DEF Delivered
<1>8. SentIsSafe'
  <2>1. ASSUME NEW v \in Writers, wpc'[v] = "sent", Buffered(<<v, sent[v]>>)
        PROVE  Buffered(<<v, sent[v]>>)'
    <3>1. PICK i \in DOMAIN queue : queue[i] = <<v, sent[v]>>
      BY <2>1 DEF Buffered
    <3>2. i <= Cap
      BY <1>0, <1>1, <1>5, <2>1, <3>1
    <3> QED
      BY ZenonT(30), <1>1, <1>5, <3>1, <3>2 DEF Buffered
  <2>2. ASSUME NEW x \in acked, Buffered(x) PROVE Buffered(x)'
    <3>1. PICK i \in DOMAIN queue : queue[i] = x
      BY <2>2 DEF Buffered
    <3> QED
      BY <1>1, <3>1 DEF SentIsSafe, Buffered
  <2>3. \A v \in Writers : wpc'[v] = "sent" => Buffered(<<v, sent[v]>>)' \/ Delivered(<<v, sent[v]>>)'
    BY <1>5, <1>7, <2>1, Zenon DEF SentIsSafe, Delivered
  <2>4. \A x \in acked' : Buffered(x)' \/ Delivered(x)'
    BY <1>5, <1>7, <2>2, Zenon DEF SentIsSafe
  <2>5. \A i \in DOMAIN queue' : queue'[i] \in acked' => i <= Cap
    BY ZenonT(30), <1>1, <1>5 DEF SentIsSafe
  <2> QED
    BY <2>3, <2>4, <2>5, Zenon DEF SentIsSafe
<1> QED
  BY <1>2, <1>3, <1>4, <1>6, <1>8

-----------------------------------------------------------------------------
\* Every step keeps the invariant.
LEMMA PipeInvStep == PipeInv /\ [PipeNext]_pipeVars => PipeInv'
<1> SUFFICES ASSUME PipeInv, [PipeNext]_pipeVars PROVE PipeInv'
  OBVIOUS
<1>1. CASE UNCHANGED pipeVars
  <2> USE <1>1 DEF pipeVars, chanVars, PipeInv
  <2>1. PipeTypes'
    BY DEF PipeTypes
  <2>2. OneCloser' /\ ReadersFoundNone'
    BY DEF OneCloser, Begun, ReadersFoundNone, Parked
  <2>3. AckedBefore'
    BY ZenonT(30) DEF AckedBefore
  <2>4. SentIsSafe'
    BY DEF SentIsSafe, Buffered, Delivered
  <2> QED
    BY <2>1, <2>2, <2>3, <2>4
<1>2. CASE PipeNext
  BY <1>2, CheckClosedKeeps, ChanSendKeeps, WriteReturnsKeeps, ReceiveKeeps, ReadErrKeeps, CloserKeeps,
     CloseChanKeeps DEF PipeNext, WriterStep, CloserStep
<1> QED
  BY <1>1, <1>2

\* The invariant holds.
THEOREM PipeInvariant == PipeSpec => []PipeInv
<1>1. PipeInit => PipeInv
  <2> SUFFICES ASSUME PipeInit PROVE PipeInv
    OBVIOUS
  <2>1. PipeTypes
    <3>1. <<>> \in Seq(Messages)
      OBVIOUS
    <3>2. /\ wpc \in [Writers -> {"idle", "sending", "sent", "panicked"}]
          /\ sent \in [Writers -> 0 .. MaxWrites]
          /\ rpc \in [Readers -> {"idle", "parked", "ended"}]
          /\ cpc \in [Closers -> {"idle", "refused", "setting", "closing", "closed"}]
      BY PipeConstants DEF PipeConstants, PipeInit
    <3> QED
      BY ZenonT(30), <3>1, <3>2 DEF PipeInit, PipeTypes
  <2>2. OneCloser /\ ReadersFoundNone /\ AckedBefore /\ SentIsSafe
    BY DEF PipeInit, OneCloser, Begun, ReadersFoundNone, Parked, AckedBefore, SentIsSafe, Buffered
  <2> QED
    BY <2>1, <2>2 DEF PipeInv
<1> QED
  BY <1>1, PipeInvStep, PTL DEF PipeSpec

\* When a Read of the pipe has returned an error, every message whose Write returned nil
\* has been read, and the error is that of the one CloseWithError that returned nil.
THEOREM PipeErrAfterAll == PipeSpec => []ErrAfterAll
<1>1. PipeInv => ErrAfterAll
  <2> SUFFICES ASSUME PipeInv, reported # {} PROVE ErrAfterAll
    BY DEF ErrAfterAll
  <2>1. queue = <<>> /\ chanClosed /\ reported = {err}
    BY DEF PipeInv, ReadersFoundNone
  <2>2. \A m \in acked : Delivered(m)
    BY <2>1 DEF PipeInv, SentIsSafe, Buffered
  <2>3. \E c \in Closers : cpc[c] = "closed" /\ err = c
    BY <2>1 DEF PipeInv, OneCloser, Begun
  <2> QED
    BY <2>1, <2>2, <2>3 DEF ErrAfterAll, Delivered
<1> QED
  BY <1>1, PipeInvariant, PTL

-----------------------------------------------------------------------------
(* The refinement: a step of the pipe is a step of Fifo, or none. *)

\* A send puts the message into the pipe, or passes it on to a reader.
LEMMA SendImplements ==
  ASSUME PipeInv, NEW w \in Writers, ChanSend(w)
  PROVE  [Abstract!Next]_Abstract!vars
<1> USE DEF chanVars
<1>0. PICK m \in Messages : m = <<w, sent[w]>> /\ ChanSendMessage(w, m)
  BY ZenonT(30), SendingMessage DEF ChanSend, ChanSendMessage
<1>1. CASE chanClosed
  BY <1>0, <1>1 DEF ChanSendMessage, Abstract!vars
<1>2. CASE ~chanClosed /\ Parked # {}
  <2>1. queue = <<>>
    BY <1>2 DEF PipeInv, ReadersFoundNone
  <2>2. Abstract!Pass(m)
    BY <1>0, <1>2, <2>1 DEF ChanSendMessage, Abstract!Pass
  <2> QED
    BY <2>2 DEF Abstract!Next
<1>3. CASE ~chanClosed /\ Parked = {}
  <2>1. Abstract!Put(m)
    BY <1>0, <1>3 DEF ChanSendMessage, Abstract!Put
  <2> QED
    BY <2>1 DEF Abstract!Next
<1> QED
  BY <1>1, <1>2, <1>3

\* Write's return acknowledges a message that is in the pipe or was read.
LEMMA WriteReturnsImplements ==
  ASSUME PipeInv, NEW w \in Writers, WriteReturns(w)
  PROVE  [Abstract!Next]_Abstract!vars
<1>0. PICK m \in Messages : m = <<w, sent[w]>>
  BY ZenonT(30), SendingMessage DEF WriteReturns
<1>1. Buffered(m) \/ Delivered(m)
  BY <1>0 DEF PipeInv, SentIsSafe, WriteReturns, Buffered, Delivered
<1>2. m \in Abstract!Range(queue) \cup Abstract!Range(delivered)
  BY <1>1 DEF Abstract!Range, Buffered, Delivered
<1>3. Abstract!Ack(m)
  BY <1>0, <1>2 DEF WriteReturns, chanVars, Abstract!Ack
<1> QED
  BY <1>3 DEF Abstract!Next

\* A receive gets the oldest message, and the end is reported when there is none left.
LEMMA ReadImplements ==
  ASSUME PipeInv, NEW r \in Readers, Receive(r) \/ ReadErr(r)
  PROVE  [Abstract!Next]_Abstract!vars
<1> USE DEF chanVars
<1>1. CASE Receive(r) /\ queue # <<>>
  <2>1. Abstract!Get
    BY <1>1 DEF Receive, Abstract!Get
  <2> QED
    BY <2>1 DEF Abstract!Next
<1>2. CASE Receive(r) /\ queue = <<>>
  BY <1>2 DEF Receive, Abstract!vars
<1>3. CASE ReadErr(r)
  <2>1. queue = <<>> /\ chanClosed /\ err # None
    BY <1>3, PipeConstants DEF PipeConstants, PipeInv, ReadErr, ReadersFoundNone, OneCloser, Begun
  <2>2. Abstract!Report
    BY <1>3, <2>1 DEF ReadErr, Abstract!Report
  <2> QED
    BY <2>2 DEF Abstract!Next
<1> QED
  BY <1>1, <1>2, <1>3

\* The pipe is closed by close(p.message), with the error of its closer, and loses
\* nothing that was acknowledged.
LEMMA CloserImplements ==
  ASSUME PipeInv, NEW c \in Closers, CompareAndSwap(c) \/ CloserStep(c)
  PROVE  [Abstract!Next]_Abstract!vars
<1> USE DEF chanVars
<1>1. CASE CompareAndSwap(c)
  BY <1>1 DEF CompareAndSwap, Abstract!vars
<1>2. CASE SetErr(c)
  <2>1. ~chanClosed
    BY <1>2 DEF PipeInv, OneCloser, Begun, SetErr
  <2> QED
    BY <1>2, <2>1 DEF SetErr, Abstract!vars
<1>3. CASE CloseChan(c)
  <2>1. ~chanClosed /\ err = c
    BY <1>3 DEF PipeInv, OneCloser, Begun, CloseChan, CloseKeeping
  <2>2. queue \in Seq(Messages) /\ Cap \in Nat /\ Len(queue) \in Nat
    BY PipeConstants DEF PipeConstants, PipeInv, PipeTypes
  <2>3. PICK n \in 0 .. Len(queue) : n = IF Len(queue) <= Cap THEN Len(queue) ELSE Cap
    BY <2>2
  <2>4. queue' = SubSeq(queue, 1, n)
    <3>1. CASE Len(queue) <= Cap
      <4>1. SubSeq(queue, 1, Len(queue)) = queue
        BY <2>2
      <4> QED
        BY <1>3, <2>3, <3>1, <4>1 DEF CloseChan, CloseKeeping
    <3>2. CASE ~(Len(queue) <= Cap)
      BY <1>3, <2>3, <3>2 DEF CloseChan, CloseKeeping
    <3> QED
      BY <3>1, <3>2
  <2>5. Abstract!Range(SubSeq(queue, n + 1, Len(queue))) \cap acked = {}
    <3>1. \A i \in DOMAIN SubSeq(queue, n + 1, Len(queue)) :
            \E j \in DOMAIN queue : j > n /\ SubSeq(queue, n + 1, Len(queue))[i] = queue[j]
      BY <2>2, CutMessages
    <3>2. \A j \in DOMAIN queue : j > n => ~(j <= Cap)
      BY <2>2, <2>3
    <3>3. \A j \in DOMAIN queue : j > n => queue[j] \notin acked
      BY <3>2 DEF PipeInv, SentIsSafe
    <3> QED
      BY <3>1, <3>3, Zenon DEF Abstract!Range
  <2>6. Abstract!Close(c)
    BY ZenonT(30), <1>3, <2>1, <2>4, <2>5 DEF CloseChan, CloseKeeping, Abstract!Close
  <2> QED
    BY <2>6 DEF Abstract!Next
<1> QED
  BY <1>1, <1>2, <1>3 DEF CloserStep

\* A pipe implements Fifo, for any number of readers, writers and closers and any buffer:
\* order is kept, nothing that was acknowledged is lost, and the one error of
\* CloseWithError comes last.
THEOREM PipeImplementsFifo == PipeSpec => ImplementsFifo
<1>1. PipeInit => Abstract!Init
  BY DEF PipeInit, Abstract!Init
<1>2. PipeInv /\ [PipeNext]_pipeVars => [Abstract!Next]_Abstract!vars
  <2> SUFFICES ASSUME PipeInv, [PipeNext]_pipeVars PROVE [Abstract!Next]_Abstract!vars
    OBVIOUS
  <2>1. CASE UNCHANGED pipeVars
    BY <2>1 DEF pipeVars, chanVars, Abstract!vars
  <2>2. ASSUME NEW w \in Writers, CheckClosed(w) PROVE UNCHANGED Abstract!vars
    BY <2>2 DEF CheckClosed, chanVars, Abstract!vars
  <2> QED
    BY <2>1, <2>2, SendImplements, WriteReturnsImplements, ReadImplements, CloserImplements
       DEF PipeNext, WriterStep
<1> QED
  BY <1>1, <1>2, PipeInvariant, PTL DEF PipeSpec, ImplementsFifo, Abstract!Spec

=============================================================================
