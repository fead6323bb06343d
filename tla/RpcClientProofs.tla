-------------------------- MODULE RpcClientProofs ---------------------------
(***************************************************************************)
(* Proofs about the Go RPC client: for any number of callers, calls and    *)
(* messages, and whatever the peer sends.                                  *)
(*                                                                         *)
(* TypeOK is inductive by itself; ClientInv is inductive relative to it,   *)
(* with one lemma per action.  The safety properties follow from the       *)
(* conjuncts of ClientInv without further induction.                       *)
(***************************************************************************)
EXTENDS RpcClient, TLAPS

-----------------------------------------------------------------------------
(* SendContext: drawing an ID, writing, giving up after an error, receiving the
   response and giving up when ctx is done keep ClientInv. *)

\* A channel closed by Run has met a message, so its request was delivered.
LEMMA ClosedWasDelivered ==
  ASSUME TypeOK, ClientInv, NEW i \in Ids, chanClosed[i], outcome[i] # "writeErr"
  PROVE  i \in Delivered
<1>1. PICK q \in Past : HasId(q, i)
  BY DEF ClientInv, ClosedByOwner
<1>2. q \in DOMAIN inLog
  BY DEF TypeOK, Past
<1> QED
  BY <1>1, <1>2 DEF ClientInv, FreshIds, HasId, TypeOK, Ids, NoId

\* What was delivered is the ID of a call.
LEMMA DeliveredIds ==
  ASSUME TypeOK
  PROVE  Delivered \subseteq Ids
BY DEF TypeOK, Delivered

\* Messages carry the ID of a call or none.
LEMMA IdsOfMessages ==
  ASSUME TypeOK
  PROVE  \A p \in 1 .. rd : inLog[p].id \in Ids \cup {NoId}
<1>1. \A p \in 1 .. rd : inLog[p] \in Message
  BY DEF TypeOK
<1>2. \A m \in Message : m.id \in Ids \cup {NoId}
  BY DEF Message
<1> QED
  BY <1>1, <1>2


\* Drawing an ID and entering the map keeps the invariant: the ID is fresh.
LEMMA RegisterKeeps ==
  ASSUME TypeOK, TypeOK', ClientInv, ~crashed, NEW c \in Callers, Register(c)
  PROVE  ClientInv'
<1> USE ClientConstants DEF ClientConstants, Ids, NoId, ClientInv, callVars, chanVars, loopVars, connVars
<1>0. Delivered' = Delivered
  BY DEF Register, RegisterWith, Goto, Delivered
<1>1. ContentsMatch' /\ StraysLate' /\ PastHandled' /\ OutcomesReal'
  BY <1>0 DEF Register, RegisterWith, Goto, ContentsMatch, FirstWithId, HasId, StraysLate,
         StrayIsLate, PastHandled, Past, OutcomesReal
<1>2. PanicOnlyIfTorn'
  BY <1>0 DEF Register, RegisterWith, Goto, PanicOnlyIfTorn
<1>3. CallsDistinct'
  BY <1>0, SMTT(40) DEF TypeOK, Register, RegisterWith, Goto, CallsDistinct, Active, FreshIds
<1>4. FreshIds'
  BY <1>0, SMTT(20) DEF TypeOK, Register, RegisterWith, Goto, FreshIds, CallsDistinct, Active
<1>5. EntriesWait'
  BY <1>0, SMTT(40) DEF TypeOK, Register, RegisterWith, Goto, EntriesWait, CallsDistinct,
         Active, ClaimedIsFirst, Busy, FreshIds, HasId
<1>6. ClaimedIsFirst'
  BY <1>0, SMTT(20) DEF TypeOK, Register, RegisterWith, Goto, ClaimedIsFirst, Busy, EntriesWait,
         ContentsMatch, FirstWithId, CallsDistinct, Active, HasId, FreshIds
<1>7. FailedUndelivered'
  BY <1>0, SMTT(20) DEF TypeOK, Register, RegisterWith, Goto, FailedUndelivered, EntriesWait,
         FreshIds, CallsDistinct, Active
<1>8. ClosedByOwner'
  BY <1>0, SMTT(20) DEF TypeOK, Register, RegisterWith, Goto, ClosedByOwner, Past,
         ClaimedIsFirst, Busy, FailedUndelivered, FreshIds, CallsDistinct, Active, HasId
<1>9. LateIsOver'
  BY <1>0, SMTT(20) DEF TypeOK, Register, RegisterWith, Goto, LateIsOver, FailedUndelivered,
         CallsDistinct, Active, HasId
<1> QED
  BY <1>1, <1>2, <1>3, <1>4, <1>5, <1>6, <1>7, <1>8, <1>9

\* A request that reaches the peer has its entry, and no message met it yet.
LEMMA WriteDeliversKeeps ==
  ASSUME TypeOK, ClientInv, ~crashed, NEW c \in Callers, WriteDelivers(c)
  PROVE  ClientInv'
<1> USE ClientConstants DEF ClientConstants, Ids, NoId, ClientInv, callVars, chanVars, loopVars, connVars
<1>0. Delivered' = Delivered \cup {call[c]}
  <2>1. call[c] \in Ids /\ reqLog \in Seq(Ids) /\ reqLog' = Append(reqLog, call[c])
    BY DEF TypeOK, WriteDelivers, Goto
  <2>2. /\ DOMAIN reqLog' = DOMAIN reqLog \cup {Len(reqLog) + 1}
        /\ \A k \in DOMAIN reqLog : reqLog'[k] = reqLog[k]
        /\ reqLog'[Len(reqLog) + 1] = call[c]
    BY <2>1
  <2> QED
    BY <2>2, Zenon DEF Delivered
<1>1. ClaimedIsFirst' /\ ContentsMatch' /\ StraysLate' /\ PastHandled'
  BY <1>0 DEF WriteDelivers, Goto, ClaimedIsFirst, Busy, HasId, ContentsMatch, FirstWithId,
         StraysLate, StrayIsLate, PastHandled, Past
<1>2. OutcomesReal' /\ PanicOnlyIfTorn'
  BY <1>0 DEF WriteDelivers, Goto, OutcomesReal, PanicOnlyIfTorn
<1>3. CallsDistinct'
  BY <1>0, SMTT(20) DEF TypeOK, WriteDelivers, Goto, CallsDistinct, Active, FreshIds
<1>4. FreshIds'
  BY <1>0, SMTT(20) DEF TypeOK, WriteDelivers, Goto, FreshIds, CallsDistinct, Active
<1>5. EntriesWait'
  BY <1>0, SMTT(20) DEF TypeOK, WriteDelivers, Goto, EntriesWait, CallsDistinct, Active,
         ClaimedIsFirst, Busy, FreshIds, HasId
<1>6. FailedUndelivered'
  BY <1>0, ZenonT(30) DEF TypeOK, WriteDelivers, Goto, FailedUndelivered, CallsDistinct, Active
<1>7. ClosedByOwner'
  <2>1. ~chanClosed[call[c]]
    BY ClosedWasDelivered, ZenonT(30) DEF TypeOK, WriteDelivers, Goto, FailedUndelivered, CallsDistinct,
           Active
  <2> QED
    BY <2>1, ZenonT(30) DEF TypeOK, WriteDelivers, Goto, ClosedByOwner, Past, HasId
<1>8. LateIsOver'
  <2>1. call[c] \in results
    BY DEF WriteDelivers, Goto, FailedUndelivered
  <2> QED
    BY <1>0, <2>1 DEF WriteDelivers, Goto, LateIsOver, HasId
<1> QED
  BY <1>1, <1>2, <1>3, <1>4, <1>5, <1>6, <1>7, <1>8

\* Returning from conn.Write only moves the caller on to the select.
LEMMA WriteReturnsKeeps ==
  ASSUME TypeOK, ClientInv, ~crashed, NEW c \in Callers, WriteReturns(c)
  PROVE  ClientInv'
<1> USE ClientConstants DEF ClientConstants, Ids, NoId, ClientInv, callVars, chanVars, loopVars, connVars
<1>0. Delivered' = Delivered
  BY DEF WriteReturns, Goto, Delivered
<1>1. FreshIds' /\ ClaimedIsFirst' /\ ContentsMatch' /\ LateIsOver'
  BY <1>0 DEF WriteReturns, Goto, FreshIds, ClaimedIsFirst, Busy, HasId, ContentsMatch,
         FirstWithId, LateIsOver
<1>2. StraysLate' /\ PastHandled' /\ OutcomesReal' /\ PanicOnlyIfTorn'
  BY <1>0 DEF WriteReturns, Goto, StraysLate, StrayIsLate, HasId, PastHandled, Past,
         OutcomesReal, PanicOnlyIfTorn
<1>3. CallsDistinct'
  BY <1>0, SMTT(20) DEF TypeOK, WriteReturns, Goto, CallsDistinct, Active, FreshIds
<1>4. EntriesWait'
  BY <1>0, SMTT(40) DEF TypeOK, WriteReturns, Goto, EntriesWait, CallsDistinct, Active,
         ClaimedIsFirst, Busy, FreshIds, HasId
<1>5. FailedUndelivered'
  BY <1>0, SMTT(20) DEF TypeOK, WriteReturns, Goto, FailedUndelivered, EntriesWait, FreshIds,
         CallsDistinct, Active
<1>6. ClosedByOwner'
  BY <1>0, SMTT(20) DEF TypeOK, WriteReturns, Goto, ClosedByOwner, Past, ClaimedIsFirst, Busy,
         FailedUndelivered, FreshIds, CallsDistinct, Active, HasId
<1> QED
  BY <1>1, <1>2, <1>3, <1>4, <1>5, <1>6

\* A failed conn.Write is torn or left the request undelivered.
LEMMA WriteFailsKeeps ==
  ASSUME TypeOK, ClientInv, ~crashed, NEW c \in Callers, WriteFails(c)
  PROVE  ClientInv'
<1> USE ClientConstants DEF ClientConstants, Ids, NoId, ClientInv, callVars, chanVars, loopVars, connVars
<1>0. Delivered' = Delivered
  BY DEF WriteFails, Goto, Delivered
<1>1. ClaimedIsFirst' /\ ContentsMatch' /\ PastHandled' /\ OutcomesReal'
  BY <1>0 DEF WriteFails, Goto, ClaimedIsFirst, Busy, HasId, ContentsMatch, FirstWithId,
         PastHandled, Past, OutcomesReal
<1>2. CallsDistinct'
  BY <1>0, SMTT(20) DEF TypeOK, WriteFails, Goto, CallsDistinct, Active, FreshIds
<1>3. FreshIds'
  BY <1>0, SMTT(20) DEF TypeOK, WriteFails, Goto, FreshIds, CallsDistinct, Active
<1>4. EntriesWait'
  <2> SUFFICES ASSUME NEW i \in results'
               PROVE  /\ \E d \in Callers : call'[d] = i /\ pc'[d] \notin {"idle", "closing"}
                      /\ chanMsg'[i] = 0 /\ ~chanClosed'[i]
                      /\ \A q \in 1 .. rd' : ~HasId(q, i)'
    BY DEF EntriesWait
  <2>1. PICK d \in Callers : call[d] = i /\ pc[d] \notin {"idle", "closing"}
    BY DEF TypeOK, WriteFails, Goto, EntriesWait
  <2>2. call'[d] = i /\ pc'[d] \notin {"idle", "closing"}
    BY <2>1, SMTT(40) DEF TypeOK, WriteFails, Goto, FailedUndelivered
  <2> QED
    BY <1>0, <2>1, <2>2 DEF TypeOK, WriteFails, Goto, EntriesWait, HasId, CallsDistinct, Active
<1>5. FailedUndelivered'
  BY <1>0, SMTT(20) DEF TypeOK, WriteFails, Goto, FailedUndelivered, EntriesWait, FreshIds,
         CallsDistinct, Active
<1>6. ClosedByOwner'
  BY <1>0, SMTT(40) DEF TypeOK, WriteFails, Goto, ClosedByOwner, Past, ClaimedIsFirst, Busy,
         FailedUndelivered, FreshIds, CallsDistinct, Active, HasId
<1>7. LateIsOver'
  BY <1>0, SMTT(20) DEF TypeOK, WriteFails, Goto, LateIsOver, FailedUndelivered, CallsDistinct,
         Active, HasId
<1>8. StraysLate'
  BY <1>0, SMTT(20) DEF TypeOK, WriteFails, Goto, StraysLate, StrayIsLate, LateIsOver,
         CallsDistinct, Active, HasId, FreshIds
<1>9. PanicOnlyIfTorn'
  BY <1>0, SMTT(20) DEF TypeOK, WriteFails, Goto, PanicOnlyIfTorn, ClaimedIsFirst, Busy,
         ClosedByOwner, Past, FailedUndelivered, FreshIds, CallsDistinct, Active, HasId
<1> QED
  BY <1>1, <1>2, <1>3, <1>4, <1>5, <1>6, <1>7, <1>8, <1>9

\* Leaving the map after a failed write.
LEMMA ReleaseAfterErrorKeeps ==
  ASSUME TypeOK, ClientInv, ~crashed, NEW c \in Callers, ReleaseAfterError(c)
  PROVE  ClientInv'
<1> USE ClientConstants DEF ClientConstants, Ids, NoId, ClientInv, callVars, chanVars, loopVars, connVars
<1>0. Delivered' = Delivered
  BY DEF ReleaseAfterError, ReleaseResponseChan, Goto, Delivered
<1>1. ContentsMatch' /\ StraysLate' /\ PastHandled' /\ OutcomesReal'
  BY <1>0, SMTT(40) DEF ReleaseAfterError, ReleaseResponseChan, Goto, ContentsMatch, FirstWithId, HasId,
         StraysLate, StrayIsLate, PastHandled, Past, OutcomesReal
<1>2. PanicOnlyIfTorn'
  BY <1>0 DEF ReleaseAfterError, ReleaseResponseChan, Goto, PanicOnlyIfTorn
<1>3. CallsDistinct'
  BY <1>0, SMTT(20) DEF TypeOK, ReleaseAfterError, ReleaseResponseChan, Goto, CallsDistinct,
         Active, FreshIds
<1>4. FreshIds'
  BY <1>0, SMTT(20) DEF TypeOK, ReleaseAfterError, ReleaseResponseChan, Goto, FreshIds,
         CallsDistinct, Active
<1>5. EntriesWait'
  BY <1>0, SMTT(40) DEF TypeOK, ReleaseAfterError, ReleaseResponseChan, Goto, EntriesWait,
         CallsDistinct, Active, ClaimedIsFirst, Busy, FreshIds, HasId
<1>6. ClaimedIsFirst'
  BY <1>0, SMTT(20) DEF TypeOK, ReleaseAfterError, ReleaseResponseChan, Goto, ClaimedIsFirst,
         Busy, EntriesWait, ContentsMatch, FirstWithId, CallsDistinct, Active, HasId, FreshIds
<1>7. FailedUndelivered'
  BY <1>0, SMTT(40) DEF TypeOK, ReleaseAfterError, ReleaseResponseChan, Goto, FailedUndelivered,
         EntriesWait, FreshIds, CallsDistinct, Active
<1>8. ClosedByOwner'
  BY <1>0, SMTT(20) DEF TypeOK, ReleaseAfterError, ReleaseResponseChan, Goto, ClosedByOwner,
         Past, ClaimedIsFirst, Busy, FailedUndelivered, FreshIds, CallsDistinct, Active, HasId
<1>9. LateIsOver'
  BY <1>0, SMTT(20) DEF TypeOK, ReleaseAfterError, ReleaseResponseChan, Goto, LateIsOver,
         FailedUndelivered, CallsDistinct, Active, HasId
<1> QED
  BY <1>1, <1>2, <1>3, <1>4, <1>5, <1>6, <1>7, <1>8, <1>9

\* Closing the channel after a failed write: it panics only for a torn one.
LEMMA CloseAfterErrorKeeps ==
  ASSUME TypeOK, ClientInv, ~crashed, NEW c \in Callers, CloseAfterError(c)
  PROVE  ClientInv'
<1> USE ClientConstants DEF ClientConstants, Ids, NoId, ClientInv, callVars, chanVars, loopVars, connVars
<1>0. Delivered' = Delivered
  BY DEF CloseAfterError, Return, Goto, Close, Delivered
<1>d. \A i \in Ids : outcome[i] # "pending" => outcome'[i] = outcome[i]
  BY SMTT(40) DEF TypeOK, CloseAfterError, Return, Goto, CallsDistinct, Active
<1>1. ClaimedIsFirst' /\ ContentsMatch' /\ PastHandled'
  BY <1>0 DEF CloseAfterError, Return, Goto, Close, ClaimedIsFirst, Busy, HasId, ContentsMatch,
         FirstWithId, PastHandled, Past
<1>2. CallsDistinct'
  BY <1>0, SMTT(20) DEF TypeOK, CloseAfterError, Return, Goto, Close, CallsDistinct, Active,
         FreshIds
<1>3. FreshIds'
  BY <1>0, SMTT(40) DEF TypeOK, CloseAfterError, Return, Goto, Close, FreshIds, CallsDistinct,
         Active
<1>4. EntriesWait'
  <2> SUFFICES ASSUME NEW i \in results'
               PROVE  /\ \E d \in Callers : call'[d] = i /\ pc'[d] \notin {"idle", "closing"}
                      /\ chanMsg'[i] = 0 /\ ~chanClosed'[i]
                      /\ \A q \in 1 .. rd' : ~HasId(q, i)'
    BY DEF EntriesWait
  <2>1. PICK d \in Callers : call[d] = i /\ pc[d] \notin {"idle", "closing"}
    BY DEF TypeOK, CloseAfterError, Return, Goto, Close, EntriesWait
  <2>2. call'[d] = i /\ pc'[d] \notin {"idle", "closing"}
    BY <2>1 DEF TypeOK, CloseAfterError, Return, Goto, Close, FailedUndelivered
  <2> QED
    BY <1>0, <2>1, <2>2, SMTT(40) DEF TypeOK, CloseAfterError, Return, Goto, Close, EntriesWait, HasId,
           CallsDistinct, Active
<1>5. FailedUndelivered'
  BY <1>0, SMTT(40) DEF TypeOK, CloseAfterError, Return, Goto, Close, FailedUndelivered,
         EntriesWait, FreshIds, CallsDistinct, Active
<1>6. ClosedByOwner'
  <2>1. \A d \in Callers : Active(d) /\ d # c => call[d] # call[c]
    BY SMTT(40) DEF TypeOK, CloseAfterError, Return, Goto, Close, CallsDistinct, Active
  <2>2. Past' = Past /\ \A q \in Past, i \in Ids : HasId(q, i)' <=> HasId(q, i)
    BY DEF CloseAfterError, Return, Goto, Close, Past, HasId
  <2>3. \A i \in Ids : outcome[i] = "writeErr" => outcome'[i] = "writeErr"
    BY <1>d
  <2>4. \A i \in Ids : chanClosed'[i] => outcome'[i] = "writeErr" \/ \E q \in Past : HasId(q, i)
    BY <2>3 DEF TypeOK, CloseAfterError, Return, Goto, Close, ClosedByOwner
  <2>5. ASSUME NEW d \in Callers, pc'[d] \in {"written", "waiting"}, chanClosed'[call'[d]]
        PROVE  chanMsg'[call'[d]] # 0
    BY <2>1, <2>5 DEF TypeOK, CloseAfterError, Return, Goto, Close, ClosedByOwner, Active
  <2> QED
    BY <2>2, <2>4, <2>5 DEF ClosedByOwner
<1>7. LateIsOver'
  <2>1. \A i \in Ids : outcome[i] = "ctxErr" => outcome'[i] = "ctxErr"
    BY <1>d
  <2>2. Delivered \subseteq Ids
    BY DeliveredIds
  <2> QED
    BY <1>0, <2>1, <2>2 DEF CloseAfterError, Return, Goto, Close, LateIsOver, HasId
<1>8. StraysLate'
  <2>1. \A i \in Ids : outcome[i] = "ctxErr" => outcome'[i] = "ctxErr"
    BY <1>d
  <2>3. \A p \in 1 .. rd : StrayIsLate(p) => StrayIsLate(p)'
    BY <2>1, IdsOfMessages DEF CloseAfterError, Return, Goto, Close, StrayIsLate, HasId
  <2> QED
    BY <2>3, SMTT(40) DEF TypeOK, CloseAfterError, Return, Goto, Close, StraysLate
<1>9. OutcomesReal'
  BY <1>0, SMTT(20) DEF TypeOK, CloseAfterError, Return, Goto, Close, OutcomesReal,
         ContentsMatch, FirstWithId, CallsDistinct, Active, ClosedByOwner
<1>10. PanicOnlyIfTorn'
  <2>1. chanClosed[call[c]] => call[c] \in torn
    BY ClosedWasDelivered, ZenonT(40) DEF TypeOK, CloseAfterError, Return, Goto, Close, FailedUndelivered,
           CallsDistinct, Active
  <2> QED
    BY <2>1, SMTT(40) DEF TypeOK, CloseAfterError, Return, Goto, Close, PanicOnlyIfTorn
<1> QED
  BY <1>1, <1>2, <1>3, <1>4, <1>5, <1>6, <1>7, <1>8, <1>9, <1>10

\* Taking the response from the channel: it moves from chanMsg to answer.
LEMMA ReceiveKeeps ==
  ASSUME TypeOK, ClientInv, ~crashed, NEW c \in Callers, Receive(c)
  PROVE  ClientInv'
<1> USE ClientConstants DEF ClientConstants, Ids, NoId, ClientInv, callVars, chanVars, loopVars, connVars
<1>0. Delivered' = Delivered
  BY DEF Receive, Return, Goto, Delivered
<1>d. \A i \in Ids : outcome[i] # "pending" => outcome'[i] = outcome[i]
  BY SMTT(30) DEF TypeOK, Receive, Return, Goto, CallsDistinct, Active
<1>1. PanicOnlyIfTorn'
  BY <1>0 DEF Receive, Return, Goto, PanicOnlyIfTorn
<1>2. CallsDistinct'
  BY <1>0, SMTT(40) DEF TypeOK, Receive, Return, Goto, CallsDistinct, Active, FreshIds
<1>3. FreshIds'
  BY <1>0, SMTT(40) DEF TypeOK, Receive, Return, Goto, FreshIds, CallsDistinct, Active
<1>4. EntriesWait'
  BY <1>0, SMTT(40) DEF TypeOK, Receive, Return, Goto, EntriesWait, CallsDistinct, Active,
         ClaimedIsFirst, Busy, FreshIds, HasId
<1>5. ClaimedIsFirst'
  <2>1. \A i \in Ids : i = call[c] => answer[i] = 0
    BY DEF TypeOK, Receive, Return, Goto, CallsDistinct, Active
  <2>2. \A i \in Ids : rd > 0 /\ (rd = chanMsg[i] \/ rd = answer[i]) => rd = chanMsg'[i] \/ rd = answer'[i]
    BY <2>1, SMTT(40) DEF TypeOK, Receive, Return, Goto
  <2>3. \A i \in Ids : chanMsg[i] = 0 /\ answer[i] = 0 => chanMsg'[i] = 0 /\ answer'[i] = 0
    BY <2>1, SMTT(40) DEF TypeOK, Receive, Return, Goto
  <2> QED
    BY <2>2, <2>3, SMTT(40) DEF TypeOK, Receive, Return, Goto, ClaimedIsFirst, Busy, HasId
<1>6. ContentsMatch'
  <2>1. rd' = rd /\ inLog' = inLog
    BY DEF Receive
  <2>2. ASSUME NEW i \in Ids
        PROVE  /\ chanMsg'[i] = 0 \/ chanMsg'[i] = chanMsg[i]
               /\ answer'[i] = answer[i] \/ answer'[i] = chanMsg[i]
    BY SMTT(40) DEF TypeOK, Receive, Return, Goto
  <2> QED
    BY <2>1, <2>2, SMTT(40) DEF ContentsMatch, FirstWithId, HasId
<1>7. FailedUndelivered'
  BY <1>0, SMTT(40) DEF TypeOK, Receive, Return, Goto, FailedUndelivered, EntriesWait, FreshIds,
         CallsDistinct, Active
<1>8. ClosedByOwner'
  <2>1. \A d \in Callers : Active(d) /\ d # c => call[d] # call[c]
    BY DEF TypeOK, Receive, Return, Goto, CallsDistinct, Active
  <2>2. Past' = Past /\ \A q \in Past, i \in Ids : HasId(q, i)' <=> HasId(q, i)
    BY SMTT(40) DEF Receive, Return, Goto, Past, HasId
  <2>3. \A i \in Ids : outcome[i] = "writeErr" => outcome'[i] = "writeErr"
    BY <1>d
  <2>4. \A i \in Ids : chanClosed'[i] => outcome'[i] = "writeErr" \/ \E q \in Past : HasId(q, i)
    BY <2>3, SMTT(40) DEF TypeOK, Receive, Return, Goto, ClosedByOwner
  <2>5. ASSUME NEW d \in Callers, pc'[d] \in {"written", "waiting"}, chanClosed'[call'[d]]
        PROVE  chanMsg'[call'[d]] # 0
    BY <2>1, <2>5, SMTT(40) DEF TypeOK, Receive, Return, Goto, ClosedByOwner, Active
  <2> QED
    BY <2>2, <2>4, <2>5 DEF ClosedByOwner
<1>9. LateIsOver'
  <2>1. \A i \in Ids : outcome[i] = "ctxErr" => outcome'[i] = "ctxErr"
    BY <1>d
  <2>2. Delivered \subseteq Ids
    BY DeliveredIds
  <2> QED
    BY <1>0, <2>1, <2>2, SMTT(40) DEF Receive, Return, Goto, LateIsOver, HasId
<1>10. StraysLate'
  <2>1. \A i \in Ids : outcome[i] = "ctxErr" => outcome'[i] = "ctxErr"
    BY <1>d
  <2>3. \A p \in 1 .. rd : StrayIsLate(p) => StrayIsLate(p)'
    BY <2>1, IdsOfMessages DEF Receive, Return, Goto, StrayIsLate, HasId
  <2> QED
    BY <2>3, SMTT(40) DEF TypeOK, Receive, Return, Goto, StraysLate
<1>11. PastHandled'
  <2>1. \A i \in Ids : i = call[c] => answer[i] = 0
    BY DEF TypeOK, Receive, Return, Goto, CallsDistinct, Active
  <2>2. \A q \in Past, i \in Ids : q = chanMsg[i] \/ q = answer[i] => q = chanMsg'[i] \/ q = answer'[i]
    BY <2>1, SMTT(40) DEF TypeOK, Receive, Return, Goto, Past
  <2>3. Past' = Past /\ dispatched' = dispatched
    BY DEF TypeOK, Receive, Return, Goto, Past
  <2> QED
    BY <2>2, <2>3, SMTT(40) DEF PastHandled
<1>12. OutcomesReal'
  <2>1. call[c] \in Ids /\ chanMsg[call[c]] # 0
    BY SMTT(40) DEF TypeOK, Receive, Return, Goto, ClosedByOwner
  <2>2. \A i \in Ids : i # call[c] => outcome'[i] = outcome[i] /\ answer'[i] = answer[i]
    BY SMTT(40) DEF TypeOK, Receive, Return, Goto
  <2>3. /\ answer'[call[c]] = chanMsg[call[c]]
        /\ outcome'[call[c]] = IF inLog[chanMsg[call[c]]].errs THEN "remoteErr" ELSE "response"
    BY <2>1, SMTT(40) DEF TypeOK, Receive, Return, Goto
  <2>4. inLog' = inLog
    BY SMTT(40) DEF Receive
  <2> QED
    BY <2>1, <2>2, <2>3, <2>4, SMTT(40) DEF OutcomesReal
<1> QED
  BY <1>1, <1>2, <1>3, <1>4, <1>5, <1>6, <1>7, <1>8, <1>9, <1>10, <1>11, <1>12

\* The select picking ctx.Done only moves the caller.
LEMMA CtxDoneKeeps ==
  ASSUME TypeOK, ClientInv, ~crashed, NEW c \in Callers, CtxDone(c)
  PROVE  ClientInv'
<1> USE ClientConstants DEF ClientConstants, Ids, NoId, ClientInv, callVars, chanVars, loopVars, connVars
<1>0. Delivered' = Delivered
  BY SMTT(40) DEF CtxDone, Goto, Delivered
<1>1. FreshIds' /\ ClaimedIsFirst' /\ ContentsMatch' /\ LateIsOver'
  BY <1>0, SMTT(40) DEF CtxDone, Goto, FreshIds, ClaimedIsFirst, Busy, HasId, ContentsMatch, FirstWithId,
         LateIsOver
<1>2. StraysLate' /\ PastHandled' /\ OutcomesReal' /\ PanicOnlyIfTorn'
  BY <1>0 DEF CtxDone, Goto, StraysLate, StrayIsLate, HasId, PastHandled, Past, OutcomesReal,
         PanicOnlyIfTorn
<1>3. CallsDistinct'
  BY <1>0, SMTT(40) DEF TypeOK, CtxDone, Goto, CallsDistinct, Active, FreshIds
<1>4. EntriesWait'
  BY <1>0, SMTT(40) DEF TypeOK, CtxDone, Goto, EntriesWait, CallsDistinct, Active,
         ClaimedIsFirst, Busy, FreshIds, HasId
<1>5. FailedUndelivered'
  BY <1>0, SMTT(40) DEF TypeOK, CtxDone, Goto, FailedUndelivered, EntriesWait, FreshIds,
         CallsDistinct, Active
<1>6. ClosedByOwner'
  BY <1>0, SMTT(20) DEF TypeOK, CtxDone, Goto, ClosedByOwner, Past, ClaimedIsFirst, Busy,
         FailedUndelivered, FreshIds, CallsDistinct, Active, HasId
<1> QED
  BY <1>1, <1>2, <1>3, <1>4, <1>5, <1>6

\* Leaving the map when ctx is done.
LEMMA ReleaseAfterExpiryKeeps ==
  ASSUME TypeOK, ClientInv, ~crashed, NEW c \in Callers, ReleaseAfterExpiry(c)
  PROVE  ClientInv'
<1> USE ClientConstants DEF ClientConstants, Ids, NoId, ClientInv, callVars, chanVars, loopVars, connVars
<1>0. Delivered' = Delivered
  BY DEF ReleaseAfterExpiry, ReleaseResponseChan, Return, Goto, Delivered
<1>d. \A i \in Ids : outcome[i] # "pending" => outcome'[i] = outcome[i]
  BY SMTT(40) DEF TypeOK, ReleaseAfterExpiry, Return, Goto, CallsDistinct, Active
<1>1. ContentsMatch' /\ PastHandled' /\ PanicOnlyIfTorn'
  BY <1>0, SMTT(40) DEF ReleaseAfterExpiry, ReleaseResponseChan, Return, Goto, ContentsMatch, FirstWithId,
         HasId, PastHandled, Past, PanicOnlyIfTorn
<1>2. CallsDistinct'
  BY <1>0, SMTT(40) DEF TypeOK, ReleaseAfterExpiry, ReleaseResponseChan, Return, Goto,
         CallsDistinct, Active, FreshIds
<1>3. FreshIds'
  BY <1>0, SMTT(40) DEF TypeOK, ReleaseAfterExpiry, ReleaseResponseChan, Return, Goto, FreshIds,
         CallsDistinct, Active
<1>4. EntriesWait'
  BY <1>0, SMTT(40) DEF TypeOK, ReleaseAfterExpiry, ReleaseResponseChan, Return, Goto,
         EntriesWait, CallsDistinct, Active, ClaimedIsFirst, Busy, FreshIds, HasId
<1>5. ClaimedIsFirst'
  BY <1>0, SMTT(40) DEF TypeOK, ReleaseAfterExpiry, ReleaseResponseChan, Return, Goto,
         ClaimedIsFirst, Busy, EntriesWait, ContentsMatch, FirstWithId, CallsDistinct, Active,
         HasId, FreshIds
<1>6. FailedUndelivered'
  BY <1>0, SMTT(40) DEF TypeOK, ReleaseAfterExpiry, ReleaseResponseChan, Return, Goto, FailedUndelivered,
         CallsDistinct, Active
<1>7. ClosedByOwner'
  <2>1. \A d \in Callers : Active(d) /\ d # c => call[d] # call[c]
    BY SMTT(40) DEF TypeOK, ReleaseAfterExpiry, ReleaseResponseChan, Return, Goto, CallsDistinct, Active
  <2>2. Past' = Past /\ \A q \in Past, i \in Ids : HasId(q, i)' <=> HasId(q, i)
    BY SMTT(40) DEF ReleaseAfterExpiry, ReleaseResponseChan, Return, Goto, Past, HasId
  <2>3. \A i \in Ids : outcome[i] = "writeErr" => outcome'[i] = "writeErr"
    BY <1>d
  <2>4. \A i \in Ids : chanClosed'[i] => outcome'[i] = "writeErr" \/ \E q \in Past : HasId(q, i)
    BY <2>3, SMTT(40) DEF TypeOK, ReleaseAfterExpiry, ReleaseResponseChan, Return, Goto, ClosedByOwner
  <2>5. ASSUME NEW d \in Callers, pc'[d] \in {"written", "waiting"}, chanClosed'[call'[d]]
        PROVE  chanMsg'[call'[d]] # 0
    BY <2>1, <2>5, SMTT(40) DEF TypeOK, ReleaseAfterExpiry, ReleaseResponseChan, Return, Goto,
           ClosedByOwner, Active
  <2> QED
    BY <2>2, <2>4, <2>5 DEF ClosedByOwner
<1>8. LateIsOver'
  BY <1>0, SMTT(40) DEF TypeOK, ReleaseAfterExpiry, ReleaseResponseChan, Return, Goto,
         LateIsOver, FailedUndelivered, CallsDistinct, Active, HasId
<1>9. StraysLate'
  <2>1. \A i \in Ids : outcome[i] = "ctxErr" => outcome'[i] = "ctxErr"
    BY <1>d
  <2>3. \A p \in 1 .. rd : StrayIsLate(p) => StrayIsLate(p)'
    BY <2>1, IdsOfMessages, SMTT(40) DEF ReleaseAfterExpiry, ReleaseResponseChan, Return, Goto,
           StrayIsLate, HasId
  <2> QED
    BY <2>3, SMTT(40) DEF TypeOK, ReleaseAfterExpiry, ReleaseResponseChan, Return, Goto, StraysLate
<1>10. OutcomesReal'
  BY <1>0, SMTT(20) DEF TypeOK, ReleaseAfterExpiry, ReleaseResponseChan, Return, Goto,
         OutcomesReal, ContentsMatch, FirstWithId, CallsDistinct, Active, ClosedByOwner
<1> QED
  BY <1>1, <1>2, <1>3, <1>4, <1>5, <1>6, <1>7, <1>8, <1>9, <1>10

-----------------------------------------------------------------------------
(* The steps of Run and of the peer keep it. *)

\* Run matches the next message with its call, or has it dispatched.
LEMMA OnReceiveMessageKeeps ==
  ASSUME TypeOK, TypeOK', ClientInv, ~crashed, OnReceiveMessage
  PROVE  ClientInv'
<1> USE ClientConstants DEF ClientConstants, Ids, NoId, ClientInv, callVars, chanVars, loopVars, connVars
<1>0. Delivered' = Delivered
  BY DEF OnReceiveMessage, OnReceiveMessageWhen, MatchedCall, ReleaseResponseChan, Delivered
<1>1. CallsDistinct' /\ OutcomesReal' /\ PanicOnlyIfTorn'
  BY <1>0, SMTT(30) DEF OnReceiveMessage, OnReceiveMessageWhen, MatchedCall, ReleaseResponseChan,
         CallsDistinct, Active, OutcomesReal, PanicOnlyIfTorn
<1>2. FreshIds'
  BY <1>0, SMTT(20) DEF TypeOK, OnReceiveMessage, OnReceiveMessageWhen, MatchedCall,
         ReleaseResponseChan, FreshIds, CallsDistinct, Active
<1>3. EntriesWait'
  BY <1>0, SMTT(40) DEF TypeOK, OnReceiveMessage, OnReceiveMessageWhen, MatchedCall,
         ReleaseResponseChan, EntriesWait, CallsDistinct, Active, ClaimedIsFirst, Busy,
         FreshIds, HasId
<1>4. ClaimedIsFirst'
  BY <1>0, SMTT(40) DEF TypeOK, OnReceiveMessage, OnReceiveMessageWhen, MatchedCall,
         ReleaseResponseChan, ClaimedIsFirst, Busy, EntriesWait, ContentsMatch, FirstWithId,
         CallsDistinct, Active, HasId, FreshIds
<1>5. ContentsMatch'
  BY <1>0, SMTT(40) DEF TypeOK, OnReceiveMessage, OnReceiveMessageWhen, MatchedCall,
         ReleaseResponseChan, ContentsMatch, FirstWithId, ClaimedIsFirst, Busy, CallsDistinct,
         Active, HasId, FreshIds
<1>6. FailedUndelivered'
  BY <1>0, SMTT(40) DEF TypeOK, OnReceiveMessage, OnReceiveMessageWhen, MatchedCall,
         ReleaseResponseChan, FailedUndelivered, EntriesWait, FreshIds, CallsDistinct, Active
<1>7. ClosedByOwner'
  BY <1>0, SMTT(20) DEF TypeOK, OnReceiveMessage, OnReceiveMessageWhen, MatchedCall,
         ReleaseResponseChan, ClosedByOwner, Past, ClaimedIsFirst, Busy, FailedUndelivered,
         FreshIds, CallsDistinct, Active, HasId
<1>8. LateIsOver'
  BY <1>0, SMTT(20) DEF TypeOK, OnReceiveMessage, OnReceiveMessageWhen, MatchedCall,
         ReleaseResponseChan, LateIsOver, FailedUndelivered, CallsDistinct, Active, HasId
<1>9. StraysLate'
  <2> DEFINE i == inLog[rd + 1].id
  <2>1. rd' = rd + 1 /\ rd + 1 \in DOMAIN inLog /\ rd \in Nat
    BY SMTT(30) DEF TypeOK, OnReceiveMessage, OnReceiveMessageWhen, MatchedCall, ReleaseResponseChan
  <2>2. \A p \in 1 .. rd + 1 : StrayIsLate(p) => StrayIsLate(p)'
    BY DEF OnReceiveMessage, OnReceiveMessageWhen, MatchedCall, ReleaseResponseChan, StrayIsLate, HasId
  <2>3. ASSUME run' = "dispatching"
        PROVE  StrayIsLate(rd + 1)
    <3>1. i \notin results /\ i \in Delivered \cup {NoId}
      BY <2>1, <2>3 DEF OnReceiveMessage, OnReceiveMessageWhen, MatchedCall,
             ReleaseResponseChan, FreshIds
    <3>2. i \in Delivered => (\E q \in 1 .. rd : HasId(q, i)) \/ outcome[i] = "ctxErr" \/ i \in torn
      BY <3>1 DEF LateIsOver
    <3>3. rd = (rd + 1) - 1
      BY <2>1
    <3> QED
      BY <3>1, <3>2, <3>3 DEF StrayIsLate
  <2>4. /\ dispatched' = dispatched /\ dispatched \subseteq 1 .. rd
        /\ \A p \in dispatched : StrayIsLate(p)
    BY DEF OnReceiveMessage, OnReceiveMessageWhen, MatchedCall, ReleaseResponseChan, StraysLate
  <2> QED
    BY <2>1, <2>2, <2>3, <2>4 DEF StraysLate
<1>10. PastHandled'
  <2>1. Past' = Past
    BY DEF TypeOK, OnReceiveMessage, OnReceiveMessageWhen, MatchedCall, ReleaseResponseChan, Past
  <2> QED
    BY <2>1 DEF OnReceiveMessage, OnReceiveMessageWhen, MatchedCall, ReleaseResponseChan,
           PastHandled
<1> QED
  BY <1>1, <1>2, <1>3, <1>4, <1>5, <1>6, <1>7, <1>8, <1>9, <1>10, SMTT(30)

\* Run sends on a channel that is empty, and open unless a write was torn.
LEMMA SendResponseKeeps ==
  ASSUME TypeOK, ClientInv, ~crashed, SendResponse
  PROVE  ClientInv'
<1> USE ClientConstants DEF ClientConstants, Ids, NoId, ClientInv, callVars, chanVars, loopVars, connVars
<1>0. Delivered' = Delivered
  BY SMTT(30) DEF SendResponse, MatchedCall, RoomFor, Delivered
<1>1. CallsDistinct' /\ FailedUndelivered' /\ LateIsOver' /\ OutcomesReal'
  BY <1>0, SMTT(30) DEF SendResponse, MatchedCall, RoomFor, CallsDistinct, Active, FailedUndelivered,
         LateIsOver, HasId, OutcomesReal
<1>2. FreshIds'
  BY <1>0, SMTT(20) DEF TypeOK, SendResponse, MatchedCall, RoomFor, FreshIds, CallsDistinct,
         Active
<1>3. EntriesWait'
  BY <1>0, SMTT(40) DEF TypeOK, SendResponse, MatchedCall, RoomFor, EntriesWait, CallsDistinct,
         Active, ClaimedIsFirst, Busy, FreshIds, HasId
<1>4. ClaimedIsFirst'
  BY <1>0, SMTT(20) DEF TypeOK, SendResponse, MatchedCall, RoomFor, ClaimedIsFirst, Busy,
         EntriesWait, ContentsMatch, FirstWithId, CallsDistinct, Active, HasId, FreshIds
<1>5. ContentsMatch'
  <2>1. rd' = rd /\ inLog' = inLog /\ answer' = answer
    BY DEF SendResponse, callVars, connVars
  <2>2. ASSUME NEW i \in Ids
        PROVE  chanMsg'[i] = chanMsg[i] \/ (i = inLog[rd].id /\ chanMsg'[i] = rd)
    BY DEF TypeOK, SendResponse, MatchedCall
  <2>3. rd > 0 /\ rd \in 1 .. rd /\ \A q \in 1 .. rd - 1 : inLog[q].id # inLog[rd].id
    BY SMTT(30) DEF TypeOK, SendResponse, ClaimedIsFirst, Busy, HasId
  <2> QED
    BY <2>1, <2>2, <2>3 DEF ContentsMatch, FirstWithId, HasId
<1>6. ClosedByOwner'
  BY <1>0, SMTT(20) DEF TypeOK, SendResponse, MatchedCall, RoomFor, ClosedByOwner, Past,
         ClaimedIsFirst, Busy, FailedUndelivered, FreshIds, CallsDistinct, Active, HasId
<1>7. StraysLate'
  BY <1>0, SMTT(20) DEF TypeOK, SendResponse, MatchedCall, RoomFor, StraysLate, StrayIsLate,
         LateIsOver, CallsDistinct, Active, HasId, FreshIds
<1>8. PastHandled'
  <2>1. chanMsg[inLog[rd].id] = 0
    BY ZenonT(30) DEF TypeOK, SendResponse, MatchedCall, RoomFor, ClaimedIsFirst, Busy
  <2>2. \A q \in Past, i \in Ids : q = chanMsg[i] \/ q = answer[i] => q = chanMsg'[i] \/ q = answer'[i]
    BY <2>1, SMTT(40) DEF TypeOK, SendResponse, MatchedCall, RoomFor, Past
  <2>3. Past' = Past /\ dispatched' = dispatched
    BY DEF TypeOK, SendResponse, MatchedCall, RoomFor, Past
  <2> QED
    BY <2>2, <2>3, SMTT(30) DEF PastHandled
<1>9. PanicOnlyIfTorn'
  <2> DEFINE i == inLog[rd].id
  <2>1. \A q \in Past : ~HasId(q, i)
    BY DEF TypeOK, SendResponse, MatchedCall, RoomFor, ClaimedIsFirst, Busy, Past
  <2>2. i \in Delivered
    <3>1. /\ inLog \in Seq(Message) /\ rd \in 0 .. Len(inLog) /\ rd > 0 /\ i \in Ids
          /\ \A q \in DOMAIN inLog : inLog[q].id \in Delivered \cup {NoId}
      BY ZenonT(30) DEF TypeOK, SendResponse, FreshIds
    <3>2. rd \in DOMAIN inLog /\ i # NoId
      BY <3>1
    <3> QED
      BY <3>1, <3>2, ZenonT(30)
  <2>3. chanClosed[i] => i \in torn
    BY <2>1, <2>2, SMTT(30) DEF TypeOK, SendResponse, MatchedCall, RoomFor, ClosedByOwner,
           FailedUndelivered
  <2> QED
    BY <2>3, SMTT(30) DEF TypeOK, SendResponse, MatchedCall, RoomFor, PanicOnlyIfTorn
<1> QED
  BY <1>1, <1>2, <1>3, <1>4, <1>5, <1>6, <1>7, <1>8, <1>9

\* Run closes the channel it has just sent on.
LEMMA CloseResponseKeeps ==
  ASSUME TypeOK, ClientInv, ~crashed, CloseResponse
  PROVE  ClientInv'
<1> USE ClientConstants DEF ClientConstants, Ids, NoId, ClientInv, callVars, chanVars, loopVars, connVars
<1>0. Delivered' = Delivered
  BY SMTT(30) DEF CloseResponse, MatchedCall, Close, Delivered
<1>1. CallsDistinct' /\ ContentsMatch' /\ FailedUndelivered' /\ LateIsOver'
  BY <1>0, ZenonT(30) DEF CloseResponse, MatchedCall, Close, CallsDistinct, Active, ContentsMatch,
         FirstWithId, HasId, FailedUndelivered, LateIsOver
<1>2. OutcomesReal'
  BY <1>0 DEF CloseResponse, MatchedCall, Close, OutcomesReal
<1>3. FreshIds'
  <2> DEFINE i == inLog[rd].id
  <2>1. i \in Ids /\ rd \in DOMAIN inLog
    BY DEF TypeOK, CloseResponse
  <2>2. i \in Delivered
    BY <2>1, SMTT(30) DEF FreshIds
  <2>3. \A j \in Ids : j # i => chanClosed'[j] = chanClosed[j]
    BY <2>1 DEF TypeOK, CloseResponse, MatchedCall, Close
  <2>4. /\ nextId' = nextId /\ results' = results /\ torn' = torn /\ chanMsg' = chanMsg
        /\ outcome' = outcome /\ answer' = answer /\ inLog' = inLog
    BY Zenon DEF CloseResponse
  <2> HIDE DEF i
  <2> QED
    BY <1>0, <2>2, <2>3, <2>4, ZenonT(30) DEF FreshIds
<1>4. EntriesWait'
  BY <1>0, SMTT(40) DEF TypeOK, CloseResponse, MatchedCall, Close, EntriesWait, CallsDistinct,
         Active, ClaimedIsFirst, Busy, FreshIds, HasId
<1>5. ClaimedIsFirst'
  BY <1>0, SMTT(20) DEF TypeOK, CloseResponse, MatchedCall, Close, ClaimedIsFirst, Busy,
         EntriesWait, ContentsMatch, FirstWithId, CallsDistinct, Active, HasId, FreshIds
<1>6. ClosedByOwner'
  BY <1>0, SMTT(40) DEF TypeOK, CloseResponse, MatchedCall, Close, ClosedByOwner, Past,
         ClaimedIsFirst, Busy, FailedUndelivered, FreshIds, CallsDistinct, Active, HasId
<1>7. StraysLate'
  BY <1>0, SMTT(20) DEF TypeOK, CloseResponse, MatchedCall, Close, StraysLate, StrayIsLate,
         LateIsOver, CallsDistinct, Active, HasId, FreshIds
<1>8. PastHandled'
  <2>1. \E j \in Ids : rd = answer[j] \/ rd = chanMsg[j]
    BY SMTT(40) DEF TypeOK, CloseResponse, MatchedCall, Close, ClaimedIsFirst, Busy
  <2>2. Past' = Past \cup {rd}
    BY SMTT(40) DEF TypeOK, CloseResponse, MatchedCall, Close, Past
  <2> QED
    BY <2>1, <2>2, ZenonT(30) DEF TypeOK, CloseResponse, MatchedCall, Close, PastHandled
<1>9. PanicOnlyIfTorn'
  <2> DEFINE i == inLog[rd].id
  <2>1. \A q \in Past : ~HasId(q, i)
    BY SMTT(30) DEF TypeOK, CloseResponse, MatchedCall, Close, ClaimedIsFirst, Busy, Past
  <2>2. i \in Delivered
    BY SMTT(30) DEF TypeOK, CloseResponse, MatchedCall, Close, FreshIds
  <2>3. chanClosed[i] => i \in torn
    BY <2>1, <2>2, ZenonT(30) DEF TypeOK, CloseResponse, MatchedCall, Close, ClosedByOwner,
           FailedUndelivered
  <2> QED
    BY <2>3, SMTT(30) DEF TypeOK, CloseResponse, MatchedCall, Close, PanicOnlyIfTorn
<1> QED
  BY <1>1, <1>2, <1>3, <1>4, <1>5, <1>6, <1>7, <1>8, <1>9

\* The handlers have returned: the message counts as dispatched.
LEMMA DispatchReturnsKeeps ==
  ASSUME TypeOK, ClientInv, ~crashed, DispatchReturns
  PROVE  ClientInv'
<1> USE ClientConstants DEF ClientConstants, Ids, NoId, ClientInv, callVars, chanVars, loopVars, connVars
<1>0. Delivered' = Delivered
  BY DEF DispatchReturns, Delivered
<1>1. CallsDistinct' /\ FreshIds' /\ EntriesWait' /\ ContentsMatch'
  BY <1>0 DEF DispatchReturns, CallsDistinct, Active, FreshIds, EntriesWait, HasId,
         ContentsMatch, FirstWithId
<1>2. FailedUndelivered' /\ LateIsOver' /\ OutcomesReal' /\ PanicOnlyIfTorn'
  BY <1>0, ZenonT(30) DEF DispatchReturns, FailedUndelivered, LateIsOver, HasId, OutcomesReal,
         PanicOnlyIfTorn
<1>3. ClaimedIsFirst'
  BY <1>0, SMTT(20) DEF TypeOK, DispatchReturns, ClaimedIsFirst, Busy, EntriesWait,
         ContentsMatch, FirstWithId, CallsDistinct, Active, HasId, FreshIds
<1>4. ClosedByOwner'
  BY <1>0, SMTT(40) DEF TypeOK, DispatchReturns, ClosedByOwner, Past, ClaimedIsFirst, Busy,
         FailedUndelivered, FreshIds, CallsDistinct, Active, HasId
<1>5. StraysLate'
  BY <1>0, SMTT(40) DEF TypeOK, DispatchReturns, StraysLate, StrayIsLate, LateIsOver,
         CallsDistinct, Active, HasId, FreshIds
<1>6. PastHandled'
  <2>1. Past' = Past \cup {rd}
    BY DEF TypeOK, DispatchReturns, Past, StraysLate
  <2> QED
    BY <2>1, ZenonT(30) DEF TypeOK, DispatchReturns, PastHandled
<1> QED
  BY <1>1, <1>2, <1>3, <1>4, <1>5, <1>6

\* Run returns the error of Read.
LEMMA ReadFailsKeeps ==
  ASSUME TypeOK, ClientInv, ~crashed, ReadFails
  PROVE  ClientInv'
<1> USE ClientConstants DEF ClientConstants, Ids, NoId, ClientInv, callVars, chanVars, loopVars, connVars
<1>0. Delivered' = Delivered
  BY DEF ReadFails, Delivered
<1>1. CallsDistinct' /\ FreshIds' /\ EntriesWait' /\ ContentsMatch'
  BY <1>0 DEF ReadFails, CallsDistinct, Active, FreshIds, EntriesWait, HasId, ContentsMatch,
         FirstWithId
<1>2. FailedUndelivered' /\ LateIsOver' /\ OutcomesReal' /\ PanicOnlyIfTorn'
  BY <1>0, SMTT(30) DEF ReadFails, FailedUndelivered, LateIsOver, HasId, OutcomesReal, PanicOnlyIfTorn
<1>3. ClaimedIsFirst'
  BY <1>0, SMTT(40) DEF TypeOK, ReadFails, ClaimedIsFirst, Busy, EntriesWait, ContentsMatch,
         FirstWithId, CallsDistinct, Active, HasId, FreshIds
<1>4. ClosedByOwner'
  BY <1>0, SMTT(20) DEF TypeOK, ReadFails, ClosedByOwner, Past, ClaimedIsFirst, Busy,
         FailedUndelivered, FreshIds, CallsDistinct, Active, HasId
<1>5. StraysLate'
  BY <1>0, SMTT(20) DEF TypeOK, ReadFails, StraysLate, StrayIsLate, LateIsOver, CallsDistinct,
         Active, HasId, FreshIds
<1>6. PastHandled'
  <2>1. Past' = Past
    BY DEF TypeOK, ReadFails, Past
  <2> QED
    BY <2>1 DEF ReadFails, PastHandled
<1> QED
  BY <1>1, <1>2, <1>3, <1>4, <1>5, <1>6

\* A message from the peer answers a delivered request or is an event.
LEMMA PeerSendsKeeps ==
  ASSUME TypeOK, TypeOK', ClientInv, PeerSends
  PROVE  ClientInv'
<1> USE ClientConstants DEF ClientConstants, Ids, NoId, ClientInv, callVars, chanVars, loopVars, connVars
<1>0. /\ Delivered' = Delivered
      /\ Len(inLog') = Len(inLog) + 1
      /\ \A q \in 1 .. rd : inLog'[q] = inLog[q]
  BY DEF TypeOK, PeerSends, Delivered
<1>a. UNCHANGED <<nextId, results, chanVars, callVars, loopVars, reqLog, torn, crashed>>
  BY SMTT(30) DEF PeerSends
<1>t. /\ rd \in Nat /\ answer \in [Ids -> Nat]
      /\ Busy => rd \in 1 .. rd
  BY SMTT(30) DEF TypeOK, Busy
<1>1. CallsDistinct' /\ FailedUndelivered' /\ PastHandled' /\ PanicOnlyIfTorn'
  BY <1>0, <1>a DEF CallsDistinct, Active, FailedUndelivered, PastHandled, Past, PanicOnlyIfTorn
<1>2. FreshIds'
  BY <1>0, SMTT(20) DEF TypeOK, PeerSends, FreshIds, CallsDistinct, Active
<1>3. EntriesWait'
  BY <1>0, <1>a, SMTT(30) DEF EntriesWait, HasId
<1>4. ClaimedIsFirst'
  BY <1>0, <1>a, <1>t, SMTT(30) DEF ClaimedIsFirst, Busy, HasId
<1>5. ContentsMatch'
  <2>1. \A i \in Ids, p \in Nat : FirstWithId(p, i) => FirstWithId(p, i)'
    BY <1>0, <1>a, <1>t, SMTT(30) DEF FirstWithId, HasId
  <2> QED
    BY <1>a, <2>1, SMTT(40) DEF TypeOK, ContentsMatch
<1>6. ClosedByOwner'
  <2>1. Past' = Past /\ \A q \in Past : q \in 1 .. rd
    BY <1>a, <1>t, SMTT(30) DEF Past
  <2> QED
    BY <1>0, <1>a, <2>1 DEF ClosedByOwner, HasId
<1>7. LateIsOver'
  BY <1>0, <1>a, ZenonT(30) DEF LateIsOver, HasId
<1>8. StraysLate'
  <2>1. \A p \in 1 .. rd : StrayIsLate(p) => StrayIsLate(p)'
    BY <1>0, <1>a, <1>t DEF StrayIsLate, HasId
  <2> QED
    BY <1>a, <1>t, <2>1 DEF StraysLate
<1>9. OutcomesReal'
  <2>1. \A i \in Ids : answer[i] # 0 => answer[i] \in 1 .. rd
    BY DEF ContentsMatch, FirstWithId
  <2> QED
    BY <1>0, <1>a, <2>1 DEF OutcomesReal
<1> QED
  BY <1>1, <1>2, <1>3, <1>4, <1>5, <1>6, <1>7, <1>8, <1>9, SMTT(30)

\* The peer closing the stream concerns only Read.
LEMMA PeerClosesKeeps ==
  ASSUME TypeOK, ClientInv, PeerCloses
  PROVE  ClientInv'
<1> USE ClientConstants DEF ClientConstants, Ids, NoId, ClientInv, callVars, chanVars, loopVars, connVars
<1>0. Delivered' = Delivered
  BY DEF PeerCloses, Delivered
<1>1. CallsDistinct' /\ FreshIds'
  BY <1>0, SMTT(30) DEF PeerCloses, CallsDistinct, Active, FreshIds
<1>4. EntriesWait' /\ ClaimedIsFirst'
  BY SMTT(30) DEF PeerCloses, EntriesWait, HasId, ClaimedIsFirst, Busy
<1>2. ContentsMatch' /\ FailedUndelivered' /\ ClosedByOwner' /\ LateIsOver'
  BY <1>0, SMTT(30) DEF PeerCloses, ContentsMatch, FirstWithId, HasId, FailedUndelivered, ClosedByOwner,
         Past, LateIsOver
<1>3. StraysLate' /\ PastHandled' /\ OutcomesReal' /\ PanicOnlyIfTorn'
  BY <1>0, SMTT(30) DEF PeerCloses, StraysLate, StrayIsLate, HasId, PastHandled, Past, OutcomesReal,
         PanicOnlyIfTorn
<1> QED
  BY <1>1, <1>2, <1>3, <1>4

-----------------------------------------------------------------------------
(* Types, the invariant and the properties. *)

\* No step of a caller, of Run or of the peer takes a variable out of its type.
LEMMA TypeStep == TypeOK /\ [Next]_vars => TypeOK'
<1> SUFFICES ASSUME TypeOK, [Next]_vars
             PROVE  TypeOK'
  BY SMTT(30)
<1> USE ClientConstants DEF ClientConstants, TypeOK, Ids, callVars, chanVars, loopVars, connVars
<1>1. ASSUME NEW c \in Callers, Register(c)
      PROVE  TypeOK'
  <2>1. nextId \in Ids /\ nextId' \in 0 .. MaxCalls /\ results' \subseteq Ids
    <3>1. /\ nextId < MaxCalls /\ nextId' = nextId + 1 /\ results' = results \cup {nextId}
          /\ nextId \in 0 .. MaxCalls /\ results \subseteq Ids
      BY <1>1, ZenonT(30) DEF Register, RegisterWith
    <3> HIDE DEF TypeOK
    <3> QED
      BY <3>1, SMTT(30)
  <2>2. /\ pc' = [pc EXCEPT ![c] = "writing"] /\ call' = [call EXCEPT ![c] = nextId]
        /\ UNCHANGED <<chanVars, outcome, answer, loopVars, connVars, torn, crashed>>
    BY <1>1, Zenon DEF Register, RegisterWith, Goto
  <2>3. /\ pc' \in [Callers -> {"idle", "writing", "written", "releasing", "closing", "waiting", "expired"}]
        /\ call' \in [Callers -> Ids \cup {NoId}]
        /\ \A d \in Callers : pc'[d] # "idle" => call'[d] \in Ids
    BY <2>1, <2>2, SMTT(30)
  <2>4. /\ chanMsg' = chanMsg /\ chanClosed' = chanClosed /\ outcome' = outcome /\ answer' = answer
        /\ run' = run /\ rd' = rd /\ dispatched' = dispatched /\ reqLog' = reqLog /\ inLog' = inLog
        /\ eof' = eof /\ torn' = torn /\ crashed' = crashed
    BY <2>2, Zenon
  <2> QED
    BY <2>1, <2>3, <2>4, ZenonT(30)
<1>2. ASSUME NEW c \in Callers, CallerStep(c)
      PROVE  TypeOK'
  <2>1. CASE WriteDelivers(c)
    <3>1. reqLog' \in Seq(Ids)
      BY <2>1, SMTT(30) DEF WriteDelivers, Goto
    <3>2. pc' \in [Callers -> {"idle", "writing", "written", "releasing", "closing", "waiting", "expired"}]
      BY <2>1, SMTT(30) DEF WriteDelivers, Goto
    <3>3. \A d \in Callers : pc'[d] # "idle" => call[d] \in Ids
      BY <2>1, SMTT(30) DEF WriteDelivers, Goto
    <3>4. UNCHANGED <<nextId, results, chanVars, call, outcome, answer, loopVars, inLog, eof, torn, crashed>>
      BY <2>1, SMTT(30) DEF WriteDelivers
    <3> QED
      BY <3>1, <3>2, <3>3, <3>4, SMTT(40)
  <2>2. CASE WriteReturns(c) \/ WriteFails(c) \/ ReleaseAfterError(c)
    BY <2>2, ZenonT(30) DEF WriteReturns, WriteFails, ReleaseAfterError, Goto, ReleaseResponseChan
  <2>3. CASE CloseAfterError(c) \/ ReleaseAfterExpiry(c)
    BY <2>3, ZenonT(40) DEF CloseAfterError, ReleaseAfterExpiry, Return, Goto, Close, ReleaseResponseChan
  <2>4. CASE Receive(c)
    BY <2>4, SMTT(30) DEF Receive, Return, Goto
  <2> QED
    BY <1>2, <2>1, <2>2, <2>3, <2>4, ZenonT(30) DEF CallerStep
<1>3. ASSUME NEW c \in Callers, CtxDone(c)
      PROVE  TypeOK'
  BY <1>3, SMTT(30) DEF CtxDone, Goto
<1>4. CASE LoopStep
  <2>1. CASE OnReceiveMessage
    <3>1. rd' \in 1 .. Len(inLog) /\ inLog' = inLog
      BY <2>1 DEF OnReceiveMessage, OnReceiveMessageWhen
    <3>2. /\ run' \in {"claimed", "dispatching"}
          /\ run' = "claimed" => inLog[rd'].id \in Ids
          /\ results' \subseteq Ids
      BY <2>1, SMTT(30) DEF OnReceiveMessage, OnReceiveMessageWhen, ReleaseResponseChan, MatchedCall
    <3> QED
      BY <2>1, <3>1, <3>2, SMTT(40) DEF OnReceiveMessage, OnReceiveMessageWhen
  <2>3. CASE ReadFails
    BY <2>3, SMTT(40) DEF ReadFails
  <2>4. CASE DispatchReturns
    <3>0. rd \in Nat
      OBVIOUS
    <3>1. dispatched' \subseteq Nat
      BY <2>4, <3>0, ZenonT(30) DEF DispatchReturns
    <3>2. run' \in {"reading", "returned"}
      BY <2>4 DEF DispatchReturns
    <3>3. UNCHANGED <<nextId, results, chanVars, callVars, rd, connVars, torn, crashed>>
      BY <2>4 DEF DispatchReturns
    <3> QED
      BY <3>1, <3>2, <3>3, SMTT(30)
  <2>2. CASE SendResponse
    <3>1. run' = "sent" /\ rd > 0 /\ inLog[rd].id \in Ids
      BY <2>2 DEF SendResponse
    <3>2. chanMsg' \in [Ids -> Nat]
      BY <2>2, <3>1 DEF SendResponse, MatchedCall
    <3>3. crashed' \in BOOLEAN
      BY <2>2, <3>1, SMTT(30) DEF SendResponse, MatchedCall
    <3>4. UNCHANGED <<nextId, results, chanClosed, callVars, rd, dispatched, connVars, torn>>
      BY <2>2, SMTT(30) DEF SendResponse
    <3> QED
      BY <3>1, <3>2, <3>3, <3>4, ZenonT(30)
  <2>5. CASE CloseResponse
    BY <2>5, ZenonT(30) DEF CloseResponse, Close, MatchedCall
  <2> QED
    BY <1>4, <2>1, <2>2, <2>3, <2>4, <2>5, ZenonT(30) DEF LoopStep
<1>5. CASE PeerSends
  <2>1. PICK i \in Delivered \cup {NoId}, e \in BOOLEAN : inLog' = Append(inLog, [id |-> i, errs |-> e])
    BY <1>5 DEF PeerSends
  <2>2. [id |-> i, errs |-> e] \in Message
    BY SMTT(40) DEF Message, Delivered
  <2>3. inLog' \in Seq(Message) /\ Len(inLog') = Len(inLog) + 1
    BY <2>1, <2>2, SMTT(30)
  <2>4. rd \in 1 .. Len(inLog) => inLog'[rd] = inLog[rd]
    BY <2>1, <2>2, SMTT(30)
  <2>5. UNCHANGED <<nextId, results, chanVars, callVars, loopVars, reqLog, eof, torn, crashed>>
    BY <1>5, SMTT(30) DEF PeerSends
  <2>6. rd' \in 0 .. Len(inLog')
    BY <2>3, <2>5, SMTT(30)
  <2>7. run' \in {"claimed", "sent"} => rd' > 0 /\ inLog'[rd'].id \in Ids
    BY <2>4, <2>5
  <2>8. inLog' \in Seq(Message)
    BY <2>3, SMTT(30)
  <2> QED
    BY <2>5, <2>6, <2>7, <2>8, ZenonT(30)
<1>6. CASE PeerCloses
  <2>1. eof' \in BOOLEAN
    BY <1>6, SMTT(30) DEF PeerCloses
  <2> QED
    BY <1>6, <2>1, SMTT(30) DEF PeerCloses
<1>7. CASE UNCHANGED vars
  BY <1>7, ZenonT(30) DEF vars
<1> QED
  BY <1>1, <1>2, <1>3, <1>4, <1>5, <1>6, <1>7, ZenonT(30) DEF Next, ClientStep

\* The client starts with everything in its type.
LEMMA TypeInit == Init => TypeOK
<1>1. Init => eof \in BOOLEAN /\ crashed \in BOOLEAN
  BY ZenonT(30) DEF Init
<1> QED
  BY <1>1, ClientConstants DEF ClientConstants, Init, TypeOK, Ids, NoId, Message

\* Every variable of the client keeps its type.
THEOREM ClientTypeOK == Spec => []TypeOK
BY TypeInit, TypeStep, PTL DEF Spec

\* No call has been made yet: the inductive invariant holds.
LEMMA ClientInvInit == TypeOK /\ Init => ClientInv
<1> SUFFICES ASSUME TypeOK, Init
             PROVE  ClientInv
  OBVIOUS
<1> USE ClientConstants DEF ClientConstants, Init, Ids, NoId
<1>1. CallsDistinct /\ FreshIds
  BY DEF CallsDistinct, Active, FreshIds, Delivered
<1>2. EntriesWait /\ ClaimedIsFirst /\ ContentsMatch
  BY DEF EntriesWait, ClaimedIsFirst, Busy, ContentsMatch, FirstWithId
<1>3. FailedUndelivered /\ ClosedByOwner /\ LateIsOver
  BY DEF FailedUndelivered, ClosedByOwner, LateIsOver, Delivered
<1>4. StraysLate /\ PastHandled
  BY DEF StraysLate, PastHandled, Past
<1>5. OutcomesReal /\ PanicOnlyIfTorn
  BY DEF OutcomesReal, PanicOnlyIfTorn
<1> QED
  BY <1>1, <1>2, <1>3, <1>4, <1>5 DEF ClientInv

\* Every step of a caller, of Run and of the peer keeps the inductive invariant.
LEMMA ClientInvStep == TypeOK /\ TypeOK' /\ ClientInv /\ [Next]_vars => ClientInv'
<1> SUFFICES ASSUME TypeOK, TypeOK', ClientInv, [Next]_vars
             PROVE  ClientInv'
  OBVIOUS
<1>1. CASE ClientStep
  <2>1. ASSUME NEW c \in Callers, ~crashed, Register(c) \/ CallerStep(c) \/ CtxDone(c)
        PROVE  ClientInv'
    BY <2>1, RegisterKeeps, WriteDeliversKeeps, WriteReturnsKeeps, WriteFailsKeeps,
       ReleaseAfterErrorKeeps, CloseAfterErrorKeeps, ReceiveKeeps, CtxDoneKeeps,
       ReleaseAfterExpiryKeeps DEF CallerStep
  <2>2. ASSUME ~crashed, LoopStep
        PROVE  ClientInv'
    BY <2>2, OnReceiveMessageKeeps, SendResponseKeeps, CloseResponseKeeps,
       DispatchReturnsKeeps, ReadFailsKeeps DEF LoopStep
  <2> QED
    BY <1>1, <2>1, <2>2 DEF ClientStep
<1>2. CASE PeerSends \/ PeerCloses
  BY <1>2, PeerSendsKeeps, PeerClosesKeeps
<1>3. CASE UNCHANGED vars
  <2> USE <1>3 DEF vars, callVars, chanVars, loopVars, connVars, ClientInv
  <2>1. Delivered' = Delivered
    BY SMTT(30) DEF Delivered
  <2>2. CallsDistinct' /\ FreshIds' /\ EntriesWait' /\ ClaimedIsFirst'
    BY <2>1, ZenonT(30) DEF CallsDistinct, Active, FreshIds, EntriesWait, HasId, ClaimedIsFirst, Busy
  <2>3. ContentsMatch' /\ FailedUndelivered' /\ LateIsOver'
    BY <2>1, ZenonT(30) DEF ContentsMatch, FirstWithId, HasId, FailedUndelivered, LateIsOver
  <2>5. Past' = Past
    BY SMTT(30) DEF Past
  <2>6. ClosedByOwner'
    BY <2>5, SMTT(30) DEF ClosedByOwner, HasId
  <2>4. StraysLate' /\ PastHandled' /\ OutcomesReal' /\ PanicOnlyIfTorn'
    BY <2>5 DEF StraysLate, StrayIsLate, HasId, PastHandled, OutcomesReal, PanicOnlyIfTorn
  <2> QED
    BY <2>2, <2>3, <2>4, <2>6
<1> QED
  BY <1>1, <1>2, <1>3 DEF Next

\* The inductive invariant of the client holds in every reachable state.
THEOREM ClientInvariant == Spec => [](TypeOK /\ ClientInv)
BY TypeInit, TypeStep, ClientInvInit, ClientInvStep, PTL DEF Spec

\* A call never returns another call's response, nor a duplicate: SendContext
\* returns the first message with its own ID.
THEOREM ClientMatchesResponses == Spec => []ResponseIsFirstMatch
<1>1. TypeOK /\ ClientInv => ResponseIsFirstMatch
  BY SMTT(40) DEF TypeOK, ClientInv, OutcomesReal, ContentsMatch, FirstWithId, HasId, ResponseIsFirstMatch
<1> QED
  BY <1>1, ClientInvariant, PTL

\* Whatever way SendContext returns, its entry in the map results is gone.
THEOREM ClientLeaksNothing == Spec => []NoLeakedEntry
<1>1. ClientInv => NoLeakedEntry
  BY ZenonT(30) DEF ClientInv, EntriesWait, NoLeakedEntry
<1> QED
  BY <1>1, ClientInvariant, PTL

\* Messages with an ID reach the event handlers only after their call is over.
THEOREM ClientStraysAreLate == Spec => []StrayOnlyWhenLate
<1>1. ClientInv => StrayOnlyWhenLate
  BY DEF ClientInv, StraysLate, StrayIsLate, HasId, StrayOnlyWhenLate
<1> QED
  BY <1>1, ClientInvariant, PTL

\* What the peer sent before a response is dealt with before SendContext returns it.
THEOREM ClientHandlesInOrder == Spec => []HandledBeforeReturn
<1>1. ASSUME TypeOK, ClientInv
      PROVE  HandledBeforeReturn
  <2> SUFFICES ASSUME NEW i \in Ids, NEW q \in 1 .. answer[i] - 1
               PROVE  q \in dispatched \/ \E j \in Ids : q = answer[j] \/ q = chanMsg[j]
    BY DEF HandledBeforeReturn
  <2>1. q \in Past
    BY <1>1, SMTT(30) DEF TypeOK, ClientInv, ContentsMatch, FirstWithId, Past
  <2> QED
    BY <1>1, <2>1 DEF ClientInv, PastHandled
<1> QED
  BY <1>1, ClientInvariant, PTL

\* No send on, and no close of, a closed response channel unless a write was torn.
THEOREM ClientPanicsOnlyIfTorn == Spec => []PanicOnlyIfTorn
<1>1. ClientInv => PanicOnlyIfTorn
  BY DEF ClientInv
<1> QED
  BY <1>1, ClientInvariant, PTL

\* The nil response that SendContext maps to io.ErrUnexpectedEOF never arrives.
THEOREM ClientNeverUnexpectedEOF == Spec => []NeverUnexpectedEOF
<1>1. ClientInv => NeverUnexpectedEOF
  BY DEF ClientInv, OutcomesReal, NeverUnexpectedEOF
<1> QED
  BY <1>1, ClientInvariant, PTL
=============================================================================
