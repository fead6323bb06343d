---------------------------- MODULE JsClientProofs ----------------------------
(***************************************************************************)
(* Proofs about the JavaScript client, for any pages and any maxRetries.   *)
(***************************************************************************)
EXTENDS JsClient, WellFoundedInduction, FiniteSetTheorems, TLAPS

-----------------------------------------------------------------------------
(* Natural numbers and arrays.                                             *)

\* A set of natural numbers has a least one.
LEMMA LeastNat ==
  ASSUME NEW T \in SUBSET Nat, T # {}
  PROVE  \E x \in T : \A y \in T : x <= y
<1> DEFINE R == OpToRel(<, Nat)
<1>1. PICK x \in T : \A y \in T : ~ (<<y, x>> \in R)
  <2> HIDE DEF R
  <2>1. IsWellFoundedOn(R, Nat)
    BY NatLessThanWellFounded, ZenonT(30) DEF R
  <2> QED
    BY <2>1, WFMin, Zenon
<1>2. R = {ss \in Nat \X Nat : ss[1] < ss[2]}
  BY Zenon DEF OpToRel
<1> HIDE DEF R
<1>3. \A y \in T : y < x => <<y, x>> \in R
  BY <1>2
<1>4. \A y \in T : ~ (y < x)
  BY <1>1, <1>3, Zenon
<1> QED
  BY <1>4

\* A set of indices has a least one.
LEMMA LeastIndex ==
  ASSUME NEW n \in Nat, NEW T \in SUBSET (1 .. n), T # {}
  PROVE  Min(T) \in T
<1>1. PICK x \in T : \A y \in T : x <= y
  BY LeastNat
<1> QED
  BY <1>1, Zenon DEF Min

\* What holds at 0, and after n if it holds at n, holds of every natural number.
LEMMA NatSet ==
  ASSUME NEW P \in SUBSET Nat, 0 \in P, \A n \in P : n + 1 \in P
  PROVE  P = Nat
<1> SUFFICES ASSUME Nat \ P # {} PROVE FALSE
  BY Zenon
<1>1. PICK x \in Nat \ P : \A y \in Nat \ P : x <= y
  BY LeastNat, ZenonT(30)
<1>2. x # 0 /\ x - 1 \in Nat /\ x - 1 \notin Nat \ P
  BY <1>1
<1>3. (x - 1) + 1 \in P /\ (x - 1) + 1 = x
  BY <1>2
<1> QED
  BY <1>1, <1>3

\* A function may be defined by what it is at 0 and by a step from n - 1 to n.
LEMMA RecursionExists ==
  ASSUME NEW S, NEW a \in S, NEW step \in [Nat -> [S -> S]]
  PROVE  \E f \in [Nat -> S] : f[0] = a /\ \A n \in Nat \ {0} : f[n] = step[n][f[n - 1]]
<1> DEFINE Upto(n) == {f \in [0 .. n -> S] : f[0] = a /\ \A i \in 1 .. n : f[i] = step[i][f[i - 1]]}
           P == {n \in Nat : Upto(n) # {} /\ \A f, g \in Upto(n) : f[n] = g[n]}
<1>1. P = Nat
  <2>1. 0 \in P
    <3>1. [i \in 0 .. 0 |-> a] \in Upto(0)
      OBVIOUS
    <3> QED
      BY <3>1
  <2>2. ASSUME NEW n \in P PROVE n + 1 \in P
    <3>1. n \in Nat
      OBVIOUS
    <3>2. \A f \in Upto(n + 1) : [i \in 0 .. n |-> f[i]] \in Upto(n)
      <4> SUFFICES ASSUME NEW f \in Upto(n + 1) PROVE [i \in 0 .. n |-> f[i]] \in Upto(n)
        OBVIOUS
      <4>1. f \in [0 .. n + 1 -> S] /\ f[0] = a /\ \A i \in 1 .. n + 1 : f[i] = step[i][f[i - 1]]
        OBVIOUS
      <4> QED
        BY <3>1, <4>1
    <3>3. \A f, g \in Upto(n + 1) : f[n + 1] = g[n + 1]
      <4> SUFFICES ASSUME NEW f \in Upto(n + 1), NEW g \in Upto(n + 1) PROVE f[n + 1] = g[n + 1]
        BY Zenon
      <4>1. f[n + 1] = step[n + 1][f[n]] /\ g[n + 1] = step[n + 1][g[n]]
        BY <3>1
      <4>2. [i \in 0 .. n |-> f[i]][n] = [i \in 0 .. n |-> g[i]][n]
        BY <3>2, ZenonT(30)
      <4>3. f[n] = g[n]
        BY <3>1, <4>2
      <4> QED
        BY <4>1, <4>3
    <3>4. Upto(n + 1) # {}
      <4>1. PICK f : f \in Upto(n)
        OBVIOUS
      <4>2. f \in [0 .. n -> S] /\ f[0] = a /\ \A i \in 1 .. n : f[i] = step[i][f[i - 1]]
        BY <4>1
      <4>3. PICK v \in S : v = step[n + 1][f[n]]
        BY <3>1, <4>2
      <4> DEFINE g == [i \in 0 .. n + 1 |-> IF i = n + 1 THEN v ELSE f[i]]
      <4>4. g \in [0 .. n + 1 -> S] /\ g[0] = a /\ g[n + 1] = v /\ \A i \in 0 .. n : g[i] = f[i]
        BY <3>1, <4>2
      <4> HIDE DEF g
      <4>5. \A i \in 1 .. n + 1 : g[i] = step[i][g[i - 1]]
        <5> SUFFICES ASSUME NEW i \in 1 .. n + 1 PROVE g[i] = step[i][g[i - 1]]
          OBVIOUS
        <5>1. CASE i = n + 1
          BY <3>1, <4>3, <4>4, <5>1
        <5>2. CASE i # n + 1
          <6>1. i \in 1 .. n /\ i - 1 \in 0 .. n /\ i \in 0 .. n
            BY <3>1, <5>2
          <6> QED
            BY <4>2, <4>4, <6>1
        <5> QED
          BY <5>1, <5>2
      <4> QED
        BY <4>4, <4>5, SMTT(30)
    <3>5. n + 1 \in Nat
      BY <3>1
    <3> QED
      BY <3>3, <3>4, <3>5, Zenon
  <2> HIDE DEF P
  <2>3. P \in SUBSET Nat
    BY DEF P
  <2> QED
    BY <2>1, <2>2, <2>3, NatSet
<1> DEFINE F == [n \in Nat |-> CHOOSE f : f \in Upto(n)]
           h == [n \in Nat |-> F[n][n]]
<1>2. \A n \in Nat : F[n] \in Upto(n) /\ \A f \in Upto(n) : f[n] = F[n][n]
  <2> SUFFICES ASSUME NEW n \in Nat PROVE F[n] \in Upto(n) /\ \A f \in Upto(n) : f[n] = F[n][n]
    BY ZenonT(30)
  <2>1. n \in P
    BY <1>1, Zenon
  <2>2. F[n] = CHOOSE f : f \in Upto(n)
    BY Zenon
  <2>3. F[n] \in Upto(n)
    <3>1. \E f : f \in Upto(n)
      BY <2>1
    <3> QED
      BY <2>2, <3>1, Zenon
  <2> QED
    BY <2>1, <2>3, Zenon
<1> HIDE DEF F
<1>3. h \in [Nat -> S] /\ h[0] = a
  <2>1. \A n \in Nat : F[n] \in [0 .. n -> S] /\ F[n][0] = a
    BY <1>2
  <2> QED
    BY <2>1
<1>4. ASSUME NEW n \in Nat \ {0} PROVE h[n] = step[n][h[n - 1]]
  <2>1. F[n] \in [0 .. n -> S] /\ F[n][0] = a /\ \A i \in 1 .. n : F[n][i] = step[i][F[n][i - 1]]
    BY <1>2
  <2>2. F[n][n] = step[n][F[n][n - 1]]
    BY <2>1
  <2>3. PICK k \in Nat : k = n - 1
    OBVIOUS
  <2>4. [i \in 0 .. k |-> F[n][i]] \in Upto(k)
    <3>1. PICK f : f = F[n]
      OBVIOUS
    <3>2. f \in [0 .. k + 1 -> S] /\ f[0] = a /\ \A i \in 1 .. k + 1 : f[i] = step[i][f[i - 1]]
      BY <2>1, <2>3, <3>1
    <3>3. [i \in 0 .. k |-> f[i]] \in Upto(k)
      BY <3>2
    <3> QED
      BY <3>1, <3>3, Zenon
  <2>5. [i \in 0 .. k |-> F[n][i]][k] = F[k][k]
    BY <1>2, <2>4, Zenon
  <2>6. F[n][k] = F[k][k]
    BY <2>5
  <2> QED
    BY <2>2, <2>3, <2>6
<1> HIDE DEF h
<1> QED
  BY <1>3, <1>4

\* What is left of an array when an element is taken out.
LEMMA SpliceElements ==
  ASSUME NEW S, NEW s \in Seq(S), NEW k \in 1 .. Len(s)
  PROVE  /\ splice(s, k) \in Seq(S) /\ Len(splice(s, k)) = Len(s) - 1
         /\ \A i \in 1 .. Len(s) - 1 : splice(s, k)[i] = s[IF i < k THEN i ELSE i + 1]
<1> DEFINE a == SubSeq(s, 1, k - 1)
           b == SubSeq(s, k + 1, Len(s))
           c == a \o b
<1>1. Len(s) \in Nat /\ k \in Nat
  OBVIOUS
<1>2. a \in Seq(S) /\ Len(a) = k - 1 /\ \A i \in 1 .. k - 1 : a[i] = s[i]
  BY <1>1
<1>3. /\ b \in Seq(S) /\ Len(b) = Len(s) - k
      /\ \A i \in 1 .. Len(s) - k : b[i] = s[k + i]
  BY <1>1
<1>4. splice(s, k) = c
  BY DEF splice
<1> HIDE DEF a, b
<1>5. /\ c \in Seq(S) /\ Len(c) = Len(a) + Len(b)
      /\ \A i \in 1 .. Len(a) + Len(b) : c[i] = IF i <= Len(a) THEN a[i] ELSE b[i - Len(a)]
  <2>1. a \in Seq(S) /\ b \in Seq(S)
    BY <1>2, <1>3
  <2> QED
    BY <2>1
<1> HIDE DEF c
<1>6. Len(c) = Len(s) - 1
  BY <1>1, <1>2, <1>3, <1>5
<1>7. ASSUME NEW i \in 1 .. Len(s) - 1 PROVE c[i] = s[IF i < k THEN i ELSE i + 1]
  <2>1. i \in 1 .. Len(a) + Len(b) /\ i \in Nat
    BY <1>1, <1>2, <1>3
  <2>2. CASE i < k
    <3>1. i <= Len(a) /\ i \in 1 .. k - 1
      BY <1>1, <1>2, <2>1, <2>2
    <3>2. c[i] = a[i] /\ a[i] = s[i]
      BY <1>2, <1>5, <2>1, <3>1, Zenon
    <3> QED
      BY <2>2, <3>2, Zenon
  <2>3. CASE ~(i < k)
    <3>1. PICK j \in 1 .. Len(s) - k : j = i - (k - 1) /\ k + j = i + 1
      BY <1>1, <2>3
    <3>2. ~(i <= Len(a)) /\ i - Len(a) = j
      BY <1>1, <1>2, <2>1, <2>3, <3>1
    <3>3. c[i] = b[j] /\ b[j] = s[k + j]
      BY <1>3, <1>5, <2>1, <3>2, Zenon
    <3> QED
      BY <2>3, <3>1, <3>3, Zenon
  <2> QED
    BY <2>2, <2>3
<1> QED
  BY <1>4, <1>5, <1>6, <1>7, ZenonT(30)

-----------------------------------------------------------------------------
(* The socket.  OpenIsCurrent is not inductive: it needs to know that a    *)
(* socket which is about to open finds the current promise pending, and    *)
(* that only one socket, or one timer, is under way.                       *)

Promise == [state : {"pending", "rejected", "resolved"}, ws : Nat]

SocketTypes ==
  /\ sockets \in Nat
  /\ promises \in Seq(Promise) /\ promises # <<>>

OneUnderWay ==
  /\ ws = "connecting" \/ timer => Current = Pending
  /\ ws \in {"open", "closing"} => Current = Resolved(sockets)
  /\ timer => ws = "none"
  /\ readyState = "OPEN" => ws \in {"open", "closing"}
  /\ readyState = "CONNECTING" => ws \in {"none", "connecting"}

SocketInv == SocketTypes /\ (isPartialWebSocket \/ threw \/ OneUnderWay)

\* Appending a promise makes it the current one.
LEMMA NewPromiseIsCurrent ==
  ASSUME SocketTypes, promises' = NewPromise
  PROVE  /\ promises' \in Seq(Promise) /\ promises' # <<>>
         /\ Current' = Pending
BY DEF SocketTypes, NewPromise, Current, Pending, Promise

\* A pending promise takes the value; the sequence keeps its length.
LEMMA SettleIsCurrent ==
  ASSUME SocketTypes, NEW value \in Promise, promises' = Settle(value)
  PROVE  /\ promises' \in Seq(Promise) /\ promises' # <<>>
         /\ Current = Pending => Current' = value
         /\ Current # Pending => promises' = promises
<1>1. Len(promises) \in DOMAIN promises
  BY DEF SocketTypes
<1> QED
  BY <1>1 DEF SocketTypes, Settle, Current

\* The first connection is under way, and its promise pending.
LEMMA SocketInvInit == SocketInit => SocketInv
BY DEF SocketInit, SocketInv, SocketTypes, OneUnderWay, Current, Pending, Promise

\* onclose makes a promise, rejects one, or leaves it to the next attempt.
LEMMA oncloseKeepsInv ==
  ASSUME SocketInv, onclose
  PROVE  SocketInv'
<1> USE DEF SocketInv
<1>1. isPartialWebSocket' <=> isPartialWebSocket
  BY DEF onclose, isPartialWebSocket
<1>2. CASE ClosedOpen
  <2>1. SocketTypes'
    BY <1>2, NewPromiseIsCurrent DEF ClosedOpen, onclose, SocketTypes
  <2>2. threw' \/ Throwers = {}
    BY <1>2, Zenon DEF ClosedOpen, dispatchEvent
  <2>3. ASSUME Throwers = {} PROVE OneUnderWay'
    BY <1>2, <2>3, NewPromiseIsCurrent DEF ClosedOpen, onclose, OneUnderWay
  <2> QED
    BY <2>1, <2>2, <2>3
<1>3. CASE ClosedForGood
  <2>1. Rejected \in Promise
    BY DEF Rejected, Promise
  <2>2. SocketTypes'
    BY <1>3, <2>1, SettleIsCurrent DEF ClosedForGood, onclose, SocketTypes, Reject
  <2>3. threw => threw'
    BY <1>3, ZenonT(30) DEF ClosedForGood, dispatchEvent
  <2>4. ASSUME OneUnderWay, ~isPartialWebSocket PROVE OneUnderWay'
    BY <1>3, <2>4 DEF ClosedForGood, onclose, OneUnderWay
  <2> QED
    BY <1>1, <2>2, <2>3, <2>4
<1>4. CASE ConnectFailed
  <2>1. Rejected \in Promise
    BY DEF Rejected, Promise
  <2>2. SocketTypes'
    BY <1>4, <2>1, SettleIsCurrent DEF ConnectFailed, onclose, SocketTypes, Reject
  <2>3. threw' = threw
    BY <1>4 DEF ConnectFailed, listenerVars
  <2>4. ASSUME OneUnderWay PROVE OneUnderWay'
    <3>1. ws = "connecting" /\ Current = Pending /\ ~timer
      BY <1>4, <2>4 DEF ConnectFailed, onclose, OneUnderWay
    <3>2. CASE readyState' = "CLOSED" /\ timer' = timer
      BY <3>1, <3>2 DEF onclose, OneUnderWay
    <3>3. CASE timer' /\ readyState' = readyState /\ promises' = promises
      BY <3>1, <3>3, <1>4 DEF onclose, OneUnderWay, ConnectFailed, Current
    <3> QED
      BY <1>4, <3>2, <3>3 DEF ConnectFailed
  <2> QED
    BY <1>1, <2>2, <2>3, <2>4
<1> QED
  BY <1>2, <1>3, <1>4 DEF onclose

\* Every step of the socket keeps the invariant.
LEMMA SocketInvStep == SocketInv /\ [SocketNext]_socketVars => SocketInv'
<1> SUFFICES ASSUME SocketInv, [SocketNext]_socketVars PROVE SocketInv'
  OBVIOUS
<1> USE DEF SocketInv
<1>1. CASE connect
  BY <1>1 DEF connect, SocketTypes, OneUnderWay, Current, Resolved, Pending, isPartialWebSocket, listenerVars
<1>2. CASE onopen
  <2>1. Resolved(sockets) \in Promise
    BY DEF SocketTypes, Resolved, Promise
  <2>2. SocketTypes'
    BY <1>2, <2>1, SettleIsCurrent DEF onopen, SocketTypes
  <2>3. OneUnderWay => OneUnderWay'
    BY <1>2, <2>1, SettleIsCurrent DEF onopen, OneUnderWay, Resolved
  <2> QED
    BY <1>2, <2>2, <2>3 DEF onopen, listenerVars
<1>3. CASE onclose
  BY <1>3, oncloseKeepsInv
<1>4. CASE close
  BY <1>4 DEF close, SocketTypes, OneUnderWay, Current, Resolved, isPartialWebSocket, listenerVars
<1>5. CASE CloseSocket
  BY <1>5 DEF CloseSocket, SocketTypes, OneUnderWay, Current, Resolved, isPartialWebSocket, listenerVars
<1>6. CASE Drop
  BY <1>6 DEF Drop, SocketTypes, OneUnderWay, Current, Resolved, isPartialWebSocket, listenerVars
<1>7. CASE Listen \/ Unlisten
  BY <1>7 DEF Listen, Unlisten, SocketTypes, OneUnderWay, Current, Resolved, isPartialWebSocket, wsVars
<1>8. CASE PlainOpens \/ PlainCloses \/ PlainClose
  BY <1>8 DEF PlainOpens, PlainCloses, PlainClose, SocketTypes, isPartialWebSocket
<1>9. CASE UNCHANGED socketVars
  BY <1>9 DEF socketVars, wsVars, listenerVars, SocketTypes, OneUnderWay, Current, Resolved, isPartialWebSocket
<1> QED
  BY <1>1, <1>2, <1>3, <1>4, <1>5, <1>6, <1>7, <1>8, <1>9 DEF SocketNext

\* Every step of the client is one of its socket, or leaves that alone.
LEMMA ClientStepsSocket == [Next]_vars => [SocketNext]_socketVars
<1> SUFFICES ASSUME [Next]_vars PROVE SocketNext \/ UNCHANGED socketVars
  OBVIOUS
<1>1. CASE EventLoop
  <2>1. CASE Socket \/ SocketCloses
    BY <2>1 DEF Socket, SocketCloses, SocketNext
  <2>2. CASE \E c \in Callers : Encoded(c) \/ WriteLogged(c) \/ PlainSend(c) \/ Send(c)
                                 \/ SendResumes(c) \/ CallResumes(c)
    BY <2>2 DEF Encoded, WriteLogged, PlainSend, Send, SendResumes, CallResumes
  <2>3. CASE onmessage \/ (\E m \in parsing : Parsed(m)) \/ Read \/ ReadLogged \/ Dispatched
    BY <2>3, Zenon DEF onmessage, Parsed, Read, ReadLogged, Dispatched
  <2> QED
    BY <1>1, <2>1, <2>2, <2>3 DEF EventLoop
<1>2. CASE Page
  BY <1>2, SMTT(30) DEF Page, Call, SocketNext
<1>3. CASE Respond \/ SendFrame \/ ConnectionDrops
  BY <1>3 DEF Respond, SendFrame, ConnectionDrops, SocketNext
<1>4. CASE UNCHANGED vars
  BY <1>4 DEF vars
<1> QED
  BY <1>1, <1>2, <1>3, <1>4 DEF Next

\* While the persistent socket is OPEN, its promise is resolved with the latest WebSocket,
\* for any pages, number of connections and maxRetries (onopen, onclose and close).
THEOREM ClientOpenIsCurrent == Spec => []OpenIsCurrent
<1>1. Init => SocketInv
  BY SocketInvInit DEF Init
<1>2. SocketInv /\ [Next]_vars => SocketInv'
  BY SocketInvStep, ClientStepsSocket
<1>3. SocketInv => OpenIsCurrent
  BY DEF SocketInv, OneUnderWay, OpenIsCurrent
<1> QED
  BY <1>1, <1>2, <1>3, PTL DEF Spec

-----------------------------------------------------------------------------
(* The listeners.  OnceAtMostOnce needs to know that a pair is on the      *)
(* stack once, and off it when it was called.  AfterCalls takes the stack  *)
(* from call to call, so what it leaves is shown by induction on the calls.*)

Distinct(s) == \A i, j \in DOMAIN s : s[i] = s[j] => i = j
Within(s, t) == \A i \in DOMAIN s : \E j \in DOMAIN t : s[i] = t[j]
Free(s, n) == \A i \in DOMAIN s : s[i] # n

\* An element that was there once is gone, and nothing comes in.
LEMMA SpliceDistinct ==
  ASSUME NEW S, NEW s \in Seq(S), Distinct(s), NEW k \in 1 .. Len(s)
  PROVE  /\ splice(s, k) \in Seq(S) /\ Distinct(splice(s, k))
         /\ Within(splice(s, k), s) /\ Free(splice(s, k), s[k])
<1> DEFINE r == splice(s, k)
           at(i) == IF i < k THEN i ELSE i + 1
<1>1. /\ r \in Seq(S) /\ DOMAIN r = 1 .. Len(s) - 1
      /\ \A i \in DOMAIN r : r[i] = s[at(i)]
  <2>1. r \in Seq(S) /\ Len(r) = Len(s) - 1 /\ \A i \in 1 .. Len(s) - 1 : r[i] = s[at(i)]
    BY SpliceElements, Zenon
  <2> HIDE DEF r, at
  <2>2. DOMAIN r = 1 .. Len(s) - 1
    BY <2>1
  <2> QED
    BY <2>1, <2>2, Zenon
<1>2. DOMAIN s = 1 .. Len(s) /\ Len(s) \in Nat
  OBVIOUS
<1> HIDE DEF r
<1>3. \A i \in DOMAIN r : at(i) \in DOMAIN s /\ at(i) # k /\ \A j \in DOMAIN r : at(i) = at(j) => i = j
  BY <1>1, <1>2
<1>4. k \in DOMAIN s
  BY <1>2
<1> HIDE DEF at
<1>5. Distinct(r)
  BY <1>1, <1>3, Zenon DEF Distinct
<1>6. Within(r, s)
  BY <1>1, <1>3, Zenon DEF Within
<1>7. Free(r, s[k])
  BY <1>1, <1>3, <1>4, Zenon DEF Distinct, Free
<1> QED
  BY <1>1, <1>5, <1>6, <1>7 DEF r

\* Nothing comes in, and nothing is there twice, when a listener is removed.
LEMMA WithoutDistinct ==
  ASSUME NEW S, NEW s \in Seq(S), Distinct(s), NEW listener, NEW capture
  PROVE  /\ Without(s, listener, capture) \in Seq(S) /\ Distinct(Without(s, listener, capture))
         /\ Within(Without(s, listener, capture), s)
<1> DEFINE equal == {i \in DOMAIN s : /\ registered[s[i]].listener = listener
                                      /\ registered[s[i]].capture = capture}
<1>1. Len(s) \in Nat /\ equal \in SUBSET (1 .. Len(s))
  OBVIOUS
<1>2. Without(s, listener, capture) = IF equal = {} THEN s ELSE splice(s, Min(equal))
  BY Zenon DEF Without
<1> HIDE DEF equal
<1>3. CASE equal = {}
  BY <1>2, <1>3, Zenon DEF Within
<1>4. CASE equal # {}
  <2>1. Min(equal) \in 1 .. Len(s)
    BY <1>1, <1>4, LeastIndex, ZenonT(30)
  <2> QED
    BY <1>2, <1>4, <2>1, SpliceDistinct, Zenon
<1> QED
  BY <1>3, <1>4

\* The registration is for one event, and no other is equal to it.
Single(n) ==
  /\ registered[n].once
  /\ \A k \in DOMAIN registered \ {n} :
       ~ (registered[k].listener = registered[n].listener /\ registered[k].capture = registered[n].capture)

\* The search for an equal one finds it.
LEMMA WithoutSingle ==
  ASSUME NEW s \in Seq(DOMAIN registered), Distinct(s), NEW n \in DOMAIN registered, Single(n)
  PROVE  Free(Without(s, registered[n].listener, registered[n].capture), n)
<1> DEFINE equal == {i \in DOMAIN s : /\ registered[s[i]].listener = registered[n].listener
                                      /\ registered[s[i]].capture = registered[n].capture}
<1>1. Len(s) \in Nat /\ equal \in SUBSET (1 .. Len(s)) /\ DOMAIN s = 1 .. Len(s)
  OBVIOUS
<1>2. Without(s, registered[n].listener, registered[n].capture) = IF equal = {} THEN s ELSE splice(s, Min(equal))
  BY Zenon DEF Without
<1>3. \A i \in DOMAIN s : i \in equal <=> s[i] = n
  <2>1. \A i \in DOMAIN s : s[i] \in DOMAIN registered
    OBVIOUS
  <2> QED
    BY <2>1, Zenon DEF Single
<1> HIDE DEF equal
<1>4. CASE equal = {}
  BY <1>2, <1>3, <1>4, Zenon DEF Free
<1>5. CASE equal # {}
  <2>1. Min(equal) \in equal
    BY <1>1, <1>5, LeastIndex, ZenonT(30)
  <2>2. Min(equal) \in 1 .. Len(s) /\ s[Min(equal)] = n
    BY <1>1, <1>3, <2>1, Zenon
  <2> QED
    BY <1>2, <1>5, <2>2, SpliceDistinct, Zenon
<1> QED
  BY <1>4, <1>5

Stacks == {s \in Seq(DOMAIN registered) : Distinct(s)}

\* Without is a function on stacks, so there is a function that AfterCalls defines.
LEMMA AfterCallsUnfolds ==
  ASSUME stack \in Stacks
  PROVE  /\ AfterCalls[0] = stack
         /\ \A i \in Nat \ {0} : AfterCalls[i] =
              IF registered[stack[i]].once
              THEN Without(AfterCalls[i - 1], registered[stack[i]].listener, registered[stack[i]].capture)
              ELSE AfterCalls[i - 1]
<1> DEFINE next(i, s) == IF registered[stack[i]].once
                         THEN Without(s, registered[stack[i]].listener, registered[stack[i]].capture)
                         ELSE s
           step == [i \in Nat |-> [s \in Stacks |-> next(i, s)]]
           G(g) == [i \in Nat |-> IF i = 0 THEN stack ELSE next(i, g[i - 1])]
<1>1. \A i \in Nat, s \in Stacks : next(i, s) \in Stacks
  BY WithoutDistinct, Zenon DEF Stacks
<1>2. AfterCalls = CHOOSE g : g = G(g)
  BY Zenon DEF AfterCalls
<1> HIDE DEF next
<1>3. step \in [Nat -> [Stacks -> Stacks]]
  BY <1>1
<1>4. \A i \in Nat, s \in Stacks : step[i][s] = next(i, s)
  OBVIOUS
<1> HIDE DEF step
<1>5. PICK f \in [Nat -> Stacks] : f[0] = stack /\ \A n \in Nat \ {0} : f[n] = step[n][f[n - 1]]
  <2>1. PICK S : S = Stacks
    OBVIOUS
  <2>2. PICK a \in S : a = stack
    BY <2>1
  <2>3. PICK t : t = step
    OBVIOUS
  <2>4. t \in [Nat -> [S -> S]]
    BY <1>3, <2>1, <2>3, Zenon
  <2>5. \E f \in [Nat -> S] : f[0] = a /\ \A n \in Nat \ {0} : f[n] = t[n][f[n - 1]]
    <3> HIDE DEF G
    <3> QED
      BY <2>4, RecursionExists
  <2> QED
    BY <2>1, <2>2, <2>3, <2>5, Zenon
<1>6. f = G(f)
  <2>1. \A i \in Nat : f[i] = IF i = 0 THEN stack ELSE next(i, f[i - 1])
    <3> SUFFICES ASSUME NEW i \in Nat, i # 0 PROVE f[i] = next(i, f[i - 1])
      BY <1>5
    <3>1. f[i - 1] \in Stacks
      BY <1>5
    <3> QED
      BY <1>4, <1>5, <3>1, Zenon
  <2> QED
    BY <1>5, <2>1, Zenon
<1>7. AfterCalls = G(AfterCalls)
  BY <1>2, <1>6, Zenon
<1>8. \A i \in Nat : AfterCalls[i] = IF i = 0 THEN stack ELSE next(i, AfterCalls[i - 1])
  BY <1>7, Zenon
<1>9. 0 \in Nat
  OBVIOUS
<1> QED
  BY <1>8, <1>9, Zenon DEF next

\* Nothing comes back, and of the listeners that were called those for one event are gone.
LEMMA AfterCallsFree ==
  ASSUME stack \in Stacks, NEW j \in Nat, j <= Len(stack)
  PROVE  /\ AfterCalls[j] \in Stacks /\ Within(AfterCalls[j], stack)
         /\ \A i \in 1 .. j : Single(stack[i]) => Free(AfterCalls[j], stack[i])
<1> DEFINE Q(k) == /\ AfterCalls[k] \in Stacks /\ Within(AfterCalls[k], stack)
                   /\ \A i \in 1 .. k : Single(stack[i]) => Free(AfterCalls[k], stack[i])
           P == {k \in Nat : k <= Len(stack) => Q(k)}
<1>1. Len(stack) \in Nat /\ stack \in Seq(DOMAIN registered) /\ DOMAIN stack = 1 .. Len(stack)
  BY DEF Stacks
<1>2. 0 \in P
  <2>1. AfterCalls[0] = stack
    BY AfterCallsUnfolds
  <2>2. Within(stack, stack)
    BY DEF Within
  <2> QED
    BY <2>1, <2>2
<1>3. ASSUME NEW k \in P PROVE k + 1 \in P
  <2>1. k \in Nat /\ k + 1 \in Nat
    OBVIOUS
  <2> SUFFICES ASSUME k + 1 <= Len(stack) PROVE Q(k + 1)
    BY <2>1
  <2>2. Q(k)
    BY <1>1, <2>1
  <2>3. PICK n \in DOMAIN registered : n = stack[k + 1]
    BY <1>1, <2>1
  <2>4. PICK s : s = AfterCalls[k]
    OBVIOUS
  <2>5. PICK r : r = AfterCalls[k + 1]
    OBVIOUS
  <2>6. r = IF registered[n].once THEN Without(s, registered[n].listener, registered[n].capture) ELSE s
    <3>1. k + 1 \in Nat \ {0} /\ (k + 1) - 1 = k
      BY <2>1
    <3>2. r = IF registered[stack[k + 1]].once
              THEN Without(AfterCalls[(k + 1) - 1], registered[stack[k + 1]].listener, registered[stack[k + 1]].capture)
              ELSE AfterCalls[(k + 1) - 1]
      BY <2>5, <3>1, AfterCallsUnfolds, Zenon
    <3> QED
      BY <2>3, <2>4, <3>1, <3>2, Zenon
  <2>7. /\ s \in Seq(DOMAIN registered) /\ Distinct(s) /\ Within(s, stack)
        /\ \A i \in 1 .. k : Single(stack[i]) => Free(s, stack[i])
    BY <2>2, <2>4, Zenon DEF Stacks
  <2>8. r \in Seq(DOMAIN registered) /\ Distinct(r) /\ Within(r, s)
    <3>1. Within(s, s)
      BY Zenon DEF Within
    <3> QED
      BY <2>6, <2>7, <3>1, WithoutDistinct, Zenon
  <2>9. Within(r, stack)
    BY <2>7, <2>8 DEF Within
  <2>10. \A m : Free(s, m) => Free(r, m)
    BY <2>8, Zenon DEF Within, Free
  <2>11. Single(n) => Free(r, n)
    BY <2>6, <2>7, WithoutSingle, Zenon DEF Single
  <2>12. ASSUME NEW i \in 1 .. k + 1, Single(stack[i]) PROVE Free(r, stack[i])
    <3>1. i = k + 1 \/ i \in 1 .. k
      BY <2>1
    <3> QED
      BY <2>3, <2>7, <2>10, <2>11, <2>12, <3>1, Zenon
  <2> QED
    BY <2>5, <2>8, <2>9, <2>12, Zenon DEF Stacks
<1> HIDE DEF P
<1>4. P = Nat
  <2>1. P \in SUBSET Nat
    BY Zenon DEF P
  <2> QED
    BY <1>2, <1>3, <2>1, NatSet
<1> QED
  BY <1>4, Zenon DEF P

\* A listener that an event reaches is among the first that are called.
LEMMA ReachedIsInitial ==
  ASSUME stack \in Stacks
  PROVE  /\ Cardinality(Reached) \in Nat /\ Cardinality(Reached) <= Len(stack)
         /\ \A i \in Reached : i \in 1 .. Cardinality(Reached)
<1>1. Len(stack) \in Nat /\ DOMAIN stack = 1 .. Len(stack)
  BY DEF Stacks
<1>2. Reached \subseteq 1 .. Len(stack) /\ Throwers \subseteq 1 .. Len(stack)
  BY <1>1 DEF Reached, Throwers
<1>3. \A n \in Nat : IsFiniteSet(1 .. n) /\ Cardinality(1 .. n) = n
  <2> TAKE n \in Nat
  <2>1. 1 \in Int /\ n \in Int
    OBVIOUS
  <2>2. IsFiniteSet(1 .. n) /\ Cardinality(1 .. n) = IF 1 > n THEN 0 ELSE n - 1 + 1
    BY <2>1, FS_Interval
  <2> QED
    BY <2>2
<1>4. IsFiniteSet(Reached) /\ Cardinality(Reached) <= Len(stack) /\ Cardinality(Reached) \in Nat
  <2>1. IsFiniteSet(Reached) /\ Cardinality(Reached) <= Cardinality(1 .. Len(stack))
    BY <1>1, <1>2, <1>3, FS_Subset, Zenon
  <2> QED
    BY <1>1, <1>3, <2>1, FS_CardinalityType
<1>5. ASSUME NEW i \in Reached PROVE i \in 1 .. Cardinality(Reached)
  <2>1. i \in 1 .. Len(stack) /\ i \in Nat /\ \A j \in Throwers : i <= j
    BY <1>2 DEF Reached
  <2>2. 1 .. i \subseteq Reached
    <3> SUFFICES ASSUME NEW m \in 1 .. i PROVE m \in DOMAIN stack /\ \A j \in Throwers : m <= j
      BY DEF Reached
    <3> QED
      BY <1>1, <1>2, <2>1
  <2>3. Cardinality(1 .. i) <= Cardinality(Reached)
    BY <1>4, <2>2, FS_Subset, Zenon
  <2> QED
    BY <1>3, <1>4, <2>1, <2>3
<1> QED
  BY <1>4, <1>5

Listeners == {Conn} \cup UNION {DOMAIN p.acts : p \in Pages}
Pairs == [listener : Listeners, once : BOOLEAN, capture : BOOLEAN, called : Nat]

\* A pair that is on the stack and has no equal was not called; one that was is gone.
OnceInv ==
  /\ page \in Pages
  /\ registered \in Seq(Pairs)
  /\ stack \in Stacks
  /\ \A n \in DOMAIN registered : Single(n) =>
       registered[n].called = 0 \/ (registered[n].called = 1 /\ Free(stack, n))

\* What the page adds is a registration that was not called.
LEMMA RegistrationsTyped ==
  ASSUME NEW p \in Pages, NEW r \in Registrations(p)
  PROVE  r \in Pairs /\ r.called = 0
<1>1. PICK l \in DOMAIN p.acts, once \in BOOLEAN, capture \in BOOLEAN : r = Registration(l, once, capture)
  BY DEF Registrations
<1>2. l \in Listeners
  BY Zenon DEF Listeners
<1> QED
  BY <1>1, <1>2 DEF Registration, Pairs

\* The stack is that of the page's listeners, and the connection's.
LEMMA OnceInvInit == SocketInit => OnceInv
<1> SUFFICES ASSUME SocketInit PROVE OnceInv
  OBVIOUS
<1>1. page \in Pages
  BY DEF SocketInit
<1>2. page.listeners \in Seq(Registrations(page))
  BY <1>1, SocketConstants
<1>3. PICK c : c = Registration(Conn, FALSE, FALSE)
  BY ZenonT(30)
<1>4. c \in Pairs /\ c.called = 0
  BY <1>3 DEF Registration, Pairs, Listeners
<1>5. PICK s : s = page.listeners
  OBVIOUS
<1>6. s \in Seq(Registrations(page)) /\ Len(s) \in Nat /\ \A n \in 1 .. Len(s) : s[n] \in Registrations(page)
  BY <1>2, <1>5
<1>7. \A n \in 1 .. Len(s) : s[n] \in Pairs /\ s[n].called = 0
  BY <1>1, <1>6, RegistrationsTyped, Zenon
<1>8. registered = Append(s, c) /\ stack = [n \in 1 .. Len(s) + 1 |-> n]
  BY <1>3, <1>5 DEF SocketInit
<1>9. /\ registered \in Seq(Pairs) /\ DOMAIN registered = 1 .. Len(s) + 1
      /\ \A n \in 1 .. Len(s) + 1 : registered[n] = IF n <= Len(s) THEN s[n] ELSE c
  <2>1. s \in Seq(Pairs)
    BY <1>6, <1>7
  <2> QED
    BY <1>4, <1>8, <2>1
<1>10. \A n \in DOMAIN registered : registered[n].called = 0
  BY <1>4, <1>6, <1>7, <1>9
<1>11. stack \in Stacks
  BY <1>6, <1>8, <1>9 DEF Stacks, Distinct
<1> QED
  BY <1>1, <1>9, <1>10, <1>11, Zenon DEF OnceInv

\* A registration that is added was not called, and may only make others less unique.
LEMMA ListenKeepsOnce ==
  ASSUME OnceInv, Listen
  PROVE  OnceInv'
<1>1. PICK l \in DOMAIN page.acts, once \in BOOLEAN, capture \in BOOLEAN : addEventListener(l, once, capture)
  BY Zenon DEF Listen
<1>2. PICK r : r = Registration(l, once, capture)
  OBVIOUS
<1>3. page' = page /\ page \in Pages
  BY DEF Listen, OnceInv
<1>4. r \in Pairs /\ r.called = 0
  <2>1. r \in Registrations(page)
    BY <1>2 DEF Registrations
  <2> QED
    BY <1>3, <2>1, RegistrationsTyped, Zenon
<1>5. PICK N \in Nat : N = Len(registered) /\ DOMAIN registered = 1 .. N
  BY DEF OnceInv
<1>6. registered' = Append(registered, r) /\ stack' = Append(stack, N + 1)
  BY <1>1, <1>2, <1>5 DEF addEventListener
<1>7. /\ registered' \in Seq(Pairs) /\ DOMAIN registered' = 1 .. N + 1
      /\ registered'[N + 1] = r /\ \A n \in 1 .. N : registered'[n] = registered[n]
  BY <1>4, <1>5, <1>6 DEF OnceInv
<1>8. stack \in Seq(1 .. N) /\ Distinct(stack)
  BY <1>5 DEF OnceInv, Stacks
<1>9. PICK k \in Nat : k = Len(stack) /\ DOMAIN stack = 1 .. k
  BY <1>8
<1>10. /\ stack' \in Seq(1 .. N + 1) /\ DOMAIN stack' = 1 .. k + 1
       /\ stack'[k + 1] = N + 1 /\ \A i \in 1 .. k : stack'[i] = stack[i] /\ stack[i] \in 1 .. N
  <2>1. stack \in Seq(1 .. N + 1) /\ N + 1 \in 1 .. N + 1
    BY <1>8
  <2>2. stack' \in Seq(1 .. N + 1) /\ Len(stack') = k + 1
    BY <1>6, <1>9, <2>1
  <2>3. stack'[k + 1] = N + 1 /\ \A i \in 1 .. k : stack'[i] = stack[i]
    BY <1>6, <1>9, <2>1
  <2> QED
    BY <1>8, <1>9, <2>2, <2>3, SMTT(30)
<1>11. Distinct(stack')
  <2> SUFFICES ASSUME NEW i \in 1 .. k + 1, NEW j \in 1 .. k + 1, stack'[i] = stack'[j] PROVE i = j
    BY <1>10, Zenon DEF Distinct
  <2>1. (i \in 1 .. k \/ i = k + 1) /\ (j \in 1 .. k \/ j = k + 1) /\ N + 1 \notin 1 .. N
    OBVIOUS
  <2>2. CASE i \in 1 .. k /\ j \in 1 .. k
    BY <1>8, <1>9, <1>10, <2>2, Zenon DEF Distinct
  <2> QED
    BY <1>10, <2>1, <2>2, Zenon
<1>12. stack' \in Stacks'
  BY <1>7, <1>10, <1>11, Zenon DEF Stacks
<1>13. ASSUME NEW n \in DOMAIN registered', Single(n)'
       PROVE  registered'[n].called = 0 \/ (registered'[n].called = 1 /\ Free(stack', n))
  <2>1. CASE n = N + 1
    BY <1>4, <1>7, <2>1
  <2>2. CASE n # N + 1
    <3>1. n \in 1 .. N /\ \A m \in 1 .. N : m \in 1 .. N + 1
      BY <1>7, <2>2
    <3>2. Single(n)
      BY <1>5, <1>7, <1>13, <3>1, Zenon DEF Single
    <3>3. Free(stack, n) => Free(stack', n)
      BY <1>9, <1>10, <2>2 DEF Free
    <3> QED
      BY <1>5, <1>7, <3>1, <3>2, <3>3, Zenon DEF OnceInv
  <2> QED
    BY <2>1, <2>2
<1> QED
  BY <1>3, <1>7, <1>12, <1>13, Zenon DEF OnceInv

\* A listener may be removed.
LEMMA UnlistenKeepsOnce ==
  ASSUME OnceInv, Unlisten
  PROVE  OnceInv'
<1>1. PICK l, capture : stack' = Without(stack, l, capture)
  BY Zenon DEF Unlisten, removeEventListener
<1>2. page' = page /\ registered' = registered
  BY DEF Unlisten
<1>3. stack' \in Seq(DOMAIN registered) /\ Distinct(stack') /\ Within(stack', stack)
  BY <1>1, WithoutDistinct, Zenon DEF OnceInv, Stacks
<1>4. stack' \in Stacks'
  BY <1>2, <1>3, Zenon DEF Stacks
<1>5. \A n : Free(stack, n) => Free(stack', n)
  BY <1>3 DEF Within, Free
<1>6. \A n \in DOMAIN registered : Single(n)' <=> Single(n)
  BY <1>2, Zenon DEF Single
<1> QED
  BY <1>2, <1>4, <1>5, <1>6, Zenon DEF OnceInv

\* An event counts as a call of each listener that it reaches, and changes nothing else
\* of the registrations.
LEMMA DispatchCounts ==
  ASSUME registered \in Seq(Pairs), dispatchEvent
  PROVE  /\ registered' \in Seq(Pairs) /\ DOMAIN registered' = DOMAIN registered
         /\ \A n \in DOMAIN registered :
              /\ registered'[n].listener = registered[n].listener
              /\ registered'[n].once = registered[n].once
              /\ registered'[n].capture = registered[n].capture
              /\ IF \E i \in Reached : stack[i] = n
                 THEN registered'[n].called = registered[n].called + 1
                 ELSE registered'[n] = registered[n]
<1> DEFINE one(n) == IF \E i \in Reached : stack[i] = n THEN [registered[n] EXCEPT !.called = @ + 1]
                                                         ELSE registered[n]
<1>1. registered' = [n \in DOMAIN registered |-> one(n)]
  BY Zenon DEF dispatchEvent
<1>2. ASSUME NEW r \in Pairs
      PROVE  /\ [r EXCEPT !.called = @ + 1] \in Pairs
             /\ [r EXCEPT !.called = @ + 1].listener = r.listener
             /\ [r EXCEPT !.called = @ + 1].once = r.once
             /\ [r EXCEPT !.called = @ + 1].capture = r.capture
             /\ [r EXCEPT !.called = @ + 1].called = r.called + 1
  BY DEF Pairs
<1>3. \A n \in DOMAIN registered : registered[n] \in Pairs
  OBVIOUS
<1>4. \A n \in DOMAIN registered : one(n) \in Pairs
  BY <1>2, <1>3, Zenon
<1>5. ASSUME NEW n \in DOMAIN registered
      PROVE  /\ registered'[n].listener = registered[n].listener
             /\ registered'[n].once = registered[n].once
             /\ registered'[n].capture = registered[n].capture
             /\ IF \E i \in Reached : stack[i] = n
                THEN registered'[n].called = registered[n].called + 1
                ELSE registered'[n] = registered[n]
  <2>1. registered'[n] = one(n)
    BY <1>1, Zenon
  <2>2. CASE \E i \in Reached : stack[i] = n
    BY <1>2, <1>3, <2>1, <2>2, Zenon
  <2>3. CASE ~ \E i \in Reached : stack[i] = n
    BY <2>1, <2>3, Zenon
  <2> QED
    BY <2>2, <2>3
<1> HIDE DEF one
<1>6. registered' \in Seq(Pairs) /\ DOMAIN registered' = DOMAIN registered
  BY <1>1, <1>4
<1> QED
  BY <1>5, <1>6

\* A listener for one event that is called comes off the stack, if it has no equal.
LEMMA DispatchKeepsOnce ==
  ASSUME OnceInv, dispatchEvent, page' = page
  PROVE  OnceInv'
<1>1. registered \in Seq(Pairs) /\ stack \in Stacks
  BY DEF OnceInv
<1>2. PICK c : c = Cardinality(Reached)
  OBVIOUS
<1>3. c \in Nat /\ c <= Len(stack) /\ \A i \in Reached : i \in 1 .. c
  BY <1>1, <1>2, ReachedIsInitial, Zenon
<1>4. stack' = AfterCalls[c]
  BY <1>2, Zenon DEF dispatchEvent
<1>5. /\ stack' \in Stacks /\ Within(stack', stack)
      /\ \A i \in 1 .. c : Single(stack[i]) => Free(stack', stack[i])
  BY <1>1, <1>3, <1>4, AfterCallsFree, Zenon
<1>6. /\ registered' \in Seq(Pairs) /\ DOMAIN registered' = DOMAIN registered
      /\ \A n \in DOMAIN registered :
           /\ registered'[n].listener = registered[n].listener
           /\ registered'[n].once = registered[n].once
           /\ registered'[n].capture = registered[n].capture
           /\ IF \E i \in Reached : stack[i] = n
              THEN registered'[n].called = registered[n].called + 1
              ELSE registered'[n] = registered[n]
  BY <1>1, DispatchCounts, Zenon
<1>7. stack' \in Stacks'
  BY <1>5, <1>6, Zenon DEF Stacks
<1>8. \A n \in DOMAIN registered : Single(n)' => Single(n)
  BY <1>6, Zenon DEF Single
<1>9. ASSUME NEW n \in DOMAIN registered, Single(n)
      PROVE  registered'[n].called = 0 \/ (registered'[n].called = 1 /\ Free(stack', n))
  <2>1. registered[n].called = 0 \/ (registered[n].called = 1 /\ Free(stack, n))
    BY <1>9, Zenon DEF OnceInv
  <2>2. CASE \E i \in Reached : stack[i] = n
    <3>1. PICK i \in Reached : stack[i] = n
      BY <2>2
    <3>2. i \in DOMAIN stack
      BY Zenon DEF Reached
    <3>3. registered[n].called = 0
      BY <2>1, <3>1, <3>2, Zenon DEF Free
    <3>4. registered'[n].called = registered[n].called + 1
      BY <1>6, <2>2, Zenon
    <3>5. Free(stack', n)
      BY <1>3, <1>5, <1>9, <3>1, Zenon
    <3> QED
      BY <3>3, <3>4, <3>5
  <2>3. CASE ~ \E i \in Reached : stack[i] = n
    <3>1. registered'[n] = registered[n]
      BY <1>6, <2>3, Zenon
    <3>2. Free(stack, n) => Free(stack', n)
      BY <1>5 DEF Within, Free
    <3> QED
      BY <2>1, <3>1, <3>2, Zenon
  <2> QED
    BY <2>2, <2>3
<1>10. page' \in Pages
  BY DEF OnceInv
<1> QED
  BY <1>6, <1>7, <1>8, <1>9, <1>10, Zenon DEF OnceInv

\* No other step has to do with listeners.
LEMMA OnceInvStep == OnceInv /\ [SocketNext]_socketVars => OnceInv'
<1> SUFFICES ASSUME OnceInv, [SocketNext]_socketVars PROVE OnceInv'
  OBVIOUS
<1>1. CASE Listen
  BY <1>1, ListenKeepsOnce
<1>2. CASE Unlisten
  BY <1>2, UnlistenKeepsOnce
<1>3. CASE dispatchEvent /\ page' = page
  BY <1>3, DispatchKeepsOnce
<1>4. CASE UNCHANGED <<page, registered, stack>>
  BY <1>4, Zenon DEF OnceInv, Stacks, Single, Distinct, Free
<1>5. CASE onclose
  <2>1. page' = page
    BY <1>5 DEF onclose
  <2>2. CASE ClosedOpen \/ ClosedForGood
    BY <1>3, <2>1, <2>2, Zenon DEF ClosedOpen, ClosedForGood
  <2>3. CASE ConnectFailed
    BY <1>4, <2>1, <2>3 DEF ConnectFailed, listenerVars
  <2> QED
    BY <1>5, <2>2, <2>3 DEF onclose
<1>6. CASE \/ connect \/ onopen \/ close \/ CloseSocket \/ Drop
           \/ PlainOpens \/ PlainCloses \/ PlainClose \/ UNCHANGED socketVars
  <2>1. UNCHANGED <<page, registered, stack>>
    BY <1>6 DEF connect, onopen, close, CloseSocket, Drop, PlainOpens, PlainCloses, PlainClose,
                socketVars, listenerVars
  <2> QED
    BY <1>4, <2>1, SMTT(30)
<1> QED
  BY <1>1, <1>2, <1>5, <1>6 DEF SocketNext

\* So a single one is called for one event at most.
LEMMA OnceInvSuffices == OnceInv => OnceAtMostOnce
<1> SUFFICES ASSUME OnceInv, NEW n \in DOMAIN registered, registered[n].once,
                    ~ \E k \in DOMAIN registered \ {n} :
                        /\ registered[k].listener = registered[n].listener
                        /\ registered[k].capture = registered[n].capture
             PROVE  registered[n].called <= 1
  BY Zenon DEF OnceAtMostOnce
<1>1. Single(n)
  BY Zenon DEF Single
<1>2. registered[n].called = 0 \/ registered[n].called = 1
  BY <1>1, Zenon DEF OnceInv
<1> QED
  BY <1>2

\* A listener added with once, and not twice, is called for one event only, for any pages
\* and any number of events and of listeners, equal ones or ones that throw among them
\* (dispatchEvent and removeEventListener in createConstrainedEventTarget).
THEOREM ClientOnceAtMostOnce == Spec => []OnceAtMostOnce
<1>1. Init => OnceInv
  BY OnceInvInit DEF Init
<1>2. OnceInv /\ [Next]_vars => OnceInv'
  BY OnceInvStep, ClientStepsSocket
<1> QED
  BY <1>1, <1>2, OnceInvSuffices, PTL DEF Spec

-----------------------------------------------------------------------------
(* The dispatcher.  Until the page unsubscribes a handler twice, the       *)
(* routes are those of the subscriptions that are on, each once: that is   *)
(* the invariant, and with it the first route that matches an event is one *)
(* that wants it.                                                          *)

NeverTwice == \A h \in Handlers : subscription[h] # "twice"

RoutesAreOn ==
  /\ routes \in Seq(Handlers)
  /\ \A i, j \in DOMAIN routes : routes[i] = routes[j] => i = j
  /\ \A h \in Handlers : subscription[h] = "on" <=> \E i \in DOMAIN routes : routes[i] = h

RoutesInv ==
  /\ subscription \in [Handlers -> {"none", "on", "off", "twice"}]
  /\ NeverTwice => RoutesAreOn
  /\ \E S : dispatched \in Seq(S)
  /\ MissedOnlyIfTwice

\* The route that indexOf finds is taken out, and no other.
LEMMA SplicedRoute ==
  ASSUME RoutesAreOn, NEW k \in DOMAIN routes, NEW h, routes[k] = h,
         routes' = Spliced(indexOf(h))
  PROVE  /\ routes' \in Seq(Handlers) /\ Len(routes') = Len(routes) - 1
         /\ \A i \in 1 .. Len(routes') : routes'[i] = routes[IF i < k THEN i ELSE i + 1]
<1> DEFINE I == {i \in DOMAIN routes : routes[i] = h}
<1>1. I = {k} /\ k \in 1 .. Len(routes) /\ Len(routes) \in Nat
  BY DEF RoutesAreOn
<1>2. indexOf(h) = k
  <2>1. Min(I) = k
    BY <1>1 DEF Min
  <2> QED
    BY <1>1, <2>1, Zenon DEF indexOf
<1>3. routes' = splice(routes, k)
  <2>1. k # 0 /\ routes # <<>>
    BY <1>1
  <2> QED
    BY <1>2, <2>1, Zenon DEF Spliced
<1> HIDE DEF I
<1>4. /\ routes' \in Seq(Handlers) /\ Len(routes') = Len(routes) - 1
      /\ \A i \in 1 .. Len(routes) - 1 : routes'[i] = routes[IF i < k THEN i ELSE i + 1]
  <2>1. PICK s \in Seq(Handlers) : s = routes
    BY DEF RoutesAreOn
  <2>2. k \in 1 .. Len(s)
    BY <1>1, <2>1
  <2>3. /\ splice(s, k) \in Seq(Handlers) /\ Len(splice(s, k)) = Len(s) - 1
        /\ \A i \in 1 .. Len(s) - 1 : splice(s, k)[i] = s[IF i < k THEN i ELSE i + 1]
    BY <2>2, SpliceElements, ZenonT(30)
  <2> QED
    BY <1>3, <2>1, <2>3, Zenon
<1> QED
  BY <1>4, Zenon

\* The first route for an event belongs to a subscription that is on and matches it.
LEMMA RouteIsWanted ==
  ASSUME RoutesAreOn, NEW m
  PROVE  LET wanted == {h \in Handlers : subscription[h] = "on" /\ Matches(Matcher(h), m)}
         IN  IF wanted = {} THEN RouteOf(m) = None ELSE RouteOf(m) \in wanted
<1> DEFINE wanted == {h \in Handlers : subscription[h] = "on" /\ Matches(Matcher(h), m)}
<1>1. Len(routes) \in Nat /\ Candidates(m) \in SUBSET (1 .. Len(routes))
  BY DEF RoutesAreOn, Candidates
<1>2. \A i \in Candidates(m) : routes[i] \in wanted
  BY DEF RoutesAreOn, Candidates
<1>3. wanted # {} => Candidates(m) # {}
  BY DEF RoutesAreOn, Candidates
<1>4. Candidates(m) # {} => Min(Candidates(m)) \in Candidates(m)
  BY <1>1, LeastIndex, ZenonT(30)
<1> QED
  BY <1>2, <1>3, <1>4 DEF RouteOf

\* A new route is that of a subscription that was not on.
LEMMA HandleKeepsRoutes ==
  ASSUME RoutesInv, NEW h \in Handlers, handle(h)
  PROVE  (NeverTwice' => NeverTwice /\ RoutesAreOn') /\ subscription' \in [Handlers -> {"none", "on", "off", "twice"}]
<1>1. \A g \in Handlers : subscription'[g] = IF g = h THEN "on" ELSE subscription[g]
  BY DEF handle, RoutesInv
<1>2. NeverTwice' => NeverTwice
  BY <1>1 DEF NeverTwice, handle
<1>3. ASSUME RoutesAreOn PROVE RoutesAreOn'
  <2>1. \A i \in DOMAIN routes : routes[i] # h
    BY <1>3 DEF RoutesAreOn, handle
  <2>2. /\ routes' \in Seq(Handlers) /\ DOMAIN routes' = 1 .. Len(routes) + 1
        /\ \A i \in DOMAIN routes' : routes'[i] = IF i <= Len(routes) THEN routes[i] ELSE h
    BY <1>3 DEF RoutesAreOn, handle
  <2>3. DOMAIN routes = 1 .. Len(routes) /\ Len(routes) \in Nat
    BY <1>3 DEF RoutesAreOn
  <2>4. \A i, j \in DOMAIN routes' : routes'[i] = routes'[j] => i = j
    BY <1>3, <2>1, <2>2, <2>3 DEF RoutesAreOn
  <2>5. \A g \in Handlers : subscription'[g] = "on" <=> \E i \in DOMAIN routes' : routes'[i] = g
    BY <1>1, <1>3, <2>1, <2>2, <2>3 DEF RoutesAreOn
  <2> QED
    BY <2>2, <2>4, <2>5 DEF RoutesAreOn
<1> QED
  BY <1>2, <1>3 DEF RoutesInv, handle

\* The first call of an unsubscribe function takes its own route out.
LEMMA UnsubscribeKeepsRoutes ==
  ASSUME RoutesInv, NEW h \in Handlers, unsubscribe(h)
  PROVE  (NeverTwice' => NeverTwice /\ RoutesAreOn') /\ subscription' \in [Handlers -> {"none", "on", "off", "twice"}]
<1>1. \A g \in Handlers : subscription'[g] =
        IF g # h THEN subscription[g] ELSE IF subscription[h] = "on" THEN "off" ELSE "twice"
  BY DEF unsubscribe, RoutesInv
<1>2. NeverTwice' => NeverTwice /\ subscription[h] = "on"
  BY <1>1 DEF NeverTwice, unsubscribe
<1>3. ASSUME RoutesAreOn, subscription[h] = "on" PROVE RoutesAreOn'
  <2>1. PICK k \in DOMAIN routes : routes[k] = h
    BY <1>3 DEF RoutesAreOn
  <2>2. /\ routes' \in Seq(Handlers) /\ Len(routes') = Len(routes) - 1
        /\ \A i \in 1 .. Len(routes') : routes'[i] = routes[IF i < k THEN i ELSE i + 1]
    BY <1>3, <2>1, SplicedRoute DEF unsubscribe
  <2>3. DOMAIN routes = 1 .. Len(routes) /\ Len(routes) \in Nat /\ DOMAIN routes' = 1 .. Len(routes')
    BY <1>3, <2>2 DEF RoutesAreOn
  <2>4. ASSUME NEW i \in DOMAIN routes', NEW j \in DOMAIN routes', routes'[i] = routes'[j]
        PROVE  i = j
    <3> DEFINE at(n) == IF n < k THEN n ELSE n + 1
    <3>1. at(i) \in DOMAIN routes /\ at(j) \in DOMAIN routes
      BY <2>1, <2>2, <2>3
    <3>2. routes'[i] = routes[at(i)]
      BY <2>2, <2>3, Zenon
    <3>4. routes'[j] = routes[at(j)]
      BY <2>2, <2>3, Zenon
    <3> HIDE DEF at
    <3>5. routes[at(i)] = routes[at(j)]
      BY <2>4, <3>2, <3>4, ZenonT(30)
    <3>6. at(i) = at(j)
      BY <1>3, <3>1, <3>5, Zenon DEF RoutesAreOn
    <3> QED
      BY <2>1, <2>2, <2>3, <3>6 DEF at
  <2>5. ASSUME NEW g \in Handlers
        PROVE  subscription'[g] = "on" <=> \E i \in DOMAIN routes' : routes'[i] = g
    <3>1. ASSUME subscription'[g] = "on" PROVE \E i \in DOMAIN routes' : routes'[i] = g
      <4>1. g # h /\ subscription[g] = "on"
        BY <1>1, <3>1
      <4>2. PICK j \in DOMAIN routes : routes[j] = g
        BY <1>3, <4>1 DEF RoutesAreOn
      <4>3. j # k
        BY <2>1, <4>1, <4>2
      <4>4. CASE j < k
        BY <2>1, <2>2, <2>3, <4>2, <4>4
      <4>5. CASE j > k
        <5>1. j - 1 \in DOMAIN routes' /\ routes'[j - 1] = routes[j]
          BY <2>1, <2>2, <2>3, <4>5
        <5> QED
          BY <4>2, <5>1
      <4> QED
        BY <2>3, <4>3, <4>4, <4>5
    <3>2. ASSUME NEW i \in DOMAIN routes', routes'[i] = g PROVE subscription'[g] = "on"
      <4>1. PICK j \in DOMAIN routes : j # k /\ routes[j] = g
        BY <2>1, <2>2, <2>3, <3>2, SMTT(30)
      <4>2. g # h /\ subscription[g] = "on"
        BY <1>3, <2>1, <4>1 DEF RoutesAreOn
      <4> QED
        BY <1>1, <4>2
    <3> QED
      BY <3>1, <3>2
  <2> QED
    BY <2>2, <2>4, <2>5 DEF RoutesAreOn
<1> QED
  BY <1>2, <1>3 DEF RoutesInv, unsubscribe

\* The dispatcher has dispatched nothing, and has no route.
LEMMA RoutesInvInit == Init => RoutesInv
<1> SUFFICES ASSUME Init PROVE RoutesInv
  OBVIOUS
<1>1. /\ subscription = [h \in Handlers |-> "none"] /\ routes = <<>> /\ dispatched = <<>>
  BY DEF Init, DispatcherInit
<1>2. RoutesAreOn
  BY <1>1 DEF RoutesAreOn
<1>3. dispatched \in Seq({})
  BY <1>1
<1>4. MissedOnlyIfTwice
  BY <1>1 DEF MissedOnlyIfTwice
<1> QED
  BY <1>1, <1>2, <1>3, <1>4 DEF RoutesInv

\* What is in a sequence once something is appended to it.
LEMMA Appending ==
  ASSUME NEW S, NEW s \in Seq(S), NEW e
  PROVE  /\ Append(s, e) \in Seq(S \cup {e})
         /\ \A i \in DOMAIN Append(s, e) :
              Append(s, e)[i] = e \/ (i \in DOMAIN s /\ Append(s, e)[i] = s[i])
<1>1. s \in Seq(S \cup {e}) /\ e \in S \cup {e} /\ Len(s) \in Nat /\ DOMAIN s = 1 .. Len(s)
  OBVIOUS
<1>2. Append(s, e) \in Seq(S \cup {e})
  BY <1>1
<1>3. /\ DOMAIN Append(s, e) = 1 .. Len(s) + 1
      /\ \A i \in 1 .. Len(s) + 1 : Append(s, e)[i] = IF i <= Len(s) THEN s[i] ELSE e
  BY <1>1, SMTT(30)
<1> QED
  BY <1>1, <1>2, <1>3

\* Handling a message dispatches it as the routes are.
LEMMA HandleDispatches ==
  ASSUME RoutesInv, UNCHANGED routeVars, NEW m, UNCHANGED page,
         Handle(m)
  PROVE  RoutesInv'
<1>1. UNCHANGED <<routes, subscription>>
  BY DEF routeVars
<1> DEFINE event == ~isRpcMessage(m) /\ isRpcEventMessage(m)
           wanted == {h \in Handlers : subscription[h] = "on" /\ Matches(Matcher(h), m)}
           record == [event |-> m, handler |-> RouteOf(m), wanted |-> wanted]
<1>2. dispatched' = IF ~event THEN dispatched ELSE Append(dispatched, record)
  BY Zenon DEF Handle
<1>3. PICK S : dispatched \in Seq(S)
  BY DEF RoutesInv
<1>4. NeverTwice => IF wanted = {} THEN RouteOf(m) = None ELSE RouteOf(m) \in wanted
  BY RouteIsWanted, Zenon DEF RoutesInv
<1>5. record.handler = RouteOf(m) /\ record.wanted = wanted
  OBVIOUS
<1> HIDE DEF event, wanted, record
<1>6. /\ dispatched' \in Seq(S \cup {record})
      /\ \A i \in DOMAIN dispatched' : dispatched'[i] = record \/ (i \in DOMAIN dispatched /\ dispatched'[i] = dispatched[i])
  <2>1. CASE ~event
    BY <1>2, <1>3, <2>1
  <2>2. CASE event
    <3>1. dispatched' = Append(dispatched, record)
      BY <1>2, <2>2, Zenon
    <3>2. /\ Append(dispatched, record) \in Seq(S \cup {record})
          /\ \A i \in DOMAIN Append(dispatched, record) :
               \/ Append(dispatched, record)[i] = record
               \/ i \in DOMAIN dispatched /\ Append(dispatched, record)[i] = dispatched[i]
      BY <1>3, Appending, SMTT(30)
    <3> QED
      BY <3>1, <3>2, Zenon
  <2> QED
    BY <2>1, <2>2
<1>7. MissedOnlyIfTwice'
  <2> SUFFICES ASSUME NeverTwice, NEW i \in DOMAIN dispatched'
               PROVE  IF dispatched'[i].wanted = {} THEN dispatched'[i].handler = None
                      ELSE dispatched'[i].handler \in dispatched'[i].wanted
    BY <1>1 DEF MissedOnlyIfTwice, NeverTwice
  <2>1. CASE dispatched'[i] = record
    BY <1>4, <1>5, <2>1, Zenon
  <2>2. CASE i \in DOMAIN dispatched /\ dispatched'[i] = dispatched[i]
    BY <2>2, Zenon DEF RoutesInv, MissedOnlyIfTwice, NeverTwice
  <2> QED
    BY <1>6, <2>1, <2>2
<1> QED
  BY <1>1, <1>6, <1>7 DEF RoutesInv, NeverTwice, RoutesAreOn

\* A step that leaves the routes and what was dispatched alone keeps the invariant.
LEMMA RoutesInvUnchanged ==
  ASSUME RoutesInv, UNCHANGED <<routes, subscription, dispatched>>
  PROVE  RoutesInv'
BY DEF RoutesInv, NeverTwice, RoutesAreOn, MissedOnlyIfTwice

\* So does one that changes the routes.
LEMMA SubscribingKeepsInv ==
  ASSUME RoutesInv, UNCHANGED dispatched, NEW h \in Handlers, handle(h) \/ unsubscribe(h)
  PROVE  RoutesInv'
<1>1. /\ NeverTwice' => NeverTwice /\ RoutesAreOn'
      /\ subscription' \in [Handlers -> {"none", "on", "off", "twice"}]
  BY HandleKeepsRoutes, UnsubscribeKeepsRoutes, Zenon
<1>2. MissedOnlyIfTwice'
  BY <1>1 DEF RoutesInv, MissedOnlyIfTwice, NeverTwice
<1> QED
  BY <1>1, <1>2 DEF RoutesInv

\* Reading a message, and getting it from the logger.
LEMMA TakingKeepsInv ==
  ASSUME RoutesInv, UNCHANGED routeVars, UNCHANGED page, NEW m, Take(m)
  PROVE  RoutesInv'
<1>1. CASE page.logged
  BY <1>1, RoutesInvUnchanged DEF Take, routeVars
<1>2. CASE ~page.logged
  BY <1>2, HandleDispatches, Zenon DEF Take
<1> QED
  BY <1>1, <1>2

\* Every step keeps the invariant.
LEMMA RoutesInvStep == RoutesInv /\ [Next]_vars => RoutesInv'
<1> SUFFICES ASSUME RoutesInv, [Next]_vars PROVE RoutesInv'
  OBVIOUS
<1>1. CASE UNCHANGED vars
  BY <1>1, RoutesInvUnchanged DEF vars, routeVars, readVars
<1>2. CASE Socket \/ SocketCloses
  BY <1>2, RoutesInvUnchanged DEF Socket, SocketCloses, routeVars, readVars
<1>3. ASSUME NEW c \in Callers,
             Encoded(c) \/ WriteLogged(c) \/ PlainSend(c) \/ Send(c) \/ SendResumes(c) \/ CallResumes(c)
      PROVE  RoutesInv'
  BY <1>3, RoutesInvUnchanged, Zenon
     DEF Encoded, WriteLogged, PlainSend, Send, SendResumes, CallResumes, routeVars, readVars
<1>4. CASE onmessage \/ Dispatched
  BY <1>4, RoutesInvUnchanged DEF onmessage, Dispatched, routeVars, readVars
<1>5. ASSUME NEW m \in parsing, Parsed(m) PROVE RoutesInv'
  <2>1. UNCHANGED routeVars /\ UNCHANGED page
    BY <1>5 DEF Parsed, socketVars
  <2>2. Take(m) \/ UNCHANGED dispatched
    BY <1>5, Zenon DEF Parsed
  <2> QED
    BY <2>1, <2>2, TakingKeepsInv, RoutesInvUnchanged, Zenon DEF routeVars
<1>6. CASE Read
  <2>1. UNCHANGED routeVars /\ UNCHANGED page
    BY <1>6 DEF Read, socketVars
  <2>2. Take(Head(exchange.buffer)) \/ UNCHANGED dispatched
    BY <1>6, Zenon DEF Read
  <2> QED
    BY <2>1, <2>2, TakingKeepsInv, RoutesInvUnchanged, Zenon DEF routeVars
<1>7. CASE ReadLogged
  <2>1. UNCHANGED routeVars /\ UNCHANGED page /\ Handle(run.message)
    BY <1>7 DEF ReadLogged, socketVars
  <2> QED
    BY <2>1, HandleDispatches, Zenon
<1>8. ASSUME NEW h \in Handlers, handle(h) \/ unsubscribe(h), UNCHANGED readVars PROVE RoutesInv'
  BY <1>8, SubscribingKeepsInv DEF readVars
<1>9. CASE Page
  <2>1. CASE \E c \in Callers : Call(c)
    BY <2>1, RoutesInvUnchanged DEF Call, routeVars, readVars
  <2>2. CASE UNCHANGED <<routeVars, readVars>>
    BY <2>2, RoutesInvUnchanged, SMTT(30) DEF routeVars, readVars
  <2> QED
    BY <1>8, <1>9, <2>1, <2>2 DEF Page
<1>10. CASE Respond \/ SendFrame \/ ConnectionDrops
  BY <1>10, RoutesInvUnchanged DEF Respond, SendFrame, ConnectionDrops, routeVars, readVars
<1> QED
  BY <1>1, <1>2, <1>3, <1>4, <1>5, <1>6, <1>7, <1>9, <1>10, SMTT(30) DEF Next, EventLoop

\* An event goes to a handler whose subscription to it is on, and to nobody only when there
\* is none (dispatch of createDecodingDispatcher), whatever the pages, the handlers and
\* the events, until an unsubscribe function is called twice.
THEOREM ClientDispatches == Spec => []MissedOnlyIfTwice
<1>1. RoutesInv => MissedOnlyIfTwice
  BY DEF RoutesInv
<1> QED
  BY <1>1, RoutesInvInit, RoutesInvStep, PTL DEF Spec
-----------------------------------------------------------------------------
(* The exchange.  While run has not ended, what was given is what was      *)
(* taken and then the buffer, if the buffer holds messages; or else run    *)
(* waits for the one triplet in it.  S is any set with the messages.       *)

ExchangeTypes(S) ==
  /\ given \in Seq(S) /\ taken \in Seq(S)
  /\ exchange \in [side : BOOLEAN, buffer : Seq(S)]

ExchangeOrder(S) ==
  /\ \E rest \in Seq(S) : given = taken \o rest
  /\ run.at \notin {"taking", "ended"} =>
       /\ exchange.buffer = <<>> \/ exchange.side
       /\ given = taken \o exchange.buffer
  /\ run.at = "taking" =>
       /\ ~exchange.side
       /\ exchange.buffer # <<>> /\ Tail(exchange.buffer) = <<>>
       /\ given = taken

ExchangeInv == \E S : ExchangeTypes(S) /\ ExchangeOrder(S)

\* Taking the head of a buffer moves it from one sequence to the other.
LEMMA TakeHead ==
  ASSUME NEW S, NEW s \in Seq(S), NEW b \in Seq(S), b # <<>>
  PROVE  Append(s, Head(b)) \o Tail(b) = s \o b
OBVIOUS

\* What is appended to the second of two sequences is appended to both.
LEMMA AppendToConcat ==
  ASSUME NEW S, NEW s \in Seq(S), NEW m \in S, NEW b \in Seq(S)
  PROVE  Append(s \o b, m) = s \o Append(b, m) /\ Append(b, m) \in Seq(S)
OBVIOUS

\* A sequence is a prefix of any that continues it.
LEMMA ConcatIsExtension ==
  ASSUME NEW S, NEW s \in Seq(S), NEW r \in Seq(S)
  PROVE  Len(s) <= Len(s \o r) /\ s = SubSeq(s \o r, 1, Len(s))
OBVIOUS

\* A sequence over a set is one over any larger set.
LEMMA LargerSeq ==
  ASSUME NEW S, NEW m, NEW s \in Seq(S)
  PROVE  s \in Seq(S \cup {m})
BY SMTT(20)

\* A message in hand, run is neither waiting for one nor over.
LEMMA TakeGoesOn ==
  ASSUME NEW m, Take(m)
  PROVE  taken' = Append(taken, m) /\ run'.at \in {"logging", "decoding", "read"}
BY DEF Take, Handle

\* The record operations on the exchange.
LEMMA ShiftedFields ==
  ASSUME NEW S, exchange \in [side : BOOLEAN, buffer : Seq(S)], exchange.buffer # <<>>
  PROVE  /\ Shifted \in [side : BOOLEAN, buffer : Seq(S)]
         /\ Shifted.side = exchange.side /\ Shifted.buffer = Tail(exchange.buffer)
<1>1. Tail(exchange.buffer) \in Seq(S)
  OBVIOUS
<1>2. Shifted \in [side : BOOLEAN, buffer : Seq(S)]
  BY <1>1, Zenon DEF Shifted
<1>3. Shifted.side = exchange.side /\ Shifted.buffer = Tail(exchange.buffer)
  BY SMT DEF Shifted
<1> QED
  BY <1>2, <1>3

\* What pushing makes of the exchange.
LEMMA PushedFields ==
  ASSUME NEW S, exchange \in [side : BOOLEAN, buffer : Seq(S)], NEW m \in S, NEW taking \in BOOLEAN
  PROVE  /\ Pushed(taking, m) \in [side : BOOLEAN, buffer : Seq(S)]
         /\ Pushed(taking, m).side = ~taking
         /\ Pushed(taking, m).buffer = Append(exchange.buffer, m)
<1>1. Append(exchange.buffer, m) \in Seq(S)
  OBVIOUS
<1>2. (~taking) \in BOOLEAN
  OBVIOUS
<1> QED
  BY <1>1, <1>2, Zenon DEF Pushed

\* The exchange is empty at first.
LEMMA ExchangeInvInit == Init => ExchangeInv
<1> SUFFICES ASSUME Init PROVE ExchangeTypes({}) /\ ExchangeOrder({})
  BY DEF ExchangeInv
<1>1. given \in Seq({}) /\ taken \in Seq({}) /\ <<>> \in Seq({}) /\ <<>> \o <<>> = <<>>
  BY DEF Init
<1>2. exchange \in [side : BOOLEAN, buffer : Seq({})] /\ exchange.buffer = <<>>
  BY <1>1, Zenon DEF Init
<1>3. run.at = "read" /\ given = <<>> /\ taken = <<>>
  BY DEF Init
<1> QED
  BY <1>1, <1>2, <1>3 DEF ExchangeTypes, ExchangeOrder

\* The set of messages may grow.
LEMMA ExchangeGrows ==
  ASSUME NEW S, NEW m, ExchangeTypes(S), ExchangeOrder(S)
  PROVE  ExchangeTypes(S \cup {m}) /\ ExchangeOrder(S \cup {m})
BY LargerSeq, Zenon DEF ExchangeTypes, ExchangeOrder

\* A message that was parsed goes to the read that waits, or behind the others.
LEMMA ParsedKeepsOrder ==
  ASSUME NEW S, ExchangeTypes(S), ExchangeOrder(S), NEW m \in S, Parsed(m)
  PROVE  ExchangeTypes(S)' /\ ExchangeOrder(S)'
<1> USE DEF ExchangeTypes
<1>1. PICK rest \in Seq(S) : given = taken \o rest
  BY Zenon DEF ExchangeOrder
<1>2. taken \in Seq(S) /\ exchange.buffer \in Seq(S)
  OBVIOUS
<1>3. \A b \in Seq(S) : Append(taken \o b, m) = taken \o Append(b, m) /\ Append(b, m) \in Seq(S)
  <2> HIDE DEF ExchangeTypes
  <2>1. taken \in Seq(S)
    BY <1>2
  <2> QED
    BY <2>1, AppendToConcat, Zenon
<1>4. CASE m.is = "malformed" /\ UNCHANGED <<run, exchange, given, taken, dispatched, call, calls>>
  BY <1>4, Zenon DEF ExchangeOrder
<1>5. CASE /\ Ahead(FALSE)
           /\ given' = Append(given, m) /\ exchange' = Shifted
           /\ IF run.at = "taking" THEN Take(m)
              ELSE UNCHANGED <<run, call, calls, taken, dispatched>>
  <2>1. exchange.buffer # <<>> /\ exchange.side = FALSE
    BY <1>5 DEF Ahead
  <2>2. exchange' \in [side : BOOLEAN, buffer : Seq(S)] /\ exchange'.buffer = Tail(exchange.buffer)
    BY <1>5, <2>1, ShiftedFields
  <2>3. CASE run.at = "taking"
    <3>1. taken' = Append(taken, m) /\ run'.at \in {"logging", "decoding", "read"}
      BY <1>5, <2>3, TakeGoesOn, SMTT(30)
    <3>2. given' = taken' /\ exchange'.buffer = <<>>
      BY <1>5, <2>2, <2>3, <3>1, SMTT(30) DEF ExchangeOrder
    <3>3. given' \in Seq(S) /\ given' = taken' \o <<>> /\ <<>> \in Seq(S)
      BY <1>5, <3>1, <3>2
    <3> QED
      BY <2>2, <3>1, <3>2, <3>3, Zenon DEF ExchangeOrder
  <2>4. CASE run.at # "taking"
    <3>1. run.at = "ended" /\ UNCHANGED <<run, taken>>
      BY <1>5, <2>1, <2>4 DEF ExchangeOrder
    <3>2. given' = taken \o Append(rest, m)
      BY <1>1, <1>3, <1>5, Zenon
    <3>3. given' \in Seq(S)
      BY <1>5
    <3> QED
      BY <1>3, <2>2, <3>1, <3>2, <3>3, Zenon DEF ExchangeOrder
  <2> QED
    BY <2>3, <2>4
<1>6. CASE /\ ~Ahead(FALSE)
           /\ given' = Append(given, m) /\ exchange' = Pushed(FALSE, m)
           /\ UNCHANGED <<run, taken, dispatched, call, calls>>
  <2>1. /\ exchange' \in [side : BOOLEAN, buffer : Seq(S)]
        /\ exchange'.side = TRUE /\ exchange'.buffer = Append(exchange.buffer, m)
    BY <1>6, PushedFields, ZenonT(30)
  <2>2. given' = taken \o Append(rest, m)
    BY <1>1, <1>3, <1>6, Zenon
  <2>3. run.at # "taking"
    BY <1>6 DEF Ahead, ExchangeOrder
  <2>4. run.at # "ended" => given' = taken \o Append(exchange.buffer, m)
    <3>1. run.at # "ended" => given = taken \o exchange.buffer
      BY <2>3 DEF ExchangeOrder
    <3> QED
      BY <1>2, <1>3, <1>6, <3>1, Zenon
  <2>5. given' \in Seq(S)
    BY <1>6
  <2> QED
    BY <1>3, <1>6, <2>1, <2>2, <2>3, <2>4, <2>5, Zenon DEF ExchangeOrder
<1> QED
  BY <1>4, <1>5, <1>6, Zenon DEF Parsed

\* A read takes the oldest message, or waits when there is none.
LEMMA ReadKeepsOrder ==
  ASSUME NEW S, ExchangeTypes(S), ExchangeOrder(S), None \in S, Read
  PROVE  ExchangeTypes(S)' /\ ExchangeOrder(S)'
<1> USE DEF ExchangeTypes
<1>1. run.at = "read" /\ given' = given
  BY DEF Read
<1>2. CASE run' = [at |-> "ended"] /\ UNCHANGED <<exchange, call, calls, taken, dispatched>>
  BY <1>1, <1>2, SMTT(30) DEF ExchangeOrder
<1>3. CASE Ahead(TRUE) /\ exchange' = Shifted /\ Take(Head(exchange.buffer))
  <2>1. exchange.buffer # <<>> /\ exchange.side = TRUE
    BY <1>3 DEF Ahead
  <2>2. /\ exchange' \in [side : BOOLEAN, buffer : Seq(S)]
        /\ exchange'.side = TRUE /\ exchange'.buffer = Tail(exchange.buffer)
    BY <1>3, <2>1, ShiftedFields
  <2>3. taken' = Append(taken, Head(exchange.buffer)) /\ run'.at \in {"logging", "decoding", "read"}
    BY <1>3, TakeGoesOn
  <2>4. exchange.buffer \in Seq(S) /\ given = taken \o exchange.buffer
    BY <1>1 DEF ExchangeOrder
  <2>5. taken' \in Seq(S)
    BY <2>1, <2>3, <2>4
  <2>6. given' = taken' \o exchange'.buffer
    BY <1>1, <2>1, <2>2, <2>3, <2>4, TakeHead
  <2> QED
    BY <1>1, <2>2, <2>3, <2>5, <2>6, ZenonT(30) DEF ExchangeOrder
<1>4. CASE /\ ~Ahead(TRUE)
           /\ exchange' = Pushed(TRUE, None) /\ run' = [at |-> "taking"]
           /\ UNCHANGED <<call, calls, taken, dispatched>>
  <2>1. exchange.buffer = <<>>
    BY <1>1, <1>4, SMTT(30) DEF Ahead, ExchangeOrder
  <2>2. /\ exchange' \in [side : BOOLEAN, buffer : Seq(S)]
        /\ exchange'.side = FALSE /\ exchange'.buffer = Append(exchange.buffer, None)
    BY <1>4, PushedFields, ZenonT(30)
  <2>3. given' = taken' /\ taken' = taken' \o <<>> /\ <<>> \in Seq(S)
    BY <1>1, <1>4, <2>1 DEF ExchangeOrder
  <2>4. exchange'.buffer # <<>> /\ Tail(exchange'.buffer) = <<>>
    BY <2>1, <2>2
  <2>5. given' \in Seq(S) /\ taken' \in Seq(S)
    BY <1>1, <1>4
  <2> QED
    BY <1>4, <2>2, <2>3, <2>4, <2>5, Zenon DEF ExchangeOrder
<1> QED
  BY <1>2, <1>3, <1>4, Zenon DEF Read

\* Every step of the client keeps the invariant.
LEMMA ExchangeInvStep == ExchangeInv /\ [Next]_vars => ExchangeInv'
<1> SUFFICES ASSUME ExchangeInv, [Next]_vars PROVE ExchangeInv'
  OBVIOUS
<1>1. PICK S : ExchangeTypes(S) /\ ExchangeOrder(S)
  BY DEF ExchangeInv
<1>2. ASSUME UNCHANGED <<exchange, given, taken>>, run' = run \/ run'.at = "ended"
      PROVE  ExchangeInv'
  <2>1. ExchangeTypes(S)'
    BY <1>1, <1>2 DEF ExchangeTypes
  <2>2. CASE run' = run
    BY <1>1, <1>2, <2>1, <2>2, Zenon DEF ExchangeOrder, ExchangeInv
  <2>3. CASE run'.at = "ended"
    BY <1>1, <1>2, <2>1, <2>3, SMTT(30) DEF ExchangeOrder, ExchangeInv
  <2> QED
    BY <1>2, <2>2, <2>3
<1>3. CASE SocketCloses
  BY <1>2, <1>3 DEF SocketCloses, CloseConn
<1>4. CASE \E m \in parsing : Parsed(m)
  <2>1. PICK m \in parsing : Parsed(m)
    BY <1>4
  <2>2. ExchangeTypes(S \cup {m}) /\ ExchangeOrder(S \cup {m})
    BY <1>1, ExchangeGrows, Zenon
  <2>3. ExchangeTypes(S \cup {m})' /\ ExchangeOrder(S \cup {m})'
    BY <2>1, <2>2, ParsedKeepsOrder
  <2> QED
    BY <2>3 DEF ExchangeInv
<1>5. CASE Read
  <2>1. ExchangeTypes(S \cup {None}) /\ ExchangeOrder(S \cup {None})
    BY <1>1, ExchangeGrows
  <2>2. ExchangeTypes(S \cup {None})' /\ ExchangeOrder(S \cup {None})'
    BY <1>5, <2>1, ReadKeepsOrder
  <2> QED
    BY <2>2 DEF ExchangeInv
<1>6. CASE ReadLogged \/ Dispatched
  <2>1. /\ UNCHANGED <<exchange, given, taken>>
        /\ run.at \in {"logging", "decoding"} /\ run'.at \in {"decoding", "read", "ended"}
    <3>1. CASE ReadLogged
      BY <3>1, Zenon DEF ReadLogged, Handle
    <3>2. CASE Dispatched
      BY <3>2, SMTT(30) DEF Dispatched
    <3> QED
      BY <1>6, <3>1, <3>2
  <2>2. ExchangeTypes(S)' /\ ExchangeOrder(S)'
    BY <1>1, <2>1, ZenonT(30) DEF ExchangeTypes, ExchangeOrder
  <2> QED
    BY <2>2 DEF ExchangeInv
<1>7. CASE Socket \/ Page \/ Respond \/ SendFrame \/ ConnectionDrops \/ onmessage \/ UNCHANGED vars
  BY <1>2, <1>7, Zenon DEF Socket, Page, Call, Respond, SendFrame, ConnectionDrops, onmessage, vars, readVars
<1>8. CASE \E c \in Callers : Encoded(c) \/ WriteLogged(c) \/ PlainSend(c) \/ Send(c)
                              \/ SendResumes(c) \/ CallResumes(c)
  BY <1>2, <1>8, Zenon DEF Encoded, WriteLogged, PlainSend, Send, SendResumes, CallResumes, readVars
<1> QED
  BY <1>3, <1>4, <1>5, <1>6, <1>7, <1>8 DEF Next, EventLoop

\* run gets the messages in the order in which they were given to the exchange, each
\* once, for any number of messages and reads (newExchange's set, run).
THEOREM ClientTakesInOrder == Spec => []TakenInOrder
<1>1. ExchangeInv => TakenInOrder
  <2> SUFFICES ASSUME NEW S, ExchangeTypes(S), ExchangeOrder(S) PROVE TakenInOrder
    BY DEF ExchangeInv
  <2>1. PICK rest \in Seq(S) : given = taken \o rest
    BY DEF ExchangeOrder
  <2> QED
    BY <2>1, ConcatIsExtension DEF ExchangeTypes, TakenInOrder
<1> QED
  BY <1>1, ExchangeInvInit, ExchangeInvStep, PTL DEF Spec

-----------------------------------------------------------------------------
(* The calls. *)

Request(c, i) == createRpcRequestMessage("call", Arguments(c), i)

\* The ID is out, and nobody else's.
OwnId(c, i) == i \in 1 .. nextId /\ calls[i] \in {c, None}

\* A message that looks like a response is the reply to a caller's request.
Owned(m) ==
  isRpcMessage(m) => \E c \in Callers, i \in Ids :
    OwnId(c, i) /\ replied[c] \in Kinds /\ m = Reply(replied[c], Request(c, i))

Unencoded == {c \in Callers : call[c].at \in {"none", "encoding"}}

CallTypes ==
  /\ page \in Pages
  /\ nextId \in Nat /\ nextId = Cardinality(Callers \ Unencoded)
  /\ calls \in [Ids -> Callers \cup {None}]
  /\ replied \in [Callers -> Kinds \cup {"none"}]
  /\ DOMAIN call = Callers /\ DOMAIN write = Callers

Buffers == \E S : inbox \in Seq(S) /\ exchange \in [side : BOOLEAN, buffer : Seq(S)]

\* Where a call is, a request is sent at most once, and only then replied to.
CallStates ==
  \A c \in Callers :
    /\ call[c].at \in {"none", "encoding", "waiting", "resolved", "settled"}
    /\ c \in Unencoded => write[c].at = "none"
    /\ write[c].at # "sent" => replied[c] = "none" /\ \A r \in received : r.from # c
    /\ call[c].at \in {"resolved", "settled"} => replied[c] # "none"

CallValues ==
  \A c \in Callers :
    /\ call[c].at = "waiting" => \E i \in Ids : OwnId(c, i) /\ call[c].request = Request(c, i)
    /\ call[c].at = "resolved" => \E i \in Ids : call[c].response = Reply(replied[c], Request(c, i))

\* The server has each request once, and has not replied to it.
ReceivedOnce ==
  \A r \in received :
    /\ r.from \in Callers /\ replied[r.from] = "none"
    /\ \E i \in Ids : OwnId(r.from, i) /\ r.request = Request(r.from, i)
    /\ \A s \in received : s.from = r.from => s = r

\* The messages on their way from the server to run.
Held == IF exchange.side THEN Range(exchange.buffer) ELSE {}
InFlight ==
  Range(inbox) \cup parsing \cup Held
  \cup (IF run.at = "logging" THEN {run.message} ELSE {})

RepliesOwned == \A m \in InFlight : Owned(m)

JsCallsInv ==
  /\ CallTypes /\ Buffers
  /\ CallStates /\ CallValues /\ ReceivedOnce /\ RepliesOwned
  /\ CallGetsOwnResult

\* A header that is set has its value; the others are as before.
LEMMA WithHeader ==
  ASSUME NEW m, NEW h, NEW k, NEW v, m.headers = With(h, k, v), NEW j
  PROVE  messageHeader(m, j) =
           IF j = k THEN v ELSE IF j \in DOMAIN h THEN h[j] ELSE None
BY DEF With, messageHeader

\* What createMessageBase makes of a caller's arguments: a type and a length, or nothing.
LEMMA BaseMessage ==
  ASSUME NEW c
  PROVE  createMessageBase(Arguments(c)) =
           IF page.callers[c].content
           THEN Message(With(With(<<>>, "Type", page.encoder), "Length", 1), marshal(page.encoder, c))
           ELSE Message(<<>>, EmptyBlob)
<1>1. CASE ~page.callers[c].content
  <2>1. Arguments(c) = <<>>
    BY <1>1 DEF Arguments
  <2> QED
    BY <1>1, <2>1 DEF createMessageBase
<1>2. CASE page.callers[c].content
  <2> DEFINE t == [is |-> "ContentType", name |-> page.encoder]
             b == marshal(page.encoder, c)
  <2>1. t.is = "ContentType" /\ t.name = page.encoder
    OBVIOUS
  <2>2. b.format \in {"json", "bytes"}
    BY DEF marshal
  <2> HIDE DEF t, b
  <2>3. Arguments(c) = <<t, c>>
    BY <1>2 DEF Arguments, t
  <2>4. <<t, c>> # <<>> /\ Head(<<t, c>>) = t /\ Tail(<<t, c>>) = <<c>> /\ <<c>> # <<>> /\ Head(<<c>>) = c
    OBVIOUS
  <2>5. isContentType(t) /\ ~isHeaders(t) /\ t.is # "Blob"
    BY <2>1 DEF isContentType, isObj, isHeaders, OwnTypes
  <2>6. createMessageBase(<<t, c>>) = WithContent(<<>>, page.encoder, <<c>>)
    BY <2>1, <2>4, <2>5, Zenon DEF createMessageBase
  <2>7. size(b) = 1
    BY <2>2 DEF size
  <2>8. WithContent(<<>>, page.encoder, <<c>>) = Message(With(With(<<>>, "Type", page.encoder), "Length", 1), b)
    BY <2>4, <2>7, Zenon DEF WithContent, b
  <2> QED
    BY <1>2, <2>3, <2>6, <2>8, Zenon DEF b
<1> QED
  BY <1>1, <1>2, SMTT(30)

\* A request carries the ID that was drawn for it, and the caller's content.
LEMMA RequestHeaders ==
  ASSUME NEW c, NEW i
  PROVE  /\ messageID(Request(c, i)) = i
         /\ messageHeader(Request(c, i), "Type") = IF page.callers[c].content THEN page.encoder ELSE None
         /\ Request(c, i).body = IF page.callers[c].content THEN marshal(page.encoder, c) ELSE EmptyBlob
<1> DEFINE content == page.callers[c].content
           h0 == IF content THEN With(With(<<>>, "Type", page.encoder), "Length", 1) ELSE <<>>
           b0 == IF content THEN marshal(page.encoder, c) ELSE EmptyBlob
           h1 == With(h0, "ID", i)
           h2 == With(h1, "Class", "call")
<1>1. createMessageBase(Arguments(c)) = Message(h0, b0)
  BY BaseMessage, Zenon
<1>2. ("Type" \in DOMAIN h0 <=> content) /\ (content => h0["Type"] = page.encoder)
  <2>1. CASE content
    BY <2>1 DEF With
  <2>2. CASE ~content
    BY <2>2
  <2> QED
    BY <2>1, <2>2, SMTT(30)
<1> HIDE DEF h0, b0
<1>4. /\ DOMAIN h1 = DOMAIN h0 \cup {"ID"} /\ h1["ID"] = i
      /\ \A j \in DOMAIN h0 : j # "ID" => h1[j] = h0[j]
  BY DEF With
<1>5. [Message(h0, b0) EXCEPT !.headers = With(Message(h0, b0).headers, "ID", i)] = Message(h1, b0)
  BY DEF Message
<1> HIDE DEF h1
<1>6. [Message(h1, b0) EXCEPT !.headers = With(Message(h1, b0).headers, "Class", "call")] = Message(h2, b0)
  BY DEF Message
<1>7. createRpcMessageBase(Arguments(c), i) = Message(h1, b0)
  BY <1>1, <1>5, Zenon DEF createRpcMessageBase
<1>8. Request(c, i) = Message(h2, b0)
  BY <1>6, <1>7, Zenon DEF Request, createRpcRequestMessage
<1>9. Request(c, i).headers = With(h1, "Class", "call") /\ Request(c, i).body = b0
  BY <1>8 DEF Message
<1> HIDE DEF h2
<1>10. \A j : messageHeader(Request(c, i), j) = IF j = "Class" THEN "call" ELSE IF j \in DOMAIN h1 THEN h1[j] ELSE None
  BY <1>9, WithHeader, Zenon
<1>11. messageID(Request(c, i)) = i
  <2>1. "ID" # "Class" /\ "ID" \in DOMAIN h1
    BY <1>4
  <2> QED
    BY <1>4, <1>10, <2>1, Zenon DEF messageID
<1>12. messageHeader(Request(c, i), "Type") = IF content THEN page.encoder ELSE None
  <2>1. "Type" # "Class" /\ "Type" # "ID"
    OBVIOUS
  <2>2. "Type" \in DOMAIN h1 <=> content
    BY <1>2, <1>4, <2>1, Zenon
  <2>3. content => h1["Type"] = page.encoder
    BY <1>2, <1>4, <2>1, Zenon
  <2> QED
    BY <1>10, <2>1, <2>2, <2>3, Zenon
<1> QED
  BY <1>9, <1>11, <1>12 DEF b0

\* The five replies, by what their headers hold.
LEMMA ReplyHeaders ==
  ASSUME NEW kind \in Kinds, NEW q
  PROVE  /\ Reply(kind, q).is = "Message"
         /\ "ID" \in DOMAIN Reply(kind, q).headers
         /\ messageID(Reply(kind, q)) = messageID(q)
         /\ messageError(Reply(kind, q)) =
              IF kind = "error" THEN "failed" ELSE IF kind = "blank" THEN "" ELSE None
         /\ messageHeader(Reply(kind, q), "Type") =
              IF kind = "echo" /\ hasType(q) THEN q.headers["Type"]
              ELSE IF kind = "empty" THEN "" ELSE IF kind = "garbage" THEN ContentTypes.json ELSE None
         /\ Reply(kind, q).body = IF kind = "echo" THEN q.body ELSE EmptyBlob
<1> DEFINE id == [ID |-> messageID(q)]
<1>1. DOMAIN id = {"ID"} /\ id["ID"] = messageID(q)
  OBVIOUS
<1> HIDE DEF id
<1>2. ASSUME NEW h, NEW b
      PROVE  LET m == Message(h, b)
             IN  m.is = "Message" /\ m.headers = h /\ m.body = b
  BY DEF Message
<1>3. CASE kind = "echo" /\ hasType(q)
  <2> DEFINE h == With(id, "Type", q.headers["Type"])
  <2>1. DOMAIN h = {"ID", "Type"} /\ h["ID"] = messageID(q) /\ h["Type"] = q.headers["Type"]
    BY <1>1 DEF With
  <2>2. Reply(kind, q) = Message(h, q.body)
    BY <1>3, SMTT(30) DEF Reply, id
  <2> HIDE DEF h
  <2>3. /\ Reply(kind, q).is = "Message" /\ Reply(kind, q).body = q.body
        /\ Reply(kind, q).headers = h
    BY <1>2, <2>2
  <2>4. /\ messageID(Reply(kind, q)) = messageID(q) /\ messageError(Reply(kind, q)) = None
        /\ messageHeader(Reply(kind, q), "Type") = q.headers["Type"]
    BY <2>1, <2>3, Zenon DEF messageID, messageError, messageHeader
  <2>5. "ID" \in DOMAIN Reply(kind, q).headers
    BY <2>1, <2>3, Zenon
  <2> QED
    BY <1>3, <2>3, <2>4, <2>5, Zenon
<1>4. CASE kind = "echo" /\ ~hasType(q)
  <2>1. Reply(kind, q) = Message(id, q.body)
    BY <1>4 DEF Reply, id
  <2> QED
    BY <1>1, <1>2, <1>4, <2>1 DEF messageID, messageError, messageHeader
<1>5. CASE kind = "error"
  <2> DEFINE h == With(id, "Error", "failed")
  <2>1. DOMAIN h = {"ID", "Error"} /\ h["ID"] = messageID(q) /\ h["Error"] = "failed"
    BY <1>1 DEF With
  <2>2. Reply(kind, q) = Message(h, EmptyBlob)
    BY <1>5 DEF Reply, id
  <2> HIDE DEF h
  <2>3. /\ Reply(kind, q).is = "Message" /\ Reply(kind, q).body = EmptyBlob
        /\ Reply(kind, q).headers = h
    BY <1>2, <2>2
  <2>4. /\ messageID(Reply(kind, q)) = messageID(q) /\ messageError(Reply(kind, q)) = "failed"
        /\ messageHeader(Reply(kind, q), "Type") = None
    BY <2>1, <2>3, Zenon DEF messageID, messageError, messageHeader
  <2>5. "ID" \in DOMAIN Reply(kind, q).headers
    BY <2>1, <2>3, Zenon
  <2> QED
    BY <1>5, <2>3, <2>4, <2>5, Zenon
<1>6. CASE kind = "blank"
  <2> DEFINE h == With(id, "Error", "")
  <2>1. DOMAIN h = {"ID", "Error"} /\ h["ID"] = messageID(q) /\ h["Error"] = ""
    BY <1>1 DEF With
  <2>2. Reply(kind, q) = Message(h, EmptyBlob)
    BY <1>6 DEF Reply, id
  <2> HIDE DEF h
  <2>3. /\ Reply(kind, q).is = "Message" /\ Reply(kind, q).body = EmptyBlob
        /\ Reply(kind, q).headers = h
    BY <1>2, <2>2
  <2>4. /\ messageID(Reply(kind, q)) = messageID(q) /\ messageError(Reply(kind, q)) = ""
        /\ messageHeader(Reply(kind, q), "Type") = None
    BY <2>1, <2>3, Zenon DEF messageID, messageError, messageHeader
  <2>5. "ID" \in DOMAIN Reply(kind, q).headers
    BY <2>1, <2>3, Zenon
  <2> QED
    BY <1>6, <2>3, <2>4, <2>5, Zenon
<1>7. CASE kind = "empty"
  <2> DEFINE h == With(id, "Type", "")
  <2>1. DOMAIN h = {"ID", "Type"} /\ h["ID"] = messageID(q) /\ h["Type"] = ""
    BY <1>1 DEF With
  <2>2. Reply(kind, q) = Message(h, EmptyBlob)
    BY <1>7 DEF Reply, id
  <2> HIDE DEF h
  <2>3. /\ Reply(kind, q).is = "Message" /\ Reply(kind, q).body = EmptyBlob
        /\ Reply(kind, q).headers = h
    BY <1>2, <2>2
  <2>4. /\ messageID(Reply(kind, q)) = messageID(q) /\ messageError(Reply(kind, q)) = None
        /\ messageHeader(Reply(kind, q), "Type") = ""
    BY <2>1, <2>3, Zenon DEF messageID, messageError, messageHeader
  <2>5. "ID" \in DOMAIN Reply(kind, q).headers
    BY <2>1, <2>3, Zenon
  <2> QED
    BY <1>7, <2>3, <2>4, <2>5, Zenon
<1>8. CASE kind = "garbage"
  <2> DEFINE h == With(id, "Type", ContentTypes.json)
  <2>1. DOMAIN h = {"ID", "Type"} /\ h["ID"] = messageID(q) /\ h["Type"] = ContentTypes.json
    BY <1>1 DEF With
  <2>2. Reply(kind, q) = Message(h, EmptyBlob)
    BY <1>8 DEF Reply, id
  <2> HIDE DEF h
  <2>3. /\ Reply(kind, q).is = "Message" /\ Reply(kind, q).body = EmptyBlob
        /\ Reply(kind, q).headers = h
    BY <1>2, <2>2
  <2>4. /\ messageID(Reply(kind, q)) = messageID(q) /\ messageError(Reply(kind, q)) = None
        /\ messageHeader(Reply(kind, q), "Type") = ContentTypes.json
    BY <2>1, <2>3, Zenon DEF messageID, messageError, messageHeader
  <2>5. "ID" \in DOMAIN Reply(kind, q).headers
    BY <2>1, <2>3, Zenon
  <2> QED
    BY <1>8, <2>3, <2>4, <2>5, Zenon
<1> QED
  BY <1>3, <1>4, <1>5, <1>6, <1>7, <1>8, Zenon DEF Kinds

\* What a call is to get depends on the page and the reply to it alone.
LEMMA SameResult ==
  ASSUME NEW c, UNCHANGED page, replied'[c] = replied[c]
  PROVE  OwnResult(c)' = OwnResult(c)
BY DEF OwnResult, Echoed

\* What a settled call has got stays what it was to get.
LEMMA ResultsKept ==
  ASSUME CallGetsOwnResult, UNCHANGED page,
         \A c \in Callers : call'[c].at = "settled" =>
           /\ call[c].at = "settled" /\ call'[c].result = call[c].result
           /\ replied'[c] = replied[c]
  PROVE  CallGetsOwnResult'
BY SameResult, Zenon DEF CallGetsOwnResult

\* What a call makes of each reply to its own request.
LEMMA ReplyResult ==
  ASSUME page \in Pages, NEW kind \in Kinds, NEW c, NEW i
  PROVE  Result(Reply(kind, Request(c, i))) =
           IF kind \in {"echo", "empty"} THEN Value(Echoed(c, kind)) ELSE Thrown
<1> DEFINE q == Request(c, i)
           m == Reply(kind, q)
           json == ContentTypes.json
           binary == ContentTypes.binary
<1>1. /\ messageHeader(q, "Type") = IF page.callers[c].content THEN page.encoder ELSE None
      /\ q.body = IF page.callers[c].content THEN marshal(page.encoder, c) ELSE EmptyBlob
  BY RequestHeaders
<1>2. /\ messageError(m) = IF kind = "error" THEN "failed" ELSE IF kind = "blank" THEN "" ELSE None
      /\ messageHeader(m, "Type") =
           IF kind = "echo" /\ hasType(q) THEN q.headers["Type"]
           ELSE IF kind = "empty" THEN "" ELSE IF kind = "garbage" THEN json ELSE None
      /\ m.body = IF kind = "echo" THEN q.body ELSE EmptyBlob
  BY ReplyHeaders, Zenon
<1>3. /\ json = "application/json" /\ binary = "application/octet-stream"
      /\ None \notin {"", "failed", json, binary} /\ page.encoder \in {json, binary}
  BY ClientConstants, Zenon DEF ContentTypes
<1>4. hasType(q) <=> page.callers[c].content
  BY <1>1, <1>3, Zenon DEF hasType
<1>5. hasType(q) => q.headers["Type"] = page.encoder
  BY <1>1, <1>4, Zenon DEF hasType, messageHeader
<1> HIDE DEF q, m, json, binary
<1>6. CASE kind \in {"error", "blank"}
  BY <1>2, <1>3, <1>6, Zenon DEF Result, m, q
<1>7. CASE kind = "empty"
  BY <1>2, <1>3, <1>7, Zenon DEF Result, hasType, Echoed, m, q
<1>8. CASE kind = "garbage"
  <2>1. messageError(m) = None /\ messageHeader(m, "Type") = json /\ m.body = EmptyBlob
    BY <1>2, <1>8
  <2>2. hasType(m)
    BY <1>3, <2>1, ZenonT(30) DEF hasType
  <2>3. decode(m) = unmarshal(json, EmptyBlob)
    BY <2>1 DEF decode, createDecoder, json, binary
  <2>4. unmarshal(json, EmptyBlob) = Thrown
    <3>1. EmptyBlob.format = "none"
      BY DEF EmptyBlob
    <3> QED
      BY <1>3, <3>1, Zenon DEF unmarshal, json, binary
  <2> QED
    BY <1>8, <2>1, <2>2, <2>3, <2>4, SMTT(20) DEF Result, m, q
<1>9. CASE kind = "echo" /\ ~page.callers[c].content
  <2>1. messageError(m) = None /\ messageHeader(m, "Type") = None
    BY <1>2, <1>4, <1>9
  <2>2. ~hasType(m)
    BY <2>1, ZenonT(30) DEF hasType
  <2>3. Echoed(c, kind) = None
    BY <1>9, SMTT(30) DEF Echoed
  <2> QED
    BY <1>9, <2>1, <2>2, <2>3, SMTT(20) DEF Result, m, q
<1>10. CASE kind = "echo" /\ page.callers[c].content
  <2>1. messageError(m) = None /\ messageHeader(m, "Type") = page.encoder /\ m.body = marshal(page.encoder, c)
    BY <1>1, <1>2, <1>4, <1>5, <1>10, SMTT(30)
  <2>2. hasType(m)
    BY <1>3, <2>1, ZenonT(30) DEF hasType
  <2>3. decode(m) = unmarshal(page.encoder, marshal(page.encoder, c))
    BY <1>3, <2>1, ZenonT(30) DEF decode, createDecoder, json, binary
  <2>4. unmarshal(page.encoder, marshal(page.encoder, c)) = Value(Echoed(c, kind))
    <3>1. CASE page.encoder = json
      <4>1. marshal(json, c).format = "json" /\ marshal(json, c).of = c
        BY DEF marshal, json
      <4> QED
        BY <1>3, <1>10, <3>1, <4>1, Zenon DEF unmarshal, Echoed, json, binary
    <3>2. CASE page.encoder = binary
      BY <1>3, <1>10, <3>2, Zenon DEF unmarshal, Echoed, json, binary
    <3> QED
      BY <1>3, <3>1, <3>2, Zenon
  <2> QED
    BY <1>10, <2>1, <2>2, <2>3, <2>4, SMTT(20) DEF Result, m, q
<1> QED
  BY <1>6, <1>7, <1>8, <1>9, <1>10, SMTT(30) DEF Kinds

\* A request is made of what the page says of its caller, which does not change.
LEMMA SameRequest ==
  ASSUME page' = page, NEW c, NEW i
  PROVE  Request(c, i)' = Request(c, i)
BY DEF Request, Arguments

\* A reply that is somebody's remains so while the IDs and the replies do.
LEMMA OwnedKept ==
  ASSUME NEW m, Owned(m), page' = page,
         \A c \in Callers, i \in Ids : OwnId(c, i) => OwnId(c, i)',
         \A c \in Callers : replied[c] \in Kinds => replied'[c] = replied[c]
  PROVE  Owned(m)'
<1> SUFFICES ASSUME isRpcMessage(m)
             PROVE  \E c \in Callers, i \in Ids : OwnId(c, i)' /\ replied'[c] \in Kinds
                      /\ m = Reply(replied'[c], Request(c, i)')
  BY SMTT(20) DEF Owned
<1>1. PICK c \in Callers, i \in Ids :
        OwnId(c, i) /\ replied[c] \in Kinds /\ m = Reply(replied[c], Request(c, i))
  BY DEF Owned
<1> QED
  BY <1>1, SameRequest, Zenon

\* A step that leaves the calls and the replies alone.
LEMMA QuietCalls ==
  ASSUME JsCallsInv, UNCHANGED <<page, call, write, nextId, calls, replied>>,
         received' \subseteq received, RepliesOwned', Buffers'
  PROVE  JsCallsInv'
<1> USE DEF JsCallsInv
<1>1. \A c \in Callers, i \in Ids : Request(c, i)' = Request(c, i) /\ (OwnId(c, i)' <=> OwnId(c, i))
  BY SameRequest, SMTT(30) DEF OwnId
<1>2. CallTypes'
  BY SMTT(30) DEF CallTypes, Unencoded
<1>3. CallStates'
  BY DEF CallStates, Unencoded
<1>4. CallValues'
  BY <1>1, Zenon DEF CallValues
<1>5. ReceivedOnce'
  BY <1>1 DEF ReceivedOnce
<1>6. CallGetsOwnResult'
  BY ResultsKept, Zenon
<1> QED
  BY <1>2, <1>3, <1>4, <1>5, <1>6, SMTT(30)

\* Whose a reply is depends on the calls and the replies alone.
LEMMA OwnedSame ==
  ASSUME UNCHANGED <<page, nextId, calls, replied>>, NEW m, Owned(m)
  PROVE  Owned(m)'
BY OwnedKept, SMTT(30) DEF OwnId

\* What is on the connection may be lost, and run may end.
LEMMA QuietMessages ==
  ASSUME RepliesOwned, Buffers, UNCHANGED <<page, nextId, calls, replied, parsing, exchange>>,
         inbox' = inbox \/ inbox' = <<>>,
         run' = run \/ run'.at # "logging"
  PROVE  RepliesOwned' /\ Buffers'
<1>1. InFlight' \subseteq InFlight
  <2>1. Range(inbox') \subseteq Range(inbox)
    <3>1. CASE inbox' = <<>>
      BY <3>1 DEF Range
    <3> QED
      BY <3>1
  <2> QED
    BY <2>1 DEF InFlight, Held
<1>2. RepliesOwned'
  BY <1>1, OwnedSame, SMTT(30) DEF RepliesOwned
<1>3. PICK S : inbox \in Seq(S) /\ exchange \in [side : BOOLEAN, buffer : Seq(S)]
  BY DEF Buffers
<1>4. <<>> \in Seq(S)
  OBVIOUS
<1>5. inbox' \in Seq(S) /\ exchange' \in [side : BOOLEAN, buffer : Seq(S)]
  BY <1>3, <1>4, Zenon
<1> QED
  BY <1>2, <1>5, SMTT(30) DEF Buffers

\* A step of a write: the request may be sent.
WriteGoesOn(c, w) ==
  /\ write[c].at \in {"logging", "blob", "await"} /\ w.at # "none"
  /\ write' = [write EXCEPT ![c] = w]
  /\ \/ received' = received
     \/ w.at = "sent" /\ received' = received \cup {[from |-> c, request |-> call[c].request]}
  /\ UNCHANGED <<page, call, nextId, calls, replied, parsing, exchange, inbox, run>>

\* A request that is sent is new to the server.
LEMMA WriteKeepsInv ==
  ASSUME JsCallsInv, NEW c \in Callers, NEW w, WriteGoesOn(c, w)
  PROVE  JsCallsInv'
<1> USE DEF WriteGoesOn
<1> USE DEF JsCallsInv
<1>1. \A d \in Callers, i \in Ids : Request(d, i)' = Request(d, i) /\ (OwnId(d, i)' <=> OwnId(d, i))
  BY SameRequest, SMTT(30) DEF OwnId
<1>2. \A d \in Callers : write'[d] = IF d = c THEN w ELSE write[d]
  BY DEF CallTypes
<1>3. c \notin Unencoded /\ replied[c] = "none" /\ (\A r \in received : r.from # c) /\ call[c].at = "waiting"
  BY Zenon DEF CallStates, Unencoded
<1>4. CallTypes'
  BY DEF CallTypes, Unencoded
<1>5. Unencoded' = Unencoded
  BY Zenon DEF Unencoded
<1>6. \A r \in received' : r \in received \/ (w.at = "sent" /\ r.from = c /\ r.request = call[c].request)
  <2>1. PICK x : x.from = c /\ x.request = call[c].request /\ x = [from |-> c, request |-> call[c].request]
    BY Zenon
  <2>2. received' = received \/ (w.at = "sent" /\ received' = received \cup {x})
    BY <2>1, Zenon
  <2> QED
    BY <2>1, <2>2, Zenon
<1>7. CallStates'
  <2>1. CallStates /\ w.at # "none" /\ call' = call /\ replied' = replied
    BY Zenon
  <2> HIDE DEF WriteGoesOn, JsCallsInv
  <2> SUFFICES ASSUME NEW d \in Callers
               PROVE  /\ call[d].at \in {"none", "encoding", "waiting", "resolved", "settled"}
                      /\ d \in Unencoded => write'[d].at = "none"
                      /\ write'[d].at # "sent" => replied[d] = "none" /\ \A r \in received' : r.from # d
                      /\ call[d].at \in {"resolved", "settled"} => replied[d] # "none"
    BY <1>5, <2>1, Zenon DEF CallStates
  <2>2. /\ call[d].at \in {"none", "encoding", "waiting", "resolved", "settled"}
        /\ d \in Unencoded => write[d].at = "none"
        /\ write[d].at # "sent" => replied[d] = "none" /\ \A r \in received : r.from # d
        /\ call[d].at \in {"resolved", "settled"} => replied[d] # "none"
    BY <2>1, Zenon DEF CallStates
  <2>3. CASE d = c
    <3>1. write'[c] = w
      BY <1>2, Zenon
    <3>2. w.at # "sent" => \A r \in received' : r.from # c
      BY <1>3, <1>6, Zenon
    <3> QED
      BY <1>3, <2>1, <2>2, <2>3, <3>1, <3>2, Zenon
  <2>4. CASE d # c
    <3>1. write'[d] = write[d]
      BY <1>2, <2>4, Zenon
    <3>2. \A r \in received' : r.from = d => r \in received
      BY <1>6, <2>4, Zenon
    <3> QED
      BY <2>2, <3>1, <3>2, Zenon
  <2> QED
    BY <2>3, <2>4, Zenon
<1>8. CallValues'
  BY <1>1, Zenon DEF CallValues
<1>9. ReceivedOnce'
  <2>1. PICK i \in Ids : OwnId(c, i) /\ call[c].request = Request(c, i)
    BY <1>3, Zenon DEF CallValues
  <2>2. ASSUME NEW r \in received'
        PROVE  /\ r.from \in Callers /\ replied[r.from] = "none"
               /\ \E j \in Ids : OwnId(r.from, j) /\ r.request = Request(r.from, j)
    BY <1>3, <1>6, <2>1, <2>2, Zenon DEF ReceivedOnce
  <2>3. ASSUME NEW r \in received', NEW s \in received', s.from = r.from PROVE s = r
    <3>1. CASE r \in received /\ s \in received
      BY <2>3, <3>1, Zenon DEF ReceivedOnce
    <3>2. CASE r \notin received \/ s \notin received
      <4>1. r \notin received => r.from = c
        BY <1>6, <2>3, Zenon
      <4>2. s \notin received => s.from = c
        BY <1>6, <2>3, Zenon
      <4>3. r \notin received /\ s \notin received
        BY <1>3, <2>3, <3>2, <4>1, <4>2, Zenon
      <4>4. PICK x : \A t \in received' : t \in received \/ t = x
        BY Zenon
      <4> QED
        BY <2>3, <4>3, <4>4, Zenon
    <3> QED
      BY <3>1, <3>2, Zenon
  <2> QED
    BY <1>1, <2>2, <2>3, Zenon DEF ReceivedOnce
<1>10. RepliesOwned' /\ Buffers'
  BY QuietMessages, Zenon
<1>11. CallGetsOwnResult'
  BY ResultsKept, Zenon
<1> QED
  BY <1>4, <1>7, <1>8, <1>9, <1>10, <1>11, SMTT(30)

\* The steps of a write.
LEMMA WritingKeepsInv ==
  ASSUME JsCallsInv, NEW c \in Callers, WriteLogged(c) \/ PlainSend(c) \/ Send(c) \/ SendResumes(c)
  PROVE  JsCallsInv'
<1>1. UNCHANGED <<page, call, nextId, calls, replied, parsing, exchange, inbox, run>>
  BY Zenon DEF WriteLogged, PlainSend, Send, SendResumes, socketVars, readVars, serverVars
<1>2. write[c].at \in {"logging", "blob", "await"}
  BY Zenon DEF WriteLogged, PlainSend, Send, SendResumes
<1>3. \E w : /\ w.at # "none" /\ write' = [write EXCEPT ![c] = w]
             /\ \/ received' = received
                \/ w.at = "sent" /\ received' = received \cup {[from |-> c, request |-> call[c].request]}
  <2>1. CASE WriteLogged(c)
    <3>1. write' = [write EXCEPT ![c] = [at |-> "blob"]] /\ received' = received
      BY <2>1 DEF WriteLogged, WriteBlob, serverVars
    <3>2. [at |-> "blob"].at # "none"
      OBVIOUS
    <3> QED
      BY <3>1, <3>2, Zenon
  <2>2. CASE PlainSend(c)
    <3>1. CASE write' = [write EXCEPT ![c] = [at |-> "refused"]] /\ received' = received
      <4>1. [at |-> "refused"].at # "none"
        OBVIOUS
      <4> QED
        BY <3>1, <4>1, Zenon
    <3>2. CASE write' = [write EXCEPT ![c] = [at |-> "sent"]] /\ Sent(c, ws = "open")
      <4>1. [at |-> "sent"].at # "none" /\ [at |-> "sent"].at = "sent"
        OBVIOUS
      <4>2. received' = received \/ received' = received \cup {[from |-> c, request |-> call[c].request]}
        BY <3>2, Zenon DEF Sent
      <4> QED
        BY <3>2, <4>1, <4>2, Zenon
    <3> QED
      BY <2>2, <3>1, <3>2, Zenon DEF PlainSend
  <2>3. CASE Send(c)
    <3> DEFINE w == IF readyState = "CLOSED" THEN [at |-> "refused"]
                    ELSE [at |-> "await", promise |-> Len(promises)]
    <3>1. write' = [write EXCEPT ![c] = w] /\ received' = received
      BY <2>3, Zenon DEF Send, serverVars
    <3>2. w.at # "none"
      OBVIOUS
    <3> QED
      BY <3>1, <3>2, Zenon
  <2>4. CASE SendResumes(c)
    <3>1. PICK promise : 
            /\ write' = [write EXCEPT ![c] = [at |-> IF promise = Rejected THEN "refused" ELSE "sent"]]
            /\ IF promise = Rejected THEN UNCHANGED <<received, lost>>
               ELSE Sent(c, promise = Resolved(sockets) /\ ws = "open")
      BY <2>4, Zenon DEF SendResumes
    <3> DEFINE w == [at |-> IF promise = Rejected THEN "refused" ELSE "sent"]
    <3>2. w.at # "none" /\ (promise # Rejected => w.at = "sent")
      OBVIOUS
    <3>3. \/ received' = received
          \/ promise # Rejected /\ received' = received \cup {[from |-> c, request |-> call[c].request]}
      BY <3>1, Zenon DEF Sent
    <3> QED
      BY <3>1, <3>2, <3>3, Zenon
  <2> QED
    BY <2>1, <2>2, <2>3, <2>4
<1>4. \E w : WriteGoesOn(c, w)
  BY <1>1, <1>2, <1>3, Zenon DEF WriteGoesOn
<1> QED
  BY <1>4, WriteKeepsInv, Zenon

\* A caller calls, or a call settles: the same calls are out.
LEMMA CallMovesKeepsInv ==
  ASSUME JsCallsInv, NEW c \in Callers, NEW k,
         call' = [call EXCEPT ![c] = k],
         UNCHANGED <<page, write, nextId, calls, replied, received, parsing, exchange, inbox, run>>,
         \/ call[c].at = "none" /\ k.at = "encoding"
         \/ call[c].at = "resolved" /\ k.at = "settled",
         CallGetsOwnResult'
  PROVE  JsCallsInv'
<1> USE DEF JsCallsInv
<1>1. \A d \in Callers, i \in Ids : Request(d, i)' = Request(d, i) /\ (OwnId(d, i)' <=> OwnId(d, i))
  BY SameRequest DEF OwnId
<1>2. \A d \in Callers : call'[d] = IF d = c THEN k ELSE call[d]
  BY DEF CallTypes
<1>3. Unencoded' = Unencoded
  BY <1>2, SMTT(30) DEF Unencoded
<1>4. CallTypes'
  BY <1>3, SMTT(30) DEF CallTypes
<1>5. CallStates'
  <2> SUFFICES ASSUME NEW d \in Callers
               PROVE  /\ call'[d].at \in {"none", "encoding", "waiting", "resolved", "settled"}
                      /\ d \in Unencoded => write[d].at = "none"
                      /\ write[d].at # "sent" => replied[d] = "none" /\ \A r \in received : r.from # d
                      /\ call'[d].at \in {"resolved", "settled"} => replied[d] # "none"
    BY <1>3, Zenon DEF CallStates
  <2> QED
    BY <1>2 DEF CallStates
<1>6. CallValues'
  <2> SUFFICES ASSUME NEW d \in Callers
               PROVE  /\ call'[d].at = "waiting" =>
                           \E i \in Ids : OwnId(d, i)' /\ call'[d].request = Request(d, i)'
                      /\ call'[d].at = "resolved" =>
                           \E i \in Ids : call'[d].response = Reply(replied'[d], Request(d, i)')
    BY Zenon DEF CallValues
  <2>1. CASE d = c
    BY <1>2, <2>1, ZenonT(30)
  <2>2. CASE d # c
    <3>1. call'[d] = call[d]
      BY <1>2, <2>2
    <3>2. /\ call[d].at = "waiting" => \E i \in Ids : OwnId(d, i) /\ call[d].request = Request(d, i)
          /\ call[d].at = "resolved" => \E i \in Ids : call[d].response = Reply(replied[d], Request(d, i))
      BY Zenon DEF CallValues
    <3>3. ASSUME call[d].at = "waiting"
          PROVE  \E i \in Ids : OwnId(d, i)' /\ call[d].request = Request(d, i)'
      BY <1>1, <3>2, <3>3, Zenon
    <3>4. ASSUME call[d].at = "resolved"
          PROVE  \E i \in Ids : call[d].response = Reply(replied'[d], Request(d, i)')
      BY <1>1, <3>2, <3>4, Zenon
    <3> QED
      BY <3>1, <3>3, <3>4, Zenon
  <2> QED
    BY <2>1, <2>2, Zenon
<1>7. ReceivedOnce'
  BY <1>1, Zenon DEF ReceivedOnce
<1>8. RepliesOwned' /\ Buffers'
  BY QuietMessages
<1> QED
  BY <1>4, <1>5, <1>6, <1>7, <1>8, SMTT(30)

\* A caller starts to encode its request.
LEMMA CallKeepsInv ==
  ASSUME JsCallsInv, NEW c \in Callers, Call(c)
  PROVE  JsCallsInv'
<1> DEFINE k == [at |-> "encoding"]
<1>1. k.at = "encoding"
  BY SMTT(30)
<1>2. /\ call' = [call EXCEPT ![c] = k] /\ call[c].at = "none"
      /\ UNCHANGED <<page, write, nextId, calls, replied, received, parsing, exchange, inbox, run>>
  BY DEF Call, socketVars, readVars, serverVars
<1> HIDE DEF k
<1>3. \A d \in Callers : call'[d] = IF d = c THEN k ELSE call[d]
  BY <1>2 DEF JsCallsInv, CallTypes
<1>4. CallGetsOwnResult'
  <2>1. \A d \in Callers : call'[d].at = "settled" => call'[d] = call[d]
    BY <1>1, <1>3
  <2> QED
    BY <1>2, <2>1, ResultsKept, Zenon DEF JsCallsInv
<1> QED
  BY <1>1, <1>2, <1>4, CallMovesKeepsInv, Zenon

\* The response is the reply to this call, and is made a result of.
LEMMA CallResumesKeepsInv ==
  ASSUME JsCallsInv, NEW c \in Callers, CallResumes(c)
  PROVE  JsCallsInv'
<1> DEFINE result == Guarded(c, Result(call[c].response))
           k == [at |-> "settled", result |-> result]
<1>1. k.at = "settled" /\ k.result = result
  BY SMTT(30)
<1>2. /\ call' = [call EXCEPT ![c] = k] /\ call[c].at = "resolved"
      /\ UNCHANGED <<page, write, nextId, calls, replied, received, parsing, exchange, inbox, run>>
  BY SMTT(30) DEF CallResumes, socketVars, readVars, serverVars
<1>3. result = OwnResult(c)
  <2>1. PICK i \in Ids : call[c].response = Reply(replied[c], Request(c, i))
    BY <1>2, Zenon DEF JsCallsInv, CallValues
  <2>2. replied[c] \in Kinds /\ page \in Pages
    BY <1>2, Zenon DEF JsCallsInv, CallStates, CallTypes
  <2>3. Result(call[c].response) =
          IF replied[c] \in {"echo", "empty"} THEN Value(Echoed(c, replied[c])) ELSE Thrown
    BY <2>1, <2>2, ReplyResult, Zenon
  <2>4. /\ \A v : Value(v).is = "value" /\ Value(v).of = v
        /\ Thrown.is # "value"
    BY DEF Value, Thrown
  <2>5. PICK v : v = Echoed(c, replied[c])
    BY SMTT(30)
  <2>6. CASE replied[c] \in {"echo", "empty"}
    BY <2>3, <2>4, <2>5, <2>6 DEF Guarded, OwnResult
  <2>7. CASE replied[c] \notin {"echo", "empty"}
    BY <2>3, <2>4, <2>7, Zenon DEF Guarded, OwnResult
  <2> QED
    BY <2>6, <2>7
<1> HIDE DEF k, result
<1>4. \A d \in Callers : call'[d] = IF d = c THEN k ELSE call[d]
  BY <1>2, SMTT(30) DEF JsCallsInv, CallTypes
<1>5. CallGetsOwnResult'
  <2> SUFFICES ASSUME NEW d \in Callers, call'[d].at = "settled"
               PROVE  call'[d].result = OwnResult(d)
    BY <1>2, SameResult, Zenon DEF CallGetsOwnResult
  <2>1. CASE d = c
    BY <1>1, <1>3, <1>4, <2>1
  <2>2. CASE d # c
    BY <1>4, <2>2, Zenon DEF JsCallsInv, CallGetsOwnResult
  <2> QED
    BY <2>1, <2>2
<1> QED
  BY <1>1, <1>2, <1>5, CallMovesKeepsInv, Zenon

\* The IDs that are out are those of the calls that are encoded: there is one left for
\* every caller that is not.
LEMMA IdLeft ==
  ASSUME JsCallsInv, NEW c \in Unencoded
  PROVE  /\ nextId + 1 \in Ids
         /\ nextId + 1 = Cardinality(Callers \ (Unencoded \ {c}))
<1> DEFINE E == Callers \ Unencoded
<1>1. IsFiniteSet(Callers) /\ E \subseteq Callers /\ c \in Callers /\ c \notin E
  BY ClientConstants, Zenon DEF Unencoded
<1>2. nextId = Cardinality(E) /\ nextId \in Nat
  BY DEF JsCallsInv, CallTypes
<1>3. E \cup {c} = Callers \ (Unencoded \ {c}) /\ E \cup {c} \subseteq Callers
  BY <1>1
<1> HIDE DEF E
<1>4. IsFiniteSet(E)
  BY <1>1, FS_Subset
<1>5. Cardinality(E \cup {c}) = nextId + 1
  BY <1>1, <1>2, <1>4, FS_AddElement, Zenon
<1>6. Cardinality(E \cup {c}) <= Cardinality(Callers) /\ Cardinality(Callers) \in Nat
  BY <1>1, <1>3, FS_Subset, FS_CardinalityType, SMTT(30)
<1> QED
  BY <1>2, <1>3, <1>5, <1>6 DEF Ids

\* A request is encoded with the next ID, which is nobody else's.
LEMMA EncodedKeepsInv ==
  ASSUME JsCallsInv, NEW c \in Callers, Encoded(c)
  PROVE  JsCallsInv'
<1> USE DEF JsCallsInv
<1>0. PICK id \in Nat : id = nextId + 1
  BY DEF CallTypes
<1> DEFINE k == [at |-> "waiting", request |-> Request(c, id)]
           w == IF page.logged THEN [at |-> "logging"] ELSE [at |-> "blob"]
<1>1. k.at = "waiting" /\ k.request = Request(c, id)
  OBVIOUS
<1>2. w.at \in {"logging", "blob"}
  OBVIOUS
<1>3. /\ call[c].at = "encoding" /\ nextId' = id /\ call' = [call EXCEPT ![c] = k]
      /\ calls' = [calls EXCEPT ![id] = c] /\ write' = [write EXCEPT ![c] = w]
      /\ UNCHANGED <<page, replied, received, parsing, exchange, inbox, run>>
  BY <1>0, Zenon DEF Encoded, Registered, Request, Written, WriteBlob, socketVars, readVars, serverVars
<1> HIDE DEF k, w
<1>4. c \in Unencoded
  BY <1>3 DEF Unencoded
<1>5. id \in Ids /\ id = Cardinality(Callers \ (Unencoded \ {c}))
  BY <1>0, <1>4, IdLeft, SMTT(30)
<1>6. nextId \in Nat /\ calls \in [Ids -> Callers \cup {None}]
  BY SMTT(30) DEF CallTypes
<1>7. \A d \in Callers : /\ call'[d] = IF d = c THEN k ELSE call[d]
                         /\ write'[d] = IF d = c THEN w ELSE write[d]
  BY <1>3 DEF CallTypes
<1>8. \A i \in Ids : calls'[i] = IF i = id THEN c ELSE calls[i]
  BY <1>3, <1>5, <1>6, SMTT(30)
<1>9. \A d \in Callers, i \in Ids : Request(d, i)' = Request(d, i) /\ (OwnId(d, i) => OwnId(d, i)')
  <2>1. \A d \in Callers, i \in Ids : OwnId(d, i) => OwnId(d, i)'
    BY <1>0, <1>3, <1>6, <1>8, SMTT(30) DEF OwnId
  <2> QED
    BY <1>3, <2>1, SameRequest, SMTT(30)
<1>10. OwnId(c, id)' /\ Request(c, id)' = Request(c, id)
  <2>1. calls'[id] = c
    BY <1>5, <1>8, Zenon
  <2>2. id \in 1 .. id
    BY <1>0, <1>6, SMTT(30)
  <2> QED
    BY <1>3, <1>5, <2>1, <2>2, SameRequest, SMTT(30) DEF OwnId
<1>11. Unencoded' = Unencoded \ {c}
  BY <1>1, <1>7, SMTT(30) DEF Unencoded
<1>12. CallTypes'
  <2>1. calls' \in [Ids -> Callers \cup {None}]
    BY <1>3, <1>6, ZenonT(30)
  <2>2. DOMAIN call' = Callers /\ DOMAIN write' = Callers
    BY <1>3 DEF CallTypes
  <2> QED
    BY <1>3, <1>5, <1>6, <1>11, <2>1, <2>2, SMTT(30) DEF CallTypes
<1>13. CallStates'
  <2> SUFFICES ASSUME NEW d \in Callers
               PROVE  /\ call'[d].at \in {"none", "encoding", "waiting", "resolved", "settled"}
                      /\ d \in Unencoded \ {c} => write'[d].at = "none"
                      /\ write'[d].at # "sent" => replied[d] = "none" /\ \A r \in received : r.from # d
                      /\ call'[d].at \in {"resolved", "settled"} => replied[d] # "none"
    BY <1>3, <1>11, Zenon DEF CallStates
  <2>1. CASE d = c
    BY <1>1, <1>2, <1>4, <1>7, <2>1, Zenon DEF CallStates
  <2>2. CASE d # c
    BY <1>7, <2>2, Zenon DEF CallStates
  <2> QED
    BY <2>1, <2>2, Zenon
<1>14. CallValues'
  <2> SUFFICES ASSUME NEW d \in Callers
               PROVE  /\ call'[d].at = "waiting" =>
                           \E i \in Ids : OwnId(d, i)' /\ call'[d].request = Request(d, i)'
                      /\ call'[d].at = "resolved" =>
                           \E i \in Ids : call'[d].response = Reply(replied[d], Request(d, i)')
    BY <1>3, Zenon DEF CallValues
  <2>1. CASE d = c
    BY <1>1, <1>5, <1>7, <1>10, <2>1, Zenon
  <2>2. CASE d # c
    BY <1>7, <1>9, <2>2, Zenon DEF CallValues
  <2> QED
    BY <2>1, <2>2, Zenon
<1>15. ReceivedOnce'
  BY <1>3, <1>9, Zenon DEF ReceivedOnce
<1>16. RepliesOwned' /\ Buffers'
  <2>1. \A m : Owned(m) => Owned(m)'
    BY <1>3, <1>9, OwnedKept, SMTT(30)
  <2>2. InFlight' = InFlight
    BY <1>3 DEF InFlight, Held
  <2> QED
    BY <1>3, <2>1, <2>2, Zenon DEF RepliesOwned, Buffers
<1>17. CallGetsOwnResult'
  <2>1. \A d \in Callers : call'[d].at = "settled" => call'[d] = call[d]
    BY <1>1, <1>7
  <2> QED
    BY <1>3, <2>1, ResultsKept, Zenon
<1> QED
  BY <1>12, <1>13, <1>14, <1>15, <1>16, <1>17, SMTT(30)

\* What is in a sequence that something was appended to.
LEMMA RangeOfAppend ==
  ASSUME NEW S, NEW s \in Seq(S), NEW m
  PROVE  Append(s, m) \in Seq(S \cup {m}) /\ Range(Append(s, m)) \subseteq Range(s) \cup {m}
<1>1. s \in Seq(S \cup {m}) /\ m \in S \cup {m} /\ Len(s) \in Nat /\ DOMAIN s = 1 .. Len(s)
  OBVIOUS
<1>2. Append(s, m) \in Seq(S \cup {m})
  BY <1>1
<1>3. /\ DOMAIN Append(s, m) = 1 .. Len(s) + 1
      /\ \A i \in 1 .. Len(s) + 1 : Append(s, m)[i] = IF i <= Len(s) THEN s[i] ELSE m
  BY <1>1
<1>4. \A i \in DOMAIN Append(s, m) : Append(s, m)[i] \in Range(s) \cup {m}
  BY <1>1, <1>3 DEF Range
<1> QED
  BY <1>2, <1>4, Zenon DEF Range

\* What is in a sequence whose head was taken.
LEMMA RangeOfTail ==
  ASSUME NEW S, NEW s \in Seq(S), s # <<>>
  PROVE  Tail(s) \in Seq(S) /\ Range(Tail(s)) \subseteq Range(s) /\ Head(s) \in Range(s)
<1>1. Tail(s) \in Seq(S) /\ Len(s) \in Nat \ {0} /\ DOMAIN s = 1 .. Len(s)
  OBVIOUS
<1>2. DOMAIN Tail(s) = 1 .. Len(s) - 1 /\ \A i \in 1 .. Len(s) - 1 : Tail(s)[i] = s[i + 1]
  OBVIOUS
<1>3. \A i \in DOMAIN Tail(s) : Tail(s)[i] \in Range(s)
  BY <1>1, <1>2 DEF Range
<1>4. Head(s) = s[1] /\ 1 \in DOMAIN s
  BY <1>1
<1> QED
  BY <1>1, <1>3, <1>4, Zenon DEF Range

\* The exchange stays one when the set of messages grows.
LEMMA LargerBuffers ==
  ASSUME NEW S, NEW m, NEW e \in [side : BOOLEAN, buffer : Seq(S)]
  PROVE  e \in [side : BOOLEAN, buffer : Seq(S \cup {m})]
BY LargerSeq

\* The server replies to a request that it had not replied to.
LEMMA RespondKeepsInv ==
  ASSUME JsCallsInv, Respond
  PROVE  JsCallsInv'
<1> USE DEF JsCallsInv
<1>1. PICK r \in received, kind \in page.replies :
        /\ received' = received \ {r}
        /\ inbox' = Append(inbox, Reply(kind, r.request))
        /\ replied' = [replied EXCEPT ![r.from] = kind]
        /\ UNCHANGED <<socketVars, routeVars, callVars, readVars, events, lost>>
  BY Zenon DEF Respond
<1>2. UNCHANGED <<page, call, write, nextId, calls, parsing, exchange, run>>
  BY <1>1, Zenon DEF socketVars, callVars, readVars
<1>3. PICK c \in Callers : r.from = c
  BY SMTT(20) DEF ReceivedOnce
<1>4. PICK i \in Ids : OwnId(c, i) /\ r.request = Request(c, i)
  BY <1>3 DEF ReceivedOnce
<1>5. kind \in Kinds
  BY ClientConstants, Zenon DEF CallTypes
<1>6. replied[c] = "none" /\ write[c].at = "sent" /\ call[c].at \notin {"resolved", "settled"}
  BY <1>3 DEF ReceivedOnce, CallStates
<1>7. \A d \in Callers : replied'[d] = IF d = c THEN kind ELSE replied[d]
  BY <1>1, <1>3, Zenon DEF CallTypes
<1>8. "none" \notin Kinds
  BY Zenon DEF Kinds
<1>9. \A d \in Callers, j \in Ids : Request(d, j)' = Request(d, j) /\ (OwnId(d, j)' <=> OwnId(d, j))
  BY <1>2, SameRequest, Zenon DEF OwnId
<1>10. Unencoded' = Unencoded
  BY <1>2, SMTT(30) DEF Unencoded
<1>11. CallTypes'
  <2>1. replied' \in [Callers -> Kinds \cup {"none"}]
    BY <1>1, <1>3, <1>5, SMTT(30) DEF CallTypes
  <2> QED
    BY <1>2, <1>10, <2>1, SMTT(30) DEF CallTypes
<1>12. CallStates'
  <2> SUFFICES ASSUME NEW d \in Callers
               PROVE  /\ call[d].at \in {"none", "encoding", "waiting", "resolved", "settled"}
                      /\ d \in Unencoded => write[d].at = "none"
                      /\ write[d].at # "sent" => replied'[d] = "none" /\ \A s \in received' : s.from # d
                      /\ call[d].at \in {"resolved", "settled"} => replied'[d] # "none"
    BY <1>2, <1>10, SMTT(30) DEF CallStates
  <2>1. CASE d = c
    BY <1>6, <2>1, SMTT(30) DEF CallStates
  <2>2. CASE d # c
    BY <1>1, <1>7, <2>2 DEF CallStates
  <2> QED
    BY <2>1, <2>2, SMTT(30)
<1>13. CallValues'
  <2> SUFFICES ASSUME NEW d \in Callers
               PROVE  /\ call'[d].at = "waiting" =>
                           \E j \in Ids : OwnId(d, j)' /\ call'[d].request = Request(d, j)'
                      /\ call'[d].at = "resolved" =>
                           \E j \in Ids : call'[d].response = Reply(replied'[d], Request(d, j)')
    BY Zenon DEF CallValues
  <2>1. CASE d = c
    BY <1>2, <1>6, <1>9, <2>1, Zenon DEF CallValues
  <2>2. CASE d # c
    BY <1>2, <1>7, <1>9, <2>2, Zenon DEF CallValues
  <2> QED
    BY <2>1, <2>2, Zenon
<1>14. ReceivedOnce'
  <2> SUFFICES ASSUME NEW s \in received'
               PROVE  /\ s.from \in Callers /\ replied'[s.from] = "none"
                      /\ \E j \in Ids : OwnId(s.from, j)' /\ s.request = Request(s.from, j)'
                      /\ \A t \in received' : t.from = s.from => t = s
    BY Zenon DEF ReceivedOnce
  <2>1. s \in received /\ s # r
    BY <1>1, Zenon
  <2>2. s.from # c
    BY <1>3, <2>1 DEF ReceivedOnce
  <2>3. /\ s.from \in Callers /\ replied[s.from] = "none"
        /\ \A t \in received : t.from = s.from => t = s
    BY <2>1, Zenon DEF ReceivedOnce
  <2>4. PICK j \in Ids : OwnId(s.from, j) /\ s.request = Request(s.from, j)
    BY <2>1, Zenon DEF ReceivedOnce
  <2>5. OwnId(s.from, j)' /\ s.request = Request(s.from, j)'
    BY <1>9, <2>3, <2>4, Zenon
  <2>6. replied'[s.from] = "none"
    BY <1>7, <2>2, <2>3, Zenon
  <2>7. \A t \in received' : t.from = s.from => t = s
    BY <1>1, <2>3, Zenon
  <2> QED
    BY <2>3, <2>5, <2>6, <2>7, Zenon
<1>16. \A m : Owned(m) => Owned(m)'
  <2>1. \A d \in Callers : replied[d] \in Kinds => replied'[d] = replied[d]
    BY <1>6, <1>7, <1>8, ZenonT(30)
  <2> QED
    BY <1>2, <1>9, <2>1, OwnedKept, Zenon
<1>17. PICK S : inbox \in Seq(S) /\ exchange \in [side : BOOLEAN, buffer : Seq(S)]
  BY DEF Buffers
<1>18. PICK m : m = Reply(kind, Request(c, i)) /\ Owned(m)'
  <2>1. PICK m : m = Reply(kind, Request(c, i))
    BY Zenon
  <2>2. Owned(m)'
    BY <1>4, <1>5, <1>7, <1>9, <2>1, Zenon DEF Owned
  <2> QED
    BY <2>1, <2>2, Zenon
<1>19. inbox' = Append(inbox, m)
  BY <1>1, <1>4, <1>18, Zenon
<1>20. RepliesOwned'
  <2>1. InFlight' \subseteq InFlight \cup {m}
    <3>1. Range(inbox') \subseteq Range(inbox) \cup {m}
      BY <1>17, <1>19, RangeOfAppend, Zenon
    <3> QED
      BY <1>2, <3>1, Zenon DEF InFlight, Held
  <2> QED
    BY <1>16, <1>18, <2>1, Zenon DEF RepliesOwned
<1>21. Buffers'
  <2>1. inbox' \in Seq(S \cup {m})
    BY <1>17, <1>19, RangeOfAppend, Zenon
  <2>2. exchange' \in [side : BOOLEAN, buffer : Seq(S \cup {m})]
    BY <1>2, <1>17, LargerBuffers, ZenonT(30)
  <2> QED
    BY <2>1, <2>2, Zenon DEF Buffers
<1>22. CallGetsOwnResult'
  <2>1. \A d \in Callers : call'[d].at = "settled" => call'[d] = call[d] /\ replied'[d] = replied[d]
    BY <1>2, <1>6, <1>7, SMTT(30)
  <2> QED
    BY <1>2, <2>1, ResultsKept, Zenon
<1> QED
  BY <1>11, <1>12, <1>13, <1>14, <1>20, <1>21, <1>22, Zenon

\* A frame of the server's own is no response.
LEMMA SendFrameKeepsInv ==
  ASSUME JsCallsInv, SendFrame
  PROVE  JsCallsInv'
<1>1. PICK frame \in page.frames : inbox' = Append(inbox, frame)
  BY DEF SendFrame
<1>2. UNCHANGED <<page, call, write, nextId, calls, replied, received, parsing, exchange, run>>
  BY Zenon DEF SendFrame, socketVars, callVars, readVars
<1>3. ~isRpcMessage(frame)
  BY ClientConstants, Zenon DEF JsCallsInv, CallTypes
<1>4. PICK S : inbox \in Seq(S) /\ exchange \in [side : BOOLEAN, buffer : Seq(S)]
  BY DEF JsCallsInv, Buffers
<1>5. PICK m : m = frame
  BY SMTT(30)
<1>6. Owned(m)'
  BY <1>3, <1>5 DEF Owned
<1>7. inbox' \in Seq(S \cup {m}) /\ Range(inbox') \subseteq Range(inbox) \cup {m}
  BY <1>1, <1>4, <1>5, RangeOfAppend, Zenon
<1>8. exchange' \in [side : BOOLEAN, buffer : Seq(S \cup {m})]
  BY <1>2, <1>4, LargerBuffers
<1>9. Buffers'
  BY <1>7, <1>8, Zenon DEF Buffers
<1>10. InFlight' \subseteq InFlight \cup {m}
  BY <1>2, <1>7 DEF InFlight, Held
<1>11. RepliesOwned'
  BY <1>2, <1>6, <1>10, OwnedSame, Zenon DEF RepliesOwned, JsCallsInv
<1> QED
  BY <1>2, <1>9, <1>11, QuietCalls, SMTT(30)

\* A frame moves from the connection to the parser.
LEMMA onmessageKeepsInv ==
  ASSUME JsCallsInv, onmessage
  PROVE  JsCallsInv'
<1>1. UNCHANGED <<page, call, write, nextId, calls, replied, received, exchange, run>>
  BY DEF onmessage, socketVars, callVars
<1>2. inbox # <<>> /\ inbox' = Tail(inbox) /\ parsing' \subseteq parsing \cup {Head(inbox)}
  BY DEF onmessage
<1>3. PICK S : inbox \in Seq(S) /\ exchange \in [side : BOOLEAN, buffer : Seq(S)]
  BY DEF JsCallsInv, Buffers
<1>4. inbox' \in Seq(S) /\ Range(inbox') \subseteq Range(inbox) /\ Head(inbox) \in Range(inbox)
  BY <1>2, <1>3, RangeOfTail, Zenon
<1>5. Buffers'
  BY <1>1, <1>3, <1>4, Zenon DEF Buffers
<1>6. InFlight' \subseteq InFlight
  BY <1>1, <1>2, <1>4, SMTT(30) DEF InFlight, Held
<1>7. RepliesOwned'
  BY <1>1, <1>6, OwnedSame, SMTT(30) DEF RepliesOwned, JsCallsInv
<1> QED
  BY <1>1, <1>5, <1>7, QuietCalls, SMTT(30)

\* What handling a message does to the calls.
Handled(m) ==
  IF isRpcMessage(m) /\ calls[messageID(m)] # None
  THEN /\ call' = [call EXCEPT ![calls[messageID(m)]] = [at |-> "resolved", response |-> m]]
       /\ calls' = [calls EXCEPT ![messageID(m)] = None]
  ELSE UNCHANGED <<call, calls>>

\* A response resolves the call whose request it answers.
LEMMA HandledKeepsInv ==
  ASSUME JsCallsInv, NEW m, Owned(m), Handled(m),
         UNCHANGED <<page, write, nextId, replied, received>>,
         InFlight' \subseteq InFlight \cup {m}, Buffers'
  PROVE  JsCallsInv'
<1> USE DEF JsCallsInv
<1>1. CASE UNCHANGED <<call, calls>>
  <2>1. RepliesOwned'
    BY <1>1, OwnedSame, SMTT(30) DEF RepliesOwned
  <2> QED
    BY <1>1, <2>1, QuietCalls
<1>2. CASE isRpcMessage(m) /\ ~UNCHANGED <<call, calls>>
  <2>1. PICK c \in Callers, i \in Ids :
          OwnId(c, i) /\ replied[c] \in Kinds /\ m = Reply(replied[c], Request(c, i))
    BY <1>2 DEF Owned
  <2>2. messageID(m) = i
    <3>1. messageID(m) = messageID(Request(c, i))
      BY <2>1, ReplyHeaders, Zenon
    <3> QED
      BY <3>1, RequestHeaders, Zenon
  <2>3. calls[i] = c
    BY <1>2, <2>1, <2>2, Zenon DEF Handled, OwnId
  <2> DEFINE k == [at |-> "resolved", response |-> m]
  <2>4. k.at = "resolved" /\ k.response = m
    BY SMTT(30)
  <2>5. call' = [call EXCEPT ![c] = k] /\ calls' = [calls EXCEPT ![i] = None]
    BY <1>2, <2>2, <2>3, SMTT(30) DEF Handled
  <2> HIDE DEF k
  <2>6. \A d \in Callers : call'[d] = IF d = c THEN k ELSE call[d]
    BY <2>5, SMTT(30) DEF CallTypes
  <2>7. \A j \in Ids : calls'[j] = IF j = i THEN None ELSE calls[j]
    BY <2>5, SMTT(30) DEF CallTypes
  <2>8. \A d \in Callers, j \in Ids : Request(d, j)' = Request(d, j) /\ (OwnId(d, j) => OwnId(d, j)')
    <3>1. \A d \in Callers, j \in Ids : OwnId(d, j) => OwnId(d, j)'
      BY <2>7 DEF OwnId
    <3> QED
      BY <3>1, SameRequest, SMTT(30)
  <2>9. replied[c] # "none" /\ write[c].at = "sent"
    BY <2>1, Zenon DEF Kinds, CallStates
  <2>10. c \notin Unencoded
    BY <2>9, Zenon DEF CallStates
  <2>11. Unencoded' = Unencoded
    BY <2>4, <2>6, <2>10 DEF Unencoded
  <2>12. CallTypes'
    <3>1. calls' \in [Ids -> Callers \cup {None}]
      BY <2>5, SMTT(30) DEF CallTypes
    <3>2. DOMAIN call' = Callers
      BY <2>5 DEF CallTypes
    <3> QED
      BY <2>11, <3>1, <3>2, Zenon DEF CallTypes
  <2>13. CallStates'
    <3> SUFFICES ASSUME NEW d \in Callers
                 PROVE  /\ call'[d].at \in {"none", "encoding", "waiting", "resolved", "settled"}
                        /\ d \in Unencoded => write[d].at = "none"
                        /\ write[d].at # "sent" => replied[d] = "none" /\ \A r \in received : r.from # d
                        /\ call'[d].at \in {"resolved", "settled"} => replied[d] # "none"
      BY <2>11, Zenon DEF CallStates
    <3> QED
      BY <2>4, <2>6, <2>9, Zenon DEF CallStates
  <2>14. CallValues'
    <3> SUFFICES ASSUME NEW d \in Callers
                 PROVE  /\ call'[d].at = "waiting" =>
                             \E j \in Ids : OwnId(d, j)' /\ call'[d].request = Request(d, j)'
                        /\ call'[d].at = "resolved" =>
                             \E j \in Ids : call'[d].response = Reply(replied[d], Request(d, j)')
      BY Zenon DEF CallValues
    <3>1. CASE d = c
      BY <2>1, <2>4, <2>6, <2>8, <3>1, Zenon
    <3>2. CASE d # c
      BY <2>6, <2>8, <3>2, Zenon DEF CallValues
    <3> QED
      BY <3>1, <3>2, Zenon
  <2>15. ReceivedOnce'
    BY <2>8, Zenon DEF ReceivedOnce
  <2>16. RepliesOwned'
    <3>1. \A x : Owned(x) => Owned(x)'
      BY <2>8, OwnedKept
    <3> QED
      BY <3>1, SMTT(30) DEF RepliesOwned
  <2>17. CallGetsOwnResult'
    <3>1. \A d \in Callers : call'[d].at = "settled" => call'[d] = call[d]
      BY <2>4, <2>6
    <3> QED
      BY <3>1, ResultsKept, Zenon
  <2> QED
    BY <2>12, <2>13, <2>14, <2>15, <2>16, <2>17, SMTT(30)
<1> QED
  BY <1>1, <1>2, SMTT(30) DEF Handled

\* A message in hand is logged or handled.
LEMMA TakeHandles ==
  ASSUME NEW m, Take(m)
  PROVE  \/ Handled(m) /\ run'.at # "logging"
         \/ UNCHANGED <<call, calls>> /\ run'.message = m
<1>1. ASSUME Handle(m) PROVE Handled(m) /\ run'.at # "logging"
  <2>1. Handled(m)
    BY <1>1, Zenon DEF Handle, Handled
  <2>2. run'.at # "logging"
    BY <1>1, Zenon DEF Handle
  <2> QED
    BY <2>1, <2>2
<1>2. ASSUME run' = [at |-> "logging", message |-> m] PROVE run'.message = m
  BY <1>2
<1> QED
  BY <1>1, <1>2, Zenon DEF Take

\* So is one that is read, from the parser or from the buffer.
LEMMA TakeKeepsInv ==
  ASSUME JsCallsInv, NEW m, Owned(m), Take(m), UNCHANGED <<page, write, nextId, replied, received, inbox>>,
         parsing' \subseteq parsing, Held' \subseteq Held, Buffers'
  PROVE  JsCallsInv'
<1>1. CASE Handled(m) /\ run'.at # "logging"
  <2>1. InFlight' \subseteq InFlight
    BY <1>1, SMTT(30) DEF InFlight
  <2> QED
    BY <1>1, <2>1, HandledKeepsInv, SMTT(30)
<1>2. CASE UNCHANGED <<call, calls>> /\ run'.message = m
  <2>1. InFlight' \subseteq InFlight \cup {m}
    BY <1>2, SMTT(30) DEF InFlight
  <2>2. RepliesOwned'
    BY <1>2, <2>1, OwnedSame, SMTT(30) DEF RepliesOwned, JsCallsInv
  <2> QED
    BY <1>2, <2>2, QuietCalls, SMTT(30)
<1> QED
  BY <1>1, <1>2, TakeHandles, SMTT(30)

\* The logger hands its message on.
LEMMA ReadLoggedKeepsInv ==
  ASSUME JsCallsInv, ReadLogged
  PROVE  JsCallsInv'
<1>1. UNCHANGED <<page, write, nextId, replied, received, inbox, parsing, exchange>>
  BY DEF ReadLogged, socketVars, serverVars
<1>2. PICK m : m = run.message
  OBVIOUS
<1>3. run.at = "logging" /\ Handle(m)
  BY <1>2 DEF ReadLogged
<1>4. Handled(m)
  BY <1>3, Zenon DEF Handle, Handled
<1>5. run'.at # "logging"
  BY <1>3, Zenon DEF Handle
<1>6. Owned(m)
  BY <1>2, <1>3, SMTT(30) DEF JsCallsInv, RepliesOwned, InFlight
<1>7. InFlight' \subseteq InFlight
  BY <1>1, <1>5, SMTT(30) DEF InFlight, Held
<1>8. Buffers'
  BY <1>1, SMTT(30) DEF JsCallsInv, Buffers
<1> QED
  BY <1>1, <1>4, <1>6, <1>7, <1>8, HandledKeepsInv, SMTT(30)

\* The exchange without its first triplet, and with one more.
LEMMA ShiftedHolds ==
  ASSUME JsCallsInv, exchange.buffer # <<>>, exchange' = Shifted, inbox' = inbox
  PROVE  /\ Buffers' /\ Held' \subseteq Held
         /\ exchange.side => Head(exchange.buffer) \in Held
<1>1. PICK S : inbox \in Seq(S) /\ exchange \in [side : BOOLEAN, buffer : Seq(S)]
  BY SMTT(30) DEF JsCallsInv, Buffers
<1>2. /\ Shifted \in [side : BOOLEAN, buffer : Seq(S)]
      /\ Shifted.side = exchange.side /\ Shifted.buffer = Tail(exchange.buffer)
  BY <1>1, ShiftedFields
<1>3. Buffers'
  BY <1>1, <1>2, Zenon DEF Buffers
<1>4. exchange.buffer \in Seq(S)
  BY <1>1
<1>5. Range(Tail(exchange.buffer)) \subseteq Range(exchange.buffer) /\ Head(exchange.buffer) \in Range(exchange.buffer)
  BY <1>4, RangeOfTail, Zenon
<1> QED
  BY <1>2, <1>3, <1>5, SMTT(30) DEF Held

\* A message that is pushed is held, with those that were before.
LEMMA PushedHolds ==
  ASSUME JsCallsInv, NEW m, NEW taking \in BOOLEAN, ~Ahead(taking),
         exchange' = Pushed(taking, m), inbox' = inbox
  PROVE  /\ Buffers'
         /\ Held' \subseteq IF taking THEN {} ELSE Held \cup {m}
<1>1. PICK S : inbox \in Seq(S) /\ exchange \in [side : BOOLEAN, buffer : Seq(S)]
  BY SMTT(30) DEF JsCallsInv, Buffers
<1>2. inbox' \in Seq(S \cup {m}) /\ exchange \in [side : BOOLEAN, buffer : Seq(S \cup {m})]
  BY <1>1, LargerSeq, LargerBuffers
<1>3. /\ Pushed(taking, m) \in [side : BOOLEAN, buffer : Seq(S \cup {m})]
      /\ Pushed(taking, m).side = ~taking
      /\ Pushed(taking, m).buffer = Append(exchange.buffer, m)
  <2>1. m \in S \cup {m}
    OBVIOUS
  <2> QED
    BY <1>2, <2>1, PushedFields, Zenon
<1>4. Buffers'
  BY <1>2, <1>3, Zenon DEF Buffers
<1>5. exchange.buffer \in Seq(S) /\ exchange.side \in BOOLEAN
  BY <1>1
<1>6. Range(Append(exchange.buffer, m)) \subseteq Range(exchange.buffer) \cup {m}
  BY <1>5, RangeOfAppend, Zenon
<1>7. ~taking => Range(exchange.buffer) \subseteq Held
  <2>1. exchange.buffer = <<>> => Range(exchange.buffer) = {}
    BY DEF Range
  <2> QED
    BY <1>5, <2>1, SMTT(30) DEF Ahead, Held
<1> QED
  BY <1>3, <1>4, <1>6, <1>7, SMTT(30) DEF Held

\* A message that was parsed is taken, or held.
LEMMA ParsedCallsInv ==
  ASSUME JsCallsInv, NEW m \in parsing, Parsed(m)
  PROVE  JsCallsInv'
<1>1. UNCHANGED <<page, write, nextId, replied, received, inbox>> /\ parsing' \subseteq parsing
  BY DEF Parsed, socketVars, serverVars
<1>2. Owned(m)
  BY SMTT(30) DEF JsCallsInv, RepliesOwned, InFlight
<1>3. CASE UNCHANGED <<run, exchange, call, calls>>
  <2>1. InFlight' \subseteq InFlight
    BY <1>1, <1>3, SMTT(30) DEF InFlight, Held
  <2>2. RepliesOwned'
    BY <1>1, <1>3, <2>1, OwnedSame, SMTT(30) DEF RepliesOwned, JsCallsInv
  <2>3. Buffers'
    BY <1>1, <1>3, SMTT(30) DEF JsCallsInv, Buffers
  <2> QED
    BY <1>1, <1>3, <2>2, <2>3, QuietCalls, SMTT(30)
<1>4. CASE Ahead(FALSE) /\ exchange' = Shifted
           /\ IF run.at = "taking" THEN Take(m) ELSE UNCHANGED <<run, call, calls, taken, dispatched>>
  <2>1. Buffers' /\ Held' \subseteq Held
    BY <1>1, <1>4, ShiftedHolds, Zenon DEF Ahead
  <2>2. CASE Take(m)
    BY <1>1, <1>2, <2>1, <2>2, TakeKeepsInv, SMTT(30)
  <2>3. CASE UNCHANGED <<run, call, calls>>
    <3>1. InFlight' \subseteq InFlight
      BY <1>1, <2>1, <2>3, SMTT(30) DEF InFlight
    <3>2. RepliesOwned'
      BY <1>1, <2>3, <3>1, OwnedSame, SMTT(30) DEF RepliesOwned, JsCallsInv
    <3> QED
      BY <1>1, <2>1, <2>3, <3>2, QuietCalls, SMTT(30)
  <2> QED
    BY <1>4, <2>2, <2>3
<1>5. CASE ~Ahead(FALSE) /\ exchange' = Pushed(FALSE, m) /\ UNCHANGED <<run, call, calls>>
  <2>1. Buffers' /\ Held' \subseteq Held \cup {m}
    BY <1>1, <1>5, PushedHolds, Zenon
  <2>2. InFlight' \subseteq InFlight \cup {m}
    BY <1>1, <1>5, <2>1, SMTT(30) DEF InFlight
  <2>3. RepliesOwned'
    BY <1>1, <1>2, <1>5, <2>2, OwnedSame DEF RepliesOwned, JsCallsInv
  <2> QED
    BY <1>1, <1>5, <2>1, <2>3, QuietCalls
<1> QED
  BY <1>3, <1>4, <1>5, Zenon DEF Parsed

\* run takes the oldest message that is held, or waits, or ends.
LEMMA ReadCallsInv ==
  ASSUME JsCallsInv, Read
  PROVE  JsCallsInv'
<1>1. UNCHANGED <<page, write, nextId, replied, received, inbox, parsing>>
  BY DEF Read, socketVars, serverVars
<1>2. CASE run' = [at |-> "ended"] /\ UNCHANGED <<exchange, call, calls>>
  <2>1. run'.at # "logging"
    BY <1>2, SMTT(30)
  <2>2. RepliesOwned' /\ Buffers'
    BY <1>1, <1>2, <2>1, QuietMessages, SMTT(30) DEF JsCallsInv
  <2> QED
    BY <1>1, <1>2, <2>2, QuietCalls, SMTT(30)
<1>3. CASE Ahead(TRUE) /\ exchange' = Shifted /\ Take(Head(exchange.buffer))
  <2>1. PICK m : m = Head(exchange.buffer)
    BY SMTT(30)
  <2>2. Buffers' /\ Held' \subseteq Held /\ m \in Held
    BY <1>1, <1>3, <2>1, ShiftedHolds, SMTT(30) DEF Ahead
  <2>3. Owned(m)
    BY <2>2 DEF JsCallsInv, RepliesOwned, InFlight
  <2>4. Take(m)
    BY <1>3, <2>1, SMTT(30)
  <2> QED
    BY <1>1, <2>2, <2>3, <2>4, TakeKeepsInv
<1>4. CASE ~Ahead(TRUE) /\ exchange' = Pushed(TRUE, None) /\ run' = [at |-> "taking"]
           /\ UNCHANGED <<call, calls>>
  <2>1. Buffers' /\ Held' \subseteq {}
    BY <1>1, <1>4, PushedHolds, Zenon
  <2>2. run'.at # "logging"
    BY <1>4, SMTT(30)
  <2>3. InFlight' \subseteq InFlight
    BY <1>1, <2>1, <2>2, SMTT(30) DEF InFlight
  <2>4. RepliesOwned'
    BY <1>1, <1>4, <2>3, OwnedSame, SMTT(30) DEF RepliesOwned, JsCallsInv
  <2> QED
    BY <1>1, <1>4, <2>1, <2>4, QuietCalls
<1> QED
  BY <1>2, <1>3, <1>4, Zenon DEF Read

\* A step that touches neither calls nor messages, but for what goes down with a
\* connection, or that ends run.
LEMMA QuietKeepsInv ==
  ASSUME JsCallsInv, UNCHANGED <<page, call, write, nextId, calls, replied, parsing, exchange>>,
         inbox' = inbox \/ inbox' = <<>>, received' \subseteq received,
         run' = run \/ run'.at # "logging"
  PROVE  JsCallsInv'
<1>1. RepliesOwned' /\ Buffers'
  BY QuietMessages DEF JsCallsInv
<1> QED
  BY <1>1, QuietCalls, SMTT(30)

\* No call is made, and no message on its way.
LEMMA JsCallsInvInit == Init => JsCallsInv
<1> SUFFICES ASSUME Init PROVE JsCallsInv
  OBVIOUS
<1>1. /\ call = [c \in Callers |-> [at |-> "none"]] /\ write = [c \in Callers |-> [at |-> "none"]]
      /\ nextId = 0 /\ calls = [i \in Ids |-> None] /\ replied = [c \in Callers |-> "none"]
      /\ received = {} /\ inbox = <<>> /\ parsing = {} /\ run = [at |-> "read"] /\ page \in Pages
  BY DEF Init, SocketInit
<1>2. <<>> \in Seq({}) /\ Range(<<>>) = {}
  BY DEF Range
<1>3. exchange \in [side : BOOLEAN, buffer : Seq({})] /\ exchange.side = FALSE
  BY <1>2, Zenon DEF Init
<1>4. Unencoded = Callers
  BY <1>1, SMTT(30) DEF Unencoded
<1>5. CallTypes
  <2>1. Cardinality(Callers \ Unencoded) = 0
    <3>1. Callers \ Unencoded = {}
      BY <1>4
    <3> QED
      BY <3>1, FS_EmptySet
  <2> QED
    BY <1>1, <2>1 DEF CallTypes
<1>6. Buffers
  BY <1>1, <1>2, <1>3, Zenon DEF Buffers
<1>7. CallStates
  BY <1>1 DEF CallStates
<1>8. CallValues /\ CallGetsOwnResult
  BY <1>1, Zenon DEF CallValues, CallGetsOwnResult
<1>9. ReceivedOnce
  BY <1>1 DEF ReceivedOnce
<1>10. RepliesOwned
  <2>1. InFlight = {}
    BY <1>1, <1>2, <1>3 DEF InFlight, Held
  <2> QED
    BY <2>1, SMTT(30) DEF RepliesOwned
<1> QED
  BY <1>5, <1>6, <1>7, <1>8, <1>9, <1>10, SMTT(30) DEF JsCallsInv

\* Every step keeps the invariant.
LEMMA JsCallsInvStep == JsCallsInv /\ [Next]_vars => JsCallsInv'
<1> SUFFICES ASSUME JsCallsInv, [Next]_vars PROVE JsCallsInv'
  OBVIOUS
<1>1. ASSUME Lose PROVE (inbox' = inbox \/ inbox' = <<>>) /\ received' \subseteq received
  BY <1>1, Zenon DEF Lose
<1>2. CASE Socket \/ ConnectionDrops
  <2>1. Lose /\ UNCHANGED <<page, call, write, nextId, calls, replied, parsing, exchange, run>>
    BY <1>2, SMTT(30) DEF Socket, ConnectionDrops, connect, onopen, CloseSocket, PlainOpens, Drop, callVars, readVars
  <2> QED
    BY <1>1, <2>1, QuietKeepsInv, SMTT(20)
<1>3. CASE SocketCloses
  <2>1. UNCHANGED <<page, call, write, nextId, calls, replied, parsing, exchange, inbox, received>>
    BY <1>3 DEF SocketCloses, onclose, PlainCloses, callVars, serverVars
  <2>2. run' = run \/ run' = [at |-> "ended"]
    BY <1>3, Zenon DEF SocketCloses, CloseConn
  <2>3. run' = run \/ run'.at # "logging"
    BY <2>2
  <2> QED
    BY <2>1, <2>3, QuietKeepsInv, SMTT(30)
<1>4. ASSUME NEW c \in Callers,
             Encoded(c) \/ WriteLogged(c) \/ PlainSend(c) \/ Send(c) \/ SendResumes(c) \/ CallResumes(c)
      PROVE  JsCallsInv'
  BY <1>4, EncodedKeepsInv, WritingKeepsInv, CallResumesKeepsInv, Zenon
<1>5. CASE onmessage \/ (\E m \in parsing : Parsed(m)) \/ Read \/ ReadLogged
  BY <1>5, onmessageKeepsInv, ParsedCallsInv, ReadCallsInv, ReadLoggedKeepsInv, Zenon
<1>6. CASE Dispatched
  <2>1. UNCHANGED <<page, call, write, nextId, calls, replied, parsing, exchange, inbox, received>>
    BY <1>6 DEF Dispatched, socketVars, callVars, serverVars
  <2>2. run' = [at |-> "read"] \/ run' = [at |-> "ended"]
    BY <1>6, Zenon DEF Dispatched
  <2>3. run'.at # "logging"
    BY <2>2
  <2> QED
    BY <2>1, <2>3, QuietKeepsInv, SMTT(30)
<1>7. CASE Page
  <2>1. CASE \E c \in Callers : Call(c)
    BY <2>1, CallKeepsInv, Zenon
  <2>2. CASE UNCHANGED <<socketVars, callVars, readVars, serverVars>>
    <3>1. UNCHANGED <<page, call, write, nextId, calls, replied, parsing, exchange, inbox, received, run>>
      BY <2>2, SMTT(30) DEF socketVars, callVars, readVars, serverVars
    <3> QED
      BY <3>1, QuietKeepsInv, SMTT(30)
  <2>3. CASE /\ close \/ PlainClose \/ Listen \/ Unlisten
             /\ Lose
             /\ UNCHANGED <<routeVars, callVars, readVars, events, replied>>
    <3>1. UNCHANGED <<page, call, write, nextId, calls, replied, parsing, exchange, run>>
      BY <2>3, SMTT(30) DEF close, PlainClose, Listen, Unlisten, callVars, readVars
    <3> QED
      BY <1>1, <2>3, <3>1, QuietKeepsInv, SMTT(30)
  <2> QED
    BY <1>7, <2>1, <2>2, <2>3, Zenon DEF Page
<1>8. CASE UNCHANGED vars
  <2>1. UNCHANGED <<page, call, write, nextId, calls, replied, parsing, exchange, inbox, received, run>>
    BY <1>8, SMTT(30) DEF vars, socketVars, callVars, readVars, serverVars
  <2> QED
    BY <2>1, QuietKeepsInv
<1> QED
  BY <1>2, <1>3, <1>4, <1>5, <1>6, <1>7, <1>8, RespondKeepsInv, SendFrameKeepsInv, Zenon DEF Next, EventLoop

\* A call settles with what the server made of its own request, for any pages, callers,
\* kinds of replies and frames: IDs are drawn after an await, frames are parsed in any
\* order, connections come and go (call and run in RpcReactor, createRpcMethods).
THEOREM JsCallsOwnResult == Spec => []CallGetsOwnResult
<1>1. JsCallsInv => CallGetsOwnResult
  BY DEF JsCallsInv
<1> QED
  BY <1>1, JsCallsInvInit, JsCallsInvStep, PTL DEF Spec
=============================================================================
