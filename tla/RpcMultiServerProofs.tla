------------------------ MODULE RpcMultiServerProofs ------------------------
(***************************************************************************)
(* Proofs about the Go multi server and its multi writer, for any number   *)
(* of conns, senders and waiters.                                          *)
(*                                                                         *)
(* Two inductive invariants that do not depend on each other: WriterInv,   *)
(* of the slice of writers and of the walks of Write over it, and WaitInv, *)
(* of the conns and the two WaitGroups.                                    *)
(***************************************************************************)
EXTENDS RpcMultiServer, FiniteSetTheorems, TLAPS

Cell == Writers \cup {Nil}
SliceType == [arr : Nat, len : Nat]

SliceTypes ==
  /\ arrays \in Seq(Seq(Cell))
  /\ slice \in SliceType /\ slice.arr \in DOMAIN arrays /\ slice.len <= Len(Cells)
  /\ lock \in Cell /\ hole \in 0 .. slice.len
  /\ lock = Nil <=> hole = 0
  /\ sub \in [Writers -> {"no", "yes", "gone"}]

SenderTypes ==
  /\ snap \in [Senders -> SliceType]
  /\ \A s \in Senders : snap[s].arr \in DOMAIN arrays /\ snap[s].len <= Len(arrays[snap[s].arr])
  /\ at \in [Senders -> Nat] /\ sent \in [Senders -> Nat]
  /\ got \in [Senders -> Seq(Cell)]
  /\ steady \in [Senders -> SUBSET Writers]
  /\ disturbed \subseteq Senders

\* The cells of m.writers but for the one that an unsubscribe is about to fill, and
\* the writers that are subscribed and not being unsubscribed.
Live == (1 .. slice.len) \ {hole}
Members == {w \in Writers : sub[w] = "yes" /\ w # lock}

\* The first n cells of a hold each writer of S, and none of them twice.
OnceEach(a, n, S) ==
  /\ \A w \in S : \E i \in 1 .. n : a[i] = w
  /\ \A i, j \in 1 .. n : a[i] = a[j] => i = j

\* The live cells hold the members, each once.
SliceHolds ==
  /\ \A i, j \in Live : Cells[i] = Cells[j] => i = j
  /\ \A i \in Live : Cells[i] \in Members
  /\ \A w \in Members : \E i \in Live : Cells[i] = w

\* A walk that no unsubscribe fell into: its cells have not changed since they were
\* copied, and nothing that append does will change them.
WalkWhole(s) ==
  /\ lock = Nil
  /\ snap[s].arr = slice.arr => snap[s].len <= slice.len
  /\ OnceEach(arrays[snap[s].arr], snap[s].len, steady[s])
  /\ at[s] <= snap[s].len + 1
  /\ Len(got[s]) = at[s] - 1
  /\ \A i \in 1 .. at[s] - 1 : got[s][i] = arrays[snap[s].arr][i]

WalksWhole == \A s \in Senders : Walking(s) /\ s \notin disturbed => WalkWhole(s)

WritesWhole ==
  \A s \in Senders : sent[s] > 0 /\ ~Walking(s) /\ s \notin disturbed =>
    OnceEach(got[s], Len(got[s]), steady[s])

WriterInv == SliceTypes /\ SenderTypes /\ SliceHolds /\ WalksWhole /\ WritesWhole

-----------------------------------------------------------------------------
Ended(g, c) == IF g = "waitConns" THEN pc[c] = "returned" ELSE tidy[c] = "done"

ConnTypes ==
  /\ pc \in [Conns -> {"new", "adding", "subscribing", "serving", "unsubscribing", "leaving", "returned"}]
  /\ running \in [Conns -> Nat]
  /\ tidy \in [Conns -> {"none", "waiting", "done"}]
  /\ counter \in [Groups -> Nat]
  /\ waiting \in [Waiters -> [on : Groups \cup {"none"}, at : {"idle", "waiting", "woken", "returned"}]]
  /\ before \in [Waiters -> SUBSET Conns]

\* The goroutine that Run leaves behind exists from unsub() on, when the conn is
\* gone from the multi writer, and it is done only when no request runs.
TidyFollows ==
  \A c \in Conns :
    /\ tidy[c] # "none" <=> pc[c] \in {"leaving", "returned"}
    /\ tidy[c] # "none" => sub[c] = "gone"
    /\ tidy[c] = "done" => running[c] = 0

\* The WaitGroups count.
CountersRight ==
  \A g \in Groups : IsFiniteSet(Counted(g)) /\ counter[g] = Cardinality(Counted(g))

\* What a waiter waits for is counted until it has ended, and has ended when it is woken.
WaitersRight ==
  \A w \in Waiters :
    /\ waiting[w].at # "idle" => waiting[w].on \in Groups
    /\ waiting[w].at = "waiting" =>
         \A c \in before[w] : c \in Counted(waiting[w].on) \/ Ended(waiting[w].on, c)
    /\ waiting[w].at \in {"woken", "returned"} => \A c \in before[w] : Ended(waiting[w].on, c)

WaitInv == ConnTypes /\ TidyFollows /\ CountersRight /\ WaitersRight

-----------------------------------------------------------------------------
(* The slice *)

\* One cell of the backing array of m.writers is written.
LEMMA UpdateCell ==
  ASSUME SliceTypes, NEW k \in 1 .. Len(Cells), NEW v \in Cell,
         arrays' = [arrays EXCEPT ![slice.arr][k] = v]
  PROVE  /\ arrays' \in Seq(Seq(Cell)) /\ DOMAIN arrays' = DOMAIN arrays
         /\ \A a \in DOMAIN arrays : Len(arrays'[a]) = Len(arrays[a])
         /\ \A a \in DOMAIN arrays : a # slice.arr => arrays'[a] = arrays[a]
         /\ arrays'[slice.arr][k] = v
         /\ \A i \in 1 .. Len(Cells) : i # k => arrays'[slice.arr][i] = Cells[i]
<1>1. Cells \in Seq(Cell) /\ slice.arr \in DOMAIN arrays
  BY DEF SliceTypes, Cells
<1> DEFINE new == [Cells EXCEPT ![k] = v]
<1>2. /\ new \in Seq(Cell) /\ Len(new) = Len(Cells)
      /\ new[k] = v /\ \A i \in 1 .. Len(Cells) : i # k => new[i] = Cells[i]
  BY <1>1
<1>3. arrays' = [arrays EXCEPT ![slice.arr] = new]
  BY DEF Cells
<1> HIDE DEF new
<1>4. arrays'[slice.arr] = new /\ arrays' \in Seq(Seq(Cell)) /\ DOMAIN arrays' = DOMAIN arrays
  BY <1>1, <1>2, <1>3 DEF SliceTypes
<1>5. \A a \in DOMAIN arrays : a # slice.arr => arrays'[a] = arrays[a]
  BY <1>3
<1> QED
  BY <1>2, <1>4, <1>5 DEF Cells

\* The array that append allocates holds the writers so far, and then the new one.
LEMMA GrownHolds ==
  ASSUME SliceTypes, NEW w \in Writers
  PROVE  /\ Grown(w) \in Seq(Cell) /\ Len(Grown(w)) >= slice.len + 1
         /\ \A i \in 1 .. slice.len : Grown(w)[i] = Cells[i]
         /\ Grown(w)[slice.len + 1] = w
<1>1. PICK n \in Nat : n = slice.len
  BY DEF SliceTypes, SliceType
<1>2. PICK cap \in Nat : cap = (IF n = 0 THEN 1 ELSE 2 * n) /\ cap >= n + 1
  <2>1. CASE n = 0
    BY <2>1
  <2>2. CASE n # 0
    <3>1. 2 * n \in Nat /\ 2 * n >= n + 1
      BY <2>2
    <3> QED
      BY <2>2, <3>1
  <2> QED
    BY <2>1, <2>2
<1>3. Grown(w) = [i \in 1 .. cap |-> IF i <= n THEN Cells[i] ELSE IF i = n + 1 THEN w ELSE Nil]
  BY <1>1, <1>2 DEF Grown
<1>4. \A i \in 1 .. n : Cells[i] \in Cell
  BY <1>1 DEF SliceTypes, Cells
<1>5. Grown(w) \in [1 .. cap -> Cell]
  BY <1>3, <1>4 DEF Cell
<1>6. Grown(w) \in Seq(Cell) /\ Len(Grown(w)) = cap
  BY <1>5
<1> QED
  BY <1>1, <1>2, <1>3, <1>6

\* Subscribe adds a cell after those of the slice, in the same array or in a copy of
\* it: whoever walks the slice as it was finds its cells unchanged.
LEMMA SubscribeAdds ==
  ASSUME SliceTypes, NEW w \in Writers, Subscribe(w)
  PROVE  /\ SliceTypes'
         /\ slice'.len = slice.len + 1 /\ Cells'[slice.len + 1] = w
         /\ \A i \in 1 .. slice.len : Cells'[i] = Cells[i]
         /\ slice'.arr = slice.arr \/ slice'.arr \notin DOMAIN arrays
         /\ \A a \in DOMAIN arrays :
              /\ a \in DOMAIN arrays' /\ Len(arrays'[a]) = Len(arrays[a])
              /\ \A i \in 1 .. Len(arrays[a]) :
                   (a = slice.arr => i <= slice.len) => arrays'[a][i] = arrays[a][i]
<1>1. /\ slice.arr \in Nat /\ slice.len \in Nat /\ slice.len <= Len(Cells) /\ Len(Cells) \in Nat
      /\ slice = [arr |-> slice.arr, len |-> slice.len]
      /\ w \in Cell /\ slice.arr \in DOMAIN arrays
  BY DEF SliceTypes, SliceType, Cells, Cell
<1>2. lock' = lock /\ hole' = hole /\ lock = Nil /\ hole = 0
  BY DEF Subscribe, SliceTypes
<1>3. sub' \in [Writers -> {"no", "yes", "gone"}]
  BY DEF Subscribe, SliceTypes
<1>4. CASE slice.len < Len(Cells)
  <2>1. /\ arrays' = [arrays EXCEPT ![slice.arr][slice.len + 1] = w]
        /\ slice' = [slice EXCEPT !.len = @ + 1]
    BY <1>4 DEF Subscribe
  <2>2. slice' = [arr |-> slice.arr, len |-> slice.len + 1]
    BY <1>1, <2>1
  <2>3. slice.len + 1 \in 1 .. Len(Cells)
    BY <1>1, <1>4
  <2>4. /\ arrays' \in Seq(Seq(Cell)) /\ DOMAIN arrays' = DOMAIN arrays
        /\ \A a \in DOMAIN arrays : Len(arrays'[a]) = Len(arrays[a])
        /\ \A a \in DOMAIN arrays : a # slice.arr => arrays'[a] = arrays[a]
        /\ arrays'[slice.arr][slice.len + 1] = w
        /\ \A i \in 1 .. Len(Cells) : i # slice.len + 1 => arrays'[slice.arr][i] = Cells[i]
    BY <1>1, <2>1, <2>3, UpdateCell
  <2>5. Cells' = arrays'[slice.arr] /\ slice'.arr = slice.arr /\ slice'.len = slice.len + 1
    BY <2>2 DEF Cells
  <2>6. SliceTypes'
    <3>1. slice' \in SliceType /\ slice'.arr \in DOMAIN arrays'
      BY <1>1, <2>2, <2>4, <2>5 DEF SliceType
    <3>2. Len(Cells') = Len(Cells)
      BY <1>1, <2>4, <2>5 DEF Cells
    <3>3. slice'.len <= Len(Cells') /\ hole' \in 0 .. slice'.len
      BY <1>1, <1>2, <1>4, <2>5, <3>2
    <3>4. lock' \in Cell /\ (lock' = Nil <=> hole' = 0)
      BY <1>2 DEF Cell
    <3> QED
      BY <1>3, <2>4, <3>1, <3>3, <3>4 DEF SliceTypes
  <2>7. \A i \in 1 .. slice.len : arrays'[slice.arr][i] = Cells[i]
    <3>1. \A i \in 1 .. slice.len : i \in 1 .. Len(Cells) /\ i # slice.len + 1
      BY <1>1
    <3> QED
      BY <2>4, <3>1
  <2>8. ASSUME NEW a \in DOMAIN arrays, NEW i \in 1 .. Len(arrays[a]), a = slice.arr => i <= slice.len
        PROVE  arrays'[a][i] = arrays[a][i]
    <3>1. CASE a # slice.arr
      BY <2>4, <3>1
    <3>2. CASE a = slice.arr
      BY <1>1, <2>4, <2>8, <3>2 DEF Cells
    <3> QED
      BY <3>1, <3>2
  <2> QED
    BY <2>4, <2>5, <2>6, <2>7, <2>8
<1>5. CASE ~(slice.len < Len(Cells))
  <2>1. /\ arrays' = Append(arrays, Grown(w))
        /\ slice' = [arr |-> Len(arrays) + 1, len |-> slice.len + 1]
    BY <1>5 DEF Subscribe
  <2>2. PICK g \in Seq(Cell) : g = Grown(w)
    BY GrownHolds
  <2>3. /\ arrays' \in Seq(Seq(Cell)) /\ Len(arrays) \in Nat
        /\ DOMAIN arrays = 1 .. Len(arrays) /\ DOMAIN arrays' = 1 .. Len(arrays) + 1
        /\ \A a \in DOMAIN arrays : arrays'[a] = arrays[a]
        /\ arrays'[Len(arrays) + 1] = g
    BY <2>1, <2>2 DEF SliceTypes
  <2>4. Cells' = g /\ slice'.arr = Len(arrays) + 1 /\ slice'.len = slice.len + 1
    BY <2>1, <2>3 DEF Cells
  <2>5. /\ Len(g) >= slice.len + 1 /\ g[slice.len + 1] = w
        /\ \A i \in 1 .. slice.len : g[i] = Cells[i]
    BY <2>2, GrownHolds
  <2>6. SliceTypes'
    BY <1>1, <1>2, <1>3, <2>1, <2>3, <2>4, <2>5 DEF SliceTypes, SliceType
  <2> QED
    BY <1>1, <2>3, <2>4, <2>5, <2>6
<1> QED
  BY <1>4, <1>5

\* Subscribe, in any case: the new writer is a member, and walks go on as they were.
LEMMA SubscribeKeeps ==
  ASSUME WriterInv, NEW w \in Writers, Subscribe(w), Nil \notin Writers
  PROVE  WriterInv'
<1> USE DEF WriterInv
<1>1. /\ SliceTypes'
      /\ slice'.len = slice.len + 1 /\ Cells'[slice.len + 1] = w
      /\ \A i \in 1 .. slice.len : Cells'[i] = Cells[i]
      /\ slice'.arr = slice.arr \/ slice'.arr \notin DOMAIN arrays
  BY SubscribeAdds
<1>2. \A a \in DOMAIN arrays :
        /\ a \in DOMAIN arrays' /\ Len(arrays'[a]) = Len(arrays[a])
        /\ \A i \in 1 .. Len(arrays[a]) :
             (a = slice.arr => i <= slice.len) => arrays'[a][i] = arrays[a][i]
  BY SubscribeAdds
<1>3. /\ lock = Nil /\ lock' = Nil /\ hole = 0 /\ hole' = 0 /\ slice.len \in Nat
      /\ sub[w] = "no" /\ sub' = [sub EXCEPT ![w] = "yes"]
      /\ UNCHANGED senderVars
  BY DEF Subscribe, SliceTypes, SliceType
<1>4. SenderTypes'
  BY <1>2, <1>3 DEF SenderTypes, senderVars
<1>5. SliceHolds'
  <2>1. Live = 1 .. slice.len /\ Live' = 1 .. slice.len + 1
    BY <1>1, <1>3 DEF Live
  <2>2. Members' = Members \cup {w} /\ w \notin Members
    BY <1>3 DEF Members, SliceTypes
  <2>3. \A i \in 1 .. slice.len : Cells'[i] = Cells[i] /\ Cells[i] \in Members
    BY <1>1, <2>1 DEF SliceHolds
  <2>4. \A i, j \in 1 .. slice.len : Cells[i] = Cells[j] => i = j
    BY <2>1 DEF SliceHolds
  <2>5. \A v \in Members : \E i \in 1 .. slice.len : Cells[i] = v
    BY <2>1 DEF SliceHolds
  <2>6. \A i \in 1 .. slice.len + 1 : i \in 1 .. slice.len \/ i = slice.len + 1
    BY <1>3
  <2>7. \A i, j \in 1 .. slice.len + 1 : Cells'[i] = Cells'[j] => i = j
    BY <1>1, <2>2, <2>3, <2>4, <2>6
  <2>8. \A i \in 1 .. slice.len + 1 : Cells'[i] \in Members'
    BY <1>1, <2>2, <2>3, <2>6
  <2>9. \A v \in Members' : \E i \in 1 .. slice.len + 1 : Cells'[i] = v
    <3>1. 1 .. slice.len \subseteq 1 .. slice.len + 1 /\ slice.len + 1 \in 1 .. slice.len + 1
      BY <1>3
    <3> QED
      BY <1>1, <2>2, <2>3, <2>5, <3>1
  <2> QED
    BY <2>1, <2>7, <2>8, <2>9 DEF SliceHolds
<1>6. WalksWhole'
  <2> SUFFICES ASSUME NEW s \in Senders, Walking(s), s \notin disturbed
               PROVE  WalkWhole(s)'
    BY <1>3 DEF WalksWhole, Walking, senderVars
  <2>1. WalkWhole(s)
    BY DEF WalksWhole
  <2>2. PICK a \in DOMAIN arrays : a = snap[s].arr
    BY DEF SenderTypes
  <2>3. PICK n \in Nat : n = snap[s].len /\ n <= Len(arrays[a]) /\ (a = slice.arr => n <= slice.len)
    BY <2>1, <2>2 DEF SenderTypes, SliceType, WalkWhole
  <2>4. Len(arrays[a]) \in Nat
    BY DEF SliceTypes
  <2>5. \A i \in 1 .. n : arrays'[a][i] = arrays[a][i]
    BY <1>2, <1>3, <2>3, <2>4
  <2>6. OnceEach(arrays'[a], n, steady[s])
    <3>1. OnceEach(arrays[a], n, steady[s])
      BY <2>1, <2>2, <2>3 DEF WalkWhole
    <3> QED
      BY <2>5, <3>1 DEF OnceEach
  <2>7. a = slice'.arr => n <= slice'.len
    BY <1>1, <1>3, <2>3
  <2>8. \A i \in 1 .. at[s] - 1 : i \in 1 .. n
    BY <2>1, <2>3 DEF WalkWhole, SenderTypes
  <2>9. UNCHANGED <<snap, at, got, steady>>
    BY <1>3 DEF senderVars
  <2>10. /\ at[s] <= n + 1 /\ Len(got[s]) = at[s] - 1
         /\ \A i \in 1 .. at[s] - 1 : got[s][i] = arrays'[a][i]
    BY <2>1, <2>2, <2>3, <2>5, <2>8 DEF WalkWhole
  <2> QED
    BY <1>3, <2>2, <2>3, <2>6, <2>7, <2>9, <2>10 DEF WalkWhole
<1>7. WritesWhole'
  BY <1>3 DEF WritesWhole, Walking, senderVars
<1> QED
  BY <1>1, <1>4, <1>5, <1>6, <1>7

\* An unsubscribe finds its writer in exactly one cell, which becomes the hole.
LEMMA BeginUnsubscribeKeeps ==
  ASSUME WriterInv, NEW w \in Writers, BeginUnsubscribe(w), Nil \notin Writers
  PROVE  WriterInv'
<1> USE DEF WriterInv
<1>1. PICK h \in 1 .. slice.len : Cells[h] = w /\ hole' = h
  BY DEF BeginUnsubscribe
<1>2. /\ lock = Nil /\ hole = 0 /\ lock' = w /\ sub[w] = "yes" /\ slice.len \in Nat
      /\ steady' = [s \in Senders |-> steady[s] \ {w}]
      /\ disturbed' = disturbed \cup {s \in Senders : Walking(s)}
      /\ UNCHANGED <<arrays, slice, sub, snap, at, sent, got>>
  BY DEF BeginUnsubscribe, SliceTypes, SliceType
<1>3. SliceTypes'
  BY <1>1, <1>2 DEF SliceTypes, SliceType, Cells, Cell
<1>4. SenderTypes'
  BY <1>2 DEF SenderTypes
<1>5. SliceHolds'
  <2>1. Live = 1 .. slice.len /\ Live' = (1 .. slice.len) \ {h} /\ Cells' = Cells
    BY <1>1, <1>2 DEF Live, Cells
  <2>2. Members' = Members \ {w}
    BY <1>2 DEF Members
  <2> QED
    BY <1>1, <2>1, <2>2 DEF SliceHolds
<1>6. WalksWhole'
  BY <1>2 DEF WalksWhole, Walking
<1>7. WritesWhole'
  <2> SUFFICES ASSUME NEW s \in Senders, sent[s] > 0, ~Walking(s), s \notin disturbed
               PROVE  OnceEach(got[s], Len(got[s]), steady'[s])
    BY <1>2 DEF WritesWhole, Walking
  <2> QED
    BY <1>2 DEF WritesWhole, OnceEach
<1> QED
  BY <1>3, <1>4, <1>5, <1>6, <1>7

\* Moving a cell into the hole moves the hole up by one.
LEMMA MoveCellKeeps ==
  ASSUME WriterInv, NEW w \in Writers, MoveCell(w), Nil \notin Writers
  PROVE  WriterInv'
<1> USE DEF WriterInv
<1>1. /\ lock = w /\ lock # Nil /\ hole < slice.len /\ hole' = hole + 1
      /\ arrays' = [arrays EXCEPT ![slice.arr][hole] = Cells[hole + 1]]
      /\ UNCHANGED <<slice, lock, sub, senderVars>>
  BY DEF MoveCell
<1>2. /\ slice.len \in Nat /\ slice.len <= Len(Cells) /\ Len(Cells) \in Nat
      /\ hole \in Nat /\ hole # 0
      /\ slice.arr \in DOMAIN arrays /\ Cells \in Seq(Cell)
  BY <1>1 DEF SliceTypes, SliceType, Cells
<1>3. hole \in 1 .. Len(Cells) /\ hole + 1 \in 1 .. Len(Cells) /\ Cells[hole + 1] \in Cell
  BY <1>1, <1>2
<1>4. /\ arrays' \in Seq(Seq(Cell)) /\ DOMAIN arrays' = DOMAIN arrays
      /\ \A a \in DOMAIN arrays : Len(arrays'[a]) = Len(arrays[a])
      /\ arrays'[slice.arr][hole] = Cells[hole + 1]
      /\ \A i \in 1 .. Len(Cells) : i # hole => arrays'[slice.arr][i] = Cells[i]
  BY <1>1, <1>3, UpdateCell
<1>5. Cells' = arrays'[slice.arr] /\ Len(Cells') = Len(Cells)
  BY <1>1, <1>2, <1>4 DEF Cells
<1>6. SliceTypes'
  <2>1. hole' \in 0 .. slice.len /\ (lock' = Nil <=> hole' = 0)
    BY <1>1, <1>2
  <2> QED
    BY <1>1, <1>4, <1>5, <2>1 DEF SliceTypes
<1>7. SenderTypes'
  BY <1>1, <1>4 DEF SenderTypes, senderVars
<1>8. SliceHolds'
  <2>1. Live = (1 .. slice.len) \ {hole} /\ Live' = (1 .. slice.len) \ {hole + 1}
    BY <1>1 DEF Live
  <2>2. Members' = Members
    BY <1>1 DEF Members
  <2>3. /\ hole \in Live' /\ hole + 1 \in Live /\ Cells'[hole] = Cells[hole + 1]
        /\ hole \notin Live /\ hole + 1 \notin Live'
    BY <1>1, <1>2, <1>4, <1>5, <2>1
  <2>4. \A i \in Live' : i # hole => i \in Live /\ i # hole + 1 /\ Cells'[i] = Cells[i]
    <3>1. \A i \in Live' : i # hole => i \in Live /\ i # hole + 1
      BY <2>1
    <3>2. \A i \in Live' : i \in 1 .. Len(Cells)
      <4>1. PICK m \in Nat : m = slice.len
        BY <1>2
      <4>2. PICK n \in Nat : n = Len(Cells) /\ m <= n
        BY <1>2, <4>1
      <4>3. \A i \in 1 .. m : i \in 1 .. n
        BY <4>2
      <4> QED
        BY <2>1, <4>1, <4>2, <4>3
    <3> QED
      BY <1>4, <1>5, <3>1, <3>2
  <2>5. \A i \in Live : i # hole + 1 => i \in Live'
    BY <2>1
  <2>6. \A i, j \in Live' : Cells'[i] = Cells'[j] => i = j
    BY <2>3, <2>4 DEF SliceHolds
  <2>7. \A i \in Live' : Cells'[i] \in Members
    BY <2>3, <2>4 DEF SliceHolds
  <2>8. \A v \in Members : \E i \in Live' : Cells'[i] = v
    BY <2>3, <2>4, <2>5 DEF SliceHolds
  <2> QED
    BY <2>2, <2>6, <2>7, <2>8 DEF SliceHolds
<1>9. WalksWhole' /\ WritesWhole'
  BY <1>1 DEF WalksWhole, WalkWhole, WritesWhole, Walking, senderVars
<1> QED
  BY <1>6, <1>7, <1>8, <1>9

\* The hole has reached the end, and is cut off.
LEMMA EndUnsubscribeKeeps ==
  ASSUME WriterInv, NEW w \in Writers, EndUnsubscribe(w), Nil \notin Writers
  PROVE  WriterInv'
<1> USE DEF WriterInv
<1>1. /\ lock = w /\ lock # Nil /\ lock' = Nil /\ hole = slice.len /\ hole' = 0
      /\ slice' = [slice EXCEPT !.len = @ - 1]
      /\ sub' = [sub EXCEPT ![w] = "gone"]
      /\ UNCHANGED <<arrays, senderVars>>
  BY DEF EndUnsubscribe
<1>2. /\ slice.len \in Nat /\ slice.len # 0 /\ slice.arr \in Nat
      /\ slice'.arr = slice.arr /\ slice'.len = slice.len - 1 /\ slice' \in SliceType
  <2>1. slice \in SliceType /\ slice.len \in Nat /\ slice.arr \in Nat /\ slice.len # 0
    BY <1>1 DEF SliceTypes, SliceType
  <2>2. PICK n \in Nat : n = slice.len - 1
    BY <2>1
  <2>3. slice' = [slice EXCEPT !.len = n]
    BY <1>1, <2>2
  <2>4. slice'.arr = slice.arr /\ slice'.len = n /\ slice' \in SliceType
    BY <2>1, <2>3 DEF SliceType
  <2> QED
    BY <2>1, <2>2, <2>4
<1>3. Cells' = Cells
  BY <1>1, <1>2 DEF Cells
<1>4. SliceTypes'
  <2>1. slice'.arr \in DOMAIN arrays /\ slice'.len <= Len(Cells') /\ hole' \in 0 .. slice'.len
    BY <1>1, <1>2, <1>3 DEF SliceTypes, Cells
  <2>2. sub' \in [Writers -> {"no", "yes", "gone"}] /\ lock' \in Cell
    BY <1>1 DEF SliceTypes, Cell
  <2> QED
    BY <1>1, <1>2, <2>1, <2>2 DEF SliceTypes
<1>5. SenderTypes'
  BY <1>1 DEF SenderTypes, senderVars
<1>6. SliceHolds'
  <2>1. Live' = Live
    BY <1>1, <1>2 DEF Live
  <2>2. Members' = Members
    BY <1>1 DEF Members, SliceTypes
  <2> QED
    BY <1>3, <2>1, <2>2 DEF SliceHolds
<1>7. WalksWhole' /\ WritesWhole'
  BY <1>1 DEF WalksWhole, WalkWhole, WritesWhole, Walking, senderVars
<1> QED
  BY <1>4, <1>5, <1>6, <1>7

-----------------------------------------------------------------------------
(* The walks *)

\* A step of a sender leaves m.writers alone.
LEMMA SenderLeavesSlice ==
  ASSUME WriterInv, UNCHANGED sliceVars
  PROVE  SliceTypes' /\ SliceHolds'
BY DEF WriterInv, sliceVars, SliceTypes, SliceHolds, Live, Members, Cells

\* A Write begins with the cells of m.writers, which hold its subscribers.
LEMMA CopySliceKeeps ==
  ASSUME WriterInv, NEW s \in Senders, CopySlice(s), Nil \notin Writers
  PROVE  WriterInv'
<1>1. SliceTypes /\ SenderTypes /\ SliceHolds /\ WalksWhole /\ WritesWhole
  BY DEF WriterInv
<1>2. /\ lock = Nil /\ hole = 0 /\ ~Walking(s)
      /\ sent' = [sent EXCEPT ![s] = @ + 1]
      /\ snap' = [snap EXCEPT ![s] = slice]
      /\ at' = [at EXCEPT ![s] = 1]
      /\ got' = [got EXCEPT ![s] = <<>>]
      /\ steady' = [steady EXCEPT ![s] = {w \in Writers : sub[w] = "yes"}]
      /\ disturbed' = disturbed \ {s}
      /\ arrays' = arrays /\ slice' = slice /\ lock' = lock
  BY <1>1 DEF CopySlice, sliceVars, SliceTypes
<1>3. SliceTypes' /\ SliceHolds'
  BY SenderLeavesSlice DEF CopySlice
<1>4. /\ snap'[s] = slice /\ at'[s] = 1 /\ got'[s] = <<>> /\ steady'[s] = Members
      /\ \A r \in Senders : r # s =>
           /\ snap'[r] = snap[r] /\ at'[r] = at[r] /\ sent'[r] = sent[r]
           /\ got'[r] = got[r] /\ steady'[r] = steady[r]
           /\ r \in disturbed <=> r \in disturbed'
  <2>1. Members = {w \in Writers : sub[w] = "yes"}
    BY <1>2 DEF Members
  <2> QED
    BY <1>1, <1>2, <2>1 DEF SenderTypes
<1>5. SenderTypes'
  <2>1. /\ at' \in [Senders -> Nat] /\ sent' \in [Senders -> Nat]
        /\ got' \in [Senders -> Seq(Cell)] /\ steady' \in [Senders -> SUBSET Writers]
        /\ disturbed' \subseteq Senders
    <3>1. 1 \in Nat /\ sent[s] + 1 \in Nat /\ <<>> \in Seq(Cell)
      BY <1>1 DEF SenderTypes
    <3> QED
      BY <1>1, <1>2, <3>1 DEF SenderTypes
  <2>2. snap' \in [Senders -> SliceType]
    BY <1>1, <1>2 DEF SenderTypes, SliceTypes
  <2>3. \A r \in Senders : snap'[r].arr \in DOMAIN arrays /\ snap'[r].len <= Len(arrays[snap'[r].arr])
    BY <1>1, <1>4 DEF SenderTypes, SliceTypes, Cells
  <2> QED
    BY <1>2, <2>1, <2>2, <2>3 DEF SenderTypes
<1>6. OnceEach(Cells, slice.len, Members)
  <2>1. Live = 1 .. slice.len
    BY <1>2 DEF Live
  <2> QED
    BY <1>1, <2>1 DEF SliceHolds, OnceEach
<1>7. WalkWhole(s)'
  <2>1. slice.len \in Nat /\ Len(<<>>) = 0
    BY <1>1 DEF SliceTypes, SliceType
  <2>2. OnceEach(arrays[slice.arr], slice.len, Members)
    BY <1>6 DEF Cells
  <2>3. 1 <= slice.len + 1 /\ 0 = 1 - 1 /\ slice.len <= slice.len /\ 1 .. 1 - 1 = {}
    BY <2>1
  <2> QED
    BY <1>2, <1>4, <2>1, <2>2, <2>3 DEF WalkWhole
<1>8. WalksWhole'
  <2> SUFFICES ASSUME NEW r \in Senders, Walking(r)', r \notin disturbed', r # s
               PROVE  WalkWhole(r)'
    BY <1>7 DEF WalksWhole
  <2>1. WalkWhole(r)
    BY <1>1, <1>4 DEF WalksWhole, Walking
  <2> QED
    BY <1>2, <1>4, <2>1 DEF WalkWhole
<1>9. WritesWhole'
  <2> SUFFICES ASSUME NEW r \in Senders, sent'[r] > 0, ~Walking(r)', r \notin disturbed'
               PROVE  OnceEach(got'[r], Len(got'[r]), steady'[r])
    BY DEF WritesWhole
  <2>1. r # s
    BY <1>4 DEF Walking
  <2> QED
    BY <1>1, <1>4, <2>1 DEF WritesWhole, Walking
<1> QED
  BY <1>3, <1>5, <1>8, <1>9 DEF WriterInv

\* A writer is written to: the next cell of the walk.
LEMMA WriteOneKeeps ==
  ASSUME WriterInv, NEW s \in Senders, WriteOne(s)
  PROVE  WriterInv'
<1>1. SliceTypes /\ SenderTypes /\ SliceHolds /\ WalksWhole /\ WritesWhole
  BY DEF WriterInv
<1>2. PICK v, k : v = arrays[snap[s].arr][at[s]] /\ k = at[s]
  OBVIOUS
<1>3. /\ Walking(s) /\ k \in Nat /\ k > 0 /\ k <= snap[s].len /\ snap[s].len \in Nat
      /\ got' = [got EXCEPT ![s] = Append(@, v)]
      /\ at' = [at EXCEPT ![s] = k + 1]
      /\ UNCHANGED <<sliceVars, snap, sent, steady, disturbed>>
  BY <1>1, <1>2 DEF WriteOne, Walking, SenderTypes, SliceType
<1>4. SliceTypes' /\ SliceHolds'
  BY <1>3, SenderLeavesSlice
<1>5. v \in Cell /\ got[s] \in Seq(Cell)
  <2>1. snap[s].arr \in DOMAIN arrays /\ snap[s].len <= Len(arrays[snap[s].arr]) /\ got[s] \in Seq(Cell)
    BY <1>1 DEF SenderTypes
  <2>2. arrays[snap[s].arr] \in Seq(Cell)
    BY <1>1, <2>1 DEF SliceTypes
  <2>3. k \in 1 .. Len(arrays[snap[s].arr])
    BY <1>3, <2>1, <2>2
  <2> QED
    BY <1>2, <2>1, <2>2, <2>3
<1>6. /\ Append(got[s], v) \in Seq(Cell) /\ Len(Append(got[s], v)) = Len(got[s]) + 1
      /\ Append(got[s], v)[Len(got[s]) + 1] = v
      /\ \A i \in 1 .. Len(got[s]) : Append(got[s], v)[i] = got[s][i]
  BY <1>5
<1>7. /\ got'[s] = Append(got[s], v) /\ at'[s] = k + 1
      /\ \A r \in Senders : r # s => got'[r] = got[r] /\ at'[r] = at[r]
  BY <1>1, <1>3 DEF SenderTypes
<1>8. SenderTypes'
  <2>1. at' \in [Senders -> Nat] /\ got' \in [Senders -> Seq(Cell)]
    <3>1. k + 1 \in Nat
      BY <1>3
    <3> QED
      BY <1>1, <1>3, <1>6, <3>1 DEF SenderTypes
  <2> QED
    BY <1>1, <1>3, <2>1 DEF SenderTypes, sliceVars
<1>9. WalksWhole'
  <2> SUFFICES ASSUME NEW r \in Senders, Walking(r)', r \notin disturbed'
               PROVE  WalkWhole(r)'
    BY DEF WalksWhole
  <2>1. CASE r # s
    <3>1. WalkWhole(r)
      BY <1>1, <1>3, <1>7, <2>1 DEF WalksWhole, Walking
    <3> QED
      BY <1>3, <1>7, <2>1, <3>1 DEF WalkWhole, sliceVars
  <2>2. CASE r = s
    <3>1. WalkWhole(s)
      BY <1>1, <1>3, <2>2 DEF WalksWhole
    <3>2. Len(got[s]) = k - 1 /\ \A i \in 1 .. k - 1 : got[s][i] = arrays[snap[s].arr][i]
      BY <1>2, <3>1 DEF WalkWhole
    <3>3. Len(got[s]) + 1 = k /\ k + 1 <= snap[s].len + 1 /\ k + 1 - 1 = k
      BY <1>3, <3>2
    <3>4. Len(got'[s]) = k
      BY <1>6, <1>7, <3>3
    <3>5. \A i \in 1 .. k : got'[s][i] = arrays[snap[s].arr][i]
      <4> SUFFICES ASSUME NEW i \in 1 .. k
                   PROVE  got'[s][i] = arrays[snap[s].arr][i]
        OBVIOUS
      <4>1. i = k \/ i \in 1 .. k - 1
        BY <1>3
      <4>2. CASE i = k
        BY <1>2, <1>6, <1>7, <3>3, <4>2
      <4>3. CASE i \in 1 .. k - 1
        BY <1>6, <1>7, <3>2, <4>3
      <4> QED
        BY <4>1, <4>2, <4>3
    <3>6. at'[s] <= snap[s].len + 1 /\ Len(got'[s]) = at'[s] - 1 /\ 1 .. at'[s] - 1 = 1 .. k
      BY <1>7, <3>3, <3>4
    <3> QED
      BY <1>3, <2>2, <3>1, <3>5, <3>6 DEF WalkWhole, sliceVars
  <2> QED
    BY <2>1, <2>2
<1>10. WritesWhole'
  <2> SUFFICES ASSUME NEW r \in Senders, sent'[r] > 0, ~Walking(r)', r \notin disturbed'
               PROVE  OnceEach(got'[r], Len(got'[r]), steady'[r])
    BY DEF WritesWhole
  <2>1. r # s
    BY <1>3, <1>7 DEF Walking
  <2> QED
    BY <1>1, <1>3, <1>7, <2>1 DEF WritesWhole, Walking
<1> QED
  BY <1>4, <1>8, <1>9, <1>10 DEF WriterInv

\* A Write returns once it has written to every cell.
LEMMA WriteReturnsKeeps ==
  ASSUME WriterInv, NEW s \in Senders, WriteReturns(s)
  PROVE  WriterInv'
<1>1. SliceTypes /\ SenderTypes /\ SliceHolds /\ WalksWhole /\ WritesWhole
  BY DEF WriterInv
<1>2. /\ Walking(s) /\ at[s] > snap[s].len /\ at' = [at EXCEPT ![s] = 0]
      /\ UNCHANGED <<sliceVars, snap, sent, got, steady, disturbed>>
  BY DEF WriteReturns
<1>3. SliceTypes' /\ SliceHolds'
  BY <1>2, SenderLeavesSlice
<1>4. at' \in [Senders -> Nat] /\ at'[s] = 0 /\ \A r \in Senders : r # s => at'[r] = at[r]
  BY <1>1, <1>2 DEF SenderTypes
<1>5. SenderTypes'
  BY <1>1, <1>2, <1>4 DEF SenderTypes, sliceVars
<1>6. WalksWhole'
  <2> SUFFICES ASSUME NEW r \in Senders, Walking(r)', r \notin disturbed'
               PROVE  WalkWhole(r)'
    BY DEF WalksWhole
  <2>1. r # s
    BY <1>4 DEF Walking
  <2>2. WalkWhole(r)
    BY <1>1, <1>2, <1>4, <2>1 DEF WalksWhole, Walking
  <2> QED
    BY <1>2, <1>4, <2>1, <2>2 DEF WalkWhole, sliceVars
<1>7. WritesWhole'
  <2> SUFFICES ASSUME NEW r \in Senders, sent[r] > 0, ~Walking(r)', r \notin disturbed
               PROVE  OnceEach(got[r], Len(got[r]), steady[r])
    BY <1>2 DEF WritesWhole
  <2>1. CASE r # s
    BY <1>1, <1>4, <2>1 DEF WritesWhole, Walking
  <2>2. CASE r = s
    <3>1. WalkWhole(s)
      BY <1>1, <1>2, <2>2 DEF WalksWhole
    <3>2. PICK n \in Nat : n = snap[s].len
      BY <1>1 DEF SenderTypes, SliceType
    <3>3. at[s] \in Nat /\ at[s] <= n + 1 /\ at[s] > n /\ Len(got[s]) = at[s] - 1
      BY <1>1, <1>2, <3>1, <3>2 DEF SenderTypes, WalkWhole
    <3>4. Len(got[s]) = n /\ at[s] - 1 = n
      BY <3>3
    <3>5. OnceEach(arrays[snap[s].arr], n, steady[s]) /\ \A i \in 1 .. n : got[s][i] = arrays[snap[s].arr][i]
      BY <3>1, <3>2, <3>4 DEF WalkWhole
    <3>6. OnceEach(got[s], n, steady[s])
      BY <3>5 DEF OnceEach
    <3> QED
      BY <2>2, <3>4, <3>6
  <2> QED
    BY <2>1, <2>2
<1> QED
  BY <1>3, <1>5, <1>6, <1>7 DEF WriterInv

\* WriterInv holds of a multi writer without writers.
LEMMA WriterInvInit == Init => WriterInv
<1> SUFFICES ASSUME Init PROVE WriterInv
  OBVIOUS
<1>1. /\ arrays = << <<>> >> /\ slice = Slice /\ lock = Nil /\ hole = 0
      /\ sub = [w \in Writers |-> "no"] /\ snap = [s \in Senders |-> Slice]
      /\ at = [s \in Senders |-> 0] /\ sent = [s \in Senders |-> 0]
      /\ got = [s \in Senders |-> <<>>] /\ steady = [s \in Senders |-> {}] /\ disturbed = {}
  BY DEF Init, WriterInit
<1>2. Slice \in SliceType /\ Slice.arr = 1 /\ Slice.len = 0
  BY DEF Slice, SliceType
<1>3. arrays \in Seq(Seq(Cell)) /\ 1 \in DOMAIN arrays /\ Len(arrays[1]) = 0
  BY <1>1
<1>4. SliceTypes
  BY <1>1, <1>2, <1>3 DEF SliceTypes, Cells, Cell
<1>5. SenderTypes
  BY <1>1, <1>2, <1>3 DEF SenderTypes
<1>6. SliceHolds
  BY <1>1, <1>2 DEF SliceHolds, Live, Members
<1>7. WalksWhole /\ WritesWhole
  BY <1>1 DEF WalksWhole, WritesWhole, Walking
<1> QED
  BY <1>4, <1>5, <1>6, <1>7 DEF WriterInv

\* Every step of Subscribe, unsubscribe and Write keeps WriterInv.
LEMMA WriterInvStep ==
  ASSUME WriterInv, [Next]_vars
  PROVE  WriterInv'
<1>1. Nil \notin Writers
  BY MultiServerConstants
<1>2. CASE UNCHANGED writerVars
  BY <1>2 DEF writerVars, sliceVars, senderVars, WriterInv, SliceTypes, SenderTypes, SliceHolds,
              Live, Members, Cells, WalksWhole, WalkWhole, WritesWhole, Walking
<1>3. ASSUME NEW c \in Conns, RunStep(c)
      PROVE  WriterInv'
  <2>1. Subscribe(c) => WriterInv'
    BY <1>1, SubscribeKeeps DEF Conns
  <2>2. BeginUnsubscribe(c) \/ MoveCell(c) \/ EndUnsubscribe(c) => WriterInv'
    BY <1>1, BeginUnsubscribeKeeps, MoveCellKeeps, EndUnsubscribeKeeps DEF Conns
  <2> QED
    BY <1>2, <1>3, <2>1, <2>2 DEF RunStep, AddConn, AddResponses, SubscribeConn, ReadRequest,
       ServerReturns, UnsubscribeConn, DoneConn
<1>4. ASSUME NEW s \in Senders, Send(s)
      PROVE  WriterInv'
  BY <1>1, <1>4, CopySliceKeeps, WriteOneKeeps, WriteReturnsKeeps DEF Send, SenderStep
<1>5. ASSUME NEW c \in Conns, RequestEnds(c) \/ DoneResponses(c)
      PROVE  WriterInv'
  BY <1>2, <1>5 DEF RequestEnds, DoneResponses, ResponsesDone
<1>6. ASSUME NEW w \in Waiters, WokenReturns(w) \/ \E g \in Groups : Wait(w, g)
      PROVE  WriterInv'
  BY <1>2, <1>6 DEF WokenReturns, Wait
<1> QED
  BY <1>2, <1>3, <1>4, <1>5, <1>6 DEF Next, vars

\* The slice of writers always holds each subscribed writer once, but for the hole of an
\* unsubscribe under way, and a Write that no unsubscribe falls into walks over cells that
\* neither Subscribe nor append changes any more.
THEOREM WriterInvariant == Spec => []WriterInv
BY WriterInvInit, WriterInvStep, PTL DEF Spec

\* A Write during which nothing is unsubscribed reaches every writer subscribed all along
\* exactly once, whatever Subscribe appends meanwhile (MultiWriter.Write walks its copy of
\* the slice without the mutex).
THEOREM UndisturbedWrites == Spec => []UndisturbedReachesAll
<1>1. WriterInv => UndisturbedReachesAll
  <2> SUFFICES ASSUME WriterInv, NEW s \in Senders, sent[s] > 0, ~Walking(s), s \notin disturbed,
                      NEW w \in steady[s]
               PROVE  Times(s, w) = 1
    BY DEF UndisturbedReachesAll
  <2>1. OnceEach(got[s], Len(got[s]), steady[s]) /\ got[s] \in Seq(Cell)
    BY DEF WriterInv, WritesWhole, SenderTypes
  <2>2. DOMAIN got[s] = 1 .. Len(got[s])
    BY <2>1
  <2>3. PICK i \in DOMAIN got[s] : got[s][i] = w
    BY <2>1, <2>2 DEF OnceEach
  <2>4. {j \in DOMAIN got[s] : got[s][j] = w} = {i}
    BY <2>1, <2>2, <2>3 DEF OnceEach
  <2> QED
    BY <2>4, FS_Singleton DEF Times
<1> QED
  BY <1>1, WriterInvariant, PTL

-----------------------------------------------------------------------------
(* The WaitGroups *)

\* A conn that Add counts is one more in the WaitGroup.
LEMMA AddCounts ==
  ASSUME ConnTypes, CountersRight, NEW g \in Groups, NEW c \in Conns, Add(g), c \notin Counted(g),
         Counted(g)' = Counted(g) \cup {c},
         \A h \in Groups : h # g => Counted(h)' = Counted(h)
  PROVE  CountersRight' /\ counter' \in [Groups -> Nat]
<1>1. IsFiniteSet(Counted(g)) /\ counter[g] = Cardinality(Counted(g)) /\ counter[g] \in Nat
  BY DEF CountersRight, ConnTypes
<1>2. counter' = [counter EXCEPT ![g] = counter[g] + 1] /\ counter \in [Groups -> Nat]
  BY DEF Add, ConnTypes
<1>3. counter' \in [Groups -> Nat] /\ counter'[g] = counter[g] + 1
  BY <1>1, <1>2
<1>4. \A h \in Groups : h # g => counter'[h] = counter[h]
  BY <1>2
<1>5. IsFiniteSet(Counted(g)') /\ Cardinality(Counted(g)') = counter[g] + 1
  BY <1>1, FS_AddElement
<1> QED
  BY <1>3, <1>4, <1>5 DEF CountersRight

\* A conn that Done takes out of the WaitGroup is one less, and the last one leaves it empty.
LEMMA DoneCounts ==
  ASSUME ConnTypes, CountersRight, NEW g \in Groups, NEW c \in Counted(g), Done(g),
         Counted(g)' = Counted(g) \ {c},
         \A h \in Groups : h # g => Counted(h)' = Counted(h)
  PROVE  /\ CountersRight' /\ counter' \in [Groups -> Nat]
         /\ counter[g] = 1 => Counted(g)' = {}
<1>1. IsFiniteSet(Counted(g)) /\ counter[g] = Cardinality(Counted(g)) /\ counter[g] \in Nat
  BY DEF CountersRight, ConnTypes
<1>2. counter' = [counter EXCEPT ![g] = counter[g] - 1] /\ counter \in [Groups -> Nat]
  BY DEF Done, ConnTypes
<1>3. IsFiniteSet(Counted(g)') /\ Cardinality(Counted(g)') = counter[g] - 1
  BY <1>1, FS_RemoveElement
<1>4. counter[g] - 1 \in Nat
  BY <1>3, FS_CardinalityType
<1>5. counter' \in [Groups -> Nat] /\ counter'[g] = counter[g] - 1
  BY <1>2, <1>4
<1>6. \A h \in Groups : h # g => counter'[h] = counter[h]
  BY <1>2
<1>7. counter[g] = 1 => Counted(g)' = {}
  BY <1>3, FS_EmptySet
<1> QED
  BY <1>3, <1>5, <1>6, <1>7 DEF CountersRight

\* A step that wakes nobody, loses no conn from a WaitGroup before its end, and undoes no end.
LEMMA WaitersKeep ==
  ASSUME WaitersRight, UNCHANGED <<waiting, before>>, ConnTypes,
         \A g \in Groups, c \in Conns : Ended(g, c) => Ended(g, c)',
         \A g \in Groups, c \in Conns : c \in Counted(g) => c \in Counted(g)' \/ Ended(g, c)'
  PROVE  WaitersRight'
<1> SUFFICES ASSUME NEW w \in Waiters
             PROVE  /\ waiting[w].at # "idle" => waiting[w].on \in Groups
                    /\ waiting[w].at = "waiting" =>
                         \A c \in before[w] : c \in Counted(waiting[w].on)' \/ Ended(waiting[w].on, c)'
                    /\ waiting[w].at \in {"woken", "returned"} => \A c \in before[w] : Ended(waiting[w].on, c)'
  BY DEF WaitersRight
<1>1. before[w] \subseteq Conns
  BY DEF ConnTypes
<1> QED
  BY <1>1 DEF WaitersRight

\* The last Done of a WaitGroup wakes its waiters, and everything they waited for has ended.
LEMMA WaitersDone ==
  ASSUME WaitersRight, ConnTypes, NEW g \in Groups, Done(g),
         counter[g] = 1 => Counted(g)' = {},
         \A h \in Groups, c \in Conns : Ended(h, c) => Ended(h, c)',
         \A h \in Groups, c \in Conns : c \in Counted(h) => c \in Counted(h)' \/ Ended(h, c)'
  PROVE  /\ WaitersRight'
         /\ waiting' \in [Waiters -> [on : Groups \cup {"none"}, at : {"idle", "waiting", "woken", "returned"}]]
<1>1. /\ before' = before
      /\ waiting' = [w \in Waiters |->
           IF counter[g] = 1 /\ waiting[w] = [on |-> g, at |-> "waiting"]
           THEN [on |-> g, at |-> "woken"] ELSE waiting[w]]
  BY DEF Done
<1>2. waiting' \in [Waiters -> [on : Groups \cup {"none"}, at : {"idle", "waiting", "woken", "returned"}]]
  BY <1>1 DEF ConnTypes
<1>3. ASSUME NEW w \in Waiters
      PROVE  (/\ waiting[w].at # "idle" => waiting[w].on \in Groups
              /\ waiting[w].at = "waiting" =>
                   \A c \in before[w] : c \in Counted(waiting[w].on) \/ Ended(waiting[w].on, c)
              /\ waiting[w].at \in {"woken", "returned"} => \A c \in before[w] : Ended(waiting[w].on, c))'
  <2>1. before[w] \subseteq Conns
    BY DEF ConnTypes
  <2>2. CASE waiting'[w] = waiting[w]
    <3>1. PICK h : h = waiting[w].on
      OBVIOUS
    <3>2. /\ waiting[w].at # "idle" => h \in Groups
          /\ waiting[w].at = "waiting" => \A c \in before[w] : c \in Counted(h)' \/ Ended(h, c)'
          /\ waiting[w].at \in {"woken", "returned"} => \A c \in before[w] : Ended(h, c)'
      BY <2>1, <3>1 DEF WaitersRight
    <3>3. waiting'[w].on = h /\ waiting'[w].at = waiting[w].at
      BY <2>2, <3>1
    <3> QED
      BY <1>1, <3>2, <3>3
  <2>3. CASE waiting'[w] # waiting[w]
    <3>1. /\ counter[g] = 1 /\ waiting[w].on = g /\ waiting[w].at = "waiting"
          /\ waiting'[w].on = g /\ waiting'[w].at = "woken"
      BY <1>1, <2>3
    <3>2. \A c \in before[w] : c \in Counted(g) \/ Ended(g, c)
      BY <3>1 DEF WaitersRight
    <3>3. \A c \in before[w] : Ended(g, c)'
      BY <2>1, <3>1, <3>2
    <3> QED
      BY <1>1, <3>1, <3>3
  <2> QED
    BY <2>2, <2>3
<1> QED
  BY <1>2, <1>3 DEF WaitersRight

-----------------------------------------------------------------------------
(* The steps of a conn *)

\* A conn is unsubscribed once: what has left the multi writer does not come back.
LEMMA GoneStays ==
  ASSUME SliceTypes, NEW c \in Conns, NEW d \in Conns, sub[d] = "gone",
         \/ UNCHANGED writerVars
         \/ Subscribe(c) \/ BeginUnsubscribe(c) \/ MoveCell(c) \/ EndUnsubscribe(c)
  PROVE  sub'[d] = "gone"
<1>1. sub \in [Conns -> {"no", "yes", "gone"}]
  BY DEF SliceTypes, Conns
<1>2. \/ UNCHANGED sub
      \/ sub[c] = "no" /\ sub' = [sub EXCEPT ![c] = "yes"]
      \/ sub' = [sub EXCEPT ![c] = "gone"]
  BY DEF writerVars, sliceVars, Subscribe, BeginUnsubscribe, MoveCell, EndUnsubscribe
<1> QED
  BY <1>1, <1>2

\* Run adds its conn to waitConns, and then to waitResponses.
LEMMA AddsKeep ==
  ASSUME SliceTypes, WaitInv, NEW c \in Conns, AddConn(c) \/ AddResponses(c)
  PROVE  WaitInv'
<1>1. ConnTypes /\ TidyFollows /\ CountersRight /\ WaitersRight
  BY DEF WaitInv
<1>2. PICK g \in Groups, to \in {"adding", "subscribing"} :
        /\ Add(g) /\ pc' = [pc EXCEPT ![c] = to]
        /\ \/ g = "waitConns" /\ pc[c] = "new" /\ to = "adding"
           \/ g = "waitResponses" /\ pc[c] = "adding" /\ to = "subscribing"
  BY DEF AddConn, AddResponses, Goto, Groups
<1>3. UNCHANGED <<running, tidy, waiting, before, sub>>
  BY DEF AddConn, AddResponses, Add, writerVars, sliceVars
<1>4. pc'[c] = to /\ (\A d \in Conns : d # c => pc'[d] = pc[d]) /\ tidy[c] = "none"
  BY <1>1, <1>2 DEF ConnTypes, TidyFollows
<1>5. c \notin Counted(g) /\ Counted(g)' = Counted(g) \cup {c}
  BY <1>2, <1>3, <1>4 DEF Counted, Groups
<1>6. \A h \in Groups : h # g => Counted(h)' = Counted(h)
  BY <1>2, <1>3, <1>4 DEF Counted, Groups
<1>7. CountersRight' /\ counter' \in [Groups -> Nat]
  BY <1>1, <1>2, <1>5, <1>6, AddCounts
<1>8. pc' \in [Conns -> {"new", "adding", "subscribing", "serving", "unsubscribing", "leaving", "returned"}]
  BY <1>1, <1>2 DEF ConnTypes
<1>9. ConnTypes'
  BY <1>1, <1>3, <1>7, <1>8 DEF ConnTypes
<1>10. TidyFollows'
  BY <1>1, <1>2, <1>3, <1>4 DEF TidyFollows
<1>11. WaitersRight'
  <2>1. \A h \in Groups, d \in Conns : Ended(h, d) => Ended(h, d)'
    BY <1>2, <1>3, <1>4 DEF Ended
  <2>2. \A h \in Groups, d \in Conns : d \in Counted(h) => d \in Counted(h)'
    BY <1>5, <1>6
  <2> QED
    BY <1>1, <1>3, <2>1, <2>2, WaitersKeep
<1> QED
  BY <1>7, <1>9, <1>10, <1>11 DEF WaitInv

\* The steps of a conn that neither enter nor leave a WaitGroup.
LEMMA ServingKeeps ==
  ASSUME SliceTypes, WaitInv, NEW c \in Conns,
         SubscribeConn(c) \/ ReadRequest(c) \/ ServerReturns(c) \/ UnsubscribeConn(c) \/ RequestEnds(c)
  PROVE  WaitInv'
<1>1. ConnTypes /\ TidyFollows /\ CountersRight /\ WaitersRight
  BY DEF WaitInv
<1>2. UNCHANGED <<counter, waiting, before>>
  BY DEF SubscribeConn, ReadRequest, ServerReturns, UnsubscribeConn, RequestEnds, waitVars
<1>3. \A d \in Conns : sub[d] = "gone" => sub'[d] = "gone"
  BY GoneStays DEF SubscribeConn, ReadRequest, ServerReturns, UnsubscribeConn, RequestEnds
<1>4. \/ UNCHANGED <<pc, tidy>>
      \/ UNCHANGED tidy /\ pc[c] = "subscribing" /\ pc' = [pc EXCEPT ![c] = "serving"]
      \/ UNCHANGED tidy /\ pc[c] = "serving" /\ pc' = [pc EXCEPT ![c] = "unsubscribing"]
      \/ /\ pc[c] = "unsubscribing" /\ pc' = [pc EXCEPT ![c] = "leaving"]
         /\ tidy' = [tidy EXCEPT ![c] = "waiting"] /\ sub' = [sub EXCEPT ![c] = "gone"]
  BY DEF SubscribeConn, ReadRequest, ServerReturns, UnsubscribeConn, RequestEnds, Goto, EndUnsubscribe
<1>5. \/ UNCHANGED running
      \/ pc[c] = "serving" /\ UNCHANGED tidy /\ running' = [running EXCEPT ![c] = running[c] + 1]
      \/ running[c] > 0 /\ UNCHANGED tidy /\ running' = [running EXCEPT ![c] = running[c] - 1]
  BY DEF SubscribeConn, ReadRequest, ServerReturns, UnsubscribeConn, RequestEnds
<1>6. ConnTypes'
  <2>1. pc' \in [Conns -> {"new", "adding", "subscribing", "serving", "unsubscribing", "leaving", "returned"}]
    BY <1>1, <1>4 DEF ConnTypes
  <2>2. tidy' \in [Conns -> {"none", "waiting", "done"}]
    BY <1>1, <1>4 DEF ConnTypes
  <2>3. running' \in [Conns -> Nat]
    <3>1. running[c] \in Nat /\ running[c] + 1 \in Nat /\ (running[c] > 0 => running[c] - 1 \in Nat)
      BY <1>1 DEF ConnTypes
    <3> QED
      BY <1>1, <1>5, <3>1 DEF ConnTypes
  <2> QED
    BY <1>1, <1>2, <2>1, <2>2, <2>3 DEF ConnTypes
<1>7. /\ \A d \in Conns : d # c => pc'[d] = pc[d] /\ tidy'[d] = tidy[d] /\ running'[d] = running[d]
      /\ \/ pc'[c] = pc[c] /\ tidy'[c] = tidy[c]
         \/ tidy'[c] = tidy[c] /\ pc[c] = "subscribing" /\ pc'[c] = "serving"
         \/ tidy'[c] = tidy[c] /\ pc[c] = "serving" /\ pc'[c] = "unsubscribing"
         \/ pc[c] = "unsubscribing" /\ pc'[c] = "leaving" /\ tidy'[c] = "waiting" /\ sub'[c] = "gone"
  BY <1>1, <1>4, <1>5 DEF ConnTypes, SliceTypes, Conns
<1>8. tidy[c] = "none" \/ pc[c] \in {"leaving", "returned"}
  BY <1>1 DEF TidyFollows
<1>9. tidy'[c] = "done" => running'[c] = 0
  <2> SUFFICES ASSUME tidy'[c] = "done" PROVE running'[c] = 0
    OBVIOUS
  <2>1. tidy[c] = "done" /\ running[c] = 0 /\ pc[c] # "serving"
    BY <1>1, <1>7, <1>8 DEF TidyFollows
  <2> QED
    BY <1>5, <2>1
<1>10. TidyFollows'
  <2> SUFFICES ASSUME NEW d \in Conns
               PROVE  /\ tidy'[d] # "none" <=> pc'[d] \in {"leaving", "returned"}
                      /\ tidy'[d] # "none" => sub'[d] = "gone"
                      /\ tidy'[d] = "done" => running'[d] = 0
    BY DEF TidyFollows
  <2>1. CASE d # c
    BY <1>1, <1>3, <1>7, <2>1 DEF TidyFollows
  <2>2. CASE d = c
    BY <1>1, <1>3, <1>7, <1>8, <1>9, <2>2 DEF TidyFollows
  <2> QED
    BY <2>1, <2>2
<1>11. \A h \in Groups : Counted(h)' = Counted(h)
  BY <1>7, <1>8 DEF Counted
<1>12. CountersRight'
  BY <1>1, <1>2, <1>11 DEF CountersRight
<1>13. WaitersRight'
  <2>1. \A h \in Groups, d \in Conns : Ended(h, d) => Ended(h, d)'
    BY <1>7, <1>8 DEF Ended
  <2> QED
    BY <1>1, <1>2, <1>11, <2>1, WaitersKeep
<1> QED
  BY <1>6, <1>10, <1>12, <1>13 DEF WaitInv

\* Run leaves waitConns, and the goroutine it left behind waitResponses.
LEMMA DonesKeep ==
  ASSUME SliceTypes, WaitInv, NEW c \in Conns, DoneConn(c) \/ DoneResponses(c)
  PROVE  WaitInv'
<1>1. ConnTypes /\ TidyFollows /\ CountersRight /\ WaitersRight
  BY DEF WaitInv
<1>2. PICK g \in Groups :
        /\ Done(g)
        /\ \/ g = "waitConns" /\ pc[c] = "leaving" /\ pc' = [pc EXCEPT ![c] = "returned"] /\ tidy' = tidy
           \/ /\ g = "waitResponses" /\ running[c] = 0 /\ tidy[c] = "waiting"
              /\ tidy' = [tidy EXCEPT ![c] = "done"] /\ pc' = pc
  BY DEF DoneConn, DoneResponses, ResponsesDone, Goto, Groups
<1>3. UNCHANGED <<running, sub, before>>
  BY DEF DoneConn, DoneResponses, ResponsesDone, Done, writerVars, sliceVars
<1>4. /\ \A d \in Conns : d # c => pc'[d] = pc[d] /\ tidy'[d] = tidy[d]
      /\ \/ g = "waitConns" /\ pc[c] = "leaving" /\ pc'[c] = "returned" /\ tidy'[c] = tidy[c]
         \/ g = "waitResponses" /\ running[c] = 0 /\ tidy[c] = "waiting" /\ tidy'[c] = "done" /\ pc'[c] = pc[c]
  BY <1>1, <1>2 DEF ConnTypes
<1>5. pc[c] \in {"leaving", "returned"} /\ tidy[c] # "none"
  BY <1>1, <1>4 DEF TidyFollows
<1>6. /\ pc' \in [Conns -> {"new", "adding", "subscribing", "serving", "unsubscribing", "leaving", "returned"}]
      /\ tidy' \in [Conns -> {"none", "waiting", "done"}]
  BY <1>1, <1>2 DEF ConnTypes
<1>7. c \in Counted(g) /\ Counted(g)' = Counted(g) \ {c}
  BY <1>4, <1>5 DEF Counted
<1>8. \A h \in Groups : h # g => Counted(h)' = Counted(h)
  BY <1>4, <1>5 DEF Counted, Groups
<1>9. CountersRight' /\ counter' \in [Groups -> Nat] /\ (counter[g] = 1 => Counted(g)' = {})
  BY <1>1, <1>2, <1>7, <1>8, DoneCounts
<1>10. /\ \A h \in Groups, d \in Conns : Ended(h, d) => Ended(h, d)'
       /\ Ended(g, c)'
  BY <1>4 DEF Ended
<1>11. \A h \in Groups, d \in Conns : d \in Counted(h) => d \in Counted(h)' \/ Ended(h, d)'
  BY <1>7, <1>8, <1>10
<1>12. /\ WaitersRight'
       /\ waiting' \in [Waiters -> [on : Groups \cup {"none"}, at : {"idle", "waiting", "woken", "returned"}]]
  BY <1>1, <1>2, <1>9, <1>10, <1>11, WaitersDone
<1>13. ConnTypes'
  BY <1>1, <1>3, <1>6, <1>9, <1>12 DEF ConnTypes
<1>14. TidyFollows'
  BY <1>1, <1>3, <1>4, <1>5 DEF TidyFollows
<1> QED
  BY <1>9, <1>12, <1>13, <1>14 DEF WaitInv

-----------------------------------------------------------------------------
(* The steps of a waiter *)

\* Steps that leave the conns and the WaitGroups alone keep what is known of them.
LEMMA ConnsAlone ==
  ASSUME WaitInv, UNCHANGED <<connVars, counter, sub>>
  PROVE  /\ TidyFollows' /\ CountersRight'
         /\ \A g \in Groups : Counted(g)' = Counted(g)
         /\ \A g \in Groups, c \in Conns : Ended(g, c)' <=> Ended(g, c)
BY DEF WaitInv, connVars, TidyFollows, CountersRight, Counted, Ended

\* A waiter waits for the conns that the WaitGroup counts, or there is none.
LEMMA WaitKeeps ==
  ASSUME WaitInv, NEW w \in Waiters, NEW g \in Groups, Wait(w, g)
  PROVE  WaitInv'
<1>1. ConnTypes /\ TidyFollows /\ CountersRight /\ WaitersRight
  BY DEF WaitInv
<1>2. PICK place \in {"returned", "waiting"} :
        /\ waiting' = [waiting EXCEPT ![w] = [on |-> g, at |-> place]]
        /\ place = "returned" => counter[g] = 0
  BY DEF Wait
<1>3. UNCHANGED <<connVars, counter, sub>> /\ before' = [before EXCEPT ![w] = Counted(g)]
  BY DEF Wait, writerVars, sliceVars
<1>4. Counted(g) \subseteq Conns
  BY DEF Counted
<1>5. ConnTypes'
  <2>1. waiting' \in [Waiters -> [on : Groups \cup {"none"}, at : {"idle", "waiting", "woken", "returned"}]]
    BY <1>1, <1>2 DEF ConnTypes
  <2>2. before' \in [Waiters -> SUBSET Conns]
    BY <1>1, <1>3, <1>4 DEF ConnTypes
  <2> QED
    BY <1>1, <1>3, <2>1, <2>2 DEF ConnTypes, connVars
<1>6. place = "returned" => Counted(g) = {}
  BY <1>1, <1>2, FS_EmptySet DEF CountersRight
<1>7. WaitersRight'
  <2> SUFFICES ASSUME NEW v \in Waiters
               PROVE  (/\ waiting[v].at # "idle" => waiting[v].on \in Groups
                       /\ waiting[v].at = "waiting" =>
                            \A c \in before[v] : c \in Counted(waiting[v].on) \/ Ended(waiting[v].on, c)
                       /\ waiting[v].at \in {"woken", "returned"} => \A c \in before[v] : Ended(waiting[v].on, c))'
    BY DEF WaitersRight
  <2>1. CASE v = w
    <3>1. waiting'[v].on = g /\ waiting'[v].at = place /\ before'[v] = Counted(g)
      BY <1>1, <1>2, <1>3, <2>1 DEF ConnTypes
    <3>2. Counted(g)' = Counted(g)
      BY <1>3, ConnsAlone
    <3> QED
      BY <1>6, <3>1, <3>2
  <2>2. CASE v # w
    <3>1. PICK h : h = waiting[v].on
      OBVIOUS
    <3>2. waiting'[v] = waiting[v] /\ before'[v] = before[v] /\ before[v] \subseteq Conns
      BY <1>1, <1>2, <1>3, <2>2 DEF ConnTypes
    <3>3. waiting'[v].on = h /\ waiting'[v].at = waiting[v].at
      BY <3>1, <3>2
    <3>4. /\ waiting[v].at # "idle" => h \in Groups
          /\ waiting[v].at = "waiting" => \A c \in before[v] : c \in Counted(h) \/ Ended(h, c)
          /\ waiting[v].at \in {"woken", "returned"} => \A c \in before[v] : Ended(h, c)
      BY <1>1, <3>1 DEF WaitersRight
    <3>5. h \in Groups => Counted(h)' = Counted(h) /\ \A c \in Conns : Ended(h, c)' <=> Ended(h, c)
      BY <1>3, ConnsAlone
    <3> QED
      BY <3>2, <3>3, <3>4, <3>5
  <2> QED
    BY <2>1, <2>2
<1> QED
  BY <1>3, <1>5, <1>7, ConnsAlone DEF WaitInv

\* A waiter that was woken returns, or panics.
LEMMA WokenKeeps ==
  ASSUME WaitInv, NEW w \in Waiters, WokenReturns(w)
  PROVE  WaitInv'
<1>1. ConnTypes /\ TidyFollows /\ CountersRight /\ WaitersRight
  BY DEF WaitInv
<1>2. /\ waiting[w].at = "woken"
      /\ waiting' = waiting \/ waiting' = [waiting EXCEPT ![w].at = "returned"]
      /\ UNCHANGED <<connVars, counter, sub, before>>
  BY DEF WokenReturns, writerVars, sliceVars
<1>3. /\ waiting' \in [Waiters -> [on : Groups \cup {"none"}, at : {"idle", "waiting", "woken", "returned"}]]
      /\ \A v \in Waiters :
           /\ waiting'[v].on = waiting[v].on
           /\ waiting'[v].at = waiting[v].at \/ (waiting[v].at = "woken" /\ waiting'[v].at = "returned")
  <2>1. CASE waiting' = waiting
    BY <1>1, <2>1 DEF ConnTypes
  <2>2. CASE waiting' = [waiting EXCEPT ![w].at = "returned"]
    <3>1. PICK r : r = [on |-> waiting[w].on, at |-> "returned"]
      OBVIOUS
    <3>2. waiting[w].on \in Groups \cup {"none"} /\ [waiting[w] EXCEPT !.at = "returned"] = r
      BY <1>1, <3>1 DEF ConnTypes
    <3>3. waiting' = [waiting EXCEPT ![w] = r] /\ r.on = waiting[w].on /\ r.at = "returned"
      BY <2>2, <3>1, <3>2
    <3>4. r \in [on : Groups \cup {"none"}, at : {"idle", "waiting", "woken", "returned"}]
      BY <3>1, <3>2
    <3> QED
      BY <1>1, <1>2, <3>3, <3>4 DEF ConnTypes
  <2> QED
    BY <1>2, <2>1, <2>2
<1>4. ConnTypes'
  BY <1>1, <1>2, <1>3 DEF ConnTypes, connVars
<1>5. WaitersRight'
  <2> SUFFICES ASSUME NEW v \in Waiters
               PROVE  (/\ waiting[v].at # "idle" => waiting[v].on \in Groups
                       /\ waiting[v].at = "waiting" =>
                            \A c \in before[v] : c \in Counted(waiting[v].on) \/ Ended(waiting[v].on, c)
                       /\ waiting[v].at \in {"woken", "returned"} => \A c \in before[v] : Ended(waiting[v].on, c))'
    BY DEF WaitersRight
  <2>1. PICK h : h = waiting[v].on
    OBVIOUS
  <2>2. before'[v] = before[v] /\ before[v] \subseteq Conns /\ waiting'[v].on = h
    BY <1>1, <1>2, <1>3, <2>1 DEF ConnTypes
  <2>3. /\ waiting[v].at # "idle" => h \in Groups
        /\ waiting[v].at = "waiting" => \A c \in before[v] : c \in Counted(h) \/ Ended(h, c)
        /\ waiting[v].at \in {"woken", "returned"} => \A c \in before[v] : Ended(h, c)
    BY <1>1, <2>1 DEF WaitersRight
  <2>4. h \in Groups => Counted(h)' = Counted(h) /\ \A c \in Conns : Ended(h, c)' <=> Ended(h, c)
    BY <1>2, ConnsAlone
  <2> QED
    BY <1>3, <2>2, <2>3, <2>4
<1> QED
  BY <1>2, <1>4, <1>5, ConnsAlone DEF WaitInv

-----------------------------------------------------------------------------
\* WaitInv holds before anything is served.
LEMMA WaitInvInit == Init => WaitInv
<1> SUFFICES ASSUME Init PROVE WaitInv
  OBVIOUS
<1>1. /\ pc = [c \in Conns |-> "new"] /\ running = [c \in Conns |-> 0] /\ tidy = [c \in Conns |-> "none"]
      /\ counter = [g \in Groups |-> 0] /\ before = [w \in Waiters |-> {}]
      /\ waiting = [w \in Waiters |-> [on |-> "none", at |-> "idle"]]
  BY DEF Init
<1>2. ConnTypes /\ TidyFollows
  BY <1>1 DEF ConnTypes, TidyFollows
<1>3. \A g \in Groups : Counted(g) = {}
  BY <1>1 DEF Counted
<1>4. CountersRight
  BY <1>1, <1>3, FS_EmptySet DEF CountersRight
<1>5. WaitersRight
  BY <1>1 DEF WaitersRight
<1> QED
  BY <1>2, <1>4, <1>5 DEF WaitInv

\* Every step of Run, of a request and of Wait keeps WaitInv.
LEMMA WaitInvStep ==
  ASSUME SliceTypes, WaitInv, [Next]_vars
  PROVE  WaitInv'
<1>1. CASE UNCHANGED <<connVars, waitVars, sub>>
  <2>1. ConnTypes'
    BY <1>1 DEF WaitInv, ConnTypes, connVars, waitVars
  <2>2. UNCHANGED <<connVars, counter, sub, waiting, before>>
    BY <1>1 DEF waitVars
  <2>3. WaitersRight'
    BY <2>2, ConnsAlone, WaitersKeep DEF WaitInv
  <2> QED
    BY <2>1, <2>2, <2>3, ConnsAlone DEF WaitInv
<1>2. ASSUME NEW c \in Conns, RunStep(c) \/ RequestEnds(c) \/ DoneResponses(c)
      PROVE  WaitInv'
  BY <1>2, AddsKeep, ServingKeeps, DonesKeep DEF RunStep
<1>3. ASSUME NEW w \in Waiters, WokenReturns(w) \/ \E g \in Groups : Wait(w, g)
      PROVE  WaitInv'
  BY <1>3, WokenKeeps, WaitKeeps
<1>4. ASSUME NEW s \in Senders, Send(s)
      PROVE  WaitInv'
  BY <1>1, <1>4 DEF Send, SenderStep, CopySlice, WriteOne, WriteReturns, sliceVars
<1> QED
  BY <1>1, <1>2, <1>3, <1>4 DEF Next, vars, writerVars, sliceVars

\* The two WaitGroups always count the conns whose Run, or whose goroutine, is under way,
\* and a waiter that was woken has nothing left to wait for.
THEOREM WaitInvariant == Spec => []WaitInv
<1>1. WriterInv => SliceTypes
  BY DEF WriterInv
<1> QED
  BY <1>1, WriterInvariant, WaitInvInit, WaitInvStep, PTL DEF Spec

\* When Wait returns, Run has returned and has unsubscribed every conn that was open at the
\* call; when WaitClean returns, the requests of these conns have ended too
\* (MultiRpcServer.Run defers waitConns.Done, and its goroutine waitResponses.Done).
THEOREM WaitsForAll == Spec => []WaitMeansEnded
<1>1. WaitInv => WaitMeansEnded
  <2> SUFFICES ASSUME WaitInv, NEW w \in Waiters, waiting[w].at = "returned", NEW c \in before[w]
               PROVE  /\ sub[c] = "gone"
                      /\ waiting[w].on = "waitConns" => pc[c] = "returned"
                      /\ waiting[w].on = "waitResponses" => running[c] = 0
    BY DEF WaitMeansEnded
  <2>1. waiting[w].on \in Groups /\ Ended(waiting[w].on, c) /\ c \in Conns
    BY DEF WaitInv, WaitersRight, ConnTypes
  <2>2. tidy[c] # "none" /\ (waiting[w].on = "waitResponses" => tidy[c] = "done")
        /\ (waiting[w].on = "waitConns" => pc[c] = "returned")
    BY <2>1 DEF Ended, Groups, WaitInv, TidyFollows
  <2> QED
    BY <2>1, <2>2 DEF WaitInv, TidyFollows
<1> QED
  BY <1>1, WaitInvariant, PTL
=============================================================================
