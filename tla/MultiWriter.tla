----------------------------- MODULE MultiWriter -----------------------------
(***************************************************************************)
(* The Go multi writer (interop/multi_writer.go): a slice of writers that  *)
(* Subscribe appends to and unsubscribe shifts down in place, both under a *)
(* mutex, while Write copies the slice header under the mutex and then     *)
(* walks the backing array without it.                                     *)
(*                                                                         *)
(* A slice is an array and a length.  arrays holds every backing array     *)
(* that append has allocated: a Write may walk one that m.writers has left *)
(* behind, or one whose cells move under its feet.                         *)
(***************************************************************************)
EXTENDS Integers, Sequences, FiniteSets

CONSTANTS
  Writers,   \* writers, each subscribed once
  Senders,   \* goroutines that call Write
  Nil,       \* a cell not yet written; the mutex is free
  MaxEvents  \* bound on the Writes of a sender

VARIABLES
  arrays,    \* the backing arrays
  slice,     \* m.writers
  lock,      \* the writer whose unsubscribe holds m.mutex, or Nil
  hole,      \* the cell that unsubscribe fills next
  sub,       \* per writer: "no", "yes" or "gone"
  snap, at,  \* per sender: its copy of m.writers, and the next cell of it
  sent,      \* per sender: events begun
  got,       \* per sender: the writers its Write has written to, in order
  steady,    \* per sender: writers subscribed ever since its Write began
  disturbed  \* senders in whose Write an unsubscribe fell

sliceVars == <<arrays, slice, lock, hole, sub>>
senderVars == <<snap, at, sent, got, steady, disturbed>>
writerVars == <<sliceVars, senderVars>>

Slice == [arr |-> 1, len |-> 0]
Walking(s) == at[s] > 0
Cells == arrays[slice.arr]

WriterInit ==
  /\ arrays = << <<>> >>
  /\ slice = Slice
  /\ lock = Nil /\ hole = 0
  /\ sub = [w \in Writers |-> "no"]
  /\ snap = [s \in Senders |-> Slice]
  /\ at = [s \in Senders |-> 0]
  /\ sent = [s \in Senders |-> 0]
  /\ got = [s \in Senders |-> <<>>]
  /\ steady = [s \in Senders |-> {}]
  /\ disturbed = {}

-----------------------------------------------------------------------------
(* Subscribe and unsubscribe. *)

\* append(old, w) on a full array: a new one, of twice the capacity.
Grown(w) ==
  LET n == slice.len
      cap == IF n = 0 THEN 1 ELSE 2 * n
  IN  [i \in 1 .. cap |-> IF i <= n THEN Cells[i] ELSE IF i = n + 1 THEN w ELSE Nil]

Subscribe(w) ==
  /\ lock = Nil
  /\ sub[w] = "no"
  /\ sub' = [sub EXCEPT ![w] = "yes"]
  /\ IF slice.len < Len(Cells)
     THEN /\ arrays' = [arrays EXCEPT ![slice.arr][slice.len + 1] = w]
          /\ slice' = [slice EXCEPT !.len = @ + 1]
     ELSE /\ arrays' = Append(arrays, Grown(w))
          /\ slice' = [arr |-> Len(arrays) + 1, len |-> slice.len + 1]
  /\ UNCHANGED <<lock, hole, senderVars>>

\* The loop finds w; append(writers[:i], writers[i+1:]...) is about to move cells.
BeginUnsubscribe(w) ==
  /\ lock = Nil
  /\ sub[w] = "yes"
  /\ lock' = w
  /\ \E i \in 1 .. slice.len : Cells[i] = w /\ hole' = i
  /\ steady' = [s \in Senders |-> steady[s] \ {w}]
  /\ disturbed' = disturbed \cup {s \in Senders : Walking(s)}
  /\ UNCHANGED <<arrays, slice, sub, snap, at, sent, got>>

\* One cell of the copy.  A Write reads the array without the mutex, before or after.
MoveCell(w) ==
  /\ lock = w
  /\ hole < slice.len
  /\ arrays' = [arrays EXCEPT ![slice.arr][hole] = Cells[hole + 1]]
  /\ hole' = hole + 1
  /\ UNCHANGED <<slice, lock, sub, senderVars>>

\* The length of m.writers is not updated: its last cell stays in.
KeepLength(w) ==
  /\ lock = w
  /\ hole = slice.len
  /\ lock' = Nil /\ hole' = 0
  /\ sub' = [sub EXCEPT ![w] = "gone"]
  /\ UNCHANGED <<arrays, slice, senderVars>>

EndUnsubscribe(w) ==
  /\ lock = w
  /\ hole = slice.len
  /\ slice' = [slice EXCEPT !.len = @ - 1]
  /\ lock' = Nil /\ hole' = 0
  /\ sub' = [sub EXCEPT ![w] = "gone"]
  /\ UNCHANGED <<arrays, senderVars>>

-----------------------------------------------------------------------------
(* Write *)

CopySlice(s) ==
  /\ lock = Nil
  /\ ~Walking(s)
  /\ sent[s] < MaxEvents
  /\ sent' = [sent EXCEPT ![s] = @ + 1]
  /\ snap' = [snap EXCEPT ![s] = slice]
  /\ at' = [at EXCEPT ![s] = 1]
  /\ got' = [got EXCEPT ![s] = <<>>]
  /\ steady' = [steady EXCEPT ![s] = {w \in Writers : sub[w] = "yes"}]
  /\ disturbed' = disturbed \ {s}
  /\ UNCHANGED sliceVars

\* w.Write(message): an error is collected, and the loop goes on.
WriteOne(s) ==
  /\ Walking(s)
  /\ at[s] <= snap[s].len
  /\ got' = [got EXCEPT ![s] = Append(@, arrays[snap[s].arr][at[s]])]
  /\ at' = [at EXCEPT ![s] = @ + 1]
  /\ UNCHANGED <<sliceVars, snap, sent, steady, disturbed>>

WriteReturns(s) ==
  /\ Walking(s)
  /\ at[s] > snap[s].len
  /\ at' = [at EXCEPT ![s] = 0]
  /\ UNCHANGED <<sliceVars, snap, sent, got, steady, disturbed>>

SenderStep(s) == WriteOne(s) \/ WriteReturns(s)

-----------------------------------------------------------------------------
Times(s, w) == Cardinality({i \in DOMAIN got[s] : got[s][i] = w})

\* A Write during which nothing is unsubscribed reaches every writer subscribed all
\* along exactly once, whatever is subscribed meanwhile and wherever append puts it.
UndisturbedReachesAll ==
  \A s \in Senders : sent[s] > 0 /\ ~Walking(s) /\ s \notin disturbed =>
    \A w \in steady[s] : Times(s, w) = 1
=============================================================================
