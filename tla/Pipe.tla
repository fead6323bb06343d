-------------------------------- MODULE Pipe ---------------------------------
(***************************************************************************)
(* The Go message pipe (interop/pipe.go): an atomic flag closed, an error  *)
(* and a channel of capacity Cap (0 for NewPipe).  Any number of           *)
(* goroutines call Read, Write and CloseWithError.                         *)
(*                                                                         *)
(* queue holds the messages of the channel: the first Cap are in its       *)
(* buffer, the others belong to goroutines parked in a send.  A goroutine  *)
(* is parked in a receive only while queue is empty.                       *)
(***************************************************************************)
EXTENDS Integers, Sequences, FiniteSets

CONSTANTS
  Writers, Readers, Closers,  \* goroutines; a closer closes with an error of its own
  Cap,                        \* bufferSize
  None,                       \* no error yet
  MaxWrites                   \* bound on the messages of a writer

ASSUME PipeConstants ==
  /\ Cap \in Nat
  /\ MaxWrites \in Nat
  /\ None \notin Closers

VARIABLES
  closed, err,      \* p.closed, p.err
  queue, chanClosed,\* p.message
  wpc, sent,        \* per writer: where it is in Write, and the number of its message
  rpc,              \* per reader: where it is in Read
  cpc,              \* per closer: where it is in CloseWithError
  acked,            \* messages whose Write has returned nil
  delivered,        \* messages received, in the order they left the channel
  reported          \* errors Read has returned

chanVars == <<queue, chanClosed, delivered>>
pipeVars == <<closed, err, chanVars, wpc, sent, rpc, cpc, acked, reported>>

Messages == Writers \X (1 .. MaxWrites)

PipeInit ==
  /\ closed = FALSE /\ err = None
  /\ queue = <<>> /\ chanClosed = FALSE
  /\ wpc = [w \in Writers |-> "idle"]
  /\ sent = [w \in Writers |-> 0]
  /\ rpc = [r \in Readers |-> "idle"]
  /\ cpc = [c \in Closers |-> "idle"]
  /\ acked = {} /\ delivered = <<>> /\ reported = {}

-----------------------------------------------------------------------------
(* Write *)

\* atomic.LoadInt32(&p.closed): a closed pipe refuses with ErrAlreadyClosed.
CheckClosed(w) ==
  /\ wpc[w] = "idle"
  /\ sent[w] < MaxWrites
  /\ sent' = [sent EXCEPT ![w] = @ + 1]
  /\ wpc' = [wpc EXCEPT ![w] = IF closed THEN "idle" ELSE "sending"]
  /\ UNCHANGED <<closed, err, chanVars, rpc, cpc, acked, reported>>

Parked == {r \in Readers : rpc[r] = "parked"}

ChanSendMessage(w, m) ==
  /\ wpc[w] = "sending"
  /\ \/ /\ chanClosed                   \* send on a closed channel
        /\ wpc' = [wpc EXCEPT ![w] = "panicked"]
        /\ UNCHANGED <<rpc, chanVars>>
     \/ /\ ~chanClosed /\ Parked # {}   \* handed to a parked receiver
        /\ \E r \in Parked : rpc' = [rpc EXCEPT ![r] = "idle"]
        /\ delivered' = Append(delivered, m)
        /\ wpc' = [wpc EXCEPT ![w] = "sent"]
        /\ UNCHANGED <<queue, chanClosed>>
     \/ /\ ~chanClosed /\ Parked = {}   \* buffered, or parked
        /\ queue' = Append(queue, m)
        /\ wpc' = [wpc EXCEPT ![w] = "sent"]
        /\ UNCHANGED <<rpc, chanClosed, delivered>>
  /\ UNCHANGED <<closed, err, sent, cpc, acked, reported>>

\* p.message <- message
ChanSend(w) == ChanSendMessage(w, <<w, sent[w]>>)

\* The send is over when the message was received or is in the buffer.
WriteReturns(w) ==
  /\ wpc[w] = "sent"
  /\ \A i \in DOMAIN queue : queue[i] = <<w, sent[w]>> => i <= Cap
  /\ wpc' = [wpc EXCEPT ![w] = "idle"]
  /\ acked' = acked \cup {<<w, sent[w]>>}
  /\ UNCHANGED <<closed, err, chanVars, sent, rpc, cpc, reported>>

-----------------------------------------------------------------------------
(* Read *)

\* <-p.message
Receive(r) ==
  /\ rpc[r] = "idle"
  /\ \/ /\ queue # <<>>
        /\ delivered' = Append(delivered, Head(queue))
        /\ queue' = Tail(queue)
        /\ UNCHANGED rpc
     \/ /\ queue = <<>>
        /\ rpc' = [rpc EXCEPT ![r] = IF chanClosed THEN "ended" ELSE "parked"]
        /\ UNCHANGED <<queue, delivered>>
  /\ UNCHANGED <<closed, err, chanClosed, wpc, sent, cpc, acked, reported>>

\* !ok: err = p.err
ReadErr(r) ==
  /\ rpc[r] = "ended"
  /\ rpc' = [rpc EXCEPT ![r] = "idle"]
  /\ reported' = reported \cup {err}
  /\ UNCHANGED <<closed, err, chanVars, wpc, sent, cpc, acked>>

-----------------------------------------------------------------------------
(* CloseWithError *)

\* The flag is loaded and stored, not compared and swapped.
LoadAndStore(c) ==
  /\ cpc[c] = "idle"
  /\ closed' = TRUE
  /\ cpc' = [cpc EXCEPT ![c] = "setting"]
  /\ UNCHANGED <<err, chanVars, wpc, sent, rpc, acked, reported>>

\* atomic.CompareAndSwapInt32: only one closer goes on.
CompareAndSwap(c) ==
  /\ cpc[c] = "idle"
  /\ closed' = TRUE
  /\ cpc' = [cpc EXCEPT ![c] = IF closed THEN "refused" ELSE "setting"]
  /\ UNCHANGED <<err, chanVars, wpc, sent, rpc, acked, reported>>

\* p.err = err
SetErr(c) ==
  /\ cpc[c] = "setting"
  /\ err' = c
  /\ cpc' = [cpc EXCEPT ![c] = "closing"]
  /\ UNCHANGED <<closed, chanVars, wpc, sent, rpc, acked, reported>>

\* close(p.message): parked receivers end, parked senders panic and their messages
\* are gone; the first n messages stay to be received.
CloseKeeping(c, n) ==
  LET kept == SubSeq(queue, 1, n)
  IN  /\ cpc[c] = "closing"
      /\ chanClosed' = TRUE
      /\ queue' = IF Len(queue) <= n THEN queue ELSE kept
      /\ wpc' = [w \in Writers |->
           IF wpc[w] = "sent" /\ (\E i \in n + 1 .. Len(queue) : queue[i] = <<w, sent[w]>>)
           THEN "panicked" ELSE wpc[w]]
      /\ rpc' = [r \in Readers |-> IF rpc[r] = "parked" THEN "ended" ELSE rpc[r]]
      /\ cpc' = [cpc EXCEPT ![c] = "closed"]
      /\ UNCHANGED <<closed, err, delivered, sent, acked, reported>>

\* What is in the buffer is thrown away.
CloseDropping(c) == CloseKeeping(c, 0)
\* close(p.message) is forgotten.
CloseForgotten(c) == FALSE /\ UNCHANGED pipeVars

CloseChan(c) == CloseKeeping(c, Cap)

-----------------------------------------------------------------------------
WriterStep(w) == ChanSend(w) \/ WriteReturns(w)
CloserStep(c) == SetErr(c) \/ CloseChan(c)

PipeNext ==
  \/ \E w \in Writers : CheckClosed(w) \/ WriterStep(w)
  \/ \E r \in Readers : Receive(r) \/ ReadErr(r)
  \/ \E c \in Closers : CompareAndSwap(c) \/ CloserStep(c)

PipeSpec == PipeInit /\ [][PipeNext]_pipeVars

\* A goroutine in the middle of Read, Write or CloseWithError goes on when it can.
PipeFairness ==
  /\ \A w \in Writers : WF_pipeVars(WriterStep(w))
  /\ \A r \in Readers : WF_pipeVars(ReadErr(r))
  /\ \A c \in Closers : WF_pipeVars(CloserStep(c))

FairPipeSpec == PipeSpec /\ PipeFairness

-----------------------------------------------------------------------------
(* Properties. *)

PipeTypes ==
  /\ closed \in BOOLEAN /\ chanClosed \in BOOLEAN
  /\ err \in Closers \cup {None}
  /\ queue \in Seq(Messages) /\ delivered \in Seq(Messages)
  /\ wpc \in [Writers -> {"idle", "sending", "sent", "panicked"}]
  /\ sent \in [Writers -> 0 .. MaxWrites]
  /\ rpc \in [Readers -> {"idle", "parked", "ended"}]
  /\ cpc \in [Closers -> {"idle", "refused", "setting", "closing", "closed"}]
  /\ acked \subseteq Messages
  /\ reported \subseteq Closers \cup {None}

\* A pipe implements Fifo: order is kept, a Write that returned nil is not lost
\* whenever Close comes, and Read returns the one error the pipe was closed with,
\* after the last message.
Abstract == INSTANCE Fifo WITH
  Errors <- Closers,
  status <- IF chanClosed THEN err ELSE None

ImplementsFifo == Abstract!Spec

\* When a Read has returned an error, every Write that returned nil has been read,
\* and the error is that of the one closer whose CloseWithError returned nil.
ErrAfterAll ==
  reported # {} =>
    /\ \A m \in acked : \E i \in DOMAIN delivered : delivered[i] = m
    /\ \E c \in Closers : cpc[c] = "closed" /\ reported = {c}

\* Once a Close has begun, no Read and no Write stays blocked.
CloseReleases ==
  /\ \A r \in Readers : (closed /\ rpc[r] # "idle") ~> (rpc[r] = "idle")
  /\ \A w \in Writers : (closed /\ wpc[w] # "idle") ~> (wpc[w] \in {"idle", "panicked"})
=============================================================================
