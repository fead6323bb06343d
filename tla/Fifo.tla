-------------------------------- MODULE Fifo ---------------------------------
(***************************************************************************)
(* What a message pipe promises ("A pipe simple allows you to read         *)
(* whatever messages are written to it", README.md): messages leave in the *)
(* order they entered, a message whose Write succeeded is not lost, and    *)
(* the error of Close is reported once the pipe is empty.                  *)
(***************************************************************************)
EXTENDS Sequences, Functions

CONSTANTS
  Messages,  \* what may be written
  Errors,    \* what a pipe may be closed with
  None       \* not closed yet

VARIABLES
  queue,     \* written and not read yet
  acked,     \* messages whose Write has returned nil
  delivered, \* messages read, in the order they left the pipe
  status,    \* None, or the error the pipe was closed with
  reported   \* errors Read has returned

vars == <<queue, acked, delivered, status, reported>>

Init ==
  /\ queue = <<>> /\ acked = {} /\ delivered = <<>>
  /\ status = None /\ reported = {}

Put(m) ==
  /\ status = None
  /\ queue' = Append(queue, m)
  /\ UNCHANGED <<acked, delivered, status, reported>>

\* Written and read at once, when somebody waits for a message.
Pass(m) ==
  /\ status = None
  /\ queue = <<>>
  /\ delivered' = Append(delivered, m)
  /\ UNCHANGED <<queue, acked, status, reported>>

\* A Write that succeeds has its message in the pipe, or read already.
Ack(m) ==
  /\ m \in Range(queue) \cup Range(delivered)
  /\ acked' = acked \cup {m}
  /\ UNCHANGED <<queue, delivered, status, reported>>

Get ==
  /\ queue # <<>>
  /\ delivered' = Append(delivered, Head(queue))
  /\ queue' = Tail(queue)
  /\ UNCHANGED <<acked, status, reported>>

\* Closing may abandon writes in progress, never one that has succeeded.
Close(e) ==
  /\ status = None
  /\ status' = e
  /\ \E n \in 0 .. Len(queue) :
       /\ queue' = SubSeq(queue, 1, n)
       /\ Range(SubSeq(queue, n + 1, Len(queue))) \cap acked = {}
  /\ UNCHANGED <<acked, delivered, reported>>

Report ==
  /\ status # None
  /\ queue = <<>>
  /\ reported' = reported \cup {status}
  /\ UNCHANGED <<queue, acked, delivered, status>>

Next ==
  \/ \E m \in Messages : Put(m) \/ Pass(m) \/ Ack(m)
  \/ \E e \in Errors : Close(e)
  \/ Get \/ Report

Spec == Init /\ [][Next]_vars
=============================================================================
