----------------------------- MODULE RubyChannel ------------------------------
(***************************************************************************)
(* The Ruby channel (lib/interop/channel.rb) as a value and the operations *)
(* on it: what each does while it holds @mutex.  Any number of threads put *)
(* objects into a channel; one thread, the reader, gets them out.          *)
(*                                                                         *)
(* A Put or a Get that is not resolved is a thread that is blocked.  puts  *)
(* has the blocked writers with their objects; parked says that the reader *)
(* is blocked, and given is what its Get was resolved with (Nothing: it is *)
(* not resolved; Nil: by close).                                           *)
(***************************************************************************)
EXTENDS Integers, Sequences

CONSTANTS
  BufferLimit,    \* @buffer_limit
  Nothing, Nil

ASSUME ChannelConstants == BufferLimit \in Nat /\ Nothing # Nil

NewChannel ==
  [closed |-> FALSE, buffer |-> <<>>, puts |-> <<>>, parked |-> FALSE, given |-> Nothing]

Blocked(ch, writer) == \E i \in DOMAIN ch.puts : ch.puts[i].writer = writer

\* A writer that blocks goes in front of those that are blocked.
PutInFront(ch, obj, writer) ==
  IF ch.parked
  THEN [ch EXCEPT !.parked = FALSE, !.given = obj]
  ELSE [ch EXCEPT !.puts = <<[obj |-> obj, writer |-> writer]>> \o @]

\* <<, in a channel that is not closed.
Put(ch, obj, writer) ==
  IF ch.parked
  THEN [ch EXCEPT !.parked = FALSE, !.given = obj]
  ELSE IF Len(ch.buffer) < BufferLimit
  THEN [ch EXCEPT !.buffer = Append(@, obj)]
  ELSE [ch EXCEPT !.puts = Append(@, [obj |-> obj, writer |-> writer])]

\* get: the object it returns without blocking, or Nothing.
GetResult(ch) ==
  IF ch.closed THEN Nil
  ELSE IF ch.puts # <<>> THEN Head(ch.puts).obj
  ELSE IF ch.buffer # <<>> THEN Head(ch.buffer)
  ELSE Nothing

\* get: what it leaves behind.
Get(ch) ==
  IF ch.closed THEN ch
  ELSE IF ch.puts # <<>> THEN [ch EXCEPT !.puts = Tail(@)]
  ELSE IF ch.buffer # <<>> THEN [ch EXCEPT !.buffer = Tail(@)]
  ELSE [ch EXCEPT !.parked = TRUE]

\* close: everybody who is blocked is resolved, and the objects of the writers are gone.
Close(ch) ==
  [ch EXCEPT !.closed = TRUE, !.puts = <<>>,
             !.parked = FALSE, !.given = IF ch.parked THEN Nil ELSE @]
=============================================================================
