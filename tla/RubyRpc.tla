------------------------------- MODULE RubyRpc --------------------------------
(***************************************************************************)
(* A Ruby RPC client and a Ruby RPC server (lib/interop/rpc/) connected by *)
(* two pipes (lib/interop/pipe.rb), as in spec/interop/rpc/client_spec.rb. *)
(*                                                                         *)
(* Both sides are an RPC::Base: an I/O thread that reads messages and a    *)
(* task group that runs a thread for each of them.  chan[side] is the      *)
(* channel that side reads.  A message has the ID header, None if it has   *)
(* not, and the caller that it is about.                                   *)
(***************************************************************************)
EXTENDS RubyChannel, FiniteSets

CONSTANTS
  Callers,      \* threads that call Client#call once
  None,
  MaxUnusual    \* bound on the request handlers that send an event or raise

Message == [id : Nat \cup {None}, caller : Callers \cup {None}]

ASSUME RubyConstants ==
  /\ MaxUnusual \in Nat /\ None \notin Nat
  /\ {Nothing, Nil} \cap Message = {}

Sides == {"client", "server"}
Peer == [client |-> "server", server |-> "client"]

VARIABLES
  chan,             \* side -> the channel it reads
  io,               \* side -> what the I/O thread does
  assigned,         \* sides whose constructor has assigned @io_thread
  raised,           \* sides whose I/O thread has an exception to take
  error,            \* sides with an @error
  tasks,            \* side -> the message and the place of each task, in order of start
  nextId, queues,   \* Client: @next_id, and @queues as a function from IDs to callers
  call, answer,     \* caller -> where it is in call, and what it popped
  unusual,          \* the number of handlers that sent an event or raised
  requests          \* the messages put into the channel of the server, in order

ioVars == <<io, assigned, raised, error>>
clientVars == <<nextId, queues, call, answer>>
vars == <<chan, ioVars, tasks, clientVars, unusual, requests>>

Init ==
  /\ chan = [s \in Sides |-> NewChannel]
  /\ io = [s \in Sides |-> "reading"]
  /\ assigned = {"client"}    \* nobody sends to a client that is not constructed
  /\ raised = {} /\ error = {}
  /\ tasks = [s \in Sides |-> <<>>]
  /\ nextId = 1 /\ queues = <<>>
  /\ call = [c \in Callers |-> "idle"]
  /\ answer = [c \in Callers |-> None]
  /\ unusual = 0
  /\ requests = <<>>

\* Pipe#_write, to the channel of side s.
PutInto(s, m, writer) ==
  /\ chan' = [chan EXCEPT ![s] = Put(@, m, writer)]
  /\ requests' = IF s = "server" THEN Append(requests, m) ELSE requests

-----------------------------------------------------------------------------
(* RPC::Base *)

\* @io_thread = Thread.new: the thread runs before it is assigned.
AssignIoThread(s) ==
  /\ s \notin assigned
  /\ assigned' = assigned \cup {s}
  /\ UNCHANGED <<chan, io, raised, error, tasks, clientVars, unusual, requests>>

\* TaskGroup#run: the new thread has yet to run.
StartTask(s, m) == [tasks EXCEPT ![s] = Append(@, [msg |-> m, at |-> "started"])]

\* read_all has a message, and a thread is started for it; or EOFError ends the loop.
HaveRead(s, m) ==
  IF m = Nil
  THEN /\ io' = [io EXCEPT ![s] = "ended"]
       /\ UNCHANGED tasks
  ELSE /\ io' = [io EXCEPT ![s] = "reading"]
       /\ tasks' = StartTask(s, m)

\* Pipe#_read returns at once, or the I/O thread is parked.
Read(s) ==
  /\ io[s] = "reading"
  /\ chan' = [chan EXCEPT ![s] = Get(@)]
  /\ \/ /\ GetResult(chan[s]) = Nothing
        /\ io' = [io EXCEPT ![s] = "parked"]
        /\ UNCHANGED tasks
     \/ /\ GetResult(chan[s]) # Nothing
        /\ HaveRead(s, GetResult(chan[s]))
  /\ UNCHANGED <<assigned, raised, error, clientVars, unusual, requests>>

\* Its Get has been resolved.
ReadResolved(s) ==
  /\ io[s] = "parked"
  /\ chan[s].given # Nothing
  /\ HaveRead(s, chan[s].given)
  /\ chan' = [chan EXCEPT ![s].given = Nothing]
  /\ UNCHANGED <<assigned, raised, error, clientVars, unusual, requests>>

\* The exception of a task reaches the I/O thread, wherever that is.
TakeException(s) ==
  /\ s \in raised
  /\ io[s] # "ended"
  /\ io' = [io EXCEPT ![s] = "ended"]
  /\ error' = error \cup {s}
  /\ UNCHANGED <<chan, assigned, raised, tasks, clientVars, unusual, requests>>

\* A task has written when its Put is resolved.
At(s, k, place) ==
  /\ tasks[s][k].at = place
  /\ s = "server" => ~Blocked(chan["client"], k)
Move(s, k, place) == tasks' = [tasks EXCEPT ![s][k].at = place]

\* The task dies of its exception and the I/O thread is not told.
RaiseNothing(s, k) ==
  /\ At(s, k, "raising")
  /\ Move(s, k, "failed")
  /\ UNCHANGED <<chan, ioVars, clientVars, unusual, requests>>

\* @io_thread.raise e.  While @io_thread is nil it fails itself, and the task dies of
\* that; raising in a thread that has ended does nothing.
RaiseInIoThread(s, k) ==
  /\ At(s, k, "raising")
  /\ Move(s, k, "failed")
  /\ raised' = IF s \in assigned /\ io[s] # "ended" THEN raised \cup {s} ELSE raised
  /\ UNCHANGED <<chan, io, assigned, error, clientVars, unusual, requests>>

BaseStep(s) ==
  \/ AssignIoThread(s)
  \/ Read(s) \/ ReadResolved(s) \/ TakeException(s)
  \/ \E k \in DOMAIN tasks[s] : RaiseInIoThread(s, k)

-----------------------------------------------------------------------------
(* RPC::Server *)

\* The handler that was matched, if any, returns, raises, or sends an event first.
Handle(k) ==
  /\ At("server", k, "started")
  /\ \/ Move("server", k, "responding") /\ UNCHANGED unusual
     \/ /\ unusual < MaxUnusual
        /\ unusual' = unusual + 1
        /\ Move("server", k, "rescuing") \/ Move("server", k, "sending")
  /\ UNCHANGED <<chan, ioVars, clientVars, requests>>

\* A write of a task of the server: it raises Closed, or the task goes on when it is
\* resolved.
ServerWrites(k, from, m, then, ifClosed) ==
  /\ At("server", k, from)
  /\ \/ /\ chan["client"].closed
        /\ Move("server", k, ifClosed)
        /\ UNCHANGED <<chan, requests>>
     \/ /\ ~chan["client"].closed
        /\ Move("server", k, then)
        /\ PutInto("client", m, k)
  /\ UNCHANGED <<ioVars, clientVars, unusual>>

Request(k) == tasks["server"][k].msg

\* send: an event has no ID.
SendEvent(k) ==
  ServerWrites(k, "sending", [id |-> None, caller |-> None], "responding", "rescuing")

\* The response is written with the ID of the latest request.
RespondToLatest(k) ==
  ServerWrites(k, "responding",
               [id |-> tasks["server"][Len(tasks["server"])].msg.id, caller |-> Request(k).caller],
               "ended", "rescuing")

\* response[Headers::ID] = request[Headers::ID]
WriteResponse(k) ==
  ServerWrites(k, "responding", [id |-> Request(k).id, caller |-> Request(k).caller],
               "ended", "rescuing")

\* The rescue: a message with the error and no ID, and the exception is raised again.
WriteError(k) ==
  ServerWrites(k, "rescuing", [id |-> None, caller |-> None], "raising", "raising")

ServerStep(k) ==
  Handle(k) \/ SendEvent(k) \/ WriteResponse(k) \/ WriteError(k)

-----------------------------------------------------------------------------
(* RPC::Client *)

Registered(c, id) ==
  /\ call[c] = "idle"
  /\ call' = [call EXCEPT ![c] = "registered"]
  /\ queues' = [i \in DOMAIN queues \cup {id} |-> IF i = id THEN c ELSE queues[i]]

\* Client#call, inside @mutex: the ID and the queue.
Register(c) ==
  /\ Registered(c, nextId)
  /\ nextId' = nextId + 1
  /\ UNCHANGED <<chan, ioVars, tasks, answer, unusual, requests>>

IdOf(c) == CHOOSE id \in DOMAIN queues : queues[id] = c

\* write request
WriteRequest(c) ==
  /\ call[c] = "registered"
  /\ \/ /\ chan["server"].closed
        /\ call' = [call EXCEPT ![c] = "raised"]
        /\ UNCHANGED <<chan, requests>>
     \/ /\ ~chan["server"].closed
        /\ call' = [call EXCEPT ![c] = "writing"]
        /\ PutInto("server", [id |-> IdOf(c), caller |-> c], c)
  /\ UNCHANGED <<ioVars, tasks, nextId, queues, answer, unusual>>

\* queue.pop, after the request's Put is resolved.
Pop(c) ==
  /\ call[c] = "writing"
  /\ ~Blocked(chan["server"], c)
  /\ answer[c] # None
  /\ call' = [call EXCEPT ![c] = "returned"]
  /\ UNCHANGED <<chan, ioVars, tasks, nextId, queues, answer, unusual, requests>>

\* A message with the ID of a queue is pushed to it; the queue is deleted.
Resolve(k) ==
  /\ At("client", k, "started")
  /\ LET m == tasks["client"][k].msg
     IN  /\ m.id \in DOMAIN queues
         /\ answer' = [answer EXCEPT ![queues[m.id]] = m.caller]
         /\ queues' = [i \in DOMAIN queues \ {m.id} |-> queues[i]]
  /\ Move("client", k, "ended")
  /\ UNCHANGED <<chan, ioVars, nextId, call, unusual, requests>>

\* Any other one goes to the dispatcher, whose handlers may raise.
Dispatch(k) ==
  /\ At("client", k, "started")
  /\ tasks["client"][k].msg.id \notin DOMAIN queues
  /\ Move("client", k, "ended") \/ Move("client", k, "raising")
  /\ UNCHANGED <<chan, ioVars, clientVars, unusual, requests>>

CallerStep(c) == Register(c) \/ WriteRequest(c) \/ Pop(c)

-----------------------------------------------------------------------------
\* Pipe#close, once: a second one raises.
ClosePipe(s) ==
  /\ ~chan[s].closed
  /\ chan' = [chan EXCEPT ![s] = Close(@)]
  /\ UNCHANGED <<ioVars, tasks, clientVars, unusual, requests>>

Progress ==
  \/ \E s \in Sides : BaseStep(s)
  \/ \E k \in DOMAIN tasks["server"] : ServerStep(k)
  \/ \E k \in DOMAIN tasks["client"] : Resolve(k) \/ Dispatch(k)
  \/ \E c \in Callers : CallerStep(c)

Next == Progress \/ \E s \in Sides : ClosePipe(s)

\* Ruby runs every thread that can run.  A behaviour has finitely many such steps, so
\* that fairness to one of them at a time is fairness to each.
Spec == Init /\ [][Next]_vars /\ WF_vars(Progress)

-----------------------------------------------------------------------------
\* Messages leave a pipe in the order in which they were written to it, none of them
\* twice: "You can read exactly what is written to it." (pipe.rb:7; channel.rb:68-104).
ReadInOrder ==
  /\ Len(tasks["server"]) <= Len(requests)
  /\ \A k \in DOMAIN tasks["server"] : tasks["server"][k].msg = requests[k]

\* A call returns what the server made of its own request, however the threads of the
\* requests and those of the responses overtake each other (client.rb:26-35 and 48-50,
\* server.rb:24-26).
CallGetsOwnResponse == \A c \in Callers : answer[c] \in {c, None}

\* Closing the pipe that a side reads ends its I/O thread, and so does an exception of a
\* handler, whatever the thread is doing and whoever is blocked in the pipe: wait returns,
\* and raises the exception (base.rb:16-32 and 56-57, channel.rb:106-115).  That takes an
\* @io_thread that the constructor has assigned.
WaitReturns ==
  \A s \in Sides :
    (\/ chan[s].closed
     \/ /\ s \in assigned /\ io[s] # "ended"
        /\ \E k \in DOMAIN tasks[s] : At(s, k, "raising"))
      ~> (io[s] = "ended" /\ (chan[s].closed \/ s \in error))

\* A call whose request is written returns, unless its handler or an event handler
\* raises or a pipe is closed (client.rb:33-35).
CallsReturn ==
  \A c \in Callers :
    call[c] = "writing" ~>
      \/ call[c] = "returned"
      \/ raised # {} \/ \E s \in Sides : chan[s].closed
      \/ \E k \in DOMAIN tasks["server"] :
           Request(k).caller = c /\ tasks["server"][k].at \in {"rescuing", "raising", "failed"}
=============================================================================
