---------------------------- MODULE RubyRpcProofs -----------------------------
(***************************************************************************)
(* Proofs about the Ruby client and server, for any number of callers.     *)
(*                                                                         *)
(* CallsInv is about the IDs of messages and holds for any buffer limit.   *)
(* OrderInv is about the channel that the server reads, and holds without  *)
(* a buffer: with one, a channel overtakes (RubyRpc_buffered.cfg).         *)
(***************************************************************************)
EXTENDS RubyRpc, TLAPS

Writer == Callers \cup Nat
PutType == [obj : Message, writer : Writer]
Channel ==
  [closed : BOOLEAN, buffer : Seq(Message), puts : Seq(PutType), parked : BOOLEAN,
   given : Message \cup {Nothing, Nil}]
Task ==
  [msg : Message, at : {"started", "responding", "rescuing", "sending", "raising", "ended", "failed"}]

Types ==
  /\ chan \in [Sides -> Channel]
  /\ tasks \in [Sides -> Seq(Task)]
  /\ io \in [Sides -> {"reading", "parked", "ended"}]
  /\ nextId \in Nat
  /\ DOMAIN queues \subseteq {i \in Nat : i < nextId}
  /\ \A i \in DOMAIN queues : queues[i] \in Callers
  /\ call \in [Callers -> {"idle", "registered", "writing", "raised", "returned"}]
  /\ answer \in [Callers -> Callers \cup {None}]
  /\ requests \in Seq(Message)

\* The objects in a channel, and the messages that are on their way to a side or there.
Objects(ch) ==
  {ch.puts[i].obj : i \in DOMAIN ch.puts} \cup {ch.buffer[i] : i \in DOMAIN ch.buffer}
    \cup ({ch.given} \ {Nothing, Nil})
Messages(s) == Objects(chan[s]) \cup {tasks[s][k].msg : k \in DOMAIN tasks[s]}

\* A message with an ID is about the caller that the ID was registered for, who has
\* written a request.
Owned(m) ==
  m.id # None =>
    /\ m.id < nextId
    /\ m.caller \in Callers /\ call[m.caller] \notin {"idle", "registered"}
    /\ m.id \in DOMAIN queues => queues[m.id] = m.caller

MessagesOwned == \A s \in Sides : \A m \in Messages(s) : Owned(m)

\* A caller that has yet to write its request has its queue.
RegisteredHasQueue ==
  \A c \in Callers : call[c] = "registered" => \E i \in DOMAIN queues : queues[i] = c

CallsInv == Types /\ MessagesOwned /\ RegisteredHasQueue /\ CallGetsOwnResponse

\* What the server has read, what its I/O thread is given, and what the blocked writers
\* hold, one after the other, are the requests as they were written; what is missing at
\* the end is what a close has thrown away.  g is the number of those read or given.
InLine(ch, g, q, reqs) ==
  /\ IF ch.given \in Message THEN g = Len(q) + 1 /\ ch.given = reqs[g] ELSE g = Len(q)
  /\ g + Len(ch.puts) <= Len(reqs)
  /\ ch.closed \/ g + Len(ch.puts) = Len(reqs)
  /\ \A k \in 1 .. Len(q) : q[k].msg = reqs[k]
  /\ \A i \in 1 .. Len(ch.puts) : ch.puts[i].obj = reqs[g + i]

\* A channel without a buffer: nobody is blocked in front of a parked reader.
Unbuffered(ch) ==
  /\ ch.buffer = <<>>
  /\ ch.parked => ch.puts = <<>> /\ ch.given = Nothing
  /\ ch.given = Nil => ch.closed
  /\ ch.closed => ch.puts = <<>> /\ ~ch.parked

OrderInv ==
  /\ Unbuffered(chan["server"])
  /\ \E g \in 0 .. Len(requests) : InLine(chan["server"], g, tasks["server"], requests)
  /\ io["server"] = "reading" => ~chan["server"].parked /\ chan["server"].given = Nothing

-----------------------------------------------------------------------------
(* The channel *)

\* The fields of a channel after a Put.
LEMMA PutFields ==
  ASSUME NEW ch \in Channel, NEW m \in Message, NEW w \in Writer
  PROVE  /\ Put(ch, m, w) \in Channel
         /\ Put(ch, m, w).closed = ch.closed
         /\ ch.parked =>
              /\ Put(ch, m, w).parked = FALSE /\ Put(ch, m, w).given = m
              /\ Put(ch, m, w).puts = ch.puts /\ Put(ch, m, w).buffer = ch.buffer
         /\ ~ch.parked =>
              /\ Put(ch, m, w).parked = FALSE /\ Put(ch, m, w).given = ch.given
              /\ \/ /\ Len(ch.buffer) < BufferLimit
                    /\ Put(ch, m, w).puts = ch.puts /\ Put(ch, m, w).buffer = Append(ch.buffer, m)
                 \/ /\ ~(Len(ch.buffer) < BufferLimit)
                    /\ Put(ch, m, w).puts = Append(ch.puts, [obj |-> m, writer |-> w])
                    /\ Put(ch, m, w).buffer = ch.buffer
<1>1. /\ ch.closed \in BOOLEAN /\ ch.parked \in BOOLEAN /\ ch.given \in Message \cup {Nothing, Nil}
      /\ ch.buffer \in Seq(Message) /\ ch.puts \in Seq(PutType)
  BY DEF Channel
<1>2. [obj |-> m, writer |-> w] \in PutType
  BY DEF PutType
<1>3. Append(ch.buffer, m) \in Seq(Message) /\ Append(ch.puts, [obj |-> m, writer |-> w]) \in Seq(PutType)
  BY <1>1, <1>2
<1>4. CASE ch.parked
  BY <1>4, Zenon DEF Put, Channel
<1>5. CASE ~ch.parked /\ Len(ch.buffer) < BufferLimit
  BY <1>3, <1>5 DEF Put, Channel
<1>6. CASE ~ch.parked /\ ~(Len(ch.buffer) < BufferLimit)
  BY <1>3, <1>6 DEF Put, Channel
<1> QED
  BY <1>4, <1>5, <1>6

\* A Put adds its object, and nothing else.
LEMMA PutObjects ==
  ASSUME NEW ch \in Channel, NEW m \in Message, NEW w \in Writer
  PROVE  Objects(Put(ch, m, w)) \subseteq Objects(ch) \cup {m}
<1>1. PICK new : new = Put(ch, m, w)
  OBVIOUS
<1>2. ch.buffer \in Seq(Message) /\ ch.puts \in Seq(PutType)
  BY DEF Channel
<1>3. PICK put : put = [obj |-> m, writer |-> w] /\ put \in PutType /\ put.obj = m
  <2>1. [obj |-> m, writer |-> w] \in PutType /\ [obj |-> m, writer |-> w].obj = m
    BY DEF PutType
  <2> QED
    BY <2>1, Zenon
<1>4. \A i \in DOMAIN Append(ch.buffer, m) :
        \/ i \in DOMAIN ch.buffer /\ Append(ch.buffer, m)[i] = ch.buffer[i]
        \/ Append(ch.buffer, m)[i] = m
  BY <1>2
<1>5. \A i \in DOMAIN Append(ch.puts, put) :
        \/ i \in DOMAIN ch.puts /\ Append(ch.puts, put)[i] = ch.puts[i]
        \/ Append(ch.puts, put)[i] = put
  BY <1>2, <1>3
<1>6. /\ new.given = ch.given \/ new.given = m
      /\ new.buffer = ch.buffer \/ new.buffer = Append(ch.buffer, m)
      /\ new.puts = ch.puts \/ new.puts = Append(ch.puts, put)
  BY <1>1, <1>3, PutFields DEF Channel
<1>7. \A i \in DOMAIN new.buffer : new.buffer[i] = m \/ (i \in DOMAIN ch.buffer /\ new.buffer[i] = ch.buffer[i])
  BY <1>4, <1>6
<1>8. \A i \in DOMAIN new.puts : new.puts[i].obj = m \/ (i \in DOMAIN ch.puts /\ new.puts[i].obj = ch.puts[i].obj)
  BY <1>3, <1>5, <1>6
<1> QED
  BY <1>1, <1>6, <1>7, <1>8 DEF Objects

\* The fields of a channel after a Get, and what the Get returns.
LEMMA GetFields ==
  ASSUME NEW ch \in Channel
  PROVE  /\ Get(ch) \in Channel
         /\ Get(ch).closed = ch.closed /\ Get(ch).given = ch.given
         /\ ch.closed => GetResult(ch) = Nil /\ Get(ch) = ch
         /\ ~ch.closed /\ ch.puts # <<>> =>
              /\ GetResult(ch) = Head(ch.puts).obj
              /\ Get(ch).puts = Tail(ch.puts) /\ Get(ch).buffer = ch.buffer /\ Get(ch).parked = ch.parked
         /\ ~ch.closed /\ ch.puts = <<>> /\ ch.buffer # <<>> =>
              /\ GetResult(ch) = Head(ch.buffer)
              /\ Get(ch).puts = ch.puts /\ Get(ch).buffer = Tail(ch.buffer) /\ Get(ch).parked = ch.parked
         /\ ~ch.closed /\ ch.puts = <<>> /\ ch.buffer = <<>> =>
              /\ GetResult(ch) = Nothing
              /\ Get(ch).puts = ch.puts /\ Get(ch).buffer = ch.buffer /\ Get(ch).parked = TRUE
<1>1. ch.buffer \in Seq(Message) /\ ch.puts \in Seq(PutType)
  BY DEF Channel
<1>2. /\ ch.buffer # <<>> => Tail(ch.buffer) \in Seq(Message)
      /\ ch.puts # <<>> => Tail(ch.puts) \in Seq(PutType)
  BY <1>1
<1>3. CASE ch.closed
  BY <1>3, Zenon DEF Get, GetResult
<1>4. CASE ~ch.closed /\ ch.puts # <<>>
  BY <1>2, <1>4 DEF Get, GetResult, Channel
<1>5. CASE ~ch.closed /\ ch.puts = <<>> /\ ch.buffer # <<>>
  BY <1>2, <1>5 DEF Get, GetResult, Channel
<1>6. CASE ~ch.closed /\ ch.puts = <<>> /\ ch.buffer = <<>>
  BY <1>6 DEF Get, GetResult, Channel
<1> QED
  BY <1>3, <1>4, <1>5, <1>6

\* A Get returns an object of the channel, if any, and leaves the others.
LEMMA GetObjects ==
  ASSUME NEW ch \in Channel
  PROVE  /\ Objects(Get(ch)) \subseteq Objects(ch)
         /\ GetResult(ch) \in {Nothing, Nil} \/ (GetResult(ch) \in Objects(ch) /\ GetResult(ch) \in Message)
<1>1. ch.buffer \in Seq(Message) /\ ch.puts \in Seq(PutType)
  BY DEF Channel
<1>2. CASE ch.closed
  BY <1>2, GetFields
<1>3. CASE ~ch.closed /\ ch.puts # <<>>
  <2>1. \A i \in DOMAIN Tail(ch.puts) : i + 1 \in DOMAIN ch.puts /\ Tail(ch.puts)[i] = ch.puts[i + 1]
    BY <1>1, <1>3
  <2>2. 1 \in DOMAIN ch.puts /\ Head(ch.puts) = ch.puts[1] /\ ch.puts[1] \in PutType
    BY <1>1, <1>3
  <2>3. GetResult(ch) = ch.puts[1].obj /\ ch.puts[1].obj \in Message
    BY <1>3, <2>2, GetFields DEF PutType
  <2>4. GetResult(ch) \in Objects(ch)
    BY <2>2, <2>3 DEF Objects
  <2>5. Get(ch).puts = Tail(ch.puts) /\ Get(ch).buffer = ch.buffer /\ Get(ch).given = ch.given
    BY <1>3, GetFields
  <2> QED
    BY <2>1, <2>3, <2>4, <2>5 DEF Objects
<1>4. CASE ~ch.closed /\ ch.puts = <<>> /\ ch.buffer # <<>>
  <2>1. \A i \in DOMAIN Tail(ch.buffer) : i + 1 \in DOMAIN ch.buffer /\ Tail(ch.buffer)[i] = ch.buffer[i + 1]
    BY <1>1, <1>4
  <2>2. 1 \in DOMAIN ch.buffer /\ Head(ch.buffer) = ch.buffer[1] /\ ch.buffer[1] \in Message
    BY <1>1, <1>4
  <2>3. GetResult(ch) = ch.buffer[1]
    BY <1>4, <2>2, GetFields
  <2>4. GetResult(ch) \in Objects(ch)
    BY <2>2, <2>3 DEF Objects
  <2>5. Get(ch).puts = ch.puts /\ Get(ch).buffer = Tail(ch.buffer) /\ Get(ch).given = ch.given
    BY <1>4, GetFields
  <2> QED
    BY <2>1, <2>2, <2>3, <2>4, <2>5 DEF Objects
<1>5. CASE ~ch.closed /\ ch.puts = <<>> /\ ch.buffer = <<>>
  <2>1. /\ GetResult(ch) = Nothing /\ Get(ch).given = ch.given
        /\ Get(ch).puts = ch.puts /\ Get(ch).buffer = ch.buffer
    BY <1>5, GetFields
  <2> QED
    BY <2>1 DEF Objects
<1> QED
  BY <1>2, <1>3, <1>4, <1>5

\* Closing takes objects away, and resolves a reader that is blocked.
LEMMA CloseFields ==
  ASSUME NEW ch \in Channel
  PROVE  /\ Close(ch) \in Channel
         /\ Close(ch).closed = TRUE /\ Close(ch).puts = <<>> /\ Close(ch).parked = FALSE
         /\ Close(ch).buffer = ch.buffer
         /\ Close(ch).given = (IF ch.parked THEN Nil ELSE ch.given)
<1>1. <<>> \in Seq(PutType)
  OBVIOUS
<1> QED
  BY <1>1 DEF Close, Channel

\* Channel#close adds no message to the channel.
LEMMA CloseObjects ==
  ASSUME NEW ch \in Channel
  PROVE  Objects(Close(ch)) \subseteq Objects(ch)
<1>1. PICK new : new = Close(ch)
  OBVIOUS
<1>2. new.puts = <<>> /\ new.buffer = ch.buffer /\ (new.given = Nil \/ new.given = ch.given)
  BY <1>1, CloseFields
<1> QED
  BY <1>1, <1>2 DEF Objects

\* The reader takes what it was given.
LEMMA TakenFields ==
  ASSUME NEW ch \in Channel
  PROVE  /\ [ch EXCEPT !.given = Nothing] \in Channel
         /\ [ch EXCEPT !.given = Nothing].given = Nothing
         /\ [ch EXCEPT !.given = Nothing].closed = ch.closed
         /\ [ch EXCEPT !.given = Nothing].parked = ch.parked
         /\ [ch EXCEPT !.given = Nothing].puts = ch.puts
         /\ [ch EXCEPT !.given = Nothing].buffer = ch.buffer
BY DEF Channel

\* A get that takes its message adds none to the channel.
LEMMA TakenObjects ==
  ASSUME NEW ch \in Channel
  PROVE  Objects([ch EXCEPT !.given = Nothing]) \subseteq Objects(ch)
<1>1. PICK new : new = [ch EXCEPT !.given = Nothing]
  OBVIOUS
<1>2. new.puts = ch.puts /\ new.buffer = ch.buffer /\ new.given = Nothing
  BY <1>1, TakenFields
<1> QED
  BY <1>1, <1>2 DEF Objects

-----------------------------------------------------------------------------
(* Steps on the tasks and on the channels *)

Place == {"started", "responding", "rescuing", "sending", "raising", "ended", "failed"}

\* A task that goes on keeps its message, and every other task is left alone.
LEMMA MoveTasks ==
  ASSUME Types, NEW s \in Sides, NEW k \in DOMAIN tasks[s], NEW place \in Place, Move(s, k, place)
  PROVE  /\ tasks' \in [Sides -> Seq(Task)]
         /\ \A r \in Sides :
              /\ Len(tasks'[r]) = Len(tasks[r]) /\ DOMAIN tasks'[r] = DOMAIN tasks[r]
              /\ \A j \in DOMAIN tasks[r] : tasks'[r][j].msg = tasks[r][j].msg
<1>1. tasks \in [Sides -> Seq(Task)] /\ tasks[s] \in Seq(Task) /\ tasks[s][k] \in Task
  BY DEF Types
<1>2. PICK t : t = [tasks[s][k] EXCEPT !.at = place]
  OBVIOUS
<1>3. t \in Task /\ t.msg = tasks[s][k].msg
  BY <1>1, <1>2 DEF Task, Place
<1>4. PICK q : q = [tasks[s] EXCEPT ![k] = t]
  OBVIOUS
<1>5. /\ q \in Seq(Task) /\ Len(q) = Len(tasks[s]) /\ DOMAIN q = DOMAIN tasks[s]
      /\ q[k] = t /\ \A j \in DOMAIN tasks[s] : j # k => q[j] = tasks[s][j]
  BY <1>1, <1>3, <1>4
<1>6. tasks' = [tasks EXCEPT ![s] = q]
  BY <1>2, <1>4 DEF Move
<1>7. \A j \in DOMAIN tasks[s] : q[j].msg = tasks[s][j].msg
  BY <1>3, <1>5
<1>8. tasks'[s] = q /\ \A r \in Sides : r # s => tasks'[r] = tasks[r]
  BY <1>1, <1>6
<1>9. tasks' \in [Sides -> Seq(Task)]
  BY <1>1, <1>5, <1>6
<1> QED
  BY <1>5, <1>7, <1>8, <1>9

\* A message that was read is that of the last task.
LEMMA StartTasks ==
  ASSUME Types, NEW s \in Sides, NEW m \in Message, tasks' = StartTask(s, m)
  PROVE  /\ tasks' \in [Sides -> Seq(Task)]
         /\ Len(tasks'[s]) = Len(tasks[s]) + 1 /\ tasks'[s][Len(tasks[s]) + 1].msg = m
         /\ \A j \in DOMAIN tasks[s] : tasks'[s][j] = tasks[s][j]
         /\ \A r \in Sides : r # s => tasks'[r] = tasks[r]
<1>1. tasks \in [Sides -> Seq(Task)] /\ tasks[s] \in Seq(Task)
  BY DEF Types
<1>2. [msg |-> m, at |-> "started"] \in Task /\ [msg |-> m, at |-> "started"].msg = m
  BY DEF Task
<1>3. PICK t \in Task : t = [msg |-> m, at |-> "started"] /\ t.msg = m
  BY <1>2, Zenon
<1>4. PICK q : q = Append(tasks[s], t)
  OBVIOUS
<1>5. /\ q \in Seq(Task) /\ Len(q) = Len(tasks[s]) + 1 /\ q[Len(tasks[s]) + 1] = t
      /\ \A j \in DOMAIN tasks[s] : q[j] = tasks[s][j]
  BY <1>1, <1>4
<1>6. tasks' = [tasks EXCEPT ![s] = q]
  BY <1>3, <1>4, Zenon DEF StartTask
<1>7. tasks'[s] = q /\ (\A r \in Sides : r # s => tasks'[r] = tasks[r]) /\ tasks' \in [Sides -> Seq(Task)]
  BY <1>1, <1>5, <1>6
<1> QED
  BY <1>3, <1>5, <1>7

\* The channel of one side changes.
LEMMA ChannelOf ==
  ASSUME Types, NEW s \in Sides, NEW ch \in Channel, chan' = [chan EXCEPT ![s] = ch]
  PROVE  /\ chan' \in [Sides -> Channel] /\ chan'[s] = ch
         /\ \A r \in Sides : r # s => chan'[r] = chan[r]
BY DEF Types

\* Everything that is on its way is a message.
LEMMA MessagesTyped ==
  ASSUME Types, NEW s \in Sides
  PROVE  Messages(s) \subseteq Message
<1>1. chan[s] \in Channel /\ tasks[s] \in Seq(Task)
  BY DEF Types
<1>2. /\ chan[s].buffer \in Seq(Message) /\ chan[s].puts \in Seq(PutType)
      /\ chan[s].given \in Message \cup {Nothing, Nil}
  BY <1>1 DEF Channel
<1>3. \A i \in DOMAIN chan[s].puts : chan[s].puts[i].obj \in Message
  <2>1. \A i \in DOMAIN chan[s].puts : chan[s].puts[i] \in PutType
    BY <1>2
  <2> QED
    BY <2>1 DEF PutType
<1>4. \A i \in DOMAIN chan[s].buffer : chan[s].buffer[i] \in Message
  BY <1>2
<1>5. \A k \in DOMAIN tasks[s] : tasks[s][k].msg \in Message
  <2>1. \A k \in DOMAIN tasks[s] : tasks[s][k] \in Task
    BY <1>1
  <2> QED
    BY <2>1 DEF Task
<1> QED
  BY <1>2, <1>3, <1>4, <1>5 DEF Messages, Objects

\* A step that makes no call and adds only messages that belong to their callers.
LEMMA CallsAlone ==
  ASSUME CallsInv, UNCHANGED clientVars, Types',
         \A s \in Sides : \A m \in Messages(s)' : Owned(m)
  PROVE  CallsInv'
<1>1. \A m : Owned(m)' <=> Owned(m)
  BY DEF Owned, clientVars
<1>2. MessagesOwned'
  BY <1>1 DEF MessagesOwned
<1> QED
  BY <1>2 DEF CallsInv, clientVars, RegisteredHasQueue, CallGetsOwnResponse

\* The messages of both sides, when only tasks move.
LEMMA MovedMessages ==
  ASSUME Types, NEW s \in Sides, NEW k \in DOMAIN tasks[s], NEW place \in Place, Move(s, k, place),
         UNCHANGED chan
  PROVE  \A r \in Sides : Messages(r)' = Messages(r)
<1>1. \A r \in Sides : chan'[r] = chan[r]
  OBVIOUS
<1> QED
  BY <1>1, MoveTasks DEF Messages

\* The messages of both sides, when a task or a caller writes m and tasks move.
LEMMA WrittenMessages ==
  ASSUME Types, NEW s \in Sides, NEW m \in Message, NEW w \in Writer, PutInto(s, m, w),
         \A r \in Sides : /\ DOMAIN tasks'[r] = DOMAIN tasks[r]
                          /\ \A j \in DOMAIN tasks[r] : tasks'[r][j].msg = tasks[r][j].msg
  PROVE  /\ chan' \in [Sides -> Channel] /\ requests' \in Seq(Message)
         /\ \A r \in Sides : Messages(r)' \subseteq Messages(r) \cup {m}
<1>1. chan[s] \in Channel /\ requests \in Seq(Message)
  BY DEF Types
<1>2. PICK ch : ch = Put(chan[s], m, w)
  OBVIOUS
<1>3. ch \in Channel /\ Objects(ch) \subseteq Objects(chan[s]) \cup {m}
  BY <1>1, <1>2, PutFields, PutObjects
<1>4. chan' = [chan EXCEPT ![s] = ch] /\ requests' = IF s = "server" THEN Append(requests, m) ELSE requests
  BY <1>2 DEF PutInto
<1>5. /\ chan' \in [Sides -> Channel] /\ chan'[s] = ch
      /\ \A r \in Sides : r # s => chan'[r] = chan[r]
  BY <1>3, <1>4, ChannelOf
<1>6. requests' \in Seq(Message)
  BY <1>1, <1>4
<1>7. \A r \in Sides : Objects(chan'[r]) \subseteq Objects(chan[r]) \cup {m}
  BY <1>3, <1>5
<1> QED
  BY <1>5, <1>6, <1>7 DEF Messages

-----------------------------------------------------------------------------
(* CallsInv: the I/O threads *)

\* What the I/O thread has read is a message of its side, or the end.
LEMMA HaveReadKeeps ==
  ASSUME CallsInv, NEW s \in Sides, NEW m, m = Nil \/ (m \in Message /\ m \in Messages(s)), HaveRead(s, m),
         NEW ch \in Channel, chan' = [chan EXCEPT ![s] = ch], Objects(ch) \subseteq Objects(chan[s]),
         UNCHANGED <<clientVars, requests>>
  PROVE  CallsInv'
<1>1. Types /\ MessagesOwned
  BY DEF CallsInv
<1>2. /\ chan' \in [Sides -> Channel] /\ chan'[s] = ch
      /\ \A r \in Sides : r # s => chan'[r] = chan[r]
  BY <1>1, ChannelOf
<1>3. \A r \in Sides : Objects(chan'[r]) \subseteq Objects(chan[r])
  BY <1>2
<1>4. tasks' \in [Sides -> Seq(Task)] /\ \A r \in Sides : \A k \in DOMAIN tasks'[r] : tasks'[r][k].msg \in Messages(r)
  <2>1. \A r \in Sides : tasks[r] \in Seq(Task)
    BY <1>1 DEF Types
  <2>2. CASE UNCHANGED tasks
    BY <1>1, <2>2 DEF Types, Messages
  <2>3. CASE m \in Message /\ m \in Messages(s) /\ tasks' = StartTask(s, m)
    <3>1. /\ tasks' \in [Sides -> Seq(Task)]
          /\ Len(tasks'[s]) = Len(tasks[s]) + 1 /\ tasks'[s][Len(tasks[s]) + 1].msg = m
          /\ \A j \in DOMAIN tasks[s] : tasks'[s][j] = tasks[s][j]
          /\ \A r \in Sides : r # s => tasks'[r] = tasks[r]
      BY <1>1, <2>3, StartTasks
    <3>2. tasks'[s] \in Seq(Task)
      BY <3>1
    <3>3. \A k \in DOMAIN tasks'[s] : k \in DOMAIN tasks[s] \/ k = Len(tasks[s]) + 1
      BY <2>1, <3>1, <3>2
    <3>4. \A k \in DOMAIN tasks'[s] : tasks'[s][k].msg \in Messages(s)
      BY <2>3, <3>1, <3>3 DEF Messages
    <3>5. \A r \in Sides : r # s => \A k \in DOMAIN tasks'[r] : tasks'[r][k].msg \in Messages(r)
      BY <3>1 DEF Messages
    <3> QED
      BY <3>1, <3>4, <3>5
  <2> QED
    BY <2>2, <2>3 DEF HaveRead
<1>5. \A r \in Sides : Messages(r)' \subseteq Messages(r)
  <2> SUFFICES ASSUME NEW r \in Sides, NEW o \in Messages(r)'
               PROVE  o \in Messages(r)
    OBVIOUS
  <2>1. CASE o \in Objects(chan'[r])
    BY <1>3, <2>1 DEF Messages
  <2>2. CASE \E k \in DOMAIN tasks'[r] : o = tasks'[r][k].msg
    BY <1>4, <2>2
  <2> QED
    BY <2>1, <2>2 DEF Messages
<1>6. io' \in [Sides -> {"reading", "parked", "ended"}]
  BY <1>1 DEF Types, HaveRead
<1>7. Types'
  BY <1>1, <1>2, <1>4, <1>6 DEF Types, clientVars
<1> QED
  BY <1>1, <1>5, <1>7, CallsAlone DEF MessagesOwned

\* Pipe#read keeps CallsInv.
LEMMA ReadKeepsCalls ==
  ASSUME CallsInv, NEW s \in Sides, Read(s)
  PROVE  CallsInv'
<1>1. Types /\ MessagesOwned /\ chan[s] \in Channel
  BY DEF CallsInv, Types
<1>2. PICK ch, m : ch = Get(chan[s]) /\ m = GetResult(chan[s])
  OBVIOUS
<1>3. /\ ch \in Channel /\ Objects(ch) \subseteq Objects(chan[s])
      /\ m \in {Nothing, Nil} \/ (m \in Objects(chan[s]) /\ m \in Message)
  BY <1>1, <1>2, GetFields, GetObjects
<1>4. /\ chan' = [chan EXCEPT ![s] = ch] /\ UNCHANGED <<clientVars, requests>>
      /\ \/ io' = [io EXCEPT ![s] = "parked"] /\ UNCHANGED tasks
         \/ m # Nothing /\ HaveRead(s, m)
  BY <1>2 DEF Read
<1>5. CASE m # Nothing /\ HaveRead(s, m)
  <2>1. m = Nil \/ (m \in Message /\ m \in Messages(s))
    BY <1>3, <1>5 DEF Messages
  <2> QED
    BY <1>3, <1>4, <1>5, <2>1, HaveReadKeeps
<1>6. CASE io' = [io EXCEPT ![s] = "parked"] /\ UNCHANGED tasks
  <2>1. /\ chan' \in [Sides -> Channel] /\ chan'[s] = ch
        /\ \A r \in Sides : r # s => chan'[r] = chan[r]
    BY <1>1, <1>3, <1>4, ChannelOf
  <2>2. \A r \in Sides : Objects(chan'[r]) \subseteq Objects(chan[r])
    BY <1>3, <2>1
  <2>3. \A r \in Sides : Messages(r)' \subseteq Messages(r)
    BY <1>6, <2>2 DEF Messages
  <2>4. io' \in [Sides -> {"reading", "parked", "ended"}]
    BY <1>1, <1>6 DEF Types
  <2>5. Types'
    BY <1>1, <1>4, <1>6, <2>1, <2>4 DEF Types, clientVars
  <2> QED
    BY <1>1, <1>4, <2>3, <2>5, CallsAlone DEF MessagesOwned
<1> QED
  BY <1>4, <1>5, <1>6

\* A read that resumes with the message it was given keeps CallsInv.
LEMMA ReadResolvedKeepsCalls ==
  ASSUME CallsInv, NEW s \in Sides, ReadResolved(s)
  PROVE  CallsInv'
<1>1. Types /\ chan[s] \in Channel /\ chan[s].given \in Message \cup {Nothing, Nil}
  BY DEF CallsInv, Types, Channel
<1>2. PICK ch, m : ch = [chan[s] EXCEPT !.given = Nothing] /\ m = chan[s].given
  OBVIOUS
<1>3. ch \in Channel /\ Objects(ch) \subseteq Objects(chan[s])
  BY <1>1, <1>2, TakenFields, TakenObjects
<1>4. m # Nothing /\ HaveRead(s, m) /\ chan' = [chan EXCEPT ![s] = ch] /\ UNCHANGED <<clientVars, requests>>
  BY <1>2 DEF ReadResolved
<1>5. m = Nil \/ (m \in Message /\ m \in Messages(s))
  BY <1>1, <1>2, <1>4 DEF Messages, Objects
<1> QED
  BY <1>3, <1>4, <1>5, HaveReadKeeps

\* Closing a pipe keeps CallsInv.
LEMMA ClosePipeKeepsCalls ==
  ASSUME CallsInv, NEW s \in Sides, ClosePipe(s)
  PROVE  CallsInv'
<1>1. Types /\ MessagesOwned /\ chan[s] \in Channel
  BY DEF CallsInv, Types
<1>2. PICK ch : ch = Close(chan[s])
  OBVIOUS
<1>3. ch \in Channel /\ Objects(ch) \subseteq Objects(chan[s])
  BY <1>1, <1>2, CloseFields, CloseObjects
<1>4. chan' = [chan EXCEPT ![s] = ch] /\ UNCHANGED <<ioVars, tasks, clientVars, requests>>
  BY <1>2 DEF ClosePipe
<1>5. /\ chan' \in [Sides -> Channel] /\ chan'[s] = ch
      /\ \A r \in Sides : r # s => chan'[r] = chan[r]
  BY <1>1, <1>3, <1>4, ChannelOf
<1>6. \A r \in Sides : Objects(chan'[r]) \subseteq Objects(chan[r])
  BY <1>3, <1>5
<1>7. \A r \in Sides : Messages(r)' \subseteq Messages(r)
  BY <1>4, <1>6 DEF Messages
<1>8. Types'
  BY <1>1, <1>4, <1>5 DEF Types, clientVars, ioVars
<1> QED
  BY <1>1, <1>4, <1>7, <1>8, CallsAlone DEF MessagesOwned

\* An exception, or the thread's assignment to a variable.
LEMMA IoStepKeepsCalls ==
  ASSUME CallsInv, NEW s \in Sides, AssignIoThread(s) \/ TakeException(s)
  PROVE  CallsInv'
<1>1. Types /\ MessagesOwned
  BY DEF CallsInv
<1>2. UNCHANGED <<chan, tasks, clientVars, requests>> /\ io' \in [Sides -> {"reading", "parked", "ended"}]
  BY <1>1 DEF AssignIoThread, TakeException, Types
<1>3. \A r \in Sides : Messages(r)' = Messages(r)
  BY <1>2 DEF Messages
<1>4. Types'
  BY <1>1, <1>2 DEF Types, clientVars
<1> QED
  BY <1>1, <1>2, <1>3, <1>4, CallsAlone DEF MessagesOwned

\* A task goes on without writing.
LEMMA MoveKeepsCalls ==
  ASSUME CallsInv, NEW s \in Sides, NEW k \in DOMAIN tasks[s], NEW place \in Place, Move(s, k, place),
         UNCHANGED <<chan, io, clientVars, requests>>
  PROVE  CallsInv'
<1>1. Types /\ MessagesOwned
  BY DEF CallsInv
<1>2. \A r \in Sides : Messages(r)' = Messages(r)
  BY <1>1, MovedMessages
<1>3. Types'
  BY <1>1, MoveTasks DEF Types, clientVars
<1> QED
  BY <1>1, <1>2, <1>3, CallsAlone DEF MessagesOwned

-----------------------------------------------------------------------------
(* CallsInv: the tasks and the callers *)

\* A task of the server writes a message that has no ID, or the ID and the caller of its
\* request.
LEMMA ServerWritesKeepsCalls ==
  ASSUME CallsInv, NEW k \in DOMAIN tasks["server"], NEW from, NEW m \in Message,
         NEW then \in Place, NEW ifClosed \in Place,
         ServerWrites(k, from, m, then, ifClosed), Owned(m)
  PROVE  CallsInv'
<1>1. Types /\ MessagesOwned /\ "server" \in Sides /\ "client" \in Sides
  BY DEF CallsInv, Sides
<1>2. UNCHANGED <<ioVars, clientVars>>
  BY DEF ServerWrites
<1>3. CASE Move("server", k, ifClosed) /\ UNCHANGED <<chan, requests>>
  BY <1>1, <1>2, <1>3, MoveKeepsCalls DEF ioVars
<1>4. CASE Move("server", k, then) /\ PutInto("client", m, k)
  <2>1. k \in Writer
    <3>1. tasks["server"] \in Seq(Task)
      BY <1>1 DEF Types
    <3>2. k \in Nat
      BY <3>1
    <3> QED
      BY <3>2 DEF Writer
  <2>2. /\ tasks' \in [Sides -> Seq(Task)]
        /\ \A r \in Sides :
             /\ DOMAIN tasks'[r] = DOMAIN tasks[r]
             /\ \A j \in DOMAIN tasks[r] : tasks'[r][j].msg = tasks[r][j].msg
    BY <1>1, <1>4, MoveTasks
  <2>3. /\ chan' \in [Sides -> Channel] /\ requests' \in Seq(Message)
        /\ \A r \in Sides : Messages(r)' \subseteq Messages(r) \cup {m}
    BY <1>1, <1>4, <2>1, <2>2, WrittenMessages
  <2>4. Types'
    BY <1>1, <1>2, <2>2, <2>3 DEF Types, clientVars, ioVars
  <2>5. \A r \in Sides : \A o \in Messages(r)' : Owned(o)
    BY <1>1, <2>3 DEF MessagesOwned
  <2> QED
    BY <1>2, <2>4, <2>5, CallsAlone
<1> QED
  BY <1>3, <1>4 DEF ServerWrites

\* A task of the server that runs, responds or raises keeps CallsInv.
LEMMA ServerStepKeepsCalls ==
  ASSUME CallsInv, NEW k \in DOMAIN tasks["server"], ServerStep(k)
  PROVE  CallsInv'
<1>1. Types /\ MessagesOwned /\ "server" \in Sides
  BY DEF CallsInv, Sides
<1>2. tasks["server"] \in Seq(Task) /\ tasks["server"][k] \in Task
  BY <1>1 DEF Types
<1>3. /\ Request(k) \in Message /\ Request(k) \in Messages("server") /\ Owned(Request(k))
  BY <1>1, <1>2 DEF Request, Task, Messages, MessagesOwned
<1>4. CASE Handle(k)
  <2>1. \E place \in Place : Move("server", k, place)
    BY <1>4 DEF Handle, Place
  <2> QED
    BY <1>1, <1>4, <2>1, MoveKeepsCalls DEF Handle, ioVars
<1>5. /\ [id |-> None, caller |-> None] \in Message
      /\ [id |-> None, caller |-> None].id = None
  BY DEF Message
<1>6. Owned([id |-> None, caller |-> None])
  BY <1>5 DEF Owned
<1>7. {"responding", "rescuing", "ended", "raising"} \subseteq Place
  BY DEF Place
<1>8. CASE SendEvent(k)
  BY <1>5, <1>6, <1>7, <1>8, ServerWritesKeepsCalls DEF SendEvent
<1>9. CASE WriteError(k)
  BY <1>5, <1>6, <1>7, <1>9, ServerWritesKeepsCalls DEF WriteError
<1>10. CASE WriteResponse(k)
  <2>1. [id |-> Request(k).id, caller |-> Request(k).caller] = Request(k)
    BY <1>3 DEF Message
  <2> QED
    BY <1>3, <1>7, <1>10, <2>1, ServerWritesKeepsCalls DEF WriteResponse
<1> QED
  BY <1>4, <1>8, <1>9, <1>10 DEF ServerStep

\* An ID that no message has is registered for a caller that no message is about.
LEMMA RegisterKeepsCalls ==
  ASSUME CallsInv, NEW c \in Callers, Register(c)
  PROVE  CallsInv'
<1>1. Types /\ MessagesOwned /\ RegisteredHasQueue /\ CallGetsOwnResponse
  BY DEF CallsInv
<1>2. /\ call[c] = "idle" /\ call' = [call EXCEPT ![c] = "registered"]
      /\ queues' = [i \in DOMAIN queues \cup {nextId} |-> IF i = nextId THEN c ELSE queues[i]]
      /\ nextId' = nextId + 1 /\ UNCHANGED <<chan, io, tasks, answer, requests>>
  BY DEF Register, Registered, ioVars
<1>3. nextId \in Nat /\ DOMAIN queues \subseteq {i \in Nat : i < nextId} /\ call'[c] = "registered"
      /\ \A d \in Callers : d # c => call'[d] = call[d]
  BY <1>1, <1>2 DEF Types
<1>4. DOMAIN queues' = DOMAIN queues \cup {nextId} /\ queues'[nextId] = c /\ nextId \notin DOMAIN queues
  BY <1>2, <1>3
<1>5. \A i \in DOMAIN queues : queues'[i] = queues[i]
  BY <1>2, <1>4
<1>6. Types'
  <2>1. nextId + 1 \in Nat /\ DOMAIN queues' \subseteq {i \in Nat : i < nextId + 1}
    BY <1>3, <1>4
  <2>2. \A i \in DOMAIN queues' : queues'[i] \in Callers
    BY <1>1, <1>4, <1>5 DEF Types
  <2>3. call' \in [Callers -> {"idle", "registered", "writing", "raised", "returned"}]
    BY <1>1, <1>2 DEF Types
  <2> QED
    BY <1>1, <1>2, <2>1, <2>2, <2>3 DEF Types
<1>7. MessagesOwned'
  <2> SUFFICES ASSUME NEW s \in Sides, NEW m \in Messages(s)', m.id # None
               PROVE  Owned(m)'
    BY DEF MessagesOwned, Owned
  <2>1. m \in Messages(s) /\ Owned(m)
    BY <1>1, <1>2 DEF Messages, MessagesOwned
  <2>2. /\ m.id < nextId /\ m.caller \in Callers /\ call[m.caller] \notin {"idle", "registered"}
        /\ m.id \in DOMAIN queues => queues[m.id] = m.caller
    BY <2>1 DEF Owned
  <2>3. m.caller # c
    BY <1>2, <2>2
  <2>4. m \in Message
    BY <1>1, <2>1, MessagesTyped
  <2>5. m.id \in Nat /\ m.id # nextId /\ m.id < nextId + 1
    BY <1>3, <2>2, <2>4 DEF Message
  <2> QED
    BY <1>2, <1>3, <1>4, <1>5, <2>2, <2>3, <2>5 DEF Owned
<1>8. RegisteredHasQueue'
  BY <1>1, <1>3, <1>4, <1>5 DEF RegisteredHasQueue
<1>9. CallGetsOwnResponse'
  BY <1>1, <1>2 DEF CallGetsOwnResponse
<1> QED
  BY <1>6, <1>7, <1>8, <1>9 DEF CallsInv

\* The request is written with an ID of the caller's own.
LEMMA WriteRequestKeepsCalls ==
  ASSUME CallsInv, NEW c \in Callers, WriteRequest(c)
  PROVE  CallsInv'
<1>1. Types /\ MessagesOwned /\ RegisteredHasQueue /\ CallGetsOwnResponse /\ "server" \in Sides
  BY DEF CallsInv, Sides
<1>2. /\ call[c] = "registered"
      /\ UNCHANGED <<io, tasks, nextId, queues, answer>>
  BY DEF WriteRequest, ioVars
<1>3. PICK id \in DOMAIN queues : id = IdOf(c) /\ queues[id] = c
  BY <1>1, <1>2 DEF RegisteredHasQueue, IdOf
<1>4. PICK m \in Message : m = [id |-> IdOf(c), caller |-> c] /\ m.id = id /\ m.caller = c
  <2>1. id \in Nat
    BY <1>1, <1>3 DEF Types
  <2>2. /\ [id |-> id, caller |-> c] \in Message
        /\ [id |-> id, caller |-> c].id = id /\ [id |-> id, caller |-> c].caller = c
    BY <2>1 DEF Message
  <2> QED
    BY <1>3, <2>2, Zenon
<1>5. PICK place \in {"raised", "writing"} :
        /\ call' = [call EXCEPT ![c] = place]
        /\ UNCHANGED <<chan, requests>> \/ PutInto("server", m, c)
  BY <1>4 DEF WriteRequest
<1>6. /\ call' \in [Callers -> {"idle", "registered", "writing", "raised", "returned"}]
      /\ call'[c] = place /\ \A d \in Callers : d # c => call'[d] = call[d]
  BY <1>1, <1>5 DEF Types
<1>7. /\ chan' \in [Sides -> Channel] /\ requests' \in Seq(Message)
      /\ \A r \in Sides : Messages(r)' \subseteq Messages(r) \cup {m}
  <2>1. CASE UNCHANGED <<chan, requests>>
    BY <1>1, <1>2, <2>1 DEF Types, Messages
  <2>2. CASE PutInto("server", m, c)
    BY <1>1, <1>2, <2>2, WrittenMessages DEF Writer
  <2> QED
    BY <1>5, <2>1, <2>2
<1>8. Types'
  BY <1>1, <1>2, <1>6, <1>7 DEF Types
<1>9. MessagesOwned'
  <2> SUFFICES ASSUME NEW s \in Sides, NEW o \in Messages(s)', o.id # None
               PROVE  Owned(o)'
    BY DEF MessagesOwned, Owned
  <2>1. CASE o \in Messages(s)
    <3>1. Owned(o)
      BY <1>1, <2>1 DEF MessagesOwned
    <3>2. call'[o.caller] \notin {"idle", "registered"}
      BY <1>6, <3>1 DEF Owned
    <3> QED
      BY <1>2, <3>1, <3>2 DEF Owned
  <2>2. CASE o = m
    <3>1. id < nextId
      BY <1>1, <1>3 DEF Types
    <3>2. call'[c] \notin {"idle", "registered"}
      BY <1>6
    <3> QED
      BY <1>2, <1>3, <1>4, <2>2, <3>1, <3>2 DEF Owned
  <2> QED
    BY <1>7, <2>1, <2>2
<1>10. RegisteredHasQueue'
  BY <1>1, <1>2, <1>6 DEF RegisteredHasQueue
<1>11. CallGetsOwnResponse'
  BY <1>1, <1>2 DEF CallGetsOwnResponse
<1> QED
  BY <1>8, <1>9, <1>10, <1>11 DEF CallsInv

\* A caller that takes its response from its queue keeps CallsInv.
LEMMA PopKeepsCalls ==
  ASSUME CallsInv, NEW c \in Callers, Pop(c)
  PROVE  CallsInv'
<1>1. Types /\ MessagesOwned /\ RegisteredHasQueue /\ CallGetsOwnResponse
  BY DEF CallsInv
<1>2. /\ call[c] = "writing" /\ call' = [call EXCEPT ![c] = "returned"]
      /\ UNCHANGED <<chan, io, tasks, nextId, queues, answer, requests>>
  BY DEF Pop, ioVars
<1>3. /\ call' \in [Callers -> {"idle", "registered", "writing", "raised", "returned"}]
      /\ call'[c] = "returned" /\ \A d \in Callers : d # c => call'[d] = call[d]
  BY <1>1, <1>2 DEF Types
<1>4. Types'
  BY <1>1, <1>2, <1>3 DEF Types
<1>5. MessagesOwned'
  <2> SUFFICES ASSUME NEW s \in Sides, NEW o \in Messages(s)', o.id # None
               PROVE  Owned(o)'
    BY DEF MessagesOwned, Owned
  <2>1. Owned(o)
    BY <1>1, <1>2 DEF MessagesOwned, Messages
  <2>2. call'[o.caller] \notin {"idle", "registered"}
    BY <1>3, <2>1 DEF Owned
  <2> QED
    BY <1>2, <2>1, <2>2 DEF Owned
<1>6. RegisteredHasQueue' /\ CallGetsOwnResponse'
  BY <1>1, <1>2, <1>3 DEF RegisteredHasQueue, CallGetsOwnResponse
<1> QED
  BY <1>4, <1>5, <1>6 DEF CallsInv

\* A message resolves the call of the caller that it is about, whose queue goes.
LEMMA ResolveKeepsCalls ==
  ASSUME CallsInv, NEW k \in DOMAIN tasks["client"], Resolve(k)
  PROVE  CallsInv'
<1>1. Types /\ MessagesOwned /\ RegisteredHasQueue /\ CallGetsOwnResponse /\ "client" \in Sides
  BY DEF CallsInv, Sides
<1>2. PICK m : m = tasks["client"][k].msg
  OBVIOUS
<1>3. /\ m.id \in DOMAIN queues /\ answer' = [answer EXCEPT ![queues[m.id]] = m.caller]
      /\ queues' = [i \in DOMAIN queues \ {m.id} |-> queues[i]]
      /\ Move("client", k, "ended") /\ UNCHANGED <<chan, io, nextId, call, requests>>
  BY <1>2 DEF Resolve, ioVars
<1>4. Owned(m) /\ m.id # None
  <2>1. m \in Messages("client")
    BY <1>2 DEF Messages
  <2>2. m.id \in Nat
    BY <1>1, <1>3 DEF Types
  <2> QED
    BY <1>1, <2>1, <2>2, RubyConstants DEF MessagesOwned
<1>5. m.caller \in Callers /\ queues[m.id] = m.caller /\ call[m.caller] # "registered"
  BY <1>3, <1>4 DEF Owned
<1>6. /\ answer' \in [Callers -> Callers \cup {None}] /\ answer'[m.caller] = m.caller
      /\ \A d \in Callers : d # m.caller => answer'[d] = answer[d]
  BY <1>1, <1>3, <1>5 DEF Types
<1>7. DOMAIN queues' = DOMAIN queues \ {m.id} /\ \A i \in DOMAIN queues' : queues'[i] = queues[i]
  BY <1>3
<1>8. "ended" \in Place
  BY DEF Place
<1>9. Types'
  <2>1. tasks' \in [Sides -> Seq(Task)]
    BY <1>1, <1>3, <1>8, MoveTasks
  <2> QED
    BY <1>1, <1>3, <1>6, <1>7, <2>1 DEF Types
<1>10. MessagesOwned'
  <2>1. \A r \in Sides : Messages(r)' = Messages(r)
    BY <1>1, <1>3, <1>8, MovedMessages
  <2>2. \A o : Owned(o) => Owned(o)'
    BY <1>3, <1>7 DEF Owned
  <2> QED
    BY <1>1, <2>1, <2>2 DEF MessagesOwned
<1>11. RegisteredHasQueue'
  BY <1>1, <1>3, <1>5, <1>7 DEF RegisteredHasQueue
<1>12. CallGetsOwnResponse'
  BY <1>1, <1>6 DEF CallGetsOwnResponse
<1> QED
  BY <1>9, <1>10, <1>11, <1>12 DEF CallsInv

-----------------------------------------------------------------------------
\* CallsInv holds before anything is called.
LEMMA CallsInvInit == Init => CallsInv
<1> SUFFICES ASSUME Init PROVE CallsInv
  OBVIOUS
<1>1. NewChannel \in Channel /\ NewChannel.puts = <<>> /\ NewChannel.buffer = <<>> /\ NewChannel.given = Nothing
  <2>1. <<>> \in Seq(PutType) /\ <<>> \in Seq(Message)
    OBVIOUS
  <2> QED
    BY <2>1 DEF NewChannel, Channel
<1>2. Objects(NewChannel) = {}
  BY <1>1 DEF Objects
<1>3. \A s \in Sides : Messages(s) = {}
  BY <1>2 DEF Init, Messages
<1>4. Types
  BY <1>1 DEF Init, Types
<1> QED
  BY <1>3, <1>4 DEF Init, CallsInv, MessagesOwned, RegisteredHasQueue, CallGetsOwnResponse

\* Every step of a caller, a read loop or a task of the server keeps CallsInv.
LEMMA CallsInvStep ==
  ASSUME CallsInv, [Next]_vars
  PROVE  CallsInv'
<1>1. "client" \in Sides /\ "server" \in Sides /\ {"ended", "raising", "failed"} \subseteq Place
  BY DEF Sides, Place
<1>2. CASE UNCHANGED vars
  <2>1. Types' /\ \A r \in Sides : Messages(r)' = Messages(r)
    BY <1>2 DEF vars, ioVars, clientVars, CallsInv, Types, Messages
  <2> QED
    BY <1>2, <2>1, CallsAlone DEF vars, CallsInv, MessagesOwned
<1>3. ASSUME NEW s \in Sides, BaseStep(s)
      PROVE  CallsInv'
  <2>1. ASSUME NEW k \in DOMAIN tasks[s], RaiseInIoThread(s, k)
        PROVE  CallsInv'
    BY <1>1, <2>1, MoveKeepsCalls DEF RaiseInIoThread
  <2> QED
    BY <1>3, <2>1, IoStepKeepsCalls, ReadKeepsCalls, ReadResolvedKeepsCalls DEF BaseStep
<1>4. ASSUME NEW k \in DOMAIN tasks["client"], Dispatch(k)
      PROVE  CallsInv'
  BY <1>1, <1>4, MoveKeepsCalls DEF Dispatch, ioVars
<1>5. ASSUME NEW c \in Callers, CallerStep(c)
      PROVE  CallsInv'
  BY <1>5, RegisterKeepsCalls, WriteRequestKeepsCalls, PopKeepsCalls DEF CallerStep
<1> QED
  BY <1>2, <1>3, <1>4, <1>5, ServerStepKeepsCalls, ResolveKeepsCalls, ClosePipeKeepsCalls
     DEF Next, Progress

\* A message with an ID is always about the caller that drew the ID, wherever it is on its
\* way and whichever thread handles it (Client#call, Server's handler, Base's tasks).
THEOREM CallsInvariant == Spec => []CallsInv
BY CallsInvInit, CallsInvStep, PTL DEF Spec

\* A call returns what the server made of its own request, however the threads of the
\* requests and those of the responses overtake each other (client.rb:26-35 and 48-50,
\* server.rb:24-26).
THEOREM RubyCallsOwnResponse == Spec => []CallGetsOwnResponse
<1>1. CallsInv => CallGetsOwnResponse
  BY DEF CallsInv
<1> QED
  BY <1>1, CallsInvariant, PTL

-----------------------------------------------------------------------------
(* OrderInv *)

\* A step that leaves the server's channel and the messages of its tasks keeps OrderInv.
LEMMA OrderSame ==
  ASSUME OrderInv, chan'["server"] = chan["server"], UNCHANGED requests,
         io'["server"] = "reading" => io["server"] = "reading",
         Len(tasks'["server"]) = Len(tasks["server"]), tasks["server"] \in Seq(Task),
         \A k \in DOMAIN tasks["server"] : tasks'["server"][k].msg = tasks["server"][k].msg
  PROVE  OrderInv'
<1>1. PICK g \in 0 .. Len(requests) : InLine(chan["server"], g, tasks["server"], requests)
  BY DEF OrderInv
<1>2. InLine(chan["server"], g, tasks'["server"], requests)
  BY <1>1 DEF InLine
<1>3. InLine(chan["server"], g, tasks["server"], requests)'
  BY <1>2
<1>4. \E h \in 0 .. Len(requests') : InLine(chan["server"], h, tasks["server"], requests)'
  BY <1>3
<1> QED
  BY <1>4 DEF OrderInv

\* A request that is put into the channel of the server is the last of the requests.
LEMMA PutInLine ==
  ASSUME BufferLimit = 0, NEW ch \in Channel, NEW q \in Seq(Task),
         NEW reqs \in Seq(Message), NEW m \in Message, NEW w \in Writer, ch.closed = FALSE,
         Unbuffered(ch), NEW g \in 0 .. Len(reqs), InLine(ch, g, q, reqs)
  PROVE  /\ Unbuffered(Put(ch, m, w))
         /\ \E h \in 0 .. Len(Append(reqs, m)) : InLine(Put(ch, m, w), h, q, Append(reqs, m))
<1>1. PICK new : new = Put(ch, m, w)
  OBVIOUS
<1>2. PICK all : all = Append(reqs, m)
  OBVIOUS
<1>3. /\ all \in Seq(Message) /\ Len(all) = Len(reqs) + 1 /\ all[Len(reqs) + 1] = m
      /\ \A i \in 1 .. Len(reqs) : all[i] = reqs[i]
  BY <1>2
<1>4. ch.puts \in Seq(PutType) /\ ch.buffer = <<>> /\ ~(Len(ch.buffer) < BufferLimit)
  <2>1. Len(<<>>) = 0
    OBVIOUS
  <2> QED
    BY <2>1 DEF Channel, Unbuffered
<1>5. PICK n, p \in Nat : n = Len(q) /\ p = Len(ch.puts)
  BY <1>4
<1>6. g \in Nat /\ n <= g /\ g + p = Len(reqs) /\ Len(reqs) \in Nat
  BY <1>5 DEF InLine
<1>7. \A k \in 1 .. n : q[k].msg = all[k]
  <2>1. \A k \in 1 .. n : k \in 1 .. Len(reqs)
    BY <1>6
  <2>2. \A k \in 1 .. n : q[k].msg = reqs[k]
    BY <1>5 DEF InLine
  <2> QED
    BY <1>3, <2>1, <2>2
<1>8. Nothing \notin Message /\ m # Nil
  BY RubyConstants
<1>9. CASE ch.parked = TRUE
  <2>1. ch.puts = <<>> /\ ch.given = Nothing
    BY <1>9 DEF Unbuffered
  <2>2. /\ new.parked = FALSE /\ new.given = m /\ new.puts = <<>> /\ new.buffer = <<>> /\ new.closed = FALSE
    <3>1. /\ Put(ch, m, w).closed = ch.closed /\ Put(ch, m, w).parked = FALSE /\ Put(ch, m, w).given = m
          /\ Put(ch, m, w).puts = ch.puts /\ Put(ch, m, w).buffer = ch.buffer
      <4>1. Put(ch, m, w) = [ch EXCEPT !.parked = FALSE, !.given = m]
        BY <1>9 DEF Put
      <4> QED
        BY <4>1 DEF Channel
    <3> QED
      BY <1>1, <1>4, <2>1, <3>1
  <2>3. p = 0 /\ Len(new.puts) = 0 /\ g = n
    BY <1>5, <1>8, <2>1, <2>2 DEF InLine
  <2>4. Len(all) = n + 1 /\ all[n + 1] = m /\ n + 1 \in 0 .. Len(all) /\ n + 1 + 0 = Len(all)
    BY <1>3, <1>6, <2>3
  <2>5. Unbuffered(new)
    BY <1>8, <2>2, Zenon DEF Unbuffered
  <2>6. InLine(new, n + 1, q, all)
    <3>1. n + 1 + 0 <= Len(all) /\ \A i \in 1 .. 0 : FALSE
      BY <2>4
    <3> QED
      BY <1>5, <1>7, <2>2, <2>3, <2>4, <3>1 DEF InLine
  <2> QED
    BY <1>1, <1>2, <2>4, <2>5, <2>6
<1>10. CASE ch.parked = FALSE
  <2>1. PICK put : put = [obj |-> m, writer |-> w] /\ put \in PutType /\ put.obj = m
    <3>1. [obj |-> m, writer |-> w] \in PutType /\ [obj |-> m, writer |-> w].obj = m
      BY DEF PutType
    <3> QED
      BY <3>1, Zenon
  <2>2. /\ new.parked = FALSE /\ new.given = ch.given /\ new.closed = FALSE
        /\ new.puts = Append(ch.puts, put) /\ new.buffer = <<>>
    <3>1. new.puts = Append(ch.puts, [obj |-> m, writer |-> w])
      BY <1>1, <1>4, <1>10, PutFields
    <3>2. new.parked = FALSE /\ new.given = ch.given /\ new.closed = FALSE /\ new.buffer = <<>>
      BY <1>1, <1>4, <1>10, PutFields
    <3> QED
      BY <2>1, <3>1, <3>2, Zenon
  <2>3. /\ Len(new.puts) = p + 1 /\ new.puts[p + 1] = put
        /\ \A i \in 1 .. p : new.puts[i] = ch.puts[i]
    BY <1>4, <1>5, <2>1, <2>2
  <2>4. \A i \in 1 .. p : new.puts[i].obj = all[g + i]
    <3>1. \A i \in 1 .. p : ch.puts[i].obj = reqs[g + i]
      BY <1>5 DEF InLine
    <3>2. \A i \in 1 .. p : g + i \in 1 .. Len(reqs)
      BY <1>6
    <3> QED
      BY <1>3, <2>3, <3>1, <3>2
  <2>5. new.puts[p + 1].obj = all[g + (p + 1)]
    <3>1. g + (p + 1) = Len(reqs) + 1
      BY <1>6
    <3> QED
      BY <1>3, <2>1, <2>3, <3>1
  <2>6. \A i \in 1 .. p + 1 : new.puts[i].obj = all[g + i]
    <3>1. \A i \in 1 .. p + 1 : i \in 1 .. p \/ i = p + 1
      OBVIOUS
    <3> QED
      BY <2>4, <2>5, <3>1
  <2>7. IF ch.given \in Message THEN g = n + 1 /\ ch.given = all[g] ELSE g = n
    <3>1. IF ch.given \in Message THEN g = n + 1 /\ ch.given = reqs[g] ELSE g = n
      BY <1>5 DEF InLine
    <3>2. g = n + 1 => g \in 1 .. Len(reqs)
      BY <1>6
    <3> QED
      BY <1>3, <3>1, <3>2
  <2>8. g + (p + 1) = Len(all) /\ g + (p + 1) <= Len(all) /\ g \in 0 .. Len(all)
    BY <1>3, <1>6
  <2>9. InLine(new, g, q, all)
    BY <1>5, <1>7, <2>2, <2>3, <2>6, <2>7, <2>8 DEF InLine
  <2>10. Unbuffered(new)
    <3>1. ch.given = Nil => ch.closed
      BY DEF Unbuffered
    <3> QED
      BY <2>2, <3>1 DEF Unbuffered
  <2> QED
    BY <1>1, <1>2, <2>8, <2>9, <2>10
<1>11. ch.parked \in BOOLEAN
  BY DEF Channel
<1> QED
  BY <1>9, <1>10, <1>11

\* The I/O thread of the server takes the first object of the blocked writers.
LEMMA GetInLine ==
  ASSUME NEW ch \in Channel, NEW q \in Seq(Task), NEW reqs \in Seq(Message), NEW more \in Seq(Task),
         ch.closed = FALSE, ch.puts # <<>>, ch.given = Nothing, ch.parked = FALSE,
         Unbuffered(ch), NEW g \in 0 .. Len(reqs), InLine(ch, g, q, reqs),
         Len(more) = Len(q) + 1, more[Len(q) + 1].msg = GetResult(ch),
         \A j \in DOMAIN q : more[j] = q[j]
  PROVE  /\ Unbuffered(Get(ch)) /\ Get(ch).given = Nothing /\ Get(ch).parked = FALSE
         /\ \E h \in 0 .. Len(reqs) : InLine(Get(ch), h, more, reqs)
<1>1. PICK new : new = Get(ch)
  OBVIOUS
<1>2. /\ GetResult(ch) = Head(ch.puts).obj /\ new.puts = Tail(ch.puts) /\ new.buffer = ch.buffer
      /\ new.parked = FALSE /\ new.closed = FALSE /\ new.given = Nothing
  BY <1>1, GetFields
<1>3. ch.puts \in Seq(PutType) /\ ch.buffer = <<>>
  BY DEF Channel, Unbuffered
<1>4. PICK n, p \in Nat : n = Len(q) /\ p = Len(ch.puts)
  BY <1>3
<1>5. Nothing \notin Message /\ Nothing # Nil
  BY RubyConstants, ChannelConstants
<1>6. g = n /\ n + p = Len(reqs) /\ p > 0
  BY <1>3, <1>4, <1>5 DEF InLine
<1>7. /\ Head(ch.puts) = ch.puts[1] /\ Len(new.puts) = p - 1
      /\ \A i \in 1 .. p - 1 : new.puts[i] = ch.puts[i + 1]
  BY <1>2, <1>3, <1>4, <1>6
<1>8. \A i \in 1 .. p : ch.puts[i].obj = reqs[n + i]
  BY <1>4, <1>6 DEF InLine
<1>9. \A k \in 1 .. n + 1 : more[k].msg = reqs[k]
  <2>1. more[n + 1].msg = reqs[n + 1]
    <3>1. 1 \in 1 .. p
      BY <1>6
    <3> QED
      BY <1>2, <1>4, <1>7, <1>8, <3>1
  <2>2. \A k \in 1 .. n : q[k].msg = reqs[k] /\ more[k] = q[k]
    BY <1>4 DEF InLine
  <2>3. \A k \in 1 .. n + 1 : k \in 1 .. n \/ k = n + 1
    OBVIOUS
  <2> QED
    BY <2>1, <2>2, <2>3
<1>10. \A i \in 1 .. p - 1 : new.puts[i].obj = reqs[(n + 1) + i]
  <2>1. \A i \in 1 .. p - 1 : i + 1 \in 1 .. p /\ n + (i + 1) = (n + 1) + i
    OBVIOUS
  <2> QED
    BY <1>7, <1>8, <2>1
<1>11. (n + 1) + (p - 1) = Len(reqs) /\ (n + 1) + (p - 1) <= Len(reqs) /\ n + 1 \in 0 .. Len(reqs)
  BY <1>6
<1>12. InLine(new, n + 1, more, reqs)
  BY <1>2, <1>4, <1>5, <1>7, <1>9, <1>10, <1>11 DEF InLine
<1>13. Unbuffered(new)
  BY <1>2, <1>3, <1>5 DEF Unbuffered
<1> QED
  BY <1>1, <1>2, <1>11, <1>12, <1>13

\* It takes the request that it was given.
LEMMA TakenInLine ==
  ASSUME NEW ch \in Channel, NEW q \in Seq(Task), NEW reqs \in Seq(Message), NEW more \in Seq(Task),
         ch.given \in Message,
         Unbuffered(ch), NEW g \in 0 .. Len(reqs), InLine(ch, g, q, reqs),
         Len(more) = Len(q) + 1, more[Len(q) + 1].msg = ch.given,
         \A j \in DOMAIN q : more[j] = q[j]
  PROVE  /\ Unbuffered([ch EXCEPT !.given = Nothing])
         /\ InLine([ch EXCEPT !.given = Nothing], g, more, reqs)
<1>1. PICK new : new = [ch EXCEPT !.given = Nothing]
  OBVIOUS
<1>2. /\ new.puts = ch.puts /\ new.buffer = ch.buffer /\ new.given = Nothing
      /\ new.parked = ch.parked /\ new.closed = ch.closed
  BY <1>1, TakenFields
<1>3. Nothing \notin Message /\ Nothing # Nil
  BY RubyConstants, ChannelConstants
<1>4. Unbuffered(new)
  BY <1>2, <1>3 DEF Unbuffered
<1>5. PICK n \in Nat : n = Len(q)
  OBVIOUS
<1>6. g = n + 1 /\ ch.given = reqs[n + 1]
  BY <1>5 DEF InLine
<1>7. \A k \in 1 .. n + 1 : more[k].msg = reqs[k]
  <2>1. \A k \in 1 .. n : q[k].msg = reqs[k] /\ more[k] = q[k]
    BY <1>5 DEF InLine
  <2>2. \A k \in 1 .. n + 1 : k \in 1 .. n \/ k = n + 1
    OBVIOUS
  <2> QED
    BY <1>5, <1>6, <2>1, <2>2
<1>8. InLine(new, g, more, reqs)
  BY <1>2, <1>3, <1>5, <1>6, <1>7 DEF InLine
<1> QED
  BY <1>1, <1>4, <1>8

\* Closing throws the end of the line away.
LEMMA CloseInLine ==
  ASSUME NEW ch \in Channel, NEW q \in Seq(Task), NEW reqs \in Seq(Message),
         Unbuffered(ch), NEW g \in 0 .. Len(reqs), InLine(ch, g, q, reqs)
  PROVE  Unbuffered(Close(ch)) /\ InLine(Close(ch), g, q, reqs)
<1>1. PICK new : new = Close(ch)
  OBVIOUS
<1>2. /\ new.puts = <<>> /\ new.buffer = ch.buffer /\ new.closed = TRUE /\ new.parked = FALSE
      /\ new.given = (IF ch.parked THEN Nil ELSE ch.given)
  BY <1>1, CloseFields
<1>3. Nothing \notin Message /\ Nil \notin Message
  BY RubyConstants
<1>4. new.given = ch.given \/ (ch.given = Nothing /\ new.given = Nil)
  BY <1>2 DEF Unbuffered
<1>5. Unbuffered(new)
  BY <1>2 DEF Unbuffered
<1>6. Len(new.puts) = 0 /\ g + 0 <= Len(reqs) /\ \A i \in 1 .. 0 : FALSE
  BY <1>2
<1>7. IF new.given \in Message THEN g = Len(q) + 1 /\ new.given = reqs[g] ELSE g = Len(q)
  BY <1>3, <1>4 DEF InLine
<1>8. InLine(new, g, q, reqs)
  BY <1>2, <1>6, <1>7 DEF InLine
<1> QED
  BY <1>1, <1>5, <1>8

\* The server's I/O thread reads.
LEMMA ReadKeepsOrder ==
  ASSUME Types, OrderInv, Read("server")
  PROVE  OrderInv'
<1> DEFINE ch == chan["server"]
<1>1. /\ ch \in Channel /\ tasks["server"] \in Seq(Task) /\ requests \in Seq(Message) /\ "server" \in Sides
      /\ ch.closed \in BOOLEAN
  BY DEF Types, Sides, Channel
<1>2. /\ io["server"] = "reading" /\ chan' = [chan EXCEPT !["server"] = Get(ch)] /\ requests' = requests
      /\ \/ GetResult(ch) = Nothing /\ io' = [io EXCEPT !["server"] = "parked"] /\ UNCHANGED tasks
         \/ GetResult(ch) # Nothing /\ HaveRead("server", GetResult(ch))
  BY DEF Read
<1>3. Unbuffered(ch) /\ ~ch.parked /\ ch.given = Nothing
  BY <1>2 DEF OrderInv
<1>4. PICK g \in 0 .. Len(requests) : InLine(ch, g, tasks["server"], requests)
  BY DEF OrderInv
<1>5. chan'["server"] = Get(ch) /\ Get(ch) \in Channel
  BY <1>1, <1>2, GetFields, ChannelOf
<1>6. Nothing # Nil /\ Nothing \notin Message /\ Nil \notin Message
  BY ChannelConstants, RubyConstants
<1> HIDE DEF ch
<1>7. CASE ch.closed
  <2>1. GetResult(ch) = Nil /\ Get(ch) = ch
    BY <1>1, <1>7, GetFields
  <2>2. UNCHANGED tasks /\ io' = [io EXCEPT !["server"] = "ended"]
    BY <1>2, <1>6, <2>1 DEF HaveRead
  <2>3. io'["server"] = "ended"
    BY <1>1, <2>2 DEF Types
  <2> QED
    BY <1>1, <1>2, <1>5, <2>1, <2>2, <2>3, OrderSame DEF ch
<1>8. CASE ~ch.closed /\ ch.puts # <<>>
  <2>1. GetResult(ch) \in Message
    <3>1. ch.puts \in Seq(PutType) /\ GetResult(ch) = Head(ch.puts).obj
      BY <1>1, <1>8, GetFields DEF Channel
    <3>2. Head(ch.puts) \in PutType
      BY <1>8, <3>1
    <3> QED
      BY <3>1, <3>2 DEF PutType
  <2>2. tasks' = StartTask("server", GetResult(ch)) /\ io' = [io EXCEPT !["server"] = "reading"]
    BY <1>2, <1>6, <2>1 DEF HaveRead
  <2>3. /\ tasks'["server"] \in Seq(Task)
        /\ Len(tasks'["server"]) = Len(tasks["server"]) + 1
        /\ tasks'["server"][Len(tasks["server"]) + 1].msg = GetResult(ch)
        /\ \A j \in DOMAIN tasks["server"] : tasks'["server"][j] = tasks["server"][j]
    BY <1>1, <2>1, <2>2, StartTasks
  <2>4. ch.closed = FALSE /\ ch.parked = FALSE
    BY <1>1, <1>3, <1>8 DEF Channel
  <2>5. /\ Unbuffered(Get(ch)) /\ Get(ch).given = Nothing /\ Get(ch).parked = FALSE
        /\ \E h \in 0 .. Len(requests) : InLine(Get(ch), h, tasks'["server"], requests)
    BY <1>1, <1>3, <1>4, <1>8, <2>3, <2>4, GetInLine
  <2> QED
    BY <1>2, <1>5, <2>5 DEF OrderInv
<1>9. CASE ~ch.closed /\ ch.puts = <<>>
  <2>1. ch.buffer = <<>>
    BY <1>3 DEF Unbuffered
  <2>2. /\ GetResult(ch) = Nothing /\ Get(ch).given = Nothing /\ Get(ch).closed = ch.closed
        /\ Get(ch).puts = ch.puts /\ Get(ch).buffer = ch.buffer
    BY <1>1, <1>3, <1>9, <2>1, GetFields
  <2>3. UNCHANGED tasks /\ io'["server"] = "parked"
    BY <1>1, <1>2, <2>2 DEF Types
  <2>4. Unbuffered(Get(ch))
    BY <1>6, <1>9, <2>1, <2>2 DEF Unbuffered
  <2>5. InLine(Get(ch), g, tasks'["server"], requests)
    <3>1. InLine(ch, g, tasks'["server"], requests)
      BY <1>4, <2>3
    <3> QED
      BY <1>3, <2>2, <3>1 DEF InLine
  <2> QED
    BY <1>2, <1>5, <2>3, <2>4, <2>5 DEF OrderInv
<1> QED
  BY <1>7, <1>8, <1>9

\* Its Get is resolved.
LEMMA ReadResolvedKeepsOrder ==
  ASSUME Types, OrderInv, ReadResolved("server")
  PROVE  OrderInv'
<1> DEFINE ch == chan["server"]
<1> DEFINE new == [ch EXCEPT !.given = Nothing]
<1>1. /\ ch \in Channel /\ tasks["server"] \in Seq(Task) /\ requests \in Seq(Message) /\ "server" \in Sides
      /\ ch.given \in Message \cup {Nothing, Nil}
  BY DEF Types, Sides, Channel
<1>2. /\ ch.given # Nothing /\ HaveRead("server", ch.given)
      /\ chan' = [chan EXCEPT !["server"] = new] /\ requests' = requests
  BY DEF ReadResolved
<1>3. Unbuffered(ch)
  BY DEF OrderInv
<1>4. PICK g \in 0 .. Len(requests) : InLine(ch, g, tasks["server"], requests)
  BY DEF OrderInv
<1>5. /\ new \in Channel /\ new.given = Nothing /\ new.closed = ch.closed /\ new.parked = ch.parked
      /\ new.puts = ch.puts /\ new.buffer = ch.buffer
  BY <1>1, TakenFields
<1>6. Nothing # Nil /\ Nothing \notin Message /\ Nil \notin Message
  BY ChannelConstants, RubyConstants
<1> HIDE DEF ch, new
<1>7. chan'["server"] = new
  BY <1>1, <1>2, <1>5, ChannelOf
<1>8. ~new.parked
  BY <1>2, <1>3, <1>5 DEF Unbuffered
<1>9. CASE ch.given = Nil
  <2>1. UNCHANGED tasks /\ io'["server"] = "ended"
    BY <1>1, <1>2, <1>9 DEF HaveRead, Types
  <2>2. Unbuffered(new)
    BY <1>3, <1>5, <1>6 DEF Unbuffered
  <2>3. InLine(new, g, tasks'["server"], requests)
    <3>1. InLine(ch, g, tasks'["server"], requests)
      BY <1>4, <2>1
    <3> QED
      BY <1>5, <1>6, <1>9, <3>1 DEF InLine
  <2> QED
    BY <1>2, <1>7, <2>1, <2>2, <2>3 DEF OrderInv
<1>10. CASE ch.given \in Message
  <2>1. tasks' = StartTask("server", ch.given)
    BY <1>2, <1>6, <1>10 DEF HaveRead
  <2>2. /\ tasks'["server"] \in Seq(Task)
        /\ Len(tasks'["server"]) = Len(tasks["server"]) + 1
        /\ tasks'["server"][Len(tasks["server"]) + 1].msg = ch.given
        /\ \A j \in DOMAIN tasks["server"] : tasks'["server"][j] = tasks["server"][j]
    BY <1>1, <1>10, <2>1, StartTasks
  <2>3. Unbuffered(new) /\ InLine(new, g, tasks'["server"], requests)
    BY <1>1, <1>3, <1>4, <1>10, <2>2, TakenInLine DEF new
  <2> QED
    BY <1>2, <1>5, <1>7, <1>8, <2>3 DEF OrderInv
<1> QED
  BY <1>1, <1>2, <1>9, <1>10

\* Closing the server's pipe reorders none of its requests.
LEMMA ClosePipeKeepsOrder ==
  ASSUME Types, OrderInv, ClosePipe("server")
  PROVE  OrderInv'
<1> DEFINE ch == chan["server"]
<1>1. /\ ch \in Channel /\ tasks["server"] \in Seq(Task) /\ requests \in Seq(Message) /\ "server" \in Sides
  BY DEF Types, Sides
<1>2. /\ chan' = [chan EXCEPT !["server"] = Close(ch)] /\ UNCHANGED <<io, tasks, requests>>
  BY DEF ClosePipe, ioVars
<1>3. Unbuffered(ch) /\ (io["server"] = "reading" => ~ch.parked /\ ch.given = Nothing)
  BY DEF OrderInv
<1>4. PICK g \in 0 .. Len(requests) : InLine(ch, g, tasks["server"], requests)
  BY DEF OrderInv
<1> HIDE DEF ch
<1>5. chan'["server"] = Close(ch)
  BY <1>1, <1>2, CloseFields, ChannelOf
<1>6. Unbuffered(Close(ch)) /\ InLine(Close(ch), g, tasks["server"], requests)
  BY <1>1, <1>3, <1>4, CloseInLine
<1>7. io["server"] = "reading" => ~Close(ch).parked /\ Close(ch).given = Nothing
  BY <1>1, <1>3, CloseFields
<1> QED
  BY <1>2, <1>5, <1>6, <1>7 DEF OrderInv

\* A caller writes its request.
LEMMA WriteRequestKeepsOrder ==
  ASSUME BufferLimit = 0, CallsInv, OrderInv, NEW c \in Callers, WriteRequest(c)
  PROVE  OrderInv'
<1> DEFINE ch == chan["server"]
<1>1. /\ ch \in Channel /\ tasks["server"] \in Seq(Task) /\ requests \in Seq(Message) /\ "server" \in Sides
      /\ ch.closed \in BOOLEAN /\ Types
  BY DEF CallsInv, Types, Sides, Channel
<1>2. UNCHANGED <<io, tasks>> /\ call[c] = "registered"
  BY DEF WriteRequest, ioVars
<1>3. CASE UNCHANGED <<chan, requests>>
  BY <1>1, <1>2, <1>3, OrderSame
<1>4. CASE ~ch.closed /\ PutInto("server", [id |-> IdOf(c), caller |-> c], c)
  <2>1. PICK id \in DOMAIN queues : id = IdOf(c) /\ queues[id] = c
    BY <1>2 DEF CallsInv, RegisteredHasQueue, IdOf
  <2>2. id \in Nat
    BY <1>1, <2>1 DEF Types
  <2>3. [id |-> id, caller |-> c] \in Message
    BY <2>2 DEF Message
  <2>4. PICK m \in Message : m = [id |-> IdOf(c), caller |-> c]
    BY <2>1, <2>3, Zenon
  <2>5. chan' = [chan EXCEPT !["server"] = Put(ch, m, c)] /\ requests' = Append(requests, m)
    BY <1>4, <2>4 DEF PutInto
  <2>6. Unbuffered(ch) /\ (io["server"] = "reading" => ~ch.parked /\ ch.given = Nothing)
    BY DEF OrderInv
  <2>7. PICK g \in 0 .. Len(requests) : InLine(ch, g, tasks["server"], requests)
    BY DEF OrderInv
  <2> HIDE DEF ch
  <2>8. c \in Writer
    BY DEF Writer
  <2>9. chan'["server"] = Put(ch, m, c)
    BY <1>1, <2>5, <2>8, PutFields, ChannelOf
  <2>10. ch.closed = FALSE
    BY <1>1, <1>4
  <2>11. /\ Unbuffered(Put(ch, m, c))
         /\ \E h \in 0 .. Len(Append(requests, m)) : InLine(Put(ch, m, c), h, tasks["server"], Append(requests, m))
    BY <1>1, <2>6, <2>7, <2>8, <2>10, PutInLine
  <2>12. io["server"] = "reading" => ~Put(ch, m, c).parked /\ Put(ch, m, c).given = Nothing
    BY <1>1, <2>6, <2>8, PutFields
  <2> QED
    BY <1>2, <2>5, <2>9, <2>11, <2>12 DEF OrderInv
<1> QED
  BY <1>3, <1>4 DEF WriteRequest

-----------------------------------------------------------------------------
\* A step that moves tasks, and writes at most to the channel of the client.
LEMMA MoveKeepsOrder ==
  ASSUME Types, OrderInv, NEW s \in Sides, NEW k \in DOMAIN tasks[s], NEW place \in Place, Move(s, k, place),
         chan'["server"] = chan["server"], UNCHANGED <<io, requests>>
  PROVE  OrderInv'
<1>1. "server" \in Sides /\ tasks["server"] \in Seq(Task)
  BY DEF Types, Sides
<1>2. /\ Len(tasks'["server"]) = Len(tasks["server"])
      /\ \A j \in DOMAIN tasks["server"] : tasks'["server"][j].msg = tasks["server"][j].msg
  BY <1>1, MoveTasks
<1> QED
  BY <1>1, <1>2, OrderSame

\* A response of the server reorders none of its requests.
LEMMA ServerWritesKeepsOrder ==
  ASSUME Types, OrderInv, NEW k \in DOMAIN tasks["server"], NEW from, NEW m \in Message,
         NEW then \in Place, NEW ifClosed \in Place, ServerWrites(k, from, m, then, ifClosed)
  PROVE  OrderInv'
<1>1. "server" \in Sides /\ "client" \in Sides /\ "client" # "server" /\ UNCHANGED io
  BY DEF Sides, ServerWrites, ioVars
<1>2. CASE Move("server", k, ifClosed) /\ UNCHANGED <<chan, requests>>
  BY <1>1, <1>2, MoveKeepsOrder
<1>3. CASE Move("server", k, then) /\ PutInto("client", m, k)
  <2>1. chan' = [chan EXCEPT !["client"] = Put(chan["client"], m, k)] /\ requests' = requests
    BY <1>1, <1>3 DEF PutInto
  <2>2. chan'["server"] = chan["server"]
    BY <1>1, <2>1 DEF Types
  <2> QED
    BY <1>1, <1>3, <2>1, <2>2, MoveKeepsOrder
<1> QED
  BY <1>2, <1>3 DEF ServerWrites

\* A task of the server that runs, responds or raises keeps OrderInv.
LEMMA ServerStepKeepsOrder ==
  ASSUME Types, OrderInv, NEW k \in DOMAIN tasks["server"], ServerStep(k)
  PROVE  OrderInv'
<1>1. "server" \in Sides /\ tasks["server"] \in Seq(Task) /\ tasks["server"][k] \in Task
  BY DEF Types, Sides
<1>2. Request(k) \in Message
  BY <1>1 DEF Request, Task
<1>3. CASE Handle(k)
  <2>1. \E place \in Place : Move("server", k, place)
    BY <1>3 DEF Handle, Place
  <2> QED
    BY <1>1, <1>3, <2>1, MoveKeepsOrder DEF Handle, ioVars
<1>4. [id |-> None, caller |-> None] \in Message
  BY DEF Message
<1>5. {"responding", "rescuing", "ended", "raising"} \subseteq Place
  BY DEF Place
<1>6. CASE SendEvent(k)
  BY <1>4, <1>5, <1>6, ServerWritesKeepsOrder DEF SendEvent
<1>7. CASE WriteError(k)
  BY <1>4, <1>5, <1>7, ServerWritesKeepsOrder DEF WriteError
<1>8. CASE WriteResponse(k)
  <2>1. [id |-> Request(k).id, caller |-> Request(k).caller] = Request(k)
    BY <1>2 DEF Message
  <2> QED
    BY <1>2, <1>5, <1>8, <2>1, ServerWritesKeepsOrder DEF WriteResponse
<1> QED
  BY <1>3, <1>6, <1>7, <1>8 DEF ServerStep

\* A step of the client's I/O thread.
LEMMA ClientReadsKeepsOrder ==
  ASSUME Types, OrderInv, Read("client") \/ ReadResolved("client")
  PROVE  OrderInv'
<1>1. "server" \in Sides /\ "client" \in Sides /\ "client" # "server" /\ tasks["server"] \in Seq(Task)
  BY DEF Sides, Types
<1>2. requests' = requests
  BY DEF Read, ReadResolved
<1>3. chan'["server"] = chan["server"]
  BY <1>1 DEF Read, ReadResolved, Types
<1>4. io'["server"] = io["server"]
  BY <1>1 DEF Read, ReadResolved, HaveRead, Types
<1>5. tasks'["server"] = tasks["server"]
  BY <1>1 DEF Read, ReadResolved, HaveRead, StartTask, Types
<1> QED
  BY <1>1, <1>2, <1>3, <1>4, <1>5, OrderSame

\* Without a buffer, every step keeps OrderInv.
LEMMA OrderInvStep ==
  ASSUME BufferLimit = 0, CallsInv, OrderInv, [Next]_vars
  PROVE  OrderInv'
<1>1. /\ Types /\ "client" \in Sides /\ "server" \in Sides /\ {"ended", "raising", "failed"} \subseteq Place
      /\ tasks["server"] \in Seq(Task)
  BY DEF CallsInv, Types, Sides, Place
<1>2. CASE UNCHANGED <<chan, io, tasks, requests>>
  BY <1>1, <1>2, OrderSame
<1>3. ASSUME NEW s \in Sides, BaseStep(s)
      PROVE  OrderInv'
  <2>1. CASE AssignIoThread(s)
    BY <1>2, <2>1 DEF AssignIoThread
  <2>2. CASE Read(s) \/ ReadResolved(s)
    BY <1>1, <2>2, ReadKeepsOrder, ReadResolvedKeepsOrder, ClientReadsKeepsOrder DEF Sides
  <2>3. CASE TakeException(s)
    <3>1. UNCHANGED <<chan, tasks, requests>> /\ io' = [io EXCEPT ![s] = "ended"]
      BY <2>3 DEF TakeException
    <3>2. io'["server"] = "reading" => io["server"] = "reading"
      BY <1>1, <3>1 DEF Types
    <3> QED
      BY <1>1, <3>1, <3>2, OrderSame
  <2>4. ASSUME NEW k \in DOMAIN tasks[s], RaiseInIoThread(s, k)
        PROVE  OrderInv'
    BY <1>1, <2>4, MoveKeepsOrder DEF RaiseInIoThread
  <2> QED
    BY <1>3, <2>1, <2>2, <2>3, <2>4 DEF BaseStep
<1>4. ASSUME NEW k \in DOMAIN tasks["client"], Resolve(k) \/ Dispatch(k)
      PROVE  OrderInv'
  BY <1>1, <1>4, MoveKeepsOrder DEF Resolve, Dispatch, ioVars
<1>5. ASSUME NEW c \in Callers, CallerStep(c)
      PROVE  OrderInv'
  BY <1>2, <1>5, WriteRequestKeepsOrder DEF CallerStep, Register, Pop, ioVars
<1>6. ASSUME NEW s \in Sides, ClosePipe(s)
      PROVE  OrderInv'
  <2>1. CASE s = "server"
    BY <1>1, <1>6, <2>1, ClosePipeKeepsOrder
  <2>2. CASE s # "server"
    <3>1. chan'["server"] = chan["server"] /\ UNCHANGED <<io, tasks, requests>>
      BY <1>1, <1>6, <2>2 DEF ClosePipe, ioVars, Types
    <3> QED
      BY <1>1, <3>1, OrderSame
  <2> QED
    BY <2>1, <2>2
<1>7. UNCHANGED vars => OrderInv'
  BY <1>2 DEF vars, ioVars
<1> QED
  BY <1>1, <1>3, <1>4, <1>5, <1>6, <1>7, ServerStepKeepsOrder DEF Next, Progress

\* OrderInv holds before anything is called.
LEMMA OrderInvInit == Init => OrderInv
<1> SUFFICES ASSUME Init PROVE OrderInv
  OBVIOUS
<1>1. /\ chan["server"] = NewChannel /\ tasks["server"] = <<>> /\ requests = <<>>
  BY DEF Init, Sides
<1>2. /\ NewChannel.puts = <<>> /\ NewChannel.buffer = <<>> /\ NewChannel.given = Nothing
      /\ NewChannel.parked = FALSE /\ NewChannel.closed = FALSE
  BY DEF NewChannel
<1>3. Nothing # Nil /\ Nothing \notin Message
  BY ChannelConstants, RubyConstants
<1>4. Unbuffered(NewChannel)
  BY <1>2, <1>3 DEF Unbuffered
<1>5. InLine(NewChannel, 0, <<>>, <<>>) /\ 0 \in 0 .. Len(<<>>)
  BY <1>2, <1>3 DEF InLine
<1> QED
  BY <1>1, <1>2, <1>4, <1>5 DEF OrderInv

\* Without a buffer, which is what a Pipe has by default (buffer_size = 0 in pipe.rb),
\* messages leave a pipe in the order in which they were written to it, none of them
\* twice (channel.rb:68-104).
THEOREM RubyReadsInOrder == BufferLimit = 0 /\ Spec => []ReadInOrder
<1>1. CallsInv /\ OrderInv => ReadInOrder
  <2> SUFFICES ASSUME CallsInv, OrderInv PROVE ReadInOrder
    OBVIOUS
  <2>1. tasks["server"] \in Seq(Task) /\ requests \in Seq(Message)
    BY DEF CallsInv, Types, Sides
  <2>2. PICK g \in 0 .. Len(requests) : InLine(chan["server"], g, tasks["server"], requests)
    BY DEF OrderInv
  <2>3. PICK n \in Nat : n = Len(tasks["server"]) /\ DOMAIN tasks["server"] = 1 .. n
    BY <2>1
  <2>4. n <= Len(requests) /\ \A k \in 1 .. n : tasks["server"][k].msg = requests[k]
    BY <2>2, <2>3 DEF InLine
  <2> QED
    BY <2>3, <2>4 DEF ReadInOrder
<1>2. SUFFICES ASSUME BufferLimit = 0 PROVE Spec => []ReadInOrder
  OBVIOUS
<1>3. CallsInv /\ OrderInv /\ [Next]_vars => OrderInv'
  BY <1>2, OrderInvStep
<1> QED
  BY <1>1, <1>3, OrderInvInit, CallsInvariant, PTL DEF Spec
=============================================================================
