--------------------------- MODULE RpcMultiServer ----------------------------
(***************************************************************************)
(* The Go multi server (interop/rpc_multi_server.go): Run serves one conn, *)
(* any number of them at once, with a server of its own; Send sends an     *)
(* event to every conn being served, through a MultiWriter; Wait and       *)
(* WaitClean wait on two WaitGroups.                                       *)
(*                                                                         *)
(* The server of a conn is taken at what RpcServer shows of it: it starts  *)
(* requests while Run reads, they end by themselves, and its WaitClean     *)
(* returns, once Run has, when none is running.                            *)
(***************************************************************************)
EXTENDS MultiWriter

CONSTANTS
  Waiters,      \* goroutines that call Wait or WaitClean
  MaxRequests   \* bound on the requests of a conn that run at once

ASSUME MultiServerConstants ==
  /\ Nil \notin Writers
  /\ {MaxEvents, MaxRequests} \subseteq Nat

VARIABLES
  pc,        \* per conn: where its Run is
  running,   \* per conn: requests being handled
  tidy,      \* per conn: the goroutine Run leaves behind
  counter,   \* the counters of the WaitGroups waitConns and waitResponses
  waiting,   \* per waiter: the WaitGroup it waits on, and where it is
  before,    \* per waiter: conns whose Run was under way when it called
  crashed    \* sync.WaitGroup panicked

Conns == Writers
Groups == {"waitConns", "waitResponses"}
connVars == <<pc, running, tidy>>
waitVars == <<counter, waiting, before, crashed>>
vars == <<writerVars, connVars, waitVars>>

Init ==
  /\ WriterInit
  /\ pc = [c \in Conns |-> "new"]
  /\ running = [c \in Conns |-> 0]
  /\ tidy = [c \in Conns |-> "none"]
  /\ counter = [g \in Groups |-> 0]
  /\ waiting = [w \in Waiters |-> [on |-> "none", at |-> "idle"]]
  /\ before = [w \in Waiters |-> {}]
  /\ crashed = FALSE

Goto(c, from, to) ==
  /\ pc[c] = from
  /\ pc' = [pc EXCEPT ![c] = to]

Add(g) ==
  /\ counter' = [counter EXCEPT ![g] = @ + 1]
  /\ UNCHANGED <<waiting, before, crashed>>

\* The last Done of a WaitGroup wakes everybody in its Wait.
Done(g) ==
  /\ counter' = [counter EXCEPT ![g] = @ - 1]
  /\ waiting' = [w \in Waiters |->
       IF counter[g] = 1 /\ waiting[w] = [on |-> g, at |-> "waiting"]
       THEN [on |-> g, at |-> "woken"] ELSE waiting[w]]
  /\ UNCHANGED <<before, crashed>>

-----------------------------------------------------------------------------
(* Run *)

AddConn(c) ==
  /\ Goto(c, "new", "adding")
  /\ Add("waitConns")
  /\ UNCHANGED <<writerVars, running, tidy>>

AddResponses(c) ==
  /\ Goto(c, "adding", "subscribing")
  /\ Add("waitResponses")
  /\ UNCHANGED <<writerVars, running, tidy>>

SubscribeConn(c) ==
  /\ Goto(c, "subscribing", "serving")
  /\ Subscribe(c)
  /\ UNCHANGED <<running, tidy, waitVars>>

ReadRequest(c) ==
  /\ pc[c] = "serving"
  /\ running[c] < MaxRequests
  /\ running' = [running EXCEPT ![c] = @ + 1]
  /\ UNCHANGED <<writerVars, pc, tidy, waitVars>>

\* connServer.Run returns; requests may still be running.
ServerReturns(c) ==
  /\ Goto(c, "serving", "unsubscribing")
  /\ UNCHANGED <<writerVars, running, tidy, waitVars>>

\* unsub(), and the goroutine is started.
UnsubscribeConn(c) ==
  /\ \/ /\ pc[c] = "unsubscribing"
        /\ BeginUnsubscribe(c) \/ MoveCell(c)
        /\ UNCHANGED <<pc, tidy>>
     \/ /\ Goto(c, "unsubscribing", "leaving")
        /\ EndUnsubscribe(c)
        /\ tidy' = [tidy EXCEPT ![c] = "waiting"]
  /\ UNCHANGED <<running, waitVars>>

DoneConn(c) ==
  /\ Goto(c, "leaving", "returned")
  /\ Done("waitConns")
  /\ UNCHANGED <<writerVars, running, tidy>>

RunStep(c) ==
  \/ AddConn(c) \/ AddResponses(c) \/ SubscribeConn(c) \/ ReadRequest(c)
  \/ ServerReturns(c) \/ UnsubscribeConn(c) \/ DoneConn(c)

-----------------------------------------------------------------------------
(* The goroutines of the requests, and the one that Run leaves behind *)

RequestEnds(c) ==
  /\ running[c] > 0
  /\ running' = [running EXCEPT ![c] = @ - 1]
  /\ UNCHANGED <<writerVars, pc, tidy, waitVars>>

ResponsesDone(c) ==
  /\ tidy[c] = "waiting"
  /\ tidy' = [tidy EXCEPT ![c] = "done"]
  /\ Done("waitResponses")
  /\ UNCHANGED <<writerVars, pc, running>>

\* The goroutine waits for the conn to close, not for its requests.
DoneUnclean(c) == ResponsesDone(c)

\* connServer.WaitClean() returns, and waitResponses.Done() follows.
DoneResponses(c) == running[c] = 0 /\ ResponsesDone(c)

-----------------------------------------------------------------------------
(* Wait, WaitClean and Send *)

\* The conns that a WaitGroup counts.
Counted(g) ==
  IF g = "waitConns" THEN {c \in Conns : pc[c] \notin {"new", "returned"}}
  ELSE {c \in Conns : pc[c] \notin {"new", "adding"} /\ tidy[c] # "done"}

Wait(w, g) ==
  /\ waiting[w].at = "idle"
  /\ waiting' = [waiting EXCEPT ![w] =
       [on |-> g, at |-> IF counter[g] = 0 THEN "returned" ELSE "waiting"]]
  /\ before' = [before EXCEPT ![w] = Counted(g)]
  /\ UNCHANGED <<writerVars, connVars, counter, crashed>>

\* A goroutine woken in WaitGroup.Wait panics when the group is in use again.
WokenReturns(w) ==
  /\ waiting[w].at = "woken"
  /\ IF counter[waiting[w].on] = 0
     THEN /\ waiting' = [waiting EXCEPT ![w].at = "returned"]
          /\ UNCHANGED crashed
     ELSE /\ crashed' = TRUE
          /\ UNCHANGED waiting
  /\ UNCHANGED <<writerVars, connVars, counter, before>>

Send(s) ==
  /\ CopySlice(s) \/ SenderStep(s)
  /\ UNCHANGED <<connVars, waitVars>>

-----------------------------------------------------------------------------
Next ==
  /\ ~crashed
  /\ \/ \E c \in Conns : RunStep(c) \/ RequestEnds(c) \/ DoneResponses(c)
     \/ \E w \in Waiters : WokenReturns(w) \/ \E g \in Groups : Wait(w, g)
     \/ \E s \in Senders : Send(s)

Spec == Init /\ [][Next]_vars

-----------------------------------------------------------------------------
\* When Wait returns, Run has returned for every conn that was open at the call, and
\* has unsubscribed it from events (waitConns.Done comes last in Run); when WaitClean
\* returns, moreover, the requests of these conns have ended.  Conns that come meanwhile
\* do not let either of them off.
WaitMeansEnded ==
  \A w \in Waiters : waiting[w].at = "returned" =>
    \A c \in before[w] :
      /\ sub[c] = "gone"
      /\ waiting[w].on = "waitConns" => pc[c] = "returned"
      /\ waiting[w].on = "waitResponses" => running[c] = 0
=============================================================================
