----------------------------- MODULE PhpRpcProofs -----------------------------
(***************************************************************************)
(* Proofs about the PHP client and its server, for any number of routes,   *)
(* calls and events: what the client's stack says about $waiting, and      *)
(* which responses are lost.                                               *)
(***************************************************************************)
EXTENDS PhpRpc, TLAPS

\* There is a call among the first n frames.
Called(n) == \E k \in 1 .. n : frames[k].at = "call"

\* A call has kept what $waiting was when it began; the program is at the bottom.
StackInv ==
  /\ \E S : frames \in Seq(S)
  /\ \A k \in 1 .. Len(frames) : frames[k].at = "call" => (frames[k].was <=> Called(k - 1))
  /\ waiting <=> Called(Len(frames))
  /\ frames # <<>> => frames[1].at = "code"

\* The request, or the response to it, is on its way.
InFlight(id) ==
  \/ \E i \in DOMAIN toServer : toServer[i] = id
  \/ server.at = "handling" /\ server.id = id
  \/ \E i \in DOMAIN toClient : toClient[i] = id

\* An ID is in one place at a time.
FlightInv ==
  /\ lastId \in Nat /\ toServer \in Seq(Nat) /\ toClient \in Seq(Nat \cup {None})
  /\ \A id \in Nat : InFlight(id) => id <= lastId
  /\ server.at = "handling" => server.id \in Nat
  /\ \A i, j \in DOMAIN toServer : toServer[i] = toServer[j] => i = j
  /\ \A i, j \in DOMAIN toClient : toClient[i] = toClient[j] /\ toClient[i] # None => i = j
  /\ \A i \in DOMAIN toServer, j \in DOMAIN toClient : toServer[i] # toClient[j]
  /\ server.at = "handling" => /\ \A i \in DOMAIN toServer : toServer[i] # server.id
                               /\ \A i \in DOMAIN toClient : toClient[i] # server.id

\* Somebody waits for a response that is on its way, or has given up.
Expected(id) == id \in responders \/ Calling(id) \/ id \in failed
ExpectedInv == \A id \in Nat : InFlight(id) => Expected(id)

-----------------------------------------------------------------------------
(* The stack *)

\* A frame is pushed.
LEMMA PushedFrame ==
  ASSUME NEW S, NEW s \in Seq(S), NEW e
  PROVE  /\ Append(s, e) \in Seq(S \cup {e})
         /\ Len(s) \in Nat /\ Len(Append(s, e)) = Len(s) + 1
         /\ \A k \in 1 .. Len(s) : Append(s, e)[k] = s[k]
         /\ Append(s, e)[Len(s) + 1] = e
<1>1. s \in Seq(S \cup {e}) /\ e \in S \cup {e}
  OBVIOUS
<1> QED
  BY <1>1

\* The frames at the bottom of the stack.
LEMMA LowerFrames ==
  ASSUME NEW S, NEW s \in Seq(S), NEW n \in Nat, n < Len(s)
  PROVE  /\ SubSeq(s, 1, n) \in Seq(S) /\ Len(SubSeq(s, 1, n)) = n
         /\ \A k \in 1 .. n : SubSeq(s, 1, n)[k] = s[k]
OBVIOUS

\* A frame is popped.
LEMMA PoppedFrame ==
  ASSUME NEW S, NEW s \in Seq(S), s # <<>>
  PROVE  /\ Front(s) \in Seq(S) /\ Last(s) = s[Len(s)]
         /\ Len(s) \in Nat \ {0} /\ Len(Front(s)) = Len(s) - 1
         /\ \A k \in 1 .. Len(s) - 1 : Front(s)[k] = s[k]
<1>1. Len(s) \in Nat \ {0}
  OBVIOUS
<1>3. Len(s) - 1 \in Nat /\ Len(s) - 1 < Len(s)
  BY <1>1
<1>2. /\ SubSeq(s, 1, Len(s) - 1) \in Seq(S) /\ Len(SubSeq(s, 1, Len(s) - 1)) = Len(s) - 1
      /\ \A k \in 1 .. Len(s) - 1 : SubSeq(s, 1, Len(s) - 1)[k] = s[k]
  BY <1>3, LowerFrames, Zenon
<1> QED
  BY <1>1, <1>2, Zenon DEF Front, Last

\* A call is pushed with the value of $waiting, anything else leaves that alone.
LEMMA PushKeepsStack ==
  ASSUME StackInv, NEW f, frames # <<>>, frames' = Append(frames, f),
         \/ f.at # "call" /\ waiting' = waiting
         \/ f.at = "call" /\ f.was = waiting /\ waiting' = TRUE
  PROVE  StackInv'
<1>1. PICK S : frames \in Seq(S)
  BY DEF StackInv
<1>2. /\ frames' \in Seq(S \cup {f})
      /\ Len(frames) \in Nat /\ Len(frames') = Len(frames) + 1
      /\ \A k \in 1 .. Len(frames) : frames'[k] = frames[k]
      /\ frames'[Len(frames) + 1] = f
  <2>1. /\ Append(frames, f) \in Seq(S \cup {f})
        /\ Len(frames) \in Nat /\ Len(Append(frames, f)) = Len(frames) + 1
        /\ \A k \in 1 .. Len(frames) : Append(frames, f)[k] = frames[k]
        /\ Append(frames, f)[Len(frames) + 1] = f
    BY <1>1, PushedFrame
  <2> QED
    BY <2>1, Zenon
<1>3. ASSUME NEW n \in 0 .. Len(frames) PROVE Called(n)' <=> Called(n)
  BY <1>2 DEF Called
<1>4. ASSUME NEW k \in 1 .. Len(frames'), frames'[k].at = "call"
      PROVE  frames'[k].was <=> Called(k - 1)'
  <2>1. CASE k \in 1 .. Len(frames)
    <3>1. k - 1 \in 0 .. Len(frames) /\ frames'[k] = frames[k]
      BY <1>2, <2>1
    <3> QED
      BY <1>3, <1>4, <2>1, <3>1, Zenon DEF StackInv
  <2>2. CASE k = Len(frames) + 1
    <3>1. k - 1 = Len(frames) /\ Len(frames) \in 0 .. Len(frames)
      BY <1>2, <2>2
    <3>2. Called(k - 1)' <=> Called(Len(frames))
      BY <1>3, <3>1
    <3> QED
      BY <1>2, <1>4, <2>2, <3>2, Zenon DEF StackInv
  <2> QED
    BY <1>2, <2>1, <2>2
<1>5. waiting' <=> Called(Len(frames))'
  <2>1. Called(Len(frames))' <=> Called(Len(frames)) \/ f.at = "call"
    BY <1>2 DEF Called
  <2>2. CASE f.at # "call"
    <3>1. waiting' = waiting /\ (waiting <=> Called(Len(frames)))
      BY <2>2 DEF StackInv
    <3> QED
      BY <2>1, <2>2, <3>1
  <2>3. CASE f.at = "call"
    BY <2>1, <2>3
  <2> QED
    BY <2>2, <2>3
<1>6. frames'[1].at = "code"
  <2>1. 1 \in 1 .. Len(frames)
    BY <1>1
  <2> QED
    BY <1>2, <2>1 DEF StackInv
<1> QED
  BY <1>2, <1>4, <1>5, <1>6, Zenon DEF StackInv

\* When a call is popped, $waiting is what it was.
LEMMA PopKeepsStack ==
  ASSUME StackInv, frames # <<>>, frames' = Front(frames),
         \/ Top.at # "call" /\ waiting' = waiting
         \/ Top.at = "call" /\ waiting' = Top.was
  PROVE  StackInv'
<1>1. PICK S : frames \in Seq(S)
  BY DEF StackInv
<1>2. /\ frames' \in Seq(S) /\ Top = frames[Len(frames)]
      /\ Len(frames) \in Nat \ {0} /\ Len(frames') = Len(frames) - 1
      /\ \A k \in 1 .. Len(frames) - 1 : frames'[k] = frames[k]
  <2>1. /\ Front(frames) \in Seq(S) /\ Last(frames) = frames[Len(frames)]
        /\ Len(frames) \in Nat \ {0} /\ Len(Front(frames)) = Len(frames) - 1
        /\ \A k \in 1 .. Len(frames) - 1 : Front(frames)[k] = frames[k]
    BY <1>1, PoppedFrame
  <2> QED
    BY <2>1, Zenon DEF Top
<1>3. ASSUME NEW n \in 0 .. Len(frames) - 1 PROVE Called(n)' <=> Called(n)
  BY <1>2 DEF Called
<1>4. ASSUME NEW k \in 1 .. Len(frames'), frames'[k].at = "call"
      PROVE  frames'[k].was <=> Called(k - 1)'
  <2>1. k - 1 \in 0 .. Len(frames) - 1 /\ frames'[k] = frames[k] /\ k \in 1 .. Len(frames)
    BY <1>2
  <2> QED
    BY <1>3, <1>4, <2>1, Zenon DEF StackInv
<1>5. waiting' <=> Called(Len(frames))'
  <2>1. Len(frames) - 1 \in 0 .. Len(frames) - 1 /\ Len(frames) \in 1 .. Len(frames)
    BY <1>2
  <2>2. Called(Len(frames))' <=> Called(Len(frames) - 1)
    BY <1>2, <2>1 DEF Called
  <2>3. CASE Top.at = "call"
    <3>1. waiting' = Top.was /\ (Top.was <=> Called(Len(frames) - 1))
      BY <1>2, <2>1, <2>3, Zenon DEF StackInv
    <3> QED
      BY <2>2, <3>1, Zenon
  <2>4. CASE Top.at # "call"
    <3>1. Called(Len(frames)) <=> Called(Len(frames) - 1)
      BY <1>2, <2>4 DEF Called
    <3>2. waiting' = waiting /\ (waiting <=> Called(Len(frames)))
      BY <2>4 DEF StackInv
    <3> QED
      BY <2>2, <3>1, <3>2
  <2> QED
    BY <2>3, <2>4
<1>6. frames' # <<>> => frames'[1].at = "code"
  <2> SUFFICES ASSUME frames' # <<>> PROVE frames'[1].at = "code"
    OBVIOUS
  <2>1. 1 \in 1 .. Len(frames) - 1
    BY <1>2
  <2> QED
    BY <1>2, <2>1 DEF StackInv
<1> QED
  BY <1>2, <1>4, <1>5, <1>6, Zenon DEF StackInv

\* A handler returns to the loop over the routes: its frame stays.
LEMMA NextRouteKeepsStack ==
  ASSUME StackInv, frames # <<>>, Top.at = "code", waiting' = waiting, NEW f, f.at = "code",
         frames' = Front(frames) \o <<f>>
  PROVE  StackInv' /\ \A id : Calling(id) => Calling(id)'
<1>1. PICK S : frames \in Seq(S)
  BY DEF StackInv
<1>2. /\ frames' \in Seq(S \cup {f}) /\ Top = frames[Len(frames)]
      /\ Len(frames) \in Nat \ {0} /\ Len(frames') = Len(frames) /\ DOMAIN frames = 1 .. Len(frames)
      /\ \A k \in 1 .. Len(frames) - 1 : frames'[k] = frames[k]
      /\ frames'[Len(frames)] = f
  <2>1. PICK t : t = Front(frames)
    OBVIOUS
  <2>2. /\ t \in Seq(S) /\ Last(frames) = frames[Len(frames)] /\ DOMAIN frames = 1 .. Len(frames)
        /\ Len(frames) \in Nat \ {0} /\ Len(t) = Len(frames) - 1
        /\ \A k \in 1 .. Len(frames) - 1 : t[k] = frames[k]
    BY <1>1, <2>1, PoppedFrame
  <2>3. t \in Seq(S \cup {f}) /\ <<f>> \in Seq(S \cup {f}) /\ Len(<<f>>) = 1 /\ <<f>>[1] = f
    BY <2>2
  <2>4. PICK u : u = t \o <<f>>
    OBVIOUS
  <2>5. /\ u \in Seq(S \cup {f}) /\ Len(u) = Len(t) + 1
        /\ \A k \in 1 .. Len(t) : u[k] = t[k]
        /\ u[Len(t) + 1] = f
    BY <2>3, <2>4
  <2>6. frames' = u
    BY <2>1, <2>4, Zenon
  <2>7. /\ u \in Seq(S \cup {f}) /\ Len(u) = Len(frames)
        /\ \A k \in 1 .. Len(frames) - 1 : u[k] = frames[k]
        /\ u[Len(frames)] = f
    BY <2>2, <2>5
  <2> QED
    BY <2>2, <2>6, <2>7, Zenon DEF Top
<1>3. ASSUME NEW n \in 0 .. Len(frames) PROVE Called(n)' <=> Called(n)
  <2>1. \A k \in 1 .. Len(frames) : frames'[k].at = "call" <=> frames[k].at = "call"
    BY <1>2
  <2>2. \A k \in 1 .. n : k \in 1 .. Len(frames)
    BY <1>2
  <2> QED
    BY <2>1, <2>2, Zenon DEF Called
<1>4. ASSUME NEW k \in 1 .. Len(frames'), frames'[k].at = "call"
      PROVE  frames'[k].was <=> Called(k - 1)'
  <2>1. k - 1 \in 0 .. Len(frames) /\ frames'[k] = frames[k] /\ k \in 1 .. Len(frames)
    BY <1>2, <1>4
  <2> QED
    BY <1>3, <1>4, <2>1, Zenon DEF StackInv
<1>5. waiting' <=> Called(Len(frames))'
  <2>1. Called(Len(frames))' <=> Called(Len(frames))
    BY <1>2, <1>3 DEF Called
  <2> QED
    BY <2>1 DEF StackInv
<1>6. \A id : Calling(id) => Calling(id)'
  <2>1. DOMAIN frames' = 1 .. Len(frames) /\ frames[Len(frames)].at # "call"
    BY <1>2
  <2>2. \A k \in DOMAIN frames : frames[k].at = "call" => k \in DOMAIN frames' /\ frames'[k] = frames[k]
    BY <1>2, <2>1
  <2> QED
    BY <2>2, Zenon DEF Calling
<1>7. frames'[1].at = "code"
  <2>1. CASE Len(frames) = 1
    BY <1>2, <2>1
  <2>2. CASE Len(frames) # 1
    <3>1. 1 \in 1 .. Len(frames) - 1
      BY <1>2, <2>2
    <3> QED
      BY <1>2, <3>1 DEF StackInv
  <2> QED
    BY <2>1, <2>2
<1> QED
  BY <1>2, <1>4, <1>5, <1>6, <1>7, Zenon DEF StackInv

\* Calls stay on a stack that grows.
LEMMA PushKeepsCalls ==
  ASSUME StackInv, NEW f, frames' = Append(frames, f)
  PROVE  \A id : Calling(id) \/ (f.at = "call" /\ f.id = id) => Calling(id)'
<1>1. PICK S : frames \in Seq(S)
  BY DEF StackInv
<1>2. PICK t : t = Append(frames, f)
  OBVIOUS
<1>3. /\ t \in Seq(S \cup {f})
      /\ Len(frames) \in Nat /\ Len(t) = Len(frames) + 1
      /\ \A k \in 1 .. Len(frames) : t[k] = frames[k]
      /\ t[Len(frames) + 1] = f
  BY <1>1, <1>2, PushedFrame
<1>4. DOMAIN frames = 1 .. Len(frames) /\ DOMAIN t = 1 .. Len(frames) + 1 /\ frames' = t
  BY <1>1, <1>2, <1>3
<1> QED
  BY <1>3, <1>4 DEF Calling

\* Popping takes one call at most off the stack.
LEMMA PopKeepsCalls ==
  ASSUME StackInv, frames # <<>>, frames' = Front(frames)
  PROVE  \A id : Calling(id) => Calling(id)' \/ (Top.at = "call" /\ Top.id = id)
<1>1. PICK S : frames \in Seq(S)
  BY DEF StackInv
<1>2. PICK t : t = Front(frames)
  OBVIOUS
<1>3. /\ t \in Seq(S) /\ Last(frames) = frames[Len(frames)]
      /\ Len(frames) \in Nat \ {0} /\ Len(t) = Len(frames) - 1
      /\ \A k \in 1 .. Len(frames) - 1 : t[k] = frames[k]
  BY <1>1, <1>2, PoppedFrame
<1>4. DOMAIN frames = 1 .. Len(frames) /\ DOMAIN t = 1 .. Len(frames) - 1 /\ frames' = t
  BY <1>1, <1>2, <1>3
<1> QED
  BY <1>3, <1>4 DEF Calling, Top

-----------------------------------------------------------------------------
(* The streams *)

\* A message is appended to a stream.
LEMMA AppendedId ==
  ASSUME NEW S, NEW s \in Seq(S), NEW e \in S
  PROVE  /\ Append(s, e) \in Seq(S)
         /\ \A i \in DOMAIN Append(s, e) :
              \/ i \in DOMAIN s /\ Append(s, e)[i] = s[i]
              \/ i = Len(s) + 1 /\ Append(s, e)[i] = e /\ i \notin DOMAIN s
OBVIOUS

\* The first message is read from a stream.
LEMMA ReadId ==
  ASSUME NEW S, NEW s \in Seq(S), s # <<>>
  PROVE  /\ Tail(s) \in Seq(S) /\ 1 \in DOMAIN s /\ Head(s) = s[1] /\ Head(s) \in S
         /\ \A i \in DOMAIN Tail(s) : i \in Nat /\ i + 1 \in DOMAIN s /\ i + 1 # 1 /\ Tail(s)[i] = s[i + 1]
OBVIOUS

\* A request has an ID of its own.
LEMMA RequestKeepsFlight ==
  ASSUME FlightInv, lastId' = lastId + 1, UNCHANGED <<server, toClient>>,
         toServer' = Append(toServer, lastId + 1) \/ toServer' = toServer
  PROVE  FlightInv' /\ \A id \in Nat : InFlight(id)' => InFlight(id) \/ (id = lastId + 1 /\ toServer' # toServer)
<1>1. lastId \in Nat /\ lastId + 1 \in Nat /\ toServer \in Seq(Nat)
  BY DEF FlightInv
<1>2. CASE toServer' = toServer
  <2>1. \A id \in Nat : InFlight(id)' <=> InFlight(id)
    BY <1>2 DEF InFlight
  <2>2. \A id \in Nat : InFlight(id)' => id <= lastId'
    BY <1>1, <2>1 DEF FlightInv
  <2>3. FlightInv'
    <3>1. lastId' \in Nat /\ UNCHANGED <<toServer, server, toClient>>
      BY <1>1, <1>2
    <3> QED
      BY <2>2, <3>1, Zenon DEF FlightInv
  <2> QED
    BY <2>1, <2>3
<1>3. CASE toServer' = Append(toServer, lastId + 1)
  <2>1. PICK n \in Nat : n = lastId + 1
    BY <1>1
  <2>2. PICK t : t = Append(toServer, n)
    OBVIOUS
  <2>3. /\ t \in Seq(Nat)
        /\ \A i \in DOMAIN t :
             \/ i \in DOMAIN toServer /\ t[i] = toServer[i]
             \/ i = Len(toServer) + 1 /\ t[i] = n /\ i \notin DOMAIN toServer
    <3>1. /\ Append(toServer, n) \in Seq(Nat)
          /\ \A i \in DOMAIN Append(toServer, n) :
               \/ i \in DOMAIN toServer /\ Append(toServer, n)[i] = toServer[i]
               \/ i = Len(toServer) + 1 /\ Append(toServer, n)[i] = n /\ i \notin DOMAIN toServer
      <4>1. PICK u \in Seq(Nat) : u = toServer
        BY <1>1
      <4>2. /\ Append(u, n) \in Seq(Nat)
            /\ \A i \in DOMAIN Append(u, n) :
                 \/ i \in DOMAIN u /\ Append(u, n)[i] = u[i]
                 \/ i = Len(u) + 1 /\ Append(u, n)[i] = n /\ i \notin DOMAIN u
        BY AppendedId
      <4> QED
        BY <4>1, <4>2, Zenon
    <3> QED
      BY <2>2, <3>1, Zenon
  <2>4. toServer' = t /\ toServer' # toServer
    BY <1>1, <1>3, <2>1, <2>2
  <2>5. \A id \in Nat : InFlight(id)' => InFlight(id) \/ id = n
    BY <2>3, <2>4 DEF InFlight
  <2>6. ~InFlight(n)
    BY <1>1, <2>1 DEF FlightInv
  <2>7. \A id \in Nat : InFlight(id)' => id <= lastId'
    BY <1>1, <2>1, <2>5 DEF FlightInv
  <2>8. /\ \A i \in DOMAIN toServer : toServer[i] # n
        /\ \A i \in DOMAIN toClient : toClient[i] # n
        /\ server.at = "handling" => server.id # n
    BY <2>6 DEF InFlight
  <2>12. /\ \A i, j \in DOMAIN toServer : toServer[i] = toServer[j] => i = j
         /\ \A i \in DOMAIN toServer, j \in DOMAIN toClient : toServer[i] # toClient[j]
         /\ server.at = "handling" => \A i \in DOMAIN toServer : toServer[i] # server.id
    BY DEF FlightInv
  <2>9. \A i, j \in DOMAIN t : t[i] = t[j] => i = j
    BY <2>3, <2>8, <2>12
  <2>10. /\ \A i \in DOMAIN t, j \in DOMAIN toClient : t[i] # toClient[j]
         /\ server.at = "handling" => \A i \in DOMAIN t : t[i] # server.id
    BY <2>3, <2>8, <2>12
  <2>11. FlightInv'
    BY <1>1, <2>3, <2>4, <2>7, <2>9, <2>10 DEF FlightInv
  <2> QED
    BY <2>1, <2>4, <2>5, <2>11
<1> QED
  BY <1>2, <1>3

\* What the client has read is nowhere any more.
LEMMA ReadingKeepsFlight ==
  ASSUME FlightInv, toClient # <<>>, toClient' = Tail(toClient), UNCHANGED <<toServer, server, lastId>>
  PROVE  /\ FlightInv' /\ Head(toClient) \in Nat \cup {None}
         /\ Head(toClient) \in Nat => InFlight(Head(toClient))
         /\ \A id \in Nat : InFlight(id)' => InFlight(id) /\ id # Head(toClient)
<1>1. PICK t : t = Tail(toClient)
  OBVIOUS
<1>2. toClient \in Seq(Nat \cup {None})
  BY DEF FlightInv
<1>3. /\ t \in Seq(Nat \cup {None}) /\ 1 \in DOMAIN toClient /\ Head(toClient) = toClient[1]
      /\ Head(toClient) \in Nat \cup {None}
      /\ \A i \in DOMAIN t : i \in Nat /\ i + 1 \in DOMAIN toClient /\ i + 1 # 1 /\ t[i] = toClient[i + 1]
  BY <1>1, <1>2, ReadId
<1>4. toClient' = t
  BY <1>1
<1>5. ASSUME NEW i \in DOMAIN t PROVE t[i] # Head(toClient) \/ t[i] = None
  BY <1>3 DEF FlightInv
<1>6. \A id \in Nat : InFlight(id)' => InFlight(id) /\ id # Head(toClient)
  <2> SUFFICES ASSUME NEW id \in Nat, InFlight(id)' PROVE InFlight(id) /\ id # Head(toClient)
    OBVIOUS
  <2>1. CASE \E i \in DOMAIN t : t[i] = id
    BY <1>3, <1>5, <2>1, PhpConstants DEF PhpConstants, InFlight
  <2>2. CASE (\E i \in DOMAIN toServer : toServer[i] = id) \/ (server.at = "handling" /\ server.id = id)
    BY <1>3, <2>2 DEF FlightInv, InFlight
  <2> QED
    BY <1>4, <2>1, <2>2 DEF InFlight
<1>7. \A i, j \in DOMAIN t : t[i] = t[j] /\ t[i] # None => i = j
  BY <1>3 DEF FlightInv
<1>8. FlightInv'
  BY <1>3, <1>4, <1>6, <1>7 DEF FlightInv
<1> QED
  BY <1>3, <1>6, <1>8 DEF InFlight

\* The server takes a request from its stream.
LEMMA ServerReadKeepsFlight ==
  ASSUME FlightInv, ServerRead
  PROVE  FlightInv' /\ \A id \in Nat : InFlight(id)' => InFlight(id)
<1>1. UNCHANGED <<lastId, toClient>>
  BY DEF ServerRead, clientVars
<1>2. CASE toServer # <<>> /\ toServer' = Tail(toServer) /\
           \E matched \in BOOLEAN : server' = [at |-> "handling", id |-> Head(toServer), matched |-> matched]
  <2>1. PICK t : t = Tail(toServer)
    OBVIOUS
  <2>2. toServer \in Seq(Nat)
    BY DEF FlightInv
  <2>3. /\ t \in Seq(Nat) /\ 1 \in DOMAIN toServer /\ Head(toServer) = toServer[1]
        /\ Head(toServer) \in Nat
        /\ \A i \in DOMAIN t : i \in Nat /\ i + 1 \in DOMAIN toServer /\ i + 1 # 1 /\ t[i] = toServer[i + 1]
    BY <1>2, <2>1, <2>2, ReadId
  <2>4. toServer' = t /\ server'.at = "handling" /\ server'.id = Head(toServer)
    BY <1>2, <2>1
  <2>5. \A id \in Nat : InFlight(id)' => InFlight(id)
    BY <1>1, <2>3, <2>4 DEF InFlight
  <2>6. \A i, j \in DOMAIN t : t[i] = t[j] => i = j
    BY <2>3 DEF FlightInv
  <2>7. \A i \in DOMAIN t : t[i] # Head(toServer) /\ \A j \in DOMAIN toClient : t[i] # toClient[j]
    BY <2>3 DEF FlightInv
  <2>8. \A j \in DOMAIN toClient : toClient[j] # Head(toServer)
    BY <2>3 DEF FlightInv
  <2>9. FlightInv'
    BY <1>1, <2>3, <2>4, <2>5, <2>6, <2>7, <2>8 DEF FlightInv
  <2> QED
    BY <2>5, <2>9
<1>3. CASE server' = Ended /\ UNCHANGED toServer
  BY <1>1, <1>3 DEF FlightInv, InFlight, Ended
<1> QED
  BY <1>2, <1>3 DEF ServerRead

\* Something is appended to the client's stream: an event, or the server's response.
LEMMA WritingKeepsFlight ==
  ASSUME FlightInv, UNCHANGED <<lastId, toServer>>, NEW m \in Nat \cup {None}, toClient' = Append(toClient, m),
         \/ m = None /\ UNCHANGED server
         \/ server.at = "handling" /\ m = server.id /\ server' = Reading
  PROVE  FlightInv' /\ \A id \in Nat : InFlight(id)' => InFlight(id)
<1>1. PICK s \in Seq(Nat \cup {None}) : s = toClient
  BY DEF FlightInv
<1>2. /\ Append(s, m) \in Seq(Nat \cup {None})
      /\ \A i \in DOMAIN Append(s, m) :
           \/ i \in DOMAIN s /\ Append(s, m)[i] = s[i]
           \/ i = Len(s) + 1 /\ Append(s, m)[i] = m /\ i \notin DOMAIN s
  BY AppendedId
<1>3. /\ toClient' \in Seq(Nat \cup {None})
      /\ \A i \in DOMAIN toClient' :
           \/ i \in DOMAIN toClient /\ toClient'[i] = toClient[i]
           \/ i = Len(s) + 1 /\ toClient'[i] = m /\ i \notin DOMAIN toClient
  BY <1>1, <1>2, Zenon
<1>4. m = None \/ (server.at = "handling" /\ m = server.id)
  OBVIOUS
<1>5. server'.at = "handling" => m = None /\ server' = server
  BY DEF Reading
<1>6. \A id \in Nat : InFlight(id)' => InFlight(id)
  BY <1>3, <1>4, <1>5, PhpConstants DEF PhpConstants, InFlight
<1>7. m # None => \A i \in DOMAIN toClient : toClient[i] # m
  BY <1>4 DEF FlightInv
<1>8. \A i, j \in DOMAIN toClient' : toClient'[i] = toClient'[j] /\ toClient'[i] # None => i = j
  <2>1. \A i, j \in DOMAIN toClient : toClient[i] = toClient[j] /\ toClient[i] # None => i = j
    BY DEF FlightInv
  <2> QED
    BY <1>3, <1>7, <2>1
<1>9. \A i \in DOMAIN toServer : toServer[i] \in Nat /\ toServer[i] # m
  BY <1>4, PhpConstants DEF PhpConstants, FlightInv
<1>10. \A i \in DOMAIN toServer, j \in DOMAIN toClient' : toServer[i] # toClient'[j]
  BY <1>3, <1>9, Zenon DEF FlightInv
<1>11. server'.at = "handling" => \A i \in DOMAIN toClient' : toClient'[i] # server'.id
  BY <1>3, <1>5, PhpConstants DEF PhpConstants, FlightInv
<1>12. FlightInv'
  BY <1>3, <1>5, <1>6, <1>8, <1>10, <1>11 DEF FlightInv
<1> QED
  BY <1>6, <1>12

-----------------------------------------------------------------------------
(* The steps *)

\* An exception unwinds a stack.
RaisedInv == raised # None => frames # <<>>

PhpInv == StackInv /\ FlightInv /\ ExpectedInv /\ RaisedInv

\* Steps that leave the stack and the streams alone.
LEMMA UnchangedKeeps ==
  ASSUME PhpInv, UNCHANGED <<frames, waiting, responders, failed, lastId, toServer, server, toClient>>,
         raised' # None => frames # <<>>
  PROVE  PhpInv'
<1>1. StackInv'
  BY DEF PhpInv, StackInv, Called
<1>2. FlightInv'
  BY DEF PhpInv, FlightInv, InFlight
<1>3. ExpectedInv'
  BY DEF PhpInv, ExpectedInv, Expected, InFlight, Calling
<1> QED
  BY <1>1, <1>2, <1>3 DEF PhpInv, RaisedInv

\* Client::call: its ID is new, and it registers a responder or waits itself.
LEMMA CallKeeps ==
  ASSUME PhpInv, CallAsync \/ CallSync
  PROVE  PhpInv'
<1>1. /\ frames # <<>> /\ raised = None /\ lastId' = lastId + 1
      /\ UNCHANGED <<server, toClient, failed>>
  BY DEF CallAsync, CallSync, Request, Runs, serverVars
<1>2. \/ /\ toServer' = Append(toServer, lastId + 1) /\ UNCHANGED raised
         /\ \/ responders' = responders \cup {lastId + 1} /\ UNCHANGED <<frames, waiting>>
            \/ /\ frames' = Append(frames, [at |-> "call", id |-> lastId + 1, was |-> waiting])
               /\ waiting' = TRUE /\ responders' = responders
      \/ UNCHANGED <<frames, waiting, responders, toServer>>
  BY <1>1 DEF CallAsync, CallSync, Request
<1>3. /\ FlightInv'
      /\ \A id \in Nat : InFlight(id)' => InFlight(id) \/ (id = lastId + 1 /\ toServer' # toServer)
  BY <1>1, <1>2, RequestKeepsFlight DEF PhpInv
<1>4. CASE UNCHANGED <<frames, waiting>>
  <2>1. StackInv'
    BY <1>4 DEF PhpInv, StackInv, Called
  <2>2. toServer' = toServer \/ lastId + 1 \in responders'
    BY <1>2, <1>4 DEF PhpInv, StackInv
  <2>3. responders \subseteq responders'
    BY <1>2
  <2>4. \A id : Calling(id)' <=> Calling(id)
    BY <1>4 DEF Calling
  <2>5. ExpectedInv'
    BY <1>1, <1>3, <2>2, <2>3, <2>4 DEF PhpInv, ExpectedInv, Expected
  <2> QED
    BY <1>1, <1>3, <1>4, <2>1, <2>5 DEF PhpInv, RaisedInv
<1>5. CASE /\ frames' = Append(frames, [at |-> "call", id |-> lastId + 1, was |-> waiting])
           /\ waiting' = TRUE /\ responders' = responders /\ UNCHANGED raised
  <2>1. PICK f : f = [at |-> "call", id |-> lastId + 1, was |-> waiting]
    OBVIOUS
  <2>2. f.at = "call" /\ f.id = lastId + 1 /\ f.was = waiting /\ frames' = Append(frames, f)
    BY <1>5, <2>1, Zenon
  <2>3. StackInv'
    BY <1>1, <1>5, <2>2, PushKeepsStack, Zenon DEF PhpInv
  <2>4. \A id : Calling(id) \/ id = lastId + 1 => Calling(id)'
    BY <2>2, PushKeepsCalls, Zenon DEF PhpInv
  <2>5. ExpectedInv'
    BY <1>1, <1>3, <1>5, <2>4 DEF PhpInv, ExpectedInv, Expected
  <2> QED
    BY <1>1, <1>3, <1>5, <2>3, <2>5 DEF PhpInv, RaisedInv
<1> QED
  BY <1>2, <1>4, <1>5

\* A frame that is no call is pushed, and nothing that is expected is taken away.
LEMMA PushKeeps ==
  ASSUME PhpInv, NEW f, f.at # "call", frames # <<>>, frames' = Append(frames, f), waiting' = waiting,
         FlightInv', failed' = failed, UNCHANGED raised,
         \A id \in Nat : InFlight(id)' => InFlight(id) /\ (id \in responders => id \in responders')
  PROVE  PhpInv'
<1>1. StackInv'
  BY PushKeepsStack, Zenon DEF PhpInv
<1>2. \A id : Calling(id) => Calling(id)'
  BY PushKeepsCalls, Zenon DEF PhpInv
<1>3. ExpectedInv'
  BY <1>2 DEF PhpInv, ExpectedInv, Expected
<1>4. RaisedInv' \/ frames' = <<>>
  BY DEF RaisedInv
<1>5. frames' # <<>>
  <2>1. PICK S : frames \in Seq(S)
    BY DEF PhpInv, StackInv
  <2>2. Len(Append(frames, f)) = Len(frames) + 1 /\ Len(frames) \in Nat
    BY <2>1, PushedFrame
  <2> QED
    BY <2>2
<1> QED
  BY <1>1, <1>3, <1>4, <1>5 DEF PhpInv

\* A frame is popped; if it is a call, its response was read or it has failed.
LEMMA PopKeeps ==
  ASSUME PhpInv, frames # <<>>, frames' = Front(frames), FlightInv',
         \/ Top.at # "call" /\ waiting' = waiting
         \/ Top.at = "call" /\ waiting' = Top.was,
         responders' = responders, failed \subseteq failed', RaisedInv',
         \A id \in Nat : InFlight(id)' => InFlight(id) /\ (Top.at = "call" /\ Top.id = id => id \in failed')
  PROVE  PhpInv'
<1>1. StackInv'
  BY PopKeepsStack, Zenon DEF PhpInv
<1>2. \A id : Calling(id) => Calling(id)' \/ (Top.at = "call" /\ Top.id = id)
  BY PopKeepsCalls, Zenon DEF PhpInv
<1>3. ExpectedInv'
  BY <1>2 DEF PhpInv, ExpectedInv, Expected
<1> QED
  BY <1>1, <1>3 DEF PhpInv

\* Steps that leave the streams alone leave what is on them.
LEMMA SameStreams ==
  ASSUME PhpInv, UNCHANGED <<lastId, toServer, server, toClient>>
  PROVE  FlightInv' /\ \A id : InFlight(id)' <=> InFlight(id)
BY DEF PhpInv, FlightInv, InFlight

\* Client::wait.
LEMMA WaitKeeps ==
  ASSUME PhpInv, Wait
  PROVE  PhpInv'
<1>1. frames # <<>> /\ UNCHANGED <<waiting, responders, lastId, toServer, server, toClient, failed>>
  BY DEF Wait, Runs, serverVars
<1>2. CASE UNCHANGED frames
  BY <1>1, <1>2, UnchangedKeeps
<1>3. CASE frames' = Append(frames, [at |-> "wait"]) /\ UNCHANGED raised
  <2>1. PICK f : f = [at |-> "wait"]
    OBVIOUS
  <2>2. f.at # "call" /\ frames' = Append(frames, f)
    BY <1>3, <2>1
  <2> QED
    BY <1>1, <1>3, <2>2, SameStreams, PushKeeps, Zenon
<1> QED
  BY <1>2, <1>3 DEF Wait

\* Code returns.
LEMMA ReturnKeeps ==
  ASSUME PhpInv, Return
  PROVE  PhpInv'
<1>1. /\ frames # <<>> /\ Top.at = "code" /\ raised = None /\ raised' = None
      /\ UNCHANGED <<waiting, responders, lastId, toServer, server, toClient, failed>>
  BY DEF Return, Runs, serverVars
<1>2. FlightInv' /\ RaisedInv' /\ \A id : InFlight(id)' <=> InFlight(id)
  BY <1>1, SameStreams DEF RaisedInv
<1>3. CASE frames' = Front(frames)
  BY <1>1, <1>2, <1>3, PopKeeps
<1>4. CASE frames' = Front(frames) \o <<Code(Top.routes - 1)>>
  <2>1. PICK f : f = Code(Top.routes - 1)
    OBVIOUS
  <2>2. f.at = "code" /\ frames' = Front(frames) \o <<f>>
    BY <1>4, <2>1 DEF Code
  <2>3. StackInv' /\ \A id : Calling(id) => Calling(id)'
    BY <1>1, <2>2, NextRouteKeepsStack, Zenon DEF PhpInv
  <2>4. ExpectedInv'
    BY <1>1, <1>2, <2>3 DEF PhpInv, ExpectedInv, Expected
  <2> QED
    BY <1>2, <2>3, <2>4 DEF PhpInv
<1> QED
  BY <1>3, <1>4 DEF Return

\* Client::waitUntil: a message is returned, handled, or lost.
LEMMA ReadMessageKeeps ==
  ASSUME PhpInv, ReadMessage
  PROVE  PhpInv'
<1>1. /\ frames # <<>> /\ raised = None /\ UNCHANGED <<lastId, raised, failed, toServer, server>>
      /\ toClient # <<>> /\ toClient' = Tail(toClient)
  BY DEF ReadMessage, Runs, serverVars
<1>2. PICK m : m = Head(toClient)
  OBVIOUS
<1>3. FlightInv' /\ RaisedInv' /\ \A id \in Nat : InFlight(id)' => InFlight(id) /\ id # m
  BY <1>1, <1>2, ReadingKeepsFlight DEF PhpInv, RaisedInv
<1>4. CASE Awaited(m)
  <2>1. Top.at = "call" /\ Top.id = m /\ frames' = Front(frames) /\ waiting' = Top.was /\ responders' = responders
    BY <1>2, <1>4 DEF ReadMessage, Awaited
  <2> QED
    BY <1>1, <1>3, <2>1, PopKeeps
<1>5. CASE ~Awaited(m)
  <2>1. waiting' = waiting /\ Handle(m)
    BY <1>2, <1>5 DEF ReadMessage
  <2>2. ASSUME NEW f, f.at = "code", frames' = Append(frames, f),
               responders' = responders \/ responders' = responders \ {m}
        PROVE  PhpInv'
    <3>1. \A id \in Nat : InFlight(id)' => InFlight(id) /\ (id \in responders => id \in responders')
      BY <1>3, <2>2
    <3>2. f.at # "call"
      BY <2>2
    <3> QED
      BY <1>1, <1>3, <2>1, <2>2, <3>1, <3>2, PushKeeps, Zenon
  <2>3. CASE UNCHANGED <<responders, frames>>
    <3>1. StackInv' /\ \A id : Calling(id)' <=> Calling(id)
      BY <2>1, <2>3 DEF PhpInv, StackInv, Called, Calling
    <3>2. ExpectedInv'
      BY <1>1, <1>3, <2>3, <3>1 DEF PhpInv, ExpectedInv, Expected
    <3> QED
      BY <1>3, <3>1, <3>2 DEF PhpInv
  <2>4. \A n : Code(n).at = "code"
    BY DEF Code
  <2> QED
    BY <2>1, <2>2, <2>3, <2>4 DEF Handle
<1> QED
  BY <1>4, <1>5

\* An exception leaves a frame.
LEMMA UnwindKeeps ==
  ASSUME PhpInv, Unwind
  PROVE  PhpInv'
<1>1. frames # <<>> /\ raised # None /\ UNCHANGED <<responders, lastId, toServer, server, toClient>>
  BY DEF Unwind, PhpInv, RaisedInv, serverVars
<1>2. FlightInv' /\ \A id : InFlight(id)' <=> InFlight(id)
  BY <1>1, SameStreams
<1>3. CASE raised' = None /\ UNCHANGED <<frames, waiting, failed>>
  BY <1>1, <1>3, UnchangedKeeps
<1>4. CASE frames' = Front(frames) /\ (LeaveCode \/ LeaveWait \/ LeaveCall)
  <2>1. PICK S : frames \in Seq(S)
    BY DEF PhpInv, StackInv
  <2>2. /\ Front(frames) \in Seq(S) /\ Last(frames) = frames[Len(frames)]
        /\ Len(frames) \in Nat \ {0} /\ Len(Front(frames)) = Len(frames) - 1
    BY <1>1, <2>1, PoppedFrame
  <2>3. Len(frames) = 1 => Top.at = "code"
    BY <1>1, <2>2 DEF Top, PhpInv, StackInv
  <2>4. Len(frames) # 1 => frames' # <<>>
    BY <1>4, <2>2
  <2>5. Len(frames) = 1 => raised' = None \/ frames' = frames
    BY <1>4, <2>3 DEF LeaveCode, LeaveWait, LeaveCall
  <2>6. RaisedInv'
    BY <1>1, <2>4, <2>5 DEF RaisedInv
  <2>7. /\ failed \subseteq failed' /\ (Top.at = "call" => Top.id \in failed')
        /\ \/ Top.at # "call" /\ waiting' = waiting
           \/ Top.at = "call" /\ waiting' = Top.was
    BY <1>4 DEF LeaveCode, LeaveWait, LeaveCall
  <2> QED
    BY <1>1, <1>2, <1>4, <2>6, <2>7, PopKeeps
<1> QED
  BY <1>3, <1>4 DEF Unwind, LeaveCode, LeaveWait, LeaveCall

\* What the server does, as far as the client's half of the invariant is concerned.
LEMMA ServerKeeps ==
  ASSUME PhpInv, clientVars' = clientVars, FlightInv', \A id \in Nat : InFlight(id)' => InFlight(id)
  PROVE  PhpInv'
<1>1. UNCHANGED <<frames, waiting, responders, raised, failed>>
  BY DEF clientVars
<1>2. StackInv' /\ RaisedInv' /\ \A id : Expected(id)' <=> Expected(id)
  BY <1>1 DEF PhpInv, StackInv, Called, RaisedInv, Expected, Calling
<1> QED
  BY <1>2 DEF PhpInv, ExpectedInv

\* The server ends: its request, if it has one, is not answered.
LEMMA EndingKeepsFlight ==
  ASSUME FlightInv, server' = Ended, UNCHANGED <<lastId, toServer, toClient>>
  PROVE  FlightInv' /\ \A id \in Nat : InFlight(id)' => InFlight(id)
BY DEF FlightInv, InFlight, Ended

\* Server::wait and Server::send.
LEMMA ServerStepKeeps ==
  ASSUME PhpInv, ServerRead \/ SendEvent \/ Respond \/ HandlerThrows
  PROVE  PhpInv'
<1>1. clientVars' = clientVars
  BY DEF ServerRead, SendEvent, Respond, HandlerThrows
<1>2. lastId' = lastId /\ FlightInv
  BY <1>1 DEF clientVars, PhpInv
<1>3. CASE ServerRead
  BY <1>1, <1>2, <1>3, ServerReadKeepsFlight, ServerKeeps
<1>4. ASSUME server' = Ended, UNCHANGED <<toServer, toClient>> PROVE PhpInv'
  BY <1>1, <1>2, <1>4, EndingKeepsFlight, ServerKeeps
<1>5. ASSUME NEW m \in Nat \cup {None}, toClient' = Append(toClient, m), toServer' = toServer,
             \/ m = None /\ UNCHANGED server
             \/ server.at = "handling" /\ m = server.id /\ server' = Reading
      PROVE  PhpInv'
  <2>1. FlightInv' /\ \A id \in Nat : InFlight(id)' => InFlight(id)
    BY <1>2, <1>5, WritingKeepsFlight, Zenon
  <2> QED
    BY <1>1, <2>1, ServerKeeps
<1>6. CASE SendEvent
  BY <1>4, <1>5, <1>6 DEF SendEvent
<1>7. CASE Respond
  <2>1. server.at = "handling" /\ server.id \in Nat \cup {None}
    BY <1>2, <1>7 DEF Respond, FlightInv
  <2> QED
    BY <1>4, <1>5, <1>7, <2>1 DEF Respond
<1>8. CASE HandlerThrows
  BY <1>4, <1>8 DEF HandlerThrows
<1> QED
  BY <1>3, <1>6, <1>7, <1>8

\* Nothing is on its way at first, and the program is alone on its stack.
LEMMA PhpInvInit == Init => PhpInv
<1> SUFFICES ASSUME Init PROVE PhpInv
  OBVIOUS
<1>1. frames = <<Code(1)>> /\ frames \in Seq({Code(1)}) /\ Len(frames) = 1 /\ frames[1].at = "code"
  BY DEF Init, Code
<1>2. \A n \in 0 .. 1 : ~Called(n)
  BY <1>1 DEF Called
<1>3. StackInv
  <2>1. \E S : frames \in Seq(S)
    BY <1>1, Zenon
  <2>2. \A k \in 1 .. Len(frames) : frames[k].at # "call"
    BY <1>1
  <2>3. waiting = FALSE /\ ~Called(Len(frames))
    BY <1>1, <1>2 DEF Init
  <2> QED
    BY <1>1, <2>1, <2>2, <2>3, Zenon DEF StackInv
<1>4. FlightInv /\ \A id : ~InFlight(id)
  BY DEF Init, FlightInv, InFlight, Reading
<1> QED
  BY <1>3, <1>4 DEF PhpInv, ExpectedInv, RaisedInv, Init

\* The invariant, step by step.
LEMMA PhpInvStep == PhpInv /\ [Next]_vars => PhpInv'
<1> SUFFICES ASSUME PhpInv, [Next]_vars PROVE PhpInv'
  OBVIOUS
<1>1. CASE CallAsync \/ CallSync
  BY <1>1, CallKeeps
<1>2. CASE Wait
  BY <1>2, WaitKeeps
<1>3. CASE CloseWriter \/ UNCHANGED vars
  BY <1>3, UnchangedKeeps DEF CloseWriter, vars, clientVars, serverVars, PhpInv, RaisedInv
<1>4. CASE Return
  BY <1>4, ReturnKeeps
<1>5. CASE ReadMessage
  BY <1>5, ReadMessageKeeps
<1>6. CASE ReadEOF
  BY <1>6, UnchangedKeeps DEF ReadEOF, Runs, serverVars
<1>7. CASE Unwind
  BY <1>7, UnwindKeeps
<1>8. CASE ServerRead \/ SendEvent \/ Respond \/ HandlerThrows
  BY <1>8, ServerStepKeeps
<1> QED
  BY <1>1, <1>2, <1>3, <1>4, <1>5, <1>6, <1>7, <1>8 DEF Next

\* The stack accounts for $waiting, and every message on its way for somebody who waits.
THEOREM PhpInvariant == Spec => []PhpInv
BY PhpInvInit, PhpInvStep, PTL DEF Spec

-----------------------------------------------------------------------------
(* What follows *)

\* However calls, waits, handlers and exceptions nest, $waiting is set exactly while a
\* call without a closure is on the stack (the finally of Client::waitUntil).
THEOREM PhpWaitingIffCalling == Spec => []WaitingIffCalling
<1>1. PhpInv => WaitingIffCalling
  <2> SUFFICES ASSUME PhpInv PROVE WaitingIffCalling
    OBVIOUS
  <2>1. DOMAIN frames = 1 .. Len(frames)
    BY DEF PhpInv, StackInv
  <2> QED
    BY <2>1 DEF PhpInv, StackInv, Called, WaitingIffCalling
<1> QED
  BY <1>1, PhpInvariant, PTL

\* A response that Client::handle leaves to the routes is of a call that has raised, or
\* that waits beneath another.
THEOREM PhpLostOnlyIfNested == Spec => LostOnlyIfNested
<1> DEFINE Lost == \A id \in lost' \ lost : \/ id \in failed
                                            \/ Calling(id) /\ ~(Top.at = "call" /\ Top.id = id)
<1>1. PhpInv /\ [Next]_vars => [Lost]_vars
  <2> SUFFICES ASSUME PhpInv, Next, NEW id \in lost' \ lost
               PROVE  id \in failed \/ (Calling(id) /\ ~(Top.at = "call" /\ Top.id = id))
    OBVIOUS
  <2>1. ReadMessage
    BY DEF Next, CallAsync, CallSync, Request, Wait, CloseWriter, Return, ReadEOF, Unwind,
           ServerRead, SendEvent, Respond, HandlerThrows, clientVars
  <2>2. /\ toClient # <<>> /\ toClient' = Tail(toClient) /\ UNCHANGED <<toServer, server, lastId>>
        /\ id = Head(toClient) /\ id # None /\ id \notin responders /\ ~Awaited(id)
    BY <2>1 DEF ReadMessage, Handle, serverVars
  <2>3. id \in Nat /\ InFlight(id)
    BY <2>2, ReadingKeepsFlight DEF PhpInv
  <2>4. Expected(id)
    BY <2>3 DEF PhpInv, ExpectedInv
  <2> QED
    BY <2>2, <2>4 DEF Expected, Awaited
<1> QED
  BY <1>1, PhpInvariant, PTL DEF Spec, LostOnlyIfNested
=============================================================================
