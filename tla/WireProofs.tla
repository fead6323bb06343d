------------------------------ MODULE WireProofs ------------------------------
(***************************************************************************)
(* Proofs about the wire format: for any threads and any messages, what is *)
(* read back of framed messages is what was written, or what JavaScript    *)
(* makes of it.                                                            *)
(*                                                                         *)
(* First what the encoders and the parsers do to one message, whatever its *)
(* headers and body: what a header map keeps of a list of headers, what    *)
(* the text of a message looks like, and that the parser of a frame finds  *)
(* in it what ReadAs says (FrameIsReadAs).  Then the writers: the mutex    *)
(* makes the messages lie on the wire one after the other (Laid, Frames).  *)
(* Last the readers: a step from any place in a message leads to the next  *)
(* place in it, or returns it (HeaderStep, BodyStep, LengthStep).          *)
(***************************************************************************)
EXTENDS Wire, WellFoundedInduction, FiniteSetTheorems, TLAPS

-----------------------------------------------------------------------------
(* Least elements, and what Keep keeps.                                    *)

\* A set of natural numbers has a least one.
LEMMA LeastNat ==
  ASSUME NEW T \in SUBSET Nat, T # {}
  PROVE  \E x \in T : \A y \in T : x <= y
<1> DEFINE R == OpToRel(<, Nat)
<1>1. PICK x \in T : \A y \in T : ~ (<<y, x>> \in R)
  <2> HIDE DEF R
  <2>1. IsWellFoundedOn(R, Nat)
    BY NatLessThanWellFounded, ZenonT(30) DEF R
  <2> QED
    BY <2>1, WFMin, Zenon
<1>2. R = {ss \in Nat \X Nat : ss[1] < ss[2]}
  BY Zenon DEF OpToRel
<1> HIDE DEF R
<1>3. \A y \in T : y < x => <<y, x>> \in R
  BY <1>2
<1>4. \A y \in T : ~ (y < x)
  BY <1>1, <1>3, Zenon
<1> QED
  BY <1>4

\* Min is that one.
LEMMA MinIsLeast ==
  ASSUME NEW T \in SUBSET Nat, T # {}
  PROVE  Min(T) \in T /\ \A y \in T : Min(T) <= y
<1>1. PICK x \in T : \A y \in T : x <= y
  BY LeastNat
<1> QED
  BY <1>1, Zenon DEF Min

\* An element that no other one is below, or above, is the Min, or the Max.
LEMMA MinMaxKnown ==
  ASSUME NEW T \in SUBSET Nat, NEW x \in T
  PROVE  /\ (\A y \in T : x <= y) => Min(T) = x
         /\ (\A y \in T : x >= y) => Max(T) = x
<1>1. ASSUME \A y \in T : x <= y PROVE Min(T) = x
  <2>1. Min(T) \in T /\ \A y \in T : Min(T) <= y
    BY MinIsLeast
  <2>2. x \in Nat /\ Min(T) \in Nat /\ x <= Min(T) /\ Min(T) <= x
    BY <1>1, <2>1, Zenon
  <2> QED
    BY <2>2
<1>2. ASSUME \A y \in T : x >= y PROVE Max(T) = x
  <2>1. Max(T) \in T /\ \A y \in T : Max(T) >= y
    BY <1>2, Zenon DEF Max
  <2>2. x \in Nat /\ Max(T) \in Nat /\ x >= Max(T) /\ Max(T) >= x
    BY <1>2, <2>1, Zenon
  <2> QED
    BY <2>2
<1> QED
  BY <1>1, <1>2

\* A set of indices has a greatest one, its Max.
LEMMA MaxIsGreatest ==
  ASSUME NEW n \in Nat, NEW T \in SUBSET (1 .. n), T # {}
  PROVE  Max(T) \in T
<1> DEFINE U == {n - x : x \in T}
<1>1. U \in SUBSET Nat /\ U # {}
  <2>1. \A x \in T : n - x \in Nat
    OBVIOUS
  <2> QED
    BY <2>1, Zenon
<1>2. PICK u \in U : \A v \in U : u <= v
  <2> HIDE DEF U
  <2> QED
    BY <1>1, LeastNat, Zenon
<1>3. PICK x \in T : u = n - x
  OBVIOUS
<1>4. \A y \in T : n - x <= n - y
  BY ZenonT(30), <1>2, <1>3
<1>5. \A y \in T : x >= y
  BY <1>4
<1> QED
  BY <1>5, Zenon DEF Max

\* A function on 1 .. n is a sequence.
LEMMA FunctionIsSeq ==
  ASSUME NEW A, NEW n \in Nat, NEW f \in [1 .. n -> A]
  PROVE  f \in Seq(A) /\ Len(f) = n
  OBVIOUS

\* The elements of S are Nth(S, 1), Nth(S, 2) and so on, each of them once.
LEMMA NthCounts ==
  ASSUME NEW n \in Nat, NEW S \in SUBSET (1 .. n)
  PROVE  /\ Cardinality(S) \in Nat
         /\ \A k \in 1 .. Cardinality(S) : Nth(S, k) \in S
         /\ \A k, l \in 1 .. Cardinality(S) : Nth(S, k) = Nth(S, l) => k = l
         /\ \A i \in S : \E k \in 1 .. Cardinality(S) : Nth(S, k) = i
<1> DEFINE c == Cardinality(S)
           Below(i) == {j \in S : j <= i}
           rank == [i \in S |-> Cardinality(Below(i))]
<1>1. IsFiniteSet(S) /\ c \in Nat
  <2>1. IsFiniteSet(1 .. n)
    BY FS_Interval
  <2> QED
    BY ZenonT(30), <2>1, FS_Subset, FS_CardinalityType
<1>2. \A i \in S : IsFiniteSet(Below(i)) /\ Cardinality(Below(i)) \in Nat /\ Cardinality(Below(i)) <= c
  <2> TAKE i \in S
  <2>1. Below(i) \in SUBSET S
    OBVIOUS
  <2> HIDE DEF Below
  <2> QED
    BY <1>1, <2>1, FS_Subset, FS_CardinalityType
<1>3. \A i \in S : Cardinality(Below(i)) # 0
  <2> TAKE i \in S
  <2>1. i \in Below(i)
    OBVIOUS
  <2> HIDE DEF Below
  <2> QED
    BY <1>2, <2>1, FS_EmptySet
<1>4. \A i, j \in S : i < j => Cardinality(Below(i)) # Cardinality(Below(j))
  <2> SUFFICES ASSUME NEW i \in S, NEW j \in S, i < j, Cardinality(Below(i)) = Cardinality(Below(j))
               PROVE  FALSE
    OBVIOUS
  <2>1. Below(i) \in SUBSET Below(j) /\ j \in Below(j) /\ j \notin Below(i)
    <3>1. i \in Nat /\ j \in Nat /\ ~ (j <= i) /\ j <= j /\ \A l \in S : l <= i => l <= j
      OBVIOUS
    <3> QED
      BY <3>1, Zenon
  <2>2. Below(j) = Below(i)
    <3> HIDE DEF Below
    <3> QED
      BY <1>2, <2>1, FS_Subset
  <2> QED
    BY <2>1, <2>2, Zenon
<1>5. rank \in Injection(S, 1 .. c)
  <2>1. \A i \in S : rank[i] = Cardinality(Below(i)) /\ rank[i] \in 1 .. c
    <3> HIDE DEF Below
    <3> QED
      BY <1>1, <1>2, <1>3
  <2>2. rank \in [S -> 1 .. c]
    BY <2>1
  <2>3. \A i, j \in S : rank[i] = rank[j] => i = j
    <3> HIDE DEF rank, Below
    <3>1. \A i, j \in S : i < j \/ j < i \/ i = j
      OBVIOUS
    <3> QED
      BY <1>4, <2>1, <3>1
  <2> HIDE DEF rank
  <2> QED
    BY <2>2, <2>3, Zenon DEF Injection, IsInjective
<1>6. rank \in Surjection(S, 1 .. c)
  <2>1. IsFiniteSet(1 .. c) /\ Cardinality(1 .. c) = c
    BY <1>1, FS_Interval
  <2> HIDE DEF rank
  <2> QED
    BY <1>5, <2>1, FS_Injection
<1>7. \A k \in 1 .. c : \E i \in S : Cardinality(Below(i)) = k
  <2> HIDE DEF Below
  <2> QED
    BY ZenonT(30), <1>6 DEF Surjection
<1>8. \A k \in 1 .. c : Nth(S, k) \in S /\ Cardinality(Below(Nth(S, k))) = k
  BY <1>7, Zenon DEF Nth
<1>9. \A i \in S : \E k \in 1 .. c : Nth(S, k) = i
  <2> SUFFICES ASSUME NEW i \in S PROVE \E k \in 1 .. c : Nth(S, k) = i
    OBVIOUS
  <2>1. rank[i] \in 1 .. c
    <3> HIDE DEF rank
    <3> QED
      BY <1>5, Zenon DEF Injection
  <2>2. PICK j \in S : j = Nth(S, rank[i]) /\ Cardinality(Below(j)) = Cardinality(Below(i))
    <3> HIDE DEF Below
    <3> QED
      BY ZenonT(30), <1>8, <2>1
  <2>3. j < i \/ i < j \/ j = i
    OBVIOUS
  <2>4. j = i
    <3> HIDE DEF rank, Below
    <3> QED
      BY <1>4, <2>2, <2>3
  <2> QED
    BY <2>1, <2>2, <2>4, Zenon
<1>10. \A k, l \in 1 .. c : Nth(S, k) = Nth(S, l) => k = l
  <2> HIDE DEF Below
  <2> QED
    BY <1>8, Zenon
<1> HIDE DEF Below
<1> QED
  BY <1>1, <1>8, <1>9, <1>10, Zenon

\* All of the first n positions are kept where they are.
LEMMA KeepAll ==
  ASSUME NEW n \in Nat, NEW s
  PROVE  Keep(s, 1 .. n) = [k \in 1 .. n |-> s[k]]
<1>1. Cardinality(1 .. n) = n
  BY FS_Interval
<1>2. \A k \in 1 .. n : {j \in 1 .. n : j <= k} = 1 .. k
  OBVIOUS
<1>3. \A k \in 1 .. n : Cardinality({j \in 1 .. n : j <= k}) = k
  <2> SUFFICES ASSUME NEW k \in 1 .. n PROVE Cardinality(1 .. k) = k
    BY <1>2, Zenon
  <2> QED
    BY FS_Interval
<1>4. \A k \in 1 .. n : Nth(1 .. n, k) = k
  BY <1>3, Zenon DEF Nth
<1> QED
  BY <1>1, <1>4 DEF Keep

\* The elements of r are those of s at the positions in S, each of them once.
Kept(r, s, S) ==
  /\ \A k \in DOMAIN r : \E i \in S : r[k] = s[i]
  /\ \A i \in S : \E k \in DOMAIN r : r[k] = s[i]
  /\ \A k, l \in DOMAIN r : k # l => \E i, j \in S : i # j /\ r[k] = s[i] /\ r[l] = s[j]
  /\ \A i, j \in S : i # j => \E k, l \in DOMAIN r : k # l /\ r[k] = s[i] /\ r[l] = s[j]

\* Keep(s, S), with which the header maps are filtered, keeps just the elements at S.
LEMMA KeepElements ==
  ASSUME NEW A, NEW s \in Seq(A), NEW S \in SUBSET DOMAIN s
  PROVE  Keep(s, S) \in Seq(A) /\ Kept(Keep(s, S), s, S)
<1> DEFINE n == Len(s)
           c == Cardinality(S)
<1>0. n \in Nat /\ DOMAIN s = 1 .. n /\ \A i \in 1 .. n : s[i] \in A
  OBVIOUS
<1>1. S \in SUBSET (1 .. n)
  BY <1>0
<1>2. /\ c \in Nat
      /\ \A k \in 1 .. c : Nth(S, k) \in S
      /\ \A k, l \in 1 .. c : Nth(S, k) = Nth(S, l) => k = l
      /\ \A i \in S : \E k \in 1 .. c : Nth(S, k) = i
  <2> HIDE DEF n
  <2> QED
    BY <1>0, <1>1, NthCounts, Zenon
<1> HIDE DEF n, c
<1>3. Keep(s, S) = [k \in 1 .. c |-> s[Nth(S, k)]]
  BY DEF Keep, c
<1>4. DOMAIN Keep(s, S) = 1 .. c /\ \A k \in 1 .. c : Keep(s, S)[k] = s[Nth(S, k)]
  BY <1>3
<1>5. Keep(s, S) \in Seq(A)
  <2>1. \A k \in 1 .. c : s[Nth(S, k)] \in A
    BY <1>0, <1>1, <1>2, Zenon
  <2> QED
    BY <1>2, <1>3, <2>1
<1>6. \A k \in DOMAIN Keep(s, S) : \E i \in S : Keep(s, S)[k] = s[i]
  BY <1>2, <1>4
<1>7. \A i \in S : \E k \in DOMAIN Keep(s, S) : Keep(s, S)[k] = s[i]
  BY <1>2, <1>4
<1>8. \A k, l \in DOMAIN Keep(s, S) :
        k # l => \E i, j \in S : i # j /\ Keep(s, S)[k] = s[i] /\ Keep(s, S)[l] = s[j]
  BY <1>2, <1>4
<1>9. \A i, j \in S :
        i # j => \E k, l \in DOMAIN Keep(s, S) :
                   k # l /\ Keep(s, S)[k] = s[i] /\ Keep(s, S)[l] = s[j]
  BY <1>2, <1>4
<1> QED
  BY <1>5, <1>6, <1>7, <1>8, <1>9, Zenon DEF Kept

-----------------------------------------------------------------------------
(* Headers.                                                                *)

\* A header line is no byte of a body, and the bytes differ.
LEMMA SymbolsDiffer ==
  NL # CR /\ NL # X /\ CR # X /\ \A h \in Header : IsHeader(h)
  BY DEF NL, CR, X, Header, IsHeader

Pairs(hs) == {hs[i] : i \in DOMAIN hs}

\* All names but Content-Length are there once.
NearlyOnce(hs) ==
  \A i, j \in DOMAIN hs : hs[i].name = hs[j].name /\ hs[i].name # LengthName => i = j

OtherPairs(hs) == {h \in Pairs(hs) : h.name # LengthName}

\* Whichever of several headers a language looks up, one that is there once is found.
LEMMA LookupOnce ==
  ASSUME NEW lang, NEW hs \in Seq(Header), Once(hs), NEW i \in DOMAIN hs
  PROVE  Lookup(lang, hs, hs[i].name) = hs[i].value
<1>1. Positions(hs, hs[i].name) = {i}
  BY Zenon DEF Once, Positions
<1>2. i \in Nat
  OBVIOUS
<1>3. Min({i}) = i /\ Max({i}) = i
  BY <1>2, MinMaxKnown
<1> QED
  BY <1>1, <1>3, Zenon DEF Lookup, FirstValue, LastValue

\* What a message means depends on which headers it has, and not on their order.
LEMMA SameMeaning ==
  ASSUME NEW lang, NEW hs \in Seq(Header), NEW gs \in Seq(Header),
         Once(hs), Once(gs), Pairs(hs) = Pairs(gs)
  PROVE  /\ \A name : Lookup(lang, hs, name) = Lookup(lang, gs, name)
         /\ \A b : Meaning(lang, hs, b) = Meaning(lang, gs, b)
<1>1. \A name : Lookup(lang, hs, name) = Lookup(lang, gs, name)
  <2> TAKE name
  <2>1. CASE \E i \in DOMAIN hs : hs[i].name = name
    <3>1. PICK i \in DOMAIN hs : hs[i].name = name
      BY <2>1
    <3>2. PICK j \in DOMAIN gs : gs[j] = hs[i]
      BY Zenon DEF Pairs
    <3>3. Lookup(lang, hs, hs[i].name) = hs[i].value /\ Lookup(lang, gs, gs[j].name) = gs[j].value
      BY LookupOnce, Zenon
    <3> QED
      BY <3>1, <3>2, <3>3, Zenon
  <2>2. CASE ~ \E i \in DOMAIN hs : hs[i].name = name
    <3>1. ~ \E j \in DOMAIN gs : gs[j].name = name
      BY <2>2, Zenon DEF Pairs
    <3>2. Positions(hs, name) = {} /\ Positions(gs, name) = {}
      BY <2>2, <3>1, Zenon DEF Positions
    <3> QED
      BY <3>2, Zenon DEF Lookup
  <2> QED
    BY <2>1, <2>2, Zenon
<1>2. {hs[i].name : i \in DOMAIN hs} = {gs[i].name : i \in DOMAIN gs}
  <2>1. (\A i \in DOMAIN hs : \E j \in DOMAIN gs : hs[i] = gs[j])
        /\ \A j \in DOMAIN gs : \E i \in DOMAIN hs : hs[i] = gs[j]
    BY Zenon DEF Pairs
  <2> QED
    BY <2>1
<1> QED
  BY ZenonT(30), <1>1, <1>2 DEF Meaning

\* The names of built headers, all but JavaScript's, are canonical.
LEMMA BuiltHeaders ==
  ASSUME NEW lang, NEW hs \in Seq(Header)
  PROVE  /\ Built(lang, hs) \in Seq(Header) /\ DOMAIN Built(lang, hs) = DOMAIN hs
         /\ lang # "js" => \A i \in DOMAIN hs :
              Built(lang, hs)[i] = [name |-> Canonical(hs[i].name), value |-> hs[i].value]
<1>1. \A i \in DOMAIN hs : hs[i] \in Header
  OBVIOUS
<1>2. \A h \in Header : Canonical(h.name) \in Names
  BY MessagesAssumption DEF Header, Canonical
<1>3. \A h \in Header : /\ [h EXCEPT !.name = Canonical(@)] = [name |-> Canonical(h.name), value |-> h.value]
                        /\ [h EXCEPT !.name = Canonical(@)] \in Header
  BY <1>2 DEF Header
<1>4. CASE lang = "js"
  BY <1>4 DEF Built
<1>5. CASE lang # "js"
  <2>1. Built(lang, hs) = [i \in DOMAIN hs |-> [hs[i] EXCEPT !.name = Canonical(@)]]
    BY <1>5 DEF Built
  <2>2. DOMAIN Built(lang, hs) = DOMAIN hs
        /\ \A i \in DOMAIN hs : Built(lang, hs)[i] = [hs[i] EXCEPT !.name = Canonical(@)]
    BY <2>1
  <2>3. \A i \in DOMAIN hs : [hs[i] EXCEPT !.name = Canonical(@)] \in Header
    BY <1>1, <1>3, Zenon
  <2>4. Built(lang, hs) \in Seq(Header)
    BY <2>1, <2>3
  <2> QED
    BY <1>1, <1>3, <2>2, <2>4, Zenon
<1> QED
  BY <1>4, <1>5

\* All headers but Content-Length are what Without(hs, LengthName) has.
LEMMA WithoutLength ==
  ASSUME NEW hs \in Seq(Header)
  PROVE  /\ Without(hs, LengthName) \in Seq(Header)
         /\ Pairs(Without(hs, LengthName)) = OtherPairs(hs)
         /\ Once(Without(hs, LengthName)) <=> NearlyOnce(hs)
<1> DEFINE S == {i \in DOMAIN hs : hs[i].name # LengthName}
           ws == Keep(hs, S)
<1>1. ws \in Seq(Header) /\ Kept(ws, hs, S)
  <2>1. S \in SUBSET DOMAIN hs
    OBVIOUS
  <2> HIDE DEF S
  <2> QED
    BY <2>1, KeepElements, Zenon
<1>2. Without(hs, LengthName) = ws
  BY DEF Without
<1> HIDE DEF ws
<1>3. Pairs(ws) = OtherPairs(hs)
  <2>1. \A h : h \in Pairs(ws) <=> h \in OtherPairs(hs)
    BY <1>1 DEF Pairs, OtherPairs, Kept
  <2> QED
    BY <2>1, Zenon
<1>4. ASSUME NearlyOnce(hs) PROVE Once(ws)
  <2> SUFFICES ASSUME NEW k \in DOMAIN ws, NEW l \in DOMAIN ws, k # l PROVE ws[k].name # ws[l].name
    BY Zenon DEF Once
  <2>1. PICK i, j \in S : i # j /\ ws[k] = hs[i] /\ ws[l] = hs[j]
    BY <1>1, Zenon DEF Kept
  <2> QED
    BY <1>4, <2>1, Zenon DEF NearlyOnce
<1>5. ASSUME Once(ws) PROVE NearlyOnce(hs)
  <2> SUFFICES ASSUME NEW i \in DOMAIN hs, NEW j \in DOMAIN hs, i # j, hs[i].name = hs[j].name,
                      hs[i].name # LengthName
               PROVE  FALSE
    BY Zenon DEF NearlyOnce
  <2>1. i \in S /\ j \in S
    BY Zenon
  <2>2. PICK k, l \in DOMAIN ws : k # l /\ ws[k] = hs[i] /\ ws[l] = hs[j]
    BY <1>1, <2>1, Zenon DEF Kept
  <2> QED
    BY <1>5, <2>2, Zenon DEF Once
<1> QED
  BY <1>1, <1>2, <1>3, <1>4, <1>5, Zenon

\* Collapsing repeated names changes no header whose name does not repeat.
LEMMA CollapseKeeps ==
  ASSUME NEW lang, NEW hs \in Seq(Header)
  PROVE  /\ Collapse(lang, hs) \in Seq(Header)
         /\ NearlyOnce(hs) => /\ NearlyOnce(Collapse(lang, hs))
                              /\ OtherPairs(Collapse(lang, hs)) = OtherPairs(hs)
         /\ Once(hs) => Collapse(lang, hs) = hs
<1>1. CASE lang \in {"go", "php"}
  <2>1. Collapse(lang, hs) = hs
    BY <1>1 DEF Collapse
  <2> QED
    BY <2>1
<1>2. CASE lang \notin {"go", "php"}
  <2> DEFINE ls == [i \in DOMAIN hs |-> [hs[i] EXCEPT !.value = LastValue(hs, hs[i].name)]]
             S == {i \in DOMAIN hs : i = Min(Positions(hs, hs[i].name))}
             cs == Keep(ls, S)
  <2>1. Collapse(lang, hs) = cs
    BY <1>2 DEF Collapse
  <2>2. \A i \in DOMAIN hs : hs[i] \in Header /\ i \in Nat
    OBVIOUS
  <2>3. \A i \in DOMAIN hs : Positions(hs, hs[i].name) \in SUBSET Nat /\ i \in Positions(hs, hs[i].name)
    BY <2>2 DEF Positions
  <2>4. \A i \in DOMAIN hs : LastValue(hs, hs[i].name) \in Nat \cup {Empty}
    <3> TAKE i \in DOMAIN hs
    <3>1. Positions(hs, hs[i].name) \in SUBSET (1 .. Len(hs)) /\ Len(hs) \in Nat
      BY DEF Positions
    <3>2. Max(Positions(hs, hs[i].name)) \in Positions(hs, hs[i].name)
      BY <2>3, <3>1, MaxIsGreatest, Zenon
    <3>3. Max(Positions(hs, hs[i].name)) \in DOMAIN hs
      BY <3>2 DEF Positions
    <3> QED
      BY <2>2, <3>3 DEF LastValue, Header
  <2>5. \A i \in DOMAIN hs : ls[i] = [name |-> hs[i].name, value |-> LastValue(hs, hs[i].name)]
                             /\ ls[i] \in Header
    BY <2>2, <2>4 DEF Header
  <2>6. ls \in Seq(Header) /\ DOMAIN ls = DOMAIN hs
    <3>1. DOMAIN ls = 1 .. Len(hs) /\ Len(hs) \in Nat /\ DOMAIN hs = 1 .. Len(hs)
      OBVIOUS
    <3>2. ls \in [1 .. Len(hs) -> Header]
      BY ZenonT(30), <2>5, <3>1
    <3> HIDE DEF ls
    <3> QED
      BY <3>1, <3>2, FunctionIsSeq, Zenon
  <2>7. \A i \in DOMAIN hs : Positions(hs, hs[i].name) = {i} => i \in S /\ ls[i] = hs[i]
    <3> SUFFICES ASSUME NEW i \in DOMAIN hs, Positions(hs, hs[i].name) = {i}
                 PROVE  i \in S /\ ls[i] = hs[i]
      OBVIOUS
    <3>1. Min({i}) = i /\ Max({i}) = i
      BY <2>2, MinMaxKnown
    <3>2. LastValue(hs, hs[i].name) = hs[i].value
      BY <3>1 DEF LastValue
    <3> QED
      BY ZenonT(30), <2>2, <2>5, <3>1, <3>2 DEF Header
  <2>8. cs \in Seq(Header) /\ Kept(cs, ls, S)
    <3>1. S \in SUBSET DOMAIN ls
      BY <2>6
    <3> HIDE DEF ls, S
    <3> QED
      BY <2>6, <3>1, KeepElements, Zenon
  <2>9. \A i \in S : i \in DOMAIN hs /\ ls[i].name = hs[i].name
    BY ZenonT(30), <2>5
  <2>10. NearlyOnce(hs) => \A i \in DOMAIN hs : hs[i].name # LengthName => i \in S /\ ls[i] = hs[i]
    <3>1. NearlyOnce(hs) =>
            \A i \in DOMAIN hs : hs[i].name # LengthName => Positions(hs, hs[i].name) = {i}
      BY DEF NearlyOnce, Positions
    <3> HIDE DEF ls, S
    <3> QED
      BY <2>7, <3>1, Zenon
  <2>11. Once(hs) => Collapse(lang, hs) = hs
    <3> SUFFICES ASSUME Once(hs) PROVE cs = hs
      BY <2>1
    <3>1. \A i \in DOMAIN hs : Positions(hs, hs[i].name) = {i}
      BY DEF Once, Positions
    <3>2. S = DOMAIN hs /\ \A i \in DOMAIN hs : ls[i] = hs[i]
      BY ZenonT(30), <2>7, <3>1
    <3>3. S = 1 .. Len(hs) /\ Len(hs) \in Nat /\ ls = hs
      BY <2>6, <3>2
    <3>4. Keep(hs, 1 .. Len(hs)) = [k \in 1 .. Len(hs) |-> hs[k]]
      BY <3>3, KeepAll
    <3>5. hs = [k \in 1 .. Len(hs) |-> hs[k]]
      OBVIOUS
    <3> HIDE DEF ls, S
    <3> QED
      BY <3>3, <3>4, <3>5
  <2> HIDE DEF cs, ls, S
  <2>12. NearlyOnce(hs) => NearlyOnce(cs)
    <3> SUFFICES ASSUME NearlyOnce(hs), NEW k \in DOMAIN cs, NEW l \in DOMAIN cs, k # l, cs[k].name = cs[l].name,
                        cs[k].name # LengthName
                 PROVE  FALSE
      BY Zenon DEF NearlyOnce
    <3>1. PICK i, j \in S : i # j /\ cs[k] = ls[i] /\ cs[l] = ls[j]
      BY <2>8, Zenon DEF Kept
    <3> QED
      BY <2>9, <3>1, Zenon DEF NearlyOnce
  <2>13. ASSUME NearlyOnce(hs) PROVE OtherPairs(cs) = OtherPairs(hs)
    <3>1. \A h \in OtherPairs(cs) : h \in OtherPairs(hs)
      <4> SUFFICES ASSUME NEW k \in DOMAIN cs, cs[k].name # LengthName PROVE cs[k] \in OtherPairs(hs)
        BY Zenon DEF OtherPairs, Pairs
      <4>1. PICK i \in S : cs[k] = ls[i]
        BY <2>8, Zenon DEF Kept
      <4>2. i \in DOMAIN hs /\ cs[k] = hs[i] /\ hs[i].name # LengthName
        BY <2>9, <2>10, <2>13, <4>1, Zenon
      <4> QED
        BY <4>2, Zenon DEF OtherPairs, Pairs
    <3>2. \A h \in OtherPairs(hs) : h \in OtherPairs(cs)
      BY <2>8, <2>10, <2>13 DEF OtherPairs, Pairs, Kept
    <3> QED
      BY <3>1, <3>2, Zenon
  <2> QED
    BY <2>1, <2>8, <2>11, <2>12, <2>13, Zenon
<1> QED
  BY <1>1, <1>2

LengthPair(n) == [name |-> LengthName, value |-> n]

\* Content-Length after all other headers.
LEMMA LengthLast ==
  ASSUME NEW hs \in Seq(Header), NEW n \in Nat
  PROVE  LET rs == Append(Without(hs, LengthName), LengthPair(n))
         IN  /\ rs \in Seq(Header) /\ (NearlyOnce(hs) => Once(rs))
             /\ Pairs(rs) = OtherPairs(hs) \cup {LengthPair(n)}
<1>0. LengthPair(n) \in Header /\ LengthPair(n).name = LengthName
  BY MessagesAssumption DEF LengthPair, Header
<1> DEFINE ws == Without(hs, LengthName)
           rs == Append(ws, LengthPair(n))
<1>2. ws \in Seq(Header) /\ Pairs(ws) = OtherPairs(hs) /\ (NearlyOnce(hs) => Once(ws))
  BY WithoutLength, Zenon
<1> HIDE DEF ws
<1>3. /\ rs \in Seq(Header) /\ Len(ws) \in Nat /\ DOMAIN ws = 1 .. Len(ws)
      /\ DOMAIN rs = 1 .. Len(ws) + 1 /\ rs[Len(ws) + 1] = LengthPair(n)
      /\ \A i \in 1 .. Len(ws) : rs[i] = ws[i]
  BY <1>0, <1>2
<1> HIDE DEF rs
<1>4. \A i \in DOMAIN ws : ws[i].name # LengthName
  BY <1>2, Zenon DEF Pairs, OtherPairs
<1>5. \A i \in DOMAIN rs : i = Len(ws) + 1 \/ i \in DOMAIN ws
  BY <1>3
<1>6. NearlyOnce(hs) => Once(rs)
  <2> SUFFICES ASSUME NearlyOnce(hs), NEW i \in DOMAIN rs, NEW j \in DOMAIN rs, rs[i].name = rs[j].name PROVE i = j
    BY Zenon DEF Once
  <2> QED
    BY <1>0, <1>2, <1>3, <1>4, <1>5 DEF Once
<1>7. Pairs(rs) = Pairs(ws) \cup {LengthPair(n)}
  <2>1. \A h \in Pairs(rs) : h \in Pairs(ws) \cup {LengthPair(n)}
    BY <1>3, <1>5 DEF Pairs
  <2>2. \A h \in Pairs(ws) \cup {LengthPair(n)} : h \in Pairs(rs)
    BY <1>3 DEF Pairs
  <2> QED
    BY <2>1, <2>2, Zenon
<1> QED
  BY <1>2, <1>3, <1>6, <1>7, Zenon DEF rs, ws

\* However a language sets Content-Length, it is there once, and the other headers are kept.
LEMMA SetLength ==
  ASSUME NEW lang, NEW hs \in Seq(Header), NEW n \in Nat
  PROVE  /\ SetHeader(lang, hs, LengthName, n) \in Seq(Header)
         /\ NearlyOnce(hs) => Once(SetHeader(lang, hs, LengthName, n))
         /\ Pairs(SetHeader(lang, hs, LengthName, n)) = OtherPairs(hs) \cup {LengthPair(n)}
<1>0. LengthPair(n) \in Header /\ LengthPair(n).name = LengthName
  BY MessagesAssumption DEF LengthPair, Header
<1>1. CASE lang = "go" \/ Positions(hs, LengthName) = {}
  <2>1. SetHeader(lang, hs, LengthName, n) = Append(Without(hs, LengthName), LengthPair(n))
    BY <1>1 DEF SetHeader, LengthPair
  <2> QED
    BY <2>1, LengthLast
<1>2. CASE ~ (lang = "go" \/ Positions(hs, LengthName) = {})
  <2> DEFINE first == Min(Positions(hs, LengthName))
             ls == [i \in DOMAIN hs |-> IF hs[i].name = LengthName THEN LengthPair(n) ELSE hs[i]]
             S == {i \in DOMAIN hs : hs[i].name = LengthName => i = first}
             rs == Keep(ls, S)
  <2>1. SetHeader(lang, hs, LengthName, n) = rs
    BY <1>2 DEF SetHeader, SetInPlace, LengthPair
  <2>2. first \in DOMAIN hs /\ hs[first].name = LengthName
    <3>1. Positions(hs, LengthName) \in SUBSET Nat /\ Positions(hs, LengthName) # {}
      BY <1>2 DEF Positions
    <3>2. first \in Positions(hs, LengthName)
      BY <3>1, MinIsLeast, Zenon
    <3> HIDE DEF first
    <3> QED
      BY <3>2 DEF Positions
  <2> HIDE DEF first
  <2>3. \A i \in DOMAIN hs : /\ hs[i] \in Header /\ ls[i] \in Header /\ ls[i].name = hs[i].name
                             /\ hs[i].name = LengthName => ls[i] = LengthPair(n)
                             /\ hs[i].name # LengthName => ls[i] = hs[i]
    BY <1>0
  <2>4. ls \in Seq(Header) /\ DOMAIN ls = DOMAIN hs
    <3>1. DOMAIN ls = 1 .. Len(hs) /\ Len(hs) \in Nat /\ DOMAIN hs = 1 .. Len(hs)
      OBVIOUS
    <3>2. ls \in [1 .. Len(hs) -> Header]
      BY <2>3, <3>1
    <3> HIDE DEF ls
    <3> QED
      BY <3>1, <3>2, FunctionIsSeq, Zenon
  <2>5. rs \in Seq(Header) /\ Kept(rs, ls, S)
    <3>1. S \in SUBSET DOMAIN ls
      BY <2>4
    <3> HIDE DEF ls, S
    <3> QED
      BY <2>4, <3>1, KeepElements, Zenon
  <2>6. /\ first \in S
        /\ \A i \in S : i \in DOMAIN hs /\ (hs[i].name = LengthName => i = first)
        /\ \A i \in DOMAIN hs : hs[i].name # LengthName => i \in S
    BY <2>2, Zenon
  <2> HIDE DEF rs, ls, S
  <2>7. NearlyOnce(hs) => Once(rs)
    <3> SUFFICES ASSUME NearlyOnce(hs), NEW k \in DOMAIN rs, NEW l \in DOMAIN rs, k # l, rs[k].name = rs[l].name
                 PROVE  FALSE
      BY Zenon DEF Once
    <3>1. PICK i, j \in S : i # j /\ rs[k] = ls[i] /\ rs[l] = ls[j]
      BY <2>5, Zenon DEF Kept
    <3>2. hs[i].name = hs[j].name /\ i \in DOMAIN hs /\ j \in DOMAIN hs
      BY <2>3, <2>6, <3>1, Zenon
    <3> QED
      BY <2>6, <3>1, <3>2, Zenon DEF NearlyOnce
  <2>8. Pairs(rs) = OtherPairs(hs) \cup {LengthPair(n)}
    <3>1. ASSUME NEW k \in DOMAIN rs PROVE rs[k] \in OtherPairs(hs) \cup {LengthPair(n)}
      <4>1. PICK i \in S : rs[k] = ls[i]
        BY <2>5, Zenon DEF Kept
      <4> QED
        BY <2>3, <2>6, <4>1, Zenon DEF OtherPairs, Pairs
    <3>2. ASSUME NEW i \in DOMAIN hs, hs[i].name # LengthName PROVE hs[i] \in Pairs(rs)
      <4>1. PICK k \in DOMAIN rs : rs[k] = ls[i]
        BY <2>5, <2>6, <3>2, Zenon DEF Kept
      <4> QED
        BY <2>3, <3>2, <4>1, Zenon DEF Pairs
    <3>3. LengthPair(n) \in Pairs(rs)
      <4>1. PICK k \in DOMAIN rs : rs[k] = ls[first]
        BY <2>5, <2>6, Zenon DEF Kept
      <4> QED
        BY <2>2, <2>3, <4>1, Zenon DEF Pairs
    <3>4. \A h \in Pairs(rs) : h \in OtherPairs(hs) \cup {LengthPair(n)}
      BY <3>1, Zenon DEF Pairs
    <3>5. \A h \in OtherPairs(hs) \cup {LengthPair(n)} : h \in Pairs(rs)
      BY <3>2, <3>3, Zenon DEF OtherPairs, Pairs
    <3> QED
      BY <3>4, <3>5, Zenon
  <2> QED
    BY <2>1, <2>5, <2>7, <2>8, Zenon
<1> QED
  BY <1>1, <1>2

LengthPairs(m) == IF LengthOf(m) = Absent THEN {} ELSE {LengthPair(LengthOf(m))}

\* The headers of a message, and its body.
LEMMA MessageParts ==
  ASSUME NEW m \in Messages
  PROVE  /\ m.headers \in Seq(Header) /\ Given(m) \in Seq(Header)
         /\ m.body \in Seq({NL, CR, X}) /\ Len(m.body) \in Nat
         /\ m.how \in {"content", "raw"}
<1>1. m.headers \in Seq(Header) /\ m.body \in Seq({NL, CR, X}) /\ m.how \in {"content", "raw"}
  BY MessagesAssumption
<1>2. Len(m.body) \in Nat
  BY <1>1
<1> QED
  BY <1>1, <1>2, BuiltHeaders, Zenon DEF Given

\* What is written for any message starts with headers.
LEMMA AssembledTyped ==
  ASSUME NEW lang, NEW m \in Messages
  PROVE  Assembled(lang, m) \in Seq(Header)
<1> DEFINE bs == Built(lang, m.headers)
           cs == Collapse(lang, bs)
<1>1. bs \in Seq(Header)
  BY MessageParts, BuiltHeaders, Zenon
<1> HIDE DEF bs
<1>2. cs \in Seq(Header)
  BY <1>1, CollapseKeeps, Zenon
<1> HIDE DEF cs
<1>3. SetHeader(lang, cs, LengthName, Len(m.body)) \in Seq(Header)
  BY <1>2, MessageParts, SetLength, Zenon
<1> QED
  BY <1>2, <1>3, Zenon DEF Assembled, EncodeTo, cs, bs

\* Content-Length is in the headers that are given, or LengthOf says so.
LEMMA GivenLength ==
  ASSUME NEW m \in Messages, m.how = "raw", Once(Given(m))
  PROVE  Pairs(Given(m)) = OtherPairs(Given(m)) \cup LengthPairs(m)
<1> DEFINE gs == Given(m)
<1>1. gs \in Seq(Header) /\ LengthOf(m) = Lookup("go", gs, LengthName)
  BY MessageParts DEF LengthOf
<1>2. \A i \in DOMAIN gs : gs[i] \in Header /\ gs[i] = [name |-> gs[i].name, value |-> gs[i].value]
  <2>1. \A i \in DOMAIN gs : gs[i] \in Header
    BY <1>1
  <2>2. \A h \in Header : h = [name |-> h.name, value |-> h.value]
    BY DEF Header
  <2> QED
    BY <2>1, <2>2, Zenon
<1> HIDE DEF gs
<1>3. CASE Positions(gs, LengthName) = {}
  <2>1. LengthOf(m) = Absent
    BY <1>1, <1>3 DEF Lookup
  <2>2. LengthPairs(m) = {}
    BY <2>1 DEF LengthPairs
  <2>3. \A h \in Pairs(gs) : h.name # LengthName
    BY <1>3, Zenon DEF Pairs, Positions
  <2> QED
    BY <2>2, <2>3, Zenon DEF OtherPairs, gs
<1>4. CASE Positions(gs, LengthName) # {}
  <2>1. PICK i \in DOMAIN gs : gs[i].name = LengthName
    BY <1>4, Zenon DEF Positions
  <2>2. LengthOf(m) = gs[i].value
    BY <1>1, <2>1, LookupOnce, Zenon DEF gs
  <2>3. LengthOf(m) # Absent
    BY <1>2, <2>2 DEF Header, Absent, Empty
  <2>4. LengthPairs(m) = {gs[i]}
    BY <1>2, <2>1, <2>2, <2>3, Zenon DEF LengthPairs, LengthPair
  <2>5. \A h \in Pairs(gs) : h.name = LengthName => h = gs[i]
    BY <2>1, Zenon DEF Pairs, Once, gs
  <2>6. gs[i] \in Pairs(gs)
    BY <2>1, Zenon DEF Pairs
  <2> QED
    BY <2>4, <2>5, <2>6, Zenon DEF OtherPairs, gs
<1> QED
  BY <1>3, <1>4

\* A reader changes no name that is canonical.
LEMMA BuiltAgain ==
  ASSUME NEW hs \in Seq(Header), \A i \in DOMAIN hs : Canonical(hs[i].name) = hs[i].name
  PROVE  Built("go", hs) = hs
<1>1. \A i \in DOMAIN hs : hs[i] \in Header
  OBVIOUS
<1>2. \A h \in Header : h = [name |-> h.name, value |-> h.value]
  BY DEF Header
<1>3. /\ Built("go", hs) \in Seq(Header) /\ DOMAIN Built("go", hs) = DOMAIN hs
      /\ \A i \in DOMAIN hs : Built("go", hs)[i] = [name |-> Canonical(hs[i].name), value |-> hs[i].value]
  BY BuiltHeaders
<1>4. \A i \in DOMAIN hs : Built("go", hs)[i] = hs[i]
  BY <1>1, <1>2, <1>3, Zenon
<1>5. Len(hs) \in Nat /\ DOMAIN hs = 1 .. Len(hs) /\ Len(Built("go", hs)) \in Nat
      /\ DOMAIN Built("go", hs) = 1 .. Len(Built("go", hs))
  BY <1>3
<1> HIDE DEF Built
<1> QED
  BY <1>3, <1>4, <1>5

\* The headers of content: those that are given, and its length.
LEMMA ContentHeaders ==
  ASSUME NEW m \in Messages, Unambiguous(m), m.how = "content"
  PROVE  LET hs == Built("go", Assembled(from, m))
         IN  Once(hs) /\ Pairs(hs) = OtherPairs(Given(m)) \cup {LengthPair(Len(m.body))}
<1> DEFINE gs == Given(m)
           bs == Built(from, m.headers)
           cs == Collapse(from, bs)
           rs == SetHeader(from, cs, LengthName, Len(m.body))
<1>1. m.headers \in Seq(Header) /\ gs \in Seq(Header) /\ Len(m.body) \in Nat
  BY MessageParts, Zenon
<1>2. NearlyOnce(gs)
  <2>1. Once(Without(gs, LengthName))
    BY Zenon DEF Unambiguous, Framed, Others
  <2> HIDE DEF gs
  <2> QED
    BY <1>1, <2>1, WithoutLength, Zenon
<1>3. \A i \in DOMAIN gs : Canonical(gs[i].name) = gs[i].name
  <2>1. \A name : Canonical(Canonical(name)) = Canonical(name)
    BY DEF Canonical, LengthName
  <2>2. /\ DOMAIN gs = DOMAIN m.headers
        /\ \A i \in DOMAIN m.headers :
             gs[i] = [name |-> Canonical(m.headers[i].name), value |-> m.headers[i].value]
    BY <1>1, BuiltHeaders DEF Given
  <2> HIDE DEF gs
  <2>3. \A i \in DOMAIN m.headers : gs[i].name = Canonical(m.headers[i].name)
    <3> TAKE i \in DOMAIN m.headers
    <3>1. gs[i] = [name |-> Canonical(m.headers[i].name), value |-> m.headers[i].value]
      BY <2>2, Zenon
    <3> QED
      BY <3>1
  <2> QED
    BY <2>1, <2>2, <2>3
<1>4. bs = gs
  <2>1. CASE from = "js"
    <3>1. \A i \in DOMAIN m.headers : Canonical(m.headers[i].name) = m.headers[i].name
      BY <2>1 DEF Unambiguous, SpelledTwice, Canonical
    <3>2. Built("go", m.headers) = m.headers
      BY <1>1, <3>1, BuiltAgain, Zenon
    <3>3. Built("js", m.headers) = m.headers
      BY DEF Built
    <3> QED
      BY <2>1, <3>2, <3>3, Zenon DEF Given
  <2>2. CASE from # "js"
    BY <2>2 DEF Given, Built
  <2> QED
    BY <2>1, <2>2
<1> HIDE DEF bs, gs
<1>5. cs \in Seq(Header) /\ NearlyOnce(cs) /\ OtherPairs(cs) = OtherPairs(gs)
  BY <1>1, <1>2, <1>4, CollapseKeeps, Zenon
<1> HIDE DEF cs
<1>6. rs \in Seq(Header) /\ Once(rs) /\ Pairs(rs) = OtherPairs(gs) \cup {LengthPair(Len(m.body))}
  <2>1. rs \in Seq(Header) /\ Once(rs) /\ Pairs(rs) = OtherPairs(cs) \cup {LengthPair(Len(m.body))}
    BY <1>1, <1>5, SetLength
  <2> QED
    BY <1>5, <2>1, Zenon
<1>7. Assembled(from, m) = rs
  BY DEF Assembled, EncodeTo, cs, bs
<1> HIDE DEF rs
<1>8. \A h \in Pairs(rs) : Canonical(h.name) = h.name
  <2>1. \A h \in OtherPairs(gs) : Canonical(h.name) = h.name
    BY <1>3, Zenon DEF OtherPairs, Pairs
  <2>2. Canonical(LengthPair(Len(m.body)).name) = LengthPair(Len(m.body)).name
    BY DEF LengthPair, Canonical, LengthName
  <2> QED
    BY <1>6, <2>1, <2>2, Zenon
<1>9. \A i \in DOMAIN rs : Canonical(rs[i].name) = rs[i].name
  BY <1>8, Zenon DEF Pairs
<1>10. Built("go", rs) = rs
  BY <1>6, <1>9, BuiltAgain, Zenon
<1> QED
  BY <1>6, <1>7, <1>10, Zenon DEF gs

\* The headers of a raw message are those that are given.
LEMMA RawHeaders ==
  ASSUME NEW m \in Messages, Unambiguous(m), m.how = "raw"
  PROVE  /\ Built("go", Assembled(from, m)) = Given(m) /\ Once(Given(m))
         /\ Len(Assembled(from, m)) = Len(m.headers)
<1> DEFINE gs == Given(m)
           bs == Built(from, m.headers)
<1>1. m.headers \in Seq(Header) /\ gs \in Seq(Header) /\ Len(m.body) \in Nat
  BY MessageParts, Zenon
<1>2. Once(gs)
  <2>1. CASE LengthOf(m) = Absent
    <3>1. Once(Without(gs, LengthName))
      BY Zenon DEF Unambiguous, Framed, Others
    <3>2. NearlyOnce(gs)
      <4> HIDE DEF gs
      <4> QED
        BY <1>1, <3>1, WithoutLength, Zenon
    <3>3. Positions(gs, LengthName) = {}
      <4> SUFFICES ASSUME Positions(gs, LengthName) # {} PROVE FALSE
        OBVIOUS
      <4>1. Lookup("go", gs, LengthName) = gs[Min(Positions(gs, LengthName))].value
        BY DEF Lookup, FirstValue
      <4>2. Positions(gs, LengthName) \in SUBSET Nat
        <5> HIDE DEF gs
        <5> QED
          BY <1>1 DEF Positions
      <4>3. Min(Positions(gs, LengthName)) \in Positions(gs, LengthName)
        BY <4>2, MinIsLeast, Zenon
      <4>4. Min(Positions(gs, LengthName)) \in DOMAIN gs
        BY <4>3, Zenon DEF Positions
      <4>5. gs[Min(Positions(gs, LengthName))] \in Header
        <5> HIDE DEF gs
        <5> QED
          BY <1>1, <4>4
      <4>6. gs[Min(Positions(gs, LengthName))].value # Absent
        BY <4>5 DEF Header, Absent, Empty
      <4> QED
        BY <2>1, <4>1, <4>6 DEF LengthOf
    <3>4. \A i \in DOMAIN gs : gs[i].name # LengthName
      BY <3>3, Zenon DEF Positions
    <3> QED
      BY <3>2, <3>4, Zenon DEF NearlyOnce, Once
  <2>2. CASE LengthOf(m) # Absent
    BY <2>2 DEF Unambiguous, Framed
  <2> QED
    BY <2>1, <2>2
<1>3. bs \in Seq(Header) /\ DOMAIN bs = DOMAIN m.headers /\ DOMAIN gs = DOMAIN m.headers
  BY <1>1, BuiltHeaders, Zenon DEF Given
<1>4. \A i \in DOMAIN m.headers : gs[i] = [name |-> Canonical(m.headers[i].name), value |-> m.headers[i].value]
  BY <1>1, BuiltHeaders DEF Given
<1>5. \A i \in DOMAIN m.headers : bs[i].value = m.headers[i].value
                                 /\ Canonical(bs[i].name) = Canonical(m.headers[i].name)
  <2>1. CASE from = "js"
    BY <2>1 DEF Built
  <2>2. CASE from # "js"
    <3>1. \A name : Canonical(Canonical(name)) = Canonical(name)
      BY DEF Canonical, LengthName
    <3>2. \A i \in DOMAIN m.headers : bs[i] = [name |-> Canonical(m.headers[i].name), value |-> m.headers[i].value]
      BY <1>1, <2>2, BuiltHeaders
    <3> HIDE DEF bs
    <3>3. \A i \in DOMAIN m.headers : bs[i].name = Canonical(m.headers[i].name)
                                     /\ bs[i].value = m.headers[i].value
      <4> TAKE i \in DOMAIN m.headers
      <4>1. bs[i] = [name |-> Canonical(m.headers[i].name), value |-> m.headers[i].value]
        BY <3>2, Zenon
      <4> QED
        BY <4>1
    <3> QED
      BY <3>1, <3>3, Zenon
  <2> QED
    BY <2>1, <2>2
<1> HIDE DEF bs, gs
<1>6. Once(bs)
  <2> SUFFICES ASSUME NEW i \in DOMAIN m.headers, NEW j \in DOMAIN m.headers, bs[i].name = bs[j].name
               PROVE  i = j
    BY <1>3, Zenon DEF Once
  <2>1. gs[i].name = Canonical(m.headers[i].name) /\ gs[j].name = Canonical(m.headers[j].name)
    <3>1. /\ gs[i] = [name |-> Canonical(m.headers[i].name), value |-> m.headers[i].value]
          /\ gs[j] = [name |-> Canonical(m.headers[j].name), value |-> m.headers[j].value]
      BY <1>4, Zenon
    <3> QED
      BY <3>1
  <2>2. gs[i].name = gs[j].name
    BY <1>5, <2>1, Zenon
  <2> QED
    BY <1>2, <1>3, <2>2, Zenon DEF Once
<1>7. Assembled(from, m) = bs
  BY <1>3, <1>6, CollapseKeeps, Zenon DEF Assembled, bs
<1>8. Built("go", bs) = gs
  <2> DEFINE rs == Built("go", bs)
  <2>1. rs \in Seq(Header) /\ DOMAIN rs = DOMAIN m.headers
        /\ \A i \in DOMAIN m.headers : rs[i] = [name |-> Canonical(bs[i].name), value |-> bs[i].value]
    BY <1>3, BuiltHeaders
  <2> HIDE DEF rs
  <2>2. \A i \in DOMAIN m.headers : rs[i] = gs[i]
    BY ZenonT(30), <1>4, <1>5, <2>1
  <2>3. DOMAIN m.headers = 1 .. Len(m.headers) /\ Len(m.headers) \in Nat /\ Len(rs) = Len(m.headers)
        /\ Len(gs) = Len(m.headers)
    BY <1>1, <1>3, <2>1
  <2>4. rs = gs
    BY <1>1, <2>1, <2>2, <2>3
  <2> QED
    BY <2>4 DEF rs
<1>9. Len(bs) = Len(m.headers)
  BY <1>1, <1>3
<1> QED
  BY <1>2, <1>7, <1>8, <1>9, Zenon DEF gs

\* A message without a header line, which only a reader of a stream can read.
Headless(m) == m.headers = <<>> /\ LengthOf(m) = Absent

\* What is written of a framed message, and what a reader finds in the headers of it.
LEMMA FramedHeaders ==
  ASSUME NEW m \in Messages, Unambiguous(m)
  PROVE  LET hs == Built("go", Assembled(from, m))
         IN  /\ hs \in Seq(Header) /\ Once(hs)
             /\ Pairs(hs) = OtherPairs(Given(m)) \cup LengthPairs(m)
             /\ LengthOf(m) \in {Absent, Len(m.body)}
             /\ IF Headless(m) THEN Len(Assembled(from, m)) = 0 ELSE Len(Assembled(from, m)) > 0
<1> DEFINE out == Assembled(from, m)
           hs == Built("go", out)
<1>0. /\ Len(m.body) \in Nat /\ Len(m.body) # Absent
      /\ hs \in Seq(Header) /\ DOMAIN hs = DOMAIN out /\ DOMAIN out = 1 .. Len(out) /\ Len(out) \in Nat
  <2>1. out \in Seq(Header)
    BY AssembledTyped, Zenon
  <2>2. Len(m.body) \in Nat
    BY MessageParts, Zenon
  <2>3. Len(m.body) # Absent
    BY <2>2 DEF Absent
  <2> HIDE DEF out
  <2>4. DOMAIN out = 1 .. Len(out) /\ Len(out) \in Nat
    BY <2>1
  <2> QED
    BY <2>1, <2>2, <2>3, <2>4, BuiltHeaders, Zenon
<1>1. CASE m.how = "content"
  <2>1. LengthOf(m) = Len(m.body)
    BY <1>1 DEF LengthOf
  <2>2. LengthPairs(m) = {LengthPair(Len(m.body))}
    BY <1>0, <2>1, Zenon DEF LengthPairs
  <2>3. Once(hs) /\ Pairs(hs) = OtherPairs(Given(m)) \cup {LengthPair(Len(m.body))}
    BY <1>1, ContentHeaders, Zenon
  <2> HIDE DEF hs, out
  <2>4. PICK i : i \in DOMAIN out
    BY <1>0, <2>3, Zenon DEF Pairs
  <2>5. Len(out) > 0
    <3>1. i \in 1 .. Len(out) /\ Len(out) \in Nat
      BY <1>0, <2>4, Zenon
    <3> QED
      BY <3>1
  <2>6. ~ Headless(m)
    BY <1>0, <2>1, Zenon DEF Headless
  <2> QED
    BY <1>0, <2>1, <2>2, <2>3, <2>5, <2>6, Zenon DEF hs, out
<1>2. CASE m.how = "raw"
  <2>1. hs = Given(m) /\ Once(Given(m)) /\ Len(out) = Len(m.headers)
    BY <1>2, RawHeaders, Zenon
  <2>2. Pairs(Given(m)) = OtherPairs(Given(m)) \cup LengthPairs(m)
    BY <1>2, <2>1, GivenLength, Zenon
  <2>3. LengthOf(m) \in {Absent, Len(m.body)}
    BY <1>2 DEF Unambiguous, Framed
  <2>4. IF Headless(m) THEN Len(out) = 0 ELSE Len(out) > 0
    <3>1. m.headers \in Seq(Header)
      BY MessageParts, Zenon
    <3>2. CASE m.headers = <<>>
      <4>1. Len(out) = 0
        BY <2>1, <3>2
      <4>2. DOMAIN hs = {}
        BY <1>0, <4>1
      <4>3. LengthPairs(m) = {}
        <5> HIDE DEF hs
        <5> QED
          BY <2>1, <2>2, <4>2, Zenon DEF Pairs
      <4>4. LengthOf(m) = Absent
        BY <4>3, Zenon DEF LengthPairs
      <4> QED
        BY <3>2, <4>1, <4>4, Zenon DEF Headless
    <3>3. CASE m.headers # <<>>
      <4>1. Len(m.headers) > 0
        BY <3>1, <3>3
      <4> QED
        BY <2>1, <3>3, <4>1, Zenon DEF Headless
    <3> QED
      BY <3>2, <3>3
  <2> HIDE DEF hs, out
  <2> QED
    BY <1>0, <2>1, <2>2, <2>3, <2>4, Zenon DEF hs, out
<1> QED
  BY <1>1, <1>2, MessageParts

\* The headers of Expected.
ExpectedHeaders(m) ==
  Others(Given(m)) \o (IF LengthOf(m) = Absent THEN <<>>
                       ELSE <<[name |-> LengthName, value |-> LengthOf(m)]>>)

\* They are the headers of the message that is written, if not in their order.
LEMMA FramedMeaning ==
  ASSUME NEW m \in Messages, Unambiguous(m), NEW lang
  PROVE  LET hs == Built("go", Assembled(from, m))
         IN  /\ Lookup(lang, hs, LengthName) = LengthOf(m)
             /\ \A b : Meaning(lang, hs, b) = Meaning(lang, ExpectedHeaders(m), b)
<1> DEFINE hs == Built("go", Assembled(from, m))
           es == ExpectedHeaders(m)
           gs == Given(m)
<1>1. /\ hs \in Seq(Header) /\ Once(hs) /\ Pairs(hs) = OtherPairs(gs) \cup LengthPairs(m)
      /\ LengthOf(m) \in {Absent, Len(m.body)}
  BY FramedHeaders, Zenon
<1>2. gs \in Seq(Header) /\ Len(m.body) \in Nat
  BY MessageParts, Zenon
<1>3. Once(Without(gs, LengthName))
  BY Zenon DEF Unambiguous, Framed, Others
<1> HIDE DEF gs, hs
<1>4. Without(gs, LengthName) \in Seq(Header) /\ Pairs(Without(gs, LengthName)) = OtherPairs(gs) /\ NearlyOnce(gs)
  BY <1>2, <1>3, WithoutLength, Zenon
<1>5. es \in Seq(Header) /\ Once(es) /\ Pairs(es) = OtherPairs(gs) \cup LengthPairs(m)
  <2>1. CASE LengthOf(m) = Absent
    <3>1. es = Without(gs, LengthName) \o <<>>
      BY <2>1 DEF ExpectedHeaders, Others, gs
    <3>2. es = Without(gs, LengthName)
      BY <1>4, <3>1
    <3>3. LengthPairs(m) = {}
      BY <2>1 DEF LengthPairs
    <3> QED
      BY <1>3, <1>4, <3>2, <3>3, Zenon
  <2>2. CASE LengthOf(m) # Absent
    <3>1. LengthOf(m) \in Nat /\ LengthPairs(m) = {LengthPair(LengthOf(m))}
      BY <1>1, <1>2, <2>2, Zenon DEF LengthPairs
    <3>2. es = Without(gs, LengthName) \o <<LengthPair(LengthOf(m))>>
      BY <2>2 DEF ExpectedHeaders, Others, gs, LengthPair
    <3>3. LengthPair(LengthOf(m)) \in Header
      BY <3>1, MessagesAssumption DEF LengthPair, Header
    <3>4. es = Append(Without(gs, LengthName), LengthPair(LengthOf(m)))
      BY <1>4, <3>2, <3>3
    <3> HIDE DEF es
    <3> QED
      BY <1>2, <1>4, <3>1, <3>4, LengthLast
  <2> QED
    BY <2>1, <2>2
<1> HIDE DEF es
<1>6. \A b : Meaning(lang, hs, b) = Meaning(lang, es, b)
  BY <1>1, <1>5, SameMeaning, Zenon
<1>7. Lookup(lang, hs, LengthName) = LengthOf(m)
  <2>1. CASE LengthOf(m) = Absent
    <3>1. \A h \in Pairs(hs) : h.name # LengthName
      BY <1>1, <2>1 DEF OtherPairs, LengthPairs
    <3>2. Positions(hs, LengthName) = {}
      BY <3>1, Zenon DEF Positions, Pairs
    <3> QED
      BY <2>1, <3>2, Zenon DEF Lookup
  <2>2. CASE LengthOf(m) # Absent
    <3>1. LengthPair(LengthOf(m)) \in Pairs(hs)
      BY <1>1, <2>2, Zenon DEF LengthPairs
    <3>2. PICK i \in DOMAIN hs : hs[i] = LengthPair(LengthOf(m))
      BY <3>1, Zenon DEF Pairs
    <3>3. LengthPair(LengthOf(m)).name = LengthName /\ LengthPair(LengthOf(m)).value = LengthOf(m)
      BY DEF LengthPair
    <3>4. Lookup(lang, hs, hs[i].name) = hs[i].value
      BY <1>1, LookupOnce, Zenon
    <3> QED
      BY <3>2, <3>3, <3>4, Zenon
  <2> QED
    BY <2>1, <2>2
<1> QED
  BY <1>6, <1>7, Zenon DEF hs, es

-----------------------------------------------------------------------------
(* The text of a message.                                                  *)

\* One sequence after another.
LEMMA Concat ==
  ASSUME NEW A, NEW s \in Seq(A), NEW t \in Seq(A)
  PROVE  /\ s \o t \in Seq(A) /\ Len(s) \in Nat /\ Len(t) \in Nat /\ Len(s \o t) = Len(s) + Len(t)
         /\ \A q \in 1 .. Len(s) : (s \o t)[q] = s[q]
         /\ \A q \in 1 .. Len(t) : (s \o t)[Len(s) + q] = t[q]
  OBVIOUS

\* A part of a sequence.
IsSlice(t, s, i, n) ==
  Len(t) = n /\ DOMAIN t = 1 .. n /\ \A q \in 1 .. n : t[q] = s[i + q]

\* SubSeq(s, i + 1, i + n) is the part of s that follows its first i elements.
LEMMA Slice ==
  ASSUME NEW A, NEW s \in Seq(A), NEW i \in Nat, NEW n \in Nat, i + n <= Len(s)
  PROVE  SubSeq(s, i + 1, i + n) \in Seq(A) /\ IsSlice(SubSeq(s, i + 1, i + n), s, i, n)
  BY DEF IsSlice

\* Sequences of one length that agree everywhere are equal.
LEMMA SameSeq ==
  ASSUME NEW A, NEW s \in Seq(A), NEW t \in Seq(A), Len(s) = Len(t), \A q \in 1 .. Len(s) : s[q] = t[q]
  PROVE  s = t
  OBVIOUS

\* Headers and a body, each with a newline after it.
IsText(text, hs, bs, h, b) ==
  /\ h = Len(hs) /\ b = Len(bs) /\ h \in Nat /\ b \in Nat
  /\ Len(text) = h + b + 2
  /\ \A q \in 1 .. h : text[q] = hs[q]
  /\ \A q \in 1 .. b : text[h + 1 + q] = bs[q]
  /\ text[h + 1] = NL /\ text[h + b + 2] = NL

\* A text of headers, blank line, body and newline, as every encoder writes it.
LEMMA TextShape ==
  ASSUME NEW A, NEW hs \in Seq(A), NEW bs \in Seq(A), NL \in A
  PROVE  LET text == hs \o <<NL>> \o bs \o <<NL>>
         IN  text \in Seq(A) /\ IsText(text, hs, bs, Len(hs), Len(bs))
<1>0. PICK x \in A : x = NL
  OBVIOUS
<1>0a. PICK h \in Nat, b \in Nat : h = Len(hs) /\ b = Len(bs)
  OBVIOUS
<1> DEFINE one == hs \o <<x>>
           two == one \o bs
           text == two \o <<x>>
<1>1. /\ one \in Seq(A) /\ Len(one) = h + 1 /\ one[h + 1] = x
      /\ \A q \in 1 .. h : one[q] = hs[q]
  BY <1>0a
<1> HIDE DEF one
<1>2. /\ two \in Seq(A) /\ Len(two) = h + 1 + b
      /\ \A q \in 1 .. h + 1 : two[q] = one[q]
      /\ \A q \in 1 .. b : two[h + 1 + q] = bs[q]
  <2>1. two \in Seq(A) /\ Len(two) = Len(one) + Len(bs)
    BY ZenonT(30), <1>1, Concat
  <2>2. \A q \in 1 .. Len(one) : two[q] = one[q]
    BY <1>1, Concat
  <2>3. \A q \in 1 .. Len(bs) : two[Len(one) + q] = bs[q]
    BY <1>1, Concat
  <2> HIDE DEF two
  <2> QED
    BY <1>0a, <1>1, <2>1, <2>2, <2>3
<1> HIDE DEF two
<1>3. /\ text \in Seq(A) /\ Len(text) = h + b + 2 /\ text[h + b + 2] = x
      /\ \A q \in 1 .. h + 1 + b : text[q] = two[q]
  BY <1>2
<1> HIDE DEF text
<1>4. text[h + 1] = x
  BY <1>1, <1>2, <1>3
<1>5. \A q \in 1 .. h : text[q] = hs[q]
  BY <1>1, <1>2, <1>3
<1>6. \A q \in 1 .. b : text[h + 1 + q] = bs[q]
  <2> SUFFICES ASSUME NEW q \in 1 .. b PROVE text[h + 1 + q] = bs[q]
    OBVIOUS
  <2>1. h + 1 + q \in 1 .. h + 1 + b
    OBVIOUS
  <2> QED
    BY <1>2, <1>3, <2>1
<1> QED
  BY <1>0, <1>0a, <1>3, <1>4, <1>5, <1>6, Zenon DEF text, two, one, IsText

Symbols == Header \cup {NL, CR, X}

\* Where the headers, the body and the newlines are in it.
LEMMA TextParts ==
  ASSUME NEW lang, NEW m \in Messages
  PROVE  /\ Blob(lang, m) \in Seq(Symbols)
         /\ IsText(Blob(lang, m), Assembled(lang, m), m.body, Len(Assembled(lang, m)), Len(m.body))
         /\ \A q \in 1 .. Len(Assembled(lang, m)) : Assembled(lang, m)[q] \in Header
         /\ \A q \in 1 .. Len(m.body) : m.body[q] \in {NL, CR, X}
<1> DEFINE hs == Assembled(lang, m)
<1>1. hs \in Seq(Header) /\ m.body \in Seq({NL, CR, X})
  BY AssembledTyped, MessageParts, Zenon
<1> HIDE DEF hs
<1>2. hs \in Seq(Symbols) /\ m.body \in Seq(Symbols) /\ NL \in Symbols
  BY <1>1 DEF Symbols
<1>3. Blob(lang, m) = hs \o <<NL>> \o m.body \o <<NL>>
  BY DEF Blob, hs
<1>4. Blob(lang, m) \in Seq(Symbols) /\ IsText(Blob(lang, m), hs, m.body, Len(hs), Len(m.body))
  BY <1>2, <1>3, TextShape, Zenon
<1>5. (\A q \in 1 .. Len(hs) : hs[q] \in Header) /\ \A q \in 1 .. Len(m.body) : m.body[q] \in {NL, CR, X}
  BY <1>1
<1> QED
  BY <1>4, <1>5, Zenon DEF hs

\* A frame that holds a header ends its headers at the first blank line, and only there.
LEMMA FrameHeaders ==
  ASSUME NEW lang, NEW m \in Messages, Len(Assembled(lang, m)) > 0
  PROVE  LET text == Blob(lang, m)
             h == Len(Assembled(lang, m))
             top == SubSeq(text, 1, h + 1)
         IN  /\ HeaderSize(text) = h + 1 /\ ColonInEachLine(top)
             /\ Keep(top, {i \in DOMAIN top : IsHeader(top[i])}) = Assembled(lang, m)
<1> DEFINE hs == Assembled(lang, m)
           text == Blob(lang, m)
           h == Len(hs)
           b == Len(m.body)
           top == SubSeq(text, 1, h + 1)
<1>1. hs \in Seq(Header) /\ text \in Seq(Symbols) /\ IsText(text, hs, m.body, h, b) /\ \A q \in 1 .. h : hs[q] \in Header
  BY AssembledTyped, TextParts, Zenon
<1>2. h > 0
  OBVIOUS
<1> HIDE DEF hs, text, h, b
<1>3. h \in Nat /\ b \in Nat /\ DOMAIN text = 1 .. h + b + 2 /\ text[h + 1] = NL
  BY <1>1 DEF IsText
<1>4. \A q \in 1 .. h : text[q] = hs[q] /\ IsHeader(text[q]) /\ text[q] # NL /\ text[q] # CR
  BY <1>1, SymbolsDiffer, Zenon DEF IsText, IsHeader
<1>5. HeaderSize(text) = h + 1
  <2> DEFINE lineEnds == {e \in DOMAIN text : EndsLine(text[e])}
             doubles == {e \in lineEnds : DoubleBreakAt(text, e)}
  <2>1. h + 1 \in doubles
    <3>1. h + 1 \in lineEnds
      BY <1>3 DEF EndsLine
    <3>2. h \in DOMAIN text /\ h \in (h + 1) - 3 .. (h + 1) - 1 /\ \A i \in h + 1 .. (h + 1) - 1 : text[i] = CR
      BY <1>2, <1>3
    <3>3. EndsLine(text[h])
      BY <1>2, <1>3, <1>4 DEF EndsLine
    <3>4. DoubleBreakAt(text, h + 1)
      BY <1>3, <3>2, <3>3, Zenon DEF DoubleBreakAt
    <3> QED
      BY <3>1, <3>4, Zenon
  <2>2. \A e \in doubles : h + 1 <= e
    <3> SUFFICES ASSUME NEW e \in doubles PROVE h + 1 <= e
      OBVIOUS
    <3>1. e \in 1 .. h + b + 2 /\ text[e] = NL
      BY <1>3 DEF DoubleBreakAt
    <3> QED
      BY <1>3, <1>4, <3>1
  <2>3. doubles \in SUBSET Nat
    BY <1>3
  <2>4. HeaderSize(text) = IF doubles # {} THEN Min(doubles) ELSE Max({0} \cup lineEnds)
    BY DEF HeaderSize
  <2> HIDE DEF doubles, lineEnds
  <2>5. Min(doubles) = h + 1
    BY ZenonT(30), <2>1, <2>2, <2>3, MinMaxKnown
  <2> QED
    BY <2>1, <2>4, <2>5, Zenon
<1>6. DOMAIN top = 1 .. h + 1 /\ \A q \in 1 .. h + 1 : top[q] = text[q]
  BY <1>1, <1>3
<1> HIDE DEF top
<1>7. /\ {i \in DOMAIN top : IsHeader(top[i])} = 1 .. h
      /\ {i \in DOMAIN top : top[i] \notin {NL, CR}} = 1 .. h
  <2>1. \A i \in 1 .. h + 1 : i \in 1 .. h \/ i = h + 1
    BY <1>3
  <2>2. \A i \in 1 .. h : i \in 1 .. h + 1 /\ i # h + 1
    BY <1>3
  <2>3. \A i \in 1 .. h : i \in DOMAIN top /\ IsHeader(top[i]) /\ top[i] \notin {NL, CR}
    BY <1>4, <1>6, <2>2
  <2>4. h + 1 \in DOMAIN top /\ top[h + 1] = NL
    BY <1>3, <1>6
  <2>5. ~ IsHeader(top[h + 1]) /\ top[h + 1] \in {NL, CR}
    BY <2>4, Zenon DEF IsHeader
  <2>6. \A i : i \in DOMAIN top <=> i \in 1 .. h + 1
    BY <1>6, Zenon
  <2>7. \A i : (i \in DOMAIN top /\ IsHeader(top[i])) <=> i \in 1 .. h
    BY <2>1, <2>3, <2>5, <2>6, Zenon
  <2>8. \A i : (i \in DOMAIN top /\ top[i] \notin {NL, CR}) <=> i \in 1 .. h
    BY <2>1, <2>3, <2>5, <2>6, Zenon
  <2> QED
    BY <2>7, <2>8, Zenon
<1>8. ColonInEachLine(top)
  <2>1. 1 .. h # {} /\ 1 \in 1 .. h /\ h \in 1 .. h /\ 1 .. h \in SUBSET Nat
    <3>1. 1 \in 1 .. h /\ h \in 1 .. h
      BY <1>2, <1>3
    <3>2. \A i \in 1 .. h : i \in Nat
      BY <1>3
    <3> QED
      BY <3>1, <3>2, Zenon
  <2>2. Max(1 .. h) = h /\ Min(1 .. h) = 1
    <3>1. (\A y \in 1 .. h : 1 <= y) /\ \A y \in 1 .. h : h >= y
      BY <1>3
    <3> QED
      BY <2>1, <3>1, MinMaxKnown, Zenon
  <2>3. \A i \in 1 .. h : top[i] # NL /\ IsHeader(top[i])
    BY <1>3, <1>4, <1>6
  <2> QED
    BY <1>7, <2>1, <2>2, <2>3, Zenon DEF ColonInEachLine
<1>9. Keep(top, 1 .. h) = hs
  <2>1. Keep(top, 1 .. h) = [k \in 1 .. h |-> top[k]]
    BY <1>3, KeepAll
  <2>2. \A k \in 1 .. h : top[k] = hs[k]
    BY <1>3, <1>4, <1>6
  <2>3. hs = [k \in 1 .. h |-> hs[k]]
    BY <1>1 DEF h
  <2>4. [k \in 1 .. h |-> top[k]] = [k \in 1 .. h |-> hs[k]]
    BY <2>2
  <2> QED
    BY ZenonT(30), <2>1, <2>3, <2>4
<1> QED
  BY <1>5, <1>7, <1>8, <1>9, Zenon DEF hs, h, text, top

\* What is left of a text after the headers: the body and a newline.
IsRest(rest, bs, b) ==
  rest = Append(bs, NL) /\ SubSeq(rest, 1, b) = bs /\ DOMAIN rest = 1 .. b + 1 /\ rest[b + 1] = NL

\* What the TypeScript reader has of a frame beyond the headers.
LEMMA RestOfText ==
  ASSUME NEW text \in Seq(Symbols), NEW hs, NEW bs \in Seq(Symbols), NEW h, NEW b, IsText(text, hs, bs, h, b)
  PROVE  IsRest(SubSeq(text, h + 2, Len(text)), bs, b)
<1> DEFINE rest == SubSeq(text, h + 2, Len(text))
<1>1. h \in Nat /\ b \in Nat /\ Len(bs) = b /\ Len(text) = h + b + 2 /\ text[h + b + 2] = NL
  BY DEF IsText
<1>2. \A q \in 1 .. b : text[h + 1 + q] = bs[q]
  BY DEF IsText
<1>3. /\ rest \in Seq(Symbols) /\ Len(rest) = b + 1 /\ DOMAIN rest = 1 .. b + 1
      /\ \A q \in 1 .. b + 1 : rest[q] = text[h + 1 + q]
  <2>1. h + 1 \in Nat /\ b + 1 \in Nat /\ (h + 1) + (b + 1) <= Len(text)
    BY <1>1
  <2>2. rest = SubSeq(text, (h + 1) + 1, (h + 1) + (b + 1))
    BY <1>1
  <2>3. rest \in Seq(Symbols) /\ IsSlice(rest, text, h + 1, b + 1)
    BY <2>1, <2>2, Slice, Zenon
  <2> QED
    BY <2>3, Zenon DEF IsSlice
<1> HIDE DEF rest
<1>4. rest[b + 1] = NL
  <2>1. h + 1 + (b + 1) = h + b + 2 /\ b + 1 \in 1 .. b + 1
    BY <1>1
  <2> QED
    BY <1>1, <1>3, <2>1
<1>5. \A q \in 1 .. b : rest[q] = bs[q]
  <2>1. \A q \in 1 .. b : q \in 1 .. b + 1
    BY <1>1
  <2> QED
    BY <1>2, <1>3, <2>1, Zenon
<1>6. NL \in Symbols
  BY DEF Symbols
<1>7. rest = Append(bs, NL)
  BY <1>1, <1>3, <1>4, <1>5, <1>6
<1>8. SubSeq(rest, 1, b) = bs
  <2> DEFINE s == SubSeq(rest, 1, b)
  <2>1. s \in Seq(Symbols) /\ Len(s) = b /\ \A q \in 1 .. b : s[q] = rest[q]
    BY <1>1, <1>3
  <2> HIDE DEF s
  <2>2. Len(s) = Len(bs) /\ \A q \in 1 .. Len(s) : s[q] = bs[q]
    BY <1>1, <1>5, <2>1, Zenon
  <2>3. s = bs
    BY <2>1, <2>2, SameSeq, Zenon
  <2> QED
    BY <2>3 DEF s
<1> QED
  BY <1>3, <1>4, <1>7, <1>8, Zenon DEF rest, IsRest

\* A frame that holds no header cannot be parsed.
LEMMA HeadlessIsLost ==
  ASSUME NEW lang, NEW m \in Messages, Len(Assembled(lang, m)) = 0
  PROVE  ParseBlob(Blob(lang, m), HeaderSize(Blob(lang, m))) = Lost
<1> DEFINE text == Blob(lang, m)
           b == Len(m.body)
           size == HeaderSize(text)
           top == SubSeq(text, 1, size)
           inside == {i \in DOMAIN top : top[i] \notin {NL, CR}}
<1>1. /\ text \in Seq(Symbols) /\ b \in Nat /\ Len(text) = b + 2 /\ text[1] = NL /\ text[b + 2] = NL
      /\ \A q \in 1 .. b : text[1 + q] = m.body[q] /\ m.body[q] \in {NL, CR, X}
  <2>1. text \in Seq(Symbols) /\ IsText(text, Assembled(lang, m), m.body, 0, b)
        /\ \A q \in 1 .. b : m.body[q] \in {NL, CR, X}
    BY TextParts, Zenon
  <2> HIDE DEF text, b
  <2>2. b \in Nat /\ Len(text) = 0 + b + 2 /\ text[0 + 1] = NL /\ text[0 + b + 2] = NL
        /\ \A q \in 1 .. b : text[0 + 1 + q] = m.body[q]
    BY <2>1, Zenon DEF IsText
  <2> QED
    BY <2>1, <2>2
<1> HIDE DEF text, b
<1>2. \A i \in 1 .. b + 2 : ~ IsHeader(text[i])
  <2> TAKE i \in 1 .. b + 2
  <2>1. text[i] \in {NL, CR, X}
    <3>1. i = 1 \/ i = b + 2 \/ (i - 1 \in 1 .. b /\ i = 1 + (i - 1))
      BY <1>1
    <3> QED
      BY <1>1, <3>1, Zenon
  <2> QED
    BY <2>1, Zenon DEF IsHeader
<1>3. size \in 0 .. b + 2
  <2> DEFINE lineEnds == {e \in DOMAIN text : EndsLine(text[e])}
             doubles == {e \in lineEnds : DoubleBreakAt(text, e)}
             ends == {0} \cup lineEnds
  <2>1. size = IF doubles # {} THEN Min(doubles) ELSE Max(ends)
    BY Zenon DEF HeaderSize
  <2>2. doubles \in SUBSET (1 .. b + 2) /\ lineEnds \in SUBSET (1 .. b + 2) /\ b + 2 \in lineEnds
    BY <1>1 DEF EndsLine
  <2> HIDE DEF lineEnds, doubles
  <2>3. doubles # {} => Min(doubles) \in doubles
    <3>1. doubles \in SUBSET Nat
      BY <1>1, <2>2
    <3> QED
      BY <3>1, MinIsLeast, Zenon
  <2>4. Max(ends) = b + 2
    <3>1. ends \in SUBSET Nat /\ b + 2 \in ends /\ \A y \in ends : b + 2 >= y
      BY <1>1, <2>2
    <3> HIDE DEF ends
    <3> QED
      BY <3>1, MinMaxKnown, Zenon
  <2>5. b + 2 \in 0 .. b + 2 /\ \A e \in 1 .. b + 2 : e \in 0 .. b + 2
    BY <1>1
  <2> QED
    BY <2>1, <2>2, <2>3, <2>4, <2>5, Zenon
<1> HIDE DEF size
<1>4. DOMAIN top = 1 .. size /\ \A i \in 1 .. size : top[i] = text[i] /\ i \in 1 .. b + 2
  BY <1>1, <1>3
<1> HIDE DEF top
<1>5. inside # {} => ~ IsHeader(top[Max(inside)])
  <2> SUFFICES ASSUME inside # {} PROVE ~ IsHeader(top[Max(inside)])
    OBVIOUS
  <2>1. inside \in SUBSET (1 .. size) /\ size \in Nat
    BY <1>3, <1>4
  <2> HIDE DEF inside
  <2>2. Max(inside) \in 1 .. size
    BY <2>1, MaxIsGreatest, Zenon
  <2> QED
    BY <1>2, <1>4, <2>2, Zenon
<1>6. ~ ColonInEachLine(top)
  BY <1>5, Zenon DEF ColonInEachLine
<1> QED
  BY <1>6, Zenon DEF ParseBlob, top, size, text

\* The headers are the same with another body.
LEMMA OtherBody ==
  ASSUME NEW lang, NEW hs, NEW b, NEW c
  PROVE  Meaning(lang, hs, b).body = b /\ [Meaning(lang, hs, b) EXCEPT !.body = c] = Meaning(lang, hs, c)
<1> DEFINE lookup == [name \in {hs[i].name : i \in DOMAIN hs} |-> Lookup(lang, hs, name)]
<1>1. \A d : Meaning(lang, hs, d) = [lookup |-> lookup, body |-> d]
  BY Zenon DEF Meaning
<1> HIDE DEF lookup
<1> QED
  BY <1>1

\* parseMessageFromBlob makes of a framed message what ReadAs says.
LEMMA FrameIsReadAs ==
  ASSUME NEW m \in Messages, Unambiguous(m), to = "js"
  PROVE  ParseBlob(Blob(from, m), HeaderSize(Blob(from, m))) = ReadAs(m)
<1> DEFINE out == Assembled(from, m)
           text == Blob(from, m)
           h == Len(out)
           b == Len(m.body)
           top == SubSeq(text, 1, h + 1)
           hs == Built("go", out)
           rest == SubSeq(text, h + 2, Len(text))
           length == LengthOf(m)
<1>0. CASE Headless(m)
  <2>1. h = 0
    BY <1>0, FramedHeaders, Zenon
  <2>2. ReadAs(m) = Lost
    BY <1>0, Zenon DEF Headless, ReadAs
  <2> QED
    BY <2>1, <2>2, HeadlessIsLost, Zenon
<1>0a. SUFFICES ASSUME ~ Headless(m)
                PROVE  ParseBlob(text, HeaderSize(text)) = ReadAs(m)
  BY <1>0, Zenon
<1>1. h > 0 /\ length \in {Absent, b} /\ b \in Nat
  BY <1>0a, FramedHeaders, MessageParts, Zenon
<1>2. /\ HeaderSize(text) = h + 1 /\ ColonInEachLine(top)
      /\ Keep(top, {i \in DOMAIN top : IsHeader(top[i])}) = out
  BY <1>1, FrameHeaders, Zenon
<1>3. Lookup("js", hs, LengthName) = length /\ \A c : Meaning("js", hs, c) = Meaning("js", ExpectedHeaders(m), c)
  BY FramedMeaning, Zenon
<1>4. text \in Seq(Symbols) /\ IsText(text, out, m.body, h, b) /\ h \in Nat
  BY TextParts, Zenon DEF IsText
<1>5. m.body \in Seq(Symbols)
  BY MessageParts DEF Symbols
<1>6. rest = Append(m.body, NL) /\ SubSeq(rest, 1, b) = m.body /\ DOMAIN rest = 1 .. b + 1 /\ rest[b + 1] = NL
  <2>1. IsRest(rest, m.body, b)
    BY <1>4, <1>5, RestOfText, Zenon
  <2> QED
    BY <2>1, Zenon DEF IsRest
<1>7. ParseBlob(text, HeaderSize(text)) =
        LET sep == Separator(rest, length)
        IN  IF length = Absent THEN Meaning("js", hs, rest)
            ELSE IF length = Empty \/ sep \notin DOMAIN rest THEN Lost
            ELSE IF rest[sep] # NL THEN Lost
            ELSE Meaning("js", hs, SubSeq(rest, 1, length))
  <2>1. (h + 1) + 1 = h + 2
    BY <1>4
  <2> QED
    BY <1>2, <1>3, <2>1, Zenon DEF ParseBlob
<1>8. ReadAs(m) = Meaning("js", ExpectedHeaders(m), IF length = Absent THEN Append(m.body, NL) ELSE m.body)
  <2>1. Expected(m) = Meaning("js", ExpectedHeaders(m), m.body)
    BY DEF Expected, ExpectedHeaders
  <2>2. ReadAs(m) = IF length # Absent THEN Expected(m)
                    ELSE [Expected(m) EXCEPT !.body = Append(Expected(m).body, NL)]
    BY <1>0a DEF ReadAs, Headless
  <2>3. /\ Expected(m).body = m.body
        /\ [Expected(m) EXCEPT !.body = Append(m.body, NL)] = Meaning("js", ExpectedHeaders(m), Append(m.body, NL))
    <3>1. \A c : /\ Meaning("js", ExpectedHeaders(m), m.body).body = m.body
                 /\ [Meaning("js", ExpectedHeaders(m), m.body) EXCEPT !.body = c] = Meaning("js", ExpectedHeaders(m), c)
      BY OtherBody
    <3> QED
      BY <2>1, <3>1, Zenon
  <2> QED
    BY <2>1, <2>2, <2>3, Zenon
<1> HIDE DEF hs, text, rest, length, b
<1>9. CASE length = Absent
  BY <1>3, <1>6, <1>7, <1>8, <1>9, Zenon DEF text
<1>10. CASE length # Absent
  <2>1. length = b /\ b # Empty
    BY <1>1, <1>10 DEF Empty
  <2>2. b + 1 \in DOMAIN rest
    BY <1>1, <1>6
  <2>3. Separator(rest, b) = b + 1
    BY <1>6, <2>2, SymbolsDiffer, Zenon DEF Separator
  <2>4. ParseBlob(text, HeaderSize(text)) = Meaning("js", hs, SubSeq(rest, 1, b))
    BY <1>6, <1>7, <1>10, <2>1, <2>2, <2>3, Zenon
  <2>5. ReadAs(m) = Meaning("js", ExpectedHeaders(m), m.body)
    BY <1>8, <1>10, Zenon
  <2> QED
    BY <1>3, <1>6, <2>4, <2>5, Zenon DEF text
<1> QED
  BY <1>9, <1>10

-----------------------------------------------------------------------------
(* The writes that a message is given to the stream in.                    *)

\* How much of the text of m the first k of them hold.
Before(m, k) ==
  IF k = Len(ChunksOf(m)) THEN Len(Blob(from, m))
  ELSE IF k <= Len(Assembled(from, m)) + 1 THEN k
  ELSE Len(Assembled(from, m)) + 1 + Len(m.body)

\* The k-th one is that part of the text of m.
IsPiece(m, k) ==
  LET piece == ChunksOf(m)[k + 1]
  IN  /\ Before(m, k) \in Nat /\ Before(m, k + 1) \in Nat
      /\ piece \in Seq(Symbols) /\ Len(piece) = Before(m, k + 1) - Before(m, k)
      /\ Before(m, k) < Len(Blob(from, m))
      /\ Before(m, k + 1) <= Len(Blob(from, m))
      /\ \A q \in 1 .. Len(piece) : piece[q] = Blob(from, m)[Before(m, k) + q]

\* Header by header, the blank line, the body and the newline of a stream.
LEMMA StreamPieces ==
  ASSUME NEW m \in Messages
  PROVE  LET cs == StreamChunks(from, m)
             h == Len(Assembled(from, m))
         IN  /\ cs \in Seq(Seq(Symbols)) /\ Len(cs) = h + 3
             /\ \A q \in 1 .. h : cs[q] = <<Assembled(from, m)[q]>>
             /\ cs[h + 1] = <<NL>> /\ cs[h + 2] = m.body /\ cs[h + 3] = <<NL>>
<1> DEFINE out == Assembled(from, m)
           ls == HeaderLines(from, m)
           cs == StreamChunks(from, m)
<1>1. out \in Seq(Header) /\ m.body \in Seq({NL, CR, X})
  BY AssembledTyped, MessageParts, Zenon
<1>2. ls = [i \in DOMAIN out |-> <<out[i]>>]
  BY DEF HeaderLines
<1>3. cs = ls \o <<<<NL>>, m.body, <<NL>>>>
  BY DEF StreamChunks
<1> HIDE DEF out, ls, cs
<1>4. PICK h \in Nat : h = Len(out) /\ DOMAIN out = 1 .. h
  BY <1>1
<1> DEFINE A == Seq(Symbols)
<1>5. PICK n \in A, c \in A : n = <<NL>> /\ c = m.body
  <2>1. <<NL>> \in A /\ m.body \in A
    BY <1>1 DEF Symbols
  <2> HIDE DEF A
  <2> QED
    BY <2>1, Zenon
<1>6. ls \in Seq(A) /\ Len(ls) = h /\ \A q \in 1 .. h : ls[q] = <<out[q]>>
  <2>1. \A q \in 1 .. h : <<out[q]>> \in A
    BY <1>1, <1>4, <1>5 DEF Symbols
  <2> HIDE DEF A
  <2> QED
    BY <1>2, <1>4, <2>1
<1> HIDE DEF A
<1>7. cs = ls \o <<n, c, n>>
  BY <1>3, <1>5, Zenon
<1>8. /\ cs \in Seq(A) /\ Len(cs) = h + 3 /\ \A q \in 1 .. h : cs[q] = ls[q]
      /\ cs[h + 1] = n /\ cs[h + 2] = c /\ cs[h + 3] = n
  <2> DEFINE tl == <<n, c, n>>
  <2>1. tl \in Seq(A) /\ Len(tl) = 3 /\ tl[1] = n /\ tl[2] = c /\ tl[3] = n
    OBVIOUS
  <2> HIDE DEF tl
  <2>2. cs \in Seq(A) /\ Len(cs) = h + 3 /\ \A q \in 1 .. h : cs[q] = ls[q]
    BY <1>6, <1>7, <2>1 DEF tl
  <2>3. \A q \in 1 .. 3 : cs[h + q] = tl[q]
    BY <1>6, <1>7, <2>1, Concat DEF tl
  <2>4. cs[h + 1] = tl[1] /\ cs[h + 2] = tl[2] /\ cs[h + 3] = tl[3]
    BY <2>3
  <2> QED
    BY <2>1, <2>2, <2>4, Zenon
<1> QED
  BY <1>4, <1>5, <1>6, <1>8, Zenon DEF out, cs, A

\* The writes to a stream hold the text, one after the other; a Blob is one write.
LEMMA Pieces ==
  ASSUME NEW m \in Messages, to # "js"
  PROVE  /\ ChunksOf(m) \in Seq(Seq(Symbols)) /\ Len(ChunksOf(m)) \in Nat \ {0}
         /\ Before(m, 0) = 0
         /\ Before(m, Len(ChunksOf(m))) = Len(Blob(from, m))
         /\ \A k \in 0 .. Len(ChunksOf(m)) - 1 : IsPiece(m, k)
<1> DEFINE out == Assembled(from, m)
           text == Blob(from, m)
           cs == ChunksOf(m)
           bs == m.body
<1>1. /\ out \in Seq(Header) /\ bs \in Seq(Symbols) /\ text \in Seq(Symbols)
      /\ IsText(text, out, bs, Len(out), Len(bs))
  <2>1. bs \in Seq({NL, CR, X})
    BY MessageParts, Zenon
  <2>2. bs \in Seq(Symbols)
    BY <2>1 DEF Symbols
  <2> QED
    BY <2>2, AssembledTyped, TextParts, Zenon
<1>2. \A k : Before(m, k) = IF k = Len(cs) THEN Len(text) ELSE IF k <= Len(out) + 1 THEN k ELSE Len(out) + 1 + Len(bs)
  BY DEF Before
<1>3. \A k : IsPiece(m, k) =
               (/\ Before(m, k) \in Nat /\ Before(m, k + 1) \in Nat
                /\ cs[k + 1] \in Seq(Symbols) /\ Len(cs[k + 1]) = Before(m, k + 1) - Before(m, k)
                /\ Before(m, k) < Len(text)
                /\ Before(m, k + 1) <= Len(text)
                /\ \A q \in 1 .. Len(cs[k + 1]) : cs[k + 1][q] = text[Before(m, k) + q])
  BY DEF IsPiece
<1>4. cs = IF from = "js" THEN <<text>> ELSE StreamChunks(from, m)
  BY DEF ChunksOf
<1>5. from # "js" => /\ cs \in Seq(Seq(Symbols)) /\ Len(cs) = Len(out) + 3
                     /\ \A q \in 1 .. Len(out) : cs[q] = <<out[q]>>
                     /\ cs[Len(out) + 1] = <<NL>> /\ cs[Len(out) + 2] = bs /\ cs[Len(out) + 3] = <<NL>>
  BY <1>4, StreamPieces, Zenon
<1> HIDE DEF out, text, cs, bs
<1>6. PICK h \in Nat, b \in Nat : h = Len(out) /\ b = Len(bs) /\ DOMAIN out = 1 .. h
  BY <1>1
<1>7. /\ Len(text) = h + b + 2 /\ \A q \in 1 .. h : text[q] = out[q]
      /\ \A q \in 1 .. b : text[h + 1 + q] = bs[q]
      /\ text[h + 1] = NL /\ text[h + b + 2] = NL
  BY <1>1, <1>6, Zenon DEF IsText
<1>8. CASE from = "js"
  <2>1. cs \in Seq(Seq(Symbols)) /\ Len(cs) = 1 /\ cs[1] = text
    BY <1>1, <1>4, <1>8
  <2>2. Before(m, 0) = 0 /\ Before(m, 1) = Len(text)
    BY <1>2, <1>6, <2>1
  <2>3. \A q \in 1 .. Len(text) : 0 + q = q
    BY <1>6, <1>7
  <2>4. IsPiece(m, 0)
    <3>1. Len(text) \in Nat /\ Len(text) > 0 /\ Len(text) = Len(text) - 0 /\ 0 \in Nat /\ 0 + 1 = 1
      BY <1>6, <1>7
    <3>2. /\ 0 \in Nat /\ Len(text) \in Nat
          /\ cs[0 + 1] \in Seq(Symbols) /\ Len(cs[0 + 1]) = Len(text) - 0
          /\ 0 < Len(text)
          /\ Len(text) <= Len(text)
          /\ \A q \in 1 .. Len(cs[0 + 1]) : cs[0 + 1][q] = text[0 + q]
      BY <1>1, <2>1, <2>3, <3>1
    <3>3. Before(m, 0 + 1) = Len(text)
      BY <2>2
    <3> QED
      BY <1>3, <2>2, <3>2, <3>3, Zenon
  <2>5. \A k \in 0 .. Len(cs) - 1 : k = 0
    BY <2>1
  <2>6. Len(cs) \in Nat \ {0}
    BY <2>1
  <2>7. Before(m, Len(cs)) = Len(text) /\ \A k \in 0 .. Len(cs) - 1 : IsPiece(m, k)
    BY <1>2, <2>4, <2>5, Zenon
  <2> QED
    BY <2>1, <2>2, <2>6, <2>7, Zenon DEF cs, text
<1>9. CASE from # "js"
  <2>1. /\ cs \in Seq(Seq(Symbols)) /\ Len(cs) = h + 3
        /\ \A q \in 1 .. h : cs[q] = <<out[q]>>
        /\ cs[h + 1] = <<NL>> /\ cs[h + 2] = bs /\ cs[h + 3] = <<NL>>
    BY <1>5, <1>6, <1>9, Zenon
  <2>2. \A k \in 0 .. h + 1 : Before(m, k) = k
    BY <1>2, <1>6, <2>1
  <2>3. Before(m, h + 2) = h + 1 + b /\ Before(m, h + 3) = h + b + 2
    <3>1. h + 2 # Len(cs) /\ ~ (h + 2 <= Len(out) + 1) /\ h + 3 = Len(cs)
      BY <1>6, <2>1
    <3> QED
      BY <1>2, <1>6, <1>7, <3>1, Zenon
  <2>4. ASSUME NEW k \in 0 .. h + 2 PROVE IsPiece(m, k)
    <3>1. CASE k \in 0 .. h
      <4>1. Before(m, k) = k /\ Before(m, k + 1) = k + 1
        BY <2>2, <3>1
      <4>2. PICK x \in Symbols : cs[k + 1] = <<x>> /\ text[k + 1] = x
        <5>1. CASE k < h
          <6>1. k + 1 \in 1 .. h
            BY <3>1, <5>1
          <6>2. out[k + 1] \in Symbols
            BY <1>1, <1>6, <6>1 DEF Symbols
          <6> QED
            BY <1>7, <2>1, <6>1, <6>2, Zenon
        <5>2. CASE k = h
          <6>1. NL \in Symbols
            BY DEF Symbols
          <6> QED
            BY <1>7, <2>1, <5>2, <6>1, Zenon
        <5> QED
          BY <3>1, <5>1, <5>2
      <4>3. <<x>> \in Seq(Symbols) /\ Len(<<x>>) = 1 /\ <<x>>[1] = x
        OBVIOUS
      <4>4. \A q \in 1 .. 1 : <<x>>[q] = text[k + q]
        BY <4>2, <4>3
      <4>5. k \in Nat /\ k + 1 \in Nat /\ 1 = (k + 1) - k /\ k < Len(text) /\ k + 1 <= Len(text)
        BY <1>6, <1>7, <3>1
      <4> QED
        BY <1>3, <4>1, <4>2, <4>3, <4>4, <4>5, Zenon
    <3>2. CASE k = h + 1
      <4>1. Before(m, k) = h + 1 /\ Before(m, k + 1) = h + 1 + b
        BY <2>2, <2>3, <3>2
      <4>2. cs[k + 1] = bs
        BY <2>1, <3>2
      <4>3. \A q \in 1 .. Len(bs) : bs[q] = text[(h + 1) + q]
        BY <1>6, <1>7, Zenon
      <4>4. /\ h + 1 \in Nat /\ h + 1 + b \in Nat /\ Len(bs) = (h + 1 + b) - (h + 1)
            /\ h + 1 < Len(text) /\ h + 1 + b <= Len(text)
        BY <1>6, <1>7
      <4> QED
        BY <1>1, <1>3, <4>1, <4>2, <4>3, <4>4, Zenon
    <3>3. CASE k = h + 2
      <4>1. Before(m, k) = h + 1 + b /\ Before(m, k + 1) = h + b + 2
        BY <2>2, <2>3, <3>3
      <4>2. PICK x \in Symbols : x = NL
        BY DEF Symbols
      <4>3. cs[k + 1] = <<x>>
        BY <2>1, <3>3, <4>2
      <4>4. <<x>> \in Seq(Symbols) /\ Len(<<x>>) = 1 /\ <<x>>[1] = x
        OBVIOUS
      <4>5. (h + 1 + b) + 1 = h + b + 2 /\ text[h + b + 2] = x
        BY <1>7, <4>2
      <4>6. \A q \in 1 .. 1 : <<x>>[q] = text[(h + 1 + b) + q]
        BY <4>4, <4>5
      <4>7. /\ h + b + 2 \in Nat /\ h + 1 + b \in Nat /\ 1 = (h + b + 2) - (h + 1 + b)
            /\ h + 1 + b < Len(text) /\ h + b + 2 <= Len(text)
        BY <1>6, <1>7
      <4> QED
        BY <1>3, <4>1, <4>3, <4>4, <4>6, <4>7, Zenon
    <3> QED
      BY <3>1, <3>2, <3>3
  <2>5. Len(cs) \in Nat \ {0} /\ 0 .. Len(cs) - 1 = 0 .. h + 2 /\ Before(m, 0) = 0
    <3>1. 0 .. (h + 3) - 1 = 0 .. h + 2 /\ h + 3 \in Nat \ {0} /\ 0 \in 0 .. h + 1
      OBVIOUS
    <3> QED
      BY <2>1, <2>2, <3>1, Zenon
  <2>6. Before(m, Len(cs)) = Len(text) /\ \A k \in 0 .. Len(cs) - 1 : IsPiece(m, k)
    BY <1>2, <2>4, <2>5, Zenon
  <2> QED
    BY <2>1, <2>5, <2>6, Zenon DEF cs, text
<1> QED
  BY <1>8, <1>9

-----------------------------------------------------------------------------
(* One thread at a time has the mutex.                                     *)

\* The states of a writing thread.
States == {"idle", "writing", "written", "failed"}

\* A function of the threads, and what EXCEPT does to it.
IsTable(f) == f = [t \in Threads |-> f[t]]
Replaced(f, g, t, v) == IsTable(g) /\ g[t] = v /\ \A u \in Threads \ {t} : g[u] = f[u]

\* EXCEPT replaces one entry of a table and leaves the others.
LEMMA TableExcept ==
  ASSUME NEW f, IsTable(f), NEW t \in Threads, NEW v
  PROVE  Replaced(f, [f EXCEPT ![t] = v], t, v)
<1>1. PICK S : f \in [Threads -> S]
  <2> DEFINE S == {f[u] : u \in Threads}
  <2>1. \A u \in Threads : f[u] \in S
    OBVIOUS
  <2> HIDE DEF S
  <2>2. [u \in Threads |-> f[u]] \in [Threads -> S]
    BY <2>1
  <2> QED
    BY <2>2, Zenon DEF IsTable
<1> DEFINE g == [f EXCEPT ![t] = v]
<1>2. g \in [Threads -> S \cup {v}] /\ g[t] = v /\ \A u \in Threads \ {t} : g[u] = f[u]
  BY <1>1
<1> HIDE DEF g
<1>3. g = [u \in Threads |-> g[u]]
  BY <1>2
<1> QED
  BY <1>2, <1>3 DEF Replaced, IsTable, g

\* The threads that have entered are those in order, each once; the last one may be
\* writing, and one has failed only if the stream is closed.
Turns ==
  /\ from \in Languages /\ to \in Languages
  /\ message \in [Threads -> Messages] /\ state \in [Threads -> States]
  /\ IsTable(chunks)
  /\ order \in Seq(Threads)
  /\ \A i, j \in 1 .. Len(order) : order[i] = order[j] => i = j
  /\ \A i \in 1 .. Len(order) : order[i] \in Threads /\ state[order[i]] # "idle"
  /\ \A t \in Threads : state[t] # "idle" => \E i \in 1 .. Len(order) : order[i] = t
  /\ \A t \in Threads : state[t] = "writing" => t \in lock
  /\ \A i \in 1 .. Len(order) : state[order[i]] = "writing" => i = Len(order)
  /\ \A t \in Threads : state[t] = "failed" => ~open

Reads == ReadHeaderLine \/ ReadBodyLine \/ ReadLength \/ ReadFrame \/ ReadEOF

\* The reader changes nothing of the writer's, and the writer nothing of the reader's.
LEMMA ReaderOnly ==
  ASSUME Reads
  PROVE  /\ from' = from /\ to' = to /\ message' = message /\ chunks' = chunks /\ state' = state
         /\ lock' = lock /\ order' = order /\ wire' = wire /\ open' = open
  BY Zenon DEF Reads, ReadHeaderLine, ReadBodyLine, ReadLength, ReadFrame, ReadEOF, writer

\* A writer, and the end of the stream, leave the readers alone.
LEMMA WriterOnly ==
  ASSUME \/ \E t \in Threads : Enter(t) \/ WriteChunk(t) \/ WriteFails(t)
         \/ CloseStream \/ UNCHANGED vars
  PROVE  /\ from' = from /\ to' = to /\ message' = message
         /\ at' = at /\ reader' = reader /\ headers' = headers /\ body' = body /\ received' = received
  BY Zenon DEF Enter, EnterMutex, WriteChunk, WriteFails, FailLeaving, CloseStream, vars, reading

\* Every step is one of a writer, the end of the stream, a read or a stutter.
LEMMA StepCases ==
  ASSUME [Next]_vars
  PROVE  \/ \E t \in Threads : Enter(t) \/ WriteChunk(t) \/ WriteFails(t)
         \/ CloseStream \/ UNCHANGED vars \/ Reads
  BY Zenon DEF Next, Progress, Reads

\* Nobody has the mutex of the writer yet.
LEMMA TurnsInit ==
  ASSUME Init
  PROVE  Turns
<1>1. /\ from \in Languages /\ to \in Languages /\ message \in [Threads -> Messages]
      /\ state = [t \in Threads |-> "idle"] /\ order = <<>>
      /\ chunks = [t \in Threads |-> ChunksOf(message[t])]
  BY DEF Init
<1>2. order \in Seq(Threads) /\ Len(order) = 0 /\ 1 .. Len(order) = {}
  BY <1>1
<1>3. state \in [Threads -> States] /\ \A t \in Threads : state[t] = "idle"
  BY <1>1 DEF States
<1>4. IsTable(chunks)
  BY <1>1 DEF IsTable
<1>5. /\ \A i, j \in 1 .. Len(order) : order[i] = order[j] => i = j
      /\ \A i \in 1 .. Len(order) : order[i] \in Threads /\ state[order[i]] # "idle"
      /\ \A i \in 1 .. Len(order) : state[order[i]] = "writing" => i = Len(order)
  BY <1>2, Zenon
<1>6. /\ \A t \in Threads : state[t] # "idle" => \E i \in 1 .. Len(order) : order[i] = t
      /\ \A t \in Threads : state[t] = "writing" => t \in lock
      /\ \A t \in Threads : state[t] = "failed" => ~open
  BY <1>3
<1> QED
  BY <1>1, <1>2, <1>3, <1>4, <1>5, <1>6, Zenon DEF Turns

\* Every step keeps Turns: Write holds the mutex until the message is out or failed.
LEMMA TurnsStep ==
  ASSUME Turns, [Next]_vars
  PROVE  Turns'
<1>0. /\ from \in Languages /\ to \in Languages
      /\ message \in [Threads -> Messages] /\ state \in [Threads -> States]
      /\ order \in Seq(Threads)
      /\ \A i, j \in 1 .. Len(order) : order[i] = order[j] => i = j
      /\ \A i \in 1 .. Len(order) : order[i] \in Threads /\ state[order[i]] # "idle"
      /\ \A t \in Threads : state[t] # "idle" => \E i \in 1 .. Len(order) : order[i] = t
      /\ \A t \in Threads : state[t] = "writing" => t \in lock
      /\ \A i \in 1 .. Len(order) : state[order[i]] = "writing" => i = Len(order)
      /\ \A t \in Threads : state[t] = "failed" => ~open
  BY Zenon DEF Turns
<1>00. IsTable(chunks)
  BY Zenon DEF Turns
<1>1. ASSUME NEW t \in Threads, Enter(t) PROVE Turns'
  <2>1. /\ state[t] = "idle" /\ lock = {} /\ state' = [state EXCEPT ![t] = "writing"] /\ order' = Append(order, t)
        /\ lock' = {t} /\ from' = from /\ to' = to /\ message' = message /\ chunks' = chunks /\ open' = open
    BY <1>1 DEF Enter, EnterMutex
  <2>2. PICK n \in Nat : n = Len(order)
    BY <1>0
  <2>3. /\ order' \in Seq(Threads) /\ Len(order') = n + 1 /\ order'[n + 1] = t
        /\ \A i \in 1 .. n : order'[i] = order[i]
    BY <1>0, <2>1, <2>2
  <2>4. \A u \in Threads : state[u] # "writing"
    BY <1>0, <2>1
  <2>5. state' \in [Threads -> States] /\ state'[t] = "writing" /\ \A u \in Threads \ {t} : state'[u] = state[u]
    BY <1>0, <2>1 DEF States
  <2>6. \A i \in 1 .. n : order[i] \in Threads \ {t} /\ state'[order[i]] = state[order[i]]
    BY <1>0, <2>1, <2>2, <2>5
  <2>7. \A i \in 1 .. n + 1 : i \in 1 .. n \/ i = n + 1
    OBVIOUS
  <2> DEFINE last == Len(order')
  <2>8. \A i, j \in 1 .. last : order'[i] = order'[j] => i = j
    BY <1>0, <2>2, <2>3, <2>6, <2>7
  <2>9. \A i \in 1 .. last : order'[i] \in Threads /\ state'[order'[i]] # "idle"
    BY <1>0, <2>2, <2>3, <2>5, <2>6, <2>7
  <2>10. ASSUME NEW u \in Threads, state'[u] # "idle" PROVE \E i \in 1 .. last : order'[i] = u
    <3>1. CASE u = t
      BY <1>0, <2>3, <3>1
    <3>2. CASE u # t
      <4>1. PICK i \in 1 .. n : order[i] = u
        BY <1>0, <2>2, <2>5, <2>10, <3>2
      <4> QED
        BY <1>0, <2>3, <4>1
    <3> QED
      BY <3>1, <3>2
  <2>11. \A u \in Threads : state'[u] = "writing" => u \in lock'
    BY <1>0, <2>1, <2>4, <2>5
  <2>12. \A i \in 1 .. last : state'[order'[i]] = "writing" => i = last
    BY <1>0, <2>3, <2>4, <2>6, <2>7
  <2>13. \A u \in Threads : state'[u] = "failed" => ~open'
    BY <1>0, <2>1, <2>5
  <2> QED
    BY <1>0, <1>00, <2>1, <2>3, <2>5, <2>8, <2>9, <2>10, <2>11, <2>12, <2>13, Zenon DEF Turns
<1>2. ASSUME NEW t \in Threads, WriteChunk(t) \/ WriteFails(t) PROVE Turns'
  <2>1. /\ state[t] = "writing" /\ order' = order
        /\ from' = from /\ to' = to /\ message' = message /\ open' = open
    BY <1>2, Zenon DEF WriteChunk, WriteFails, FailLeaving
  <2>2. PICK new \in States \ {"idle"} :
           /\ state' = [state EXCEPT ![t] = new] /\ (new = "failed" => ~open)
           /\ new = "writing" => lock' = lock
    <3>1. CASE WriteChunk(t)
      <4> DEFINE last == Len(chunks[t]) = 1
      <4>1. /\ state' = [state EXCEPT ![t] = IF last THEN "written" ELSE state[t]]
            /\ lock' = IF last THEN lock \ {t} ELSE lock
        BY <3>1, Zenon DEF WriteChunk
      <4> DEFINE next == IF last THEN "written" ELSE state[t]
      <4> HIDE DEF last
      <4>2. next \in States \ {"idle"} /\ next # "failed" /\ (next = "writing" => ~last)
        BY <2>1 DEF States
      <4> QED
        BY <4>1, <4>2, Zenon
    <3>2. CASE WriteFails(t)
      <4>1. state' = [state EXCEPT ![t] = "failed"] /\ ~open
        BY <3>2, Zenon DEF WriteFails, FailLeaving
      <4>2. "failed" \in States \ {"idle"} /\ "failed" # "writing"
        BY DEF States
      <4> QED
        BY <4>1, <4>2, Zenon
    <3> QED
      BY <1>2, <3>1, <3>2
  <2>3. \A u \in Threads \ {t} : u \in lock => u \in lock'
    BY <1>2 DEF WriteChunk, WriteFails, FailLeaving
  <2>4. state' \in [Threads -> States] /\ state'[t] = new /\ \A u \in Threads \ {t} : state'[u] = state[u]
    BY <1>0, <2>2
  <2>5. IsTable(chunks')
    <3>1. CASE WriteChunk(t)
      <4>1. chunks' = [chunks EXCEPT ![t] = Tail(chunks[t])]
        BY <3>1 DEF WriteChunk
      <4> QED
        BY <1>00, <4>1, TableExcept, Zenon DEF Replaced
    <3>2. CASE WriteFails(t)
      BY <1>00, <3>2, Zenon DEF WriteFails, FailLeaving
    <3> QED
      BY <1>2, <3>1, <3>2
  <2>6. \A u \in Threads : state'[u] # "idle" <=> state[u] # "idle"
    BY <1>0, <2>1, <2>4
  <2>7. \A i \in 1 .. Len(order) : order[i] \in Threads /\ state'[order[i]] # "idle"
    BY <1>0, <2>6
  <2>8. \A u \in Threads : state'[u] = "writing" => u \in lock'
    BY <1>0, <2>1, <2>2, <2>3, <2>4
  <2>9. \A u \in Threads : state'[u] = "writing" => state[u] = "writing"
    BY <1>0, <2>1, <2>4
  <2>10. \A u \in Threads : state'[u] = "failed" => ~open
    BY <1>0, <2>2, <2>4
  <2> QED
    BY <1>0, <2>1, <2>4, <2>5, <2>6, <2>7, <2>8, <2>9, <2>10, Zenon DEF Turns
<1>3. ASSUME /\ from' = from /\ to' = to /\ message' = message /\ chunks' = chunks /\ state' = state
             /\ lock' = lock /\ order' = order /\ (open' => open)
      PROVE  Turns'
  <2>1. \A t \in Threads : state[t] = "failed" => ~open'
    BY <1>0, <1>3, Zenon
  <2> QED
    BY <1>0, <1>00, <1>3, <2>1, Zenon DEF Turns
<1>4. CASE CloseStream \/ UNCHANGED vars
  <2>1. /\ from' = from /\ to' = to /\ message' = message /\ chunks' = chunks /\ state' = state
        /\ lock' = lock /\ order' = order /\ (open' => open)
    <3>1. CASE CloseStream
      BY <3>1 DEF CloseStream, writer
    <3>2. CASE UNCHANGED vars
      BY <3>2, Zenon DEF vars, writer
    <3> QED
      BY <1>4, <3>1, <3>2
  <2> QED
    BY <1>3, <2>1, Zenon
<1>5. CASE Reads
  BY <1>3, <1>5, ReaderOnly, Zenon
<1> QED
  BY <1>1, <1>2, <1>4, <1>5, StepCases, Zenon

\* While the stream is open, every thread that entered before another has written.
LEMMA EarlierWritten ==
  ASSUME Turns, open, NEW i \in 1 .. Len(order), i # Len(order)
  PROVE  state[order[i]] = "written"
  BY DEF Turns, States

-----------------------------------------------------------------------------
(* What is on a stream: the texts of the messages, each but the last whole *)
(* or cut off where the stream was closed.                                 *)

\* Thread t has yet to make all writes but k of them.
Waiting(t, k) == chunks[t] = SubSeq(ChunksOf(message[t]), k + 1, Len(ChunksOf(message[t])))

\* What t has written is what lies between start and end.
Sent(t, start, end) ==
  /\ start \in Nat /\ end \in Nat /\ start <= end /\ end <= Len(wire)
  /\ end <= start + Len(Blob(from, message[t]))
  /\ \A q \in 1 .. end - start : wire[start + q] = Blob(from, message[t])[q]
  /\ state[t] = "written" <=> end = start + Len(Blob(from, message[t]))
  /\ state[t] # "written" => end = Len(wire)
  /\ state[t] = "writing" =>
       \E k \in 0 .. Len(ChunksOf(message[t])) - 1 : Waiting(t, k) /\ end = start + Before(message[t], k)

\* Where the i-th message ends, if off says where each of them starts.
Upto(off, i) == IF i < Len(order) THEN off[i + 1] ELSE Len(wire)

\* The messages lie on the wire one after the other, in the order the mutex was had in,
\* the i-th from off[i] on.
Laid(off) ==
  /\ wire \in Seq(Symbols) /\ off \in [1 .. Len(order) -> Nat]
  /\ \A i \in 1 .. Len(order) : Sent(order[i], off[i], Upto(off, i))
  /\ \A t \in Threads : state[t] = "idle" => chunks[t] = ChunksOf(message[t])

\* No message is written as nothing: its two newlines are always there.
LEMMA TextLength ==
  ASSUME NEW lang, NEW m \in Messages
  PROVE  Len(Blob(lang, m)) \in Nat \ {0}
<1>1. IsText(Blob(lang, m), Assembled(lang, m), m.body, Len(Assembled(lang, m)), Len(m.body))
  BY TextParts, Zenon
<1> QED
  BY <1>1 DEF IsText

\* What is on the wire of a message whose writer does not move stays as it was.
LEMMA SentSame ==
  ASSUME NEW t, NEW start, NEW end, Sent(t, start, end),
         from' = from, to' = to, message' = message, wire' = wire,
         state'[t] = state[t], chunks'[t] = chunks[t]
  PROVE  Sent(t, start, end)'
<1>1. ChunksOf(message[t])' = ChunksOf(message[t])
  BY DEF ChunksOf
<1>2. \A k : Before(message[t], k)' = Before(message[t], k)
  BY <1>1, Zenon DEF Before
<1>3. \A k : Waiting(t, k)' = Waiting(t, k)
  BY <1>1, Zenon DEF Waiting
<1> QED
  BY <1>1, <1>2, <1>3, Zenon DEF Sent

\* A message that is written stays as it is when more is written after it.
LEMMA SentStays ==
  ASSUME NEW t, NEW start, NEW end, Sent(t, start, end),
         from' = from, message' = message, wire \in Seq(Symbols),
         NEW c \in Seq(Symbols), wire' = wire \o c,
         state[t] = "written", state'[t] = "written"
  PROVE  Sent(t, start, end)'
<1>1. /\ start \in Nat /\ end \in Nat /\ start <= end /\ end <= Len(wire)
      /\ end = start + Len(Blob(from, message[t]))
      /\ \A q \in 1 .. end - start : wire[start + q] = Blob(from, message[t])[q]
  BY DEF Sent
<1>2. Len(wire') = Len(wire) + Len(c) /\ \A q \in 1 .. Len(wire) : wire'[q] = wire[q]
  BY Concat
<1>3. end <= Len(wire') /\ end <= start + Len(Blob(from, message[t]))
  BY <1>1, <1>2
<1>4. \A q \in 1 .. end - start : wire'[start + q] = Blob(from, message[t])[q]
  <2>1. \A q \in 1 .. end - start : start + q \in 1 .. Len(wire)
    BY <1>1
  <2> QED
    BY <1>1, <1>2, <2>1, Zenon
<1>5. state'[t] # "writing"
  OBVIOUS
<1> QED
  BY <1>1, <1>3, <1>4, <1>5, Zenon DEF Sent

\* The next of the writes that are left.
LEMMA NextWrite ==
  ASSUME NEW A, NEW cs \in Seq(A), NEW k \in 0 .. Len(cs) - 1
  PROVE  LET c == SubSeq(cs, k + 1, Len(cs))
         IN  /\ Head(c) = cs[k + 1] /\ Tail(c) = SubSeq(cs, k + 2, Len(cs))
             /\ Len(c) = 1 <=> k + 1 = Len(cs)
<1> DEFINE c == SubSeq(cs, k + 1, Len(cs))
           d == SubSeq(cs, k + 2, Len(cs))
<1>1. PICK n \in Nat : n = Len(cs) /\ n > 0 /\ k \in Nat /\ k < n
  OBVIOUS
<1>2. c \in Seq(A) /\ Len(c) = n - k /\ \A q \in 1 .. n - k : c[q] = cs[k + q]
  BY <1>1
<1>3. d \in Seq(A) /\ Len(d) = n - k - 1 /\ \A q \in 1 .. n - k - 1 : d[q] = cs[k + 1 + q]
  BY <1>1
<1> HIDE DEF c, d
<1>4. Head(c) = cs[k + 1]
  BY <1>1, <1>2
<1>5. Tail(c) \in Seq(A) /\ Len(Tail(c)) = n - k - 1 /\ \A q \in 1 .. n - k - 1 : Tail(c)[q] = c[q + 1]
  BY <1>1, <1>2
<1>6. \A q \in 1 .. n - k - 1 : Tail(c)[q] = d[q]
  <2> SUFFICES ASSUME NEW q \in 1 .. n - k - 1 PROVE Tail(c)[q] = d[q]
    BY ZenonT(30)
  <2>1. q + 1 \in 1 .. n - k /\ k + (q + 1) = k + 1 + q
    BY <1>1
  <2> QED
    BY ZenonT(30), <1>2, <1>3, <1>5, <2>1
<1>7. Tail(c) = d
  BY <1>3, <1>5, <1>6, SameSeq
<1>8. Len(c) = 1 <=> k + 1 = n
  BY <1>1, <1>2
<1> QED
  BY <1>1, <1>4, <1>7, <1>8, Zenon DEF c, d

\* A thread that is writing writes the next piece of its text.
LEMMA SentGrows ==
  ASSUME NEW t \in Threads, Turns, to # "js", wire \in Seq(Symbols), NEW start, Sent(t, start, Len(wire)),
         WriteChunk(t)
  PROVE  /\ Sent(t, start, Len(wire))'
         /\ \E c \in Seq(Symbols) : wire' = wire \o c
<1> DEFINE m == message[t]
           cs == ChunksOf(m)
           text == Blob(from, m)
           end == Len(wire)
<1>1. /\ state[t] = "writing" /\ from' = from /\ to' = to /\ message' = message
      /\ wire' = wire \o Head(chunks[t])
      /\ chunks' = [chunks EXCEPT ![t] = Tail(chunks[t])]
      /\ state' = [state EXCEPT ![t] = IF Len(chunks[t]) = 1 THEN "written" ELSE state[t]]
  BY Zenon DEF WriteChunk
<1>2. m \in Messages /\ IsTable(chunks) /\ IsTable(state)
  BY DEF Turns, IsTable
<1>3. /\ cs \in Seq(Seq(Symbols)) /\ Len(cs) \in Nat \ {0} /\ Before(m, Len(cs)) = Len(text)
      /\ \A k \in 0 .. Len(cs) - 1 : IsPiece(m, k)
  BY <1>2, Pieces, Zenon
<1>4. /\ start \in Nat /\ end \in Nat /\ start <= end
      /\ \A q \in 1 .. end - start : wire[start + q] = text[q]
  BY Zenon DEF Sent
<1>5. PICK k \in 0 .. Len(cs) - 1 : Waiting(t, k) /\ end = start + Before(m, k)
  BY <1>1, Zenon DEF Sent
<1>6. chunks[t] = SubSeq(cs, k + 1, Len(cs))
  BY <1>5, Zenon DEF Waiting
<1> DEFINE piece == cs[k + 1]
<1>7. /\ Before(m, k) \in Nat /\ Before(m, k + 1) \in Nat
      /\ piece \in Seq(Symbols) /\ Len(piece) = Before(m, k + 1) - Before(m, k)
      /\ Before(m, k) < Len(text) /\ Before(m, k + 1) <= Len(text)
      /\ \A q \in 1 .. Len(piece) : piece[q] = text[Before(m, k) + q]
  BY <1>3, Zenon DEF IsPiece
<1>8. chunks'[t] = Tail(chunks[t]) /\ state'[t] = IF Len(chunks[t]) = 1 THEN "written" ELSE state[t]
  <2> DEFINE v == IF Len(chunks[t]) = 1 THEN "written" ELSE state[t]
             w == Tail(chunks[t])
  <2>1. chunks' = [chunks EXCEPT ![t] = w] /\ state' = [state EXCEPT ![t] = v]
    BY <1>1, Zenon
  <2> HIDE DEF v, w
  <2>2. chunks'[t] = w
    BY <1>2, <2>1, TableExcept, Zenon DEF Replaced
  <2>3. state'[t] = v
    BY <1>2, <2>1, TableExcept, Zenon DEF Replaced
  <2> QED
    BY <2>2, <2>3 DEF v, w
<1>9. ChunksOf(m)' = cs /\ Blob(from, m)' = text /\ \A j : Before(m, j)' = Before(m, j)
  <2>1. ChunksOf(m)' = cs
    BY <1>1 DEF ChunksOf
  <2> QED
    BY <1>1, <2>1, Zenon DEF Before
<1>10. /\ \A j : Waiting(t, j)' = (chunks'[t] = SubSeq(cs, j + 1, Len(cs)))
  BY <1>1, <1>9, Zenon DEF Waiting
<1>11. /\ Head(chunks[t]) = piece /\ Tail(chunks[t]) = SubSeq(cs, k + 2, Len(cs))
       /\ Len(chunks[t]) = 1 <=> k + 1 = Len(cs)
  BY <1>3, <1>6, NextWrite, Zenon
<1> HIDE DEF m, cs, text, piece, end
<1>12. PICK x \in Nat, y \in Nat, size \in Nat, n \in Nat : x = Before(m, k) /\ y = Before(m, k + 1) /\ size = Len(text) /\ n = Len(cs)
  <2>1. Len(text) \in Nat
    BY <1>2, TextLength DEF text
  <2> QED
    BY <1>3, <1>7, <2>1, Zenon
<1>13. /\ Len(wire') = end + (y - x) /\ y - x \in Nat /\ Len(wire') = start + y
       /\ \A q \in 1 .. end : wire'[q] = wire[q]
       /\ \A q \in 1 .. y - x : wire'[end + q] = piece[q]
  <2>1. wire' = wire \o piece /\ Len(wire) = end
    BY ZenonT(30), <1>1, <1>11 DEF end
  <2>2. /\ Len(wire') = end + Len(piece)
        /\ \A q \in 1 .. end : wire'[q] = wire[q]
        /\ \A q \in 1 .. Len(piece) : wire'[end + q] = piece[q]
    <3>1. /\ Len(wire \o piece) = Len(wire) + Len(piece)
          /\ \A q \in 1 .. Len(wire) : (wire \o piece)[q] = wire[q]
          /\ \A q \in 1 .. Len(piece) : (wire \o piece)[Len(wire) + q] = piece[q]
      <4>1. piece \in Seq(Symbols)
        BY <1>7
      <4>2. Len(wire \o piece) = Len(wire) + Len(piece)
        BY <4>1
      <4>3. \A q \in 1 .. Len(wire) : (wire \o piece)[q] = wire[q]
        BY <4>1
      <4>4. \A q \in 1 .. Len(piece) : (wire \o piece)[Len(wire) + q] = piece[q]
        BY <4>1
      <4> QED
        BY <4>2, <4>3, <4>4
    <3> QED
      BY <2>1, <3>1, Zenon
  <2>3. Len(piece) = y - x /\ y - x \in Nat /\ end = start + x
    BY <1>5, <1>7, <1>12
  <2>4. end + (y - x) = start + y
    BY <1>4, <1>12, <2>3
  <2> QED
    BY <2>2, <2>3, <2>4, Zenon
<1>14. \A q \in 1 .. y : wire'[start + q] = text[q]
  <2> SUFFICES ASSUME NEW q \in 1 .. y PROVE wire'[start + q] = text[q]
    OBVIOUS
  <2>1. CASE q <= x
    <3>1. q \in 1 .. end - start /\ start + q \in 1 .. end
      BY <1>4, <1>5, <1>12, <2>1
    <3> QED
      BY <1>4, <1>13, <3>1, Zenon
  <2>2. CASE q > x
    <3>1. PICK z \in 1 .. y - x : q = x + z
      <4>1. q - x \in 1 .. y - x /\ q = x + (q - x)
        BY <2>2
      <4> QED
        BY <4>1, Zenon
    <3>2. start + q = end + z
      BY <1>4, <1>5, <1>12, <3>1
    <3>3. piece[z] = text[x + z]
      BY <1>7, <1>12, <3>1
    <3> QED
      BY <1>13, <3>1, <3>2, <3>3
  <2> QED
    BY <1>12, <2>1, <2>2
<1>15. /\ start <= Len(wire') /\ Len(wire') \in Nat /\ Len(wire') <= start + size /\ Len(wire') - start = y
       /\ Len(wire') = start + size <=> y = size
  <2>1. y <= size /\ Len(wire') = start + y /\ start \in Nat
    BY <1>4, <1>7, <1>12, <1>13, Zenon
  <2> QED
    BY <2>1
<1>16. state'[t] = "written" <=> y = size
  <2>1. CASE k + 1 = n
    BY <1>3, <1>8, <1>11, <1>12, <2>1
  <2>2. CASE k + 1 # n
    <3>1. k + 1 \in 0 .. Len(cs) - 1 /\ state'[t] # "written"
      BY <1>1, <1>8, <1>11, <1>12, <2>2
    <3>2. Before(m, k + 1) < Len(text)
      BY <1>3, <3>1, Zenon DEF IsPiece, text
    <3> QED
      BY <1>12, <3>1, <3>2
  <2> QED
    BY <2>1, <2>2
<1>17. ASSUME state'[t] = "writing"
       PROVE  \E j \in 0 .. Len(cs) - 1 : Waiting(t, j)' /\ Len(wire') = start + Before(m, j)'
  <2>1. k + 1 \in 0 .. Len(cs) - 1 /\ k + 2 = (k + 1) + 1
    BY <1>8, <1>11, <1>12, <1>17
  <2>2. Waiting(t, k + 1)'
    BY <1>8, <1>10, <1>11, <2>1, Zenon
  <2> QED
    BY <1>9, <1>12, <1>13, <2>1, <2>2, Zenon
<1>18. Sent(t, start, Len(wire))'
  <2>1. message'[t] = m /\ Blob(from', m) = text
    BY <1>1 DEF m, text
  <2>2. ChunksOf(message[t])' = cs /\ \A j : Before(message[t], j)' = Before(m, j)'
    BY <1>1, <1>9, <2>1 DEF m
  <2>3. Len(wire') <= Len(wire')
    BY <1>15
  <2>4. /\ Len(wire') <= start + Len(Blob(from', message'[t]))
        /\ \A q \in 1 .. Len(wire') - start : wire'[start + q] = Blob(from', message'[t])[q]
        /\ state'[t] = "written" <=> Len(wire') = start + Len(Blob(from', message'[t]))
    BY <1>12, <1>14, <1>15, <1>16, <2>1, Zenon
  <2>5. state'[t] = "writing" =>
          \E j \in 0 .. Len(ChunksOf(message[t])') - 1 :
             Waiting(t, j)' /\ Len(wire') = start + Before(message[t], j)'
    BY <1>17, <2>2, Zenon
  <2> QED
    BY <1>4, <1>15, <2>3, <2>4, <2>5, Zenon DEF Sent
<1> QED
  BY <1>1, <1>7, <1>11, <1>18, Zenon

\* A step of the writer that turns a stream laid out as off says into one laid out as new
\* says: messages keep their place, and only one that was being written grows.
Grown(off, new) ==
  /\ \/ Len(order') = Len(order) /\ (wire' # wire => Len(order) > 0 /\ state[order[Len(order)]] = "writing")
     \/ Len(order') = Len(order) + 1 /\ wire' = wire /\ new[Len(order) + 1] = Len(wire)
  /\ \A i \in 1 .. Len(order) :
       /\ order'[i] = order[i] /\ new[i] = off[i] /\ Upto(off, i) <= Upto(new, i)'
       /\ state[order[i]] = "written" => state'[order[i]] = "written"

\* A thread that gets the mutex starts its message where the wire ends.
LEMMA LaidEnter ==
  ASSUME Turns, to # "js", NEW off, Laid(off), NEW t \in Threads, Enter(t)
  PROVE  \E new : Laid(new)' /\ Grown(off, new)
<1>1. /\ state[t] = "idle" /\ state' = [state EXCEPT ![t] = "writing"] /\ order' = Append(order, t)
      /\ from' = from /\ to' = to /\ message' = message /\ chunks' = chunks /\ wire' = wire
  BY DEF Enter, EnterMutex
<1>2. /\ order \in Seq(Threads) /\ message[t] \in Messages /\ state \in [Threads -> States]
      /\ \A i \in 1 .. Len(order) : order[i] \in Threads /\ state[order[i]] # "idle"
  BY DEF Turns
<1>3. /\ wire \in Seq(Symbols) /\ off \in [1 .. Len(order) -> Nat]
      /\ \A i \in 1 .. Len(order) : Sent(order[i], off[i], Upto(off, i))
      /\ \A u \in Threads : state[u] = "idle" => chunks[u] = ChunksOf(message[u])
  BY Zenon DEF Laid
<1>4. PICK n \in Nat : n = Len(order)
  BY <1>2
<1>5. PICK w \in Nat : w = Len(wire)
  BY <1>3
<1>6. PICK new : new = [i \in 1 .. n + 1 |-> IF i <= n THEN off[i] ELSE w]
  BY ZenonT(30)
<1>7. new \in [1 .. n + 1 -> Nat] /\ new[n + 1] = w /\ \A i \in 1 .. n : new[i] = off[i]
  BY <1>3, <1>4, <1>6
<1>8. /\ order' \in Seq(Threads) /\ Len(order') = n + 1 /\ order'[n + 1] = t
      /\ \A i \in 1 .. n : order'[i] = order[i]
  BY <1>1, <1>2, <1>4
<1>9. \A i \in 1 .. n : order[i] # t /\ state'[order[i]] = state[order[i]]
  BY <1>1, <1>2, <1>4
<1>10. \A i \in 1 .. n : Upto(new, i)' = Upto(off, i) /\ Upto(off, i) \in Nat
  <2> SUFFICES ASSUME NEW i \in 1 .. n PROVE Upto(new, i)' = Upto(off, i) /\ Upto(off, i) \in Nat
    OBVIOUS
  <2>1. Upto(new, i)' = IF i < n + 1 THEN new[i + 1] ELSE w
    BY <1>1, <1>5, <1>8 DEF Upto
  <2>2. Upto(off, i) = IF i < n THEN off[i + 1] ELSE w
    BY <1>4, <1>5 DEF Upto
  <2>3. CASE i < n
    <3>1. i + 1 \in 1 .. n /\ i < n + 1
      BY <2>3
    <3> QED
      BY <1>3, <1>4, <1>7, <2>1, <2>2, <2>3, <3>1
  <2>4. CASE i = n
    BY <1>7, <2>1, <2>2, <2>4
  <2> QED
    BY <2>3, <2>4
<1>11. \A i \in 1 .. n : Sent(order[i], new[i], Upto(new, i))'
  <2> SUFFICES ASSUME NEW i \in 1 .. n PROVE Sent(order[i], new[i], Upto(new, i))'
    OBVIOUS
  <2>1. PICK u, start, end : u = order[i] /\ start = off[i] /\ end = Upto(off, i)
    OBVIOUS
  <2>2. Sent(u, start, end) /\ state'[u] = state[u] /\ chunks'[u] = chunks[u]
    BY <1>1, <1>3, <1>4, <1>9, <2>1, Zenon
  <2>3. Sent(u, start, end)'
    BY <1>1, <2>2, SentSame, Zenon
  <2>4. order'[i] = u /\ new[i] = start /\ Upto(new, i)' = end
    BY <1>7, <1>8, <1>10, <2>1, Zenon
  <2> QED
    BY <2>3, <2>4, Zenon
<1>12. Sent(t, w, w)'
  <2> DEFINE m == message[t]
             cs == ChunksOf(m)
  <2>1. cs \in Seq(Seq(Symbols)) /\ Len(cs) \in Nat \ {0} /\ Before(m, 0) = 0
    BY <1>2, Pieces, Zenon
  <2>2. Len(Blob(from, m)) \in Nat \ {0}
    BY <1>2, TextLength, Zenon
  <2>3. ChunksOf(m)' = cs /\ Before(m, 0)' = Before(m, 0)
    <3>1. ChunksOf(m)' = cs
      BY <1>1 DEF ChunksOf
    <3> QED
      BY <1>1, <3>1, Zenon DEF Before
  <2>4. chunks[t] = cs /\ state'[t] = "writing"
    BY <1>1, <1>2, <1>3
  <2> HIDE DEF cs, m
  <2>5. cs = SubSeq(cs, 0 + 1, Len(cs)) /\ 0 \in 0 .. Len(cs) - 1
    BY <2>1
  <2>6. /\ w <= w /\ w <= w + Len(Blob(from, m)) /\ w # w + Len(Blob(from, m)) /\ w = w + 0
        /\ 1 .. w - w = {}
    BY <2>2
  <2>7. Waiting(t, 0)'
    BY <1>1, <2>3, <2>4, <2>5, Zenon DEF Waiting, m
  <2>8. \E k \in 0 .. Len(ChunksOf(message[t])') - 1 : Waiting(t, k)' /\ w = w + Before(message[t], k)'
    BY <1>1, <2>1, <2>3, <2>5, <2>6, <2>7, Zenon DEF m
  <2>9. state'[t] # "written"
    BY <2>4
  <2>10. Len(wire') = w /\ Blob(from', message'[t]) = Blob(from, m)
    BY <1>1, <1>5 DEF m
  <2> QED
    BY <2>4, <2>6, <2>8, <2>9, <2>10, Zenon DEF Sent
<1>13. \A i \in 1 .. n + 1 : Sent(order[i], new[i], Upto(new, i))'
  <2>1. order'[n + 1] = t /\ new[n + 1] = w /\ Upto(new, n + 1)' = w
    BY <1>1, <1>5, <1>7, <1>8 DEF Upto
  <2>2. \A i \in 1 .. n + 1 : i \in 1 .. n \/ i = n + 1
    OBVIOUS
  <2>3. Sent(order[n + 1], new[n + 1], Upto(new, n + 1))'
    BY <1>12, <2>1, Zenon
  <2> QED
    BY <1>11, <2>2, <2>3, Zenon
<1>14. \A u \in Threads : state'[u] = "idle" => chunks'[u] = ChunksOf(message[u])'
  <2>1. \A u \in Threads : state'[u] = "idle" => state[u] = "idle"
    BY <1>1, <1>2
  <2>2. \A u \in Threads : ChunksOf(message[u])' = ChunksOf(message[u])
    BY <1>1 DEF ChunksOf
  <2> QED
    BY <1>1, <1>3, <2>1, <2>2, Zenon
<1>15. Laid(new)'
  BY <1>1, <1>3, <1>7, <1>8, <1>13, <1>14, Zenon DEF Laid
<1>16. Grown(off, new)
  <2>1. \A i \in 1 .. n : Upto(off, i) <= Upto(new, i)'
    BY <1>10
  <2>2. Len(order') = Len(order) + 1 /\ wire' = wire /\ new[Len(order) + 1] = Len(wire)
    BY <1>1, <1>4, <1>5, <1>7, <1>8, Zenon
  <2>3. \A i \in 1 .. Len(order) :
          /\ order'[i] = order[i] /\ new[i] = off[i] /\ Upto(off, i) <= Upto(new, i)'
          /\ state[order[i]] = "written" => state'[order[i]] = "written"
    BY <1>4, <1>7, <1>8, <1>9, <2>1, Zenon
  <2> QED
    BY <2>2, <2>3, Zenon DEF Grown
<1> QED
  BY <1>15, <1>16

\* A write adds the next chunk of the message to the wire, and nothing to the others.
LEMMA LaidWrite ==
  ASSUME Turns, to # "js", NEW off, Laid(off), NEW t \in Threads, WriteChunk(t)
  PROVE  Laid(off)' /\ Grown(off, off)
<1>1. /\ state[t] = "writing" /\ open /\ from' = from /\ to' = to /\ message' = message /\ order' = order
      /\ chunks' = [chunks EXCEPT ![t] = Tail(chunks[t])]
      /\ state' = [state EXCEPT ![t] = IF Len(chunks[t]) = 1 THEN "written" ELSE state[t]]
  BY Zenon DEF WriteChunk
<1>2. /\ order \in Seq(Threads) /\ IsTable(chunks) /\ IsTable(state)
      /\ \A i, j \in 1 .. Len(order) : order[i] = order[j] => i = j
      /\ \A i \in 1 .. Len(order) : order[i] \in Threads
  BY DEF Turns, IsTable
<1>3. /\ wire \in Seq(Symbols) /\ off \in [1 .. Len(order) -> Nat]
      /\ \A i \in 1 .. Len(order) : Sent(order[i], off[i], Upto(off, i))
      /\ \A u \in Threads : state[u] = "idle" => chunks[u] = ChunksOf(message[u])
  BY Zenon DEF Laid
<1>4. PICK n \in Nat \ {0} : n = Len(order) /\ order[n] = t
  <2>1. PICK i \in 1 .. Len(order) : order[i] = t
    BY <1>1, Zenon DEF Turns
  <2>2. i = Len(order)
    BY <1>1, <2>1, Zenon DEF Turns
  <2> QED
    BY <1>2, <2>1, <2>2
<1>5. /\ \A u \in Threads \ {t} : state'[u] = state[u] /\ chunks'[u] = chunks[u]
      /\ state'[t] = IF Len(chunks[t]) = 1 THEN "written" ELSE state[t]
  <2> DEFINE v == IF Len(chunks[t]) = 1 THEN "written" ELSE state[t]
             c == Tail(chunks[t])
  <2>1. chunks' = [chunks EXCEPT ![t] = c] /\ state' = [state EXCEPT ![t] = v]
    BY <1>1, Zenon
  <2> HIDE DEF v, c
  <2>2. IsTable(chunks) /\ IsTable(state)
    BY <1>2
  <2>3. Replaced(chunks, chunks', t, c)
    BY <2>1, <2>2, TableExcept, Zenon
  <2>4. Replaced(state, state', t, v)
    BY <2>1, <2>2, TableExcept, Zenon
  <2> QED
    BY <2>3, <2>4, Zenon DEF v, Replaced
<1>6. Upto(off, n) = Len(wire) /\ Upto(off, n)' = Len(wire')
  BY <1>1, <1>4 DEF Upto
<1>7. Sent(t, off[n], Len(wire))' /\ \E c \in Seq(Symbols) : wire' = wire \o c
  <2>1. Sent(t, off[n], Len(wire))
    BY <1>3, <1>4, <1>6
  <2>2. PICK start : start = off[n]
    OBVIOUS
  <2>3. Sent(t, start, Len(wire))' /\ \E c \in Seq(Symbols) : wire' = wire \o c
    BY <1>3, <2>1, <2>2, SentGrows, Zenon
  <2> QED
    BY <2>2, <2>3, Zenon
<1>8. PICK c \in Seq(Symbols) : wire' = wire \o c
  BY <1>7
<1>9. wire' \in Seq(Symbols) /\ Len(wire) <= Len(wire')
  BY <1>3, <1>8
<1>10. \A i \in 1 .. n : i # n => /\ i \in 1 .. Len(order) /\ order[i] \in Threads \ {t}
                                  /\ state[order[i]] = "written" /\ state'[order[i]] = "written"
                                  /\ Upto(off, i)' = Upto(off, i)
  <2> SUFFICES ASSUME NEW i \in 1 .. n, i # n
               PROVE  /\ i \in 1 .. Len(order) /\ order[i] \in Threads \ {t}
                      /\ state[order[i]] = "written" /\ state'[order[i]] = "written"
                      /\ Upto(off, i)' = Upto(off, i)
    OBVIOUS
  <2>1. i \in 1 .. Len(order) /\ n \in 1 .. Len(order) /\ i # Len(order) /\ i < Len(order)
    BY <1>4
  <2>2. order[i] \in Threads \ {t}
    BY <1>2, <1>4, <2>1
  <2>3. state[order[i]] = "written"
    BY <1>1, <2>1, EarlierWritten, Zenon
  <2>4. Upto(off, i)' = Upto(off, i)
    BY <1>1, <2>1, Zenon DEF Upto
  <2> QED
    BY <1>5, <2>1, <2>2, <2>3, <2>4, Zenon
<1>11. ASSUME NEW i \in 1 .. n PROVE Sent(order[i], off[i], Upto(off, i))'
  <2>1. CASE i = n
    BY <1>1, <1>4, <1>6, <1>7, <2>1, Zenon
  <2>2. CASE i # n
    <3>1. PICK u, start, end : u = order[i] /\ start = off[i] /\ end = Upto(off, i)
      OBVIOUS
    <3>2. Sent(u, start, end) /\ state[u] = "written" /\ state'[u] = "written"
      BY <1>3, <1>4, <1>10, <2>2, <3>1, Zenon
    <3>3. Sent(u, start, end)'
      BY <1>1, <1>3, <1>8, <3>2, SentStays, Zenon
    <3>4. order'[i] = u /\ Upto(off, i)' = end
      BY <1>1, <1>10, <2>2, <3>1, Zenon
    <3> QED
      BY <3>1, <3>3, <3>4, Zenon
  <2> QED
    BY <2>1, <2>2
<1>12. \A u \in Threads : state'[u] = "idle" => chunks'[u] = ChunksOf(message[u])'
  <2>1. state'[t] # "idle"
    BY <1>1, <1>5
  <2>2. \A u \in Threads : ChunksOf(message[u])' = ChunksOf(message[u])
    BY <1>1 DEF ChunksOf
  <2> QED
    BY <1>3, <1>5, <2>1, <2>2, Zenon
<1>13. Laid(off)'
  BY <1>1, <1>3, <1>4, <1>9, <1>11, <1>12, Zenon DEF Laid
<1>14. Grown(off, off)
  <2>1. \A i \in 1 .. n : Upto(off, i) <= Upto(off, i)'
    <3> SUFFICES ASSUME NEW i \in 1 .. n PROVE Upto(off, i) <= Upto(off, i)'
      OBVIOUS
    <3>1. Upto(off, i) \in Nat
      BY <1>3, <1>4, Zenon DEF Sent
    <3> QED
      BY <1>6, <1>9, <1>10, <3>1
  <2>2. \A i \in 1 .. n : state[order[i]] = "written" => state'[order[i]] = "written"
    <3>1. state[order[n]] # "written"
      BY <1>1, <1>4
    <3> QED
      BY <1>10, <3>1, Zenon
  <2>3. Len(order') = Len(order) /\ Len(order) > 0 /\ state[order[Len(order)]] = "writing"
    BY <1>1, <1>4
  <2> QED
    BY <1>1, <1>4, <2>1, <2>2, <2>3, Zenon DEF Grown
<1> QED
  BY <1>13, <1>14

\* A failed write, the end of the stream and the readers add nothing to the wire.
LEMMA LaidRest ==
  ASSUME Turns, to # "js", NEW off, Laid(off),
         (\E t \in Threads : WriteFails(t)) \/ CloseStream \/ UNCHANGED vars \/ Reads
  PROVE  Laid(off)' /\ Grown(off, off)
<1>1. from' = from /\ to' = to /\ message' = message /\ order' = order /\ chunks' = chunks /\ wire' = wire
  <2>1. CASE Reads
    BY <2>1, ReaderOnly, Zenon
  <2> QED
    BY <2>1, Zenon DEF WriteFails, FailLeaving, CloseStream, vars, writer
<1>2. \A u \in Threads : state'[u] = state[u] \/ (state[u] = "writing" /\ state'[u] = "failed")
  <2>1. CASE Reads
    BY <2>1, ReaderOnly, Zenon
  <2>2. ASSUME NEW t \in Threads, WriteFails(t)
        PROVE  \A u \in Threads : state'[u] = state[u] \/ (state[u] = "writing" /\ state'[u] = "failed")
    <3>1. state \in [Threads -> States] /\ state[t] = "writing" /\ state' = [state EXCEPT ![t] = "failed"]
      BY <2>2, Zenon DEF WriteFails, FailLeaving, Turns
    <3> QED
      BY <3>1
  <2>3. CASE CloseStream \/ UNCHANGED vars
    BY <2>3, Zenon DEF CloseStream, vars, writer
  <2> QED
    BY <2>1, <2>2, <2>3
<1>3. /\ wire \in Seq(Symbols) /\ off \in [1 .. Len(order) -> Nat]
      /\ \A i \in 1 .. Len(order) : Sent(order[i], off[i], Upto(off, i))
      /\ \A u \in Threads : state[u] = "idle" => chunks[u] = ChunksOf(message[u])
  BY Zenon DEF Laid
<1>4. \A i \in 1 .. Len(order) : order[i] \in Threads
  BY DEF Turns
<1>5. \A i : Upto(off, i)' = Upto(off, i)
  BY <1>1, Zenon DEF Upto
<1>6. ASSUME NEW u \in Threads, NEW start, NEW end, Sent(u, start, end) PROVE Sent(u, start, end)'
  <2>1. CASE state'[u] = state[u]
    BY <1>1, <1>6, <2>1, SentSame, Zenon
  <2>2. CASE state[u] = "writing" /\ state'[u] = "failed"
    <3>1. state'[u] # "writing" /\ state'[u] # "written" /\ state[u] # "written"
      BY <2>2
    <3> QED
      BY <1>1, <1>6, <3>1, Zenon DEF Sent
  <2> QED
    BY <1>2, <2>1, <2>2, Zenon
<1>7. \A i \in 1 .. Len(order) : Sent(order[i], off[i], Upto(off, i))'
  <2> SUFFICES ASSUME NEW i \in 1 .. Len(order) PROVE Sent(order[i], off[i], Upto(off, i))'
    OBVIOUS
  <2>1. PICK u, start, end : u = order[i] /\ start = off[i] /\ end = Upto(off, i)
    OBVIOUS
  <2>2. Sent(u, start, end)'
    BY <1>3, <1>4, <1>6, <2>1, Zenon
  <2>3. order'[i] = u /\ Upto(off, i)' = end
    BY <1>1, <1>5, <2>1, Zenon
  <2> QED
    BY <2>1, <2>2, <2>3, Zenon
<1>8. \A u \in Threads : state'[u] = "idle" => chunks'[u] = ChunksOf(message[u])'
  <2>1. \A u \in Threads : state'[u] = "idle" => state[u] = "idle"
    BY <1>2
  <2>2. \A u \in Threads : ChunksOf(message[u])' = ChunksOf(message[u])
    BY <1>1 DEF ChunksOf
  <2> QED
    BY <1>1, <1>3, <2>1, <2>2, Zenon
<1>9. Laid(off)'
  BY <1>1, <1>3, <1>7, <1>8, Zenon DEF Laid
<1>10. Grown(off, off)
  <2>1. \A i \in 1 .. Len(order) : Upto(off, i) <= Upto(off, i)'
    <3>1. \A i \in 1 .. Len(order) : Upto(off, i) \in Nat
      BY <1>3, Zenon DEF Sent
    <3> QED
      BY <1>5, <3>1
  <2>2. \A i \in 1 .. Len(order) : state[order[i]] = "written" => state'[order[i]] = "written"
    BY <1>2, <1>4
  <2> QED
    BY <1>1, <2>1, <2>2, Zenon DEF Grown
<1> QED
  BY <1>9, <1>10

-----------------------------------------------------------------------------
(* Where the reader of a stream is.                                        *)

\* The headers that it finds in the text of m.
HeadersOf(m) == Built("go", Assembled(from, m))

\* It has read p symbols of the text of m: some headers, or all of them, the blank line
\* and some lines of a paragraph, or all of them and the blank line.
InHeaders(m, p) ==
  p <= Len(Assembled(from, m)) /\ headers = SubSeq(HeadersOf(m), 1, p) /\ body = <<>>
InParagraph(m, p) ==
  /\ headers = HeadersOf(m) /\ LengthOf(m) = Absent
  /\ \E j \in 0 .. Len(m.body) :
       /\ p = Len(Assembled(from, m)) + 1 + j /\ body = SubSeq(m.body, 1, j)
       /\ j = 0 \/ m.body[j] = NL
InLength(m, p) ==
  p = Len(Assembled(from, m)) + 1 /\ headers = HeadersOf(m) /\ LengthOf(m) # Absent

\* It is in the message of t, of which all that was written lies between start and end.
InMessage(t, start, end) ==
  /\ at \in Nat /\ start <= at /\ at <= end
  /\ reader = "headers" => InHeaders(message[t], at - start)
  /\ reader = "paragraph" => InParagraph(message[t], at - start)
  /\ reader = "length" => InLength(message[t], at - start)

\* It returns the message of t, all of which was written, and is where that ends.
Done(t, end) ==
  /\ state[t] = "written"
  /\ received' = Append(received, Expected(message[t]))
  /\ at' = end /\ reader' = "headers" /\ headers' = <<>> /\ body' = <<>>

\* readUntil stops at the first end of a line.
LEMMA FirstLineEnd ==
  ASSUME at \in Nat, Len(wire) \in Nat, NEW e \in at + 1 .. Len(wire), EndsLine(wire[e]),
         \A i \in at + 1 .. e - 1 : ~ EndsLine(wire[i])
  PROVE  LineEnds # {} /\ Min(LineEnds) = e
<1>1. LineEnds = {i \in at + 1 .. Len(wire) : EndsLine(wire[i])}
  BY DEF LineEnds
<1>2. e \in LineEnds
  BY <1>1
<1>3. \A y \in LineEnds : y \in at + 1 .. Len(wire) /\ EndsLine(wire[y])
  BY <1>1
<1>4. LineEnds \in SUBSET Nat
  BY <1>3
<1>5. \A y \in LineEnds : e <= y
  <2> SUFFICES ASSUME NEW y \in LineEnds, ~ (e <= y) PROVE FALSE
    OBVIOUS
  <2>1. y \in at + 1 .. e - 1
    BY <1>3
  <2> QED
    BY <1>3, <2>1
<1> QED
  BY <1>2, <1>4, <1>5, MinMaxKnown

\* What is left of a message that is not all on the wire is all that is left of the wire,
\* so what comes next on the wire is what comes next in the message.
ComesNext(t, start, end, p) ==
  start + p < end /\ wire[start + p + 1] = Blob(from, message[t])[p + 1]

\* A reader that has not come to the end of the wire sees the next symbol of the message
\* it is in, as no other message starts before this one is written.
LEMMA MoreToCome ==
  ASSUME NEW t, NEW start, NEW end, Sent(t, start, end), message[t] \in Messages, NEW p \in Nat,
         start + p < Len(wire), start + p <= end, p < Len(Blob(from, message[t])),
         wire \in Seq(Symbols)
  PROVE  ComesNext(t, start, end, p)
<1>1. PICK size \in Nat : size = Len(Blob(from, message[t]))
  BY TextLength
<1>2. /\ start \in Nat /\ end \in Nat /\ start <= end /\ end <= Len(wire)
      /\ \A q \in 1 .. end - start : wire[start + q] = Blob(from, message[t])[q]
      /\ state[t] = "written" <=> end = start + size
      /\ state[t] # "written" => end = Len(wire)
  BY <1>1, Zenon DEF Sent
<1>3. Len(wire) \in Nat
  OBVIOUS
<1>4. start + p < end
  BY <1>1, <1>2, <1>3
<1>5. p + 1 \in 1 .. end - start /\ start + (p + 1) = start + p + 1
  BY <1>2, <1>4
<1> QED
  BY <1>2, <1>4, <1>5 DEF ComesNext

\* A body without Content-Length is empty or a paragraph of lines that are not blank.
LEMMA FramedParagraph ==
  ASSUME NEW m \in Messages, Unambiguous(m), LengthOf(m) = Absent
  PROVE  /\ Len(m.body) > 0 => m.body[Len(m.body)] = NL
         /\ \A i \in 1 .. Len(m.body) : m.body[i] = NL => i > 1 /\ m.body[i - 1] = X
<1>1. m.body \in Seq({NL, CR, X}) /\ m.how \in {"content", "raw"}
  BY MessageParts, Zenon
<1>2. Len(m.body) \in Nat /\ DOMAIN m.body = 1 .. Len(m.body)
  BY <1>1
<1>3. LengthOf(m) # Len(m.body)
  BY <1>2 DEF Absent
<1>4. m.how # "content"
  BY <1>3 DEF LengthOf
<1>5. /\ m.body = <<>> \/ m.body[Len(m.body)] = NL
      /\ \A i \in DOMAIN m.body : m.body[i] = NL => i > 1 /\ m.body[i - 1] = X
  BY <1>3, <1>4, Zenon DEF Unambiguous, Framed
<1>6. m.body = <<>> => Len(m.body) = 0
  BY <1>1
<1> QED
  BY <1>2, <1>5, <1>6

\* The line of a header is parsed to that header, with its name canonical.
LEMMA HeaderParsed ==
  ASSUME NEW x \in Header
  PROVE  /\ ~ IsBlank(<<x>>) /\ HasColon(<<x>>)
         /\ ParseHeader(<<x>>) = [name |-> Canonical(x.name), value |-> x.value]
<1>1. IsHeader(x) /\ x # NL /\ x # X
  BY SymbolsDiffer DEF IsHeader
<1>2. Len(<<x>>) = 1 /\ <<x>>[1] = x /\ DOMAIN <<x>> = {1}
  OBVIOUS
<1>3. HasColon(<<x>>)
  BY <1>1, <1>2, Zenon DEF HasColon
<1>4. ~ IsBlank(<<x>>)
  <2>1. <<x>> # <<NL>> /\ <<x>> # <<CR, NL>>
    BY <1>1
  <2> QED
    BY <2>1 DEF IsBlank
<1>5. ~ \E j \in DOMAIN <<x>> : <<x>>[j] = X
  BY <1>1, <1>2
<1>6. ParseHeader(<<x>>) = [x EXCEPT !.name = Canonical(x.name)]
  BY <1>2, <1>5, Zenon DEF ParseHeader
<1> QED
  BY <1>3, <1>4, <1>6 DEF Header

\* A line of one symbol that ends it.
LEMMA LineOfOne ==
  ASSUME wire \in Seq(Symbols), at \in Nat, at < Len(wire), EndsLine(wire[at + 1])
  PROVE  /\ LineEnds # {} /\ Min(LineEnds) = at + 1 /\ Line(at + 1) = <<wire[at + 1]>>
<1>1. at + 1 \in at + 1 .. Len(wire) /\ at + 1 .. (at + 1) - 1 = {} /\ Len(wire) \in Nat
  OBVIOUS
<1>2. LineEnds # {} /\ Min(LineEnds) = at + 1
  BY <1>1, FirstLineEnd, Zenon
<1>3. SubSeq(wire, at + 1, at + 1) = <<wire[at + 1]>>
  <2> DEFINE s == SubSeq(wire, at + 1, at + 1)
  <2>1. at + 1 <= Len(wire) /\ 1 \in Nat
    BY <1>1
  <2>2. s \in Seq(Symbols) /\ IsSlice(s, wire, at, 1)
    BY <2>1, Slice, Zenon
  <2> HIDE DEF s
  <2>3. s \in Seq(Symbols) /\ Len(s) = 1 /\ s[1] = wire[at + 1]
    BY <2>2 DEF IsSlice
  <2>4. s = <<wire[at + 1]>>
    BY <2>3
  <2> QED
    BY <2>4 DEF s
<1> QED
  BY <1>2, <1>3, Zenon DEF Line

\* A turn of readParagraph's loop in the headers of a framed message adds the next one, or
\* goes on to the body.
LEMMA HeaderStep ==
  ASSUME NEW t, NEW start, NEW end, Sent(t, start, end), message[t] \in Messages, Unambiguous(message[t]),
         wire \in Seq(Symbols), InMessage(t, start, end), ReadHeaderLine
  PROVE  InMessage(t, start, end)' /\ received' = received
<1> DEFINE m == message[t]
           out == Assembled(from, m)
           hs == HeadersOf(m)
           text == Blob(from, m)
<1>1. reader = "headers" /\ LineEnds # {} /\ from' = from /\ to' = to /\ message' = message /\ wire' = wire
  BY ReaderOnly, Zenon DEF ReadHeaderLine, Reads
<1>2. /\ at \in Nat /\ start \in Nat /\ end \in Nat /\ start <= at /\ at <= end
      /\ InHeaders(m, at - start)
  BY <1>1, Zenon DEF InMessage, Sent
<1>3. PICK p \in Nat : at = start + p /\ p = at - start
  BY <1>2
<1>4. /\ out \in Seq(Header) /\ hs \in Seq(Header) /\ DOMAIN hs = DOMAIN out
      /\ \A q \in DOMAIN out : hs[q] = [name |-> Canonical(out[q].name), value |-> out[q].value]
  <2>1. out \in Seq(Header) /\ "go" # "js"
    BY AssembledTyped, Zenon
  <2> QED
    BY <2>1, BuiltHeaders, Zenon DEF HeadersOf
<1>5. text \in Seq(Symbols) /\ IsText(text, out, m.body, Len(out), Len(m.body))
  BY TextParts, Zenon
<1>6. p <= Len(out) /\ headers = SubSeq(hs, 1, p) /\ body = <<>>
  BY <1>2, <1>3, Zenon DEF InHeaders
<1>7. LengthOf(m) \in {Absent, Len(m.body)} /\ Lookup(to, hs, LengthName) = LengthOf(m) /\ m.body \in Seq({NL, CR, X})
  BY FramedHeaders, FramedMeaning, MessageParts, Zenon DEF HeadersOf
<1>8. m' = m /\ HeadersOf(m)' = hs /\ Assembled(from, m)' = out /\ LengthOf(m)' = LengthOf(m)
  <2>1. m' = m
    BY <1>1, Zenon
  <2> HIDE DEF m
  <2>2. Assembled(from, m)' = out /\ LengthOf(m)' = LengthOf(m) /\ HeadersOf(m)' = hs
    BY <1>1, <2>1, Zenon DEF HeadersOf
  <2> QED
    BY <2>1, <2>2, Zenon
<1> HIDE DEF m, out, hs, text
<1>9. PICK h \in Nat, b \in Nat : h = Len(out) /\ b = Len(m.body) /\ DOMAIN out = 1 .. h /\ DOMAIN hs = 1 .. h /\ Len(hs) = h
  BY <1>4, <1>7
<1>10. Len(text) = h + b + 2 /\ text[h + 1] = NL /\ \A q \in 1 .. h : text[q] = out[q]
  BY <1>5, <1>9, Zenon DEF IsText
<1>11. at < Len(wire)
  <2>1. PICK e \in at + 1 .. Len(wire) : TRUE
    BY <1>1 DEF LineEnds
  <2> QED
    BY <1>2, <2>1
<1>12. at < end /\ wire[at + 1] = text[p + 1]
  <2>1. start + p < Len(wire) /\ start + p <= end /\ p < Len(text)
    BY <1>2, <1>3, <1>6, <1>9, <1>10, <1>11
  <2>2. start + p < end /\ wire[start + p + 1] = text[p + 1]
    <3>1. start + p < Len(wire) /\ start + p <= end /\ p < Len(Blob(from, message[t]))
      BY <2>1 DEF text, m
    <3>2. ComesNext(t, start, end, p)
      BY <3>1, MoreToCome, Zenon
    <3> QED
      BY <3>2, Zenon DEF ComesNext, text, m
  <2> QED
    BY <1>3, <2>2, Zenon
<1>14. CASE p < h
  <2>1. PICK x \in Header : x = out[p + 1] /\ text[p + 1] = x /\ hs[p + 1] = [name |-> Canonical(x.name), value |-> x.value]
    <3>1. p + 1 \in 1 .. h
      BY <1>14
    <3>2. out[p + 1] \in Header
      BY <1>4, <1>9, <3>1
    <3> QED
      BY <1>4, <1>9, <1>10, <3>1, <3>2, Zenon
  <2>2. EndsLine(wire[at + 1]) /\ wire[at + 1] = x
    BY <1>12, <2>1, SymbolsDiffer, Zenon DEF EndsLine
  <2>3. Min(LineEnds) = at + 1 /\ Line(at + 1) = <<x>>
    BY <1>2, <1>11, <2>2, LineOfOne, Zenon
  <2>4. ~ IsBlank(Line(at + 1)) /\ HasColon(Line(at + 1)) /\ ParseHeader(Line(at + 1)) = hs[p + 1]
    BY <2>1, <2>3, HeaderParsed, Zenon
  <2>5. /\ headers' = Append(headers, hs[p + 1]) /\ at' = at + 1
        /\ reader' = reader /\ body' = body /\ received' = received
    BY <2>3, <2>4, Zenon DEF ReadHeaderLine
  <2>6. Append(SubSeq(hs, 1, p), hs[p + 1]) = SubSeq(hs, 1, p + 1)
    BY <1>4, <1>9, <1>14
  <2>7. p + 1 <= h
    BY <1>14
  <2>8. InHeaders(m, p + 1)'
    BY <1>6, <1>8, <1>9, <2>5, <2>6, <2>7, Zenon DEF InHeaders
  <2>9. at' - start = p + 1 /\ at' \in Nat /\ start <= at' /\ at' <= end
    <3>1. at' = at + 1 /\ at \in Nat /\ start \in Nat /\ end \in Nat /\ at < end /\ at = start + p
      BY <1>2, <1>3, <1>12, <2>5, Zenon
    <3> QED
      BY <3>1
  <2>10. reader' # "paragraph" /\ reader' # "length" /\ message'[t] = m
    BY <1>1, <2>5 DEF m
  <2>11. InHeaders(message[t], at - start)'
    BY <1>8, <2>8, <2>9, <2>10, Zenon
  <2> QED
    BY <2>5, <2>9, <2>10, <2>11, Zenon DEF InMessage
<1>15. CASE p = h
  <2>1. EndsLine(wire[at + 1]) /\ wire[at + 1] = NL
    BY <1>10, <1>12, <1>15, Zenon DEF EndsLine
  <2>2. Min(LineEnds) = at + 1 /\ Line(at + 1) = <<NL>>
    BY <1>2, <1>11, <2>1, LineOfOne, Zenon
  <2>3. IsBlank(Line(at + 1))
    BY <2>2, Zenon DEF IsBlank
  <2>4. /\ reader' = IF HasLength(headers) THEN "length" ELSE "paragraph"
        /\ at' = at + 1 /\ headers' = headers /\ body' = body /\ received' = received
    BY <2>2, <2>3, Zenon DEF ReadHeaderLine
  <2>5. headers = hs
    BY <1>4, <1>6, <1>9, <1>15
  <2>6. HasLength(headers) <=> LengthOf(m) # Absent
    <3>1. b # Empty
      BY DEF Empty
    <3> QED
      BY <1>7, <1>9, <2>5, <3>1, Zenon DEF HasLength
  <2>7. at' - start = h + 1 /\ at' \in Nat /\ start <= at' /\ at' <= end
    <3>1. at' = at + 1 /\ at \in Nat /\ start \in Nat /\ end \in Nat /\ at < end /\ at = start + h
      BY <1>2, <1>3, <1>12, <1>15, <2>4, Zenon
    <3> QED
      BY <3>1
  <2>8. reader' # "headers" /\ message'[t] = m
    BY <1>1, <2>4 DEF m
  <2>9. reader' = "length" => InLength(m, h + 1)'
    <3>1. reader' = "length" => HasLength(headers)
      BY <2>4
    <3> QED
      BY <1>8, <1>9, <2>4, <2>5, <2>6, <3>1, Zenon DEF InLength
  <2>10. reader' = "paragraph" => InParagraph(m, h + 1)'
    <3>1. reader' = "paragraph" => ~ HasLength(headers)
      BY <2>4
    <3>2. 0 \in 0 .. Len(m.body) /\ h + 1 = h + 1 + 0 /\ <<>> = SubSeq(m.body, 1, 0)
      BY <1>7, <1>9
    <3> QED
      BY <1>6, <1>8, <1>9, <2>4, <2>5, <2>6, <3>1, <3>2, Zenon DEF InParagraph
  <2>11. /\ reader' = "length" => InLength(message[t], at - start)'
         /\ reader' = "paragraph" => InParagraph(message[t], at - start)'
    BY <1>8, <2>7, <2>8, <2>9, <2>10, Zenon
  <2> QED
    BY <2>4, <2>7, <2>8, <2>11, Zenon DEF InMessage
<1> QED
  BY <1>6, <1>9, <1>14, <1>15

\* One slice after another.
LEMMA Joined ==
  ASSUME NEW A, NEW s \in Seq(A), NEW j \in Nat, NEW i \in Nat, j <= i, i <= Len(s),
         NEW t \in Seq(A), Len(t) = i - j, \A q \in 1 .. i - j : t[q] = s[j + q]
  PROVE  SubSeq(s, 1, j) \o t = SubSeq(s, 1, i)
<1> DEFINE u == SubSeq(s, 1, j)
           v == SubSeq(s, 1, i)
<1>1. u \in Seq(A) /\ Len(u) = j /\ \A q \in 1 .. j : u[q] = s[q]
  OBVIOUS
<1>2. v \in Seq(A) /\ Len(v) = i /\ \A q \in 1 .. i : v[q] = s[q]
  OBVIOUS
<1> HIDE DEF u, v
<1>3. /\ u \o t \in Seq(A) /\ Len(u \o t) = i
      /\ \A q \in 1 .. j : (u \o t)[q] = u[q]
  BY <1>1
<1>4. \A q \in 1 .. Len(t) : (u \o t)[Len(u) + q] = t[q]
  BY <1>1
<1>5. \A q \in 1 .. i : (u \o t)[q] = v[q]
  <2> SUFFICES ASSUME NEW q \in 1 .. i PROVE (u \o t)[q] = v[q]
    BY ZenonT(30)
  <2>1. CASE q <= j
    BY <1>1, <1>2, <1>3, <2>1
  <2>2. CASE q > j
    <3>1. PICK z \in 1 .. i - j : q = j + z
      <4>1. q - j \in 1 .. i - j /\ q = j + (q - j)
        BY <2>2
      <4> QED
        BY <4>1, Zenon
    <3> QED
      BY <1>1, <1>2, <1>4, <3>1
  <2>3. q <= j \/ q > j
    OBVIOUS
  <2> QED
    BY <2>1, <2>2, <2>3, Zenon
<1>6. u \o t = v
  BY ZenonT(30), <1>2, <1>3, <1>5, SameSeq
<1> QED
  BY <1>6 DEF u, v

\* In a paragraph, the next line break after one, or after none, ends a line that is not
\* blank.
LEMMA NextBreak ==
  ASSUME NEW m \in Messages, Unambiguous(m), LengthOf(m) = Absent, NEW j \in 0 .. Len(m.body) - 1,
         j = 0 \/ m.body[j] = NL
  PROVE  \E i \in 1 .. Len(m.body) :
           /\ j + 2 <= i /\ m.body[i] = NL /\ m.body[i - 1] = X
           /\ \A q \in j + 1 .. i - 1 : m.body[q] # NL
<1> DEFINE bs == m.body
           breaks == {i \in 1 .. Len(bs) : j < i /\ bs[i] = NL}
<1>1. bs \in Seq({NL, CR, X}) /\ Len(bs) \in Nat
  BY MessageParts, Zenon
<1>2. /\ Len(bs) > 0 => bs[Len(bs)] = NL
      /\ \A i \in 1 .. Len(bs) : bs[i] = NL => i > 1 /\ bs[i - 1] = X
  BY FramedParagraph, Zenon
<1> HIDE DEF bs
<1>3. breaks \in SUBSET Nat /\ Len(bs) \in breaks
  BY <1>1, <1>2 DEF bs
<1>4. PICK i \in breaks : \A y \in breaks : i <= y
  BY <1>3, LeastNat, Zenon
<1>5. i \in 1 .. Len(bs) /\ j < i /\ bs[i] = NL /\ i > 1 /\ bs[i - 1] = X
  BY <1>2
<1>6. j \in Nat
  BY <1>1 DEF bs
<1>7. i # j + 1
  <2> SUFFICES ASSUME i = j + 1 PROVE FALSE
    OBVIOUS
  <2>1. j # 0 /\ i - 1 = j
    BY <1>5, <1>6
  <2> QED
    BY <1>5, <2>1, SymbolsDiffer DEF bs
<1>8. \A q \in j + 1 .. i - 1 : bs[q] # NL
  <2> SUFFICES ASSUME NEW q \in j + 1 .. i - 1, bs[q] = NL PROVE FALSE
    OBVIOUS
  <2>1. q \in 1 .. Len(bs) /\ j < q /\ ~ (i <= q)
    BY <1>1, <1>5, <1>6
  <2> QED
    BY <1>4, <2>1
<1>9. j + 2 <= i
  BY <1>5, <1>6, <1>7
<1> QED
  BY <1>5, <1>8, <1>9, Zenon DEF bs

\* A turn of readParagraph's loop in the body of a framed message takes the next line of
\* the body, or returns it.
LEMMA BodyStep ==
  ASSUME NEW t, NEW start, NEW end, Sent(t, start, end), message[t] \in Messages, Unambiguous(message[t]),
         to # "js", wire \in Seq(Symbols), InMessage(t, start, end), ReadBodyLine
  PROVE  (InMessage(t, start, end)' /\ received' = received) \/ Done(t, end)
<1> DEFINE m == message[t]
           out == Assembled(from, m)
           text == Blob(from, m)
           bs == m.body
<1>1. reader = "paragraph" /\ LineEnds # {} /\ from' = from /\ to' = to /\ message' = message /\ wire' = wire
  BY ReaderOnly, Zenon DEF ReadBodyLine, Reads
<1>2. /\ at \in Nat /\ start \in Nat /\ end \in Nat /\ start <= at /\ at <= end
      /\ InParagraph(m, at - start) /\ end <= Len(wire) /\ end <= start + Len(text)
      /\ \A q \in 1 .. end - start : wire[start + q] = text[q]
      /\ state[t] = "written" <=> end = start + Len(text)
      /\ state[t] # "written" => end = Len(wire)
  BY <1>1, Zenon DEF InMessage, Sent
<1>3. IsText(text, out, bs, Len(out), Len(bs)) /\ bs \in Seq({NL, CR, X})
  BY TextParts, MessageParts, Zenon
<1>4. PICK h \in Nat, b \in Nat :
        /\ h = Len(out) /\ b = Len(bs) /\ Len(text) = h + b + 2 /\ text[h + b + 2] = NL
        /\ \A q \in 1 .. b : text[h + 1 + q] = bs[q]
  BY <1>3, Zenon DEF IsText
<1>5. PICK j \in 0 .. b : at - start = h + 1 + j /\ body = SubSeq(bs, 1, j) /\ (j = 0 \/ bs[j] = NL)
  BY <1>2, <1>4, Zenon DEF InParagraph
<1>6. headers = HeadersOf(m) /\ LengthOf(m) = Absent
  BY <1>2, Zenon DEF InParagraph
<1>7. at = start + (h + 1 + j) /\ j \in Nat /\ j <= b /\ h + 1 + j \in Nat
  BY <1>2, <1>5
<1>8. \A y : y \in LineEnds => y \in at + 1 .. Len(wire) /\ EndsLine(wire[y])
  BY DEF LineEnds
<1>9. at < Len(wire) /\ Len(wire) \in Nat
  <2>1. PICK y \in LineEnds : y \in at + 1 .. Len(wire)
    BY <1>1, <1>8, Zenon
  <2> QED
    BY <1>2, <2>1
<1>10. \A q \in 1 .. b : bs[q] \in {NL, CR, X}
  BY <1>3, <1>4
<1> HIDE DEF m, out, text, bs
<1>11. CASE j = b
  <2>1. at < end /\ wire[at + 1] = NL
    <3> DEFINE p == h + 1 + b
    <3>1. start + p < Len(wire) /\ start + p <= end /\ p < Len(text) /\ p \in Nat /\ at = start + p /\ p + 1 = h + b + 2
      BY <1>2, <1>4, <1>7, <1>9, <1>11
    <3> HIDE DEF p
    <3>2. start + p < Len(wire) /\ start + p <= end /\ p < Len(Blob(from, message[t]))
      BY <3>1 DEF text, m
    <3>3. ComesNext(t, start, end, p)
      BY <3>1, <3>2, MoreToCome, Zenon
    <3>4. start + p < end /\ wire[start + p + 1] = text[p + 1]
      BY <3>3, Zenon DEF ComesNext, text, m
    <3> QED
      BY <1>4, <3>1, <3>4, Zenon
  <2>2. Min(LineEnds) = at + 1 /\ Line(at + 1) = <<NL>>
    <3>1. EndsLine(wire[at + 1])
      BY <2>1, Zenon DEF EndsLine
    <3> QED
      BY <1>2, <1>9, <2>1, <3>1, LineOfOne, Zenon
  <2>3. IsBlank(Line(at + 1))
    BY <2>2, Zenon DEF IsBlank
  <2>4. Return(body, at + 1)
    BY <2>2, <2>3, Zenon DEF ReadBodyLine
  <2>5. end = at + 1 /\ state[t] = "written"
    <3>1. at + 1 = start + Len(text) /\ at + 1 <= end
      BY <1>2, <1>4, <1>7, <1>11, <2>1
    <3>2. Len(text) \in Nat
      BY <1>4
    <3>3. end = start + Len(text)
      BY <1>2, <3>1, <3>2
    <3> QED
      BY <1>2, <3>1, <3>3, Zenon
  <2>6. body = bs
    BY <1>3, <1>4, <1>5, <1>11
  <2>7. Meaning(to, headers, body) = Expected(m)
    <3>1. Meaning(to, HeadersOf(m), bs) = Meaning(to, ExpectedHeaders(m), bs)
      BY FramedMeaning, Zenon DEF HeadersOf, m
    <3>2. Expected(m) = Meaning(to, ExpectedHeaders(m), bs)
      BY DEF Expected, ExpectedHeaders, bs
    <3> QED
      BY <1>6, <2>6, <3>1, <3>2, Zenon
  <2> QED
    BY <2>4, <2>5, <2>7, Zenon DEF Done, Return, m
<1>12. CASE j < b
  <2>1. PICK i \in 1 .. b : /\ j + 2 <= i /\ bs[i] = NL /\ bs[i - 1] = X
                            /\ \A q \in j + 1 .. i - 1 : bs[q] # NL
    <3>1. j \in 0 .. Len(m.body) - 1 /\ (j = 0 \/ m.body[j] = NL)
      BY <1>4, <1>5, <1>12 DEF bs
    <3>2. \E i \in 1 .. Len(m.body) :
             /\ j + 2 <= i /\ m.body[i] = NL /\ m.body[i - 1] = X
             /\ \A q \in j + 1 .. i - 1 : m.body[q] # NL
      BY <1>6, <3>1, NextBreak, Zenon DEF m
    <3> QED
      BY <1>4, <3>2, Zenon DEF bs
  <2> DEFINE o == start + h + 1
             e == o + i
  <2>2. o \in Nat /\ at = o + j /\ i \in Nat /\ i <= b
    BY <1>2, <1>7
  <2>3. \A q \in 1 .. b : o + q <= end => wire[o + q] = bs[q]
    <3> SUFFICES ASSUME NEW q \in 1 .. b, o + q <= end PROVE wire[o + q] = bs[q]
      OBVIOUS
    <3>1. h + 1 + q \in 1 .. end - start /\ start + (h + 1 + q) = o + q
      BY <1>2
    <3> QED
      BY <1>2, <1>4, <3>1, Zenon
  <2> HIDE DEF o
  <2>4. \A q \in j + 1 .. i - 1 : q \in 1 .. b /\ (o + q <= end => ~ EndsLine(wire[o + q]))
    <3> SUFFICES ASSUME NEW q \in j + 1 .. i - 1 PROVE q \in 1 .. b /\ (o + q <= end => ~ EndsLine(wire[o + q]))
      OBVIOUS
    <3>1. q \in 1 .. b
      BY <1>7, <2>2
    <3>2. ~ EndsLine(bs[q])
      BY <1>10, <2>1, <3>1, Zenon DEF EndsLine, IsHeader
    <3> QED
      BY <2>3, <3>1, <3>2, Zenon
  <2>5. e <= end
    <3> SUFFICES ASSUME ~ (e <= end) PROVE FALSE
      OBVIOUS
    <3>1. end # start + Len(text)
      BY <1>2, <1>4, <2>2 DEF o
    <3>2. end = Len(wire)
      BY <1>2, <3>1, Zenon
    <3>3. PICK y \in LineEnds : y \in at + 1 .. Len(wire) /\ EndsLine(wire[y])
      BY <1>1, <1>8, Zenon
    <3>4. PICK q \in j + 1 .. i - 1 : y = o + q
      <4>1. y - o \in j + 1 .. i - 1 /\ y = o + (y - o)
        BY <1>2, <1>7, <2>2, <3>2, <3>3
      <4> QED
        BY <4>1, Zenon
    <3>5. o + q <= end
      BY <1>9, <3>2, <3>3, <3>4
    <3> QED
      BY <2>4, <3>3, <3>4, <3>5, Zenon
  <2>6. \A q \in j + 1 .. i : q \in 1 .. b /\ wire[o + q] = bs[q]
    <3> SUFFICES ASSUME NEW q \in j + 1 .. i PROVE q \in 1 .. b /\ wire[o + q] = bs[q]
      OBVIOUS
    <3>1. q \in 1 .. b /\ o + q <= end
      BY <1>2, <1>7, <2>2, <2>5
    <3> QED
      BY <2>3, <3>1, Zenon
  <2>7. LineEnds # {} /\ Min(LineEnds) = e
    <3>1. e \in at + 1 .. Len(wire)
      BY <1>2, <1>7, <1>9, <2>1, <2>2, <2>5
    <3>2. EndsLine(wire[e])
      <4>1. i \in j + 1 .. i
        BY <1>7, <2>1, <2>2
      <4>2. wire[o + i] = NL
        BY <2>1, <2>6, <4>1, Zenon
      <4> QED
        BY <4>2 DEF EndsLine
    <3>3. \A y \in at + 1 .. e - 1 : ~ EndsLine(wire[y])
      <4> SUFFICES ASSUME NEW y \in at + 1 .. e - 1 PROVE ~ EndsLine(wire[y])
        OBVIOUS
      <4>1. PICK q \in j + 1 .. i - 1 : y = o + q
        <5>1. y - o \in j + 1 .. i - 1 /\ y = o + (y - o)
          BY <1>7, <2>2
        <5> QED
          BY <5>1, Zenon
      <4>2. o + q <= end
        BY <1>2, <1>7, <2>2, <2>5, <4>1
      <4> QED
        BY <2>4, <4>1, <4>2, Zenon
    <3> HIDE DEF e
    <3> QED
      BY <1>2, <1>9, <3>1, <3>2, <3>3, FirstLineEnd, Zenon
  <2> DEFINE line == Line(e)
  <2>8. /\ line \in Seq(Symbols) /\ Len(line) = i - j /\ i - j \in Nat
        /\ \A q \in 1 .. i - j : line[q] = bs[j + q]
    <3>1. e = at + (i - j) /\ i - j \in Nat /\ at + (i - j) <= Len(wire)
      BY <1>2, <1>7, <1>9, <2>1, <2>2, <2>5
    <3>2. line = SubSeq(wire, at + 1, at + (i - j))
      BY <3>1, Zenon DEF Line
    <3>3. line \in Seq(Symbols) /\ IsSlice(line, wire, at, i - j)
      BY <1>2, <3>1, <3>2, Slice, Zenon
    <3> HIDE DEF line
    <3>4. ASSUME NEW q \in 1 .. i - j PROVE line[q] = bs[j + q]
      <4>1. j + q \in j + 1 .. i /\ at + q = o + (j + q)
        BY <1>7, <2>2
      <4>2. line[q] = wire[at + q]
        BY <3>3, Zenon DEF IsSlice
      <4> QED
        BY <2>6, <4>1, <4>2, Zenon
    <3> QED
      BY <3>1, <3>3, <3>4, Zenon DEF IsSlice
  <2>9. ~ IsBlank(line)
    <3>1. (i - j) - 1 \in 1 .. i - j /\ j + ((i - j) - 1) = i - 1
      BY <1>7, <2>1, <2>2
    <3>2. line[(i - j) - 1] = X
      BY <2>1, <2>8, <3>1
    <3> HIDE DEF line
    <3>3. i - j >= 2
      BY <1>7, <2>1, <2>2
    <3>4. line # <<NL>>
      BY <2>8, <3>3
    <3>5. line # <<CR, NL>>
      <4> SUFFICES ASSUME line = <<CR, NL>> PROVE FALSE
        OBVIOUS
      <4>1. i - j = 2
        BY <2>8
      <4>2. line[1] = CR
        OBVIOUS
      <4> QED
        BY <3>2, <4>1, <4>2, SymbolsDiffer
    <3> QED
      BY <3>4, <3>5 DEF IsBlank
  <2>10. /\ body' = body \o line /\ at' = e
         /\ reader' = reader /\ headers' = headers /\ received' = received
    <3> HIDE DEF e
    <3> QED
      BY <2>7, <2>9, Zenon DEF ReadBodyLine
  <2>11. SubSeq(bs, 1, j) \o line = SubSeq(bs, 1, i)
    <3>1. bs \in Seq(Symbols) /\ j <= i /\ i <= Len(bs)
      BY <1>3, <1>4, <1>7, <2>1, <2>2 DEF Symbols
    <3> HIDE DEF line
    <3> QED
      BY <1>7, <2>2, <2>8, <3>1, Joined
  <2>12. at' - start = h + 1 + i /\ at' \in Nat /\ start <= at' /\ at' <= end
    BY <1>2, <2>2, <2>5, <2>10 DEF o
  <2>13. InParagraph(m, h + 1 + i)'
    <3>1. i \in 0 .. Len(m.body) /\ body' = SubSeq(m.body, 1, i) /\ m.body[i] = NL
      <4>1. i \in 0 .. b
        BY <2>2
      <4>2. body' = SubSeq(bs, 1, i)
        BY <1>5, <2>10, <2>11, Zenon
      <4> QED
        BY <1>4, <2>1, <4>1, <4>2, Zenon DEF bs
    <3>2. HeadersOf(m)' = HeadersOf(m) /\ LengthOf(m)' = LengthOf(m) /\ Assembled(from, m)' = out /\ m' = m
      BY <1>1 DEF HeadersOf, out, m
    <3> QED
      BY <1>4, <1>6, <2>10, <3>1, <3>2, Zenon DEF InParagraph
  <2>14. InParagraph(message[t], at - start)'
    <3>1. message'[t] = m' /\ m' = m
      BY <1>1 DEF m
    <3> QED
      BY <2>12, <2>13, <3>1, Zenon
  <2>15. reader' # "headers" /\ reader' # "length"
    BY <1>1, <2>10
  <2> QED
    BY <2>10, <2>12, <2>14, <2>15, Zenon DEF InMessage
<1> QED
  BY <1>7, <1>11, <1>12

\* Content-Length bytes and the newline after them are the rest of a framed message.
LEMMA LengthStep ==
  ASSUME NEW t, NEW start, NEW end, Sent(t, start, end), message[t] \in Messages, Unambiguous(message[t]),
         to # "js", wire \in Seq(Symbols), InMessage(t, start, end), ReadLength
  PROVE  Done(t, end)
<1> DEFINE m == message[t]
           out == Assembled(from, m)
           text == Blob(from, m)
           bs == m.body
<1>1. reader = "length"
  BY Zenon DEF ReadLength
<1>2. /\ at \in Nat /\ start \in Nat /\ end \in Nat /\ start <= at /\ at <= end
      /\ InLength(m, at - start) /\ end <= Len(wire) /\ end <= start + Len(text)
      /\ \A q \in 1 .. end - start : wire[start + q] = text[q]
      /\ state[t] = "written" <=> end = start + Len(text)
      /\ state[t] # "written" => end = Len(wire)
  BY <1>1, Zenon DEF InMessage, Sent
<1>3. IsText(text, out, bs, Len(out), Len(bs)) /\ bs \in Seq({NL, CR, X})
  BY TextParts, MessageParts, Zenon
<1>4. PICK h \in Nat, b \in Nat :
        /\ h = Len(out) /\ b = Len(bs) /\ Len(text) = h + b + 2 /\ text[h + b + 2] = NL
        /\ \A q \in 1 .. b : text[h + 1 + q] = bs[q]
  BY <1>3, Zenon DEF IsText
<1>5. at - start = h + 1 /\ headers = HeadersOf(m) /\ LengthOf(m) # Absent
  BY <1>2, <1>4, Zenon DEF InLength
<1>6. Length = b
  <2>1. LengthOf(m) = Len(bs) /\ Lookup(to, HeadersOf(m), LengthName) = LengthOf(m)
    BY <1>5, FramedHeaders, FramedMeaning, Zenon DEF HeadersOf
  <2> QED
    BY <1>4, <1>5, <2>1, Zenon DEF Length
<1> HIDE DEF m, out, text, bs
<1>7. PICK w \in Nat : /\ w = Len(wire) /\ DOMAIN wire = 1 .. w /\ end <= w
                       /\ at \in Nat /\ start \in Nat /\ end \in Nat /\ at = start + (h + 1)
                       /\ end <= start + (h + b + 2) /\ (end = start + (h + b + 2) \/ end = w)
  <2>1. at = start + (h + 1)
    BY <1>2, <1>5
  <2>2. Len(wire) \in Nat /\ DOMAIN wire = 1 .. Len(wire)
    OBVIOUS
  <2> QED
    BY <1>2, <1>4, <2>1, <2>2, Zenon
<1>8. end = start + Len(text) /\ end = at + b + 1
  <2>1. Separator(wire, at + b) \in DOMAIN wire
    BY <1>6, Zenon DEF ReadLength
  <2>2. at + b + 1 <= w
    <3>1. at + b + 1 \in 1 .. w \/ at + b + 2 \in 1 .. w
      BY <1>7, <2>1, Zenon DEF Separator
    <3> QED
      BY <1>7, <3>1
  <2>3. end = start + (h + b + 2) /\ end = at + b + 1
    BY <1>7, <2>2
  <2> QED
    BY <1>4, <2>3, Zenon
<1>9. \A q \in 1 .. h + b + 2 : wire[start + q] = text[q]
  <2>1. end - start = h + b + 2
    BY <1>4, <1>7, <1>8
  <2> QED
    BY <1>2, <2>1, Zenon
<1>10. wire[at + b + 1] = NL /\ at + b + 1 \in DOMAIN wire
  <2>1. at + b + 1 = start + (h + b + 2) /\ h + b + 2 \in 1 .. h + b + 2
    BY <1>7
  <2>2. at + b + 1 \in DOMAIN wire
    <3>1. at + b + 1 \in 1 .. w
      BY <1>7, <1>8
    <3> QED
      BY <1>7, <3>1, Zenon
  <2> QED
    BY <1>4, <1>9, <2>1, <2>2, Zenon
<1>11. Separator(wire, at + b) = at + b + 1
  BY <1>10, SymbolsDiffer, Zenon DEF Separator
<1>12. Return(SubSeq(wire, at + 1, at + b), at + b + 1)
  BY <1>6, <1>10, <1>11, Zenon DEF ReadLength
<1>13. SubSeq(wire, at + 1, at + b) = bs
  <2> DEFINE s == SubSeq(wire, at + 1, at + b)
  <2>1. at + b <= Len(wire)
    <3>1. at + b <= w
      BY <1>7, <1>8
    <3> QED
      BY <1>7, <3>1, Zenon
  <2>2. s \in Seq(Symbols) /\ IsSlice(s, wire, at, b)
    BY <1>2, <2>1, Slice, Zenon
  <2> HIDE DEF s
  <2>3. bs \in Seq(Symbols)
    BY <1>3 DEF Symbols
  <2>4. ASSUME NEW q \in 1 .. b PROVE s[q] = bs[q]
    <3>1. at + q = start + (h + 1 + q) /\ h + 1 + q \in 1 .. h + b + 2
      BY <1>7
    <3>2. s[q] = wire[at + q]
      BY <2>2, Zenon DEF IsSlice
    <3> QED
      BY <1>4, <1>9, <3>1, <3>2, Zenon
  <2>5. Len(s) = b
    BY <2>2, Zenon DEF IsSlice
  <2>6. s = bs
    BY <1>4, <2>2, <2>3, <2>4, <2>5, SameSeq
  <2> QED
    BY <2>6 DEF s
<1>14. Meaning(to, headers, bs) = Expected(m)
  <2>1. Meaning(to, HeadersOf(m), bs) = Meaning(to, ExpectedHeaders(m), bs)
    BY FramedMeaning, Zenon DEF HeadersOf, m
  <2>2. Expected(m) = Meaning(to, ExpectedHeaders(m), bs)
    BY DEF Expected, ExpectedHeaders, bs
  <2> QED
    BY <1>5, <2>1, <2>2, Zenon
<1>15. state[t] = "written"
  BY <1>2, <1>8, Zenon
<1> QED
  BY <1>8, <1>12, <1>13, <1>14, <1>15, Zenon DEF Done, Return, m

-----------------------------------------------------------------------------
(* What the reader of a stream has returned.                               *)

\* The first n messages are all framed.
FramedUpTo(n) == \A i \in 1 .. n : i <= Len(order) => Unambiguous(message[order[i]])

\* As long as the messages are framed, it has returned them one for one.
Returned ==
  /\ \E S : received \in Seq(S)
  /\ \A n \in 1 .. Len(received) : FramedUpTo(n) =>
       /\ n <= Len(order) /\ received[n] = Expected(message[order[n]])
       /\ state[order[n]] = "written"

\* As long as they are framed it is in the next one or, if no thread has entered, waits for it.
Waits ==
  /\ Len(received) = Len(order) /\ at = Len(wire)
  /\ reader = "headers" /\ headers = <<>> /\ body = <<>>

\* It is in the r-th message.
Within(off, r) == r \in 1 .. Len(order) /\ InMessage(order[r], off[r], Upto(off, r))

\* The place of the reader.
Place(off) ==
  FramedUpTo(Len(received) + 1) /\ reader \in {"headers", "paragraph", "length"} =>
    Waits \/ Within(off, Len(received) + 1)

\* Whether a message is framed, and what is expected of it, never changes.
LEMMA FramedFixed ==
  ASSUME from' = from, to' = to
  PROVE  \A m : Unambiguous(m)' = Unambiguous(m) /\ Expected(m)' = Expected(m)
  BY DEF Unambiguous, Framed, SpelledTwice, Expected

\* A reader that has returned a message is at the start of the next one.
LEMMA MessageStarts ==
  ASSUME NEW t, message'[t] \in Messages, NEW start, NEW end, at' \in Nat, start = at', at' <= end,
         reader' = "headers", headers' = <<>>, body' = <<>>
  PROVE  InMessage(t, start, end)'
<1> DEFINE m == message'[t]
<1>1. /\ Assembled(from', m) \in Seq(Header)
      /\ Built("go", Assembled(from', m)) \in Seq(Header)
  BY AssembledTyped, BuiltHeaders, Zenon
<1>2. 0 <= Len(Assembled(from', m)) /\ <<>> = SubSeq(Built("go", Assembled(from', m)), 1, 0)
  BY <1>1
<1>3. at' - start = 0 /\ start <= at'
  <2>1. \A a \in Nat : a - a = 0 /\ a <= a
    OBVIOUS
  <2> QED
    BY <2>1, Zenon
<1>4. InHeaders(message[t], 0)'
  BY <1>2, Zenon DEF InHeaders, HeadersOf
<1>5. reader' # "paragraph" /\ reader' # "length"
  OBVIOUS
<1>6. InHeaders(message[t], at - start)'
  BY <1>3, <1>4, Zenon
<1> QED
  BY <1>3, <1>5, <1>6, Zenon DEF InMessage

\* A step of the writer does not take the reader out of its place.
LEMMA WriterKeeps ==
  ASSUME Turns, Turns', NEW off, NEW new, Laid(off), Laid(new)', Grown(off, new), Returned, Place(off),
         from' = from, to' = to, message' = message,
         at' = at, reader' = reader, headers' = headers, body' = body, received' = received
  PROVE  Returned' /\ Place(new)'
<1> DEFINE L == Len(order)
<1>1. L \in Nat /\ Len(order') \in Nat /\ order' \in Seq(Threads)
  <2>1. order \in Seq(Threads) /\ order' \in Seq(Threads)
    BY Zenon DEF Turns
  <2> QED
    BY <2>1
<1>2. /\ \/ Len(order') = L /\ (wire' # wire => L > 0 /\ state[order[L]] = "writing")
         \/ Len(order') = L + 1 /\ wire' = wire /\ new[L + 1] = Len(wire)
      /\ \A i \in 1 .. L :
           /\ order'[i] = order[i] /\ new[i] = off[i] /\ Upto(off, i) <= Upto(new, i)'
           /\ state[order[i]] = "written" => state'[order[i]] = "written"
  BY Zenon DEF Grown
<1> HIDE DEF L
<1>3. \A i \in 1 .. L : i \in 1 .. Len(order')
  <2>1. Len(order') = L \/ Len(order') = L + 1
    BY <1>2, Zenon
  <2> QED
    BY <1>1, <2>1
<1>4. ASSUME NEW n \in Nat, FramedUpTo(n)' PROVE FramedUpTo(n)
  <2> SUFFICES ASSUME NEW i \in 1 .. n, i <= L PROVE Unambiguous(message[order[i]])
    BY Zenon DEF FramedUpTo, L
  <2>1. i \in 1 .. L
    BY <1>1
  <2>2. i <= Len(order')
    BY <1>1, <1>3, <2>1
  <2>3. Unambiguous(message[order[i]])'
    BY <1>4, <2>2, Zenon DEF FramedUpTo
  <2>4. order'[i] = order[i]
    BY <1>2, <2>1, Zenon
  <2>5. PICK m : m = message[order[i]]
    OBVIOUS
  <2>6. message'[order'[i]] = m
    BY <2>4, <2>5, Zenon
  <2>7. Unambiguous(m)'
    BY <2>3, <2>6, Zenon
  <2> QED
    BY <2>5, <2>7, FramedFixed, Zenon
<1>5. PICK k \in Nat : k = Len(received)
  BY DEF Returned
<1>6. ASSUME NEW n \in 1 .. k, FramedUpTo(n)
      PROVE  n \in 1 .. L /\ received[n] = Expected(message[order[n]]) /\ state[order[n]] = "written"
  <2>1. n <= L /\ received[n] = Expected(message[order[n]]) /\ state[order[n]] = "written"
    BY <1>5, <1>6, Zenon DEF Returned, L
  <2> QED
    BY <1>1, <2>1
<1>7. Returned'
  <2>1. \E S : received' \in Seq(S)
    BY DEF Returned
  <2>2. ASSUME NEW n \in 1 .. k, FramedUpTo(n)'
        PROVE  n <= Len(order') /\ received'[n] = Expected(message[order[n]])' /\ state'[order'[n]] = "written"
    <3>1. FramedUpTo(n)
      BY <1>4, <2>2
    <3>2. n \in 1 .. L /\ received[n] = Expected(message[order[n]]) /\ state[order[n]] = "written"
      BY <1>6, <3>1, Zenon
    <3>3. order'[n] = order[n] /\ state'[order[n]] = "written" /\ n \in 1 .. Len(order')
      BY <1>2, <1>3, <3>2, Zenon
    <3>4. PICK m : m = message[order[n]]
      OBVIOUS
    <3>5. message'[order'[n]] = m
      BY <3>3, <3>4, Zenon
    <3>6. Expected(message[order[n]])' = Expected(m)
      BY <3>5, FramedFixed, Zenon
    <3>7. n <= Len(order')
      BY <1>1, <3>3
    <3> QED
      BY <3>2, <3>3, <3>4, <3>6, <3>7, Zenon
  <2> QED
    BY <1>5, <2>1, <2>2, Zenon DEF Returned
<1>8. ASSUME FramedUpTo(k + 1)', reader' \in {"headers", "paragraph", "length"}
      PROVE  Waits' \/ Within(new, k + 1)'
  <2>1. FramedUpTo(k + 1)
    BY <1>4, <1>8
  <2>2. Waits \/ Within(off, k + 1)
    BY <1>5, <1>8, <2>1, Zenon DEF Place
  <2>3. CASE Waits
    <3>1. k = L /\ at = Len(wire) /\ reader = "headers" /\ headers = <<>> /\ body = <<>>
      BY <1>5, <2>3, Zenon DEF Waits, L
    <3>2. wire' = wire
      <4> SUFFICES ASSUME wire' # wire PROVE FALSE
        OBVIOUS
      <4>1. L > 0 /\ state[order[L]] = "writing"
        BY <1>2, Zenon
      <4>2. FramedUpTo(k) /\ k \in 1 .. k
        BY <2>1, <3>1, <4>1 DEF FramedUpTo
      <4>3. state[order[L]] = "written"
        BY <1>6, <3>1, <4>2, Zenon
      <4> QED
        BY <4>1, <4>3
    <3>3. CASE Len(order') = L
      BY <1>5, <3>1, <3>2, <3>3, Zenon DEF Waits
    <3>4. CASE Len(order') = L + 1 /\ new[L + 1] = Len(wire)
      <4>1. k + 1 \in 1 .. Len(order') /\ ~ (k + 1 < Len(order'))
        BY <1>1, <3>1, <3>4
      <4>2. Upto(new, k + 1)' = Len(wire) /\ Len(wire) \in Nat /\ Len(wire) <= Len(wire)
        <5>1. Upto(new, k + 1)' = Len(wire)
          BY <3>2, <4>1, Zenon DEF Upto
        <5>2. wire \in Seq(Symbols)
          BY Zenon DEF Laid
        <5> QED
          BY <5>1, <5>2
      <4>3. PICK t, start, end : t = order'[k + 1] /\ start = new[k + 1] /\ end = Upto(new, k + 1)'
        OBVIOUS
      <4>4. message'[t] \in Messages
        <5>1. t \in Threads
          BY <1>1, <4>1, <4>3
        <5> QED
          BY <5>1 DEF Turns
      <4>5. at' \in Nat /\ start = at' /\ at' <= end
        BY <3>1, <3>4, <4>2, <4>3
      <4>6. InMessage(t, start, end)'
        BY <3>1, <4>4, <4>5, MessageStarts, Zenon
      <4> QED
        BY <4>1, <4>3, <4>6, Zenon DEF Within
    <3> QED
      BY <1>2, <3>3, <3>4, Zenon
  <2>4. CASE Within(off, k + 1)
    <3>1. k + 1 \in 1 .. L /\ InMessage(order[k + 1], off[k + 1], Upto(off, k + 1))
      BY <2>4, Zenon DEF Within, L
    <3>2. /\ order'[k + 1] = order[k + 1] /\ new[k + 1] = off[k + 1] /\ Upto(off, k + 1) <= Upto(new, k + 1)'
          /\ k + 1 \in 1 .. Len(order')
      BY <1>2, <1>3, <3>1, Zenon
    <3>3. PICK t, start, end, more :
             t = order[k + 1] /\ start = off[k + 1] /\ end = Upto(off, k + 1) /\ more = Upto(new, k + 1)'
      OBVIOUS
    <3>4. InMessage(t, start, end) /\ end <= more
      BY <3>1, <3>2, <3>3, Zenon
    <3>5. at <= more
      <4>1. Sent(t, start, end)
        BY <3>1, <3>3, Zenon DEF Laid, L
      <4>2. end \in Nat /\ at \in Nat /\ at <= end
        BY <3>4, <4>1, Zenon DEF Sent, InMessage
      <4>3. more \in Nat
        <5>1. Sent(order[k + 1], new[k + 1], Upto(new, k + 1))'
          BY <3>2, Zenon DEF Laid
        <5> QED
          BY <3>3, <5>1, Zenon DEF Sent
      <4> QED
        BY <3>4, <4>2, <4>3
    <3>6. /\ \A m, p : InHeaders(m, p)' = InHeaders(m, p)
          /\ \A m, p : InParagraph(m, p)' = InParagraph(m, p)
          /\ \A m, p : InLength(m, p)' = InLength(m, p)
      BY DEF InHeaders, InParagraph, InLength, HeadersOf
    <3>7. InMessage(t, start, more)'
      BY <3>4, <3>5, <3>6, Zenon DEF InMessage
    <3> QED
      BY <3>2, <3>3, <3>7, Zenon DEF Within
  <2> QED
    BY <2>2, <2>3, <2>4
<1> QED
  BY <1>5, <1>7, <1>8, Zenon DEF Place

\* The reader returns at most one message at a time.
LEMMA OneAtATime ==
  ASSUME Reads
  PROVE  received' = received \/ \E x : received' = Append(received, x)
  BY Zenon DEF Reads, ReadHeaderLine, ReadBodyLine, ReadLength, ReadFrame, ReadEOF, Return, Fail

\* The sequence a is s and x, and s has k elements, all in S.
IsAppended(a, S, s, x, k) ==
  /\ a \in Seq(S \cup {x}) /\ Len(a) = k + 1 /\ a[k + 1] = x
  /\ \A n \in 1 .. k : a[n] = s[n]

\* What Append does to a sequence.
LEMMA Appended ==
  ASSUME NEW S, NEW s \in Seq(S), NEW x, NEW k \in Nat, k = Len(s)
  PROVE  IsAppended(Append(s, x), S, s, x, k)
  BY DEF IsAppended

\* A step of the reader keeps it in its place, or it returns the message that is next.
LEMMA ReaderKeeps ==
  ASSUME Turns, to # "js", NEW off, Laid(off), Returned, Place(off), Reads
  PROVE  Returned' /\ Place(off)'
<1>1. from' = from /\ to' = to /\ message' = message /\ state' = state /\ order' = order /\ wire' = wire
  BY ReaderOnly, Zenon
<1>2. PICK S : received \in Seq(S)
  BY Zenon DEF Returned
<1>3. PICK k \in Nat, L \in Nat : k = Len(received) /\ L = Len(order)
  BY <1>2 DEF Turns
<1>4. ASSUME NEW n \in 1 .. k, FramedUpTo(n)
      PROVE  n <= L /\ received[n] = Expected(message[order[n]]) /\ state[order[n]] = "written"
  BY <1>3, <1>4, Zenon DEF Returned
<1>5. /\ \A n : FramedUpTo(n)' = FramedUpTo(n)
      /\ \A n : Expected(message[order[n]])' = Expected(message[order[n]])
  <2>1. \A i : Unambiguous(message[order[i]])' = Unambiguous(message[order[i]])
    BY ZenonT(30), <1>1 DEF Unambiguous, Framed, SpelledTwice
  <2>2. \A i : Expected(message[order[i]])' = Expected(message[order[i]])
    BY ZenonT(30), <1>1 DEF Expected
  <2> QED
    BY <1>1, <2>1, <2>2, Zenon DEF FramedUpTo
<1>6. \A n : Upto(off, n)' = Upto(off, n)
  BY <1>1, Zenon DEF Upto
<1>7. /\ wire \in Seq(Symbols)
      /\ \A i \in 1 .. L : Sent(order[i], off[i], Upto(off, i)) /\ order[i] \in Threads /\ message[order[i]] \in Messages
  BY <1>3 DEF Laid, Turns
<1>8. \A n \in Nat : FramedUpTo(n + 1) => FramedUpTo(n)
  BY DEF FramedUpTo
<1>9. ASSUME received' = received
      PROVE  Returned'
  BY <1>1, <1>5, <1>9, Zenon DEF Returned
<1>10. ASSUME NEW x, received' = Append(received, x),
              FramedUpTo(k + 1) => k + 1 <= L /\ x = Expected(message[order[k + 1]]) /\ state[order[k + 1]] = "written"
       PROVE  Returned' /\ Len(received') = k + 1
  <2>1. /\ received' \in Seq(S \cup {x}) /\ Len(received') = k + 1 /\ received'[k + 1] = x
        /\ \A n \in 1 .. k : received'[n] = received[n]
    <3>1. IsAppended(received', S, received, x, k)
      BY <1>2, <1>3, <1>10, Appended, Zenon
    <3> QED
      BY <3>1, Zenon DEF IsAppended
  <2>2. ASSUME NEW n \in 1 .. k + 1, FramedUpTo(n)
        PROVE  n <= L /\ received'[n] = Expected(message[order[n]]) /\ state[order[n]] = "written"
    <3>1. n \in 1 .. k \/ n = k + 1
      OBVIOUS
    <3> QED
      BY <1>4, <1>10, <2>1, <2>2, <3>1, Zenon
  <2>3. \A n \in 1 .. Len(received') : FramedUpTo(n)' =>
          /\ n <= Len(order') /\ received'[n] = Expected(message[order[n]])'
          /\ state'[order'[n]] = "written"
    BY <1>1, <1>3, <1>5, <2>1, <2>2, Zenon
  <2> QED
    BY <2>1, <2>3, Zenon DEF Returned
<1>11. CASE ~ FramedUpTo(k + 1)
  <2>1. CASE received' = received
    <3>1. ~ FramedUpTo(Len(received) + 1)'
      BY <1>3, <1>5, <1>11, <2>1, Zenon
    <3> QED
      BY <1>9, <2>1, <3>1, Zenon DEF Place
  <2>2. CASE \E x : received' = Append(received, x)
    <3>1. PICK x : received' = Append(received, x)
      BY <2>2
    <3>2. Returned' /\ Len(received') = k + 1
      BY <1>10, <1>11, <3>1, Zenon
    <3>3. ~ FramedUpTo((k + 1) + 1)
      BY <1>8, <1>11
    <3>4. ~ FramedUpTo(Len(received) + 1)'
      BY <1>5, <3>2, <3>3, Zenon
    <3> QED
      BY <3>2, <3>4, Zenon DEF Place
  <2> QED
    BY <2>1, <2>2, OneAtATime, Zenon
<1>12. CASE FramedUpTo(k + 1)
  <2>1. CASE ReadEOF
    <3>1. received' = received /\ reader' = "eof"
      BY <2>1, Zenon DEF ReadEOF, Fail
    <3>2. reader' \notin {"headers", "paragraph", "length"}
      BY <3>1
    <3> QED
      BY <1>9, <3>1, <3>2, Zenon DEF Place
  <2>2. CASE ReadFrame
    BY <2>2, Zenon DEF ReadFrame
  <2>3. CASE ReadHeaderLine \/ ReadBodyLine \/ ReadLength
    <3>1. reader \in {"headers", "paragraph", "length"}
      BY <2>3, Zenon DEF ReadHeaderLine, ReadBodyLine, ReadLength
    <3>2. Waits \/ Within(off, k + 1)
      BY <1>3, <1>12, <3>1, Zenon DEF Place
    <3>3. ~ Waits
      <4> SUFFICES ASSUME Waits PROVE FALSE
        OBVIOUS
      <4>1. at = Len(wire) /\ reader = "headers"
        BY Zenon DEF Waits
      <4>2. LineEnds # {}
        <5>1. reader # "length"
          BY <4>1
        <5> QED
          BY <2>3, <5>1, Zenon DEF ReadHeaderLine, ReadBodyLine, ReadLength
      <4>3. PICK y \in at + 1 .. Len(wire) : TRUE
        BY <4>2 DEF LineEnds
      <4>4. Len(wire) \in Nat
        BY <1>7
      <4> QED
        BY <4>1, <4>3, <4>4
    <3>4. k + 1 \in 1 .. L /\ InMessage(order[k + 1], off[k + 1], Upto(off, k + 1))
      BY <1>3, <3>2, <3>3, Zenon DEF Within
    <3>5. PICK t, start, end : t = order[k + 1] /\ start = off[k + 1] /\ end = Upto(off, k + 1)
      OBVIOUS
    <3>6. InMessage(t, start, end) /\ Sent(t, start, end) /\ message[t] \in Messages
      BY <1>7, <3>4, <3>5, Zenon
    <3>7. Unambiguous(message[t])
      <4>1. k + 1 \in 1 .. k + 1 /\ k + 1 <= L
        BY <3>4
      <4> QED
        BY <1>3, <1>12, <3>5, <4>1, Zenon DEF FramedUpTo
    <3>8. (InMessage(t, start, end)' /\ received' = received) \/ Done(t, end)
      BY <1>7, <2>3, <3>6, <3>7, HeaderStep, BodyStep, LengthStep, Zenon
    <3>9. CASE InMessage(t, start, end)' /\ received' = received
      <4>1. order'[k + 1] = t /\ Upto(off, k + 1)' = end /\ k + 1 \in 1 .. Len(order') /\ Len(received') = k
        BY <1>1, <1>3, <1>6, <3>4, <3>5, <3>9, Zenon
      <4>2. Within(off, Len(received) + 1)'
        BY <3>5, <3>9, <4>1, Zenon DEF Within
      <4> QED
        BY <1>9, <3>9, <4>2, Zenon DEF Place
    <3>10. CASE Done(t, end)
      <4>1. /\ state[t] = "written" /\ received' = Append(received, Expected(message[t]))
            /\ at' = end /\ reader' = "headers" /\ headers' = <<>> /\ body' = <<>>
        BY <3>10, Zenon DEF Done
      <4>2. k + 1 <= L /\ Expected(message[t]) = Expected(message[order[k + 1]]) /\ state[order[k + 1]] = "written"
        <5>1. k + 1 <= L
          BY <3>4
        <5> QED
          BY <3>5, <4>1, <5>1, Zenon
      <4>3. Returned' /\ Len(received') = k + 1
        BY <1>10, <4>1, <4>2, Zenon
      <4>4. CASE k + 1 = L
        <5>1. end = Len(wire)
          <6>1. ~ (k + 1 < Len(order))
            BY <1>3, <4>4
          <6> QED
            BY <3>5, <6>1, Zenon DEF Upto
        <5>2. Waits'
          BY <1>1, <1>3, <4>1, <4>3, <4>4, <5>1, Zenon DEF Waits
        <5> QED
          BY <4>3, <5>2, Zenon DEF Place
      <4>5. CASE k + 1 < L
        <5>1. (k + 1) + 1 \in 1 .. L
          BY <4>5
        <5>2. end = off[(k + 1) + 1]
          BY <1>3, <3>5, <4>5, Zenon DEF Upto
        <5>3. PICK u, next, last : u = order[(k + 1) + 1] /\ next = off[(k + 1) + 1] /\ last = Upto(off, (k + 1) + 1)
          OBVIOUS
        <5>4. Sent(u, next, last) /\ message[u] \in Messages
          BY <1>7, <5>1, <5>3, Zenon
        <5>5. message'[u] \in Messages /\ at' \in Nat /\ next = at' /\ at' <= last
          BY <1>1, <4>1, <5>2, <5>3, <5>4, Zenon DEF Sent
        <5>6. InMessage(u, next, last)'
          BY <4>1, <5>5, MessageStarts, Zenon
        <5>7. order'[(k + 1) + 1] = u /\ Upto(off, (k + 1) + 1)' = last /\ (k + 1) + 1 \in 1 .. Len(order')
          BY <1>1, <1>3, <1>6, <5>1, <5>3, Zenon
        <5>8. Within(off, (k + 1) + 1)'
          BY <5>3, <5>6, <5>7, Zenon DEF Within
        <5>9. Within(off, Len(received) + 1)'
          BY <4>3, <5>8, Zenon
        <5> QED
          BY <4>3, <5>9, Zenon DEF Place
      <4> QED
        BY <4>2, <4>4, <4>5
    <3> QED
      BY <3>8, <3>9, <3>10
  <2> QED
    BY <2>1, <2>2, <2>3, Zenon DEF Reads
<1> QED
  BY <1>11, <1>12

-----------------------------------------------------------------------------
(* Frames.                                                                 *)

\* The threads whose message is on the wire are the first ones that entered, each frame is
\* the text of one message, and what the reader has returned is what it made of them.
Frames ==
  /\ Len(wire) <= Len(order) /\ wire \in Seq(Seq(Symbols))
  /\ \A i \in 1 .. Len(order) : state[order[i]] = "written" <=> i <= Len(wire)
  /\ \A i \in 1 .. Len(wire) : wire[i] = Blob(from, message[order[i]])
  /\ \A t \in Threads : state[t] \in {"idle", "writing"} => chunks[t] = <<Blob(from, message[t])>>
  /\ reader \in {"headers", "eof"} /\ (\E S : received \in Seq(S))
  /\ at = Len(received) /\ at <= Len(wire)
  /\ \A n \in 1 .. at : received[n] = ParseBlob(wire[n], HeaderSize(wire[n]))

\* A write of a frame adds the message of the thread that has the mutex.
LEMMA FramesWrite ==
  ASSUME Turns, to = "js", Frames, NEW t \in Threads, Enter(t) \/ WriteChunk(t)
  PROVE  Frames'
<1> DEFINE L == Len(order)
           W == Len(wire)
<1>1. /\ L \in Nat /\ order \in Seq(Threads) /\ IsTable(chunks) /\ IsTable(state)
      /\ \A i, j \in 1 .. L : order[i] = order[j] => i = j
      /\ \A i \in 1 .. L : order[i] \in Threads /\ state[order[i]] # "idle"
      /\ message \in [Threads -> Messages]
  BY DEF Turns, IsTable
<1>2. /\ W <= L /\ W \in Nat /\ wire \in Seq(Seq(Symbols))
      /\ \A i \in 1 .. L : state[order[i]] = "written" <=> i <= W
      /\ \A i \in 1 .. W : wire[i] = Blob(from, message[order[i]])
      /\ \A u \in Threads : state[u] \in {"idle", "writing"} => chunks[u] = <<Blob(from, message[u])>>
      /\ at <= W
      /\ \A n \in 1 .. at : received[n] = ParseBlob(wire[n], HeaderSize(wire[n]))
  BY DEF Frames
<1>3. /\ from' = from /\ to' = to /\ message' = message /\ at' = at /\ reader' = reader /\ received' = received
      /\ reader' \in {"headers", "eof"} /\ (\E S : received' \in Seq(S)) /\ at' = Len(received')
  BY WriterOnly, Zenon DEF Frames
<1>4. at \in Nat
  BY DEF Frames
<1> HIDE DEF L, W
<1>5. CASE Enter(t)
  <2>1. /\ state[t] = "idle" /\ state' = [state EXCEPT ![t] = "writing"] /\ order' = Append(order, t)
        /\ chunks' = chunks /\ wire' = wire
    BY <1>5, Zenon DEF Enter, EnterMutex
  <2>2. Len(order') = L + 1 /\ order'[L + 1] = t /\ \A i \in 1 .. L : order'[i] = order[i]
    BY <1>1, <2>1 DEF L
  <2>3. state'[t] = "writing" /\ \A u \in Threads \ {t} : state'[u] = state[u]
    <3>1. Replaced(state, state', t, "writing")
      BY <1>1, <2>1, TableExcept, Zenon
    <3> QED
      BY <3>1, Zenon DEF Replaced
  <2>4. ASSUME NEW i \in 1 .. Len(order') PROVE state'[order'[i]] = "written" <=> i <= Len(wire')
    <3>1. CASE i = L + 1
      <4>1. ~ (i <= W) /\ state'[order'[i]] # "written"
        BY <1>1, <1>2, <2>2, <2>3, <3>1
      <4> QED
        BY <2>1, <4>1, Zenon DEF W
    <3>2. CASE i \in 1 .. L
      <4>1. order'[i] = order[i] /\ order[i] \in Threads \ {t}
        BY <1>1, <2>1, <2>2, <3>2
      <4> QED
        BY <1>2, <2>1, <2>3, <3>2, <4>1, Zenon DEF W
    <3>3. i = L + 1 \/ i \in 1 .. L
      BY <1>1, <2>2
    <3> QED
      BY <3>1, <3>2, <3>3
  <2>5. \A i \in 1 .. Len(wire') : wire'[i] = Blob(from', message'[order'[i]])
    <3>1. \A i \in 1 .. W : i \in 1 .. L
      BY <1>1, <1>2
    <3> QED
      BY <1>2, <1>3, <2>1, <2>2, <3>1, Zenon DEF W
  <2>6. \A u \in Threads : state'[u] \in {"idle", "writing"} => chunks'[u] = <<Blob(from', message'[u])>>
    <3>1. state[t] \in {"idle", "writing"}
      BY <2>1
    <3> QED
      BY <1>2, <1>3, <2>1, <2>3, <3>1, Zenon
  <2>7. Len(wire') <= Len(order')
    BY <1>1, <1>2, <2>1, <2>2 DEF W
  <2>8. wire' \in Seq(Seq(Symbols)) /\ at' <= Len(wire') /\ \A n \in 1 .. at' : received'[n] = ParseBlob(wire'[n], HeaderSize(wire'[n]))
    BY <1>2, <1>3, <2>1, Zenon DEF W
  <2> QED
    BY <1>3, <2>4, <2>5, <2>6, <2>7, <2>8, Zenon DEF Frames
<1>6. CASE WriteChunk(t)
  <2>1. /\ state[t] = "writing" /\ open /\ order' = order
        /\ wire' = Append(wire, Head(chunks[t]))
        /\ chunks' = [chunks EXCEPT ![t] = Tail(chunks[t])]
        /\ state' = [state EXCEPT ![t] = IF Len(chunks[t]) = 1 THEN "written" ELSE state[t]]
    BY <1>6, Zenon DEF WriteChunk
  <2>2. PICK text \in Seq(Symbols) : text = Blob(from, message[t]) /\ chunks[t] = <<text>>
    <3>1. state[t] \in {"idle", "writing"} /\ message[t] \in Messages
      BY <1>1, <2>1
    <3>2. Blob(from, message[t]) \in Seq(Symbols)
      BY <3>1, TextParts, Zenon
    <3> QED
      BY <1>2, <3>1, <3>2, Zenon
  <2>3. Head(chunks[t]) = text /\ Len(chunks[t]) = 1
    BY <2>2
  <2>4. wire' = Append(wire, text) /\ state' = [state EXCEPT ![t] = "written"]
    BY <2>1, <2>3, Zenon
  <2>5. /\ wire' \in Seq(Seq(Symbols)) /\ Len(wire') = W + 1 /\ wire'[W + 1] = text
        /\ \A i \in 1 .. W : wire'[i] = wire[i]
    BY <1>2, <2>4 DEF W
  <2>6. state'[t] = "written" /\ \A u \in Threads \ {t} : state'[u] = state[u] /\ chunks'[u] = chunks[u]
    <3>1. Replaced(state, state', t, "written")
      BY <1>1, <2>4, TableExcept, Zenon
    <3>2. PICK c : chunks' = [chunks EXCEPT ![t] = c]
      BY <2>1, Zenon
    <3>3. Replaced(chunks, chunks', t, c)
      BY <1>1, <3>2, TableExcept, Zenon
    <3> QED
      BY <3>1, <3>3, Zenon DEF Replaced
  <2>7. L \in 1 .. L /\ order[L] = t
    <3>1. PICK i \in 1 .. L : order[i] = t
      BY <2>1, Zenon DEF Turns, L
    <3>2. i = L
      BY <2>1, <3>1, Zenon DEF Turns, L
    <3> QED
      BY <3>1, <3>2
  <2>8. L = W + 1
    <3>1. W \in Nat /\ L \in Nat /\ ~ (L <= W)
      BY <1>1, <1>2, <2>1, <2>7, Zenon
    <3>2. CASE L = 1
      BY <3>1, <3>2
    <3>3. CASE L # 1
      <4>1. L - 1 \in 1 .. Len(order) /\ L - 1 # Len(order)
        <5>1. L - 1 \in 1 .. L /\ L - 1 # L
          BY <2>7, <3>1, <3>3
        <5> QED
          BY <5>1, Zenon DEF L
      <4>2. state[order[L - 1]] = "written"
        BY <2>1, <4>1, EarlierWritten, Zenon
      <4>3. L - 1 <= W
        BY <1>2, <4>1, <4>2, Zenon DEF L
      <4>4. W <= L
        BY <1>2, Zenon
      <4> QED
        BY <3>1, <4>3, <4>4
    <3> QED
      BY <3>2, <3>3, Zenon
  <2>9. W \in Nat /\ L \in Nat /\ at \in Nat /\ at <= W
    BY <1>1, <1>2, <1>4, Zenon
  <2>10. ASSUME NEW i \in 1 .. L PROVE state'[order[i]] = "written" /\ i <= W + 1
    <3>1. i <= W + 1 /\ (i # L => i <= W)
      BY <2>8, <2>9
    <3>2. CASE i = L
      BY <2>6, <2>7, <3>1, <3>2, Zenon
    <3>3. CASE i # L
      <4>1. order[i] \in Threads \ {t}
        BY <1>1, <2>7, <3>3, Zenon
      <4> QED
        BY <1>2, <2>6, <3>1, <3>3, <4>1, Zenon
    <3> QED
      BY <3>2, <3>3, Zenon
  <2>11. ASSUME NEW i \in 1 .. W + 1 PROVE wire'[i] = Blob(from', message'[order'[i]])
    <3>1. CASE i = W + 1
      BY <1>3, <2>1, <2>2, <2>5, <2>7, <2>8, <3>1, Zenon
    <3>2. CASE i # W + 1
      <4>1. i \in 1 .. W
        BY <2>9, <3>2
      <4> QED
        BY <1>2, <1>3, <2>1, <2>5, <4>1, Zenon
    <3> QED
      BY <3>1, <3>2, Zenon
  <2>12. \A u \in Threads : state'[u] \in {"idle", "writing"} => chunks'[u] = <<Blob(from', message'[u])>>
    <3>1. state'[t] \notin {"idle", "writing"}
      <4>1. state'[t] = "written"
        BY <2>6, Zenon
      <4> QED
        BY <4>1
    <3> QED
      BY <1>2, <1>3, <2>6, <3>1, Zenon
  <2>13. Len(wire') <= Len(order') /\ at' <= Len(wire')
    <3>1. Len(order') = L /\ Len(wire') = W + 1 /\ at' = at
      BY <1>3, <2>1, <2>5, Zenon DEF L
    <3> QED
      BY <2>8, <2>9, <3>1
  <2>14. \A n \in 1 .. at' : received'[n] = ParseBlob(wire'[n], HeaderSize(wire'[n]))
    <3>1. \A n \in 1 .. at : n \in 1 .. W
      BY <2>9
    <3> QED
      BY <1>2, <1>3, <2>5, <3>1, Zenon
  <2>15. \A i \in 1 .. Len(order') : state'[order'[i]] = "written" <=> i <= Len(wire')
    BY <2>1, <2>5, <2>10, Zenon DEF L
  <2> QED
    BY <1>3, <2>5, <2>11, <2>12, <2>13, <2>14, <2>15, Zenon DEF Frames
<1> QED
  BY <1>5, <1>6

\* A failed write and the end of the stream add no frame.
LEMMA FramesRest ==
  ASSUME Turns, to = "js", Frames, (\E t \in Threads : WriteFails(t)) \/ CloseStream \/ UNCHANGED vars
  PROVE  Frames'
<1>1. /\ from' = from /\ message' = message /\ order' = order /\ chunks' = chunks /\ wire' = wire
      /\ at' = at /\ reader' = reader /\ received' = received
  BY Zenon DEF WriteFails, FailLeaving, CloseStream, vars, writer, reading
<1>2. \A u \in Threads : state'[u] = state[u] \/ (state[u] = "writing" /\ state'[u] = "failed")
  <2>1. ASSUME NEW t \in Threads, WriteFails(t)
        PROVE  \A u \in Threads : state'[u] = state[u] \/ (state[u] = "writing" /\ state'[u] = "failed")
    <3>1. state \in [Threads -> States] /\ state[t] = "writing" /\ state' = [state EXCEPT ![t] = "failed"]
      BY <2>1, Zenon DEF WriteFails, FailLeaving, Turns
    <3> QED
      BY <3>1
  <2>2. CASE CloseStream \/ UNCHANGED vars
    BY <2>2, Zenon DEF CloseStream, vars, writer
  <2> QED
    BY ZenonT(30), <2>1, <2>2
<1>3. \A u \in Threads : (state'[u] = "written" <=> state[u] = "written")
                         /\ (state'[u] \in {"idle", "writing"} => state[u] \in {"idle", "writing"})
  BY ZenonT(30), <1>2
<1>4. \A i \in 1 .. Len(order) : order[i] \in Threads
  BY Zenon DEF Turns
<1> QED
  BY <1>1, <1>3, <1>4, Zenon DEF Frames

\* onmessage parses the frames one by one, in the order they arrive in.
LEMMA FramesRead ==
  ASSUME Turns, to = "js", Frames, Reads
  PROVE  Frames'
<1>1. from' = from /\ message' = message /\ state' = state /\ order' = order /\ chunks' = chunks /\ wire' = wire
  BY ReaderOnly, Zenon
<1>2. PICK S : received \in Seq(S)
  BY Zenon DEF Frames
<1>9. PICK k \in Nat : k = Len(received) /\ at = k
  BY <1>2 DEF Frames
<1>3. reader # "paragraph" /\ reader # "length"
  BY DEF Frames
<1>4. CASE ReadFrame
  <2>1. at < Len(wire) /\ at' = at + 1 /\ reader' = reader /\ received' = Append(received, ParseBlob(wire[at + 1], HeaderSize(wire[at + 1])))
    BY <1>4, Zenon DEF ReadFrame
  <2>2. PICK x : x = ParseBlob(wire[k + 1], HeaderSize(wire[k + 1]))
    OBVIOUS
  <2>3. /\ received' \in Seq(S \cup {x}) /\ Len(received') = k + 1 /\ received'[k + 1] = x
        /\ \A n \in 1 .. k : received'[n] = received[n]
    <3>1. IsAppended(received', S, received, x, k)
      BY <1>2, <1>9, <2>1, <2>2, Appended, Zenon
    <3> QED
      BY <3>1, Zenon DEF IsAppended
  <2>4. at' = Len(received') /\ at' <= Len(wire')
    <3>1. Len(wire) \in Nat
      BY DEF Frames
    <3> QED
      BY <1>1, <1>9, <2>1, <2>3, <3>1
  <2>5. ASSUME NEW n \in 1 .. k + 1 PROVE received'[n] = ParseBlob(wire[n], HeaderSize(wire[n]))
    <3>1. n \in 1 .. k \/ n = k + 1
      OBVIOUS
    <3>2. \A i \in 1 .. k : received[i] = ParseBlob(wire[i], HeaderSize(wire[i]))
      BY <1>9, Zenon DEF Frames
    <3> QED
      BY <2>2, <2>3, <3>1, <3>2, Zenon
  <2>6. \A n \in 1 .. at' : received'[n] = ParseBlob(wire'[n], HeaderSize(wire'[n]))
    BY <1>1, <2>3, <2>4, <2>5, Zenon
  <2>7. reader' \in {"headers", "eof"}
    BY <2>1, Zenon DEF Frames
  <2> QED
    BY <1>1, <2>3, <2>4, <2>6, <2>7, Zenon DEF Frames
<1>5. CASE ReadEOF
  <2>1. reader' = "eof" /\ at' = at /\ received' = received
    BY <1>5, Zenon DEF ReadEOF, Fail
  <2> QED
    BY <1>1, <2>1, Zenon DEF Frames
<1> QED
  BY <1>3, <1>4, <1>5, Zenon DEF Reads, ReadHeaderLine, ReadBodyLine, ReadLength

-----------------------------------------------------------------------------
(* What is read is what was written.                                       *)

\* The inductive invariant: the writers take turns, a reader of frames has parsed the first
\* of them, and a reader of a stream is where the messages it has returned end, or within
\* the next one.
WireInv ==
  /\ Turns
  /\ to = "js" => Frames
  /\ to # "js" => Returned /\ \E off : Laid(off) /\ Place(off)

\* WireInv holds before anything is written.
LEMMA WireInvInit ==
  ASSUME Init
  PROVE  WireInv
<1>1. Turns
  BY TurnsInit
<1>2. /\ chunks = [t \in Threads |-> ChunksOf(message[t])] /\ order = <<>> /\ wire = <<>>
      /\ at = 0 /\ reader = "headers" /\ headers = <<>> /\ body = <<>> /\ received = <<>>
  BY Zenon DEF Init
<1>3. \A t \in Threads : chunks[t] = ChunksOf(message[t])
  BY <1>2
<1>4. /\ wire \in Seq(Symbols) /\ wire \in Seq(Seq(Symbols)) /\ Len(wire) = 0 /\ Len(order) = 0
      /\ received \in Seq(Symbols) /\ Len(received) = 0 /\ 1 .. 0 = {} /\ 0 <= 0
  BY <1>2
<1>5. to = "js" => Frames
  <2> SUFFICES ASSUME to = "js" PROVE Frames
    OBVIOUS
  <2>1. \A t \in Threads : chunks[t] = <<Blob(from, message[t])>>
    BY <1>3, Zenon DEF ChunksOf
  <2> QED
    BY <1>2, <1>4, <2>1, Zenon DEF Frames
<1>6. Returned
  BY <1>4, Zenon DEF Returned
<1>7. PICK off : off = [i \in 1 .. 0 |-> 0]
  OBVIOUS
<1>8. Laid(off)
  <2>1. off \in [1 .. 0 -> Nat]
    BY <1>7
  <2> QED
    BY <1>3, <1>4, <2>1, Zenon DEF Laid
<1>9. Place(off)
  BY <1>2, <1>4, Zenon DEF Place, Waits
<1> QED
  BY <1>1, <1>5, <1>6, <1>8, <1>9, Zenon DEF WireInv

\* Every step of a writer or a reader keeps WireInv.
LEMMA WireInvStep ==
  ASSUME WireInv, [Next]_vars
  PROVE  WireInv'
<1>1. Turns /\ Turns'
  BY TurnsStep, Zenon DEF WireInv
<1>2. to' = to
  <2>1. CASE \E t \in Threads : Enter(t) \/ WriteChunk(t) \/ WriteFails(t)
    BY <2>1, WriterOnly, Zenon
  <2>2. CASE Reads
    BY <2>2, ReaderOnly, Zenon
  <2> QED
    BY <2>1, <2>2, StepCases, Zenon DEF CloseStream, vars
<1>3. CASE to = "js"
  <2>1. Frames
    BY <1>3, Zenon DEF WireInv
  <2>2. ASSUME NEW t \in Threads, Enter(t) \/ WriteChunk(t) PROVE Frames'
    BY <1>1, <1>3, <2>1, <2>2, FramesWrite, Zenon
  <2>3. ASSUME Reads PROVE Frames'
    BY <1>1, <1>3, <2>1, <2>3, FramesRead, Zenon
  <2>4. ASSUME (\E t \in Threads : WriteFails(t)) \/ CloseStream \/ UNCHANGED vars PROVE Frames'
    BY <1>1, <1>3, <2>1, <2>4, FramesRest, Zenon
  <2>5. Frames'
    BY <2>2, <2>3, <2>4, StepCases, Zenon
  <2> QED
    BY <1>1, <1>2, <1>3, <2>5, Zenon DEF WireInv
<1>4. CASE to # "js"
  <2>1. Returned
    BY <1>4, Zenon DEF WireInv
  <2>2. PICK off : Laid(off) /\ Place(off)
    BY <1>4, Zenon DEF WireInv
  <2>3. ASSUME NEW t \in Threads, Enter(t) \/ WriteChunk(t)
        PROVE  \E new : Laid(new)' /\ Grown(off, new)
    BY <1>1, <1>4, <2>2, <2>3, LaidEnter, LaidWrite, Zenon
  <2>4. ASSUME (\E t \in Threads : WriteFails(t)) \/ CloseStream \/ UNCHANGED vars \/ Reads
        PROVE  Laid(off)' /\ Grown(off, off)
    BY <1>1, <1>4, <2>2, <2>4, LaidRest, Zenon
  <2>5. ASSUME \/ \E t \in Threads : Enter(t) \/ WriteChunk(t) \/ WriteFails(t)
               \/ CloseStream \/ UNCHANGED vars
        PROVE  Returned' /\ \E new : Laid(new)' /\ Place(new)'
    <3>1. PICK new : Laid(new)' /\ Grown(off, new)
      BY <2>3, <2>4, <2>5, Zenon
    <3>2. /\ from' = from /\ to' = to /\ message' = message
          /\ at' = at /\ reader' = reader /\ headers' = headers /\ body' = body /\ received' = received
      BY <2>5, WriterOnly, Zenon
    <3>3. Returned' /\ Place(new)'
      BY <1>1, <2>1, <2>2, <3>1, <3>2, WriterKeeps, Zenon
    <3> QED
      BY <3>1, <3>3, Zenon
  <2>6. ASSUME Reads PROVE Returned' /\ Place(off)' /\ Laid(off)'
    BY <1>1, <1>4, <2>1, <2>2, <2>4, <2>6, ReaderKeeps, Zenon
  <2>7. Returned' /\ \E new : Laid(new)' /\ Place(new)'
    BY <2>5, <2>6, StepCases, Zenon
  <2> QED
    BY <1>1, <1>2, <1>4, <2>7, Zenon DEF WireInv
<1> QED
  BY <1>3, <1>4

\* The invariant gives the property: a stream by Returned, a frame by FrameIsReadAs.
LEMMA InvReadBack ==
  ASSUME WireInv
  PROVE  FramedReadBack
<1> SUFFICES ASSUME NEW n \in DOMAIN received, \A i \in 1 .. n : Unambiguous(message[order[i]])
             PROVE  received[n] = ReadAs(message[order[n]]) /\ state[order[n]] = "written"
  BY Zenon DEF FramedReadBack
<1>1. PICK S : received \in Seq(S)
  BY Zenon DEF WireInv, Frames, Returned
<1>2. n \in 1 .. Len(received)
  BY <1>1
<1>3. CASE to # "js"
  <2>1. FramedUpTo(n)
    BY Zenon DEF FramedUpTo
  <2>2. received[n] = Expected(message[order[n]]) /\ state[order[n]] = "written"
    BY <1>2, <1>3, <2>1, Zenon DEF WireInv, Returned
  <2>3. \A m : ReadAs(m) = Expected(m)
    BY <1>3, Zenon DEF ReadAs
  <2> QED
    BY <2>2, <2>3, Zenon
<1>4. CASE to = "js"
  <2>1. Turns /\ Frames
    BY <1>4, Zenon DEF WireInv
  <2>2. n \in 1 .. at /\ n \in 1 .. Len(wire) /\ n \in 1 .. Len(order) /\ n <= Len(wire)
    <3>1. /\ at = Len(received) /\ at <= Len(wire) /\ Len(wire) <= Len(order)
          /\ wire \in Seq(Seq(Symbols)) /\ order \in Seq(Threads)
      BY <2>1, Zenon DEF Frames, Turns
    <3>2. at \in Nat /\ Len(wire) \in Nat /\ Len(order) \in Nat
      BY <1>1, <3>1
    <3> QED
      BY <1>2, <3>1, <3>2
  <2>3. state[order[n]] = "written" /\ wire[n] = Blob(from, message[order[n]]) /\ received[n] = ParseBlob(wire[n], HeaderSize(wire[n]))
    BY <2>1, <2>2, Zenon DEF Frames
  <2>4. PICK m : m = message[order[n]]
    OBVIOUS
  <2>5. m \in Messages /\ Unambiguous(m)
    <3>1. order[n] \in Threads
      BY <2>1, <2>2, Zenon DEF Turns
    <3>2. n \in 1 .. n
      BY <1>1, <1>2
    <3>3. message \in [Threads -> Messages]
      BY <2>1, Zenon DEF Turns
    <3> QED
      BY <2>4, <3>1, <3>2, <3>3
  <2>6. ParseBlob(Blob(from, m), HeaderSize(Blob(from, m))) = ReadAs(m)
    BY <1>4, <2>5, FrameIsReadAs, Zenon
  <2> QED
    BY <2>3, <2>4, <2>6, Zenon
<1> QED
  BY <1>3, <1>4

\* Whatever two of the languages write and read, however many threads share the writer,
\* whatever framed messages they write, with one spelling of Content-Length, and wherever the
\* stream breaks off: the reader returns one message for one, in the order in which the
\* writer's mutex was taken, each whole and as it was built, except for what JavaScript's
\* reader does to one without Content-Length (reader.go:24, stream_reader.rb:18,
\* StreamReader.php:17, parseMessageFromBlob.ts:34).
THEOREM WireReadsBack == Spec => []FramedReadBack
<1>1. Init => WireInv
  BY WireInvInit
<1>2. WireInv /\ [Next]_vars => WireInv'
  BY WireInvStep
<1>3. WireInv => FramedReadBack
  BY InvReadBack
<1> QED
  BY <1>1, <1>2, <1>3, PTL DEF Spec
=============================================================================
