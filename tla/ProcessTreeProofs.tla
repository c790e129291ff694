-------------------------- MODULE ProcessTreeProofs --------------------------
(***************************************************************************)
(* Theorems about ProcessTree: the tree of processes stays consistent, and *)
(* no exit of a child and no end of a loader is lost.                      *)
(***************************************************************************)
EXTENDS ProcessTree, FiniteSetTheorems, NaturalsInduction, TLAPS

(* A table is described by what it says of each process; the lemmas below  *)
(* are about the operations on tables, the steps at the end use them.      *)
Record ==
    [stat : Stat, fa : Proc \union {Nobody}, children : Seq(Proc),
     autoDestroy : BOOLEAN, permits : Int,
     pc : {"code", "loader", "loading", "waiting"},
     want : Proc \union {Nobody, AnyPID}, exec : BOOLEAN]

IsTable(P) == P \in [Proc -> Record]

Listed(P) ==
    \A p \in Proc :
       /\ IsInjective(P[p].children)
       /\ \A q \in Proc : Contains(P[p].children, q) <=> P[q].fa = p

NoCycle(P) ==
    \A D \in (SUBSET Proc) \ {{}} : \E q \in D : P[q].fa \notin D

FreeIsFresh(P) == \A p \in Proc : P[p].stat = "None" => P[p] = FreshProcess

OrphansOnly(P) == \A p \in Proc : P[p].autoDestroy => P[p].fa = Nobody

LoadersLive(P) ==
    \A p \in Proc : P[p].pc = "loader" => P[p].stat \in {"Ready", "Running"}

\* What a process sleeps for has not happened yet.
Awaits(P, p) ==
    IF P[p].pc = "loading"
    THEN /\ P[p].want \in Proc
         /\ P[P[p].want].fa = p
         /\ P[P[p].want].pc = "loader"
    ELSE /\ P[p].pc = "waiting"
         /\ \A c \in Proc : P[c].fa = p /\ P[c].stat = "Quiting"
                               => P[p].want \notin {AnyPID, c}

SleepersAwait(P) ==
    \A p \in Proc : P[p].stat = "Sleeping" => Awaits(P, p)

Good(P) ==
    /\ IsTable(P) /\ Listed(P) /\ NoCycle(P) /\ FreeIsFresh(P)
    /\ OrphansOnly(P) /\ LoadersLive(P) /\ SleepersAwait(P)

TreeInv ==
    /\ Good(Processes)
    /\ CurrentProcess \in Proc
    /\ fault = "none" => Processes[CurrentProcess].stat # "None"

-----------------------------------------------------------------------------
(* Part of a list.                                                         *)

Places(s, S) == {i \in DOMAIN s : s[i] \in S}
UpTo(s, S, i) == {j \in Places(s, S) : j <= i}
Nth(s, S, k) == CHOOSE i \in Places(s, S) : Cardinality(UpTo(s, S, i)) = k

LEMMA ThoseDef ==
    ASSUME NEW s, NEW S
    PROVE  Those(s, S) = [k \in 1 .. Cardinality(Places(s, S)) |-> s[Nth(s, S, k)]]
BY DEF Those, Places, UpTo, Nth

\* Each number up to the number of places is that of one place.
LEMMA NthPlace ==
    ASSUME NEW A, NEW s \in Seq(A), NEW S
    PROVE  /\ Cardinality(Places(s, S)) \in Nat
           /\ \A k \in 1 .. Cardinality(Places(s, S)) :
                 /\ Nth(s, S, k) \in Places(s, S)
                 /\ Cardinality(UpTo(s, S, Nth(s, S, k))) = k
           /\ \A i \in Places(s, S) :
                 \E k \in 1 .. Cardinality(Places(s, S)) : Nth(s, S, k) = i
<1> DEFINE places == Places(s, S)
           n == Cardinality(places)
           g == [i \in places |-> Cardinality(UpTo(s, S, i))]
<1>1. places \subseteq 1 .. Len(s) /\ Len(s) \in Nat
  BY DEF Places
<1>2. IsFiniteSet(places) /\ n \in Nat
  <2>1. IsFiniteSet(1 .. Len(s))
    BY <1>1, FS_Interval
  <2> QED
    BY <1>1, <2>1, FS_Subset, FS_CardinalityType
<1>3. ASSUME NEW i \in places
      PROVE  /\ IsFiniteSet(UpTo(s, S, i)) /\ Cardinality(UpTo(s, S, i)) \in 1 .. n
             /\ i \in UpTo(s, S, i)
  <2>1. UpTo(s, S, i) \subseteq places /\ i \in UpTo(s, S, i)
    BY <1>1, <1>3 DEF UpTo
  <2>2. IsFiniteSet(UpTo(s, S, i)) /\ Cardinality(UpTo(s, S, i)) <= n
    BY <1>2, <2>1, FS_Subset
  <2>3. Cardinality(UpTo(s, S, i)) \in Nat /\ Cardinality(UpTo(s, S, i)) # 0
    BY <2>1, <2>2, FS_CardinalityType, FS_EmptySet
  <2> QED
    BY <1>2, <2>1, <2>2, <2>3
<1>4. ASSUME NEW i \in places, NEW j \in places, i < j
      PROVE  Cardinality(UpTo(s, S, i)) # Cardinality(UpTo(s, S, j))
  <2>1. UpTo(s, S, i) \subseteq UpTo(s, S, j) /\ j \notin UpTo(s, S, i)
    BY <1>1, <1>4 DEF UpTo
  <2> QED
    BY <1>3, <2>1, FS_Subset
<1>5. g \in Injection(places, 1 .. n)
  <2>1. g \in [places -> 1 .. n]
    BY <1>3
  <2>2. ASSUME NEW i \in places, NEW j \in places, g[i] = g[j]
        PROVE  i = j
    BY <1>1, <1>4, <2>2
  <2> QED
    BY <2>1, <2>2, Zenon DEF Injection, IsInjective
<1>6. IsFiniteSet(1 .. n) /\ Cardinality(1 .. n) = n
  BY <1>2, FS_Interval
<1>7. g \in Surjection(places, 1 .. n)
  <2>1. Cardinality(places) = Cardinality(1 .. n)
    BY <1>6
  <2> QED
    BY <1>5, <1>6, <2>1, FS_Injection
<1>8. ASSUME NEW k \in 1 .. n
      PROVE  Nth(s, S, k) \in places /\ Cardinality(UpTo(s, S, Nth(s, S, k))) = k
  <2>1. \E i \in places : g[i] = k
    BY <1>7 DEF Surjection
  <2>2. \E i \in places : Cardinality(UpTo(s, S, i)) = k
    BY <2>1
  <2> QED
    BY <2>2 DEF Nth
<1>9. ASSUME NEW i \in places
      PROVE  \E k \in 1 .. n : Nth(s, S, k) = i
  <2> DEFINE k == Cardinality(UpTo(s, S, i))
  <2>1. k \in 1 .. n
    BY <1>3
  <2>2. Nth(s, S, k) \in places /\ Cardinality(UpTo(s, S, Nth(s, S, k))) = k
    BY <1>8, <2>1
  <2>3. Nth(s, S, k) = i
    BY <1>1, <1>4, <2>2
  <2> QED
    BY <2>1, <2>3
<1> QED
  BY <1>2, <1>8, <1>9

\* A part of a list without repetitions has the members it should, once each.
LEMMA ThoseFacts ==
    ASSUME NEW A, NEW s \in Seq(A), NEW S
    PROVE  /\ Those(s, S) \in Seq(A)
           /\ \A c : Contains(Those(s, S), c) <=> Contains(s, c) /\ c \in S
           /\ IsInjective(s) => IsInjective(Those(s, S))
<1> DEFINE n == Cardinality(Places(s, S))
           t == Those(s, S)
<1>1. /\ n \in Nat
      /\ \A k \in 1 .. n : Nth(s, S, k) \in Places(s, S)
                           /\ Cardinality(UpTo(s, S, Nth(s, S, k))) = k
      /\ \A i \in Places(s, S) : \E k \in 1 .. n : Nth(s, S, k) = i
  BY NthPlace
<1>2. t = [k \in 1 .. n |-> s[Nth(s, S, k)]]
  BY ThoseDef
<1>3. \A i : i \in Places(s, S) <=> i \in 1 .. Len(s) /\ s[i] \in S
  BY DEF Places
<1>4. \A i \in 1 .. Len(s) : s[i] \in A
  OBVIOUS
<1>5. t \in Seq(A) /\ Len(t) = n
  BY <1>1, <1>2, <1>3, <1>4
<1>6. ASSUME NEW c
      PROVE  Contains(t, c) <=> Contains(s, c) /\ c \in S
  BY <1>1, <1>2, <1>3, <1>5 DEF Contains
<1>7. ASSUME IsInjective(s) PROVE IsInjective(t)
  <2>1. DOMAIN t = 1 .. n /\ DOMAIN s = 1 .. Len(s)
    BY <1>2
  <2>2. ASSUME NEW k \in 1 .. n, NEW l \in 1 .. n, t[k] = t[l]
        PROVE  k = l
    <3>1. s[Nth(s, S, k)] = s[Nth(s, S, l)]
      BY <1>2, <2>2
    <3>2. Nth(s, S, k) = Nth(s, S, l)
      BY <1>1, <1>3, <1>7, <2>1, <3>1 DEF IsInjective
    <3> QED
      BY <1>1, <3>2
  <2> QED
    BY <2>1, <2>2 DEF IsInjective
<1> QED
  BY <1>5, <1>6, <1>7

\* A new head.
LEMMA Headed ==
    ASSUME NEW A, NEW s \in Seq(A), NEW a \in A
    PROVE  /\ <<a>> \o s \in Seq(A)
           /\ \A c : Contains(<<a>> \o s, c) <=> c = a \/ Contains(s, c)
           /\ IsInjective(s) /\ ~ Contains(s, a) => IsInjective(<<a>> \o s)
<1> DEFINE t == <<a>> \o s
<1>1. t \in Seq(A) /\ Len(t) = Len(s) + 1 /\ t[1] = a /\ Len(s) \in Nat
  OBVIOUS
<1>2. \A i \in 1 .. Len(s) : t[i + 1] = s[i]
  OBVIOUS
<1>3. \A j \in 2 .. Len(t) : t[j] = s[j - 1] /\ j - 1 \in 1 .. Len(s)
  BY <1>1, <1>2
<1>4. DOMAIN t = 1 .. Len(t) /\ DOMAIN s = 1 .. Len(s)
  BY <1>1
<1>5. ASSUME NEW c PROVE Contains(t, c) <=> c = a \/ Contains(s, c)
  <2>1. ASSUME Contains(t, c) PROVE c = a \/ Contains(s, c)
    BY <1>1, <1>3, <2>1 DEF Contains
  <2>2. ASSUME c = a \/ Contains(s, c) PROVE Contains(t, c)
    <3>1. CASE c = a
      BY <1>1, <3>1 DEF Contains
    <3>2. CASE Contains(s, c)
      <4>1. PICK i \in 1 .. Len(s) : s[i] = c
        BY <3>2 DEF Contains
      <4>2. i + 1 \in 1 .. Len(t) /\ t[i + 1] = c
        BY <1>1, <1>2, <4>1
      <4> QED
        BY <4>2 DEF Contains
    <3> QED
      BY <2>2, <3>1, <3>2
  <2> QED
    BY <2>1, <2>2
<1>6. ASSUME IsInjective(s), ~ Contains(s, a) PROVE IsInjective(t)
  <2>1. ASSUME NEW i \in 1 .. Len(t), NEW j \in 1 .. Len(t), t[i] = t[j]
        PROVE  i = j
    <3>1. CASE i = 1 /\ j # 1
      BY <1>1, <1>3, <1>6, <2>1, <3>1 DEF Contains
    <3>2. CASE i # 1 /\ j = 1
      BY <1>1, <1>3, <1>6, <2>1, <3>2 DEF Contains
    <3>3. CASE i # 1 /\ j # 1
      <4>1. s[i - 1] = s[j - 1] /\ i - 1 \in 1 .. Len(s) /\ j - 1 \in 1 .. Len(s)
        BY <1>1, <1>3, <2>1, <3>3
      <4>2. i - 1 = j - 1
        BY <1>4, <1>6, <4>1 DEF IsInjective
      <4> QED
        BY <4>2
    <3> QED
      BY <3>1, <3>2, <3>3
  <2> QED
    BY <1>4, <2>1 DEF IsInjective
<1> QED
  BY <1>1, <1>5, <1>6

-----------------------------------------------------------------------------
(* What a process takes with it.                                           *)

LEMMA Constants ==
    Nobody \notin Proc /\ AnyPID \notin Proc /\ AnyPID # Nobody /\ 0 \in Proc
BY TreeAssumption DEF Nobody, AnyPID, Proc

\* The closure by fathers, which are as good as the lists.
LEMMA ClosedByFathers ==
    ASSUME NEW P, IsTable(P), Listed(P), NEW D \in SUBSET Proc
    PROVE  ClosedBelow(P, D) <=> \A q \in Proc : P[q].fa \in D => q \in D
<1>1. \A p \in Proc : P[p].children \in Seq(Proc)
  BY DEF IsTable, Record
<1>2. ASSUME ClosedBelow(P, D), NEW q \in Proc, P[q].fa \in D
      PROVE  q \in D
  <2>1. Contains(P[P[q].fa].children, q)
    BY <1>2 DEF Listed
  <2> QED
    BY <1>1, <1>2, <2>1 DEF Contains, ClosedBelow
<1>3. ASSUME \A q \in Proc : P[q].fa \in D => q \in D
      PROVE  ClosedBelow(P, D)
  <2>1. SUFFICES ASSUME NEW f \in D, NEW i \in DOMAIN P[f].children
                 PROVE  P[f].children[i] \in D
    BY DEF ClosedBelow
  <2>2. i \in 1 .. Len(P[f].children) /\ P[f].children[i] \in Proc
    BY <1>1
  <2>3. Contains(P[f].children, P[f].children[i])
    BY <2>2 DEF Contains
  <2> QED
    BY <1>3, <2>2, <2>3 DEF Listed
<1> QED
  BY <1>2, <1>3

\* The least closed set exists.
LEMMA DescendantsLeast ==
    ASSUME NEW P, IsTable(P), NEW p \in Proc
    PROVE  /\ Descendants(P, p) \in SUBSET Proc
           /\ p \in Descendants(P, p) /\ ClosedBelow(P, Descendants(P, p))
           /\ \A E \in SUBSET Proc :
                 p \in E /\ ClosedBelow(P, E) => Descendants(P, p) \subseteq E
<1> DEFINE X == {q \in Proc : \A E \in SUBSET Proc :
                                 p \in E /\ ClosedBelow(P, E) => q \in E}
<1>1. X \in SUBSET Proc /\ p \in X
  OBVIOUS
<1>2. \A E \in SUBSET Proc : p \in E /\ ClosedBelow(P, E) => X \subseteq E
  OBVIOUS
<1>3. ClosedBelow(P, X)
  <2>1. SUFFICES ASSUME NEW f \in X, NEW i \in DOMAIN P[f].children
                 PROVE  P[f].children[i] \in X
    BY DEF ClosedBelow
  <2>2. P[f].children[i] \in Proc
    BY DEF IsTable, Record
  <2>3. ASSUME NEW E \in SUBSET Proc, p \in E, ClosedBelow(P, E)
        PROVE  P[f].children[i] \in E
    BY <2>3 DEF ClosedBelow
  <2> QED
    BY <2>2, <2>3
<1> HIDE DEF X
<1> QED
  BY <1>1, <1>2, <1>3 DEF Descendants

\* Everybody below p, but p, has a father below p.
LEMMA FathersBelow ==
    ASSUME NEW P, IsTable(P), Listed(P), NEW p \in Proc,
           NEW x \in Descendants(P, p), x # p
    PROVE  P[x].fa \in Descendants(P, p)
<1> DEFINE D == Descendants(P, p)
<1>1. D \in SUBSET Proc /\ p \in D /\ ClosedBelow(P, D)
  BY DescendantsLeast
<1>2. SUFFICES ASSUME P[x].fa \notin D PROVE FALSE
  OBVIOUS
<1>3. D \ {x} \in SUBSET Proc /\ p \in D \ {x}
  BY <1>1
<1>4. ClosedBelow(P, D \ {x})
  BY <1>1, <1>2, <1>3, ClosedByFathers
<1>5. D \subseteq D \ {x}
  BY <1>3, <1>4, DescendantsLeast
<1> QED
  BY <1>5

\* A father is not below his child.
LEMMA NotBelow ==
    ASSUME NEW P, IsTable(P), Listed(P), NoCycle(P),
           NEW p \in Proc, NEW c \in Proc, P[c].fa = p
    PROVE  p \notin Descendants(P, c)
<1> DEFINE D == Descendants(P, c)
<1>1. SUFFICES ASSUME p \in D PROVE FALSE
  OBVIOUS
<1>2. D \in SUBSET Proc /\ c \in D
  BY DescendantsLeast
<1>3. \A x \in D : P[x].fa \in D
  BY <1>1, FathersBelow
<1> QED
  BY <1>2, <1>3 DEF NoCycle

\* A set of processes that can go: the children go with the father, and a
\* process without its father only when it has quit.
Doomed(P, D) ==
    /\ D \in SUBSET Proc
    /\ ClosedBelow(P, D)
    /\ \A x \in D : P[x].fa \in D \/ P[x].stat = "Quiting"

LEMMA DescendantsDoomed ==
    ASSUME NEW P, IsTable(P), Listed(P), NEW p \in Proc, P[p].stat = "Quiting"
    PROVE  Doomed(P, Descendants(P, p))
BY DescendantsLeast, FathersBelow DEF Doomed

\* What the scan has destroyed are orphans with those below them.
LEMMA GoneDoomed ==
    ASSUME NEW P, IsTable(P), Listed(P), OrphansOnly(P), NEW p \in Proc, NEW d
    PROVE  /\ Doomed(P, Gone(P, p, d))
           /\ \A x \in Gone(P, p, d) : P[x].fa \in Gone(P, p, d) \/ P[x].fa = Nobody
<1> DEFINE roots == {i \in 1 .. d - 1 : /\ P[InRing(p, i)].stat = "Quiting"
                                        /\ P[InRing(p, i)].autoDestroy}
<1>1. Gone(P, p, d) = UNION {Descendants(P, InRing(p, i)) : i \in roots}
  BY DEF Gone
<1>2. ASSUME NEW i \in roots PROVE InRing(p, i) \in Proc
  <2>1. i \in Int
    OBVIOUS
  <2> QED
    BY <2>1, TreeAssumption DEF InRing, Proc
<1>3. ASSUME NEW i \in roots
      PROVE  /\ Doomed(P, Descendants(P, InRing(p, i)))
             /\ \A x \in Descendants(P, InRing(p, i)) :
                   P[x].fa \in Descendants(P, InRing(p, i)) \/ P[x].fa = Nobody
  BY <1>2, DescendantsDoomed, FathersBelow DEF OrphansOnly
<1> HIDE DEF roots
<1> QED
  BY <1>1, <1>3 DEF Doomed, ClosedBelow

-----------------------------------------------------------------------------
(* Destroy.                                                                *)

\* Table N says of x what P says, but for the list of children.
Same(P, N, x) ==
    /\ N[x].stat = P[x].stat /\ N[x].fa = P[x].fa
    /\ N[x].autoDestroy = P[x].autoDestroy /\ N[x].permits = P[x].permits
    /\ N[x].pc = P[x].pc /\ N[x].want = P[x].want /\ N[x].exec = P[x].exec

LEMMA Fresh ==
    /\ FreshProcess \in Record
    /\ FreshProcess.stat = "None" /\ FreshProcess.fa = Nobody
    /\ ~ FreshProcess.autoDestroy /\ FreshProcess.pc = "code"
    /\ FreshProcess.want = Nobody /\ ~ FreshProcess.exec
    /\ FreshProcess.children = <<>>
    /\ \A c : ~ Contains(FreshProcess.children, c)
    /\ IsInjective(FreshProcess.children)
BY DEF FreshProcess, Record, Stat, Contains, IsInjective

\* Another list of children.
LEMMA Relisted ==
    ASSUME NEW r \in Record, NEW t \in Seq(Proc)
    PROVE  LET n == [r EXCEPT !.children = t]
           IN  /\ n \in Record /\ n.children = t
               /\ n.stat = r.stat /\ n.fa = r.fa
               /\ n.autoDestroy = r.autoDestroy /\ n.permits = r.permits
               /\ n.pc = r.pc /\ n.want = r.want /\ n.exec = r.exec
BY DEF Record

LEMMA DestroyedFacts ==
    ASSUME NEW P, IsTable(P), Listed(P), NEW D \in SUBSET Proc
    PROVE  LET N == Destroyed(P, D)
           IN  /\ IsTable(N)
               /\ \A p \in D : N[p] = FreshProcess
               /\ \A p \in Proc \ D :
                     /\ Same(P, N, p)
                     /\ IsInjective(N[p].children)
                     /\ \A c \in Proc : Contains(N[p].children, c)
                                          <=> Contains(P[p].children, c) /\ c \notin D
<1> DEFINE N == Destroyed(P, D)
           S == Proc \ D
<1>1. \A p \in Proc : P[p] \in Record
  BY DEF IsTable
<1>2. ASSUME NEW p \in Proc \ D
      PROVE  /\ Those(P[p].children, S) \in Seq(Proc)
             /\ \A c : Contains(Those(P[p].children, S), c)
                          <=> Contains(P[p].children, c) /\ c \in S
             /\ IsInjective(Those(P[p].children, S))
  BY <1>1, ThoseFacts DEF Record, Listed
<1>3. ASSUME NEW p \in Proc \ D
      PROVE  N[p] = [P[p] EXCEPT !.children = Those(P[p].children, S)]
  BY DEF Destroyed
<1>4. ASSUME NEW p \in Proc \ D
      PROVE  N[p] \in Record /\ Same(P, N, p)
             /\ N[p].children = Those(P[p].children, S)
  <2> DEFINE r == P[p]
             t == Those(P[p].children, S)
             n == N[p]
  <2>1. r \in Record /\ t \in Seq(Proc)
    BY <1>1, <1>2
  <2>2. n = [r EXCEPT !.children = t]
    BY <1>3
  <2>3. /\ n \in Record /\ n.children = t
        /\ n.stat = r.stat /\ n.fa = r.fa
        /\ n.autoDestroy = r.autoDestroy /\ n.permits = r.permits
        /\ n.pc = r.pc /\ n.want = r.want /\ n.exec = r.exec
    <3> HIDE DEF r, t, n
    <3> QED
      BY <2>1, <2>2, Relisted, Zenon
  <2> QED
    BY <2>3 DEF Same
<1>5. \A p \in D : N[p] = FreshProcess
  BY DEF Destroyed
<1>6. IsTable(N)
  <2>1. N = [p \in Proc |-> N[p]]
    BY DEF Destroyed
  <2>2. \A p \in Proc : N[p] \in Record
    BY <1>4, <1>5, Fresh
  <2> HIDE DEF N
  <2> QED
    BY <2>1, <2>2 DEF IsTable
<1>7. \A p \in Proc \ D :
         /\ Same(P, N, p)
         /\ IsInjective(N[p].children)
         /\ \A c \in Proc : Contains(N[p].children, c)
                              <=> Contains(P[p].children, c) /\ c \notin D
  BY <1>2, <1>4
<1> HIDE DEF N
<1> QED
  BY <1>5, <1>6, <1>7 DEF N

\* Who stays sleeps for what it slept for.
LEMMA DestroyedGood ==
    ASSUME NEW P, Good(P), NEW D, Doomed(P, D)
    PROVE  Good(Destroyed(P, D))
<1> DEFINE N == Destroyed(P, D)
<1>1. D \in SUBSET Proc /\ \A q \in Proc : P[q].fa \in D => q \in D
  BY ClosedByFathers DEF Doomed, Good
<1>2. /\ IsTable(N)
      /\ \A p \in D : N[p] = FreshProcess
      /\ \A p \in Proc \ D :
            /\ Same(P, N, p)
            /\ IsInjective(N[p].children)
            /\ \A c \in Proc : Contains(N[p].children, c)
                                 <=> Contains(P[p].children, c) /\ c \notin D
  BY <1>1, DestroyedFacts DEF Good
<1> HIDE DEF N
<1>3. Listed(N)
  <2>1. ASSUME NEW p \in D, NEW q \in Proc
        PROVE  N[q].fa # p
    BY <1>1, <1>2, <2>1, Fresh, Constants DEF Same
  <2>2. ASSUME NEW p \in Proc \ D, NEW q \in Proc
        PROVE  Contains(N[p].children, q) <=> N[q].fa = p
    BY <1>1, <1>2, Fresh, Constants DEF Same, Good, Listed
  <2>3. \A p \in D : IsInjective(N[p].children)
                     /\ \A q \in Proc : ~ Contains(N[p].children, q)
    BY <1>2, Fresh
  <2> QED
    BY <1>2, <2>1, <2>2, <2>3 DEF Listed
<1>4. NoCycle(N)
  <2>1. SUFFICES ASSUME NEW E \in (SUBSET Proc) \ {{}}
                 PROVE  \E q \in E : N[q].fa \notin E
    BY DEF NoCycle
  <2>2. CASE E \cap D # {}
    BY <1>2, <2>2, Fresh, Constants
  <2>3. CASE E \cap D = {}
    <3>1. PICK q \in E : P[q].fa \notin E
      BY <2>1 DEF Good, NoCycle
    <3> QED
      BY <1>2, <2>3, <3>1 DEF Same
  <2> QED
    BY <2>2, <2>3
<1>5. FreeIsFresh(N)
  <2>1. ASSUME NEW p \in Proc \ D, N[p].stat = "None"
        PROVE  N[p] = FreshProcess
    <3>1. P[p] = FreshProcess
      BY <1>2, <2>1 DEF Same, Good, FreeIsFresh
    <3>2. \A c \in Proc : ~ Contains(N[p].children, c)
      BY <1>2, <2>1, <3>1, Fresh
    <3>3. N[p] \in Record /\ P[p] \in Record
      BY <1>2, <3>1, Fresh DEF IsTable
    <3>4. N[p].children = <<>>
      <4>1. N[p].children \in Seq(Proc)
        BY <3>3 DEF Record
      <4>2. Len(N[p].children) = 0
        BY <3>2, <4>1 DEF Contains
      <4> QED
        BY <4>1, <4>2
    <3> QED
      BY <1>2, <2>1, <3>1, <3>3, <3>4, Fresh DEF Same, Record
  <2> QED
    BY <1>2, <2>1 DEF FreeIsFresh
<1>6. OrphansOnly(N)
  BY <1>2, Fresh DEF OrphansOnly, Good, Same
<1>7. LoadersLive(N)
  BY <1>2, Fresh DEF LoadersLive, Good, Same
<1>8. SleepersAwait(N)
  <2>1. SUFFICES ASSUME NEW p \in Proc, N[p].stat = "Sleeping"
                 PROVE  Awaits(N, p)
    BY DEF SleepersAwait
  <2>2. p \notin D /\ Same(P, N, p)
    BY <1>2, <2>1, Fresh
  <2>3. Awaits(P, p)
    BY <2>1, <2>2 DEF Same, Good, SleepersAwait
  <2>4. CASE P[p].pc = "loading"
    <3>1. P[p].want \in Proc \ D
      BY <2>2, <2>3, <2>4 DEF Awaits, Doomed, Good, LoadersLive
    <3> QED
      BY <1>2, <2>2, <2>3, <2>4, <3>1 DEF Same, Awaits
  <2>5. CASE P[p].pc # "loading"
    <3>1. \A c \in Proc : N[c].fa = p /\ N[c].stat = "Quiting"
                             => P[c].fa = p /\ P[c].stat = "Quiting"
      BY <1>2, Fresh DEF Same
    <3> QED
      BY <2>2, <2>3, <2>5, <3>1 DEF Same, Awaits
  <2> QED
    BY <2>4, <2>5
<1> QED
  BY <1>2, <1>3, <1>4, <1>5, <1>6, <1>7, <1>8 DEF Good, N

-----------------------------------------------------------------------------
(* Steps that leave the tree alone.                                        *)

Kin(P, N) ==
    \A p \in Proc : /\ N[p].fa = P[p].fa /\ N[p].children = P[p].children
                    /\ N[p].autoDestroy = P[p].autoDestroy

LEMMA KinTree ==
    ASSUME NEW P, NEW N, Good(P), Kin(P, N)
    PROVE  Listed(N) /\ NoCycle(N) /\ OrphansOnly(N)
BY DEF Good, Kin, Listed, NoCycle, OrphansOnly

LEMMA StillAwaits ==
    ASSUME NEW P, NEW N, Good(P), Kin(P, N), NEW p \in Proc,
           P[p].stat = "Sleeping", N[p].pc = P[p].pc, N[p].want = P[p].want,
           P[p].pc = "loading" => N[P[p].want].pc = "loader",
           \A c \in Proc : P[c].fa = p /\ N[c].stat = "Quiting" /\ P[p].pc = "waiting"
                              => P[c].stat = "Quiting"
    PROVE  Awaits(N, p)
<1>1. Awaits(P, p)
  BY DEF Good, SleepersAwait
<1>2. CASE P[p].pc = "loading"
  BY <1>1, <1>2 DEF Awaits, Kin
<1>3. CASE P[p].pc # "loading"
  BY <1>1, <1>3 DEF Awaits, Kin
<1> QED
  BY <1>2, <1>3

\* A table whose free slots are those of P, unchanged.
LEMMA SlotsStayFresh ==
    ASSUME NEW P, NEW N, Good(P),
           \A x \in Proc : N[x].stat = "None" => N[x] = P[x]
    PROVE  FreeIsFresh(N)
BY DEF FreeIsFresh, Good

\* One process with a new state.
InState(P, p, s) == [P EXCEPT ![p].stat = s]

Restates(P, N, p, s) ==
    /\ IsTable(N) /\ Kin(P, N)
    /\ \A x \in Proc : N[x].pc = P[x].pc /\ N[x].want = P[x].want
    /\ \A x \in Proc \ {p} : N[x] = P[x]
    /\ p \in Proc => N[p].stat = s

LEMMA Restated ==
    ASSUME NEW P, IsTable(P), NEW p, NEW s \in Stat
    PROVE  Restates(P, InState(P, p, s), p, s)
<1> DEFINE N == InState(P, p, s)
<1>1. \A x \in Proc \ {p} : N[x] = P[x]
  BY DEF IsTable, InState
<1>2. CASE p \notin Proc
  <2>1. N = P
    BY <1>2 DEF IsTable, InState
  <2> QED
    BY <1>2, <2>1 DEF Kin, Restates
<1>3. CASE p \in Proc
  <2>1. PICK r \in Record : r = P[p]
    BY <1>3 DEF IsTable
  <2>2. N[p] = [r EXCEPT !.stat = s]
    BY <1>3, <2>1 DEF IsTable, InState
  <2>3. N[p] \in Record /\ N[p].stat = s /\ N[p].fa = r.fa
        /\ N[p].children = r.children /\ N[p].autoDestroy = r.autoDestroy
        /\ N[p].pc = r.pc /\ N[p].want = r.want
    <3> DEFINE n == N[p]
    <3>1. n = [r EXCEPT !.stat = s]
      BY <2>2
    <3> HIDE DEF n
    <3>2. n \in Record /\ n.stat = s /\ n.fa = r.fa
          /\ n.children = r.children /\ n.autoDestroy = r.autoDestroy
          /\ n.pc = r.pc /\ n.want = r.want
      BY <3>1 DEF Record
    <3> QED
      BY <3>2 DEF n
  <2>4. N = [x \in Proc |-> N[x]]
    BY DEF IsTable, InState
  <2>5. \A x \in Proc : N[x] \in Record
    BY <1>1, <2>3 DEF IsTable
  <2> HIDE DEF N
  <2>6. IsTable(N)
    BY <2>4, <2>5 DEF IsTable
  <2> QED
    BY <1>1, <1>3, <2>1, <2>3, <2>6 DEF Kin, N, Restates
<1> QED
  BY <1>2, <1>3

\* The switch to a process that is ready.
LEMMA SwitchedGood ==
    ASSUME NEW P, Good(P), NEW p \in Proc, NEW q \in Proc, P[q].stat = "Ready"
    PROVE  Good(Switched(P, p, q)) /\ Switched(P, p, q)[q].stat = "Running"
<1> DEFINE s == IF P[p].stat = "Running" THEN "Ready" ELSE P[p].stat
           M == InState(P, p, s)
           N == InState(M, q, "Running")
<1>1. Switched(P, p, q) = N
  BY DEF Switched, Good, IsTable, InState
<1>2. s \in Stat
  BY DEF Good, IsTable, Record, Stat
<1> HIDE DEF s
<1>3. /\ IsTable(M) /\ Kin(P, M)
      /\ \A x \in Proc : M[x].pc = P[x].pc /\ M[x].want = P[x].want
      /\ \A x \in Proc \ {p} : M[x] = P[x]
      /\ M[p].stat = s
  <2>1. Restates(P, M, p, s)
    BY <1>2, Restated DEF Good
  <2> QED
    BY <2>1 DEF Restates
<1> HIDE DEF M
<1>4. /\ IsTable(N) /\ Kin(M, N)
      /\ \A x \in Proc : N[x].pc = M[x].pc /\ N[x].want = M[x].want
      /\ \A x \in Proc \ {q} : N[x] = M[x]
      /\ N[q].stat = "Running"
  <2>1. "Running" \in Stat
    BY DEF Stat
  <2>2. Restates(M, N, q, "Running")
    BY <1>3, <2>1, Restated, Zenon
  <2> QED
    BY <2>2 DEF Restates
<1> HIDE DEF N
<1>5. Kin(P, N) /\ \A x \in Proc : N[x].pc = P[x].pc /\ N[x].want = P[x].want
  BY <1>3, <1>4 DEF Kin
<1>6. \A x \in Proc : \/ N[x].stat = P[x].stat
                      \/ /\ N[x].stat \in {"Ready", "Running"}
                         /\ P[x].stat \in {"Ready", "Running"}
  BY <1>3, <1>4 DEF s
<1>7. FreeIsFresh(N)
  <2>1. ASSUME NEW x \in Proc, N[x].stat = "None" PROVE N[x] = P[x]
    <3>1. x # q
      BY <1>4, <2>1
    <3>2. CASE x # p
      BY <1>3, <1>4, <3>1, <3>2
    <3>3. CASE x = p
      <4>1. P[p].stat = "None" /\ P \in [Proc -> Record]
        BY <1>6, <2>1, <3>3 DEF Good, IsTable
      <4>2. P[p].stat = s
        BY <4>1 DEF s
      <4>3. [P[p] EXCEPT !.stat = s] = P[p]
        BY <4>1, <4>2 DEF Record
      <4>4. M[p] = P[p]
        BY <4>1, <4>3 DEF M, InState
      <4> QED
        BY <1>4, <3>1, <3>3, <4>4
    <3> QED
      BY <3>2, <3>3
  <2> QED
    BY <2>1, SlotsStayFresh
<1>8. LoadersLive(N)
  BY <1>5, <1>6 DEF LoadersLive, Good
<1>9. SleepersAwait(N)
  <2>1. ASSUME NEW x \in Proc, N[x].stat = "Sleeping" PROVE Awaits(N, x)
    <3>1. P[x].stat = "Sleeping" /\ Awaits(P, x)
      BY <1>6, <2>1 DEF Good, SleepersAwait
    <3>2. P[x].pc = "loading" => N[P[x].want].pc = "loader"
      BY <1>5, <3>1 DEF Awaits
    <3>3. \A c \in Proc : N[c].stat = "Quiting" => P[c].stat = "Quiting"
      BY <1>6
    <3> QED
      BY <1>5, <3>1, <3>2, <3>3, StillAwaits
  <2> QED
    BY <2>1 DEF SleepersAwait
<1>10. Listed(N) /\ NoCycle(N) /\ OrphansOnly(N)
  BY <1>5, KinTree
<1> QED
  BY <1>1, <1>4, <1>7, <1>8, <1>9, <1>10 DEF Good

\* One process is given other fields, its family aside.
LEMMA Refitted ==
    ASSUME NEW P, IsTable(P), NEW N, NEW p \in Proc, NEW n \in Record,
           N = [x \in Proc |-> IF x = p THEN n ELSE P[x]],
           n.fa = P[p].fa, n.children = P[p].children,
           n.autoDestroy = P[p].autoDestroy
    PROVE  IsTable(N) /\ Kin(P, N) /\ N[p] = n /\ \A x \in Proc \ {p} : N[x] = P[x]
BY DEF IsTable, Kin

\* The exit of p, which tells its father.
LEMMA ExitedFacts ==
    ASSUME NEW P, Good(P), NEW p \in Proc
    PROVE  LET N == Exited(P, p)
           IN  /\ IsTable(N) /\ Kin(P, N)
               /\ \A x \in Proc : N[x].pc = P[x].pc /\ N[x].want = P[x].want
               /\ N[p].stat = "Quiting"
               /\ \A x \in Proc \ {p} :
                     \/ N[x] = P[x] /\ (P[p].fa = x => P[x].stat # "Sleeping"
                                                       \/ P[x].pc # "waiting")
                     \/ /\ N[x].stat = P[x].stat /\ P[p].fa = x
                        /\ P[x].stat # "Sleeping" \/ P[x].pc # "waiting"
                     \/ N[x].stat = "Ready" /\ P[x].stat = "Sleeping"
                        /\ P[x].pc = "waiting"
<1> DEFINE f == P[p].fa
           tells == ~ P[p].autoDestroy /\ f # Nobody
           told == [P EXCEPT ![f].permits = @ + 1,
                             ![f].stat = IF @ = "Sleeping" /\ P[f].pc = "waiting"
                                         THEN "Ready" ELSE @]
           T == IF tells THEN told ELSE P
           N == InState(T, p, "Quiting")
<1>1. Exited(P, p) = N
  BY DEF Exited, InState
<1>2. IsTable(P) /\ f \in Proc \union {Nobody} /\ (P[p].autoDestroy => f = Nobody)
  BY DEF Good, IsTable, Record, OrphansOnly
<1>3. /\ IsTable(T) /\ Kin(P, T)
      /\ \A x \in Proc : T[x].pc = P[x].pc /\ T[x].want = P[x].want
      /\ \A x \in Proc : x # f => T[x] = P[x]
      /\ f \in Proc => T[f].stat = IF P[f].stat = "Sleeping" /\ P[f].pc = "waiting"
                                   THEN "Ready" ELSE P[f].stat
  <2>1. CASE ~ tells
    <3>1. T = P /\ f \notin Proc
      BY <1>2, <2>1, Constants
    <3> QED
      BY <1>2, <3>1 DEF Kin
  <2>2. CASE tells
    <3>1. PICK r \in Record : r = P[f]
      BY <1>2, <2>2 DEF IsTable
    <3>2. f \in Proc
      BY <1>2, <2>2
    <3> DEFINE s == IF r.stat = "Sleeping" /\ r.pc = "waiting" THEN "Ready" ELSE r.stat
               m == [r EXCEPT !.permits = @ + 1]
               n == [m EXCEPT !.stat = s]
    <3>3. s \in Stat
      BY DEF Record, Stat
    <3>4. T = [x \in Proc |-> IF x = f THEN n ELSE P[x]]
      BY <1>2, <2>2, <3>1, <3>2 DEF IsTable, Record
    <3> HIDE DEF s
    <3>5. n \in Record /\ n.stat = s /\ n.fa = r.fa /\ n.children = r.children
          /\ n.autoDestroy = r.autoDestroy /\ n.pc = r.pc /\ n.want = r.want
      <4>1. m \in Record /\ m.fa = r.fa /\ m.children = r.children
            /\ m.autoDestroy = r.autoDestroy /\ m.pc = r.pc /\ m.want = r.want
        BY DEF Record
      <4> HIDE DEF m
      <4>2. n \in Record /\ n.stat = s /\ n.fa = m.fa /\ n.children = m.children
            /\ n.autoDestroy = m.autoDestroy /\ n.pc = m.pc /\ n.want = m.want
        BY <3>3, <4>1 DEF Record
      <4> QED
        BY <4>1, <4>2
    <3> HIDE DEF n, T
    <3>6. IsTable(T) /\ Kin(P, T) /\ T[f] = n /\ \A x \in Proc \ {f} : T[x] = P[x]
      BY <1>2, <3>1, <3>2, <3>4, <3>5, Refitted
    <3> QED
      BY <3>1, <3>2, <3>5, <3>6 DEF s
  <2> QED
    BY <2>1, <2>2
<1> HIDE DEF T
<1>4. /\ IsTable(N) /\ Kin(T, N)
      /\ \A x \in Proc : N[x].pc = T[x].pc /\ N[x].want = T[x].want
      /\ \A x \in Proc \ {p} : N[x] = T[x]
      /\ N[p].stat = "Quiting"
  <2>1. "Quiting" \in Stat
    BY DEF Stat
  <2>2. Restates(T, N, p, "Quiting")
    BY <1>3, <2>1, Restated, Zenon
  <2> QED
    BY <2>2 DEF Restates
<1> HIDE DEF N
<1>5. Kin(P, N) /\ \A x \in Proc : N[x].pc = P[x].pc /\ N[x].want = P[x].want
  BY <1>3, <1>4 DEF Kin
<1>6. \A x \in Proc \ {p} :
         \/ N[x] = P[x] /\ (f = x => P[x].stat # "Sleeping" \/ P[x].pc # "waiting")
         \/ /\ N[x].stat = P[x].stat /\ f = x
            /\ P[x].stat # "Sleeping" \/ P[x].pc # "waiting"
         \/ N[x].stat = "Ready" /\ P[x].stat = "Sleeping" /\ P[x].pc = "waiting"
  BY <1>3, <1>4
<1> QED
  BY <1>1, <1>4, <1>5, <1>6

LEMMA FathersExist ==
    ASSUME NEW P, Good(P), NEW p \in Proc, P[p].fa \in Proc
    PROVE  P[P[p].fa].stat # "None" /\ P[p].fa # p
<1>1. Contains(P[P[p].fa].children, p)
  BY DEF Good, Listed
<1>2. P[P[p].fa].stat # "None"
  BY <1>1, Fresh DEF Good, FreeIsFresh
<1>3. \E q \in {p} : P[q].fa \notin {p}
  BY DEF Good, NoCycle
<1> QED
  BY <1>2, <1>3

LEMMA ExitedGood ==
    ASSUME NEW P, Good(P), NEW p \in Proc, P[p].pc = "code"
    PROVE  Good(Exited(P, p)) /\ Exited(P, p)[p].stat = "Quiting"
<1> DEFINE N == Exited(P, p)
<1>1. /\ IsTable(N) /\ Kin(P, N)
      /\ \A x \in Proc : N[x].pc = P[x].pc /\ N[x].want = P[x].want
      /\ N[p].stat = "Quiting"
      /\ \A x \in Proc \ {p} :
            \/ N[x] = P[x] /\ (P[p].fa = x => P[x].stat # "Sleeping"
                                              \/ P[x].pc # "waiting")
            \/ /\ N[x].stat = P[x].stat /\ P[p].fa = x
               /\ P[x].stat # "Sleeping" \/ P[x].pc # "waiting"
            \/ N[x].stat = "Ready" /\ P[x].stat = "Sleeping"
               /\ P[x].pc = "waiting"
  BY ExitedFacts
<1> HIDE DEF N
<1>2. \A x \in Proc : N[x].stat = "None" => N[x] = P[x]
  BY <1>1, FathersExist
<1>3. FreeIsFresh(N)
  BY <1>2, SlotsStayFresh
<1>4. LoadersLive(N)
  BY <1>1 DEF Good, LoadersLive
<1>5. SleepersAwait(N)
  <2>1. ASSUME NEW x \in Proc, N[x].stat = "Sleeping" PROVE Awaits(N, x)
    <3>1. x # p /\ P[x].stat = "Sleeping" /\ Awaits(P, x)
      BY <1>1, <2>1 DEF Good, SleepersAwait
    <3>2. P[x].pc = "loading" => N[P[x].want].pc = "loader"
      BY <1>1, <3>1 DEF Awaits
    <3>3. \A c \in Proc : P[c].fa = x /\ N[c].stat = "Quiting" /\ P[x].pc = "waiting"
                             => P[c].stat = "Quiting"
      BY <1>1, <2>1, <3>1
    <3> QED
      BY <1>1, <3>1, <3>2, <3>3, StillAwaits
  <2> QED
    BY <2>1 DEF SleepersAwait
<1>6. Listed(N) /\ NoCycle(N) /\ OrphansOnly(N)
  BY <1>1, KinTree
<1> QED
  BY <1>1, <1>3, <1>4, <1>5, <1>6 DEF Good, N

\* The record of a process with other fields.
Refit(r, a, w, e) == [r EXCEPT !.pc = a, !.want = w, !.exec = e]
Refits(r, n, a, w) ==
    /\ n \in Record /\ n.pc = a /\ n.want = w
    /\ n.stat = r.stat /\ n.fa = r.fa /\ n.children = r.children
    /\ n.autoDestroy = r.autoDestroy
Codes == {"code", "loader", "loading", "waiting"}
Wanted == Proc \union {Nobody, AnyPID}
Restat(r, k, s) == [r EXCEPT !.permits = k, !.stat = s]

LEMMA Refielded ==
    ASSUME NEW r \in Record, NEW a \in Codes, NEW w \in Wanted, NEW e \in BOOLEAN
    PROVE  Refits(r, Refit(r, a, w, e), a, w)
BY DEF Record, Refit, Refits, Codes, Wanted

LEMMA Restored ==
    ASSUME NEW r \in Record, NEW k \in Int, NEW s \in Stat
    PROVE  LET n == Restat(r, k, s)
           IN  /\ n \in Record /\ n.stat = s
               /\ n.fa = r.fa /\ n.children = r.children
               /\ n.autoDestroy = r.autoDestroy
BY DEF Record, Restat

Returned(P, p) ==
    [P EXCEPT ![p].pc = "code", ![p].want = Nobody, ![p].exec = FALSE]

\* A wait that returns.
LEMMA ReturnedGood ==
    ASSUME NEW P, Good(P), NEW p \in Proc, P[p].pc # "loader",
           P[p].stat \notin {"Sleeping", "None"}
    PROVE  LET N == Returned(P, p)
           IN  /\ Good(N) /\ N[p].stat = P[p].stat /\ N[p].pc = "code"
               /\ N[p].want = Nobody /\ Kin(P, N) /\ \A x \in Proc \ {p} : N[x] = P[x]
<1> DEFINE N == Returned(P, p)
<1>1. PICK r \in Record : r = P[p]
  BY DEF Good, IsTable
<1> DEFINE n == Refit(r, "code", Nobody, FALSE)
<1>2. /\ n \in Record /\ n.pc = "code" /\ n.want = Nobody
      /\ n.stat = r.stat /\ n.fa = r.fa /\ n.children = r.children
      /\ n.autoDestroy = r.autoDestroy
  <2>1. "code" \in Codes /\ FALSE \in BOOLEAN /\ Nobody \in Wanted
    BY DEF Codes, Wanted
  <2>2. Refits(r, n, "code", Nobody)
    BY <2>1, Refielded, Zenon
  <2> QED
    BY <2>2 DEF Refits
<1>3. N = [x \in Proc |-> IF x = p THEN n ELSE P[x]]
  BY <1>1 DEF Returned, Good, IsTable, Record, Refit
<1> HIDE DEF n, N
<1>4. IsTable(N) /\ Kin(P, N) /\ N[p] = n /\ \A x \in Proc \ {p} : N[x] = P[x]
  BY <1>1, <1>2, <1>3, Refitted DEF Good
<1>5. FreeIsFresh(N)
  BY <1>1, <1>2, <1>4, SlotsStayFresh
<1>6. LoadersLive(N)
  BY <1>2, <1>4 DEF Good, LoadersLive
<1>7. SleepersAwait(N)
  <2>1. ASSUME NEW x \in Proc, N[x].stat = "Sleeping" PROVE Awaits(N, x)
    <3>1. x # p /\ P[x].stat = "Sleeping" /\ Awaits(P, x)
      BY <1>1, <1>2, <1>4, <2>1 DEF Good, SleepersAwait
    <3>2. P[x].pc = "loading" => N[P[x].want].pc = "loader"
      BY <1>4, <3>1 DEF Awaits
    <3>3. \A c \in Proc : N[c].stat = P[c].stat
      BY <1>1, <1>2, <1>4
    <3> QED
      BY <1>4, <3>1, <3>2, <3>3, StillAwaits
  <2> QED
    BY <2>1 DEF SleepersAwait
<1>8. Listed(N) /\ NoCycle(N) /\ OrphansOnly(N)
  BY <1>4, KinTree
<1>9. Good(N)
  BY <1>4, <1>5, <1>6, <1>7, <1>8 DEF Good
<1> QED
  BY <1>1, <1>2, <1>4, <1>9 DEF N

\* What WaitLoop leaves of the process that sleeps.
Asleep(P, p, want, exec) ==
    [Sleeps(P, p) EXCEPT ![p].want = want, ![p].exec = exec]

LEMMA AsleepGood ==
    ASSUME NEW P, Good(P), NEW p \in Proc, P[p].pc # "loader",
           NEW want \in Proc \union {Nobody, AnyPID}, NEW exec \in BOOLEAN,
           \A c \in Proc : P[c].fa = p /\ P[c].stat = "Quiting"
                              => want \notin {AnyPID, c}
    PROVE  LET N == Asleep(P, p, want, exec)
           IN  /\ Good(N) /\ N[p].stat = "Sleeping" /\ Kin(P, N)
               /\ \A x \in Proc \ {p} : N[x] = P[x]
<1> DEFINE N == Asleep(P, p, want, exec)
<1>1. PICK r \in Record : r = P[p]
  BY DEF Good, IsTable
<1> DEFINE k == Smallest({r.permits, 0}) - 1
           m == Restat(r, k, "Sleeping")
           n == Refit(m, "waiting", want, exec)
<1>2. k \in Int
  <2>1. r.permits \in Int
    BY DEF Record
  <2>2. \E x \in {r.permits, 0} : \A y \in {r.permits, 0} : x <= y
    BY <2>1
  <2>3. Smallest({r.permits, 0}) \in {r.permits, 0}
    BY <2>2 DEF Smallest
  <2> QED
    BY <2>1, <2>3
<1>3. N = [x \in Proc |-> IF x = p THEN n ELSE P[x]]
  BY <1>1 DEF Asleep, Sleeps, Good, IsTable, Record, Refit, Restat
<1> HIDE DEF k
<1>4. m \in Record /\ m.stat = "Sleeping" /\ m.fa = r.fa /\ m.children = r.children
      /\ m.autoDestroy = r.autoDestroy
  <2>1. "Sleeping" \in Stat
    BY DEF Stat
  <2> QED
    BY <1>2, <2>1, Restored
<1> HIDE DEF m
<1>5. /\ n \in Record /\ n.pc = "waiting" /\ n.want = want
      /\ n.stat = m.stat /\ n.fa = m.fa /\ n.children = m.children
      /\ n.autoDestroy = m.autoDestroy
  <2>1. "waiting" \in Codes /\ want \in Wanted
    BY DEF Codes, Wanted
  <2>2. Refits(m, n, "waiting", want)
    BY <1>4, <2>1, Refielded, Zenon
  <2> QED
    BY <2>2 DEF Refits
<1> HIDE DEF n, N
<1>6. IsTable(N) /\ Kin(P, N) /\ N[p] = n /\ \A x \in Proc \ {p} : N[x] = P[x]
  BY <1>1, <1>3, <1>4, <1>5, Refitted DEF Good
<1>7. FreeIsFresh(N)
  BY <1>4, <1>5, <1>6, SlotsStayFresh
<1>8. LoadersLive(N)
  BY <1>5, <1>6 DEF Good, LoadersLive
<1>9. SleepersAwait(N)
  <2>1. ASSUME NEW x \in Proc, N[x].stat = "Sleeping", x # p PROVE Awaits(N, x)
    <3>1. P[x].stat = "Sleeping" /\ Awaits(P, x)
      BY <1>6, <2>1 DEF Good, SleepersAwait
    <3>2. P[x].pc = "loading" => N[P[x].want].pc = "loader"
      BY <1>6, <3>1 DEF Awaits
    <3>3. \A c \in Proc : N[c].stat = "Quiting" => P[c].stat = "Quiting"
      BY <1>4, <1>5, <1>6
    <3> QED
      BY <1>6, <2>1, <3>1, <3>2, <3>3, StillAwaits
  <2>2. Awaits(N, p)
    <3>1. \A c \in Proc : N[c].fa = p /\ N[c].stat = "Quiting"
                             => P[c].fa = p /\ P[c].stat = "Quiting"
      BY <1>4, <1>5, <1>6 DEF Kin
    <3> QED
      BY <1>5, <1>6, <3>1 DEF Awaits
  <2> QED
    BY <2>1, <2>2 DEF SleepersAwait
<1>10. Listed(N) /\ NoCycle(N) /\ OrphansOnly(N)
  BY <1>6, KinTree
<1>11. Good(N)
  BY <1>6, <1>7, <1>8, <1>9, <1>10 DEF Good
<1> QED
  BY <1>4, <1>5, <1>6, <1>11 DEF N

-----------------------------------------------------------------------------
(* A new father.                                                           *)

\* The lists of T hold everybody once, and q with the father it names only.
ListsHold(T, q) ==
    /\ IsTable(T)
    /\ \A x \in Proc : /\ IsInjective(T[x].children)
                       /\ Contains(T[x].children, q) => T[q].fa = x

\* Table N is T with q moved to father f.
Moved(T, N, q, f) ==
    /\ \A x \in Proc \ {q} : Same(T, N, x)
    /\ N[q].stat = T[q].stat /\ N[q].pc = T[q].pc /\ N[q].fa = f
    /\ N[q].autoDestroy => T[q].autoDestroy /\ f = Nobody
    /\ \A x, c \in Proc :
          Contains(N[x].children, c)
             <=> \/ c = q /\ x = f
                 \/ Contains(T[x].children, c) /\ c # q

\* Leaving the list of the father.
Left(T, q) ==
    IF T[q].fa = Nobody THEN T
    ELSE [T EXCEPT ![T[q].fa].children = Those(@, Proc \ {q})]

LEMMA LeftFacts ==
    ASSUME NEW T, NEW q \in Proc, ListsHold(T, q)
    PROVE  LET N == Left(T, q)
           IN  /\ IsTable(N)
               /\ \A x \in Proc : Same(T, N, x) /\ IsInjective(N[x].children)
               /\ \A x, c \in Proc : Contains(N[x].children, c)
                                        <=> Contains(T[x].children, c) /\ c # q
<1> DEFINE N == Left(T, q)
           g == T[q].fa
<1>1. IsTable(T) /\ g \in Proc \union {Nobody}
  BY DEF ListsHold, IsTable, Record
<1>2. CASE g = Nobody
  <2>1. N = T
    BY <1>2 DEF Left
  <2> QED
    BY <1>1, <1>2, <2>1, Constants DEF ListsHold, Same
<1>3. CASE g # Nobody
  <2>1. PICK r \in Record : r = T[g]
    BY <1>1, <1>3 DEF IsTable
  <2> DEFINE t == Those(r.children, Proc \ {q})
             n == [r EXCEPT !.children = t]
  <2>2. /\ t \in Seq(Proc) /\ IsInjective(t)
        /\ \A c : Contains(t, c) <=> Contains(r.children, c) /\ c \in Proc \ {q}
    <3>1. r.children \in Seq(Proc) /\ IsInjective(r.children)
      BY <1>1, <1>3, <2>1 DEF Record, ListsHold
    <3> QED
      BY <3>1, ThoseFacts
  <2>3. N = [x \in Proc |-> IF x = g THEN n ELSE T[x]]
    BY <1>1, <1>3, <2>1 DEF Left, IsTable, Record
  <2> HIDE DEF t, N
  <2>4. /\ n \in Record /\ n.children = t
        /\ n.stat = r.stat /\ n.fa = r.fa
        /\ n.autoDestroy = r.autoDestroy /\ n.permits = r.permits
        /\ n.pc = r.pc /\ n.want = r.want /\ n.exec = r.exec
    BY <2>2, Relisted
  <2> HIDE DEF n
  <2>5. N[g] = n /\ \A x \in Proc \ {g} : N[x] = T[x]
    BY <1>1, <1>3, <2>3
  <2>6. IsTable(N)
    BY <1>1, <2>3, <2>4 DEF IsTable
  <2>7. \A x \in Proc : Same(T, N, x) /\ IsInjective(N[x].children)
    BY <2>1, <2>2, <2>4, <2>5 DEF Same, ListsHold
  <2>8. \A x, c \in Proc : Contains(N[x].children, c)
                              <=> Contains(T[x].children, c) /\ c # q
    BY <1>1, <1>3, <2>1, <2>2, <2>4, <2>5 DEF ListsHold
  <2> QED
    BY <2>6, <2>7, <2>8 DEF N
<1> QED
  BY <1>2, <1>3

LEMMA SetFaFacts ==
    ASSUME NEW T, NEW q \in Proc, ListsHold(T, q),
           NEW f \in Proc \union {Nobody}, f # q, T[q].fa # q
    PROVE  /\ ListsHold(SetFa(T, q, f), q)
           /\ Moved(T, SetFa(T, q, f), q, f)
<1> DEFINE A == Left(T, q)
           N == SetFa(T, q, f)
<1>1. /\ IsTable(A)
      /\ \A x \in Proc : Same(T, A, x) /\ IsInjective(A[x].children)
      /\ \A x, c \in Proc : Contains(A[x].children, c)
                               <=> Contains(T[x].children, c) /\ c # q
  BY LeftFacts
<1>2. N = IF f = Nobody THEN [A EXCEPT ![q].fa = Nobody]
          ELSE [A EXCEPT ![f].children = <<q>> \o @,
                         ![q].fa = f, ![q].autoDestroy = FALSE]
  BY DEF SetFa, Left
<1> HIDE DEF A, N
<1> DEFINE t == IF f = Nobody THEN <<>> ELSE <<q>> \o A[f].children
           u == IF f = Nobody THEN A[q].autoDestroy ELSE FALSE
           n == [A[q] EXCEPT !.fa = f, !.autoDestroy = u]
           m == [A[f] EXCEPT !.children = t]
<1>3. f # Nobody => /\ t \in Seq(Proc) /\ IsInjective(t)
                    /\ \A c : Contains(t, c) <=> c = q \/ Contains(A[f].children, c)
  <2>1. SUFFICES ASSUME f # Nobody
                 PROVE  /\ t \in Seq(Proc) /\ IsInjective(t)
                        /\ \A c : Contains(t, c) <=> c = q \/ Contains(A[f].children, c)
    OBVIOUS
  <2>2. A[f].children \in Seq(Proc) /\ IsInjective(A[f].children)
        /\ ~ Contains(A[f].children, q)
    BY <1>1, <2>1 DEF IsTable, Record
  <2>3. t = <<q>> \o A[f].children
    BY <2>1
  <2> QED
    BY <2>2, <2>3, Headed
<1>4. N = [x \in Proc |-> IF x = q THEN n ELSE IF x = f THEN m ELSE A[x]]
  <2>1. CASE f = Nobody
    BY <1>1, <1>2, <2>1, Constants DEF IsTable, Record
  <2>2. CASE f # Nobody
    BY <1>1, <1>2, <2>2 DEF IsTable, Record
  <2> QED
    BY <2>1, <2>2
<1> HIDE DEF t
<1>5. /\ n \in Record /\ n.fa = f /\ n.autoDestroy = u /\ n.stat = A[q].stat
      /\ n.children = A[q].children /\ n.pc = A[q].pc
  <2>1. PICK r \in Record : r = A[q]
    BY <1>1 DEF IsTable
  <2>2. u \in BOOLEAN
    BY <2>1 DEF Record
  <2>3. n = [r EXCEPT !.fa = f, !.autoDestroy = u]
    BY <2>1
  <2> HIDE DEF n, u
  <2> QED
    BY <2>1, <2>2, <2>3 DEF Record
<1>6. f # Nobody => /\ m \in Record /\ m.children = t
                    /\ m.stat = A[f].stat /\ m.fa = A[f].fa
                    /\ m.autoDestroy = A[f].autoDestroy /\ m.permits = A[f].permits
                    /\ m.pc = A[f].pc /\ m.want = A[f].want /\ m.exec = A[f].exec
  <2>1. CASE f # Nobody
    <3>1. PICK r \in Record : r = A[f]
      BY <1>1, <2>1 DEF IsTable
    <3> QED
      BY <1>3, <2>1, <3>1, Relisted
  <2> QED
    BY <2>1
<1> HIDE DEF n, m
<1>7. /\ N[q] = n /\ (f # Nobody => N[f] = m)
      /\ \A x \in Proc \ {q, f} : N[x] = A[x]
  BY <1>4
<1>8. IsTable(N)
  <2>1. ASSUME NEW x \in Proc PROVE N[x] \in Record
    BY <1>1, <1>5, <1>6, <1>7, Constants DEF IsTable
  <2>2. N = [x \in Proc |-> N[x]]
    BY <1>4
  <2> QED
    BY <2>1, <2>2 DEF IsTable
<1>9. ASSUME NEW x \in Proc PROVE IsInjective(N[x].children)
  <2>1. CASE x = q
    BY <1>1, <1>5, <1>7, <2>1
  <2>2. CASE x = f
    BY <1>3, <1>6, <1>7, <2>2, Constants
  <2>3. CASE x \notin {q, f}
    BY <1>1, <1>7, <2>3
  <2> QED
    BY <2>1, <2>2, <2>3
<1>10. \A x, c \in Proc :
          Contains(N[x].children, c)
             <=> \/ c = q /\ x = f
                 \/ Contains(T[x].children, c) /\ c # q
  <2>1. ASSUME NEW x \in Proc, NEW c \in Proc, x # f
        PROVE  Contains(N[x].children, c) <=> Contains(T[x].children, c) /\ c # q
    BY <1>1, <1>5, <1>7, <2>1
  <2>2. ASSUME NEW c \in Proc, f # Nobody
        PROVE  Contains(N[f].children, c)
                  <=> c = q \/ (Contains(T[f].children, c) /\ c # q)
    BY <1>1, <1>3, <1>6, <1>7, <2>2
  <2> QED
    BY <2>1, <2>2, Constants
<1>11. \A x \in Proc \ {q} : Same(T, N, x)
  <2>1. ASSUME NEW x \in Proc \ {q} PROVE Same(A, N, x)
    BY <1>6, <1>7, <2>1, Constants DEF Same
  <2> QED
    BY <1>1, <2>1 DEF Same
<1>12. N[q].autoDestroy => T[q].autoDestroy /\ f = Nobody
  BY <1>1, <1>5, <1>7 DEF Same
<1> QED
  BY <1>1, <1>5, <1>7, <1>8, <1>9, <1>10, <1>11, <1>12, Constants
     DEF ListsHold, Moved, Same, N

\* Table N is P with a process in slot q, a child of f.
Adopts(P, N, q, f) ==
    /\ IsTable(N)
    /\ \A x \in Proc \ {q} : Same(P, N, x)
    /\ N[q].stat = "Ready" /\ N[q].fa = f /\ N[q].pc \in {"code", "loader"}
    /\ N[q].autoDestroy => f = Nobody
    /\ \A x \in Proc : IsInjective(N[x].children)
    /\ \A x, c \in Proc : Contains(N[x].children, c)
                             <=> (c = q /\ x = f) \/ Contains(P[x].children, c)

LEMMA AdoptsGood ==
    ASSUME NEW P, Good(P), NEW q \in Proc, P[q].stat = "None",
           NEW f \in Proc \union {Nobody}, f # q, f \in Proc => P[f].stat # "None",
           NEW N, Adopts(P, N, q, f)
    PROVE  Good(N)
<1>1. P[q] = FreshProcess /\ P[q].fa = Nobody
      /\ \A c \in Proc : P[c].fa # q
  BY Fresh DEF Good, FreeIsFresh, Listed
<1>2. Listed(N)
  BY <1>1, Constants DEF Good, Listed, Adopts, Same
<1>3. NoCycle(N)
  <2>1. SUFFICES ASSUME NEW D \in (SUBSET Proc) \ {{}}
                 PROVE  \E x \in D : N[x].fa \notin D
    BY DEF NoCycle
  <2>2. CASE D = {q}
    BY <2>2 DEF Adopts
  <2>3. CASE D # {q}
    <3>1. D \ {q} \in (SUBSET Proc) \ {{}}
      BY <2>3
    <3>2. PICK x \in D \ {q} : P[x].fa \notin D \ {q}
      BY <3>1 DEF Good, NoCycle
    <3> QED
      BY <1>1, <3>2 DEF Adopts, Same
  <2> QED
    BY <2>2, <2>3
<1>4. FreeIsFresh(N)
  <2>1. SUFFICES ASSUME NEW x \in Proc, N[x].stat = "None" PROVE N[x] = FreshProcess
    BY DEF FreeIsFresh
  <2>2. x # q /\ x # f /\ P[x].stat = "None" /\ Same(P, N, x)
    BY <2>1 DEF Adopts, Same
  <2>3. P[x] = FreshProcess
    BY <2>2 DEF Good, FreeIsFresh
  <2>4. \A c \in Proc : ~ Contains(N[x].children, c)
    BY <2>2, <2>3, Fresh DEF Adopts
  <2>5. N[x] \in Record
    BY DEF Adopts, IsTable
  <2>6. N[x].children = <<>>
    <3>1. N[x].children \in Seq(Proc)
      BY <2>5 DEF Record
    <3>2. Len(N[x].children) = 0
      BY <2>4, <3>1 DEF Contains
    <3> QED
      BY <3>1, <3>2
  <2> QED
    BY <2>2, <2>3, <2>5, <2>6, Fresh DEF Same, Record
<1>5. OrphansOnly(N)
  BY DEF OrphansOnly, Adopts, Good, Same
<1>6. LoadersLive(N)
  BY DEF LoadersLive, Adopts, Good, Same
<1>7. SleepersAwait(N)
  <2>1. SUFFICES ASSUME NEW x \in Proc, N[x].stat = "Sleeping" PROVE Awaits(N, x)
    BY DEF SleepersAwait
  <2>2. x # q /\ P[x].stat = "Sleeping" /\ Same(P, N, x) /\ Awaits(P, x)
    BY <2>1 DEF Adopts, Same, Good, SleepersAwait
  <2>3. CASE P[x].pc = "loading"
    <3>1. P[x].want \in Proc /\ P[x].want # q
      BY <1>1, <2>2, <2>3, Fresh DEF Awaits
    <3> QED
      BY <2>2, <2>3, <3>1 DEF Awaits, Adopts, Same
  <2>4. CASE P[x].pc # "loading"
    <3>1. \A c \in Proc : N[c].fa = x /\ N[c].stat = "Quiting"
                             => P[c].fa = x /\ P[c].stat = "Quiting"
      BY DEF Adopts, Same
    <3> QED
      BY <2>2, <2>4, <3>1 DEF Awaits, Same
  <2> QED
    BY <2>3, <2>4
<1> QED
  BY <1>2, <1>3, <1>4, <1>5, <1>6, <1>7 DEF Good, Adopts

\* Table N is P with a process without family in slot q.
Starts(P, N, q, auto, pc) ==
    /\ ListsHold(N, q)
    /\ \A x \in Proc \ {q} : N[x] = P[x]
    /\ \A x \in Proc : N[x].children = P[x].children
    /\ N[q].stat = "Ready" /\ N[q].fa = Nobody /\ N[q].pc = pc
    /\ N[q].autoDestroy = auto

LEMMA StartedFacts ==
    ASSUME NEW P, Good(P), NEW q \in Proc, P[q].stat = "None",
           NEW auto \in BOOLEAN, NEW pc \in {"code", "loader"}
    PROVE  Starts(P, Started(P, q, auto, pc), q, auto, pc)
<1> DEFINE N == Started(P, q, auto, pc)
           n == [FreshProcess EXCEPT !.stat = "Ready", !.autoDestroy = auto, !.pc = pc]
<1>1. P[q] = FreshProcess /\ P[q].fa = Nobody /\ P[q].children = <<>>
  BY Fresh DEF Good, FreeIsFresh
<1>2. /\ n \in Record /\ n.stat = "Ready" /\ n.fa = Nobody /\ n.pc = pc
      /\ n.autoDestroy = auto /\ n.children = <<>>
  <2> DEFINE r == FreshProcess
             m == [r EXCEPT !.autoDestroy = auto]
  <2>1. r \in Record /\ r.fa = Nobody /\ r.children = <<>>
    BY Fresh
  <2>2. n = [m EXCEPT !.stat = "Ready", !.pc = pc]
    BY DEF FreshProcess
  <2> HIDE DEF r
  <2>3. m \in Record /\ m.autoDestroy = auto /\ m.fa = r.fa /\ m.children = r.children
    BY <2>1 DEF Record
  <2> HIDE DEF m, n
  <2>4. n \in Record /\ n.stat = "Ready" /\ n.pc = pc /\ n.fa = m.fa
        /\ n.children = m.children /\ n.autoDestroy = m.autoDestroy
    BY <2>2, <2>3 DEF Record, Stat
  <2> QED
    BY <2>1, <2>3, <2>4
<1>3. N = [x \in Proc |-> IF x = q THEN n ELSE P[x]]
  BY DEF Started, Good, IsTable
<1> HIDE DEF n, N
<1>4. N[q] = n /\ \A x \in Proc \ {q} : N[x] = P[x]
  BY <1>3
<1>5. IsTable(N)
  BY <1>2, <1>3 DEF IsTable, Good
<1>6. \A x \in Proc : N[x].children = P[x].children
  BY <1>1, <1>2, <1>4
<1>7. ListsHold(N, q)
  BY <1>1, <1>5, <1>6, Constants DEF ListsHold, Good, Listed
<1> QED
  BY <1>2, <1>4, <1>6, <1>7 DEF N, Starts

\* A process created by cur.
LEMMA CreatedAdopts ==
    ASSUME NEW P, Good(P), NEW q \in Proc, P[q].stat = "None",
           NEW cur \in Proc, cur # q,
           NEW auto \in BOOLEAN, NEW pc \in {"code", "loader"}
    PROVE  LET N == Created(P, q, cur, auto, pc)
           IN  Adopts(P, N, q, IF auto THEN Nobody ELSE cur) /\ N[q].pc = pc
<1> DEFINE T == Started(P, q, auto, pc)
<1>1. /\ ListsHold(T, q)
      /\ \A x \in Proc \ {q} : T[x] = P[x]
      /\ \A x \in Proc : T[x].children = P[x].children
      /\ T[q].stat = "Ready" /\ T[q].fa = Nobody /\ T[q].pc = pc
      /\ T[q].autoDestroy = auto
  BY StartedFacts DEF Starts
<1> HIDE DEF T
<1>2. CASE auto
  <2>1. Created(P, q, cur, auto, pc) = T
    BY <1>2 DEF Created, T
  <2> QED
    BY <1>1, <1>2, <2>1, Constants DEF Adopts, ListsHold, Same
<1>3. CASE ~ auto
  <2> DEFINE N == SetFa(T, q, cur)
  <2>1. Created(P, q, cur, auto, pc) = N
    BY <1>3 DEF Created, T
  <2>2. ListsHold(N, q) /\ Moved(T, N, q, cur)
    BY <1>1, SetFaFacts, Constants
  <2> HIDE DEF N
  <2>3. \A x \in Proc : ~ Contains(P[x].children, q)
    BY <1>1, Constants DEF ListsHold
  <2>4. Adopts(P, N, q, cur)
    BY <1>1, <1>3, <2>2, <2>3 DEF Adopts, ListsHold, Moved, Same
  <2>5. N[q].pc = pc
    BY <1>1, <2>2 DEF Moved
  <2> QED
    BY <1>3, <2>1, <2>4, <2>5
<1> QED
  BY <1>2, <1>3

\* The flags of q are set.
LEMMA Flagged ==
    ASSUME NEW T, NEW q \in Proc, ListsHold(T, q), NEW a \in BOOLEAN
    PROVE  LET N == [T EXCEPT ![q].autoDestroy = a]
           IN  /\ ListsHold(N, q) /\ N[q].autoDestroy = a
               /\ \A x \in Proc \ {q} : N[x] = T[x]
               /\ N[q].stat = T[q].stat /\ N[q].fa = T[q].fa /\ N[q].pc = T[q].pc
               /\ N[q].children = T[q].children
<1> DEFINE N == [T EXCEPT ![q].autoDestroy = a]
<1>1. PICK r \in Record : r = T[q]
  BY DEF ListsHold, IsTable
<1> DEFINE n == [r EXCEPT !.autoDestroy = a]
<1>2. N = [x \in Proc |-> IF x = q THEN n ELSE T[x]]
  BY <1>1 DEF ListsHold, IsTable
<1>3. /\ n \in Record /\ n.autoDestroy = a /\ n.stat = r.stat /\ n.fa = r.fa
      /\ n.pc = r.pc /\ n.children = r.children
  BY DEF Record
<1> HIDE DEF n, N
<1>4. N[q] = n /\ \A x \in Proc \ {q} : N[x] = T[x]
  BY <1>2
<1>5. IsTable(N)
  BY <1>2, <1>3 DEF ListsHold, IsTable
<1>6. ListsHold(N, q)
  BY <1>1, <1>3, <1>4, <1>5 DEF ListsHold
<1> QED
  BY <1>1, <1>3, <1>4, <1>6 DEF N

\* A process cloned by cur.
LEMMA ClonedAdopts ==
    ASSUME NEW P, Good(P), NEW q \in Proc, P[q].stat = "None",
           NEW cur \in Proc, P[cur].stat # "None", NEW sigchld \in BOOLEAN
    PROVE  LET N == Cloned(P, q, cur, sigchld)
               f == IF sigchld THEN cur ELSE P[cur].fa
           IN  /\ Adopts(P, N, q, f)
               /\ f \in Proc \union {Nobody} /\ f # q
               /\ f \in Proc => P[f].stat # "None"
<1> DEFINE g == P[cur].fa
           a == P[cur].autoDestroy
           auto == ~ sigchld
           T == Started(P, q, auto, "code")
           S == SetFa(T, q, g)
           C == [S EXCEPT ![q].autoDestroy = a]
           N == Cloned(P, q, cur, sigchld)
<1>1. /\ g \in Proc \union {Nobody} /\ a \in BOOLEAN /\ (a => g = Nobody)
      /\ g # q /\ cur # q /\ (g \in Proc => P[g].stat # "None")
  <2>1. g \in Proc \union {Nobody} /\ a \in BOOLEAN
    BY DEF Good, IsTable, Record
  <2>2. g \in Proc => P[g].stat # "None"
    BY FathersExist
  <2> QED
    BY <2>1, <2>2, Constants DEF Good, OrphansOnly
<1>2. N = IF sigchld THEN SetFa(C, q, cur) ELSE C
  BY DEF Cloned
<1>3. /\ ListsHold(T, q)
      /\ \A x \in Proc \ {q} : T[x] = P[x]
      /\ \A x \in Proc : T[x].children = P[x].children
      /\ T[q].stat = "Ready" /\ T[q].fa = Nobody /\ T[q].pc = "code"
  <2>1. auto \in BOOLEAN /\ "code" \in {"code", "loader"}
    OBVIOUS
  <2> HIDE DEF auto
  <2>2. Starts(P, T, q, auto, "code")
    BY <2>1, StartedFacts, Zenon
  <2> QED
    BY <2>2 DEF Starts
<1>4. \A x \in Proc : ~ Contains(P[x].children, q)
  BY <1>3, Constants DEF ListsHold
<1> HIDE DEF g, a, T
<1>5. ListsHold(S, q) /\ Moved(T, S, q, g)
  BY <1>1, <1>3, SetFaFacts, Constants
<1> HIDE DEF S
<1>6. /\ ListsHold(C, q) /\ C[q].autoDestroy = a
      /\ \A x \in Proc \ {q} : C[x] = S[x]
      /\ C[q].stat = S[q].stat /\ C[q].fa = S[q].fa /\ C[q].pc = S[q].pc
      /\ C[q].children = S[q].children
  BY <1>1, <1>5, Flagged
<1> HIDE DEF C
<1>7. CASE ~ sigchld
  <2>1. \A x \in Proc : C[x].children = S[x].children
    BY <1>6
  <2>2. Adopts(P, C, q, g)
    BY <1>1, <1>3, <1>4, <1>5, <1>6, <2>1 DEF Adopts, ListsHold, Moved, Same
  <2> QED
    BY <1>1, <1>2, <1>7, <2>2 DEF g
<1>8. CASE sigchld
  <2> DEFINE E == SetFa(C, q, cur)
  <2>1. ListsHold(E, q) /\ Moved(C, E, q, cur)
    BY <1>1, <1>5, <1>6, SetFaFacts DEF Moved
  <2> HIDE DEF E
  <2>2. \A x \in Proc \ {q} : Same(P, E, x)
    BY <1>3, <1>5, <1>6, <2>1 DEF Moved, Same
  <2>3. \A x, c \in Proc : Contains(E[x].children, c)
                              <=> (c = q /\ x = cur) \/ Contains(P[x].children, c)
    <3>1. \A x \in Proc : C[x].children = S[x].children
      BY <1>6
    <3> QED
      BY <1>3, <1>4, <1>5, <2>1, <3>1 DEF Moved
  <2>4. /\ E[q].stat = "Ready" /\ E[q].fa = cur /\ E[q].pc = "code"
        /\ ~ E[q].autoDestroy
    BY <1>3, <1>5, <1>6, <2>1, Constants DEF Moved
  <2>5. Adopts(P, E, q, cur)
    BY <2>1, <2>2, <2>3, <2>4 DEF Adopts, ListsHold
  <2> QED
    BY <1>1, <1>2, <1>8, <2>5 DEF E
<1> QED
  BY <1>7, <1>8

-----------------------------------------------------------------------------
(* The loader.                                                             *)

Signalled(P, p, f) == [P EXCEPT ![p].pc = "code", ![f].stat = "Ready"]

LEMMA LoadedGood ==
    ASSUME NEW P, Good(P), NEW p \in Proc, P[p].pc = "loader",
           NEW f, f = P[p].fa
    PROVE  LET N == Signalled(P, p, f)
           IN  /\ Good(N) /\ Kin(P, N)
               /\ \A x \in Proc : N[x].want = P[x].want
               /\ \A x \in Proc : P[x].stat # "None" => N[x].stat # "None"
<1> DEFINE M == [P EXCEPT ![p].pc = "code"]
           N == InState(M, f, "Ready")
<1>1. PICK r \in Record : r = P[p]
  BY DEF Good, IsTable
<1> DEFINE n == Refit(r, "code", r.want, r.exec)
<1>2. Refits(r, n, "code", r.want)
  <2>1. "code" \in Codes /\ r.want \in Wanted /\ r.exec \in BOOLEAN
    BY DEF Codes, Wanted, Record
  <2> QED
    BY <2>1, Refielded, Zenon
<1>3. n = [r EXCEPT !.pc = "code"]
  BY DEF Refit, Record
<1>4. M = [x \in Proc |-> IF x = p THEN n ELSE P[x]]
  BY <1>1, <1>3 DEF Good, IsTable
<1> HIDE DEF n, M
<1>5. IsTable(M) /\ Kin(P, M) /\ M[p] = n /\ \A x \in Proc \ {p} : M[x] = P[x]
  BY <1>1, <1>2, <1>4, Refitted DEF Good, Refits
<1>6. /\ IsTable(N) /\ Kin(M, N)
      /\ \A x \in Proc : N[x].pc = M[x].pc /\ N[x].want = M[x].want
      /\ \A x \in Proc \ {f} : N[x] = M[x]
      /\ f \in Proc => N[f].stat = "Ready"
  <2>1. "Ready" \in Stat
    BY DEF Stat
  <2>2. Restates(M, N, f, "Ready")
    BY <1>5, <2>1, Restated, Zenon
  <2> QED
    BY <2>2 DEF Restates
<1> HIDE DEF N
<1>7. Kin(P, N) /\ \A x \in Proc : N[x].want = P[x].want
  BY <1>1, <1>2, <1>5, <1>6 DEF Kin, Refits
<1>8. f \in Proc => P[f].stat # "None" /\ f # p
  BY FathersExist
<1>9. \A x \in Proc : x # f => N[x].stat = P[x].stat
  BY <1>1, <1>2, <1>5, <1>6 DEF Refits
<1>10. FreeIsFresh(N)
  <2>1. ASSUME NEW x \in Proc, N[x].stat = "None" PROVE N[x] = P[x]
    <3>1. x # f /\ P[x].stat = "None"
      BY <1>6, <1>9, <2>1
    <3>2. P[x].pc = "code"
      BY <3>1, Fresh DEF Good, FreeIsFresh
    <3> QED
      BY <1>5, <1>6, <3>1, <3>2
  <2> QED
    BY <2>1, SlotsStayFresh
<1>11. LoadersLive(N)
  BY <1>2, <1>5, <1>6, <1>9 DEF Good, LoadersLive, Refits
<1>12. SleepersAwait(N)
  <2>1. ASSUME NEW x \in Proc, N[x].stat = "Sleeping" PROVE Awaits(N, x)
    <3>1. x # f /\ P[x].stat = "Sleeping" /\ Awaits(P, x)
      BY <1>6, <1>9, <2>1 DEF Good, SleepersAwait
    <3>2. x # p
      BY <3>1 DEF Good, LoadersLive
    <3>3. P[x].pc = "loading" => N[P[x].want].pc = "loader"
      BY <1>5, <1>6, <3>1 DEF Awaits
    <3>4. \A c \in Proc : N[c].stat = "Quiting" => P[c].stat = "Quiting"
      BY <1>6, <1>9
    <3> QED
      BY <1>5, <1>6, <1>7, <3>1, <3>2, <3>3, <3>4, StillAwaits
  <2> QED
    BY <2>1 DEF SleepersAwait
<1>13. Listed(N) /\ NoCycle(N) /\ OrphansOnly(N)
  BY <1>7, KinTree
<1>14. Good(N)
  BY <1>6, <1>10, <1>11, <1>12, <1>13 DEF Good
<1>15. \A x \in Proc : P[x].stat # "None" => N[x].stat # "None"
  BY <1>6, <1>9
<1>16. N = Signalled(P, p, f)
  BY DEF N, M, InState, Signalled
<1> QED
  BY <1>7, <1>14, <1>15, <1>16

\* What Load leaves of the creator, which waits for q to load a program.
Loading(P, p, q) ==
    [P EXCEPT ![p].stat = "Sleeping", ![p].pc = "loading",
              ![p].want = q, ![p].exec = (p # 0)]

LEMMA LoadingGood ==
    ASSUME NEW P, Good(P), NEW p \in Proc, P[p].pc # "loader",
           NEW q \in Proc, P[q].fa = p, P[q].pc = "loader"
    PROVE  LET N == Loading(P, p, q)
           IN  Good(N) /\ N[p].stat = "Sleeping" /\ Kin(P, N)
<1> DEFINE N == Loading(P, p, q)
           M == InState(P, p, "Sleeping")
           e == p # 0
<1>1. /\ IsTable(M) /\ Kin(P, M)
      /\ \A x \in Proc : M[x].pc = P[x].pc /\ M[x].want = P[x].want
      /\ \A x \in Proc \ {p} : M[x] = P[x]
      /\ M[p].stat = "Sleeping"
  <2>1. "Sleeping" \in Stat /\ IsTable(P)
    BY DEF Stat, Good
  <2>2. Restates(P, M, p, "Sleeping")
    BY <2>1, Restated, Zenon
  <2> QED
    BY <2>2 DEF Restates
<1>2. N = [M EXCEPT ![p].pc = "loading", ![p].want = q, ![p].exec = e]
  BY DEF Loading, InState
<1> HIDE DEF M
<1>3. PICK r \in Record : r = M[p]
  BY <1>1 DEF IsTable
<1> DEFINE n == Refit(r, "loading", q, e)
<1>4. Refits(r, n, "loading", q)
  <2>1. "loading" \in Codes /\ q \in Wanted /\ e \in BOOLEAN
    BY DEF Codes, Wanted
  <2> HIDE DEF e
  <2> QED
    BY <2>1, Refielded, Zenon
<1>5. N = [x \in Proc |-> IF x = p THEN n ELSE M[x]]
  BY <1>1, <1>2, <1>3 DEF IsTable, Record, Refit
<1> HIDE DEF n, N
<1>6. IsTable(N) /\ Kin(M, N) /\ N[p] = n /\ \A x \in Proc \ {p} : N[x] = M[x]
  BY <1>1, <1>3, <1>4, <1>5, Refitted DEF Refits
<1>7. Kin(P, N) /\ \A x \in Proc \ {p} : N[x] = P[x]
  BY <1>1, <1>6 DEF Kin
<1>8. N[p].stat = "Sleeping" /\ N[p].pc = "loading" /\ N[p].want = q
  BY <1>1, <1>3, <1>4, <1>6 DEF Refits
<1>9. FreeIsFresh(N)
  BY <1>7, <1>8, SlotsStayFresh
<1>10. LoadersLive(N)
  BY <1>7, <1>8 DEF Good, LoadersLive
<1>11. SleepersAwait(N)
  <2>1. ASSUME NEW x \in Proc, N[x].stat = "Sleeping", x # p PROVE Awaits(N, x)
    <3>1. P[x].stat = "Sleeping" /\ Awaits(P, x)
      BY <1>7, <2>1 DEF Good, SleepersAwait
    <3>2. P[x].pc = "loading" => N[P[x].want].pc = "loader"
      BY <1>7, <3>1 DEF Awaits
    <3>3. \A c \in Proc : N[c].stat = "Quiting" => P[c].stat = "Quiting"
      BY <1>7, <1>8
    <3> QED
      BY <1>7, <2>1, <3>1, <3>2, <3>3, StillAwaits
  <2>2. Awaits(N, p)
    BY <1>7, <1>8 DEF Awaits, Kin
  <2> QED
    BY <2>1, <2>2 DEF SleepersAwait
<1>12. Listed(N) /\ NoCycle(N) /\ OrphansOnly(N)
  BY <1>7, KinTree
<1>13. Good(N)
  BY <1>6, <1>9, <1>10, <1>11, <1>12 DEF Good
<1> QED
  BY <1>7, <1>8, <1>13 DEF N

-----------------------------------------------------------------------------
(* Schedule.                                                               *)

LEMMA SmallestOf ==
    ASSUME NEW S \in SUBSET Nat, S # {}
    PROVE  Smallest(S) \in S
<1>1. PICK i \in S : \A j \in S : ~ (<<j, i>> \in OpToRel(<, Nat))
  BY WFMin, NatLessThanWellFounded
<1>2. ASSUME NEW j \in S PROVE i <= j
  <2>1. i \in Nat /\ j \in Nat
    OBVIOUS
  <2>2. ~ (j < i)
    BY <1>1, <2>1 DEF OpToRel
  <2> QED
    BY <2>1, <2>2
<1>3. \E x \in S : \A y \in S : x <= y
  BY <1>2
<1> QED
  BY <1>3 DEF Smallest

\* The scan stops at the end or at a process that is ready and not gone.
LEMMA ScanStops ==
    ASSUME NEW T, NEW p \in Proc, NEW d, d = ScanEnd(T, p), d # MaxProcessCount
    PROVE  InRing(p, d) \in Proc /\ T[InRing(p, d)].stat = "Ready"
           /\ InRing(p, d) \notin Gone(T, p, d)
<1> DEFINE R == {i \in 1 .. MaxProcessCount - 1 :
                   T[InRing(p, i)].stat = "Ready"
                   /\ InRing(p, i) \notin Gone(T, p, i)}
<1>1. R \union {MaxProcessCount} \in SUBSET Nat
  BY TreeAssumption
<1>2. d \in R
  <2>1. d = Smallest(R \union {MaxProcessCount})
    BY DEF ScanEnd
  <2> HIDE DEF R
  <2>2. Smallest(R \union {MaxProcessCount}) \in R \union {MaxProcessCount}
    BY <1>1, SmallestOf
  <2> QED
    BY <2>1, <2>2
<1>3. InRing(p, d) \in Proc
  BY <1>2, TreeAssumption DEF InRing, Proc
<1> QED
  BY <1>2, <1>3

\* From P to N no child changes its father, but when the father is gone, and
\* nobody begins to want anything.
Lets(P, N) ==
    \A p \in Proc :
       /\ \A c \in Proc : P[c].fa = p => N[c].fa = p \/ N[p].want = Nobody
       /\ P[p].want = Nobody => N[p].want = Nobody

LEMMA DestroyedLets ==
    ASSUME NEW P, IsTable(P), Listed(P), NEW D \in SUBSET Proc,
           \A x \in D : P[x].fa \in D \union {Nobody}
    PROVE  Lets(P, Destroyed(P, D))
<1> DEFINE N == Destroyed(P, D)
<1>1. /\ \A p \in D : N[p] = FreshProcess
      /\ \A p \in Proc \ D : Same(P, N, p)
  BY DestroyedFacts
<1> HIDE DEF N
<1>2. Lets(P, N)
  BY <1>1, Fresh, Constants DEF Lets, Same
<1> QED
  BY <1>2 DEF N

LEMMA SwitchedLets ==
    ASSUME NEW P, IsTable(P), NEW p \in Proc, NEW q \in Proc
    PROVE  Lets(P, Switched(P, p, q))
<1> DEFINE N == Switched(P, p, q)
<1>1. ASSUME NEW x \in Proc PROVE N[x].fa = P[x].fa /\ N[x].want = P[x].want
  BY DEF Switched, IsTable, Record
<1> HIDE DEF N
<1>2. Lets(P, N)
  BY <1>1 DEF Lets
<1> QED
  BY <1>2 DEF N

LEMMA ScheduleGood ==
    ASSUME NEW T, Good(T), NEW p \in Proc, T[p].stat # "None",
           Good(Processes), CurrentProcess = p, fault = "none", Schedule(T, p)
    PROVE  /\ Good(Processes') /\ CurrentProcess' \in Proc
           /\ fault' = "none" => Processes'[CurrentProcess'].stat # "None"
           /\ Processes' = Processes \/ Lets(T, Processes')
<1> DEFINE d == ScanEnd(T, p)
           gone == Gone(T, p, d)
           M == Destroyed(T, gone)
<1>1. \/ /\ p \in gone /\ fault' = "current"
         /\ UNCHANGED <<Processes, CurrentProcess>>
      \/ /\ p \notin gone /\ d < MaxProcessCount
         /\ Processes' = Switched(M, p, InRing(p, d))
         /\ CurrentProcess' = InRing(p, d)
      \/ /\ p \notin gone
         /\ Processes' = M
         /\ UNCHANGED CurrentProcess
  BY DEF Schedule
<1>2. Doomed(T, gone) /\ \A x \in gone : T[x].fa \in gone \union {Nobody}
  BY GoneDoomed DEF Good
<1>3. Good(M) /\ Lets(T, M)
  BY <1>2, DestroyedGood, DestroyedLets DEF Good, Doomed
<1>4. \A x \in Proc \ gone : M[x].stat = T[x].stat
  BY <1>2, DestroyedFacts DEF Good, Doomed, Same
<1>5. d < MaxProcessCount => /\ InRing(p, d) \in Proc \ gone
                             /\ T[InRing(p, d)].stat = "Ready"
  BY ScanStops, TreeAssumption
<1> HIDE DEF d, gone, M
<1>6. CASE p \in gone
  BY <1>1, <1>6
<1>7. CASE p \notin gone /\ Processes' = M /\ UNCHANGED CurrentProcess
  BY <1>3, <1>4, <1>7
<1>8. CASE /\ p \notin gone /\ d < MaxProcessCount
           /\ Processes' = Switched(M, p, InRing(p, d))
           /\ CurrentProcess' = InRing(p, d)
  <2> DEFINE q == InRing(p, d)
             N == Switched(M, p, q)
  <2>1. q \in Proc /\ M[q].stat = "Ready"
    BY <1>4, <1>5, <1>8
  <2> HIDE DEF q
  <2>2. Good(N) /\ N[q].stat = "Running" /\ Lets(M, N)
    BY <1>3, <2>1, SwitchedGood, SwitchedLets DEF Good
  <2> HIDE DEF N
  <2>3. Lets(T, N)
    BY <1>3, <2>2 DEF Lets
  <2>4. Processes' = N /\ CurrentProcess' = q
    BY <1>8 DEF q, N
  <2> QED
    BY <2>1, <2>2, <2>3, <2>4
<1> QED
  BY <1>1, <1>6, <1>7, <1>8

-----------------------------------------------------------------------------
(* The steps.                                                              *)

\* A child that is waited for changes its father only when the father is gone
\* or has stopped waiting.
Keeps(P, N) ==
    \A p, c \in Proc : P[c].fa = p => N[c].fa = p \/ N[p].want = Nobody

LEMMA KinThenLets ==
    ASSUME NEW P, NEW T, NEW N, Kin(P, T), Lets(T, N)
    PROVE  Keeps(P, N)
BY DEF Kin, Lets, Keeps

LEMMA AdoptsKeeps ==
    ASSUME NEW P, Good(P), NEW N, NEW q \in Proc, P[q].stat = "None", NEW f,
           Adopts(P, N, q, f), NEW p \in Proc, NEW c \in Proc, P[c].fa = p
    PROVE  N[c].fa = p
BY Fresh, Constants DEF Good, FreeIsFresh, Adopts, Same

\* What a step does to the tree.
TreeStep ==
    /\ Good(Processes') /\ CurrentProcess' \in Proc
    /\ fault' = "none" => Processes'[CurrentProcess'].stat # "None"
    /\ Processes' = Processes \/ Keeps(Processes, Processes')

\* A process that runs.
Running(p) ==
    /\ p \in Proc /\ Runs(p) /\ TreeInv

LEMMA RunningFacts ==
    ASSUME NEW p, Running(p)
    PROVE  /\ Good(Processes) /\ p \in Proc /\ Processes[p].stat # "None"
           /\ CurrentProcess = p /\ fault = "none"
BY DEF Running, Runs, TreeInv

LEMMA FoundFacts ==
    ASSUME NEW P, Good(P), NEW p \in Proc, NEW want
    PROVE  LET found == QuitingChildren(P, p, want)
           IN  /\ found # <<>> => /\ Head(found) \in Proc /\ P[Head(found)].fa = p
                                  /\ P[Head(found)].stat = "Quiting"
                                  /\ want \in {AnyPID, Head(found)}
               /\ found = <<>> => \A c \in Proc : P[c].fa = p /\ P[c].stat = "Quiting"
                                                     => want \notin {AnyPID, c}
<1> DEFINE found == QuitingChildren(P, p, want)
           S == {c \in Proc : P[c].stat = "Quiting" /\ want \in {AnyPID, c}}
<1>1. P[p].children \in Seq(Proc)
  BY DEF Good, IsTable, Record
<1>2. found = Those(P[p].children, S)
  BY DEF QuitingChildren
<1> HIDE DEF S, found
<1>3. /\ found \in Seq(Proc)
      /\ \A c : Contains(found, c) <=> Contains(P[p].children, c) /\ c \in S
  BY <1>1, <1>2, ThoseFacts
<1>4. \A c \in Proc : Contains(found, c) <=> P[c].fa = p /\ c \in S
  BY <1>3 DEF Good, Listed
<1>5. found # <<>> => Head(found) \in Proc /\ Contains(found, Head(found))
  BY <1>3 DEF Contains
<1>6. found = <<>> => \A c : ~ Contains(found, c)
  BY DEF Contains
<1> QED
  BY <1>4, <1>5, <1>6 DEF S, found

\* A father that finds a child it may take is not asleep.
LEMMA FinderAwake ==
    ASSUME NEW P, Good(P), NEW p \in Proc, NEW c \in Proc, P[c].fa = p,
           P[c].stat = "Quiting", NEW want, want \in {AnyPID, c},
           P[p].pc = "code" \/ want = P[p].want
    PROVE  P[p].stat # "Sleeping"
<1>1. SUFFICES ASSUME P[p].stat = "Sleeping" PROVE FALSE
  OBVIOUS
<1>2. Awaits(P, p)
  BY <1>1 DEF Good, SleepersAwait
<1>3. CASE P[p].pc = "loading"
  <2>1. P[c].pc = "loader"
    BY <1>2, <1>3, Constants DEF Awaits
  <2> QED
    BY <2>1 DEF Good, LoadersLive
<1>4. CASE P[p].pc # "loading"
  BY <1>2, <1>4 DEF Awaits
<1> QED
  BY <1>3, <1>4

\* The child is taken with all below it, and the father goes on.
LEMMA ReapedGood ==
    ASSUME NEW P, Good(P), NEW p \in Proc, P[p].stat \notin {"None", "Sleeping"},
           P[p].pc # "loader", NEW c \in Proc, P[c].fa = p, P[c].stat = "Quiting"
    PROVE  LET N == Returned(Destroyed(P, Descendants(P, c)), p)
           IN  /\ Good(N) /\ N[p].stat = P[p].stat /\ N[p].pc = "code"
               /\ Lets(P, N)
<1> DEFINE D == Descendants(P, c)
           M == Destroyed(P, D)
           N == Returned(M, p)
<1>1. IsTable(P) /\ Listed(P) /\ NoCycle(P)
  BY DEF Good
<1>2. Doomed(P, D) /\ p \notin D /\ D \in SUBSET Proc
  BY <1>1, DescendantsDoomed, NotBelow DEF Doomed
<1>3. \A x \in D : P[x].fa \in D \/ x = c
  BY <1>1, FathersBelow
<1>4. Good(M)
  BY <1>2, DestroyedGood
<1>5. /\ \A x \in D : M[x] = FreshProcess
      /\ \A x \in Proc \ D : Same(P, M, x)
  BY <1>1, <1>2, DestroyedFacts
<1> HIDE DEF D, M
<1>6. M[p].pc # "loader" /\ M[p].stat \notin {"Sleeping", "None"}
      /\ M[p].stat = P[p].stat
  BY <1>2, <1>5 DEF Same
<1>7. /\ Good(N) /\ N[p].stat = M[p].stat /\ N[p].pc = "code"
      /\ N[p].want = Nobody /\ Kin(M, N) /\ \A x \in Proc \ {p} : N[x] = M[x]
  BY <1>4, <1>6, ReturnedGood
<1> HIDE DEF N
<1>8. Lets(P, N)
  <2>1. ASSUME NEW x \in Proc, NEW y \in Proc, P[y].fa = x
        PROVE  N[y].fa = x \/ N[x].want = Nobody
    <3>1. CASE x = p
      BY <1>7, <3>1
    <3>2. CASE x # p /\ x \in D
      BY <1>5, <1>7, <3>2, Fresh
    <3>3. CASE x # p /\ x \notin D
      <4>1. y \notin D
        BY <1>3, <2>1, <3>3
      <4> QED
        BY <1>5, <1>7, <2>1, <4>1 DEF Same, Kin
    <3> QED
      BY <3>1, <3>2, <3>3
  <2>2. ASSUME NEW x \in Proc, P[x].want = Nobody
        PROVE  N[x].want = Nobody
    BY <1>5, <1>7, <2>2, Fresh DEF Same
  <2> QED
    BY <2>1, <2>2 DEF Lets
<1> QED
  BY <1>6, <1>7, <1>8 DEF D, M, N

LEMMA ExitedLets ==
    ASSUME NEW P, Good(P), NEW p \in Proc
    PROVE  Lets(P, Exited(P, p))
<1> DEFINE N == Exited(P, p)
<1>1. Kin(P, N) /\ \A x \in Proc : N[x].want = P[x].want
  BY ExitedFacts
<1> HIDE DEF N
<1>2. Lets(P, N)
  BY <1>1 DEF Kin, Lets
<1> QED
  BY <1>2 DEF N

LEMMA LetsTransitive ==
    ASSUME NEW P, NEW M, NEW N, Lets(P, M), Lets(M, N)
    PROVE  Lets(P, N)
BY DEF Lets

LEMMA LetsKeeps ==
    ASSUME NEW P, NEW N, Lets(P, N)
    PROVE  Keeps(P, N)
BY DEF Lets, Keeps

\* Exit and what the scheduler does then.
LEMMA ExitStep ==
    ASSUME NEW p, Running(p), NEW B, Good(B), Lets(Processes, B),
           B[p].pc = "code", Schedule(Exited(B, p), p)
    PROVE  TreeStep
<1> DEFINE E == Exited(B, p)
<1>1. p \in Proc /\ CurrentProcess = p /\ fault = "none" /\ Good(Processes)
  BY RunningFacts
<1>2. Good(E) /\ E[p].stat = "Quiting" /\ Lets(B, E)
  BY <1>1, ExitedGood, ExitedLets
<1> HIDE DEF E
<1>3. Schedule(E, p)
  BY DEF E
<1>4. /\ Good(Processes') /\ CurrentProcess' \in Proc
      /\ fault' = "none" => Processes'[CurrentProcess'].stat # "None"
      /\ Processes' = Processes \/ Lets(E, Processes')
  BY <1>1, <1>2, <1>3, ScheduleGood
<1>5. Processes' = Processes \/ Keeps(Processes, Processes')
  BY <1>2, <1>4, LetsTransitive, LetsKeeps
<1> QED
  BY <1>4, <1>5 DEF TreeStep

LEMMA WaitLoopStep ==
    ASSUME NEW p, Running(p), Processes[p].pc # "loader",
           NEW want \in Proc \union {Nobody, AnyPID}, NEW exec \in BOOLEAN,
           Processes[p].pc = "code" \/ want = Processes[p].want,
           WaitLoop(p, want, exec)
    PROVE  TreeStep
<1> DEFINE found == QuitingChildren(Processes, p, want)
           c == Head(found)
           D == Descendants(Processes, c)
           B == Returned(Destroyed(Processes, D), p)
           A == Asleep(Processes, p, want, exec)
<1>1. /\ Good(Processes) /\ p \in Proc /\ Processes[p].stat # "None"
      /\ CurrentProcess = p /\ fault = "none"
  BY RunningFacts
<1>2. \/ /\ found # <<>>
         /\ \/ /\ Processes' = B /\ UNCHANGED <<CurrentProcess, fault>>
            \/ Schedule(Exited(B, p), p)
      \/ found = <<>> /\ Schedule(A, p)
  BY DEF WaitLoop, Returned, Asleep
<1>3. /\ found # <<>> => /\ c \in Proc /\ Processes[c].fa = p
                         /\ Processes[c].stat = "Quiting"
                         /\ want \in {AnyPID, c}
      /\ found = <<>> => \A x \in Proc :
                            Processes[x].fa = p /\ Processes[x].stat = "Quiting"
                               => want \notin {AnyPID, x}
  BY <1>1, FoundFacts
<1> HIDE DEF found, c
<1>4. CASE found # <<>>
  <2>1. Processes[p].stat \notin {"None", "Sleeping"}
    BY <1>1, <1>3, <1>4, FinderAwake
  <2>2. /\ Good(B) /\ B[p].stat = Processes[p].stat /\ B[p].pc = "code"
        /\ Lets(Processes, B)
    BY <1>1, <1>3, <1>4, <2>1, ReapedGood
  <2> HIDE DEF D, B
  <2>3. CASE Processes' = B /\ UNCHANGED <<CurrentProcess, fault>>
    <3>1. Keeps(Processes, B)
      BY <2>2, LetsKeeps
    <3> QED
      BY <1>1, <2>2, <2>3, <3>1 DEF TreeStep
  <2>4. CASE Schedule(Exited(B, p), p)
    BY <2>2, <2>4, ExitStep
  <2> QED
    BY <1>2, <1>4, <2>3, <2>4
<1>5. CASE found = <<>> /\ Schedule(A, p)
  <2>1. /\ Good(A) /\ A[p].stat = "Sleeping" /\ Kin(Processes, A)
    BY <1>1, <1>3, <1>5, AsleepGood
  <2> HIDE DEF A
  <2>2. /\ Good(Processes') /\ CurrentProcess' \in Proc
        /\ fault' = "none" => Processes'[CurrentProcess'].stat # "None"
        /\ Processes' = Processes \/ Lets(A, Processes')
    BY <1>1, <1>5, <2>1, ScheduleGood
  <2>3. Processes' = Processes \/ Keeps(Processes, Processes')
    BY <2>1, <2>2, KinThenLets
  <2> QED
    BY <2>2, <2>3 DEF TreeStep
<1> QED
  BY <1>2, <1>4, <1>5

\* A slot that AllocProcess finds is free.
LEMMA NewSlotFree ==
    ASSUME FreeSlots(Processes) # {}
    PROVE  NewSlot \in Proc /\ Processes[NewSlot].stat = "None"
<1>1. FreeSlots(Processes) \in SUBSET Nat
  BY TreeAssumption DEF FreeSlots, Proc
<1>2. NewSlot \in FreeSlots(Processes)
  BY <1>1, SmallestOf DEF NewSlot
<1> QED
  BY <1>2 DEF FreeSlots

LEMMA NoSlotStep ==
    ASSUME TreeInv, NoSlot
    PROVE  TreeStep
BY DEF TreeInv, NoSlot, TreeStep

\* A step that only puts a process in the new slot.
LEMMA AdoptStep ==
    ASSUME NEW p, Running(p), FreeSlots(Processes) # {}, NEW N, NEW f,
           Adopts(Processes, N, NewSlot, f),
           f \in Proc \union {Nobody}, f # NewSlot,
           f \in Proc => Processes[f].stat # "None",
           Processes' = N, UNCHANGED <<CurrentProcess, fault>>
    PROVE  TreeStep
<1> DEFINE q == NewSlot
<1>1. /\ Good(Processes) /\ p \in Proc /\ Processes[p].stat # "None"
      /\ CurrentProcess = p
  BY RunningFacts
<1>2. q \in Proc /\ Processes[q].stat = "None"
  BY NewSlotFree
<1> HIDE DEF q
<1>3. Adopts(Processes, N, q, f) /\ f # q
  BY DEF q
<1>4. Good(N)
  BY <1>1, <1>2, <1>3, AdoptsGood
<1>5. Keeps(Processes, N)
  <2>1. \A x, c \in Proc : Processes[c].fa = x => N[c].fa = x
    BY <1>1, <1>2, <1>3, AdoptsKeeps
  <2> QED
    BY <2>1 DEF Keeps
<1>6. N[p].stat = Processes[p].stat
  BY <1>1, <1>2, <1>3 DEF Adopts, Same
<1> QED
  BY <1>1, <1>4, <1>5, <1>6 DEF TreeStep

LEMMA SpawnStep ==
    ASSUME TreeInv, NEW auto \in BOOLEAN, Spawn(auto)
    PROVE  TreeStep
<1> DEFINE q == NewSlot
           N == Created(Processes, q, 0, auto, "code")
           f == IF auto THEN Nobody ELSE 0
<1>1. Running(0)
  BY Constants DEF Spawn, InCode, Running
<1>2. /\ Good(Processes) /\ Processes[0].stat # "None"
  BY <1>1, RunningFacts
<1>3. CASE NoSlot
  BY <1>3, NoSlotStep
<1>4. CASE /\ FreeSlots(Processes) # {} /\ Processes' = N
           /\ UNCHANGED <<CurrentProcess, fault>>
  <2>1. q \in Proc /\ Processes[q].stat = "None" /\ q # 0
    BY <1>2, <1>4, NewSlotFree
  <2>2. Adopts(Processes, N, q, f)
    <3>1. "code" \in {"code", "loader"} /\ 0 \in Proc
      BY Constants
    <3> HIDE DEF q
    <3> QED
      BY <1>2, <2>1, <3>1, CreatedAdopts
  <2>3. f \in Proc \union {Nobody} /\ f # q /\ (f \in Proc => Processes[f].stat # "None")
    BY <1>2, <2>1, Constants
  <2> HIDE DEF N, f
  <2> QED
    BY <1>1, <1>4, <2>2, <2>3, AdoptStep
<1> QED
  BY <1>3, <1>4 DEF Spawn, Becomes

LEMMA CloneStep ==
    ASSUME TreeInv, NEW p \in Proc, NEW sigchld \in BOOLEAN, Clone(p, sigchld)
    PROVE  TreeStep
<1> DEFINE q == NewSlot
           N == Cloned(Processes, q, p, sigchld)
           f == IF sigchld THEN p ELSE Processes[p].fa
<1>1. Running(p)
  BY DEF Clone, InCode, Running
<1>2. /\ Good(Processes) /\ Processes[p].stat # "None"
  BY <1>1, RunningFacts
<1>3. CASE NoSlot
  BY <1>3, NoSlotStep
<1>4. CASE /\ FreeSlots(Processes) # {} /\ Processes' = N
           /\ UNCHANGED <<CurrentProcess, fault>>
  <2>1. q \in Proc /\ Processes[q].stat = "None"
    BY <1>4, NewSlotFree
  <2>2. /\ Adopts(Processes, N, q, f)
        /\ f \in Proc \union {Nobody} /\ f # q
        /\ f \in Proc => Processes[f].stat # "None"
    <3> HIDE DEF q
    <3> QED
      BY <1>2, <2>1, ClonedAdopts
  <2> HIDE DEF N, f
  <2> QED
    BY <1>1, <1>4, <2>2, AdoptStep
<1> QED
  BY <1>3, <1>4 DEF Clone, Becomes

LEMMA LoadStep ==
    ASSUME TreeInv, NEW p \in Proc, Load(p)
    PROVE  TreeStep
<1> DEFINE q == NewSlot
           N == Created(Processes, q, p, FALSE, "loader")
           L == Loading(N, p, q)
<1>1. Running(p) /\ Processes[p].pc = "code"
  BY DEF Load, InCode, Running
<1>2. /\ Good(Processes) /\ Processes[p].stat # "None"
      /\ CurrentProcess = p /\ fault = "none"
  BY <1>1, RunningFacts
<1>3. CASE NoSlot
  BY <1>3, NoSlotStep
<1>4. CASE FreeSlots(Processes) # {} /\ Schedule(L, p)
  <2>1. q \in Proc /\ Processes[q].stat = "None" /\ p # q
    BY <1>2, <1>4, NewSlotFree
  <2> HIDE DEF q
  <2>2. Adopts(Processes, N, q, p) /\ N[q].pc = "loader"
    <3>1. "loader" \in {"code", "loader"} /\ FALSE \in BOOLEAN
      OBVIOUS
    <3> QED
      BY <1>2, <2>1, <3>1, CreatedAdopts
  <2> HIDE DEF N
  <2>3. Good(N)
    BY <1>2, <2>1, <2>2, AdoptsGood
  <2>4. N[q].fa = p /\ N[p].pc = "code" /\ N[p].stat = Processes[p].stat
    BY <1>1, <2>1, <2>2 DEF Adopts, Same
  <2>5. Good(L) /\ L[p].stat = "Sleeping" /\ Kin(N, L)
    BY <2>1, <2>2, <2>3, <2>4, LoadingGood
  <2> HIDE DEF L
  <2>6. /\ Good(Processes') /\ CurrentProcess' \in Proc
        /\ fault' = "none" => Processes'[CurrentProcess'].stat # "None"
        /\ Processes' = Processes \/ Lets(L, Processes')
    BY <1>2, <1>4, <2>5, ScheduleGood
  <2>7. Processes' = Processes \/ Keeps(Processes, Processes')
    <3>1. CASE Lets(L, Processes')
      <4>1. \A x, c \in Proc : Processes[c].fa = x => N[c].fa = x
        BY <1>2, <2>1, <2>2, AdoptsKeeps
      <4>2. Keeps(N, Processes')
        BY <2>5, <3>1, KinThenLets
      <4> QED
        BY <4>1, <4>2 DEF Keeps
    <3> QED
      BY <2>6, <3>1
  <2> QED
    BY <2>6, <2>7 DEF TreeStep
<1> QED
  BY <1>3, <1>4 DEF Load, Loading

LEMMA LoadedStep ==
    ASSUME TreeInv, NEW p \in Proc, Loaded(p)
    PROVE  TreeStep
<1> DEFINE f == Processes[p].fa
           N == Signalled(Processes, p, f)
<1>1. Running(p) /\ Processes[p].pc = "loader"
  BY DEF Loaded, Running
<1>2. /\ Good(Processes) /\ Processes[p].stat # "None"
      /\ CurrentProcess = p /\ fault = "none"
  BY <1>1, RunningFacts
<1>3. Processes' = N /\ UNCHANGED <<CurrentProcess, fault>>
  BY DEF Loaded, Signalled
<1>4. /\ Good(N) /\ Kin(Processes, N)
      /\ \A x \in Proc : Processes[x].stat # "None" => N[x].stat # "None"
  BY <1>1, <1>2, LoadedGood
<1> HIDE DEF N
<1>5. Keeps(Processes, N)
  BY <1>4 DEF Kin, Keeps
<1> QED
  BY <1>2, <1>3, <1>4, <1>5 DEF TreeStep

LEMMA ExitOfStep ==
    ASSUME TreeInv, NEW p \in Proc, Exit(p)
    PROVE  TreeStep
<1>1. Running(p) /\ Processes[p].pc = "code" /\ Schedule(Exited(Processes, p), p)
  BY DEF Exit, InCode, Running
<1>2. Good(Processes) /\ Lets(Processes, Processes)
  BY <1>1, RunningFacts DEF Lets
<1> QED
  BY <1>1, <1>2, ExitStep

LEMMA YieldStep ==
    ASSUME TreeInv, NEW p \in Proc, Yield(p)
    PROVE  TreeStep
<1>1. Running(p) /\ Schedule(Processes, p)
  BY DEF Yield, InCode, Running
<1>2. /\ Good(Processes) /\ p \in Proc /\ Processes[p].stat # "None"
      /\ CurrentProcess = p /\ fault = "none"
  BY <1>1, RunningFacts
<1>3. /\ Good(Processes') /\ CurrentProcess' \in Proc
      /\ fault' = "none" => Processes'[CurrentProcess'].stat # "None"
      /\ Processes' = Processes \/ Lets(Processes, Processes')
  BY <1>1, <1>2, ScheduleGood
<1> QED
  BY <1>3, LetsKeeps DEF TreeStep

LEMMA WaitStep ==
    ASSUME TreeInv, NEW p \in Proc, NEW want \in Proc \union {AnyPID},
           Wait4(p, want) \/ Wait4NoHang(p, want)
    PROVE  TreeStep
<1>1. Running(p) /\ Processes[p].pc = "code" /\ WaitLoop(p, want, FALSE)
  BY DEF Wait4, Wait4NoHang, InCode, Running
<1> QED
  BY <1>1, WaitLoopStep

LEMMA ContinueStep ==
    ASSUME TreeInv, NEW p \in Proc, Continue(p)
    PROVE  TreeStep
<1>1. /\ Running(p) /\ Processes[p].pc # "loader"
      /\ WaitLoop(p, Processes[p].want, Processes[p].exec)
  BY DEF Continue, Running
<1>2. Processes[p].want \in Proc \union {Nobody, AnyPID} /\ Processes[p].exec \in BOOLEAN
  BY DEF TreeInv, Good, IsTable, Record
<1> QED
  BY <1>1, <1>2, WaitLoopStep

LEMMA NextStep ==
    ASSUME TreeInv, Next
    PROVE  TreeStep
<1>1. CASE \E auto \in BOOLEAN : Spawn(auto)
  BY <1>1, SpawnStep
<1>2. ASSUME NEW p \in Proc,
             \/ \E sigchld \in BOOLEAN : Clone(p, sigchld)
             \/ Load(p) \/ Loaded(p)
             \/ \E want \in (Proc \ {0, p}) \union {AnyPID} :
                   Wait4(p, want) \/ Wait4NoHang(p, want)
             \/ Continue(p) \/ Exit(p) \/ Yield(p)
      PROVE  TreeStep
  BY <1>2, CloneStep, LoadStep, LoadedStep, WaitStep, ContinueStep, ExitOfStep,
     YieldStep
<1> QED
  BY <1>1, <1>2 DEF Next

LEMMA TreeInit ==
    ASSUME Init
    PROVE  TreeInv
<1>1. /\ Processes = [p \in Proc |->
                        IF p = 0 THEN [FreshProcess EXCEPT !.stat = "Running"]
                        ELSE FreshProcess]
      /\ CurrentProcess = 0
  BY DEF Init
<1> DEFINE n == [FreshProcess EXCEPT !.stat = "Running"]
<1>2. /\ n \in Record /\ n.stat = "Running" /\ n.fa = Nobody /\ ~ n.autoDestroy
      /\ n.pc = "code" /\ n.children = <<>>
  <2> DEFINE r == FreshProcess
  <2>1. /\ r \in Record /\ r.fa = Nobody /\ ~ r.autoDestroy
        /\ r.pc = "code" /\ r.children = <<>>
    BY Fresh
  <2> HIDE DEF r
  <2>2. /\ n \in Record /\ n.stat = "Running" /\ n.fa = r.fa
        /\ n.autoDestroy = r.autoDestroy /\ n.pc = r.pc /\ n.children = r.children
    <3>1. n = [r EXCEPT !.stat = "Running"]
      BY DEF r
    <3> HIDE DEF n
    <3> QED
      BY <2>1, <3>1 DEF Record, Stat
  <2> QED
    BY <2>1, <2>2
<1>3. /\ Processes[0] = n /\ 0 \in Proc
      /\ \A p \in Proc \ {0} : Processes[p] = FreshProcess
  BY <1>1, Constants
<1>4. IsTable(Processes)
  <2> HIDE DEF n
  <2>1. \A p \in Proc : Processes[p] \in Record
    BY <1>2, <1>3, Fresh
  <2>2. Processes = [p \in Proc |-> Processes[p]]
    BY <1>1
  <2> QED
    BY <2>1, <2>2 DEF IsTable
<1> HIDE DEF n
<1>5. \A p \in Proc : /\ Processes[p].fa = Nobody /\ ~ Processes[p].autoDestroy
                      /\ Processes[p].pc = "code" /\ Processes[p].children = <<>>
                      /\ Processes[p].stat \in {"None", "Running"}
                      /\ Processes[p].stat = "None" => Processes[p] = FreshProcess
  BY <1>2, <1>3, Fresh
<1>6. Listed(Processes)
  BY <1>5, Constants DEF Listed, IsInjective, Contains
<1>7. NoCycle(Processes)
  BY <1>5, Constants DEF NoCycle
<1>8. /\ FreeIsFresh(Processes) /\ OrphansOnly(Processes) /\ LoadersLive(Processes)
      /\ SleepersAwait(Processes)
  BY <1>5 DEF FreeIsFresh, OrphansOnly, LoadersLive, SleepersAwait
<1> QED
  BY <1>1, <1>2, <1>3, <1>4, <1>6, <1>7, <1>8 DEF TreeInv, Good

LEMMA TreeStepInv ==
    ASSUME TreeStep
    PROVE  TreeInv'
BY DEF TreeStep, TreeInv, Good, IsTable, Listed, NoCycle, FreeIsFresh, OrphansOnly,
       LoadersLive, SleepersAwait, Awaits

(* The invariant the other theorems rest on: the tree, with what makes it   *)
(* inductive (only orphans destroy themselves, a loader is alive, and what  *)
(* a process sleeps for has not happened), in any number of slots.          *)
THEOREM TreeInvariant == Spec => []TreeInv
<1>1. Init => TreeInv
  BY TreeInit
<1>2. TreeInv /\ [Next]_vars => TreeInv'
  <2>1. CASE Next
    BY <2>1, NextStep, TreeStepInv
  <2>2. CASE UNCHANGED vars
    BY <2>2 DEF vars, TreeInv, Good, IsTable, Listed, NoCycle, FreeIsFresh,
                OrphansOnly, LoadersLive, SleepersAwait, Awaits
  <2> QED
    BY <2>1, <2>2
<1> QED
  BY <1>1, <1>2, PTL DEF Spec

(* Fathers and lists of children agree, nobody is listed twice or below     *)
(* himself, and a free slot has no family, whatever is created, cloned,     *)
(* waited for, exits or is destroyed by the scan of Schedule.               *)
THEOREM TreeStaysConsistent == Spec => []TreeConsistent
<1>1. TreeInv => TreeConsistent
  BY DEF TreeInv, Good, Listed, NoCycle, FreeIsFresh, TreeConsistent
<1> QED
  BY <1>1, TreeInvariant, PTL

(* No exit and no end of a loader is lost: nobody sleeps for a child that   *)
(* has quit already or for a loader that has finished.                      *)
THEOREM ExitsAreNoticed == Spec => []NoLostExit
<1>1. TreeInv => NoLostExit
  <2>1. SUFFICES ASSUME TreeInv, NEW p \in Proc, Processes[p].stat = "Sleeping"
                 PROVE  IF Processes[p].pc = "loading"
                        THEN Processes[Processes[p].want].pc = "loader"
                        ELSE QuitingChildren(Processes, p, Processes[p].want) = <<>>
    BY DEF NoLostExit
  <2>2. Good(Processes) /\ Awaits(Processes, p)
    BY <2>1 DEF TreeInv, Good, SleepersAwait
  <2>3. CASE Processes[p].pc = "loading"
    BY <2>2, <2>3 DEF Awaits
  <2>4. CASE Processes[p].pc # "loading"
    <3> DEFINE want == Processes[p].want
               found == QuitingChildren(Processes, p, want)
    <3>1. found # <<>> => /\ Head(found) \in Proc /\ Processes[Head(found)].fa = p
                          /\ Processes[Head(found)].stat = "Quiting"
                          /\ want \in {AnyPID, Head(found)}
      BY <2>2, FoundFacts
    <3> QED
      BY <2>2, <2>4, <3>1 DEF Awaits
  <2> QED
    BY <2>3, <2>4
<1> QED
  BY <1>1, TreeInvariant, PTL

(* A child waited for by its number stays the child of the waiter until it  *)
(* is waited for: its slot is not taken by another process meanwhile.       *)
THEOREM ChildrenStay == Spec => WaitedForStays
<1> DEFINE Stays == \A p, c \in Proc :
                       Processes[p].want = c /\ Processes'[p].want = c
                          => (Processes[c].fa = p => Processes'[c].fa = p)
<1>1. TreeInv /\ [Next]_vars => [Stays]_vars
  <2>1. CASE Next
    <3>1. ASSUME TreeInv PROVE Stays
      <4>1. Processes' = Processes \/ Keeps(Processes, Processes')
        BY <2>1, <3>1, NextStep DEF TreeStep
      <4> QED
        BY <4>1, Constants DEF Keeps
    <3> QED
      BY <3>1
  <2>2. CASE UNCHANGED vars
    BY <2>2
  <2> QED
    BY <2>1, <2>2
<1> QED
  BY <1>1, TreeInvariant, PTL DEF Spec, WaitedForStays
==============================================================================
