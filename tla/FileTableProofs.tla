--------------------------- MODULE FileTableProofs ---------------------------
(***************************************************************************)
(* Proofs about FileTable, for any number of processes and handles.  First *)
(* the walk along a list, then what linking, unlinking and counting do to  *)
(* the handles and nodes, then the loops over a list and the system calls, *)
(* and in the end that a table is the map that Descriptors promises.       *)
(***************************************************************************)
EXTENDS FileTable, FiniteSetTheorems, WellFoundedInduction, TLAPS

(* Induction for a set of numbers. *)
LEMMA AllNumbers ==
    ASSUME NEW I \in SUBSET Nat, 0 \in I, \A i \in I : i + 1 \in I
    PROVE  I = Nat
<1> SUFFICES ASSUME NEW n \in Nat \ I PROVE FALSE
  OBVIOUS
<1>1. PICK m \in Nat \ I : \A j \in Nat \ I : ~ (<<j, m>> \in OpToRel(<, Nat))
  BY WFMin, NatLessThanWellFounded
<1>2. m # 0 /\ m - 1 \in Nat /\ (m - 1) + 1 = m /\ m - 1 < m
  OBVIOUS
<1>3. m - 1 \notin I
  BY <1>2
<1>4. <<m - 1, m>> \in OpToRel(<, Nat)
  BY <1>2 DEF OpToRel
<1> QED BY <1>1, <1>2, <1>3, <1>4

\* f is what a loop comes to after each of its rounds.
IsLoop(f, start, step) == f = [k \in Nat |-> IF k = 0 THEN start ELSE step[f[k - 1]]]

(* A loop that stays among the states D has such a function. *)
LEMMA Rounds ==
    ASSUME NEW D, NEW step \in [D -> D], NEW start \in D
    PROVE  \E f \in [Nat -> D] : IsLoop(f, start, step)
<1> DEFINE G(k) == {g \in [0 .. k -> D] :
                       g[0] = start /\ \A i \in 0 .. k - 1 : g[i + 1] = step[g[i]]}
<1>1. ASSUME NEW k \in Nat, NEW m \in Nat, NEW g \in G(k), NEW h \in G(m)
      PROVE  \A i \in Nat : i <= k /\ i <= m => g[i] = h[i]
  <2> DEFINE I == {i \in Nat : i <= k /\ i <= m => g[i] = h[i]}
  <2>1. 0 \in I
    OBVIOUS
  <2>2. ASSUME NEW i \in I
        PROVE  i + 1 \in I
    <3>1. ASSUME i + 1 <= k, i + 1 <= m
          PROVE  g[i + 1] = h[i + 1]
      <4>1. i \in 0 .. k - 1 /\ i \in 0 .. m - 1 /\ g[i] = h[i]
        BY <3>1
      <4> QED BY <4>1
    <3> QED BY <3>1
  <2>3. I = Nat
    <3> HIDE DEF I
    <3> QED BY <2>1, <2>2, AllNumbers DEF I
  <2> QED BY <2>3
<1>2. \A k \in Nat : G(k) # {}
  <2> DEFINE I == {k \in Nat : G(k) # {}}
  <2>1. 0 \in I
    <3>1. [i \in 0 .. 0 |-> start] \in G(0)
      OBVIOUS
    <3> QED BY <3>1
  <2>2. ASSUME NEW k \in I
        PROVE  k + 1 \in I
    <3>1. PICK g : g \in G(k)
      OBVIOUS
    <3> DEFINE h == [i \in 0 .. k + 1 |-> IF i = k + 1 THEN step[g[k]] ELSE g[i]]
    <3>2. \A i \in 0 .. k : g[i] \in D /\ h[i] = g[i]
      BY <3>1
    <3>3. h[k + 1] = step[g[k]] /\ step[g[k]] \in D
      BY <3>2
    <3>4. h \in [0 .. k + 1 -> D]
      BY SMTT(30), <3>2, <3>3
    <3>5. ASSUME NEW i \in 0 .. (k + 1) - 1
          PROVE  h[i + 1] = step[h[i]]
      <4>1. CASE i = k
        BY <4>1, <3>2, <3>3
      <4>2. CASE i # k
        <5>1. i \in 0 .. k - 1 /\ i \in 0 .. k /\ i + 1 \in 0 .. k
          BY <4>2
        <5> HIDE DEF h
        <5> QED BY <5>1, <3>1, <3>2
      <4> QED BY <4>1, <4>2
    <3>6. h[0] = start
      BY <3>1, <3>2
    <3>7. h \in G(k + 1)
      <4> HIDE DEF h
      <4> QED BY <3>4, <3>5, <3>6
    <3> QED BY <3>7
  <2>3. I = Nat
    <3> HIDE DEF I
    <3> QED BY <2>1, <2>2, AllNumbers DEF I
  <2> QED BY <2>3
<1> DEFINE c == [k \in Nat |-> CHOOSE g \in G(k) : TRUE]
           f == [k \in Nat |-> c[k][k]]
<1>3. \A k \in Nat : c[k] \in G(k)
  BY <1>2
<1> HIDE DEF c
<1>4. ASSUME NEW k \in Nat
      PROVE  /\ f[k] \in D
             /\ f[k] = IF k = 0 THEN start ELSE step[f[k - 1]]
  <2>1. c[k] \in [0 .. k -> D] /\ c[k][0] = start
    BY <1>3
  <2>2. CASE k # 0
    <3>1. k - 1 \in Nat /\ k - 1 \in 0 .. k - 1 /\ (k - 1) + 1 = k /\ k - 1 <= k
      BY <2>2
    <3>2. c[k] \in G(k) /\ c[k - 1] \in G(k - 1)
      BY <1>3, <3>1
    <3>3. c[k][(k - 1) + 1] = step[c[k][k - 1]]
      BY <3>1, <3>2
    <3>4. c[k][k - 1] = c[k - 1][k - 1]
      <4> HIDE DEF G
      <4> QED BY <1>1, <3>1, <3>2
    <3> QED BY <2>1, <2>2, <3>1, <3>3, <3>4
  <2> QED BY <2>1, <2>2
<1>5. f \in [Nat -> D] /\ f = [k \in Nat |-> IF k = 0 THEN start ELSE step[f[k - 1]]]
  <2> HIDE DEF f
  <2>1. f = [k \in Nat |-> f[k]]
    BY DEF f
  <2> QED BY <1>4, <2>1
<1> QED BY <1>5 DEF IsLoop

-----------------------------------------------------------------------------
(* Names of handles, and numbers in use.                                   *)

Hid(p, d) == Id(p, d, 1)
Ids == {Hid(p, d) : p \in Processes, d \in Nat}

\* The numbers of process p.
Nums(H, p) == {d \in Nat : Hid(p, d) \in DOMAIN H}

LEMMA IdFacts ==
    ASSUME NEW p \in Processes, NEW d \in Nat
    PROVE  /\ Hid(p, d) \in Ids /\ Hid(p, d) # Null
           /\ ProcOf(Hid(p, d)) = p /\ FD(Hid(p, d)) = d
           /\ \A q, e : Hid(q, e) = Hid(p, d) => q = p /\ e = d
<1>1. <<p, d, 1>> \in Processes \X Nat \X Nat
  OBVIOUS
<1>2. <<p, d, 1>> # Null
  BY <1>1, FileTableAssumption
<1> QED BY <1>2 DEF Hid, Id, Ids, ProcOf, FD

LEMMA IdIs ==
    ASSUME NEW h \in Ids
    PROVE  /\ h # Null /\ ProcOf(h) \in Processes /\ FD(h) \in Nat
           /\ h = Hid(ProcOf(h), FD(h))
<1>1. PICK p \in Processes, d \in Nat : h = Hid(p, d)
  BY DEF Ids
<1> QED BY <1>1, IdFacts

\* Of the numbers S of process p, x is the one behind d, or before it, if any.
IsNext(S, p, d, x) ==
    \/ x = Null /\ \A c \in S : c <= d
    \/ \E e \in S : x = Hid(p, e) /\ d < e /\ \A c \in S : c <= d \/ e <= c
IsPrev(S, p, d, x) ==
    \/ x = Null /\ \A c \in S : d <= c
    \/ \E e \in S : x = Hid(p, e) /\ e < d /\ \A c \in S : c <= e \/ d <= c

Links == Ids \union {Null}

Shaped(H) ==
    /\ IsFiniteSet(DOMAIN H) /\ DOMAIN H \subseteq Ids
    /\ H \in [DOMAIN H -> [is : Handles, pre : Links, nxt : Links]]

\* Each handle is linked to its neighbours by number.
Linked(H) ==
    \A p \in Processes : \A d \in Nums(H, p) :
        /\ IsNext(Nums(H, p), p, d, H[Hid(p, d)].nxt)
        /\ IsPrev(Nums(H, p), p, d, H[Hid(p, d)].pre)

LEMMA NumFacts ==
    ASSUME NEW H, Shaped(H), NEW p \in Processes, NEW d \in Nums(H, p)
    PROVE  /\ d \in Nat /\ Hid(p, d) \in DOMAIN H
           /\ H[Hid(p, d)] \in [is : Handles, pre : Links, nxt : Links]
BY DEF Nums, Shaped

-----------------------------------------------------------------------------
(* Along a list.                                                           *)

\* Where a walk of the handles F from h on gets.
Steps(F, h) ==
    CHOOSE step : step = [i \in Nat |-> IF i = 0 THEN h ELSE Following(F, step[i - 1])]

LEMMA StepsFacts ==
    ASSUME NEW F, Shaped(F.handle), Linked(F.handle), NEW h \in DOMAIN F.handle \union {Null}
    PROVE  /\ Steps(F, h)[0] = h
           /\ \A i \in Nat : /\ Steps(F, h)[i] \in DOMAIN F.handle \union {Null}
                             /\ Steps(F, h)[i + 1] = Following(F, Steps(F, h)[i])
<1> DEFINE D == DOMAIN F.handle \union {Null}
           step == [x \in D |-> Following(F, x)]
           s == Steps(F, h)
<1>1. \A x \in D : Following(F, x) \in D
  <2> SUFFICES ASSUME NEW x \in DOMAIN F.handle
               PROVE  Following(F, x) \in D
    BY DEF Following
  <2>1. x \in Ids
    BY DEF Shaped
  <2> DEFINE p == ProcOf(x)
             d == FD(x)
             S == Nums(F.handle, p)
  <2>2. p \in Processes /\ d \in S /\ x = Hid(p, d) /\ x # Null
    BY <2>1, IdIs DEF Nums
  <2>3. IsNext(S, p, d, F.handle[x].nxt)
    BY <2>2 DEF Linked
  <2> HIDE DEF p, d
  <2>4. F.handle[x].nxt \in D
    BY <2>3 DEF IsNext, Nums
  <2> QED BY <2>2, <2>4 DEF Following
<1>2. step \in [D -> D] /\ h \in D /\ \A x \in D : step[x] = Following(F, x)
  BY <1>1
<1>3. PICK f \in [Nat -> D] : IsLoop(f, h, step)
  <2> HIDE DEF step, D
  <2> QED BY <1>2, Rounds
<1>4. f = [i \in Nat |-> IF i = 0 THEN h ELSE Following(F, f[i - 1])]
  <2>1. ASSUME NEW k \in Nat, k # 0
        PROVE  step[f[k - 1]] = Following(F, f[k - 1])
    <3>1. k - 1 \in Nat
      BY <2>1
    <3> HIDE DEF step, D
    <3> QED BY <1>2, <1>3, <3>1
  <2> HIDE DEF step, D
  <2> QED BY <1>3, <2>1 DEF IsLoop
<1>5. s = [i \in Nat |-> IF i = 0 THEN h ELSE Following(F, s[i - 1])]
  BY <1>4 DEF Steps
<1> HIDE DEF s, step, D
<1>6. s[0] = h
  BY <1>5
<1>7. ASSUME NEW i \in Nat
      PROVE  s[i + 1] = Following(F, s[i])
  <2>1. i + 1 \in Nat /\ i + 1 # 0 /\ (i + 1) - 1 = i
    OBVIOUS
  <2> QED BY <1>5, <2>1
<1>8. \A i \in Nat : s[i] \in D
  <2> DEFINE I == {i \in Nat : s[i] \in D}
  <2>1. 0 \in I
    BY <1>2, <1>6
  <2>2. ASSUME NEW i \in I
        PROVE  i + 1 \in I
    BY <1>1, <1>7
  <2>3. I = Nat
    <3> HIDE DEF I
    <3> QED BY <2>1, <2>2, AllNumbers DEF I
  <2> QED BY <2>3
<1> QED BY <1>6, <1>7, <1>8 DEF s, D

\* What a walk from number d of process p is at after i steps.
Reached(F, p, d, i) ==
    LET s == Steps(F, Hid(p, d))
        S == Nums(F.handle, p)
    IN  \E e \in S :
            /\ s[i] = Hid(p, e) /\ d <= e
            /\ \A c \in S : d <= c /\ c < e => \E j \in 0 .. i - 1 : s[j] = Hid(p, c)
            /\ \A j \in 0 .. i - 1 : \E c \in S : s[j] = Hid(p, c) /\ d <= c /\ c < e

LEMMA ReachedFacts ==
    ASSUME NEW F, Shaped(F.handle), Linked(F.handle), NEW p \in Processes,
           NEW d \in Nums(F.handle, p), NEW i \in Nat,
           \A j \in 0 .. i : Steps(F, Hid(p, d))[j] # Null
    PROVE  Reached(F, p, d, i)
<1> DEFINE s == Steps(F, Hid(p, d))
           S == Nums(F.handle, p)
           Going(k) == \A j \in 0 .. k : s[j] # Null
           I == {k \in Nat : Going(k) => Reached(F, p, d, k)}
<1>1. /\ s[0] = Hid(p, d)
      /\ \A k \in Nat : s[k] \in DOMAIN F.handle \union {Null} /\ s[k + 1] = Following(F, s[k])
  <2>1. Hid(p, d) \in DOMAIN F.handle \union {Null}
    BY NumFacts
  <2> QED BY <2>1, StepsFacts
<1>2. \A e \in S : e \in Nat /\ Hid(p, e) # Null
  BY IdFacts DEF Nums
<1> HIDE DEF s
<1>3. 0 \in I
  <2>1. Reached(F, p, d, 0)
    <3>1. /\ s[0] = Hid(p, d) /\ d <= d
          /\ \A c \in S : ~ (d <= c /\ c < d)
          /\ \A j \in 0 .. 0 - 1 : FALSE
      BY <1>1, <1>2
    <3> HIDE DEF S
    <3> QED BY <3>1 DEF Reached, s, S
  <2> QED BY <2>1
<1>4. ASSUME NEW k \in I
      PROVE  k + 1 \in I
  <2> SUFFICES ASSUME Going(k + 1)
               PROVE  Reached(F, p, d, k + 1)
    OBVIOUS
  <2>1. k \in Nat /\ (k + 1) - 1 = k /\ \A j \in 0 .. k : j = k \/ j \in 0 .. k - 1
    OBVIOUS
  <2>2. Reached(F, p, d, k) /\ s[k] # Null /\ s[k + 1] # Null
    <3>1. Going(k)
      BY <2>1
    <3>2. k \in 0 .. k + 1 /\ k + 1 \in 0 .. k + 1
      BY <2>1
    <3> QED BY <3>1, <3>2
  <2>3. PICK e \in S :
            /\ s[k] = Hid(p, e) /\ d <= e
            /\ \A c \in S : d <= c /\ c < e => \E j \in 0 .. k - 1 : s[j] = Hid(p, c)
            /\ \A j \in 0 .. k - 1 : \E c \in S : s[j] = Hid(p, c) /\ d <= c /\ c < e
    BY <2>2 DEF Reached, s
  <2>4. IsNext(S, p, e, s[k + 1])
    <3>1. s[k + 1] = F.handle[Hid(p, e)].nxt
      BY <1>1, <1>2, <2>1, <2>3 DEF Following
    <3> QED BY <3>1 DEF Linked
  <2>5. PICK g \in S : s[k + 1] = Hid(p, g) /\ e < g /\ \A c \in S : c <= e \/ g <= c
    BY <2>2, <2>4 DEF IsNext
  <2> HIDE DEF S
  <2>6. d \in Nat /\ e \in Nat /\ g \in Nat
    BY <1>2 DEF S
  <2>7. \A c \in S : d <= c /\ c < g => \E j \in 0 .. (k + 1) - 1 : s[j] = Hid(p, c)
    <3> SUFFICES ASSUME NEW c \in S, d <= c, c < g
                 PROVE  \E j \in 0 .. k : s[j] = Hid(p, c)
      BY <2>1
    <3>1. c \in Nat /\ (c < e \/ c = e)
      <4>1. c \in Nat
        BY <1>2
      <4>2. c <= e \/ g <= c
        BY <2>5
      <4> QED BY <2>6, <4>1, <4>2
    <3>2. CASE c = e
      BY <2>1, <2>3, <3>2
    <3>3. CASE c < e
      <4>1. PICK j \in 0 .. k - 1 : s[j] = Hid(p, c)
        BY <2>3, <3>3
      <4> QED BY <2>1, <4>1
    <3> QED BY <3>1, <3>2, <3>3
  <2>8. \A j \in 0 .. (k + 1) - 1 : \E c \in S : s[j] = Hid(p, c) /\ d <= c /\ c < g
    <3> SUFFICES ASSUME NEW j \in 0 .. k
                 PROVE  \E c \in S : s[j] = Hid(p, c) /\ d <= c /\ c < g
      BY <2>1
    <3>1. CASE j = k
      BY <2>3, <2>5, <2>6, <3>1
    <3>2. CASE j \in 0 .. k - 1
      <4>1. PICK c \in S : s[j] = Hid(p, c) /\ d <= c /\ c < e
        BY <2>3, <3>2
      <4>2. c < g
        BY <1>2, <2>5, <2>6, <4>1
      <4> QED BY <4>1, <4>2
    <3> QED BY <2>1, <3>1, <3>2
  <2>9. d <= g
    BY <2>3, <2>5, <2>6
  <2> QED BY <2>5, <2>7, <2>8, <2>9 DEF Reached, s, S
<1>5. I = Nat
  <2> HIDE DEF I
  <2> QED BY <1>3, <1>4, AllNumbers DEF I
<1> QED BY <1>5 DEF s

(* A walk ends, within as many steps as there are handles. *)
LEMMA WalkEnds ==
    ASSUME NEW F, Shaped(F.handle), Linked(F.handle), NEW p \in Processes,
           NEW d \in Nums(F.handle, p)
    PROVE  LET s == Steps(F, Hid(p, d))
           IN  \E n \in 0 .. Cardinality(DOMAIN F.handle) :
                   s[n] = Null /\ \A i \in 0 .. n - 1 : s[i] # Null
<1> DEFINE s == Steps(F, Hid(p, d))
           S == Nums(F.handle, p)
           N == Cardinality(DOMAIN F.handle)
           Ends(n) == s[n] = Null /\ \A i \in 0 .. n - 1 : s[i] # Null
           K == {i \in Nat : i <= N => \A j \in 0 .. i : s[j] # Null}
<1> SUFFICES ASSUME \A n \in 0 .. N : ~ Ends(n)
             PROVE  FALSE
  OBVIOUS
<1>1. N \in Nat /\ IsFiniteSet(DOMAIN F.handle)
  BY FS_CardinalityType DEF Shaped
<1>2. \A k \in Nat : s[k] \in DOMAIN F.handle \union {Null}
  <2>1. Hid(p, d) \in DOMAIN F.handle \union {Null}
    BY NumFacts
  <2> QED BY <2>1, StepsFacts
<1> HIDE DEF s, N
<1>3. 0 \in K
  <2>1. 0 \in 0 .. N /\ \A i \in 0 .. 0 - 1 : FALSE
    BY <1>1
  <2>2. s[0] # Null
    BY <2>1
  <2> QED BY <2>2
<1>4. ASSUME NEW k \in K
      PROVE  k + 1 \in K
  <2> SUFFICES ASSUME k + 1 <= N
               PROVE  \A j \in 0 .. k + 1 : s[j] # Null
    OBVIOUS
  <2>1. k \in Nat /\ k + 1 \in 0 .. N /\ (k + 1) - 1 = k /\ k <= N
    BY <1>1
  <2>2. \A j \in 0 .. k : s[j] # Null
    BY <2>1
  <2>3. s[k + 1] # Null
    BY <2>1, <2>2
  <2> QED BY <2>1, <2>2, <2>3
<1>5. K = Nat
  <2> HIDE DEF K
  <2> QED BY <1>3, <1>4, AllNumbers DEF K
<1>6. \A j \in 0 .. N : s[j] # Null
  BY <1>1, <1>5
<1>7. \A j \in 0 .. N : Reached(F, p, d, j)
  <2> SUFFICES ASSUME NEW j \in 0 .. N
               PROVE  Reached(F, p, d, j)
    OBVIOUS
  <2>1. j \in Nat /\ \A i \in 0 .. j : s[i] # Null
    BY <1>1, <1>6
  <2> QED BY <2>1, ReachedFacts DEF s
<1>8. ASSUME NEW i \in 0 .. N, NEW j \in 0 .. N, i < j
      PROVE  s[i] # s[j]
  <2>1. i \in 0 .. j - 1
    BY <1>1, <1>8
  <2>2. PICK e \in S : s[j] = Hid(p, e)
            /\ \A k \in 0 .. j - 1 : \E c \in S : s[k] = Hid(p, c) /\ d <= c /\ c < e
    BY <1>7 DEF Reached, s
  <2>3. PICK c \in S : s[i] = Hid(p, c) /\ c < e
    BY <2>1, <2>2
  <2>4. c \in Nat /\ e \in Nat
    BY DEF Nums
  <2> HIDE DEF S
  <2> QED BY <2>2, <2>3, <2>4, IdFacts
<1> DEFINE f == [j \in 0 .. N |-> s[j]]
<1>9. f \in [0 .. N -> DOMAIN F.handle]
  <2> SUFFICES ASSUME NEW j \in 0 .. N
               PROVE  s[j] \in DOMAIN F.handle
    OBVIOUS
  <2>1. j \in Nat
    BY <1>1
  <2> QED BY <1>2, <1>6, <2>1
<1>10. IsFiniteSet(0 .. N) /\ Cardinality(0 .. N) = N + 1
  <2>1. N + 1 = N - 0 + 1 /\ ~ (0 > N) /\ 0 \in Int /\ N \in Int
    BY <1>1
  <2> QED BY <2>1, FS_Interval
<1>11. PICK i \in 0 .. N, j \in 0 .. N : i # j /\ f[i] = f[j]
  <2>1. Cardinality(DOMAIN F.handle) < Cardinality(0 .. N)
    BY <1>1, <1>10 DEF N
  <2> HIDE DEF f
  <2> QED BY <1>1, <1>9, <1>10, <2>1, FS_PigeonHole
<1>12. i < j \/ j < i
  BY <1>1, <1>11
<1> QED BY <1>8, <1>11, <1>12

(* The walk from number d of a process on: its handles from there, by number. *)
LEMMA FromFacts ==
    ASSUME NEW F, Shaped(F.handle), Linked(F.handle), NEW p \in Processes,
           NEW d \in Nums(F.handle, p)
    PROVE  LET l == From(F, Hid(p, d))
           IN  /\ l \in Seq(DOMAIN F.handle) /\ Len(l) > 0
               /\ \A i \in 1 .. Len(l) : \E e \in Nums(F.handle, p) : l[i] = Hid(p, e) /\ d <= e
               /\ \A e \in Nums(F.handle, p) : d <= e => \E i \in 1 .. Len(l) : l[i] = Hid(p, e)
               /\ \A i, j \in 1 .. Len(l) : i < j => FD(l[i]) < FD(l[j])
<1> DEFINE s == Steps(F, Hid(p, d))
           S == Nums(F.handle, p)
           Ends(n) == s[n] = Null /\ \A i \in 0 .. n - 1 : s[i] # Null
           len == CHOOSE n \in 0 .. Cardinality(DOMAIN F.handle) : Ends(n)
           l == From(F, Hid(p, d))
<1>1. l = [i \in 1 .. len |-> s[i - 1]]
  BY DEF From, Steps
<1>2. len \in 0 .. Cardinality(DOMAIN F.handle) /\ Ends(len)
  BY WalkEnds
<1>3. /\ s[0] = Hid(p, d)
      /\ \A k \in Nat : s[k] \in DOMAIN F.handle \union {Null} /\ s[k + 1] = Following(F, s[k])
  <2>1. Hid(p, d) \in DOMAIN F.handle \union {Null}
    BY NumFacts
  <2> QED BY <2>1, StepsFacts
<1>4. d \in Nat /\ \A e \in S : e \in Nat /\ Hid(p, e) # Null /\ FD(Hid(p, e)) = e
  BY IdFacts DEF Nums
<1>5. Cardinality(DOMAIN F.handle) \in Nat
  BY FS_CardinalityType DEF Shaped
<1> HIDE DEF s, len, l
<1>6. len \in Nat /\ len > 0
  BY <1>2, <1>3, <1>4, <1>5
<1>7. ASSUME NEW k \in 0 .. len - 1
      PROVE  Reached(F, p, d, k)
  <2>1. k \in Nat /\ \A j \in 0 .. k : s[j] # Null
    BY <1>2, <1>6
  <2> QED BY <2>1, ReachedFacts DEF s
<1>8. /\ l \in Seq(DOMAIN F.handle) /\ Len(l) = len
      /\ \A i \in 1 .. len : l[i] = s[i - 1] /\ i - 1 \in 0 .. len - 1
  <2>1. ASSUME NEW i \in 1 .. len
        PROVE  s[i - 1] \in DOMAIN F.handle /\ i - 1 \in 0 .. len - 1
    <3>1. i - 1 \in 0 .. len - 1 /\ i - 1 \in Nat
      BY <1>6
    <3> QED BY <1>2, <1>3, <3>1
  <2> QED BY <1>1, <1>6, <2>1
<1>9. ASSUME NEW i \in 1 .. len
      PROVE  \E e \in S : l[i] = Hid(p, e) /\ d <= e
  <2>1. Reached(F, p, d, i - 1)
    BY <1>7, <1>8
  <2> QED BY <1>8, <2>1 DEF Reached, s
<1>10. ASSUME NEW e \in S, d <= e
       PROVE  \E i \in 1 .. len : l[i] = Hid(p, e)
  <2>1. len - 1 \in 0 .. len - 1 /\ len - 1 \in Nat /\ (len - 1) + 1 = len
    BY <1>6
  <2>2. PICK g \in S :
            /\ s[len - 1] = Hid(p, g)
            /\ \A c \in S : d <= c /\ c < g => \E j \in 0 .. (len - 1) - 1 : s[j] = Hid(p, c)
    BY <1>7, <2>1 DEF Reached, s
  <2>3. F.handle[Hid(p, g)].nxt = Null
    BY <1>2, <1>3, <1>4, <2>1, <2>2 DEF Following
  <2>4. e <= g
    <3>1. IsNext(S, p, g, Null)
      BY <2>3 DEF Linked
    <3> QED BY <1>4, <3>1 DEF IsNext
  <2>5. PICK j \in 0 .. len - 1 : s[j] = Hid(p, e)
    <3>1. CASE e = g
      BY <2>1, <2>2, <3>1
    <3>2. CASE e # g
      <4>1. e < g
        BY <1>4, <2>4, <3>2
      <4>2. PICK j \in 0 .. (len - 1) - 1 : s[j] = Hid(p, e)
        BY <1>10, <2>2, <4>1
      <4> QED BY <1>6, <4>2
    <3> QED BY <3>1, <3>2
  <2>6. j + 1 \in 1 .. len /\ (j + 1) - 1 = j
    BY <1>6
  <2> QED BY <1>8, <2>5, <2>6
<1>11. ASSUME NEW i \in 1 .. len, NEW j \in 1 .. len, i < j
       PROVE  FD(l[i]) < FD(l[j])
  <2>1. i - 1 \in 0 .. (j - 1) - 1
    BY <1>6, <1>11
  <2>2. PICK g \in S :
            /\ s[j - 1] = Hid(p, g)
            /\ \A k \in 0 .. (j - 1) - 1 : \E c \in S : s[k] = Hid(p, c) /\ d <= c /\ c < g
    BY <1>7, <1>8 DEF Reached, s
  <2>3. PICK c \in S : s[i - 1] = Hid(p, c) /\ c < g
    BY <2>1, <2>2
  <2> QED BY <1>4, <1>8, <2>2, <2>3
<1> QED BY <1>6, <1>8, <1>9, <1>10, <1>11 DEF l

LEMMA FromNull ==
    ASSUME NEW F, Shaped(F.handle), Linked(F.handle)
    PROVE  From(F, Null) = <<>>
<1> DEFINE s == Steps(F, Null)
           Ends(n) == s[n] = Null /\ \A i \in 0 .. n - 1 : s[i] # Null
           len == CHOOSE n \in 0 .. Cardinality(DOMAIN F.handle) : Ends(n)
<1>1. From(F, Null) = [i \in 1 .. len |-> s[i - 1]]
  BY DEF From, Steps
<1>2. s[0] = Null
  BY StepsFacts
<1>3. Cardinality(DOMAIN F.handle) \in Nat
  BY FS_CardinalityType DEF Shaped
<1> HIDE DEF s
<1>4. len = 0
  <2>1. 0 \in 0 .. Cardinality(DOMAIN F.handle) /\ Ends(0)
    BY <1>2, <1>3
  <2>2. len \in 0 .. Cardinality(DOMAIN F.handle) /\ Ends(len)
    BY <2>1
  <2> HIDE DEF len
  <2>3. len # 0 => 0 \in 0 .. len - 1
    BY <1>3, <2>2
  <2> QED BY <1>2, <2>2, <2>3
<1> HIDE DEF len
<1> QED BY <1>1, <1>4

-----------------------------------------------------------------------------
(* Neighbours when a number comes or goes.                                 *)

LEMMA SameHid ==
    ASSUME NEW p \in Processes, NEW d \in Nat, NEW e, Hid(p, e) = Hid(p, d)
    PROVE  e = d
BY IdFacts

LEMMA NextOfNew ==
    ASSUME NEW S \in SUBSET Nat, NEW p \in Processes, NEW d \in Nat, NEW x,
           IsNext(S, p, d, x)
    PROVE  IsNext(S \union {d}, p, d, x)
<1>1. CASE x = Null /\ \A c \in S : c <= d
  BY <1>1 DEF IsNext
<1>2. ASSUME NEW e \in S, x = Hid(p, e) /\ d < e /\ \A c \in S : c <= d \/ e <= c
      PROVE  IsNext(S \union {d}, p, d, x)
  BY <1>2 DEF IsNext
<1> QED BY <1>1, <1>2 DEF IsNext

LEMMA PrevOfNew ==
    ASSUME NEW S \in SUBSET Nat, NEW p \in Processes, NEW d \in Nat, NEW x,
           IsPrev(S, p, d, x)
    PROVE  IsPrev(S \union {d}, p, d, x)
<1>1. CASE x = Null /\ \A c \in S : d <= c
  BY <1>1 DEF IsPrev
<1>2. ASSUME NEW e \in S, x = Hid(p, e) /\ e < d /\ \A c \in S : c <= e \/ d <= c
      PROVE  IsPrev(S \union {d}, p, d, x)
  BY <1>2 DEF IsPrev
<1> QED BY <1>1, <1>2 DEF IsPrev

LEMMA NewIsNext ==
    ASSUME NEW S \in SUBSET Nat, NEW p \in Processes, NEW d \in Nat \ S, NEW e \in S,
           IsPrev(S, p, d, Hid(p, e))
    PROVE  IsNext(S \union {d}, p, e, Hid(p, d))
<1>1. Hid(p, e) # Null
  BY IdFacts
<1>2. PICK g \in S : Hid(p, e) = Hid(p, g) /\ g < d /\ \A c \in S : c <= g \/ d <= c
  BY <1>1 DEF IsPrev
<1>3. g = e
  BY <1>2, SameHid
<1>4. e < d /\ \A c \in S \union {d} : c <= e \/ d <= c
  BY <1>2, <1>3
<1> QED BY <1>4 DEF IsNext

LEMMA NewIsPrev ==
    ASSUME NEW S \in SUBSET Nat, NEW p \in Processes, NEW d \in Nat \ S, NEW e \in S,
           IsNext(S, p, d, Hid(p, e))
    PROVE  IsPrev(S \union {d}, p, e, Hid(p, d))
<1>1. Hid(p, e) # Null
  BY IdFacts
<1>2. PICK g \in S : Hid(p, e) = Hid(p, g) /\ d < g /\ \A c \in S : c <= d \/ g <= c
  BY <1>1 DEF IsNext
<1>3. g = e
  BY <1>2, SameHid
<1>4. d < e /\ \A c \in S \union {d} : c <= d \/ e <= c
  BY <1>2, <1>3
<1> QED BY <1>4 DEF IsPrev

LEMMA NextKept ==
    ASSUME NEW S \in SUBSET Nat, NEW p \in Processes, NEW d \in Nat \ S, NEW e \in S,
           NEW x, IsPrev(S, p, d, x), x # Hid(p, e), NEW n, IsNext(S, p, e, n)
    PROVE  IsNext(S \union {d}, p, e, n)
<1>1. \A c \in S : c \in Nat /\ c # d
  OBVIOUS
<1>2. d <= e \/ \E g \in S : e < g /\ g < d
  <2>1. CASE x = Null /\ \A c \in S : d <= c
    BY <2>1
  <2>2. ASSUME NEW g \in S, x = Hid(p, g) /\ g < d /\ \A c \in S : c <= g \/ d <= c
        PROVE  d <= e \/ \E h \in S : e < h /\ h < d
    <3>1. g # e
      BY <2>2
    <3>2. e <= g \/ d <= e
      BY <2>2
    <3> QED BY <1>1, <2>2, <3>1, <3>2
  <2> QED BY <2>1, <2>2 DEF IsPrev
<1>3. CASE n = Null /\ \A c \in S : c <= e
  <2>1. d <= e
    BY <1>1, <1>2, <1>3
  <2> QED BY <1>3, <2>1 DEF IsNext
<1>4. ASSUME NEW g \in S, n = Hid(p, g) /\ e < g /\ \A c \in S : c <= e \/ g <= c
      PROVE  IsNext(S \union {d}, p, e, n)
  <2>1. d <= e \/ g <= d
    <3>1. CASE d <= e
      BY <3>1
    <3>2. ASSUME NEW h \in S, e < h /\ h < d
          PROVE  g <= d
      <4>1. h <= e \/ g <= h
        BY <1>4
      <4>2. h \in Nat /\ e \in Nat /\ g \in Nat
        BY <1>1
      <4> QED BY <3>2, <4>1, <4>2
    <3> QED BY <1>2, <3>1, <3>2
  <2> QED BY <1>4, <2>1 DEF IsNext
<1> QED BY <1>3, <1>4 DEF IsNext

LEMMA PrevKept ==
    ASSUME NEW S \in SUBSET Nat, NEW p \in Processes, NEW d \in Nat \ S, NEW e \in S,
           NEW x, IsNext(S, p, d, x), x # Hid(p, e), NEW n, IsPrev(S, p, e, n)
    PROVE  IsPrev(S \union {d}, p, e, n)
<1>1. \A c \in S : c \in Nat /\ c # d
  OBVIOUS
<1>2. e <= d \/ \E g \in S : d < g /\ g < e
  <2>1. CASE x = Null /\ \A c \in S : c <= d
    BY <2>1
  <2>2. ASSUME NEW g \in S, x = Hid(p, g) /\ d < g /\ \A c \in S : c <= d \/ g <= c
        PROVE  e <= d \/ \E h \in S : d < h /\ h < e
    <3>1. g # e
      BY <2>2
    <3>2. e <= d \/ g <= e
      BY <2>2
    <3> QED BY <1>1, <2>2, <3>1, <3>2
  <2> QED BY <2>1, <2>2 DEF IsNext
<1>3. CASE n = Null /\ \A c \in S : e <= c
  <2>1. e <= d
    BY <1>1, <1>2, <1>3
  <2> QED BY <1>3, <2>1 DEF IsPrev
<1>4. ASSUME NEW g \in S, n = Hid(p, g) /\ g < e /\ \A c \in S : c <= g \/ e <= c
      PROVE  IsPrev(S \union {d}, p, e, n)
  <2>1. d <= g \/ e <= d
    <3>1. CASE e <= d
      BY <3>1
    <3>2. ASSUME NEW h \in S, d < h /\ h < e
          PROVE  d <= g
      <4>1. h <= g \/ e <= h
        BY <1>4
      <4>2. h \in Nat /\ e \in Nat /\ g \in Nat
        BY <1>1
      <4> QED BY <3>2, <4>1, <4>2
    <3> QED BY <1>2, <3>1, <3>2
  <2> QED BY <1>4, <2>1 DEF IsPrev
<1> QED BY <1>3, <1>4 DEF IsPrev

LEMMA NextOver ==
    ASSUME NEW S \in SUBSET Nat, NEW p \in Processes, NEW d \in S, NEW e \in S,
           IsPrev(S, p, d, Hid(p, e)), NEW n, IsNext(S, p, d, n)
    PROVE  IsNext(S \ {d}, p, e, n)
<1>1. Hid(p, e) # Null
  BY IdFacts
<1>2. PICK g \in S : Hid(p, e) = Hid(p, g) /\ g < d /\ \A c \in S : c <= g \/ d <= c
  BY <1>1 DEF IsPrev
<1>3. e < d /\ \A c \in S \ {d} : c \in Nat /\ (c <= e \/ d < c)
  <2>1. g = e
    BY <1>2, SameHid
  <2> QED BY <1>2, <2>1
<1>4. CASE n = Null /\ \A c \in S : c <= d
  <2>1. \A c \in S \ {d} : c <= e
    BY <1>3, <1>4
  <2> QED BY <1>4, <2>1 DEF IsNext
<1>5. ASSUME NEW h \in S, n = Hid(p, h) /\ d < h /\ \A c \in S : c <= d \/ h <= c
      PROVE  IsNext(S \ {d}, p, e, n)
  <2>1. h \in S \ {d} /\ e < h
    BY <1>3, <1>5
  <2>2. \A c \in S \ {d} : c <= e \/ h <= c
    BY <1>3, <1>5
  <2> QED BY <1>5, <2>1, <2>2 DEF IsNext
<1> QED BY <1>4, <1>5 DEF IsNext

LEMMA PrevOver ==
    ASSUME NEW S \in SUBSET Nat, NEW p \in Processes, NEW d \in S, NEW e \in S,
           IsNext(S, p, d, Hid(p, e)), NEW n, IsPrev(S, p, d, n)
    PROVE  IsPrev(S \ {d}, p, e, n)
<1>1. Hid(p, e) # Null
  BY IdFacts
<1>2. PICK g \in S : Hid(p, e) = Hid(p, g) /\ d < g /\ \A c \in S : c <= d \/ g <= c
  BY <1>1 DEF IsNext
<1>3. d < e /\ \A c \in S \ {d} : c \in Nat /\ (c < d \/ e <= c)
  <2>1. g = e
    BY <1>2, SameHid
  <2> QED BY <1>2, <2>1
<1>4. CASE n = Null /\ \A c \in S : d <= c
  <2>1. \A c \in S \ {d} : e <= c
    BY <1>3, <1>4
  <2> QED BY <1>4, <2>1 DEF IsPrev
<1>5. ASSUME NEW h \in S, n = Hid(p, h) /\ h < d /\ \A c \in S : c <= h \/ d <= c
      PROVE  IsPrev(S \ {d}, p, e, n)
  <2>1. h \in S \ {d} /\ h < e
    BY <1>3, <1>5
  <2>2. \A c \in S \ {d} : c <= h \/ e <= c
    BY <1>3, <1>5
  <2> QED BY <1>5, <2>1, <2>2 DEF IsPrev
<1> QED BY <1>4, <1>5 DEF IsPrev

LEMMA NextStays ==
    ASSUME NEW S \in SUBSET Nat, NEW p \in Processes, NEW d \in S, NEW e \in S \ {d},
           NEW x, IsPrev(S, p, d, x), x # Hid(p, e), NEW n, IsNext(S, p, e, n)
    PROVE  IsNext(S \ {d}, p, e, n)
<1>1. CASE n = Null /\ \A c \in S : c <= e
  BY <1>1 DEF IsNext
<1>2. ASSUME NEW g \in S, n = Hid(p, g) /\ e < g /\ \A c \in S : c <= e \/ g <= c
      PROVE  IsNext(S \ {d}, p, e, n)
  <2>1. g # d
    <3> SUFFICES ASSUME g = d
                 PROVE  FALSE
      OBVIOUS
    <3>1. CASE x = Null /\ \A c \in S : d <= c
      BY <1>2, <3>1
    <3>2. ASSUME NEW h \in S, x = Hid(p, h) /\ h < d /\ \A c \in S : c <= h \/ d <= c
          PROVE  FALSE
      <4>1. h # e
        BY <3>2
      <4>2. e <= h \/ d <= e
        BY <3>2
      <4>3. h <= e \/ d <= h
        BY <1>2
      <4>4. h \in Nat /\ d \in Nat /\ e \in Nat
        OBVIOUS
      <4> QED BY <1>2, <3>2, <4>1, <4>2, <4>3, <4>4
    <3> QED BY <3>1, <3>2 DEF IsPrev
  <2> QED BY <1>2, <2>1 DEF IsNext
<1> QED BY <1>1, <1>2 DEF IsNext

LEMMA PrevStays ==
    ASSUME NEW S \in SUBSET Nat, NEW p \in Processes, NEW d \in S, NEW e \in S \ {d},
           NEW x, IsNext(S, p, d, x), x # Hid(p, e), NEW n, IsPrev(S, p, e, n)
    PROVE  IsPrev(S \ {d}, p, e, n)
<1>1. CASE n = Null /\ \A c \in S : e <= c
  BY <1>1 DEF IsPrev
<1>2. ASSUME NEW g \in S, n = Hid(p, g) /\ g < e /\ \A c \in S : c <= g \/ e <= c
      PROVE  IsPrev(S \ {d}, p, e, n)
  <2>1. g # d
    <3> SUFFICES ASSUME g = d
                 PROVE  FALSE
      OBVIOUS
    <3>1. CASE x = Null /\ \A c \in S : c <= d
      BY <1>2, <3>1
    <3>2. ASSUME NEW h \in S, x = Hid(p, h) /\ d < h /\ \A c \in S : c <= d \/ h <= c
          PROVE  FALSE
      <4>1. h # e
        BY <3>2
      <4>2. e <= d \/ h <= e
        BY <3>2
      <4>3. h <= d \/ e <= h
        BY <1>2
      <4>4. h \in Nat /\ d \in Nat /\ e \in Nat
        OBVIOUS
      <4> QED BY <1>2, <3>2, <4>1, <4>2, <4>3, <4>4
    <3> QED BY <3>1, <3>2 DEF IsNext
  <2> QED BY <1>2, <2>1 DEF IsPrev
<1> QED BY <1>1, <1>2 DEF IsPrev

-----------------------------------------------------------------------------
(* Linking a handle in, and taking one off.                                *)

NodeRecords == [exists : BOOLEAN, refs : Int, writers : Int, autoClose : BOOLEAN]
HandleRecords == [is : Handles, pre : Links, nxt : Links]

FileTables ==
    [handle : UNION {[X -> HandleRecords] : X \in SUBSET Ids},
     table : [Processes -> [Indices -> Links]],
     node : [Nodes -> NodeRecords],
     fault : BOOLEAN]

\* The arrays that go with the handles H.
TableOf(H) ==
    [p \in Processes |->
       [i \in Indices |-> IF i \in Nums(H, p) THEN Hid(p, i) ELSE Null]]

Sound(F) ==
    /\ F \in FileTables
    /\ Shaped(F.handle) /\ Linked(F.handle)
    /\ F.table = TableOf(F.handle)
    /\ F.fault = FALSE

\* The handles J are H and h, a handle on w.
Added(H, J, h, w) ==
    /\ h \notin DOMAIN H /\ DOMAIN J = DOMAIN H \union {h}
    /\ J[h].is = w
    /\ \A x \in DOMAIN H : J[x].is = H[x].is

\* The handles J are H without h.
Removed(H, J, h) ==
    /\ h \in DOMAIN H /\ DOMAIN J = DOMAIN H \ {h}
    /\ \A x \in DOMAIN J : J[x].is = H[x].is

\* G is F with number d of process p bound to w.
Bound(F, G, p, d, w) ==
    /\ Sound(G) /\ G.node = F.node
    /\ Added(F.handle, G.handle, Hid(p, d), w)

LEMMA NewName ==
    ASSUME NEW F, Shaped(F.handle), NEW p \in Processes, NEW d \in Nat \ Nums(F.handle, p)
    PROVE  NewId(F, p, d) = Hid(p, d)
<1> DEFINE Fits(k) == /\ Id(p, d, k) \notin DOMAIN F.handle
                      /\ \A j \in 1 .. k - 1 : Id(p, d, j) \in DOMAIN F.handle
           K == 1 .. Cardinality(DOMAIN F.handle) + 1
           k == CHOOSE c \in K : Fits(c)
<1>1. Cardinality(DOMAIN F.handle) \in Nat
  BY FS_CardinalityType DEF Shaped
<1>2. Id(p, d, 1) \notin DOMAIN F.handle
  BY DEF Nums, Hid
<1>3. 1 \in K /\ Fits(1)
  BY <1>1, <1>2
<1>4. k \in K /\ Fits(k)
  BY <1>3
<1> HIDE DEF k
<1>5. k = 1
  <2>1. k # 1 => 1 \in 1 .. k - 1
    BY <1>1, <1>4
  <2> QED BY <1>2, <1>4, <2>1
<1> QED BY <1>5 DEF NewId, k, Hid

LEMMA NumsAdded ==
    ASSUME NEW H, NEW J, NEW p \in Processes, NEW d \in Nat,
           DOMAIN J = DOMAIN H \union {Hid(p, d)}
    PROVE  /\ Nums(J, p) = Nums(H, p) \union {d}
           /\ \A q \in Processes \ {p} : Nums(J, q) = Nums(H, q)
<1>1. \A q \in Processes, e \in Nat : Hid(q, e) = Hid(p, d) <=> q = p /\ e = d
  BY IdFacts
<1> QED BY <1>1 DEF Nums

LEMMA NumsRemoved ==
    ASSUME NEW H, NEW J, NEW p \in Processes, NEW d \in Nat,
           DOMAIN J = DOMAIN H \ {Hid(p, d)}
    PROVE  /\ Nums(J, p) = Nums(H, p) \ {d}
           /\ \A q \in Processes \ {p} : Nums(J, q) = Nums(H, q)
<1>1. \A q \in Processes, e \in Nat : Hid(q, e) = Hid(p, d) <=> q = p /\ e = d
  BY IdFacts
<1> QED BY <1>1 DEF Nums

LEMMA TableAdded ==
    ASSUME NEW H, NEW J, NEW p \in Processes, NEW d \in Nat,
           DOMAIN J = DOMAIN H \union {Hid(p, d)}
    PROVE  [TableOf(H) EXCEPT ![p] = IF d \in Indices THEN [@ EXCEPT ![d] = Hid(p, d)] ELSE @]
             = TableOf(J)
<1>1. /\ Nums(J, p) = Nums(H, p) \union {d}
      /\ \A q \in Processes \ {p} : Nums(J, q) = Nums(H, q)
  BY NumsAdded
<1>2. ASSUME NEW q \in Processes, NEW i \in Indices
      PROVE  (i \in Nums(J, q)) = ((q = p /\ i = d) \/ i \in Nums(H, q))
  BY <1>1
<1>3. /\ TableOf(H) = [q \in Processes |-> TableOf(H)[q]]
      /\ \A q \in Processes : TableOf(H)[q] =
           [i \in Indices |-> IF i \in Nums(H, q) THEN Hid(q, i) ELSE Null]
      /\ TableOf(J) = [q \in Processes |->
           [i \in Indices |-> IF i \in Nums(J, q) THEN Hid(q, i) ELSE Null]]
  BY DEF TableOf
<1> DEFINE row == IF d \in Indices THEN [TableOf(H)[p] EXCEPT ![d] = Hid(p, d)]
                  ELSE TableOf(H)[p]
<1>4. row = TableOf(J)[p]
  <2>1. TableOf(J)[p] = [i \in Indices |-> IF i = d \/ i \in Nums(H, p) THEN Hid(p, i) ELSE Null]
    BY <1>2, <1>3
  <2>2. CASE d \in Indices
    BY <1>3, <2>1, <2>2
  <2>3. CASE d \notin Indices
    BY <1>3, <2>1, <2>3
  <2> QED BY <2>2, <2>3
<1>5. ASSUME NEW q \in Processes \ {p}
      PROVE  TableOf(H)[q] = TableOf(J)[q]
  BY <1>1, <1>3
<1> HIDE DEF row
<1>6. [TableOf(H) EXCEPT ![p] = row] = TableOf(J)
  BY <1>3, <1>4, <1>5
<1> QED BY <1>6 DEF row

LEMMA TableRemoved ==
    ASSUME NEW H, NEW J, NEW p \in Processes, NEW d \in Nat,
           DOMAIN J = DOMAIN H \ {Hid(p, d)}
    PROVE  [TableOf(H) EXCEPT ![p] = IF d \in Indices THEN [@ EXCEPT ![d] = Null] ELSE @]
             = TableOf(J)
<1>1. /\ Nums(J, p) = Nums(H, p) \ {d}
      /\ \A q \in Processes \ {p} : Nums(J, q) = Nums(H, q)
  BY NumsRemoved
<1> QED BY <1>1 DEF TableOf

(* What makes a state a sound one. *)
LEMMA SoundFrom ==
    ASSUME NEW H, NEW N \in [Nodes -> NodeRecords], Shaped(H), Linked(H),
           NEW G, NEW f, G = [handle |-> H, table |-> TableOf(H), node |-> N, fault |-> f], f = FALSE
    PROVE  Sound(G)
<1>1. H \in [DOMAIN H -> HandleRecords] /\ DOMAIN H \in SUBSET Ids
  BY DEF Shaped, HandleRecords
<1>2. TableOf(H) \in [Processes -> [Indices -> Links]]
  <2>1. \A p \in Processes, i \in Indices : Hid(p, i) \in Links
    BY IdFacts, FileTableAssumption DEF Indices, Links
  <2>2. Null \in Links
    BY DEF Links
  <2> QED BY <2>1, <2>2 DEF TableOf
<1>3. H \in UNION {[X -> HandleRecords] : X \in SUBSET Ids}
  BY <1>1
<1>4. f \in BOOLEAN
  OBVIOUS
<1>5. G \in FileTables
  BY <1>2, <1>3, <1>4 DEF FileTables
<1>6. G.handle = H /\ G.table = TableOf(H) /\ G.fault = f
  OBVIOUS
<1> QED BY <1>5, <1>6 DEF Sound

LEMMA SoundFacts ==
    ASSUME NEW F, Sound(F)
    PROVE  /\ Shaped(F.handle) /\ Linked(F.handle) /\ F.fault = FALSE
           /\ F.table = TableOf(F.handle)
           /\ F.node \in [Nodes -> NodeRecords]
           /\ F = [handle |-> F.handle, table |-> F.table, node |-> F.node, fault |-> F.fault]
<1>1. F \in FileTables /\ F.fault = FALSE
  BY DEF Sound
<1>2. /\ F.node \in [Nodes -> NodeRecords]
      /\ F = [handle |-> F.handle, table |-> F.table, node |-> F.node, fault |-> F.fault]
  BY <1>1 DEF FileTables
<1> QED BY <1>1, <1>2 DEF Sound

LEMMA NextFacts ==
    ASSUME NEW H, NEW p \in Processes, NEW d \in Nums(H, p), NEW x,
           IsNext(Nums(H, p), p, d, x) \/ IsPrev(Nums(H, p), p, d, x)
    PROVE  x # Hid(p, d) /\ (x # Null => x \in DOMAIN H /\ \E e \in Nums(H, p) : x = Hid(p, e))
<1>1. ASSUME NEW e \in Nums(H, p), x = Hid(p, e), e < d \/ d < e
      PROVE  x # Hid(p, d) /\ x \in DOMAIN H
  <2>1. d \in Nat /\ e \in Nat /\ e # d /\ Hid(p, e) \in DOMAIN H
    BY <1>1 DEF Nums
  <2> QED BY <1>1, <2>1, SameHid
<1>2. d \in Nat
  BY DEF Nums
<1> QED BY <1>1, <1>2, IdFacts DEF IsNext, IsPrev

(* The table with h linked behind a and before b. *)
LEMMA LinkIs ==
    ASSUME NEW F, NEW H, NEW T, NEW N, NEW f, NEW h, NEW a, NEW b, NEW K,
           F = [handle |-> H, table |-> T, node |-> N, fault |-> f],
           \A x \in DOMAIN H : H[x] \in HandleRecords /\ ~ (x = a /\ x = b),
           h # a, h # b,
           K = [x \in DOMAIN H |->
                  IF x = h THEN [is |-> H[x].is, pre |-> a, nxt |-> b]
                  ELSE IF x = a THEN [H[x] EXCEPT !.nxt = h]
                  ELSE IF x = b THEN [H[x] EXCEPT !.pre = h]
                  ELSE H[x]]
    PROVE  Link(F, h, a, b) = [handle |-> K, table |-> T, node |-> N, fault |-> f]
<1> DEFINE M(x) == [F.handle[x] EXCEPT !.pre = a, !.nxt = b]
           R(x) == [is |-> H[x].is, pre |-> a, nxt |-> b]
           A(x) == [F.handle[x] EXCEPT !.nxt = h]
           B(x) == [F.handle[x] EXCEPT !.pre = h]
           L == [x \in DOMAIN F.handle |-> CASE x = h -> M(x) [] x = a -> A(x)
                                             [] x = b -> B(x) [] OTHER -> F.handle[x]]
<1>0. Link(F, h, a, b) = [F EXCEPT !.handle = L]
  BY DEF Link
<1>1. [x \in DOMAIN H |-> CASE x = h -> M(x) [] x = a -> A(x) [] x = b -> B(x) [] OTHER -> H[x]] = K
  <2>1. ASSUME NEW x \in DOMAIN H
        PROVE  M(x) = R(x)
    <3>1. PICK r : r = M(x)
      OBVIOUS
    <3>2. PICK g \in HandleRecords : g = H[x]
      OBVIOUS
    <3>3. r = [g EXCEPT !.pre = a, !.nxt = b]
      BY <3>1, <3>2
    <3>4. r = [is |-> g.is, pre |-> a, nxt |-> b]
      BY <3>3 DEF HandleRecords
    <3> QED BY <3>1, <3>2, <3>4
  <2>2. K = [x \in DOMAIN H |-> IF x = h THEN R(x) ELSE IF x = a THEN A(x)
                                ELSE IF x = b THEN B(x) ELSE H[x]]
    OBVIOUS
  <2> HIDE DEF M, R, A, B
  <2>3. ASSUME NEW x \in DOMAIN H
        PROVE  (CASE x = h -> M(x) [] x = a -> A(x) [] x = b -> B(x) [] OTHER -> H[x])
                 = IF x = h THEN R(x) ELSE IF x = a THEN A(x) ELSE IF x = b THEN B(x) ELSE H[x]
    <3>1. ~ (x = a /\ x = b)
      OBVIOUS
    <3> QED BY <2>1, <3>1
  <2> QED BY <2>2, <2>3
<1>2. Link(F, h, a, b) = [F EXCEPT !.handle = K]
  <2>1. F.handle = H
    OBVIOUS
  <2> HIDE DEF M, A, B
  <2>2. L = K
    BY <1>1, <2>1
  <2> HIDE DEF L
  <2> QED BY <1>0, <2>2
<1>3. [F EXCEPT !.handle = K] = [handle |-> K, table |-> T, node |-> N, fault |-> f]
  OBVIOUS
<1> QED BY <1>2, <1>3

(* A new handle between its neighbours. *)
LEMMA LinkedIn ==
    ASSUME NEW F, Sound(F), NEW p \in Processes, NEW d \in Nat \ Nums(F.handle, p),
           NEW w \in Handles, NEW a, NEW b,
           IsPrev(Nums(F.handle, p), p, d, a), IsNext(Nums(F.handle, p), p, d, b)
    PROVE  Bound(F, Link(Placed(F, p, d, w), Hid(p, d), a, b), p, d, w)
<1> PICK H, U, N, f : H = F.handle /\ U = F.table /\ N = F.node /\ f = F.fault
  OBVIOUS
<1> DEFINE S == Nums(H, p)
           h == Hid(p, d)
           G == Link(Placed(F, p, d, w), h, a, b)
           D == DOMAIN H \union {h}
<1>1. /\ Shaped(H) /\ Linked(H) /\ U = TableOf(H) /\ N \in [Nodes -> NodeRecords]
      /\ f = FALSE /\ F = [handle |-> H, table |-> U, node |-> N, fault |-> f]
  BY SoundFacts
<1>2. h \in Ids /\ h # Null /\ h \notin DOMAIN H /\ d \in Nat /\ S \subseteq Nat
  BY IdFacts DEF Nums
<1>3. /\ a # h /\ (a = Null \/ \E e \in S : a = Hid(p, e) /\ e < d)
      /\ b # h /\ (b = Null \/ \E e \in S : b = Hid(p, e) /\ d < e)
  <2>1. \A e \in S : Hid(p, e) # h
    BY <1>2 DEF Nums
  <2>2. a = Null \/ \E e \in S : a = Hid(p, e) /\ e < d
    BY DEF IsPrev
  <2>3. b = Null \/ \E e \in S : b = Hid(p, e) /\ d < e
    BY DEF IsNext
  <2> HIDE DEF S, h
  <2> QED BY <1>2, <2>1, <2>2, <2>3
<1>4. \A e \in S : Hid(p, e) # Null /\ ~ (Hid(p, e) = a /\ Hid(p, e) = b)
  <2> SUFFICES ASSUME NEW e \in S
               PROVE  Hid(p, e) # Null /\ ~ (Hid(p, e) = a /\ Hid(p, e) = b)
    OBVIOUS
  <2>1. e \in Nat /\ Hid(p, e) # Null
    BY <1>2, IdFacts
  <2>2. ASSUME Hid(p, e) = a
        PROVE  e < d
    BY <1>2, <1>3, <2>1, <2>2, SameHid
  <2>3. ASSUME Hid(p, e) = b
        PROVE  d < e
    BY <1>2, <1>3, <2>1, <2>3, SameHid
  <2> QED BY <1>2, <2>1, <2>2, <2>3
<1>5. \A x \in DOMAIN H : x # Null
  BY <1>1, IdIs DEF Shaped
<1>6. NewId(F, p, d) = h
  BY <1>1, NewName
<1> HIDE DEF h
<1> DEFINE K == [x \in D |-> IF x = h THEN [is |-> w, pre |-> Null, nxt |-> Null] ELSE H[x]]
           M == [x \in D |-> IF x = h THEN [is |-> K[x].is, pre |-> a, nxt |-> b]
                              ELSE IF x = a THEN [K[x] EXCEPT !.nxt = h]
                              ELSE IF x = b THEN [K[x] EXCEPT !.pre = h]
                              ELSE K[x]]
<1>7. /\ DOMAIN K = D /\ K[h] = [is |-> w, pre |-> Null, nxt |-> Null]
      /\ \A x \in DOMAIN H : x # h /\ K[x] = H[x]
      /\ \A x \in D : K[x] \in HandleRecords
  <2>1. /\ DOMAIN K = D /\ K[h] = [is |-> w, pre |-> Null, nxt |-> Null]
        /\ \A x \in DOMAIN H : x # h /\ K[x] = H[x]
    BY <1>2
  <2>2. \A x \in DOMAIN H : H[x] \in HandleRecords
    BY <1>1 DEF Shaped, HandleRecords
  <2>3. K[h] \in HandleRecords
    BY <2>1 DEF HandleRecords, Links
  <2> HIDE DEF K
  <2> QED BY <2>1, <2>2, <2>3
<1>8. G = [handle |-> M, table |-> TableOf(M), node |-> N, fault |-> f]
  <2>1. DOMAIN M = DOMAIN H \union {h}
    OBVIOUS
  <2>2. PICK row : row = IF d \in Indices THEN [U[p] EXCEPT ![d] = h] ELSE U[p]
    OBVIOUS
  <2>3. [U EXCEPT ![p] = row] = TableOf(M)
    <3> HIDE DEF M
    <3> QED BY <1>1, <1>2, <2>1, <2>2, TableAdded DEF h
  <2>4. PICK E : E = Placed(F, p, d, w)
    OBVIOUS
  <2>5. E = [handle |-> K, table |-> [U EXCEPT ![p] = row], node |-> N, fault |-> f]
    <3>1. PICK k : k = K
      OBVIOUS
    <3>2. k = [x \in DOMAIN H \union {h} |->
                 IF x = h THEN [is |-> w, pre |-> Null, nxt |-> Null] ELSE H[x]]
      BY <3>1
    <3>3. E = [handle |-> k, table |-> [U EXCEPT ![p] = row], node |-> N, fault |-> f]
      <4>1. F = [handle |-> H, table |-> U, node |-> N, fault |-> f]
        BY <1>1
      <4> HIDE DEF S, D, K, M, G
      <4>2. Placed(F, p, d, w) = [F EXCEPT !.handle = k, !.table[p] = row]
        BY ONLY <1>6, <2>2, <3>2, <4>1 DEF Placed
      <4>3. PICK e : e = [F EXCEPT !.handle = k, !.table[p] = row]
        OBVIOUS
      <4>4. e = [handle |-> k, table |-> [U EXCEPT ![p] = row], node |-> N, fault |-> f]
        BY ONLY <4>1, <4>3
      <4> QED BY <2>4, <4>2, <4>3, <4>4
    <3> QED BY <3>1, <3>3
  <2> HIDE DEF K
  <2>6. PICK m : m = M
    OBVIOUS
  <2>7. Link(E, h, a, b) = [handle |-> m, table |-> [U EXCEPT ![p] = row], node |-> N, fault |-> f]
    <3>1. h # a /\ h # b
      BY <1>3
    <3>2. \A x \in DOMAIN K : K[x] \in HandleRecords /\ ~ (x = a /\ x = b)
      BY <1>3, <1>4, <1>5, <1>7
    <3> QED BY ONLY <1>7, <2>5, <2>6, <3>1, <3>2, LinkIs
  <2> HIDE DEF M
  <2> QED BY <2>3, <2>4, <2>6, <2>7
<1> HIDE DEF K
<1>9. /\ DOMAIN M = D /\ M[h] = [is |-> w, pre |-> a, nxt |-> b]
      /\ \A x \in DOMAIN H :
            /\ M[x].is = H[x].is /\ M[x] \in HandleRecords
            /\ M[x].nxt = IF x = a THEN h ELSE H[x].nxt
            /\ x # a => M[x].pre = IF x = b THEN h ELSE H[x].pre
            /\ x # b => M[x].pre = H[x].pre
  <2>1. \A x \in DOMAIN H : H[x] \in HandleRecords
    BY <1>1 DEF Shaped, HandleRecords
  <2>2. h \in Links
    BY <1>2 DEF Links
  <2>3. M[h] = [is |-> w, pre |-> a, nxt |-> b]
    BY <1>7
  <2>4. ASSUME NEW x \in DOMAIN H
        PROVE  /\ M[x].is = H[x].is /\ M[x] \in HandleRecords
               /\ M[x].nxt = IF x = a THEN h ELSE H[x].nxt
               /\ x # a => M[x].pre = IF x = b THEN h ELSE H[x].pre
               /\ x # b => M[x].pre = H[x].pre
    <3>1. x # h /\ K[x] = H[x] /\ H[x] \in HandleRecords /\ x \in D
      BY <1>7, <2>1
    <3>2. M[x] = IF x = a THEN [H[x] EXCEPT !.nxt = h]
                 ELSE IF x = b THEN [H[x] EXCEPT !.pre = h] ELSE H[x]
      BY <3>1
    <3> HIDE DEF M
    <3> QED BY <2>2, <3>1, <3>2 DEF HandleRecords
  <2> QED BY <2>3, <2>4
<1> HIDE DEF M
<1>10. Shaped(M)
  <2>1. IsFiniteSet(D) /\ D \subseteq Ids
    BY <1>1, <1>2, FS_AddElement DEF Shaped
  <2>2. a \in Links /\ b \in Links
    BY <1>2, <1>3, IdFacts DEF Links
  <2>3. M[h] \in HandleRecords
    BY <1>9, <2>2 DEF HandleRecords
  <2>4. \A x \in D : M[x] \in HandleRecords
    BY <1>2, <1>9, <2>3
  <2>5. M = [x \in D |-> M[x]]
    BY DEF M
  <2> QED BY <1>9, <2>1, <2>4, <2>5 DEF Shaped, HandleRecords
<1>11. Nums(M, p) = S \union {d} /\ \A q \in Processes \ {p} : Nums(M, q) = Nums(H, q)
  BY <1>2, <1>9, NumsAdded DEF h
<1>12. Linked(M)
  <2> SUFFICES ASSUME NEW q \in Processes, NEW e \in Nums(M, q)
               PROVE  /\ IsNext(Nums(M, q), q, e, M[Hid(q, e)].nxt)
                      /\ IsPrev(Nums(M, q), q, e, M[Hid(q, e)].pre)
    BY DEF Linked
  <2>1. CASE q # p
    <3>1. Nums(M, q) = Nums(H, q) /\ e \in Nat /\ Hid(q, e) \in DOMAIN H
      BY <1>11, <2>1 DEF Nums
    <3>2. Hid(q, e) # h /\ \A g \in S : Hid(p, g) # Hid(q, e)
      BY <1>2, <2>1, <3>1, IdFacts DEF h
    <3>3. Hid(q, e) # a /\ Hid(q, e) # b
      BY <1>3, <1>5, <3>1, <3>2
    <3>4. M[Hid(q, e)].nxt = H[Hid(q, e)].nxt /\ M[Hid(q, e)].pre = H[Hid(q, e)].pre
      BY <1>9, <3>1, <3>2, <3>3
    <3> QED BY <1>1, <3>1, <3>4 DEF Linked
  <2>2. CASE q = p /\ e = d
    <3>1. IsNext(S \union {d}, p, d, b) /\ IsPrev(S \union {d}, p, d, a)
      BY <1>2, NextOfNew, PrevOfNew
    <3>2. M[Hid(q, e)].nxt = b /\ M[Hid(q, e)].pre = a
      BY <1>9, <2>2 DEF h
    <3>3. Nums(M, q) = S \union {d}
      BY <1>11, <2>2
    <3> HIDE DEF S
    <3> QED BY <2>2, <3>1, <3>2, <3>3
  <2>3. CASE q = p /\ e # d
    <3> DEFINE x == Hid(p, e)
    <3>1. e \in S /\ x \in DOMAIN H /\ x # h /\ e \in Nat
      BY <1>2, <1>11, <2>3 DEF Nums
    <3>2. IsNext(S, p, e, H[x].nxt) /\ IsPrev(S, p, e, H[x].pre)
      BY <1>1, <3>1 DEF Linked
    <3>3. d \in Nat \ S /\ S \in SUBSET Nat
      BY <1>2
    <3>4. IsNext(S \union {d}, p, e, M[x].nxt)
      <4>1. CASE x = a
        <5>1. IsNext(S \union {d}, p, e, h)
          BY <3>1, <3>3, <4>1, NewIsNext DEF h
        <5> QED BY <1>9, <3>1, <4>1, <5>1
      <4>2. CASE x # a
        <5>1. IsNext(S \union {d}, p, e, H[x].nxt)
          BY <3>1, <3>2, <3>3, <4>2, NextKept
        <5> QED BY <1>9, <3>1, <4>2, <5>1
      <4> QED BY <4>1, <4>2
    <3>5. IsPrev(S \union {d}, p, e, M[x].pre)
      <4>1. CASE x = b
        <5>1. IsPrev(S \union {d}, p, e, h)
          BY <3>1, <3>3, <4>1, NewIsPrev DEF h
        <5>2. x # a
          BY <1>4, <3>1, <4>1
        <5> QED BY <1>9, <3>1, <4>1, <5>1, <5>2
      <4>2. CASE x # b
        <5>1. IsPrev(S \union {d}, p, e, H[x].pre)
          BY <3>1, <3>2, <3>3, <4>2, PrevKept
        <5> QED BY <1>9, <3>1, <4>2, <5>1
      <4> QED BY <4>1, <4>2
    <3> QED BY <1>11, <2>3, <3>4, <3>5
  <2> QED BY <2>1, <2>2, <2>3
<1>13. Sound(G)
  BY <1>1, <1>8, <1>10, <1>12, SoundFrom
<1>14. Added(H, M, h, w)
  BY <1>2, <1>9 DEF Added
<1> QED BY <1>8, <1>13, <1>14 DEF Bound, h

(* The handles without one of them. *)
LEMMA TakenOff ==
    ASSUME NEW F, Sound(F), NEW p \in Processes, NEW d \in Nums(F.handle, p)
    PROVE  LET K == Unlinked(F, Hid(p, d))
           IN  Shaped(K) /\ Linked(K) /\ Removed(F.handle, K, Hid(p, d))
<1> PICK H : H = F.handle
  OBVIOUS
<1> DEFINE S == Nums(H, p)
           h == Hid(p, d)
           a == H[h].pre
           b == H[h].nxt
           K == Unlinked(F, h)
           D == DOMAIN H \ {h}
<1>1. Shaped(H) /\ Linked(H) /\ S \in SUBSET Nat
  BY SoundFacts DEF Nums
<1>2. d \in S /\ h \in Ids /\ h # Null /\ h \in DOMAIN H /\ d \in Nat
  BY IdFacts DEF Nums
<1>3. IsPrev(S, p, d, a) /\ IsNext(S, p, d, b)
  BY <1>1, <1>2 DEF Linked
<1>4. /\ a \in Links /\ b \in Links
      /\ a = Null \/ \E e \in S : a = Hid(p, e) /\ e < d
      /\ b = Null \/ \E e \in S : b = Hid(p, e) /\ d < e
  <2>1. a \in Links /\ b \in Links
    BY <1>1, <1>2 DEF Shaped
  <2> HIDE DEF a, b, S, h
  <2> QED BY <1>3, <2>1 DEF IsPrev, IsNext
<1>5. \A x \in DOMAIN H : x # Null /\ H[x] \in HandleRecords
  BY <1>1, IdIs DEF Shaped, HandleRecords
<1>6. K = [x \in D |-> IF x = a THEN [H[x] EXCEPT !.nxt = b]
                       ELSE IF x = b THEN [H[x] EXCEPT !.pre = a] ELSE H[x]]
  BY DEF Unlinked
<1> HIDE DEF a, b, K, S
<1>7. /\ DOMAIN K = D
      /\ \A x \in D :
            /\ K[x].is = H[x].is /\ K[x] \in HandleRecords
            /\ K[x].nxt = IF x = a THEN b ELSE H[x].nxt
            /\ x # a => K[x].pre = IF x = b THEN a ELSE H[x].pre
            /\ x # b => K[x].pre = H[x].pre
  <2>1. ASSUME NEW x \in D
        PROVE  K[x] = IF x = a THEN [H[x] EXCEPT !.nxt = b]
                      ELSE IF x = b THEN [H[x] EXCEPT !.pre = a] ELSE H[x]
    BY <1>6
  <2> SUFFICES ASSUME NEW x \in D
               PROVE  /\ K[x].is = H[x].is /\ K[x] \in HandleRecords
                      /\ K[x].nxt = IF x = a THEN b ELSE H[x].nxt
                      /\ x # a => K[x].pre = IF x = b THEN a ELSE H[x].pre
                      /\ x # b => K[x].pre = H[x].pre
    BY <1>6
  <2>2. H[x] \in HandleRecords
    BY <1>5
  <2> QED BY <1>4, <2>1, <2>2 DEF HandleRecords
<1>8. Shaped(K)
  <2>1. IsFiniteSet(D) /\ D \subseteq Ids
    BY <1>1, FS_RemoveElement DEF Shaped
  <2>2. K \in [D -> HandleRecords]
    <3>1. K = [x \in D |-> K[x]]
      BY <1>6
    <3> QED BY <1>7, <3>1
  <2> QED BY <1>7, <2>1, <2>2 DEF Shaped, HandleRecords
<1>9. Nums(K, p) = S \ {d} /\ \A q \in Processes \ {p} : Nums(K, q) = Nums(H, q)
  BY <1>2, <1>7, NumsRemoved DEF S
<1>10. Linked(K)
  <2> SUFFICES ASSUME NEW q \in Processes, NEW e \in Nums(K, q)
               PROVE  /\ IsNext(Nums(K, q), q, e, K[Hid(q, e)].nxt)
                      /\ IsPrev(Nums(K, q), q, e, K[Hid(q, e)].pre)
    BY DEF Linked
  <2> DEFINE x == Hid(q, e)
  <2>1. e \in Nat /\ x \in D /\ x # Null
    BY <1>5, <1>7 DEF Nums
  <2>2. CASE q # p
    <3>1. Nums(K, q) = Nums(H, q) /\ e \in Nums(H, q)
      BY <1>9, <2>2
    <3>2. \A g \in S : Hid(p, g) # x
      BY <1>1, <2>1, <2>2, IdFacts
    <3>3. x # a /\ x # b
      BY <1>4, <2>1, <3>2
    <3>4. K[x].nxt = H[x].nxt /\ K[x].pre = H[x].pre
      BY <1>7, <2>1, <3>3
    <3> QED BY <1>1, <3>1, <3>4 DEF Linked
  <2>3. CASE q = p
    <3>1. e \in S \ {d} /\ Nums(K, q) = S \ {d}
      BY <1>9, <2>3
    <3>2. IsNext(S, p, e, H[x].nxt) /\ IsPrev(S, p, e, H[x].pre)
      BY <1>1, <2>3, <3>1 DEF Linked, S
    <3>3. IsNext(S \ {d}, p, e, K[x].nxt)
      <4>1. CASE x = a
        <5>1. IsNext(S \ {d}, p, e, b)
          <6>1. IsPrev(S, p, d, Hid(p, e))
            BY <1>3, <2>3, <4>1
          <6> QED BY <1>1, <1>2, <1>3, <3>1, <6>1, NextOver
        <5> QED BY <1>7, <2>1, <4>1, <5>1
      <4>2. CASE x # a
        <5>1. a # Hid(p, e)
          BY <2>3, <4>2
        <5>2. IsNext(S \ {d}, p, e, H[x].nxt)
          BY <1>1, <1>2, <1>3, <3>1, <3>2, <5>1, NextStays
        <5> QED BY <1>7, <2>1, <4>2, <5>2
      <4> QED BY <4>1, <4>2
    <3>4. IsPrev(S \ {d}, p, e, K[x].pre)
      <4>1. CASE x = b
        <5>1. IsPrev(S \ {d}, p, e, a)
          <6>1. IsNext(S, p, d, Hid(p, e))
            BY <1>3, <2>3, <4>1
          <6> QED BY <1>1, <1>2, <1>3, <3>1, <6>1, PrevOver
        <5>2. x # a
          <6>1. ASSUME NEW i \in S, NEW j \in S, x = Hid(p, i), x = Hid(p, j), i < d, d < j
                PROVE  FALSE
            <7>1. i = j
              BY <1>1, <6>1, SameHid
            <7>2. i \in Nat
              BY <1>1
            <7> QED BY <1>2, <6>1, <7>1, <7>2
          <6> QED BY <1>4, <2>1, <4>1, <6>1
        <5> QED BY <1>7, <2>1, <4>1, <5>1, <5>2
      <4>2. CASE x # b
        <5>1. b # Hid(p, e)
          BY <2>3, <4>2
        <5>2. IsPrev(S \ {d}, p, e, H[x].pre)
          BY <1>1, <1>2, <1>3, <3>1, <3>2, <5>1, PrevStays
        <5> QED BY <1>7, <2>1, <4>2, <5>2
      <4> QED BY <4>1, <4>2
    <3> QED BY <2>3, <3>1, <3>3, <3>4
  <2> QED BY <2>2, <2>3
<1>11. Removed(H, K, h)
  BY <1>2, <1>7 DEF Removed
<1> QED BY <1>8, <1>10, <1>11 DEF K

-----------------------------------------------------------------------------
(* The counts of nodes.                                                    *)

Namers(H, n) == {h \in DOMAIN H : H[h].is.file = n}
Writers(H, n) == {h \in Namers(H, n) : H[h].is.writer}

\* Only a pipe has writers.
Files == {w \in Handles : w.writer => w.file \in PipeNodes}

\* What has been counted for handles that are not in a table yet.
Dues == {P \in [Nodes -> [refs : Nat, writers : Nat]] :
            \A n \in Nodes : P[n].writers <= P[n].refs}
NoDues == [n \in Nodes |-> [refs |-> 0, writers |-> 0]]
Owe(P, w) ==
    [n \in Nodes |->
       IF n = w.file
       THEN [refs |-> P[n].refs + 1,
             writers |-> IF w.writer THEN P[n].writers + 1 ELSE P[n].writers]
       ELSE P[n]]

\* The counts of the nodes N are of the handles H and the dues P.
Counts(H, N, P) ==
    \A n \in Nodes :
        /\ N[n].refs = Cardinality(Namers(H, n)) + P[n].refs
        /\ N[n].writers = Cardinality(Writers(H, n)) + P[n].writers

\* The record r of node n is as it should be, named or not.
Kept(r, n) ==
    /\ r.exists /\ n \in PipeNodes => r.autoClose
    /\ ~ r.exists => r = NoNode
    /\ n = StdIO => r.exists /\ ~ r.autoClose

Lives(r, n) == Kept(r, n) /\ (r.exists /\ r.autoClose => r.refs # 0)

Books(F, P) ==
    /\ Counts(F.handle, F.node, P)
    /\ \A n \in Nodes : Lives(F.node[n], n)
    /\ \A h \in DOMAIN F.handle : F.handle[h].is \in Files

LEMMA NamersFinite ==
    ASSUME NEW H, IsFiniteSet(DOMAIN H), NEW n
    PROVE  /\ IsFiniteSet(Namers(H, n)) /\ IsFiniteSet(Writers(H, n))
           /\ Cardinality(Namers(H, n)) \in Nat /\ Cardinality(Writers(H, n)) \in Nat
           /\ Cardinality(Writers(H, n)) <= Cardinality(Namers(H, n))
           /\ Cardinality(Namers(H, n)) = 0 <=> Namers(H, n) = {}
<1>1. IsFiniteSet(Namers(H, n))
  BY FS_Subset DEF Namers
<1>2. Writers(H, n) \in SUBSET Namers(H, n)
  BY DEF Writers
<1>3. IsFiniteSet(Writers(H, n)) /\ Cardinality(Writers(H, n)) <= Cardinality(Namers(H, n))
  BY <1>1, <1>2, FS_Subset
<1> QED BY <1>1, <1>3, FS_CardinalityType, FS_EmptySet

LEMMA CountAdded ==
    ASSUME NEW H, NEW J, NEW h, NEW w, IsFiniteSet(DOMAIN H), Added(H, J, h, w), NEW n
    PROVE  /\ Cardinality(Namers(J, n)) = Cardinality(Namers(H, n)) + IF n = w.file THEN 1 ELSE 0
           /\ Cardinality(Writers(J, n)) =
                Cardinality(Writers(H, n)) + IF n = w.file /\ w.writer THEN 1 ELSE 0
<1>1. h \notin Namers(H, n) /\ h \notin Writers(H, n)
  BY DEF Added, Namers, Writers
<1>2. Namers(J, n) = IF n = w.file THEN Namers(H, n) \union {h} ELSE Namers(H, n)
  BY DEF Added, Namers
<1>3. Writers(J, n) = IF n = w.file /\ w.writer THEN Writers(H, n) \union {h} ELSE Writers(H, n)
  BY DEF Added, Namers, Writers
<1>4. /\ IsFiniteSet(Namers(H, n)) /\ IsFiniteSet(Writers(H, n))
      /\ Cardinality(Namers(H, n)) \in Nat /\ Cardinality(Writers(H, n)) \in Nat
  BY NamersFinite
<1>5. /\ Cardinality(Namers(H, n) \union {h}) = Cardinality(Namers(H, n)) + 1
      /\ Cardinality(Writers(H, n) \union {h}) = Cardinality(Writers(H, n)) + 1
  BY <1>1, <1>4, FS_AddElement
<1> QED BY <1>2, <1>3, <1>4, <1>5

LEMMA CountRemoved ==
    ASSUME NEW H, NEW J, NEW h, IsFiniteSet(DOMAIN H), Removed(H, J, h), NEW n
    PROVE  LET w == H[h].is
           IN  /\ Cardinality(Namers(J, n)) = Cardinality(Namers(H, n)) - IF n = w.file THEN 1 ELSE 0
               /\ Cardinality(Writers(J, n)) =
                    Cardinality(Writers(H, n)) - IF n = w.file /\ w.writer THEN 1 ELSE 0
<1> DEFINE w == H[h].is
<1>1. /\ n = w.file => h \in Namers(H, n)
      /\ n = w.file /\ w.writer => h \in Writers(H, n)
  BY DEF Removed, Namers, Writers
<1>2. Namers(J, n) = IF n = w.file THEN Namers(H, n) \ {h} ELSE Namers(H, n)
  BY DEF Removed, Namers
<1>3. Writers(J, n) = IF n = w.file /\ w.writer THEN Writers(H, n) \ {h} ELSE Writers(H, n)
  BY DEF Removed, Namers, Writers
<1>4. /\ IsFiniteSet(Namers(H, n)) /\ IsFiniteSet(Writers(H, n))
      /\ Cardinality(Namers(H, n)) \in Nat /\ Cardinality(Writers(H, n)) \in Nat
  BY NamersFinite
<1> HIDE DEF w
<1>5. /\ n = w.file => Cardinality(Namers(H, n) \ {h}) = Cardinality(Namers(H, n)) - 1
      /\ n = w.file /\ w.writer => Cardinality(Writers(H, n) \ {h}) = Cardinality(Writers(H, n)) - 1
  BY <1>1, <1>4, FS_RemoveElement
<1> QED BY <1>2, <1>3, <1>4, <1>5 DEF w

\* The record of a node with one more handle on w, and with one less.
Raised(r, w) ==
    [exists |-> r.exists, refs |-> r.refs + 1,
     writers |-> IF w.writer THEN r.writers + 1 ELSE r.writers,
     autoClose |-> r.autoClose]
Lowered(r, w) ==
    [exists |-> r.exists, refs |-> r.refs - 1,
     writers |-> IF w.writer THEN r.writers - 1 ELSE r.writers,
     autoClose |-> r.autoClose]
Dropped(r, w) == IF r.refs - 1 <= 0 /\ r.autoClose THEN NoNode ELSE Lowered(r, w)

LEMMA RefIs ==
    ASSUME NEW F, NEW H, NEW T, NEW N \in [Nodes -> NodeRecords], NEW f, NEW w \in Handles,
           F = [handle |-> H, table |-> T, node |-> N, fault |-> f]
    PROVE  Ref(F, w) = [handle |-> H, table |-> T,
                        node |-> [N EXCEPT ![w.file] = Raised(@, w)], fault |-> f]
<1> PICK n, b : n = w.file /\ b = w.writer
  OBVIOUS
<1>1. n \in Nodes
  BY DEF Handles
<1>2. PICK r \in NodeRecords : r = N[n]
  BY <1>1
<1>3. PICK x : x = [r EXCEPT !.refs = @ + 1, !.writers = IF b THEN @ + 1 ELSE @]
  OBVIOUS
<1>4. x = Raised(r, w)
  BY <1>3 DEF Raised, NodeRecords
<1>5. Ref(F, w) = [F EXCEPT !.node[n] = x]
  BY <1>2, <1>3 DEF Ref
<1>6. PICK G : G = [F EXCEPT !.node[n] = x]
  OBVIOUS
<1>7. G = [handle |-> H, table |-> T, node |-> [N EXCEPT ![n] = x], fault |-> f]
  BY ONLY <1>6, F = [handle |-> H, table |-> T, node |-> N, fault |-> f]
<1> QED BY <1>2, <1>4, <1>5, <1>6, <1>7

LEMMA UnrefIs ==
    ASSUME NEW F, NEW H, NEW T, NEW N \in [Nodes -> NodeRecords], NEW f, NEW w \in Handles,
           F = [handle |-> H, table |-> T, node |-> N, fault |-> f]
    PROVE  Unref(F, w) = [handle |-> H, table |-> T,
                          node |-> [N EXCEPT ![w.file] = Dropped(@, w)], fault |-> f]
<1> PICK n, b : n = w.file /\ b = w.writer
  OBVIOUS
<1>1. n \in Nodes
  BY DEF Handles
<1>2. PICK r \in NodeRecords : r = N[n]
  BY <1>1
<1>3. PICK x : x = [r EXCEPT !.refs = @ - 1, !.writers = IF b THEN @ - 1 ELSE @]
  OBVIOUS
<1>4. x = Lowered(r, w)
  BY <1>3 DEF Lowered, NodeRecords
<1>5. Unref(F, w) = [F EXCEPT !.node[n] = IF x.refs <= 0 /\ x.autoClose THEN NoNode ELSE x]
  BY <1>2, <1>3 DEF Unref
<1>6. PICK y : y = IF x.refs <= 0 /\ x.autoClose THEN NoNode ELSE x
  OBVIOUS
<1>7. y = Dropped(r, w)
  BY <1>4, <1>6 DEF Dropped, Lowered
<1>8. PICK G : G = [F EXCEPT !.node[n] = y]
  OBVIOUS
<1>9. G = [handle |-> H, table |-> T, node |-> [N EXCEPT ![n] = y], fault |-> f]
  BY ONLY <1>8, F = [handle |-> H, table |-> T, node |-> N, fault |-> f]
<1> QED BY <1>2, <1>5, <1>6, <1>7, <1>8, <1>9

LEMMA DuesOwed ==
    ASSUME NEW P \in Dues, NEW w \in Handles
    PROVE  /\ Owe(P, w) \in Dues
           /\ \A n \in Nodes :
                /\ Owe(P, w)[n].refs = P[n].refs + IF n = w.file THEN 1 ELSE 0
                /\ Owe(P, w)[n].writers = P[n].writers + IF n = w.file /\ w.writer THEN 1 ELSE 0
<1>1. ASSUME NEW n \in Nodes
      PROVE  /\ P[n].refs \in Nat /\ P[n].writers \in Nat /\ P[n].writers <= P[n].refs
             /\ P[n] \in [refs : Nat, writers : Nat]
  BY DEF Dues
<1>2. ASSUME NEW n \in Nodes
      PROVE  /\ Owe(P, w)[n].refs = P[n].refs + IF n = w.file THEN 1 ELSE 0
             /\ Owe(P, w)[n].writers = P[n].writers + IF n = w.file /\ w.writer THEN 1 ELSE 0
             /\ Owe(P, w)[n] \in [refs : Nat, writers : Nat]
             /\ Owe(P, w)[n].writers <= Owe(P, w)[n].refs
  <2> DEFINE o == Owe(P, w)[n]
  <2>1. CASE n = w.file
    <3>1. o = [refs |-> P[n].refs + 1,
               writers |-> IF w.writer THEN P[n].writers + 1 ELSE P[n].writers]
      BY <2>1 DEF Owe
    <3> HIDE DEF o
    <3> QED BY <1>1, <2>1, <3>1 DEF o
  <2>2. CASE n # w.file
    <3>1. o = P[n]
      BY <2>2 DEF Owe
    <3> HIDE DEF o
    <3> QED BY <1>1, <2>2, <3>1 DEF o
  <2> QED BY <2>1, <2>2
<1>3. Owe(P, w) \in [Nodes -> [refs : Nat, writers : Nat]]
  <2>1. Owe(P, w) = [n \in Nodes |-> Owe(P, w)[n]]
    BY DEF Owe
  <2> QED BY <1>2, <2>1
<1> QED BY <1>2, <1>3 DEF Dues

(* A handle that is made for a file, by its constructor or by Dump. *)
LEMMA RefBooks ==
    ASSUME NEW F, Sound(F), NEW P \in Dues, NEW w \in Files,
           Counts(F.handle, F.node, P),
           \A n \in Nodes : Kept(F.node[n], n) /\ (n # w.file => Lives(F.node[n], n)),
           \A h \in DOMAIN F.handle : F.handle[h].is \in Files,
           F.node[w.file].exists
    PROVE  /\ Sound(Ref(F, w)) /\ Ref(F, w).handle = F.handle
           /\ Owe(P, w) \in Dues /\ Books(Ref(F, w), Owe(P, w))
<1> PICK H, T, N, f : H = F.handle /\ T = F.table /\ N = F.node /\ f = F.fault
  OBVIOUS
<1> PICK G : G = Ref(F, w)
  OBVIOUS
<1>1. /\ Shaped(H) /\ Linked(H) /\ f = FALSE /\ T = TableOf(H) /\ N \in [Nodes -> NodeRecords]
      /\ F = [handle |-> H, table |-> T, node |-> N, fault |-> f]
  BY SoundFacts
<1>2. w \in Handles /\ w.file \in Nodes
  BY DEF Files, Handles
<1> DEFINE M == [N EXCEPT ![w.file] = Raised(@, w)]
<1>3. G = [handle |-> H, table |-> T, node |-> M, fault |-> f]
  BY ONLY <1>1, <1>2, RefIs, G = Ref(F, w)
<1>4. /\ M \in [Nodes -> NodeRecords] /\ M[w.file] = Raised(N[w.file], w)
      /\ \A n \in Nodes : n # w.file => M[n] = N[n]
  <2>1. N[w.file] \in NodeRecords
    BY <1>1, <1>2
  <2>2. Raised(N[w.file], w) \in NodeRecords
    BY <2>1 DEF Raised, NodeRecords
  <2> QED BY <1>1, <1>2, <2>2
<1> HIDE DEF M
<1>5. Sound(G)
  <2>1. G = [handle |-> H, table |-> TableOf(H), node |-> M, fault |-> f]
    BY <1>1, <1>3
  <2>2. Shaped(H) /\ Linked(H) /\ f = FALSE /\ M \in [Nodes -> NodeRecords]
    BY <1>1, <1>4
  <2> QED BY ONLY <2>1, <2>2, SoundFrom
<1>6. /\ Owe(P, w) \in Dues
      /\ \A n \in Nodes :
           /\ Owe(P, w)[n].refs = P[n].refs + IF n = w.file THEN 1 ELSE 0
           /\ Owe(P, w)[n].writers = P[n].writers + IF n = w.file /\ w.writer THEN 1 ELSE 0
           /\ P[n].refs \in Nat /\ P[n].writers \in Nat
  <2>1. \A n \in Nodes : P[n].refs \in Nat /\ P[n].writers \in Nat
    BY DEF Dues
  <2> QED BY <1>2, <2>1, DuesOwed
<1>7. ASSUME NEW n \in Nodes
      PROVE  Cardinality(Namers(H, n)) \in Nat /\ Cardinality(Writers(H, n)) \in Nat
  BY <1>1, NamersFinite DEF Shaped
<1>8. ASSUME NEW n \in Nodes
      PROVE  /\ M[n].refs = Cardinality(Namers(H, n)) + Owe(P, w)[n].refs
             /\ M[n].writers = Cardinality(Writers(H, n)) + Owe(P, w)[n].writers
  <2>1. /\ N[n].refs = Cardinality(Namers(H, n)) + P[n].refs
        /\ N[n].writers = Cardinality(Writers(H, n)) + P[n].writers
    BY DEF Counts
  <2>2. CASE n = w.file
    <3>1. M[n].refs = N[n].refs + 1
          /\ M[n].writers = IF w.writer THEN N[n].writers + 1 ELSE N[n].writers
      BY <1>4, <2>2 DEF Raised
    <3> QED BY <1>6, <1>7, <2>1, <2>2, <3>1
  <2>3. CASE n # w.file
    <3>1. M[n] = N[n]
      BY <1>4, <2>3
    <3> QED BY <1>6, <1>7, <2>1, <2>3, <3>1
  <2> QED BY <2>2, <2>3
<1>9. ASSUME NEW n \in Nodes
      PROVE  Lives(M[n], n)
  <2>1. CASE n = w.file
    <3>1. M[n].refs > 0
      BY <1>6, <1>7, <1>8, <2>1
    <3>2. M[n].exists = N[n].exists /\ M[n].autoClose = N[n].autoClose
      BY <1>4, <2>1 DEF Raised
    <3>3. Kept(N[n], n) /\ N[n].exists
      BY <2>1
    <3>4. M[n].refs # 0
      BY <1>6, <1>7, <1>8, <3>1
    <3> QED BY <3>2, <3>3, <3>4 DEF Lives, Kept
  <2>2. CASE n # w.file
    BY <1>4, <2>2
  <2> QED BY <2>1, <2>2
<1>10. G.handle = H /\ G.node = M
  BY <1>3
<1>11. Books(G, Owe(P, w))
  <2>1. Counts(H, M, Owe(P, w))
    BY <1>8 DEF Counts
  <2> QED BY <1>9, <1>10, <2>1 DEF Books
<1> QED BY <1>5, <1>6, <1>10, <1>11

(* The handle is bound, and what was due is in the table. *)
LEMMA BoundBooks ==
    ASSUME NEW F, Shaped(F.handle), NEW P \in Dues, NEW w \in Files, NEW G, NEW p, NEW d,
           Books(F, Owe(P, w)), Bound(F, G, p, d, w)
    PROVE  Books(G, P)
<1> DEFINE h == Hid(p, d)
<1>1. IsFiniteSet(DOMAIN F.handle) /\ Added(F.handle, G.handle, h, w) /\ G.node = F.node
  BY DEF Bound, Shaped
<1>2. w \in Handles /\ \A n \in Nodes : P[n].refs \in Nat /\ P[n].writers \in Nat
  BY DEF Files, Dues
<1> HIDE DEF h
<1>3. ASSUME NEW n \in Nodes
      PROVE  /\ G.node[n].refs = Cardinality(Namers(G.handle, n)) + P[n].refs
             /\ G.node[n].writers = Cardinality(Writers(G.handle, n)) + P[n].writers
  <2>1. /\ F.node[n].refs = Cardinality(Namers(F.handle, n)) + Owe(P, w)[n].refs
        /\ F.node[n].writers = Cardinality(Writers(F.handle, n)) + Owe(P, w)[n].writers
    BY DEF Books, Counts
  <2>2. /\ Owe(P, w)[n].refs = P[n].refs + IF n = w.file THEN 1 ELSE 0
        /\ Owe(P, w)[n].writers = P[n].writers + IF n = w.file /\ w.writer THEN 1 ELSE 0
    BY <1>2, DuesOwed
  <2>3. /\ Cardinality(Namers(G.handle, n)) = Cardinality(Namers(F.handle, n)) + IF n = w.file THEN 1 ELSE 0
        /\ Cardinality(Writers(G.handle, n)) =
             Cardinality(Writers(F.handle, n)) + IF n = w.file /\ w.writer THEN 1 ELSE 0
    BY <1>1, CountAdded
  <2>4. Cardinality(Namers(F.handle, n)) \in Nat /\ Cardinality(Writers(F.handle, n)) \in Nat
    BY <1>1, NamersFinite
  <2> QED BY <1>1, <1>2, <2>1, <2>2, <2>3, <2>4
<1>4. ASSUME NEW x \in DOMAIN G.handle
      PROVE  G.handle[x].is \in Files
  BY <1>1 DEF Added, Books
<1>5. Counts(G.handle, G.node, P)
  BY <1>3 DEF Counts
<1> QED BY <1>1, <1>4, <1>5 DEF Books

(* A handle is deleted. *)
LEMMA Deleted ==
    ASSUME NEW F, Sound(F), NEW P \in Dues, Books(F, P),
           NEW p \in Processes, NEW d \in Nums(F.handle, p)
    PROVE  LET G == Delete(F, Hid(p, d))
           IN  Sound(G) /\ Books(G, P) /\ Removed(F.handle, G.handle, Hid(p, d))
<1> PICK H, T, N, f : H = F.handle /\ T = F.table /\ N = F.node /\ f = F.fault
  OBVIOUS
<1> PICK h : h = Hid(p, d)
  OBVIOUS
<1> PICK G : G = Delete(F, h)
  OBVIOUS
<1> PICK w : w = H[h].is
  OBVIOUS
<1> PICK K : K = Unlinked(F, h)
  OBVIOUS
<1>1. /\ Shaped(H) /\ Linked(H) /\ f = FALSE /\ T = TableOf(H) /\ N \in [Nodes -> NodeRecords]
      /\ F = [handle |-> H, table |-> T, node |-> N, fault |-> f]
  BY SoundFacts
<1>2. d \in Nat /\ h \in DOMAIN H /\ ProcOf(h) = p /\ FD(h) = d
  BY IdFacts DEF Nums
<1>3. w \in Files /\ w \in Handles /\ w.file \in Nodes
  BY <1>2 DEF Books, Files, Handles
<1>4. Shaped(K) /\ Linked(K) /\ Removed(H, K, h)
  BY TakenOff
<1> DEFINE M == [N EXCEPT ![w.file] = Dropped(@, w)]
<1>5. /\ M \in [Nodes -> NodeRecords] /\ M[w.file] = Dropped(N[w.file], w)
      /\ \A n \in Nodes : n # w.file => M[n] = N[n]
  <2>1. N[w.file] \in NodeRecords
    BY <1>1, <1>3
  <2>2. Lowered(N[w.file], w) \in NodeRecords /\ NoNode \in NodeRecords
    BY SMTT(30), <2>1 DEF Lowered, NodeRecords, NoNode
  <2>3. Dropped(N[w.file], w) \in NodeRecords
    BY <2>2 DEF Dropped
  <2> QED BY <1>1, <1>3, <2>3
<1>6. Unref(F, w) = [handle |-> H, table |-> T, node |-> M, fault |-> f]
  BY ONLY <1>1, <1>3, UnrefIs
<1> HIDE DEF M
<1>7. G = [handle |-> K, table |-> TableOf(K), node |-> M, fault |-> f]
  <2>1. PICK U : U = Unref(F, w)
    OBVIOUS
  <2>2. PICK row : row = IF d \in Indices THEN [T[p] EXCEPT ![d] = Null] ELSE T[p]
    OBVIOUS
  <2>3. U = [handle |-> H, table |-> T, node |-> M, fault |-> f]
    BY <1>6, <2>1
  <2>4. G = [U EXCEPT !.handle = K, !.table[p] = row]
    <3>1. Unref(F, F.handle[h].is) = U /\ U.table = T
      BY <2>1, <2>3
    <3>2. ProcOf(h) = p /\ FD(h) = d
      BY <1>2
    <3>3. G = [U EXCEPT !.handle = Unlinked(F, h),
                        !.table[p] = IF d \in Indices THEN [U.table[p] EXCEPT ![d] = Null]
                                     ELSE U.table[p]]
      BY ONLY <3>1, <3>2, G = Delete(F, h), Zenon DEF Delete
    <3> QED BY ONLY <2>2, <3>1, <3>3, K = Unlinked(F, h), Zenon
  <2>5. G = [handle |-> K, table |-> [T EXCEPT ![p] = row], node |-> M, fault |-> f]
    BY ONLY <2>3, <2>4
  <2>6. [T EXCEPT ![p] = row] = TableOf(K)
    <3>1. DOMAIN K = DOMAIN H \ {Hid(p, d)}
      BY <1>4 DEF Removed
    <3>2. [TableOf(H) EXCEPT ![p] = IF d \in Indices THEN [@ EXCEPT ![d] = Null] ELSE @]
            = TableOf(K)
      BY <1>2, <3>1, TableRemoved
    <3> QED BY <1>1, <2>2, <3>2
  <2> QED BY <2>5, <2>6
<1>8. Sound(G)
  <2>1. Shaped(K) /\ Linked(K) /\ f = FALSE /\ M \in [Nodes -> NodeRecords]
    BY <1>1, <1>4, <1>5
  <2> QED BY ONLY <1>7, <2>1, SoundFrom
<1>9. G.handle = K /\ G.node = M
  BY <1>7
<1>10. ASSUME NEW n \in Nodes
       PROVE  /\ Cardinality(Namers(H, n)) \in Nat /\ Cardinality(Writers(H, n)) \in Nat
              /\ Cardinality(Namers(K, n)) \in Nat /\ Cardinality(Writers(K, n)) \in Nat
              /\ Cardinality(Writers(K, n)) <= Cardinality(Namers(K, n))
              /\ P[n].refs \in Nat /\ P[n].writers \in Nat /\ P[n].writers <= P[n].refs
  BY <1>1, <1>4, NamersFinite DEF Shaped, Dues
<1>11. ASSUME NEW n \in Nodes
       PROVE  /\ Cardinality(Namers(K, n)) = Cardinality(Namers(H, n)) - IF n = w.file THEN 1 ELSE 0
              /\ Cardinality(Writers(K, n)) =
                   Cardinality(Writers(H, n)) - IF n = w.file /\ w.writer THEN 1 ELSE 0
  BY <1>1, <1>4, CountRemoved DEF Shaped
<1>12. ASSUME NEW n \in Nodes
       PROVE  /\ N[n].refs = Cardinality(Namers(H, n)) + P[n].refs
              /\ N[n].writers = Cardinality(Writers(H, n)) + P[n].writers
              /\ Lives(N[n], n)
  BY DEF Books, Counts
<1>13. ASSUME NEW n \in Nodes
       PROVE  /\ M[n].refs = Cardinality(Namers(K, n)) + P[n].refs
              /\ M[n].writers = Cardinality(Writers(K, n)) + P[n].writers
              /\ Lives(M[n], n)
  <2>1. CASE n # w.file
    <3>1. M[n] = N[n]
      BY <1>5, <2>1
    <3>2. /\ Cardinality(Namers(K, n)) = Cardinality(Namers(H, n))
          /\ Cardinality(Writers(K, n)) = Cardinality(Writers(H, n))
      BY <1>10, <1>11, <2>1
    <3> QED BY <1>12, <3>1, <3>2
  <2>2. CASE n = w.file
    <3>1. /\ N[n].refs - 1 = Cardinality(Namers(K, n)) + P[n].refs
          /\ (IF w.writer THEN N[n].writers - 1 ELSE N[n].writers)
               = Cardinality(Writers(K, n)) + P[n].writers
      BY <1>10, <1>11, <1>12, <2>2
    <3>2. N[n].refs - 1 \in Nat
      BY <1>10, <3>1
    <3>3. M[n] = Dropped(N[n], w)
      BY <1>5, <2>2
    <3>4. CASE N[n].refs - 1 <= 0 /\ N[n].autoClose
      <4>1. M[n] = NoNode
        BY <3>3, <3>4 DEF Dropped
      <4>2. M[n].refs = 0 /\ M[n].writers = 0 /\ ~ M[n].exists /\ ~ M[n].autoClose
        BY <4>1 DEF NoNode
      <4>3. Cardinality(Namers(K, n)) + P[n].refs = 0
        BY <3>1, <3>2, <3>4
      <4>4. Cardinality(Writers(K, n)) + P[n].writers = 0
        BY <1>10, <4>3
      <4>5. n # StdIO
        BY <1>12, <3>4 DEF Lives, Kept
      <4>6. Lives(M[n], n)
        BY <4>1, <4>2, <4>5 DEF Lives, Kept
      <4> QED BY <4>2, <4>3, <4>4, <4>6
    <3>5. CASE ~ (N[n].refs - 1 <= 0 /\ N[n].autoClose)
      <4>1. M[n] = Lowered(N[n], w)
        BY <3>3, <3>5 DEF Dropped
      <4>2. /\ M[n].refs = N[n].refs - 1
            /\ M[n].writers = IF w.writer THEN N[n].writers - 1 ELSE N[n].writers
            /\ M[n].exists = N[n].exists /\ M[n].autoClose = N[n].autoClose
        BY <4>1 DEF Lowered
      <4>3. N[n].exists
        <5>1. N[n] # NoNode
          BY <3>2 DEF NoNode
        <5> QED BY <1>12, <5>1 DEF Lives, Kept
      <4>4. M[n].autoClose => M[n].refs # 0
        BY <3>2, <3>5, <4>2
      <4>5. Lives(M[n], n)
        BY <1>12, <4>2, <4>3, <4>4 DEF Lives, Kept
      <4> QED BY <3>1, <4>2, <4>5
    <3> QED BY <3>4, <3>5
  <2> QED BY <2>1, <2>2
<1>14. Books(G, P)
  <2>1. Counts(K, M, P)
    BY <1>13 DEF Counts
  <2>2. \A x \in DOMAIN K : K[x].is \in Files
    BY <1>4 DEF Books, Removed
  <2> QED BY <1>9, <1>13, <2>1, <2>2 DEF Books
<1> QED BY <1>4, <1>8, <1>9, <1>14

-----------------------------------------------------------------------------
(* Binding a handle to a number.                                           *)

LEMMA LeastOf ==
    ASSUME NEW I \in SUBSET Nat, I # {}
    PROVE  Min(I) \in I /\ \A k \in I : Min(I) <= k
<1>1. PICK m \in I : \A j \in I : ~ (<<j, m>> \in OpToRel(<, Nat))
  BY WFMin, NatLessThanWellFounded
<1>2. \A j \in I : m <= j
  <2> SUFFICES ASSUME NEW j \in I, j < m
               PROVE  FALSE
    OBVIOUS
  <2>1. <<j, m>> \in OpToRel(<, Nat)
    BY DEF OpToRel
  <2> QED BY <1>1, <2>1
<1> QED BY <1>2 DEF Min

LEMMA GreatestOf ==
    ASSUME NEW n \in Nat, NEW I \in SUBSET (0 .. n), I # {}
    PROVE  Max(I) \in I /\ \A k \in I : k <= Max(I)
<1> DEFINE J == {k \in Nat : n - k \in I}
           m == n - Min(J)
<1>1. J \in SUBSET Nat /\ J # {}
  <2>1. PICK k : k \in I
    OBVIOUS
  <2>2. n - k \in Nat /\ n - (n - k) = k
    BY <2>1
  <2> QED BY <2>1, <2>2
<1>2. Min(J) \in J /\ \A k \in J : Min(J) <= k
  <2> HIDE DEF J
  <2> QED BY <1>1, LeastOf
<1>3. m \in I
  BY <1>2
<1>4. ASSUME NEW k \in I
      PROVE  k <= m
  <2>1. n - k \in Nat /\ n - (n - k) = k
    OBVIOUS
  <2>2. Min(J) <= n - k /\ Min(J) \in Nat
    BY <1>2, <2>1
  <2> QED BY <2>2
<1> HIDE DEF m
<1> QED BY <1>3, <1>4 DEF Max

LEMMA GapNext ==
    ASSUME NEW S \in SUBSET Nat, NEW p \in Processes, NEW d \in Nat \ S, NEW e \in S, NEW x,
           e < d, \A c \in S : c <= e \/ d <= c, IsNext(S, p, e, x)
    PROVE  IsNext(S, p, d, x)
<1>1. CASE x = Null /\ \A c \in S : c <= e
  BY <1>1 DEF IsNext
<1>2. ASSUME NEW g \in S, x = Hid(p, g) /\ e < g /\ \A c \in S : c <= e \/ g <= c
      PROVE  IsNext(S, p, d, x)
  <2>1. d < g
    BY <1>2
  <2>2. \A c \in S : c <= d \/ g <= c
    BY <1>2
  <2> QED BY <1>2, <2>1, <2>2 DEF IsNext
<1> QED BY <1>1, <1>2 DEF IsNext

LEMMA GapPrev ==
    ASSUME NEW S \in SUBSET Nat, NEW p \in Processes, NEW d \in Nat \ S, NEW e \in S, NEW x,
           d < e, \A c \in S : c <= d \/ e <= c, IsPrev(S, p, e, x)
    PROVE  IsPrev(S, p, d, x)
<1>1. CASE x = Null /\ \A c \in S : e <= c
  BY <1>1 DEF IsPrev
<1>2. ASSUME NEW g \in S, x = Hid(p, g) /\ g < e /\ \A c \in S : c <= g \/ e <= c
      PROVE  IsPrev(S, p, d, x)
  <2>1. g < d
    BY <1>2
  <2>2. \A c \in S : c <= g \/ d <= c
    BY <1>2
  <2> QED BY <1>2, <2>1, <2>2 DEF IsPrev
<1> QED BY <1>1, <1>2 DEF IsPrev

LEMMA PlacedKeeps ==
    ASSUME NEW F, Sound(F), NEW p \in Processes, NEW d \in Nat \ Nums(F.handle, p), NEW w,
           NEW x \in DOMAIN F.handle
    PROVE  Placed(F, p, d, w).handle[x] = F.handle[x]
<1> PICK H, T, N, f : H = F.handle /\ T = F.table /\ N = F.node /\ f = F.fault
  OBVIOUS
<1> PICK h : h = Hid(p, d)
  OBVIOUS
<1>1. F = [handle |-> H, table |-> T, node |-> N, fault |-> f]
  BY SoundFacts
<1>2. NewId(F, p, d) = h /\ h # x
  BY NewName, SoundFacts DEF Nums
<1>3. PICK K : K = [y \in DOMAIN H \union {h} |->
                      IF y = h THEN [is |-> w, pre |-> Null, nxt |-> Null] ELSE H[y]]
  OBVIOUS
<1>4. PICK row : row = IF d \in Indices THEN [T[p] EXCEPT ![d] = h] ELSE T[p]
  OBVIOUS
<1>5. PICK G : G = [F EXCEPT !.handle = K, !.table[p] = row]
  OBVIOUS
<1>6. Placed(F, p, d, w) = G
  BY ONLY <1>1, <1>2, <1>3, <1>4, <1>5 DEF Placed
<1>7. G = [handle |-> K, table |-> [T EXCEPT ![p] = row], node |-> N, fault |-> f]
  BY ONLY <1>1, <1>5
<1>8. G.handle = K
  BY <1>7
<1>9. K[x] = H[x]
  BY <1>2, <1>3
<1> QED BY <1>6, <1>8, <1>9

(* Behind the last of the smaller numbers. *)
LEMMA LinkedBehind ==
    ASSUME NEW F, Sound(F), NEW p \in Processes, NEW d \in Nat \ Nums(F.handle, p),
           NEW w \in Handles, NEW e \in Nums(F.handle, p), e < d,
           \A c \in Nums(F.handle, p) : c <= e \/ d <= c
    PROVE  Bound(F, NxtInsert(Placed(F, p, d, w), Hid(p, e), NewId(F, p, d)), p, d, w)
<1> DEFINE H == F.handle
           S == Nums(H, p)
           b == H[Hid(p, e)].nxt
<1>1. Shaped(H) /\ Linked(H) /\ S \in SUBSET Nat /\ Hid(p, e) \in DOMAIN H
  BY SoundFacts DEF Nums
<1>2. NewId(F, p, d) = Hid(p, d) /\ Placed(F, p, d, w).handle[Hid(p, e)].nxt = b
  BY <1>1, NewName, PlacedKeeps
<1>3. IsNext(S, p, e, b)
  BY <1>1 DEF Linked
<1>4. IsPrev(S, p, d, Hid(p, e))
  BY DEF IsPrev
<1> HIDE DEF S, b
<1>5. IsNext(S, p, d, b)
  BY <1>1, <1>3, GapNext DEF S
<1> QED BY <1>2, <1>4, <1>5, LinkedIn DEF NxtInsert, S

(* Before the first of the greater ones. *)
LEMMA LinkedBefore ==
    ASSUME NEW F, Sound(F), NEW p \in Processes, NEW d \in Nat \ Nums(F.handle, p),
           NEW w \in Handles, NEW e \in Nums(F.handle, p), d < e,
           \A c \in Nums(F.handle, p) : c <= d \/ e <= c
    PROVE  Bound(F, PreInsert(Placed(F, p, d, w), Hid(p, e), NewId(F, p, d)), p, d, w)
<1> DEFINE H == F.handle
           S == Nums(H, p)
           a == H[Hid(p, e)].pre
<1>1. Shaped(H) /\ Linked(H) /\ S \in SUBSET Nat /\ Hid(p, e) \in DOMAIN H
  BY SoundFacts DEF Nums
<1>2. NewId(F, p, d) = Hid(p, d) /\ Placed(F, p, d, w).handle[Hid(p, e)].pre = a
  BY <1>1, NewName, PlacedKeeps
<1>3. IsPrev(S, p, e, a)
  BY <1>1 DEF Linked
<1>4. IsNext(S, p, d, Hid(p, e))
  BY DEF IsNext
<1> HIDE DEF S, a
<1>5. IsPrev(S, p, d, a)
  BY <1>1, <1>3, GapPrev DEF S
<1> QED BY <1>2, <1>4, <1>5, LinkedIn DEF PreInsert, S

(* The first handle of a process. *)
LEMMA PlacedAlone ==
    ASSUME NEW F, Sound(F), NEW p \in Processes, NEW d \in Nat, Nums(F.handle, p) = {},
           NEW w \in Handles
    PROVE  Bound(F, Placed(F, p, d, w), p, d, w)
<1> PICK H, T, N, f : H = F.handle /\ T = F.table /\ N = F.node /\ f = F.fault
  OBVIOUS
<1> PICK h : h = Hid(p, d)
  OBVIOUS
<1> PICK G : G = Placed(F, p, d, w)
  OBVIOUS
<1>1. /\ Shaped(H) /\ h \notin DOMAIN H /\ h # Null
      /\ F = [handle |-> H, table |-> T, node |-> N, fault |-> f]
  BY SoundFacts, IdFacts DEF Nums
<1>2. NewId(F, p, d) = h
  BY NewName, SoundFacts
<1>3. PICK K : K = [y \in DOMAIN H \union {h} |->
                      IF y = h THEN [is |-> w, pre |-> Null, nxt |-> Null] ELSE H[y]]
  OBVIOUS
<1>4. PICK row : row = IF d \in Indices THEN [T[p] EXCEPT ![d] = h] ELSE T[p]
  OBVIOUS
<1>5. G = [F EXCEPT !.handle = K, !.table[p] = row]
  BY ONLY <1>1, <1>2, <1>3, <1>4, G = Placed(F, p, d, w) DEF Placed
<1>6. PICK U : U = [T EXCEPT ![p] = row]
  OBVIOUS
<1>7. G = [handle |-> K, table |-> U, node |-> N, fault |-> f]
  BY ONLY <1>1, <1>5, <1>6
<1>8. \A x \in DOMAIN K : K[x] \in HandleRecords /\ x # Null
  <2>1. ASSUME NEW x \in DOMAIN H
        PROVE  K[x] = H[x] /\ H[x] \in HandleRecords /\ x # Null
    BY <1>1, <1>3, IdIs DEF Shaped, HandleRecords
  <2>2. K[h] = [is |-> w, pre |-> Null, nxt |-> Null] /\ DOMAIN K = DOMAIN H \union {h}
    BY <1>3
  <2>3. K[h] \in HandleRecords
    BY <2>2 DEF HandleRecords, Links
  <2> QED BY <1>1, <2>1, <2>2, <2>3
<1>9. K = [x \in DOMAIN K |->
              IF x = h THEN [is |-> K[x].is, pre |-> Null, nxt |-> Null]
              ELSE IF x = Null THEN [K[x] EXCEPT !.nxt = h]
              ELSE IF x = Null THEN [K[x] EXCEPT !.pre = h]
              ELSE K[x]]
  <2>1. K = [x \in DOMAIN K |-> K[x]]
    BY <1>3
  <2>2. K[h] = [is |-> K[h].is, pre |-> Null, nxt |-> Null]
    <3>1. K[h] = [is |-> w, pre |-> Null, nxt |-> Null]
      BY <1>3
    <3> QED BY <3>1
  <2> QED BY <1>8, <2>1, <2>2
<1>10. Link(G, h, Null, Null) = G
  <2>1. Link(G, h, Null, Null) = [handle |-> K, table |-> U, node |-> N, fault |-> f]
    <3>1. \A x \in DOMAIN K : K[x] \in HandleRecords /\ ~ (x = Null /\ x = Null)
      BY <1>8
    <3>2. h # Null
      BY <1>1
    <3> QED BY ONLY <1>7, <1>9, <3>1, <3>2, LinkIs
  <2> QED BY <1>7, <2>1
<1>11. IsPrev(Nums(F.handle, p), p, d, Null) /\ IsNext(Nums(F.handle, p), p, d, Null)
  BY DEF IsPrev, IsNext
<1>12. Bound(F, Link(G, h, Null, Null), p, d, w)
  BY <1>11, LinkedIn
<1> QED BY <1>10, <1>12

LEMMA TableIs ==
    ASSUME NEW F, Sound(F), NEW p \in Processes, NEW i \in Indices
    PROVE  /\ F.table[p][i] = IF i \in Nums(F.handle, p) THEN Hid(p, i) ELSE Null
           /\ F.table[p][i] # Null <=> i \in Nums(F.handle, p)
<1>1. F.table[p][i] = IF i \in Nums(F.handle, p) THEN Hid(p, i) ELSE Null
  <2>1. F.table = TableOf(F.handle)
    BY SoundFacts
  <2> QED BY <2>1 DEF TableOf
<1>2. i \in Nat /\ Hid(p, i) # Null
  BY FileTableAssumption, IdFacts DEF Indices
<1> QED BY <1>1, <1>2

LEMMA LowIndices == 0 \in Indices /\ 1 \in Indices /\ 2 \in Indices
BY FileTableAssumption DEF Indices

(* The list of a process that has descriptor 0. *)
LEMMA ListFacts ==
    ASSUME NEW F, Sound(F), NEW p \in Processes, 0 \in Nums(F.handle, p)
    PROVE  LET l == From(F, F.table[p][0])
           IN  /\ Len(l) \in Nat
               /\ \A i \in 1 .. Len(l) : \E e \in Nums(F.handle, p) : l[i] = Hid(p, e)
               /\ \A e \in Nums(F.handle, p) : \E i \in 1 .. Len(l) : l[i] = Hid(p, e)
               /\ \A i, j \in 1 .. Len(l) : i < j => FD(l[i]) < FD(l[j])
               /\ l \in Seq(DOMAIN F.handle)
<1>1. F.table[p][0] = Hid(p, 0)
  BY LowIndices, TableIs
<1>2. \A e \in Nums(F.handle, p) : 0 <= e
  BY DEF Nums
<1>3. Shaped(F.handle) /\ Linked(F.handle)
  BY SoundFacts
<1> DEFINE l == From(F, Hid(p, 0))
<1>4. /\ l \in Seq(DOMAIN F.handle)
      /\ \A i \in 1 .. Len(l) : \E e \in Nums(F.handle, p) : l[i] = Hid(p, e) /\ 0 <= e
      /\ \A e \in Nums(F.handle, p) : 0 <= e => \E i \in 1 .. Len(l) : l[i] = Hid(p, e)
      /\ \A i, j \in 1 .. Len(l) : i < j => FD(l[i]) < FD(l[j])
  BY <1>3, FromFacts
<1>5. Len(l) \in Nat
  BY <1>4
<1> HIDE DEF l
<1> QED BY <1>1, <1>2, <1>4, <1>5 DEF l

(* The walk of BindToProcess, from number b, is 1 or 0. *)
LEMMA WalkFacts ==
    ASSUME NEW F, Sound(F), NEW p \in Processes, 0 \in Nums(F.handle, p)
    PROVE  LET l == Walk(F, p)
           IN  \E b \in Nums(F.handle, p) :
                 /\ b \in {0, 1} /\ l \in Seq(DOMAIN F.handle)
                 /\ Len(l) \in Nat /\ Len(l) > 0
                 /\ \A e \in Nums(F.handle, p) : b <= e \/ e = 0
                 /\ \A i \in 1 .. Len(l) : \E e \in Nums(F.handle, p) : l[i] = Hid(p, e) /\ b <= e
                 /\ \A e \in Nums(F.handle, p) : b <= e => \E i \in 1 .. Len(l) : l[i] = Hid(p, e)
                 /\ \A i, j \in 1 .. Len(l) : i < j => FD(l[i]) < FD(l[j])
<1> DEFINE b == IF 1 \in Nums(F.handle, p) THEN 1 ELSE 0
<1>1. b \in Nums(F.handle, p) /\ b \in {0, 1}
  OBVIOUS
<1>2. Walk(F, p) = From(F, Hid(p, b))
  BY LowIndices, TableIs DEF Walk
<1>3. \A e \in Nums(F.handle, p) : b <= e \/ e = 0
  <2>1. \A e \in Nums(F.handle, p) : e \in Nat
    BY DEF Nums
  <2> QED BY <2>1
<1> HIDE DEF b
<1>4. Shaped(F.handle) /\ Linked(F.handle)
  BY SoundFacts
<1> DEFINE l == From(F, Hid(p, b))
<1>5. /\ l \in Seq(DOMAIN F.handle) /\ Len(l) > 0
      /\ \A i \in 1 .. Len(l) : \E e \in Nums(F.handle, p) : l[i] = Hid(p, e) /\ b <= e
      /\ \A e \in Nums(F.handle, p) : b <= e => \E i \in 1 .. Len(l) : l[i] = Hid(p, e)
      /\ \A i, j \in 1 .. Len(l) : i < j => FD(l[i]) < FD(l[j])
  BY <1>1, <1>4, FromFacts
<1>6. Len(l) \in Nat
  BY <1>5
<1> HIDE DEF l
<1> QED BY ZenonT(30), <1>1, <1>2, <1>3, <1>5, <1>6 DEF l

(* Neighbours by number, of a handle on the walk. *)
LEMMA NextNumber ==
    ASSUME NEW F, Sound(F), NEW p \in Processes, NEW e \in Nums(F.handle, p)
    PROVE  LET y == F.handle[Hid(p, e)].nxt
           IN  \/ y = Null /\ \A c \in Nums(F.handle, p) : c <= e
               \/ /\ y # Null /\ FD(y) \in Nums(F.handle, p) /\ e < FD(y)
                  /\ y = Hid(p, FD(y))
                  /\ \A c \in Nums(F.handle, p) : c <= e \/ FD(y) <= c
<1> DEFINE S == Nums(F.handle, p)
           y == F.handle[Hid(p, e)].nxt
<1>1. IsNext(S, p, e, y)
  BY SoundFacts DEF Linked
<1> HIDE DEF y
<1>2. ASSUME NEW g \in S, y = Hid(p, g)
      PROVE  y # Null /\ FD(y) = g
  BY <1>2, IdFacts DEF Nums
<1> HIDE DEF S
<1> QED BY <1>1, <1>2 DEF IsNext, S, y

(* BindToProcess without a number takes the smallest that is free. *)
LEMMA BindFree ==
    ASSUME NEW F, Sound(F), NEW p \in Processes, 0 \in Nums(F.handle, p), NEW w \in Handles
    PROVE  \E d \in Nat \ Nums(F.handle, p) :
               /\ \A c \in Nat : c < d => c \in Nums(F.handle, p)
               /\ Bound(F, Bind(F, p, -1, w), p, d, w)
<1> DEFINE S == Nums(F.handle, p)
           l == Walk(F, p)
           Nxt(x) == F.handle[x].nxt
           Gap(x) == Nxt(x) = Null \/ FD(Nxt(x)) > FD(x) + 1
           I == {i \in 1 .. Len(l) : Gap(l[i])}
           k == SelectInSeq(l, Gap)
           a == l[k]
<1>1. PICK b \in S :
        /\ b \in {0, 1} /\ Len(l) \in Nat /\ Len(l) > 0
        /\ \A e \in S : b <= e \/ e = 0
        /\ \A i \in 1 .. Len(l) : \E e \in S : l[i] = Hid(p, e) /\ b <= e
        /\ \A e \in S : b <= e => \E i \in 1 .. Len(l) : l[i] = Hid(p, e)
        /\ \A i, j \in 1 .. Len(l) : i < j => FD(l[i]) < FD(l[j])
  BY WalkFacts
<1>2. BindAuto(F, p, w) = NxtInsert(Placed(F, p, FD(a) + 1, w), a, NewId(F, p, FD(a) + 1))
  BY DEF BindAuto
<1>3. Bind(F, p, -1, w) = BindAuto(F, p, w)
  <2>1. F.table[p][0] # Null
    BY LowIndices, TableIs
  <2>2. -1 \notin {0, 1} /\ ~ (-1 > 1)
    OBVIOUS
  <2> QED BY <2>1, <2>2 DEF Bind
<1>4. I # {} => k = Min(I)
  BY DEF SelectInSeq
<1>5. ASSUME NEW e \in S
      PROVE  e \in Nat /\ FD(Hid(p, e)) = e
  BY IdFacts DEF Nums
<1>6. I # {}
  <2>1. Len(l) \in 1 .. Len(l)
    BY <1>1
  <2>2. PICK e \in S : l[Len(l)] = Hid(p, e) /\ b <= e
    BY <1>1, <2>1
  <2>3. CASE Nxt(Hid(p, e)) = Null
    BY <2>1, <2>2, <2>3
  <2>4. CASE Nxt(Hid(p, e)) # Null
    <3>1. FD(Nxt(Hid(p, e))) \in S /\ e < FD(Nxt(Hid(p, e)))
      BY <2>4, NextNumber
    <3> DEFINE g == FD(Nxt(Hid(p, e)))
    <3>2. b <= g
      BY <1>5, <2>2, <3>1
    <3>3. PICK j \in 1 .. Len(l) : l[j] = Hid(p, g)
      BY <1>1, <3>1, <3>2
    <3>4. FD(l[j]) = g /\ FD(l[Len(l)]) = e /\ g \in Nat /\ e \in Nat
      BY <1>5, <2>2, <3>1, <3>3
    <3>5. j < Len(l) => g < e
      BY <1>1, <2>1, <3>4
    <3>6. j = Len(l) => g = e
      BY <3>4
    <3>7. j < Len(l) \/ j = Len(l)
      BY <1>1
    <3> HIDE DEF g
    <3> QED BY <3>1, <3>4, <3>5, <3>6, <3>7 DEF g
  <2> QED BY <2>3, <2>4
<1>7. k \in 1 .. Len(l) /\ Gap(a) /\ \A i \in 1 .. Len(l) : Gap(l[i]) => k <= i
  <2>1. I \in SUBSET Nat
    BY <1>1
  <2>2. Min(I) \in I /\ \A i \in I : Min(I) <= i
    <3> HIDE DEF I
    <3> QED BY <1>6, <2>1, LeastOf
  <2>3. k = Min(I)
    BY <1>4, <1>6
  <2> HIDE DEF k, Gap, l
  <2> QED BY <2>2, <2>3
<1> HIDE DEF k
<1>8. PICK e \in S : a = Hid(p, e) /\ b <= e
  BY <1>1, <1>7
<1> DEFINE d == e + 1
<1>9. FD(a) = e /\ e \in Nat /\ d \in Nat /\ b \in Nat
  BY <1>5, <1>8
<1>10. d \notin S /\ \A c \in S : c <= e \/ d <= c
  <2>1. \A c \in S : c \in Nat
    BY <1>5
  <2>2. CASE Nxt(a) = Null
    <3>1. \A c \in S : c <= e
      BY <1>8, <2>2, NextNumber
    <3> QED BY <1>9, <3>1
  <2>3. CASE Nxt(a) # Null /\ FD(Nxt(a)) > e + 1
    <3>1. FD(Nxt(a)) \in S /\ \A c \in S : c <= e \/ FD(Nxt(a)) <= c
      BY <1>8, <2>3, NextNumber
    <3> DEFINE g == FD(Nxt(a))
    <3>2. g \in Nat /\ g > e + 1
      BY <2>1, <2>3, <3>1
    <3> HIDE DEF g, S
    <3> QED BY <1>9, <2>1, <3>1, <3>2 DEF g
  <2> QED BY <1>7, <1>9, <2>2, <2>3
<1>11. \A c \in Nat : c < d => c \in S
  <2> DEFINE C == {c \in Nat : b <= c /\ c <= e => c \in S}
  <2>1. 0 \in C
    BY <1>1
  <2>2. ASSUME NEW c \in C
        PROVE  c + 1 \in C
    <3> SUFFICES ASSUME b <= c + 1, c + 1 <= e
                 PROVE  c + 1 \in S
      OBVIOUS
    <3>1. CASE b = c + 1
      BY <1>1, <3>1
    <3>2. CASE b # c + 1
      <4>1. b <= c /\ c < e /\ c \in Nat
        BY <1>9, <3>2
      <4>2. c \in S
        BY <1>9, <4>1
      <4>3. PICK j \in 1 .. Len(l) : l[j] = Hid(p, c)
        BY <1>1, <4>1, <4>2
      <4>4. FD(l[j]) = c
        BY <1>5, <4>2, <4>3
      <4>5. j < k
        <5>1. CASE k < j
          <6>1. FD(l[k]) < FD(l[j])
            BY <1>1, <1>7, <5>1
          <6> QED BY <1>9, <4>1, <4>4, <6>1
        <5>2. CASE k = j
          BY <1>9, <4>1, <4>4, <5>2
        <5> QED BY <1>1, <1>7, <5>1, <5>2
      <4>6. ~ Gap(l[j])
        <5>1. ~ (k <= j) /\ k \in 1 .. Len(l)
          BY <1>1, <1>7, <4>5
        <5> HIDE DEF Gap
        <5> QED BY <1>7, <5>1
      <4> DEFINE g == FD(Nxt(Hid(p, c)))
      <4>7. Nxt(Hid(p, c)) # Null /\ ~ (g > c + 1)
        BY <4>3, <4>4, <4>6
      <4>8. g \in S /\ c < g
        BY <4>2, <4>7, NextNumber
      <4>9. g \in Nat
        BY <1>5, <4>8
      <4> HIDE DEF g
      <4> QED BY <4>1, <4>7, <4>8, <4>9
    <3> QED BY <3>1, <3>2
  <2>3. C = Nat
    <3> HIDE DEF C
    <3> QED BY <2>1, <2>2, AllNumbers DEF C
  <2>4. ASSUME NEW c \in Nat, c < d
        PROVE  c \in S
    <3>1. c <= e
      BY <1>9, <2>4
    <3>2. b <= c => c \in S
      BY <2>3, <3>1
    <3>3. ~ (b <= c) => c = 0
      BY <1>1
    <3> QED BY <3>2, <3>3
  <2> QED BY <2>4
<1> HIDE DEF l
<1>12. Bound(F, NxtInsert(Placed(F, p, d, w), Hid(p, e), NewId(F, p, d)), p, d, w)
  <2>1. d \in Nat \ S /\ e < d
    BY <1>9, <1>10
  <2> HIDE DEF d
  <2> QED BY <1>10, <2>1, LinkedBehind
<1>13. Bound(F, Bind(F, p, -1, w), p, d, w)
  BY <1>2, <1>3, <1>8, <1>9, <1>12
<1> QED BY <1>9, <1>10, <1>11, <1>13

(* BindToProcess with a number that is free. *)
LEMMA BindNumber ==
    ASSUME NEW F, Sound(F), NEW p \in Processes, NEW d \in Nat \ Nums(F.handle, p),
           NEW w \in Handles,
           IF d = 0 THEN Nums(F.handle, p) = {} \/ 1 \in Nums(F.handle, p)
           ELSE 0 \in Nums(F.handle, p)
    PROVE  Bound(F, Bind(F, p, d, w), p, d, w)
<1> DEFINE S == Nums(F.handle, p)
<1>1. \A e \in S : e \in Nat
  BY DEF Nums
<1>2. CASE d = 0 /\ 1 \notin S
  <2>1. F.table[p][1] = Null
    BY <1>2, LowIndices, TableIs
  <2>2. Bind(F, p, d, w) = Placed(F, p, d, w)
    BY <1>2, <2>1 DEF Bind, BindLow
  <2> QED BY <1>2, <2>2, PlacedAlone
<1>3. CASE d = 0 /\ 1 \in S
  <2>1. F.table[p][1] # Null /\ F.table[p][1] = Hid(p, 1)
    BY <1>3, LowIndices, TableIs
  <2>2. Bind(F, p, d, w) = PreInsert(Placed(F, p, d, w), Hid(p, 1), NewId(F, p, d))
    BY <1>3, <2>1 DEF Bind, BindLow
  <2>3. d < 1 /\ \A c \in S : c <= d \/ 1 <= c
    BY <1>1, <1>3
  <2> QED BY <1>3, <2>2, <2>3, LinkedBefore
<1>4. CASE d = 1
  <2>1. F.table[p][0] # Null /\ F.table[p][0] = Hid(p, 0)
    BY <1>4, LowIndices, TableIs
  <2>2. Bind(F, p, d, w) = NxtInsert(Placed(F, p, d, w), Hid(p, 0), NewId(F, p, d))
    BY <1>4, <2>1 DEF Bind, BindLow
  <2>3. 0 < d /\ \A c \in S : c <= 0 \/ d <= c
    BY <1>1, <1>4
  <2> QED BY <1>4, <2>2, <2>3, LinkedBehind
<1>5. CASE d > 1
  <2> DEFINE l == Walk(F, p)
             Below(x) == FD(x) < d
             I == {i \in 1 .. Len(l) : FD(l[i]) < d}
             k == SelectLastInSeq(l, LAMBDA x : FD(x) < d)
             a == l[k]
  <2>1. PICK b \in S :
          /\ b \in {0, 1} /\ l \in Seq(DOMAIN F.handle) /\ Len(l) \in Nat /\ Len(l) > 0
          /\ \A e \in S : b <= e \/ e = 0
          /\ \A i \in 1 .. Len(l) : \E e \in S : l[i] = Hid(p, e) /\ b <= e
          /\ \A e \in S : b <= e => \E i \in 1 .. Len(l) : l[i] = Hid(p, e)
          /\ \A i, j \in 1 .. Len(l) : i < j => FD(l[i]) < FD(l[j])
    <3>1. 0 \in Nums(F.handle, p)
      BY <1>5
    <3> QED BY <3>1, WalkFacts
  <2>2. \A e \in S : FD(Hid(p, e)) = e
    BY <1>1, IdFacts
  <2>3. l # <<>> /\ ~ \E x \in Range(l) : FD(x) = d
    <3>1. DOMAIN l = 1 .. Len(l)
      BY <2>1
    <3> HIDE DEF l
    <3>2. ASSUME NEW i \in 1 .. Len(l)
          PROVE  FD(l[i]) # d
      <4>1. PICK e \in S : l[i] = Hid(p, e)
        BY <2>1
      <4> HIDE DEF S
      <4> QED BY <2>2, <4>1 DEF S
    <3>3. l # <<>>
      BY <2>1
    <3> QED BY <3>1, <3>2, <3>3 DEF Range
  <2>4. Bind(F, p, d, w) = NxtInsert(Placed(F, p, d, w), a, NewId(F, p, d))
    <3>1. d \notin {0, 1} /\ d # -1 /\ d > 1
      BY <1>5
    <3>2. BindAt(F, p, d, w) = NxtInsert(Placed(F, p, d, w), a, NewId(F, p, d))
      BY DEF BindAt
    <3> HIDE DEF l, a
    <3>3. Walk(F, p) # <<>> /\ ~ \E x \in Range(Walk(F, p)) : FD(x) = d
      BY <2>3 DEF l
    <3>4. Bind(F, p, d, w) = BindAt(F, p, d, w)
      BY <3>1, <3>3 DEF Bind
    <3> QED BY <3>2, <3>4
  <2>5. I # {}
    <3>1. PICK i \in 1 .. Len(l) : l[i] = Hid(p, b)
      BY <1>1, <2>1
    <3>2. FD(l[i]) = b
      BY <2>2, <3>1
    <3>3. b < d
      BY <1>5, <2>1
    <3> HIDE DEF l
    <3> QED BY <3>2, <3>3
  <2>6. k = Max(I)
    BY <2>5 DEF SelectLastInSeq
  <2>7. Max(I) \in I /\ \A i \in I : i <= Max(I)
    <3>1. I \in SUBSET (0 .. Len(l))
      BY <2>1
    <3> HIDE DEF I
    <3> QED BY <2>1, <2>5, <3>1, GreatestOf
  <2> HIDE DEF k, l
  <2>8. k \in 1 .. Len(l) /\ FD(a) < d /\ \A i \in 1 .. Len(l) : FD(l[i]) < d => i <= k
    BY <2>6, <2>7
  <2>9. PICK e \in S : a = Hid(p, e) /\ b <= e
    BY <2>1, <2>8
  <2>10. FD(a) = e /\ e \in Nat /\ e < d
    BY <1>1, <2>2, <2>8, <2>9
  <2>11. ASSUME NEW c \in S
         PROVE  c <= e \/ d <= c
    <3> SUFFICES ASSUME e < c, c < d
                 PROVE  FALSE
      BY <1>1, <2>10
    <3>1. b <= c
      BY <1>1, <2>1, <2>9, <2>10
    <3>2. PICK j \in 1 .. Len(l) : l[j] = Hid(p, c)
      BY <2>1, <3>1
    <3>3. FD(l[j]) = c
      BY <2>2, <3>2
    <3>4. j <= k
      BY <2>8, <3>3
    <3>5. j # k
      BY <1>1, <2>10, <3>3
    <3>6. j < k
      BY <2>1, <2>8, <3>4, <3>5
    <3>7. c < e
      BY <2>1, <2>8, <2>10, <3>3, <3>6
    <3> QED BY <1>1, <2>10, <3>7
  <2>12. Bound(F, NxtInsert(Placed(F, p, d, w), Hid(p, e), NewId(F, p, d)), p, d, w)
    BY <2>10, <2>11, LinkedBehind
  <2> QED BY <2>4, <2>9, <2>12
<1> QED BY <1>2, <1>3, <1>4, <1>5

(* GetFileHandleFromFD *)
LEMMA LookupIs ==
    ASSUME NEW F, Sound(F), NEW p \in Processes, NEW d \in Nat,
           0 \in Nums(F.handle, p) \/ Nums(F.handle, p) = {}
    PROVE  /\ Lookup(F, p, d) = IF d \in Nums(F.handle, p) THEN Hid(p, d) ELSE Null
           /\ Lookup(F, p, d) # Null <=> d \in Nums(F.handle, p)
<1> DEFINE S == Nums(F.handle, p)
           l == From(F, F.table[p][0])
           I == {i \in 1 .. Len(l) : FD(l[i]) = d}
           k == SelectInSeq(l, LAMBDA h : FD(h) = d)
<1>1. \A e \in S : e \in Nat /\ FD(Hid(p, e)) = e
  BY IdFacts DEF Nums
<1>2. CASE d \in Indices
  BY <1>2, TableIs DEF Lookup
<1>3. CASE d \notin Indices
  <2>1. Lookup(F, p, d) = IF k = 0 THEN Null ELSE l[k]
    BY <1>3 DEF Lookup
  <2>2. k = IF I # {} THEN Min(I) ELSE 0
    BY DEF SelectInSeq
  <2>3. /\ Len(l) \in Nat
        /\ \A i \in 1 .. Len(l) : \E e \in S : l[i] = Hid(p, e)
        /\ \A e \in S : \E i \in 1 .. Len(l) : l[i] = Hid(p, e)
    <3>1. CASE 0 \in S
      BY <3>1, ListFacts
    <3>2. CASE S = {}
      <4>1. F.table[p][0] = Null
        BY <3>2, LowIndices, TableIs
      <4>2. l = <<>>
        BY <4>1, FromNull, SoundFacts
      <4> HIDE DEF l
      <4> QED BY <3>2, <4>2
    <3> QED BY <3>1, <3>2
  <2> HIDE DEF k, l
  <2>4. CASE d \in S
    <3>1. PICK i \in 1 .. Len(l) : l[i] = Hid(p, d)
      BY <2>3, <2>4
    <3>2. I # {} /\ I \in SUBSET Nat
      <4>1. FD(l[i]) = d
        BY <1>1, <2>4, <3>1
      <4>2. i \in I
        BY <4>1
      <4>3. \A j \in 1 .. Len(l) : j \in Nat
        BY <2>3
      <4>4. I \in SUBSET Nat
        BY <4>3
      <4> QED BY <4>2, <4>4
    <3>3. Min(I) \in I
      <4> HIDE DEF I
      <4> QED BY <3>2, LeastOf
    <3>4. k \in 1 .. Len(l) /\ FD(l[k]) = d
      BY <2>2, <3>2, <3>3
    <3>5. PICK e \in S : l[k] = Hid(p, e)
      BY <2>3, <3>4
    <3>6. e = d /\ k # 0
      BY <1>1, <2>3, <3>4, <3>5
    <3> QED BY <2>1, <2>4, <3>5, <3>6, IdFacts
  <2>5. CASE d \notin S
    <3>1. I = {}
      BY SMTT(30), <1>1, <2>3, <2>5
    <3> QED BY <2>1, <2>2, <2>5, <3>1
  <2> QED BY <2>4, <2>5
<1> QED BY <1>2, <1>3

-----------------------------------------------------------------------------
(* Tables between two system calls.                                        *)

Tidy(F) == Sound(F) /\ Books(F, NoDues)

LEMMA NothingDue == NoDues \in Dues /\ \A n \in Nodes : NoDues[n].refs = 0 /\ NoDues[n].writers = 0
<1>1. NoDues \in [Nodes -> [refs : Nat, writers : Nat]]
  BY DEF NoDues
<1>2. \A n \in Nodes : NoDues[n].refs = 0 /\ NoDues[n].writers = 0
  BY DEF NoDues
<1> QED BY <1>1, <1>2 DEF Dues

(* A file that is named exists. *)
LEMMA NamedExists ==
    ASSUME NEW F, Tidy(F), NEW h \in DOMAIN F.handle
    PROVE  LET w == F.handle[h].is
           IN  w \in Files /\ w.file \in Nodes /\ F.node[w.file].exists
<1> DEFINE w == F.handle[h].is
           n == w.file
<1>1. w \in Files /\ n \in Nodes
  BY DEF Tidy, Books, Files, Handles
<1>2. h \in Namers(F.handle, n)
  BY DEF Namers
<1>3. IsFiniteSet(DOMAIN F.handle)
  BY DEF Tidy, Sound, Shaped
<1> HIDE DEF n, w
<1>4. Cardinality(Namers(F.handle, n)) \in Nat /\ Cardinality(Namers(F.handle, n)) # 0
  BY <1>2, <1>3, NamersFinite
<1>5. F.node[n].refs = Cardinality(Namers(F.handle, n)) + NoDues[n].refs
  BY <1>1 DEF Tidy, Books, Counts
<1>6. F.node[n].refs # 0
  BY <1>1, <1>4, <1>5, NothingDue
<1>7. F.node[n] # NoNode
  BY <1>6 DEF NoNode
<1>8. Lives(F.node[n], n)
  BY <1>1 DEF Tidy, Books
<1>9. F.node[n].exists
  BY <1>7, <1>8 DEF Lives, Kept
<1> QED BY <1>1, <1>9 DEF n, w

LEMMA Opened ==
    ASSUME NEW F, Tidy(F), NEW w \in Files, F.node[w.file].exists, NEW p \in Processes
    PROVE  /\ 0 \in Nums(F.handle, p) =>
                \E d \in Nat \ Nums(F.handle, p) :
                  /\ \A c \in Nat : c < d => c \in Nums(F.handle, p)
                  /\ Tidy(Open(F, p, w, -1))
                  /\ Added(F.handle, Open(F, p, w, -1).handle, Hid(p, d), w)
           /\ \A d \in Nat \ Nums(F.handle, p) :
                (IF d = 0 THEN Nums(F.handle, p) = {} \/ 1 \in Nums(F.handle, p)
                 ELSE 0 \in Nums(F.handle, p)) =>
                  /\ Tidy(Open(F, p, w, d))
                  /\ Added(F.handle, Open(F, p, w, d).handle, Hid(p, d), w)
<1> DEFINE G == Ref(F, w)
<1>1. /\ Sound(F) /\ w \in Handles /\ NoDues \in Dues
      /\ Counts(F.handle, F.node, NoDues)
      /\ \A h \in DOMAIN F.handle : F.handle[h].is \in Files
      /\ \A n \in Nodes : Kept(F.node[n], n) /\ (n # w.file => Lives(F.node[n], n))
  BY NothingDue DEF Tidy, Books, Lives, Files
<1>2. /\ Sound(G) /\ G.handle = F.handle
      /\ Owe(NoDues, w) \in Dues /\ Books(G, Owe(NoDues, w))
  BY <1>1, RefBooks
<1>3. Shaped(G.handle)
  BY <1>2 DEF Sound
<1> HIDE DEF G
<1>4. ASSUME NEW K, NEW d, Bound(G, K, p, d, w)
      PROVE  Tidy(K) /\ Added(F.handle, K.handle, Hid(p, d), w)
  <2>1. Books(K, NoDues)
    BY <1>1, <1>2, <1>3, <1>4, BoundBooks
  <2> QED BY <1>2, <1>4, <2>1 DEF Tidy, Bound
<1>5. \A d : Open(F, p, w, d) = Bind(G, p, d, w)
  BY DEF Open, G
<1>6. ASSUME 0 \in Nums(F.handle, p)
      PROVE  \E d \in Nat \ Nums(F.handle, p) :
                  /\ \A c \in Nat : c < d => c \in Nums(F.handle, p)
                  /\ Tidy(Open(F, p, w, -1))
                  /\ Added(F.handle, Open(F, p, w, -1).handle, Hid(p, d), w)
  <2>1. PICK d \in Nat \ Nums(G.handle, p) :
               /\ \A c \in Nat : c < d => c \in Nums(G.handle, p)
               /\ Bound(G, Bind(G, p, -1, w), p, d, w)
    BY <1>1, <1>2, <1>6, BindFree
  <2> QED BY <1>2, <1>4, <1>5, <2>1
<1>7. ASSUME NEW d \in Nat \ Nums(F.handle, p),
             IF d = 0 THEN Nums(F.handle, p) = {} \/ 1 \in Nums(F.handle, p)
             ELSE 0 \in Nums(F.handle, p)
      PROVE  Tidy(Open(F, p, w, d)) /\ Added(F.handle, Open(F, p, w, d).handle, Hid(p, d), w)
  <2>1. Bound(G, Bind(G, p, d, w), p, d, w)
    BY <1>1, <1>2, <1>7, BindNumber
  <2> QED BY <1>4, <1>5, <2>1
<1> QED BY <1>6, <1>7

\* The handles J are some of H.
Within(H, J) == DOMAIN J \subseteq DOMAIN H /\ \A x \in DOMAIN J : J[x].is = H[x].is

\* DestroyFileTable of process p is at h, with the table G left of F.
Destroying(F, G, p, h) ==
    /\ Tidy(G) /\ Within(F.handle, G.handle)
    /\ \A q \in Processes \ {p} : Nums(G.handle, q) = Nums(F.handle, q)
    /\ \/ h = Null /\ Nums(G.handle, p) = {}
       \/ \E d \in Nums(G.handle, p) : h = Hid(p, d) /\ \A c \in Nums(G.handle, p) : d <= c

LEMMA DestroyStep ==
    ASSUME NEW F, NEW G, NEW p \in Processes, NEW h, Destroying(F, G, p, h), h # Null
    PROVE  /\ Destroying(F, Delete(G, h), p, Following(G, h))
           /\ Cardinality(DOMAIN Delete(G, h).handle) = Cardinality(DOMAIN G.handle) - 1
           /\ h \in DOMAIN G.handle
<1> DEFINE S == Nums(G.handle, p)
           K == Delete(G, h)
           y == Following(G, h)
<1>1. PICK d \in S : h = Hid(p, d) /\ \A c \in S : d <= c
  BY DEF Destroying
<1>2. Tidy(G) /\ Sound(G) /\ Books(G, NoDues) /\ Within(F.handle, G.handle)
  BY DEF Destroying, Tidy
<1>3. Tidy(K) /\ Removed(G.handle, K.handle, h)
  BY <1>1, <1>2, NothingDue, Deleted DEF Tidy
<1> HIDE DEF K
<1>4. DOMAIN K.handle = DOMAIN G.handle \ {h} /\ h \in DOMAIN G.handle
  BY <1>3 DEF Removed
<1>5. Nums(K.handle, p) = S \ {d} /\ \A q \in Processes \ {p} : Nums(K.handle, q) = Nums(G.handle, q)
  <2>1. d \in Nat
    BY DEF Nums
  <2> QED BY <1>1, <1>4, <2>1, NumsRemoved
<1>6. Within(F.handle, K.handle)
  BY <1>2, <1>3 DEF Within, Removed
<1>7. y = G.handle[Hid(p, d)].nxt
  BY <1>1 DEF Following
<1> HIDE DEF y
<1>8. \/ y = Null /\ S \ {d} = {}
      \/ \E g \in S \ {d} : y = Hid(p, g) /\ \A c \in S \ {d} : g <= c
  <2>1. \A c \in S : c \in Nat
    BY DEF Nums
  <2>2. CASE y = Null /\ \A c \in S : c <= d
    <3>1. \A c \in S : c = d
      BY <1>1, <2>1, <2>2
    <3> QED BY <2>2, <3>1
  <2>3. CASE y # Null /\ FD(y) \in S /\ d < FD(y) /\ y = Hid(p, FD(y))
             /\ \A c \in S : c <= d \/ FD(y) <= c
    <3> PICK g : g = FD(y)
      OBVIOUS
    <3>1. g \in S /\ d < g /\ y = Hid(p, g) /\ \A c \in S : c <= d \/ g <= c
      BY <2>3
    <3>2. g \in S \ {d}
      BY <2>1, <3>1
    <3>3. \A c \in S \ {d} : g <= c
      BY <1>1, <2>1, <3>1
    <3> QED BY <3>1, <3>2, <3>3
  <2> HIDE DEF S
  <2> QED BY <1>2, <1>7, <2>2, <2>3, NextNumber DEF S
<1>9. Destroying(F, K, p, y)
  <2>1. \A q \in Processes \ {p} : Nums(K.handle, q) = Nums(F.handle, q)
    BY <1>5 DEF Destroying
  <2> QED BY <1>3, <1>5, <1>6, <1>8, <2>1 DEF Destroying
<1>10. Cardinality(DOMAIN K.handle) = Cardinality(DOMAIN G.handle) - 1
  <2>1. IsFiniteSet(DOMAIN G.handle)
    BY <1>2 DEF Sound, Shaped
  <2> QED BY <1>4, <2>1, FS_RemoveElement
<1> QED BY <1>4, <1>9, <1>10 DEF K, y

(* DestroyFileTable leaves a process nothing, and the others what they had. *)
LEMMA Destroyed ==
    ASSUME NEW F, Tidy(F), NEW p \in Processes,
           0 \in Nums(F.handle, p) \/ Nums(F.handle, p) = {}
    PROVE  Destroying(F, DestroyTable(F, p), p, Null)
<1> DEFINE start == [F |-> F, h |-> F.table[p][0]]
           A == CHOOSE a : a = [k \in Nat |-> IF k = 0 THEN start ELSE DestroyRound(a[k - 1])]
           N == Cardinality(DOMAIN F.handle)
           D == {st \in [F : FileTables, h : Links] : Destroying(F, st.F, p, st.h)}
           step == [st \in D |-> DestroyRound(st)]
<1>1. DestroyTable(F, p) = A[N].F
  BY DEF DestroyTable
<1>2. Sound(F) /\ IsFiniteSet(DOMAIN F.handle) /\ N \in Nat
  BY FS_CardinalityType DEF Tidy, Sound, Shaped
<1>3. start \in D
  <2>1. F.table[p][0] = IF 0 \in Nums(F.handle, p) THEN Hid(p, 0) ELSE Null
    BY <1>2, LowIndices, TableIs
  <2>2. \A c \in Nums(F.handle, p) : 0 <= c
    BY DEF Nums
  <2>3. Within(F.handle, F.handle)
    BY DEF Within
  <2>4. Destroying(F, F, p, F.table[p][0])
    BY <2>1, <2>2, <2>3 DEF Destroying
  <2>5. F \in FileTables /\ F.table[p][0] \in Links
    BY <1>2, <2>1, IdFacts DEF Sound, Links
  <2> QED BY <2>4, <2>5
<1>4. ASSUME NEW st \in D
      PROVE  /\ DestroyRound(st) \in D
             /\ st.h # Null =>
                  /\ Cardinality(DOMAIN DestroyRound(st).F.handle) = Cardinality(DOMAIN st.F.handle) - 1
                  /\ st.h \in DOMAIN st.F.handle
  <2>1. CASE st.h = Null
    BY <2>1 DEF DestroyRound
  <2>2. CASE st.h # Null
    <3> PICK G, h : G = st.F /\ h = st.h
      OBVIOUS
    <3>1. Destroying(F, G, p, h) /\ h # Null
      BY <2>2
    <3>2. /\ Destroying(F, Delete(G, h), p, Following(G, h))
          /\ Cardinality(DOMAIN Delete(G, h).handle) = Cardinality(DOMAIN G.handle) - 1
          /\ h \in DOMAIN G.handle
      BY <3>1, DestroyStep
    <3>3. DestroyRound(st) = [F |-> Delete(G, h), h |-> Following(G, h)]
      BY <2>2 DEF DestroyRound
    <3>4. Delete(G, h) \in FileTables
      BY <3>2 DEF Destroying, Tidy, Sound
    <3>5. Following(G, h) \in Links
      <4>1. \A d \in Nums(Delete(G, h).handle, p) : Hid(p, d) \in Links
        BY IdFacts DEF Nums, Links
      <4>2. Null \in Links
        BY DEF Links
      <4> QED BY <3>2, <4>1, <4>2 DEF Destroying
    <3>6. DestroyRound(st) \in D
      BY <3>2, <3>3, <3>4, <3>5
    <3> QED BY <3>2, <3>3, <3>6
  <2> QED BY <2>1, <2>2
<1>5. step \in [D -> D] /\ \A st \in D : step[st] = DestroyRound(st)
  BY <1>4
<1>6. PICK f \in [Nat -> D] : IsLoop(f, start, step)
  <2> HIDE DEF step, D, start
  <2> QED BY <1>3, <1>5, Rounds
<1>7. f = [k \in Nat |-> IF k = 0 THEN start ELSE DestroyRound(f[k - 1])]
  <2>1. ASSUME NEW k \in Nat, k # 0
        PROVE  step[f[k - 1]] = DestroyRound(f[k - 1])
    <3>1. k - 1 \in Nat
      BY <2>1
    <3> HIDE DEF step, D, start
    <3> QED BY <1>5, <3>1
  <2> HIDE DEF step, D, start
  <2> QED BY <1>6, <2>1 DEF IsLoop
<1>8. A = [k \in Nat |-> IF k = 0 THEN start ELSE DestroyRound(A[k - 1])]
  <2> HIDE DEF start
  <2> QED BY <1>7
<1> HIDE DEF A, start
<1>9. A[0] = start /\ \A k \in Nat : A[k + 1] = DestroyRound(A[k])
  <2>1. A[0] = start
    BY <1>8
  <2>2. ASSUME NEW k \in Nat
        PROVE  A[k + 1] = DestroyRound(A[k])
    <3>1. k + 1 \in Nat /\ k + 1 # 0 /\ (k + 1) - 1 = k
      OBVIOUS
    <3> QED BY <1>8, <3>1
  <2> QED BY <2>1, <2>2
<1> DEFINE Done(k) == /\ A[k] \in D
                      /\ A[k].h = Null \/ Cardinality(DOMAIN A[k].F.handle) + k <= N
           I == {k \in Nat : Done(k)}
<1>10. 0 \in I
  <2>1. A[0].F = F /\ A[0] \in D
    BY <1>3, <1>9 DEF start
  <2> QED BY <1>2, <2>1
<1>11. ASSUME NEW k \in I
       PROVE  k + 1 \in I
  <2> PICK st \in D : st = A[k]
    OBVIOUS
  <2>1. k \in Nat /\ A[k + 1] = DestroyRound(st)
    BY <1>9
  <2>2. DestroyRound(st) \in D
    BY <1>4
  <2>3. CASE st.h = Null
    <3>1. DestroyRound(st) = st
      BY <2>3 DEF DestroyRound
    <3> QED BY <2>1, <2>2, <2>3, <3>1
  <2>4. CASE st.h # Null
    <3>1. Cardinality(DOMAIN DestroyRound(st).F.handle) = Cardinality(DOMAIN st.F.handle) - 1
      BY <1>4, <2>4
    <3>2. Cardinality(DOMAIN st.F.handle) + k <= N
      BY <2>4
    <3>3. Cardinality(DOMAIN st.F.handle) \in Nat
      <4>1. IsFiniteSet(DOMAIN st.F.handle)
        BY DEF Destroying, Tidy, Sound, Shaped
      <4> QED BY <4>1, FS_CardinalityType
    <3> HIDE DEF D, N
    <3>4. Cardinality(DOMAIN A[k + 1].F.handle) + (k + 1) <= N
      BY <1>2, <2>1, <3>1, <3>2, <3>3
    <3> QED BY <2>1, <2>2, <3>4
  <2> QED BY <2>3, <2>4
<1>12. I = Nat
  <2> HIDE DEF I
  <2> QED BY <1>10, <1>11, AllNumbers DEF I
<1>13. A[N] \in D /\ (A[N].h = Null \/ Cardinality(DOMAIN A[N].F.handle) + N <= N)
  BY <1>2, <1>12
<1>14. A[N].h = Null
  <2> SUFFICES ASSUME A[N].h # Null
               PROVE  FALSE
    OBVIOUS
  <2> PICK st \in D : st = A[N]
    BY <1>13
  <2>1. st.h \in DOMAIN st.F.handle
    BY <1>4
  <2>2. IsFiniteSet(DOMAIN st.F.handle)
    BY DEF Destroying, Tidy, Sound, Shaped
  <2>3. Cardinality(DOMAIN st.F.handle) \in Nat /\ Cardinality(DOMAIN st.F.handle) # 0
    BY <2>1, <2>2, FS_CardinalityType, FS_EmptySet
  <2> HIDE DEF D, N
  <2> QED BY <1>2, <1>13, <2>3
<1> QED BY <1>1, <1>13, <1>14

\* CopyFileTable of src to q is at h, with the table G made of F.
Copying(F, G, src, q, h) ==
    /\ Tidy(G) /\ Within(G.handle, F.handle)
    /\ \A r \in Processes \ {q} : Nums(G.handle, r) = Nums(F.handle, r)
    /\ \A c \in Nums(G.handle, q) : G.handle[Hid(q, c)].is = F.handle[Hid(src, c)].is
    /\ \/ h = Null /\ Nums(G.handle, q) = Nums(F.handle, src)
       \/ \E d \in Nums(F.handle, src) :
             /\ h = Hid(src, d)
             /\ Nums(G.handle, q) = {c \in Nums(F.handle, src) : c < d}

\* The handles of src that have been copied at h.
Past(H, src, h) == {x \in DOMAIN H : ProcOf(x) = src /\ FD(x) < FD(h)}

LEMMA CopyStep ==
    ASSUME NEW F, Tidy(F), NEW G, NEW src \in Processes, NEW q \in Processes \ {src}, NEW h,
           0 \in Nums(F.handle, src), Copying(F, G, src, q, h), h # Null
    PROVE  LET K == Open(G, q, G.handle[h].is, FD(h))
               y == Following(K, h)
           IN  /\ Copying(F, K, src, q, y)
               /\ h \in DOMAIN F.handle /\ h \notin Past(F.handle, src, h)
               /\ y # Null => Past(F.handle, src, y) = Past(F.handle, src, h) \union {h}
<1> DEFINE S == Nums(F.handle, src)
           w == G.handle[h].is
<1>1. PICK d \in S : h = Hid(src, d) /\ Nums(G.handle, q) = {c \in S : c < d}
  BY DEF Copying
<1>2. d \in Nat /\ FD(h) = d /\ ProcOf(h) = src /\ h \in DOMAIN F.handle /\ 0 \in S
      /\ \A c \in S : c \in Nat
  BY <1>1, IdFacts DEF Nums
<1>3. Tidy(G) /\ Sound(G) /\ Within(G.handle, F.handle) /\ Nums(G.handle, src) = S
  BY DEF Copying, Tidy
<1>4. h \in DOMAIN G.handle /\ w = F.handle[h].is
  BY <1>2, <1>3 DEF Within
<1>5. w \in Files /\ G.node[w.file].exists
  BY <1>3, <1>4, NamedExists
<1> PICK K : K = Open(G, q, w, d)
  OBVIOUS
<1> PICK y : y = Following(K, h)
  OBVIOUS
<1>6. Tidy(K) /\ Added(G.handle, K.handle, Hid(q, d), w)
  <2>1. d \notin Nums(G.handle, q)
    BY <1>1, <1>2
  <2>2. IF d = 0 THEN Nums(G.handle, q) = {} ELSE 0 \in Nums(G.handle, q)
    <3> HIDE DEF S
    <3>1. CASE d = 0
      <4>1. \A c \in S : ~ (c < d)
        BY <1>2, <3>1
      <4> QED BY <1>1, <3>1, <4>1
    <3>2. CASE d # 0
      BY <1>1, <1>2, <3>2
    <3> QED BY <3>1, <3>2
  <2> HIDE DEF w, S
  <2> QED BY <1>2, <1>3, <1>5, <2>1, <2>2, Opened
<1> HIDE DEF w
<1>7. /\ DOMAIN K.handle = DOMAIN G.handle \union {Hid(q, d)} /\ Hid(q, d) \notin DOMAIN G.handle
      /\ K.handle[Hid(q, d)].is = w
      /\ \A x \in DOMAIN G.handle : K.handle[x].is = G.handle[x].is
  BY <1>6 DEF Added
<1>8. /\ Nums(K.handle, q) = Nums(G.handle, q) \union {d}
      /\ \A r \in Processes \ {q} : Nums(K.handle, r) = Nums(G.handle, r)
  BY <1>2, <1>7, NumsAdded
<1>9. Within(K.handle, F.handle)
  BY <1>3, <1>7 DEF Within
<1>10. ASSUME NEW c \in Nums(K.handle, q)
       PROVE  K.handle[Hid(q, c)].is = F.handle[Hid(src, c)].is
  <2>1. CASE c = d
    BY <1>1, <1>4, <1>7, <2>1
  <2>2. CASE c # d
    <3>1. c \in Nums(G.handle, q)
      BY <1>8, <2>2
    <3>2. Hid(q, c) \in DOMAIN G.handle
      BY <3>1 DEF Nums
    <3> QED BY <1>7, <3>1, <3>2 DEF Copying
  <2> QED BY <2>1, <2>2
<1>11. y = K.handle[Hid(src, d)].nxt
  BY <1>1, <1>2, IdFacts DEF Following
<1>12. \/ y = Null /\ \A c \in S : c <= d
       \/ \E e \in S : y = Hid(src, e) /\ d < e /\ \A c \in S : c <= d \/ e <= c
  <2>1. \/ y = Null /\ \A c \in S : c <= d
        \/ y # Null /\ FD(y) \in S /\ d < FD(y) /\ y = Hid(src, FD(y))
           /\ \A c \in S : c <= d \/ FD(y) <= c
    <3>1. d \in Nums(K.handle, src) /\ Nums(K.handle, src) = S /\ Sound(K)
      BY <1>3, <1>6, <1>8 DEF Tidy
    <3> HIDE DEF S
    <3> QED BY <1>11, <3>1, NextNumber
  <2> QED BY <2>1
<1>13. \/ y = Null /\ Nums(K.handle, q) = S
       \/ \E e \in S : y = Hid(src, e) /\ Nums(K.handle, q) = {c \in S : c < e}
  <2> HIDE DEF S
  <2> PICK U : U = Nums(K.handle, q)
    OBVIOUS
  <2>3. \A c : c \in U <=> c \in S /\ (c < d \/ c = d)
    BY <1>1, <1>8
  <2>1. CASE y = Null /\ \A c \in S : c <= d
    <3>1. \A c \in S : c < d \/ c = d
      BY <1>2, <2>1
    <3> QED BY <2>1, <2>3, <3>1
  <2>2. ASSUME NEW e \in S, y = Hid(src, e), d < e, \A c \in S : c <= d \/ e <= c
        PROVE  U = {c \in S : c < e}
    <3>1. \A c \in S : c < e <=> c < d \/ c = d
      BY <1>2, <2>2
    <3> QED BY <2>3, <3>1
  <2> QED BY <1>12, <2>1, <2>2
<1>14. Copying(F, K, src, q, y)
  <2>1. \A r \in Processes \ {q} : Nums(K.handle, r) = Nums(F.handle, r)
    BY <1>8 DEF Copying
  <2> QED BY <1>6, <1>9, <1>10, <1>13, <2>1 DEF Copying
<1>15. h \notin Past(F.handle, src, h)
  BY <1>2 DEF Past
<1>16. ASSUME y # Null
       PROVE  Past(F.handle, src, y) = Past(F.handle, src, h) \union {h}
  <2>1. PICK e \in S : y = Hid(src, e) /\ d < e /\ \A c \in S : c <= d \/ e <= c
    BY <1>12, <1>16
  <2>2. e \in Nat /\ FD(y) = e
    BY <1>2, <2>1, IdFacts
  <2>3. ASSUME NEW x \in DOMAIN F.handle, ProcOf(x) = src
        PROVE  FD(x) < e <=> FD(x) < d \/ x = h
    <3>1. x \in Ids
      BY DEF Tidy, Sound, Shaped
    <3>2. FD(x) \in Nat /\ x = Hid(src, FD(x))
      BY <2>3, <3>1, IdIs
    <3>3. FD(x) \in S
      BY <3>2 DEF Nums
    <3>4. x = h <=> FD(x) = d
      BY <1>1, <1>2, <3>2
    <3> HIDE DEF S
    <3> QED BY <1>2, <2>1, <2>2, <3>2, <3>3, <3>4
  <2> QED BY <1>2, <2>2, <2>3 DEF Past
<1> QED BY <1>2, <1>14, <1>15, <1>16 DEF w

(* CopyFileTable gives a child the descriptors of its father. *)
LEMMA Copied ==
    ASSUME NEW F, Tidy(F), NEW src \in Processes, NEW q \in Processes \ {src},
           0 \in Nums(F.handle, src), Nums(F.handle, q) = {}
    PROVE  Copying(F, CopyTable(F, src, q), src, q, Null)
<1> DEFINE start == [F |-> F, h |-> F.table[src][0]]
           A == CHOOSE a : a = [k \in Nat |-> IF k = 0 THEN start ELSE CopyRound(a[k - 1], q)]
           N == Cardinality(DOMAIN F.handle)
           D == {st \in [F : FileTables, h : Links] : Copying(F, st.F, src, q, st.h)}
           step == [st \in D |-> CopyRound(st, q)]
           Made(st) == Past(F.handle, src, st.h)
<1>1. CopyTable(F, src, q) = A[N].F
  BY DEF CopyTable
<1>2. Sound(F) /\ IsFiniteSet(DOMAIN F.handle) /\ N \in Nat
  BY FS_CardinalityType DEF Tidy, Sound, Shaped
<1>3. start \in D /\ start.h = Hid(src, 0) /\ start.h # Null /\ Made(start) = {}
  <2>1. F.table[src][0] = Hid(src, 0)
    BY <1>2, LowIndices, TableIs
  <2>2. {c \in Nums(F.handle, src) : c < 0} = {}
    BY DEF Nums
  <2>3. Within(F.handle, F.handle)
    BY DEF Within
  <2>4. Copying(F, F, src, q, F.table[src][0])
    BY <2>1, <2>2, <2>3 DEF Copying
  <2>5. F \in FileTables /\ F.table[src][0] \in Links /\ F.table[src][0] # Null
    BY <1>2, <2>1, IdFacts DEF Sound, Links
  <2>6. Past(F.handle, src, Hid(src, 0)) = {}
    <3>1. FD(Hid(src, 0)) = 0
      BY IdFacts
    <3>2. \A x \in DOMAIN F.handle : FD(x) \in Nat
      BY <1>2, IdIs DEF Sound, Shaped
    <3>3. \A x \in DOMAIN F.handle : ~ (FD(x) < 0)
      BY <3>2
    <3> QED BY <3>1, <3>3 DEF Past
  <2> QED BY <2>1, <2>4, <2>5, <2>6
<1>4. ASSUME NEW st \in D
      PROVE  /\ CopyRound(st, q) \in D
             /\ st.h # Null =>
                  /\ st.h \in DOMAIN F.handle /\ st.h \notin Made(st)
                  /\ CopyRound(st, q).h # Null => Made(CopyRound(st, q)) = Made(st) \union {st.h}
  <2>1. CASE st.h = Null
    BY <2>1 DEF CopyRound
  <2>2. CASE st.h # Null
    <3> PICK G, h : G = st.F /\ h = st.h
      OBVIOUS
    <3> PICK K, y : K = Open(G, q, G.handle[h].is, FD(h)) /\ y = Following(K, h)
      OBVIOUS
    <3>1. Copying(F, G, src, q, h) /\ h # Null
      BY <2>2
    <3>2. /\ Copying(F, K, src, q, y)
          /\ h \in DOMAIN F.handle /\ h \notin Past(F.handle, src, h)
          /\ y # Null => Past(F.handle, src, y) = Past(F.handle, src, h) \union {h}
      BY <3>1, CopyStep
    <3>3. CopyRound(st, q) = [F |-> K, h |-> y]
      BY <2>2 DEF CopyRound
    <3>4. K \in FileTables
      BY <3>2 DEF Copying, Tidy, Sound
    <3>5. y \in Links
      <4>1. \A d \in Nums(F.handle, src) : Hid(src, d) \in Links
        BY IdFacts DEF Nums, Links
      <4>2. Null \in Links
        BY DEF Links
      <4> QED BY <3>2, <4>1, <4>2 DEF Copying
    <3>6. CopyRound(st, q) \in D
      BY <3>2, <3>3, <3>4, <3>5
    <3> QED BY SMTT(30), <3>2, <3>3, <3>6
  <2> QED BY <2>1, <2>2
<1>5. step \in [D -> D] /\ \A st \in D : step[st] = CopyRound(st, q)
  BY <1>4
<1>6. PICK f \in [Nat -> D] : IsLoop(f, start, step)
  <2> HIDE DEF step, D, start
  <2> QED BY <1>3, <1>5, Rounds
<1>7. f = [k \in Nat |-> IF k = 0 THEN start ELSE CopyRound(f[k - 1], q)]
  <2>1. ASSUME NEW k \in Nat, k # 0
        PROVE  step[f[k - 1]] = CopyRound(f[k - 1], q)
    <3>1. k - 1 \in Nat
      BY <2>1
    <3> HIDE DEF step, D, start
    <3> QED BY <1>5, <3>1
  <2> HIDE DEF step, D, start
  <2> QED BY <1>6, <2>1 DEF IsLoop
<1>8. A = [k \in Nat |-> IF k = 0 THEN start ELSE CopyRound(A[k - 1], q)]
  <2> HIDE DEF start
  <2> QED BY <1>7
<1> HIDE DEF A, start
<1>9. A[0] = start /\ \A k \in Nat : A[k + 1] = CopyRound(A[k], q)
  <2>1. A[0] = start
    BY <1>8
  <2>2. ASSUME NEW k \in Nat
        PROVE  A[k + 1] = CopyRound(A[k], q)
    <3>1. k + 1 \in Nat /\ k + 1 # 0 /\ (k + 1) - 1 = k
      OBVIOUS
    <3> QED BY <1>8, <3>1
  <2> QED BY <2>1, <2>2
<1>10. \A h : IsFiniteSet(Past(F.handle, src, h))
  <2>1. \A h : Past(F.handle, src, h) \subseteq DOMAIN F.handle
    BY DEF Past
  <2> QED BY <1>2, <2>1, FS_Subset
<1> DEFINE Done(k) == /\ A[k] \in D
                      /\ A[k].h = Null \/ Cardinality(Made(A[k])) = k
           I == {k \in Nat : Done(k)}
<1>11. 0 \in I
  <2>1. Cardinality(Made(A[0])) = 0
    BY <1>3, <1>9, FS_EmptySet
  <2> QED BY <1>3, <1>9, <2>1
<1>12. ASSUME NEW k \in I
       PROVE  k + 1 \in I
  <2> PICK st \in D : st = A[k]
    OBVIOUS
  <2> PICK u : u = CopyRound(st, q)
    OBVIOUS
  <2>1. k \in Nat /\ A[k + 1] = u
    BY <1>9
  <2>2. u \in D
    BY <1>4
  <2>3. CASE st.h = Null
    <3>1. u = st
      BY <2>3 DEF CopyRound
    <3> QED BY <2>1, <2>2, <2>3, <3>1
  <2>4. CASE st.h # Null /\ u.h # Null
    <3>1. Made(u) = Made(st) \union {st.h} /\ st.h \notin Made(st)
      BY <1>4, <2>4
    <3>2. Cardinality(Made(st)) = k /\ IsFiniteSet(Made(st))
      BY <1>10, <2>4
    <3> PICK X, x : X = Made(st) /\ x = st.h
      OBVIOUS
    <3>3. IsFiniteSet(X) /\ x \notin X
      BY <3>1, <3>2
    <3>4. Cardinality(X \union {x}) = Cardinality(X) + 1
      BY ONLY <3>3, FS_AddElement
    <3>5. Cardinality(Made(u)) = k + 1
      BY <3>1, <3>2, <3>4
    <3> QED BY <2>1, <2>2, <3>5
  <2>5. CASE u.h = Null
    BY <2>1, <2>2, <2>5
  <2> QED BY <2>3, <2>4, <2>5
<1>13. I = Nat
  <2> HIDE DEF I
  <2> QED BY <1>11, <1>12, AllNumbers DEF I
<1>14. A[N] \in D /\ (A[N].h = Null \/ Cardinality(Made(A[N])) = N)
  BY <1>2, <1>13
<1>15. A[N].h = Null
  <2> SUFFICES ASSUME A[N].h # Null
               PROVE  FALSE
    OBVIOUS
  <2> PICK st \in D : st = A[N]
    BY <1>14
  <2>1. st.h \in DOMAIN F.handle /\ st.h \notin Made(st)
    BY <1>4
  <2>2. Made(st) \subseteq DOMAIN F.handle \ {st.h}
    BY <2>1 DEF Past
  <2>3. Cardinality(DOMAIN F.handle \ {st.h}) = N - 1 /\ IsFiniteSet(DOMAIN F.handle \ {st.h})
    BY <1>2, <2>1, FS_RemoveElement
  <2>4. Cardinality(Made(st)) <= N - 1
    BY <2>2, <2>3, FS_Subset
  <2> HIDE DEF D, N, Made
  <2> QED BY <1>2, <1>14, <2>4
<1> QED BY <1>1, <1>14, <1>15

(* InitFileTable gives a process without descriptors the three of the serial port. *)
LEMMA Started ==
    ASSUME NEW F, Tidy(F), NEW q \in Processes, Nums(F.handle, q) = {}
    PROVE  LET G == InitTable(F, q)
           IN  /\ Tidy(G) /\ Within(G.handle, F.handle)
               /\ Nums(G.handle, q) = 0 .. 2
               /\ \A r \in Processes \ {q} : Nums(G.handle, r) = Nums(F.handle, r)
               /\ \A c \in 0 .. 2 : G.handle[Hid(q, c)].is = Plain(StdIO)
<1> PICK H, T, N, f : H = F.handle /\ T = F.table /\ N = F.node /\ f = F.fault
  OBVIOUS
<1> PICK G : G = InitTable(F, q)
  OBVIOUS
<1>1. /\ Shaped(H) /\ Linked(H) /\ f = FALSE /\ T = TableOf(H) /\ N \in [Nodes -> NodeRecords]
      /\ F = [handle |-> H, table |-> T, node |-> N, fault |-> f]
  BY SoundFacts DEF Tidy
<1> DEFINE At(c) == IF c \in 0 .. 2 THEN Hid(q, c) ELSE Null
           X == {Hid(q, 0), Hid(q, 1), Hid(q, 2)}
           new(h) == [is |-> Plain(StdIO), pre |-> At(FD(h) - 1), nxt |-> At(FD(h) + 1)]
           K == [h \in DOMAIN H \union X |-> IF h \notin X THEN H[h] ELSE new(h)]
           row == [i \in Indices |-> At(i)]
           M == [N EXCEPT ![StdIO].refs = @ + 3]
<1>2. G = [F EXCEPT !.handle = K, !.table[q] = row, !.node[StdIO].refs = @ + 3]
  <2> DEFINE std == [c \in 0 .. 2 |-> Id(q, c, 1)]
  <2>1. Range(std) = X
    <3>1. DOMAIN std = {0, 1, 2}
      OBVIOUS
    <3> QED BY <3>1 DEF Range, Hid
  <2>2. \A c : At(c) = IF c \in 0 .. 2 THEN std[c] ELSE Null
    BY DEF Hid
  <2>3. G = [F EXCEPT !.handle = [h \in DOMAIN F.handle \union Range(std) |->
                         IF h \notin Range(std) THEN F.handle[h]
                         ELSE [is |-> Plain(StdIO),
                               pre |-> IF FD(h) - 1 \in 0 .. 2 THEN std[FD(h) - 1] ELSE Null,
                               nxt |-> IF FD(h) + 1 \in 0 .. 2 THEN std[FD(h) + 1] ELSE Null]],
                      !.table[q] = [i \in Indices |-> IF i \in 0 .. 2 THEN std[i] ELSE Null],
                      !.node[StdIO].refs = @ + 3]
    BY Zenon DEF InitTable
  <2> HIDE DEF std, X, At
  <2>4. K = [h \in DOMAIN F.handle \union Range(std) |->
                         IF h \notin Range(std) THEN F.handle[h]
                         ELSE [is |-> Plain(StdIO),
                               pre |-> IF FD(h) - 1 \in 0 .. 2 THEN std[FD(h) - 1] ELSE Null,
                               nxt |-> IF FD(h) + 1 \in 0 .. 2 THEN std[FD(h) + 1] ELSE Null]]
    BY <2>1, <2>2
  <2>5. row = [i \in Indices |-> IF i \in 0 .. 2 THEN std[i] ELSE Null]
    BY <2>2
  <2> HIDE DEF K, row
  <2> QED BY <2>3, <2>4, <2>5, Zenon
<1>3. G = [handle |-> K, table |-> [T EXCEPT ![q] = row], node |-> M, fault |-> f]
  <2> PICK k, r : k = K /\ r = row
    OBVIOUS
  <2>1. G = [F EXCEPT !.handle = k, !.table[q] = r, !.node[StdIO].refs = @ + 3]
    BY <1>2
  <2>2. G = [handle |-> k, table |-> [T EXCEPT ![q] = r],
             node |-> [N EXCEPT ![StdIO].refs = @ + 3], fault |-> f]
    <3>1. F = [handle |-> H, table |-> T, node |-> N, fault |-> f]
      BY <1>1
    <3> QED BY ONLY <2>1, <3>1
  <2> QED BY <2>2
<1>4. /\ Hid(q, 0) \notin DOMAIN H /\ Hid(q, 1) \notin DOMAIN H /\ Hid(q, 2) \notin DOMAIN H
      /\ Hid(q, 0) # Hid(q, 1) /\ Hid(q, 0) # Hid(q, 2) /\ Hid(q, 1) # Hid(q, 2)
      /\ X \subseteq Ids
      /\ FD(Hid(q, 0)) = 0 /\ FD(Hid(q, 1)) = 1 /\ FD(Hid(q, 2)) = 2
      /\ \A c \in 0 .. 2 : Hid(q, c) \in X
  <2>1. 0 \in Nat /\ 1 \in Nat /\ 2 \in Nat /\ 0 # 1 /\ 0 # 2 /\ 1 # 2 /\ 0 .. 2 = {0, 1, 2}
    OBVIOUS
  <2>2. \A d \in Nat : Hid(q, d) \notin DOMAIN H
    BY DEF Nums
  <2> QED BY <2>1, <2>2, IdFacts
<1>5. Plain(StdIO) \in Files /\ Plain(StdIO) \in Handles /\ StdIO \in Nodes
  BY DEF Plain, Files, Handles, Nodes
<1>6. Shaped(K) /\ DOMAIN K = DOMAIN H \union X
  <2>1. IsFiniteSet(DOMAIN H \union X)
    <3>1. IsFiniteSet(DOMAIN H)
      BY <1>1 DEF Shaped
    <3>2. IsFiniteSet(DOMAIN H \union {Hid(q, 0)})
      BY <3>1, FS_AddElement
    <3>3. IsFiniteSet((DOMAIN H \union {Hid(q, 0)}) \union {Hid(q, 1)})
      BY <3>2, FS_AddElement
    <3>4. IsFiniteSet(((DOMAIN H \union {Hid(q, 0)}) \union {Hid(q, 1)}) \union {Hid(q, 2)})
      BY <3>3, FS_AddElement
    <3>5. ((DOMAIN H \union {Hid(q, 0)}) \union {Hid(q, 1)}) \union {Hid(q, 2)} = DOMAIN H \union X
      OBVIOUS
    <3> QED BY <3>4, <3>5
  <2>2. \A c : At(c) \in Links
    BY <1>4 DEF Links
  <2>3. \A h : new(h) \in HandleRecords
    BY <1>5, <2>2 DEF HandleRecords
  <2>4. \A h \in DOMAIN H : H[h] \in HandleRecords
    BY <1>1 DEF Shaped, HandleRecords
  <2> HIDE DEF new, At, X
  <2>5. DOMAIN H \union X \subseteq Ids
    BY <1>1, <1>4 DEF Shaped
  <2>6. K \in [DOMAIN H \union X -> HandleRecords]
    BY <2>3, <2>4
  <2>7. DOMAIN K = DOMAIN H \union X
    OBVIOUS
  <2> HIDE DEF K
  <2> QED BY <2>1, <2>5, <2>6, <2>7 DEF Shaped, HandleRecords
<1>7. /\ \A h \in DOMAIN H : K[h] = H[h]
      /\ \A c \in 0 .. 2 : K[Hid(q, c)] = [is |-> Plain(StdIO), pre |-> At(c - 1), nxt |-> At(c + 1)]
  <2>1. \A h \in DOMAIN H : h \notin X
    BY <1>4
  <2>2. \A c \in 0 .. 2 : FD(Hid(q, c)) = c
    BY IdFacts
  <2>3. \A c \in 0 .. 2 : K[Hid(q, c)] = new(Hid(q, c))
    BY <1>4
  <2> QED BY <2>1, <2>2, <2>3
<1>8. Nums(K, q) = 0 .. 2 /\ \A r \in Processes \ {q} : Nums(K, r) = Nums(H, r)
  <2>1. ASSUME NEW r \in Processes, NEW d \in Nat
        PROVE  Hid(r, d) \in X <=> r = q /\ d \in 0 .. 2
    <3>1. Hid(r, d) \in X => r = q /\ (d = 0 \/ d = 1 \/ d = 2)
      BY IdFacts
    <3>2. d \in 0 .. 2 <=> (d = 0 \/ d = 1 \/ d = 2)
      OBVIOUS
    <3> QED BY <3>1, <3>2
  <2> HIDE DEF X, K
  <2>2. \A d \in Nat : Hid(q, d) \notin DOMAIN H
    BY DEF Nums
  <2>3. \A d \in Nat : d \in Nums(K, q) <=> d \in 0 .. 2
    BY <1>6, <2>1, <2>2 DEF Nums
  <2>4. \A d \in 0 .. 2 : d \in Nat
    OBVIOUS
  <2>5. Nums(K, q) = 0 .. 2
    <3>1. Nums(K, q) \subseteq Nat
      BY DEF Nums
    <3> QED BY <2>3, <2>4, <3>1
  <2>6. ASSUME NEW r \in Processes \ {q}
        PROVE  Nums(K, r) = Nums(H, r)
    BY <1>6, <2>1 DEF Nums
  <2> QED BY <2>5, <2>6
<1>9. Linked(K)
  <2> SUFFICES ASSUME NEW p \in Processes, NEW d \in Nums(K, p)
               PROVE  /\ IsNext(Nums(K, p), p, d, K[Hid(p, d)].nxt)
                      /\ IsPrev(Nums(K, p), p, d, K[Hid(p, d)].pre)
    BY DEF Linked
  <2>1. CASE p # q
    <3>1. Nums(K, p) = Nums(H, p)
      BY <1>8, <2>1
    <3>2. Hid(p, d) \in DOMAIN H
      BY <3>1 DEF Nums
    <3>3. K[Hid(p, d)] = H[Hid(p, d)]
      BY <1>7, <3>2
    <3> QED BY <1>1, <3>1, <3>3 DEF Linked
  <2>2. CASE p = q
    <3>1. d \in 0 .. 2 /\ Nums(K, p) = 0 .. 2
      BY <1>8, <2>2
    <3>2. K[Hid(p, d)].nxt = At(d + 1) /\ K[Hid(p, d)].pre = At(d - 1)
      BY <1>7, <2>2, <3>1
    <3>3. IsNext(0 .. 2, q, d, At(d + 1))
      <4>1. CASE d = 2
        <5>1. At(d + 1) = Null /\ \A c \in 0 .. 2 : c <= d
          BY <4>1
        <5> QED BY <5>1 DEF IsNext
      <4>2. CASE d \in {0, 1}
        <5>1. d + 1 \in 0 .. 2 /\ At(d + 1) = Hid(q, d + 1) /\ d < d + 1
              /\ \A c \in 0 .. 2 : c <= d \/ d + 1 <= c
          BY <4>2
        <5> HIDE DEF At
        <5> QED BY <5>1 DEF IsNext
      <4> QED BY <3>1, <4>1, <4>2
    <3>4. IsPrev(0 .. 2, q, d, At(d - 1))
      <4>1. CASE d = 0
        <5>1. At(d - 1) = Null /\ \A c \in 0 .. 2 : d <= c
          BY <4>1
        <5> QED BY <5>1 DEF IsPrev
      <4>2. CASE d \in {1, 2}
        <5>1. d - 1 \in 0 .. 2 /\ At(d - 1) = Hid(q, d - 1) /\ d - 1 < d
              /\ \A c \in 0 .. 2 : c <= d - 1 \/ d <= c
          BY <4>2
        <5> HIDE DEF At
        <5> QED BY <5>1 DEF IsPrev
      <4> QED BY <3>1, <4>1, <4>2
    <3> HIDE DEF K, At
    <3> QED BY <2>2, <3>1, <3>2, <3>3, <3>4
  <2> QED BY <2>1, <2>2
<1>10. [T EXCEPT ![q] = row] = TableOf(K)
  <2>1. \A i \in Indices : i \in Nat
    BY FileTableAssumption DEF Indices
  <2>2. ASSUME NEW i \in Indices
        PROVE  row[i] = IF i \in Nums(K, q) THEN Hid(q, i) ELSE Null
    BY <1>8, <2>2
  <2> HIDE DEF K, X
  <2>3. TableOf(K)[q] = row
    BY <2>2 DEF TableOf
  <2>4. ASSUME NEW r \in Processes \ {q}
        PROVE  TableOf(K)[r] = T[r]
    BY <1>1, <1>8 DEF TableOf
  <2> HIDE DEF row
  <2>5. DOMAIN T = Processes /\ DOMAIN TableOf(K) = Processes
        /\ TableOf(K) = [r \in Processes |-> TableOf(K)[r]]
    BY <1>1 DEF TableOf
  <2> PICK t : t = TableOf(K)
    OBVIOUS
  <2>6. t = [r \in Processes |-> t[r]] /\ DOMAIN T = Processes /\ t[q] = row
        /\ \A r \in Processes \ {q} : t[r] = T[r]
    BY <2>3, <2>4, <2>5
  <2>7. [T EXCEPT ![q] = row] = t
    BY ONLY <2>6
  <2> QED BY <2>7
<1>11. M \in [Nodes -> NodeRecords] /\ \A n \in Nodes : n # StdIO => M[n] = N[n]
  <2>1. N[StdIO] \in NodeRecords
    BY <1>1, <1>5
  <2>2. [N[StdIO] EXCEPT !.refs = @ + 3] \in NodeRecords
    BY <2>1 DEF NodeRecords
  <2> QED BY <1>1, <1>5, <2>2
<1>12. /\ M[StdIO].refs = N[StdIO].refs + 3 /\ M[StdIO].writers = N[StdIO].writers
       /\ M[StdIO].exists = N[StdIO].exists /\ M[StdIO].autoClose = N[StdIO].autoClose
  <2>1. N[StdIO] \in NodeRecords
    BY <1>1, <1>5
  <2>2. M[StdIO] = [N[StdIO] EXCEPT !.refs = @ + 3]
    BY <1>1, <1>5
  <2> HIDE DEF M
  <2> QED BY <2>1, <2>2 DEF NodeRecords
<1>13. Sound(G)
  <2> HIDE DEF K, row, M
  <2>1. G = [handle |-> K, table |-> TableOf(K), node |-> M, fault |-> f]
    BY <1>3, <1>10
  <2>2. Shaped(K) /\ Linked(K) /\ f = FALSE /\ M \in [Nodes -> NodeRecords]
    BY <1>1, <1>6, <1>9, <1>11
  <2> QED BY ONLY <2>1, <2>2, SoundFrom
<1>14. G.handle = K /\ G.node = M
  BY <1>3
<1>15. /\ \A h \in X : h \in DOMAIN K /\ h \notin DOMAIN H /\ K[h].is = Plain(StdIO)
       /\ \A h \in DOMAIN H : K[h].is = H[h].is
  <2>1. \A h \in DOMAIN H : K[h].is = H[h].is
    BY <1>7
  <2>2. \A c \in 0 .. 2 : K[Hid(q, c)].is = Plain(StdIO)
    BY <1>7
  <2>3. 0 \in 0 .. 2 /\ 1 \in 0 .. 2 /\ 2 \in 0 .. 2
    OBVIOUS
  <2> HIDE DEF K
  <2> QED BY <1>4, <1>6, <2>1, <2>2, <2>3
<1> HIDE DEF K, M, row, new, At
<1>16. ASSUME NEW n \in Nodes
       PROVE  /\ Cardinality(Namers(K, n)) = Cardinality(Namers(H, n)) + IF n = StdIO THEN 3 ELSE 0
              /\ Writers(K, n) = Writers(H, n)
  <2>1. Namers(K, n) = IF n = StdIO THEN Namers(H, n) \union X ELSE Namers(H, n)
    BY <1>6, <1>15 DEF Namers, Plain
  <2>2. Writers(K, n) = Writers(H, n)
    BY <1>6, <1>15 DEF Writers, Namers, Plain
  <2> DEFINE A0 == Namers(H, n)
             A1 == A0 \union {Hid(q, 0)}
             A2 == A1 \union {Hid(q, 1)}
             A3 == A2 \union {Hid(q, 2)}
  <2>3. IsFiniteSet(A0) /\ Cardinality(A0) \in Nat
    BY <1>1, NamersFinite DEF Shaped
  <2>4. Hid(q, 0) \notin A0 /\ Hid(q, 1) \notin A1 /\ Hid(q, 2) \notin A2
    BY <1>4 DEF Namers
  <2>5. A3 = A0 \union X
    OBVIOUS
  <2> HIDE DEF A0
  <2>6. IsFiniteSet(A1) /\ Cardinality(A1) = Cardinality(A0) + 1
    BY <2>3, <2>4, FS_AddElement
  <2> HIDE DEF A1
  <2>7. IsFiniteSet(A2) /\ Cardinality(A2) = Cardinality(A1) + 1
    BY <2>4, <2>6, FS_AddElement
  <2> HIDE DEF A2
  <2>8. Cardinality(A3) = Cardinality(A2) + 1
    BY <2>4, <2>7, FS_AddElement
  <2> HIDE DEF A3, X
  <2>9. Cardinality(A0 \union X) = Cardinality(A0) + 3
    BY <2>3, <2>5, <2>6, <2>7, <2>8
  <2> QED BY <2>1, <2>2, <2>3, <2>9 DEF A0
<1>17. Books(G, NoDues)
  <2>1. ASSUME NEW n \in Nodes
        PROVE  /\ M[n].refs = Cardinality(Namers(K, n)) + NoDues[n].refs
               /\ M[n].writers = Cardinality(Writers(K, n)) + NoDues[n].writers
    <3>1. /\ N[n].refs = Cardinality(Namers(H, n)) + NoDues[n].refs
          /\ N[n].writers = Cardinality(Writers(H, n)) + NoDues[n].writers
      BY DEF Tidy, Books, Counts
    <3>2. Cardinality(Namers(H, n)) \in Nat /\ NoDues[n].refs = 0
      BY <1>1, NamersFinite, NothingDue DEF Shaped
    <3>3. M[n].refs = N[n].refs + (IF n = StdIO THEN 3 ELSE 0) /\ M[n].writers = N[n].writers
      <4>1. CASE n = StdIO
        BY <1>12, <4>1
      <4>2. CASE n # StdIO
        BY <1>11, <3>1, <3>2, <4>2
      <4> QED BY <4>1, <4>2
    <3> QED BY <1>16, <3>1, <3>2, <3>3
  <2>2. ASSUME NEW n \in Nodes
        PROVE  Lives(M[n], n)
    <3>1. Lives(N[n], n)
      BY DEF Tidy, Books
    <3>2. CASE n = StdIO
      <4>1. N[n].exists /\ ~ N[n].autoClose
        BY <3>1, <3>2 DEF Lives, Kept
      <4>2. M[n].exists /\ ~ M[n].autoClose
        BY <1>12, <3>2, <4>1
      <4>3. n \notin PipeNodes
        BY <3>2, FileTableAssumption
      <4> QED BY <4>2, <4>3 DEF Lives, Kept
    <3>3. CASE n # StdIO
      BY <1>11, <3>1, <3>3
    <3> QED BY <3>2, <3>3
  <2>3. \A h \in DOMAIN K : K[h].is \in Files
    BY <1>5, <1>6, <1>15 DEF Tidy, Books
  <2> QED BY <1>14, <2>1, <2>2, <2>3 DEF Books, Counts
<1>18. Within(K, H)
  BY <1>6, <1>15 DEF Within
<1>19. \A c \in 0 .. 2 : K[Hid(q, c)].is = Plain(StdIO)
  BY <1>4, <1>15
<1> QED BY <1>8, <1>13, <1>14, <1>17, <1>18, <1>19 DEF Tidy

-----------------------------------------------------------------------------
(* The system calls, and the maps of descriptors they make.                *)

\* The map of process p: its numbers, to the files that are open.
MapOf(H, p) == [d \in Nums(H, p) |-> H[Hid(p, d)].is.file]

\* The tables of the processes L, and no others; each has descriptor 0.
Consistent(F, L) ==
    /\ Tidy(F) /\ L \subseteq Processes
    /\ \A p \in Processes : IF p \in L THEN 0 \in Nums(F.handle, p)
                            ELSE Nums(F.handle, p) = {}

\* From H to J, only the map of process p changes.
Elsewhere(H, J, p) == \A r \in Processes \ {p} : MapOf(J, r) = MapOf(H, r)

LEMMA MapFacts ==
    ASSUME NEW H, NEW p
    PROVE  /\ DOMAIN MapOf(H, p) = Nums(H, p)
           /\ \A d \in Nums(H, p) : MapOf(H, p)[d] = H[Hid(p, d)].is.file
  BY DEF MapOf

LEMMA MapKept ==
    ASSUME NEW H, NEW J, NEW p, Nums(J, p) = Nums(H, p),
           \A d \in Nums(H, p) : J[Hid(p, d)].is = H[Hid(p, d)].is
    PROVE  MapOf(J, p) = MapOf(H, p)
  BY DEF MapOf

LEMMA MapAdded ==
    ASSUME NEW H, NEW J, NEW p \in Processes, NEW d \in Nat, NEW w,
           Added(H, J, Hid(p, d), w)
    PROVE  /\ MapOf(J, p) = Promised!With(MapOf(H, p), d, w.file)
           /\ Elsewhere(H, J, p)
<1>1. /\ DOMAIN J = DOMAIN H \union {Hid(p, d)} /\ Hid(p, d) \notin DOMAIN H
      /\ J[Hid(p, d)].is = w
      /\ \A x \in DOMAIN H : J[x].is = H[x].is
  BY DEF Added
<1>2. /\ Nums(J, p) = Nums(H, p) \union {d}
      /\ \A r \in Processes \ {p} : Nums(J, r) = Nums(H, r)
  BY <1>1, NumsAdded
<1>3. ASSUME NEW e \in Nums(J, p)
      PROVE  J[Hid(p, e)].is.file = IF e = d THEN w.file ELSE MapOf(H, p)[e]
  <2>1. CASE e = d
    BY <1>1, <2>1
  <2>2. CASE e # d
    <3>1. e \in Nums(H, p)
      BY <1>2, <2>2
    <3>2. Hid(p, e) \in DOMAIN H
      BY <3>1 DEF Nums
    <3>3. MapOf(H, p)[e] = H[Hid(p, e)].is.file
      BY <3>1, MapFacts
    <3> QED BY <1>1, <2>2, <3>2, <3>3
  <2> QED BY <2>1, <2>2
<1>4. MapOf(J, p) = Promised!With(MapOf(H, p), d, w.file)
  <2>1. DOMAIN MapOf(H, p) = Nums(H, p)
    BY MapFacts
  <2>2. Promised!With(MapOf(H, p), d, w.file) =
          [e \in Nums(J, p) |-> IF e = d THEN w.file ELSE MapOf(H, p)[e]]
    BY <1>2, <2>1 DEF Promised!With
  <2>3. MapOf(J, p) = [e \in Nums(J, p) |-> J[Hid(p, e)].is.file]
    BY DEF MapOf
  <2> QED BY <1>3, <2>2, <2>3
<1>5. ASSUME NEW r \in Processes \ {p}
      PROVE  MapOf(J, r) = MapOf(H, r)
  <2>1. \A c \in Nums(H, r) : J[Hid(r, c)].is = H[Hid(r, c)].is
    BY <1>1 DEF Nums
  <2> QED BY <1>2, <2>1, MapKept
<1> QED BY <1>4, <1>5 DEF Elsewhere

LEMMA MapRemoved ==
    ASSUME NEW H, NEW J, NEW p \in Processes, NEW d \in Nat, Removed(H, J, Hid(p, d))
    PROVE  /\ MapOf(J, p) = Promised!Without(MapOf(H, p), d)
           /\ Elsewhere(H, J, p)
<1>1. /\ DOMAIN J = DOMAIN H \ {Hid(p, d)}
      /\ \A x \in DOMAIN J : J[x].is = H[x].is
  BY DEF Removed
<1>2. /\ Nums(J, p) = Nums(H, p) \ {d}
      /\ \A r \in Processes \ {p} : Nums(J, r) = Nums(H, r)
  BY <1>1, NumsRemoved
<1>3. ASSUME NEW e \in Nums(J, p)
      PROVE  J[Hid(p, e)].is.file = MapOf(H, p)[e]
  <2>1. Hid(p, e) \in DOMAIN J /\ e \in Nums(H, p)
    BY <1>2 DEF Nums
  <2> QED BY <1>1, <2>1, MapFacts
<1>4. MapOf(J, p) = Promised!Without(MapOf(H, p), d)
  <2>1. DOMAIN MapOf(H, p) = Nums(H, p)
    BY MapFacts
  <2>2. Promised!Without(MapOf(H, p), d) = [e \in Nums(J, p) |-> MapOf(H, p)[e]]
    BY <1>2, <2>1 DEF Promised!Without, Promised!Restrict
  <2>3. MapOf(J, p) = [e \in Nums(J, p) |-> J[Hid(p, e)].is.file]
    BY DEF MapOf
  <2> QED BY <1>3, <2>2, <2>3
<1>5. ASSUME NEW r \in Processes \ {p}
      PROVE  MapOf(J, r) = MapOf(H, r)
  <2>1. \A c \in Nums(J, r) : J[Hid(r, c)].is = H[Hid(r, c)].is
    BY <1>1 DEF Nums
  <2> QED BY <1>2, <2>1, MapKept
<1> QED BY <1>4, <1>5 DEF Elsewhere

LEMMA ElsewhereNums ==
    ASSUME NEW H, NEW J, NEW p, Elsewhere(H, J, p)
    PROVE  \A r \in Processes \ {p} : Nums(J, r) = Nums(H, r)
  BY MapFacts DEF Elsewhere

LEMMA ElsewhereTwice ==
    ASSUME NEW H, NEW J, NEW K, NEW p, Elsewhere(H, J, p), Elsewhere(J, K, p)
    PROVE  Elsewhere(H, K, p)
  BY DEF Elsewhere

(* A step of process p leaves the tables consistent. *)
LEMMA StaysConsistent ==
    ASSUME NEW F, NEW L, Consistent(F, L), NEW G, Tidy(G), NEW p \in Processes,
           Elsewhere(F.handle, G.handle, p), NEW M \in SUBSET Processes,
           M \ {p} = L \ {p},
           IF p \in M THEN 0 \in Nums(G.handle, p) ELSE Nums(G.handle, p) = {}
    PROVE  Consistent(G, M)
<1> SUFFICES ASSUME NEW r \in Processes
             PROVE  IF r \in M THEN 0 \in Nums(G.handle, r) ELSE Nums(G.handle, r) = {}
  BY DEF Consistent
<1>1. CASE r = p
  BY <1>1
<1>2. CASE r # p
  <2>1. Nums(G.handle, r) = Nums(F.handle, r)
    BY <1>2, ElsewhereNums
  <2>2. r \in M <=> r \in L
    BY <1>2
  <2> QED BY <2>1, <2>2 DEF Consistent
<1> QED BY <1>1, <1>2

(* The smallest free number is at most the number of handles. *)
LEMMA FewNumbers ==
    ASSUME NEW H, IsFiniteSet(DOMAIN H), NEW p \in Processes, NEW d \in Nat,
           \A c \in Nat : c < d => c \in Nums(H, p)
    PROVE  d <= Cardinality(DOMAIN H)
<1>1. Cardinality(DOMAIN H) \in Nat
  BY FS_CardinalityType
<1>2. IsFiniteSet(0 .. d - 1) /\ Cardinality(0 .. d - 1) = d
  <2>1. /\ IsFiniteSet(0 .. d - 1)
        /\ Cardinality(0 .. d - 1) = IF 0 > d - 1 THEN 0 ELSE (d - 1) - 0 + 1
    BY FS_Interval
  <2> QED BY <2>1
<1> SUFFICES ASSUME Cardinality(DOMAIN H) < d
             PROVE  FALSE
  BY <1>1
<1> DEFINE f == [c \in 0 .. d - 1 |-> Hid(p, c)]
<1>3. f \in [0 .. d - 1 -> DOMAIN H]
  <2>1. \A c \in 0 .. d - 1 : c \in Nat /\ c < d
    OBVIOUS
  <2>2. \A c \in 0 .. d - 1 : Hid(p, c) \in DOMAIN H
    BY <2>1 DEF Nums
  <2> QED BY <2>2
<1>4. PICK x \in 0 .. d - 1, y \in 0 .. d - 1 : x # y /\ f[x] = f[y]
  <2> HIDE DEF f
  <2> QED BY <1>2, <1>3, FS_PigeonHole
<1>5. Hid(p, x) = Hid(p, y) /\ x \in Nat /\ y \in Nat
  BY <1>4
<1> QED BY <1>4, <1>5, SameHid

(* A number that the kernel chooses is the one Descriptors says. *)
LEMMA OpenedIs ==
    ASSUME NEW H, IsFiniteSet(DOMAIN H), Cardinality(DOMAIN H) <= MaxHandles,
           NEW p \in Processes, NEW d \in Nat \ Nums(H, p),
           \A c \in Nat : c < d => c \in Nums(H, p), NEW f
    PROVE  Promised!Opened(MapOf(H, p), f) = Promised!With(MapOf(H, p), d, f)
<1> DEFINE free == (0 .. MaxFD + MaxHandles) \ Nums(H, p)
<1>1. DOMAIN MapOf(H, p) = Nums(H, p)
  BY MapFacts
<1>2. d <= Cardinality(DOMAIN H) /\ Cardinality(DOMAIN H) \in Nat
  BY FewNumbers, FS_CardinalityType
<1>3. d \in free
  BY <1>2, FileTableAssumption
<1>4. \A e \in free : d <= e
  <2>1. \A e \in free : e \in Nat /\ e \notin Nums(H, p)
    BY FileTableAssumption
  <2> HIDE DEF free
  <2> QED BY <2>1
<1>5. (CHOOSE c \in free : \A e \in free : c <= e) = d
  <2>1. \A c \in free : c \in Nat
    BY FileTableAssumption
  <2> DEFINE m == CHOOSE c \in free : \A e \in free : c <= e
  <2>2. m \in free /\ \A e \in free : m <= e
    <3> HIDE DEF free
    <3> QED BY <1>3, <1>4
  <2>3. m <= d /\ d <= m
    <3> HIDE DEF m
    <3> QED BY <1>3, <1>4, <2>2
  <2> HIDE DEF free, m
  <2>4. m = d
    BY <2>1, <2>2, <2>3
  <2> QED BY <2>4 DEF m
<1> QED BY <1>1, <1>5 DEF Promised!Opened

Maps(H) == [p \in Processes |-> MapOf(H, p)]

LEMMA StepIs ==
    ASSUME NEW H, NEW J, NEW p \in Processes, Elsewhere(H, J, p),
           Promised!Becomes(Maps(H), MapOf(H, p), MapOf(J, p))
    PROVE  Promised!Step(Maps(H), Maps(J))
<1>1. \A r \in Processes \ {p} : Maps(J)[r] = Maps(H)[r]
  BY DEF Maps, Elsewhere
<1>2. Maps(H)[p] = MapOf(H, p) /\ Maps(J)[p] = MapOf(J, p)
  BY DEF Maps
<1> QED BY <1>1, <1>2 DEF Promised!Step

LEMMA WithFacts ==
    ASSUME NEW m, NEW d, NEW f
    PROVE  LET n == Promised!With(m, d, f)
           IN  d \in DOMAIN n /\ n[d] = f /\ f \in Promised!Range(n)
<1> DEFINE n == Promised!With(m, d, f)
<1>1. d \in DOMAIN n /\ n[d] = f
  BY DEF Promised!With
<1> HIDE DEF n
<1> QED BY <1>1 DEF n, Promised!Range

(* open, dup and fcntl: a new handle on w, with a number the kernel chooses. *)
LEMMA Newly ==
    ASSUME NEW F, NEW L, Consistent(F, L), NEW p \in L, NEW w \in Files,
           F.node[w.file].exists, Cardinality(DOMAIN F.handle) + 1 <= MaxHandles
    PROVE  LET G == Open(F, p, w, -1)
           IN  Consistent(G, L) /\ Promised!Step(Maps(F.handle), Maps(G.handle))
<1> PICK G : G = Open(F, p, w, -1)
  OBVIOUS
<1>1. p \in Processes /\ L \in SUBSET Processes /\ 0 \in Nums(F.handle, p) /\ Tidy(F)
  BY DEF Consistent
<1>2. PICK d \in Nat \ Nums(F.handle, p) :
               /\ \A c \in Nat : c < d => c \in Nums(F.handle, p)
               /\ Tidy(G) /\ Added(F.handle, G.handle, Hid(p, d), w)
  BY <1>1, Opened
<1>3. IsFiniteSet(DOMAIN F.handle) /\ Cardinality(DOMAIN F.handle) <= MaxHandles
  <2>1. IsFiniteSet(DOMAIN F.handle)
    BY <1>1 DEF Tidy, Sound, Shaped
  <2> QED BY <2>1, FS_CardinalityType, FileTableAssumption
<1>4. /\ MapOf(G.handle, p) = Promised!With(MapOf(F.handle, p), d, w.file)
      /\ Elsewhere(F.handle, G.handle, p)
  BY <1>1, <1>2, MapAdded
<1>5. MapOf(G.handle, p) = Promised!Opened(MapOf(F.handle, p), w.file)
  BY <1>1, <1>2, <1>3, <1>4, OpenedIs
<1>6. w.file \in Promised!Range(MapOf(G.handle, p))
  BY <1>4, WithFacts
<1>7. Promised!Becomes(Maps(F.handle), MapOf(F.handle, p), MapOf(G.handle, p))
  BY <1>5, <1>6 DEF Promised!Becomes
<1>8. 0 \in Nums(G.handle, p)
  <2>1. DOMAIN G.handle = DOMAIN F.handle \union {Hid(p, d)}
    BY <1>2 DEF Added
  <2> QED BY <1>1, <1>2, <2>1, NumsAdded
<1>9. Consistent(G, L)
  BY <1>1, <1>2, <1>4, <1>8, StaysConsistent
<1> QED BY <1>1, <1>4, <1>7, <1>9, StepIs

(* The tables with the record of one node changed. *)
LEMMA NodeSet ==
    ASSUME NEW F, Sound(F), NEW n \in Nodes, NEW r \in NodeRecords
    PROVE  LET G == [F EXCEPT !.node[n] = r]
           IN  /\ Sound(G) /\ G.handle = F.handle /\ G.table = F.table /\ G.fault = F.fault
               /\ G.node = [F.node EXCEPT ![n] = r]
               /\ G.node[n] = r /\ \A m \in Nodes : m # n => G.node[m] = F.node[m]
<1> PICK H, T, N, f : H = F.handle /\ T = F.table /\ N = F.node /\ f = F.fault
  OBVIOUS
<1> PICK G : G = [F EXCEPT !.node[n] = r]
  OBVIOUS
<1>1. /\ Shaped(H) /\ Linked(H) /\ f = FALSE /\ T = TableOf(H) /\ N \in [Nodes -> NodeRecords]
      /\ F = [handle |-> H, table |-> T, node |-> N, fault |-> f]
  BY SoundFacts
<1> PICK M : M = [N EXCEPT ![n] = r]
  OBVIOUS
<1>2. G = [handle |-> H, table |-> T, node |-> M, fault |-> f]
  <2>1. F = [handle |-> H, table |-> T, node |-> N, fault |-> f]
    BY <1>1
  <2> QED BY ONLY <2>1, G = [F EXCEPT !.node[n] = r], M = [N EXCEPT ![n] = r]
<1>3. M \in [Nodes -> NodeRecords] /\ M[n] = r /\ \A m \in Nodes : m # n => M[m] = N[m]
  BY <1>1
<1>4. Sound(G)
  <2>1. G = [handle |-> H, table |-> TableOf(H), node |-> M, fault |-> f]
    BY <1>1, <1>2
  <2>2. Shaped(H) /\ Linked(H) /\ f = FALSE /\ M \in [Nodes -> NodeRecords]
    BY <1>1, <1>3
  <2> QED BY ONLY <2>1, <2>2, SoundFrom
<1> QED BY <1>2, <1>3, <1>4

(* The node n gets a record that fits: it has no handle then, or as many as before. *)
LEMMA NodeChanged ==
    ASSUME NEW F, NEW L, Consistent(F, L), NEW n \in Nodes, NEW r \in NodeRecords,
           r.refs = F.node[n].refs, r.writers = F.node[n].writers, Lives(r, n)
    PROVE  LET G == [F EXCEPT !.node[n] = r]
           IN  /\ Consistent(G, L) /\ G.handle = F.handle /\ G.table = F.table
               /\ G.fault = F.fault /\ G.node = [F.node EXCEPT ![n] = r] /\ G.node[n] = r
<1> PICK G : G = [F EXCEPT !.node[n] = r]
  OBVIOUS
<1>1. Tidy(F) /\ Sound(F)
  BY DEF Consistent, Tidy
<1>2. /\ Sound(G) /\ G.handle = F.handle /\ G.table = F.table /\ G.fault = F.fault
      /\ G.node = [F.node EXCEPT ![n] = r]
      /\ G.node[n] = r /\ \A m \in Nodes : m # n => G.node[m] = F.node[m]
  BY <1>1, NodeSet
<1>3. \A m \in Nodes : /\ G.node[m].refs = F.node[m].refs
                       /\ G.node[m].writers = F.node[m].writers
                       /\ Lives(G.node[m], m)
  BY <1>1, <1>2 DEF Tidy, Books
<1>4. Tidy(G)
  BY <1>1, <1>2, <1>3 DEF Tidy, Books, Counts
<1> QED BY <1>2, <1>4 DEF Consistent

(* A node that has been deleted has no handles, and neither has one in no use. *)
LEMMA NoHandles ==
    ASSUME NEW F, Tidy(F), NEW n \in Nodes, F.node[n].refs = 0 \/ ~ F.node[n].exists
    PROVE  F.node[n].refs = 0 /\ F.node[n].writers = 0
<1>1. ~ F.node[n].exists => F.node[n] = NoNode
  BY DEF Tidy, Books, Lives, Kept
<1>2. /\ F.node[n].refs = Cardinality(Namers(F.handle, n)) + NoDues[n].refs
      /\ F.node[n].writers = Cardinality(Writers(F.handle, n)) + NoDues[n].writers
  BY DEF Tidy, Books, Counts
<1>3. IsFiniteSet(DOMAIN F.handle)
  BY DEF Tidy, Sound, Shaped
<1>4. /\ Cardinality(Namers(F.handle, n)) \in Nat /\ Cardinality(Writers(F.handle, n)) \in Nat
      /\ Cardinality(Writers(F.handle, n)) <= Cardinality(Namers(F.handle, n))
  BY <1>3, NamersFinite
<1>5. NoDues[n].refs = 0 /\ NoDues[n].writers = 0
  BY NothingDue
<1>6. CASE ~ F.node[n].exists
  BY <1>1, <1>6 DEF NoNode
<1>7. CASE F.node[n].refs = 0
  BY <1>2, <1>4, <1>5, <1>7
<1> QED BY <1>6, <1>7

LEMMA NoNodeFacts ==
    NoNode \in NodeRecords /\ NoNode.refs = 0 /\ NoNode.writers = 0 /\ ~ NoNode.exists
<1> PICK f : f = FALSE
  OBVIOUS
<1>1. PICK r : r = [exists |-> f, refs |-> 0, writers |-> 0, autoClose |-> f]
  OBVIOUS
<1>2. f \in BOOLEAN
  OBVIOUS
<1>3. r \in NodeRecords /\ r.refs = 0 /\ r.writers = 0 /\ r.exists = f
  BY ONLY <1>1, <1>2 DEF NodeRecords
<1>4. r = NoNode
  BY <1>1, Zenon DEF NoNode
<1> QED BY <1>3, <1>4

(* The records of nodes that are made. *)
LEMMA FreshFacts ==
    /\ \A r \in {FreshNode, FreshPipe} :
          r \in NodeRecords /\ r.exists /\ r.refs = 0 /\ r.writers = 0
    /\ ~ FreshNode.autoClose /\ FreshPipe.autoClose
<1> PICK t, f : t = TRUE /\ f = FALSE
  OBVIOUS
<1> PICK N : N = [exists |-> f, refs |-> 0, writers |-> 0, autoClose |-> f]
  OBVIOUS
<1> PICK A, B : A = [N EXCEPT !.exists = t] /\ B = [A EXCEPT !.autoClose = t]
  OBVIOUS
<1>1. N = NoNode
  BY Zenon DEF NoNode
<1>2. A = FreshNode /\ B = FreshPipe
  BY <1>1, Zenon DEF FreshNode, FreshPipe
<1>3. A = [exists |-> t, refs |-> 0, writers |-> 0, autoClose |-> f]
  BY ONLY N = [exists |-> f, refs |-> 0, writers |-> 0, autoClose |-> f],
          A = [N EXCEPT !.exists = t]
<1>4. B = [exists |-> t, refs |-> 0, writers |-> 0, autoClose |-> t]
  BY ONLY <1>3, B = [A EXCEPT !.autoClose = t]
<1>5. t \in BOOLEAN /\ f \in BOOLEAN
  OBVIOUS
<1>6. A \in NodeRecords /\ B \in NodeRecords
  BY ONLY <1>3, <1>4, <1>5 DEF NodeRecords
<1>7. /\ A.exists = t /\ A.refs = 0 /\ A.writers = 0 /\ A.autoClose = f
      /\ B.exists = t /\ B.refs = 0 /\ B.writers = 0 /\ B.autoClose = t
  BY <1>3, <1>4
<1> QED BY <1>2, <1>6, <1>7

(* A node that something is due to exists. *)
LEMMA DueExists ==
    ASSUME NEW F, Sound(F), NEW P \in Dues, Books(F, P), NEW n \in Nodes, P[n].refs # 0
    PROVE  F.node[n].exists
<1>1. IsFiniteSet(DOMAIN F.handle)
  BY DEF Sound, Shaped
<1>2. Cardinality(Namers(F.handle, n)) \in Nat /\ P[n].refs \in Nat
  BY <1>1, NamersFinite DEF Dues
<1>3. F.node[n].refs = Cardinality(Namers(F.handle, n)) + P[n].refs
  BY DEF Books, Counts
<1>4. F.node[n].refs # 0
  BY <1>2, <1>3
<1>5. F.node[n] # NoNode
  BY <1>4 DEF NoNode
<1> QED BY <1>5 DEF Books, Lives, Kept

LEMMA OweEither ==
    ASSUME NEW P \in Dues, NEW v \in Handles, NEW w \in Handles
    PROVE  Owe(Owe(P, v), w) = Owe(Owe(P, w), v)
<1> DEFINE a == Owe(Owe(P, v), w)
           b == Owe(Owe(P, w), v)
<1>1. Owe(P, v) \in Dues /\ Owe(P, w) \in Dues
  BY DuesOwed
<1>2. a \in Dues /\ b \in Dues
  BY <1>1, DuesOwed
<1>3. ASSUME NEW n \in Nodes
      PROVE  a[n].refs = b[n].refs /\ a[n].writers = b[n].writers
  <2>1. P[n].refs \in Nat /\ P[n].writers \in Nat
    BY DEF Dues
  <2>2. /\ a[n].refs = Owe(P, v)[n].refs + IF n = w.file THEN 1 ELSE 0
        /\ a[n].writers = Owe(P, v)[n].writers + IF n = w.file /\ w.writer THEN 1 ELSE 0
        /\ b[n].refs = Owe(P, w)[n].refs + IF n = v.file THEN 1 ELSE 0
        /\ b[n].writers = Owe(P, w)[n].writers + IF n = v.file /\ v.writer THEN 1 ELSE 0
    BY <1>1, DuesOwed
  <2>3. /\ Owe(P, v)[n].refs = P[n].refs + IF n = v.file THEN 1 ELSE 0
        /\ Owe(P, v)[n].writers = P[n].writers + IF n = v.file /\ v.writer THEN 1 ELSE 0
        /\ Owe(P, w)[n].refs = P[n].refs + IF n = w.file THEN 1 ELSE 0
        /\ Owe(P, w)[n].writers = P[n].writers + IF n = w.file /\ w.writer THEN 1 ELSE 0
    BY DuesOwed
  <2> HIDE DEF a, b
  <2> QED BY <2>1, <2>2, <2>3
<1> HIDE DEF a, b
<1>4. ASSUME NEW n \in Nodes
      PROVE  a[n] = b[n]
  <2>1. a[n] \in [refs : Nat, writers : Nat] /\ b[n] \in [refs : Nat, writers : Nat]
    BY <1>2 DEF Dues
  <2> QED BY <1>3, <2>1
<1>5. a \in [Nodes -> [refs : Nat, writers : Nat]] /\ b \in [Nodes -> [refs : Nat, writers : Nat]]
  BY <1>2 DEF Dues
<1> QED BY <1>4, <1>5 DEF a, b

(* pipe: a node, and its two handles, reader and writer. *)
LEMMA Paired ==
    ASSUME NEW F, NEW L, Consistent(F, L), NEW p \in L, NEW n \in PipeNodes,
           ~ F.node[n].exists, Cardinality(DOMAIN F.handle) + 2 <= MaxHandles
    PROVE  LET both == Ref(Ref([F EXCEPT !.node[n] = FreshPipe], Plain(n)), Every(n))
               G == Bind(Bind(both, p, -1, Plain(n)), p, -1, Every(n))
           IN  Consistent(G, L) /\ Promised!Step(Maps(F.handle), Maps(G.handle))
<1> PICK v, w : v = Plain(n) /\ w = Every(n)
  OBVIOUS
<1>1. /\ v \in Files /\ w \in Files /\ v \in Handles /\ w \in Handles
      /\ v.file = n /\ w.file = n /\ n \in Nodes
  BY DEF Plain, Every, Files, Handles, Nodes
<1>2. p \in Processes /\ L \in SUBSET Processes /\ 0 \in Nums(F.handle, p) /\ Tidy(F) /\ Sound(F)
  BY DEF Consistent, Tidy
<1> PICK A : A = [F EXCEPT !.node[n] = FreshPipe]
  OBVIOUS
<1>3. FreshPipe \in NodeRecords /\ FreshPipe.refs = 0 /\ FreshPipe.writers = 0
      /\ FreshPipe.exists /\ FreshPipe.autoClose
  BY FreshFacts
<1>4. /\ Sound(A) /\ A.handle = F.handle
      /\ A.node[n] = FreshPipe /\ \A m \in Nodes : m # n => A.node[m] = F.node[m]
  BY <1>1, <1>2, <1>3, NodeSet
<1>5. /\ Counts(A.handle, A.node, NoDues)
      /\ \A h \in DOMAIN A.handle : A.handle[h].is \in Files
      /\ \A m \in Nodes : Kept(A.node[m], m) /\ (m # n => Lives(A.node[m], m))
      /\ A.node[n].exists
  <2>1. F.node[n].refs = 0 /\ F.node[n].writers = 0
    BY <1>1, <1>2, NoHandles
  <2>2. \A m \in Nodes : /\ A.node[m].refs = F.node[m].refs
                         /\ A.node[m].writers = F.node[m].writers
    BY <1>3, <1>4, <2>1
  <2>3. Counts(F.handle, F.node, NoDues)
    BY <1>2 DEF Tidy, Books
  <2>4. Counts(A.handle, A.node, NoDues)
    BY <1>4, <2>2, <2>3 DEF Counts
  <2>5. \A m \in Nodes : m # n => Lives(A.node[m], m)
    BY <1>2, <1>4 DEF Tidy, Books
  <2>6. n # StdIO
    BY FileTableAssumption
  <2>7. Kept(A.node[n], n)
    BY <1>3, <1>4, <2>6 DEF Kept
  <2>8. \A h \in DOMAIN A.handle : A.handle[h].is \in Files
    BY <1>2, <1>4 DEF Tidy, Books
  <2> QED BY <1>3, <1>4, <2>4, <2>5, <2>7, <2>8 DEF Lives
<1> PICK B : B = Ref(A, v)
  OBVIOUS
<1> PICK P, Q : P = Owe(NoDues, v) /\ Q = Owe(NoDues, w)
  OBVIOUS
<1>6. Sound(B) /\ B.handle = F.handle /\ P \in Dues /\ Books(B, P)
  BY <1>1, <1>4, <1>5, NothingDue, RefBooks
<1>7. B.node[n].exists
  <2>1. P[n].refs # 0
    BY <1>1, NothingDue, DuesOwed
  <2> QED BY <1>1, <1>6, <2>1, DueExists
<1> PICK C : C = Ref(B, w)
  OBVIOUS
<1>8. Sound(C) /\ C.handle = F.handle /\ Books(C, Owe(P, w))
  <2>1. /\ Counts(B.handle, B.node, P)
        /\ \A m \in Nodes : Kept(B.node[m], m) /\ (m # w.file => Lives(B.node[m], m))
        /\ \A h \in DOMAIN B.handle : B.handle[h].is \in Files
    BY <1>6 DEF Books, Lives
  <2> QED BY <1>1, <1>6, <1>7, <2>1, RefBooks
<1>9. Q \in Dues /\ Books(C, Owe(Q, v))
  BY <1>1, <1>8, NothingDue, DuesOwed, OweEither
<1> PICK D : D = Bind(C, p, -1, v)
  OBVIOUS
<1>10. PICK d \in Nat \ Nums(F.handle, p) :
               /\ \A c \in Nat : c < d => c \in Nums(F.handle, p)
               /\ Bound(C, D, p, d, v)
  BY <1>1, <1>2, <1>8, BindFree
<1>11. Sound(D) /\ Books(D, Q) /\ Added(F.handle, D.handle, Hid(p, d), v)
  <2>1. Shaped(C.handle)
    BY <1>8 DEF Sound
  <2>2. Books(D, Q)
    BY <1>1, <1>9, <1>10, <2>1, BoundBooks
  <2> QED BY <1>8, <1>10, <2>2 DEF Bound
<1> PICK G : G = Bind(D, p, -1, w)
  OBVIOUS
<1>12. Nums(D.handle, p) = Nums(F.handle, p) \union {d} /\ 0 \in Nums(D.handle, p)
  <2>1. DOMAIN D.handle = DOMAIN F.handle \union {Hid(p, d)}
    BY <1>11 DEF Added
  <2> QED BY <1>2, <1>10, <2>1, NumsAdded
<1>13. PICK e \in Nat \ Nums(D.handle, p) :
               /\ \A c \in Nat : c < e => c \in Nums(D.handle, p)
               /\ Bound(D, G, p, e, w)
  BY <1>1, <1>2, <1>11, <1>12, BindFree
<1>14. Tidy(G) /\ Added(D.handle, G.handle, Hid(p, e), w)
  <2>1. Shaped(D.handle)
    BY <1>11 DEF Sound
  <2>2. Books(G, NoDues)
    BY <1>1, <1>11, <1>13, <2>1, NothingDue, BoundBooks
  <2> QED BY <1>13, <2>2 DEF Bound, Tidy
<1>15. /\ MapOf(D.handle, p) = Promised!With(MapOf(F.handle, p), d, n)
       /\ MapOf(G.handle, p) = Promised!With(MapOf(D.handle, p), e, n)
       /\ Elsewhere(F.handle, D.handle, p) /\ Elsewhere(D.handle, G.handle, p)
  BY <1>1, <1>2, <1>11, <1>14, MapAdded
<1>16. Elsewhere(F.handle, G.handle, p)
  BY <1>15, ElsewhereTwice
<1>17. /\ IsFiniteSet(DOMAIN F.handle) /\ Cardinality(DOMAIN F.handle) <= MaxHandles
       /\ IsFiniteSet(DOMAIN D.handle) /\ Cardinality(DOMAIN D.handle) <= MaxHandles
  <2>1. IsFiniteSet(DOMAIN F.handle) /\ IsFiniteSet(DOMAIN D.handle)
    BY <1>2, <1>11 DEF Sound, Shaped
  <2>2. DOMAIN D.handle = DOMAIN F.handle \union {Hid(p, d)} /\ Hid(p, d) \notin DOMAIN F.handle
    BY <1>11 DEF Added
  <2>3. Cardinality(DOMAIN D.handle) = Cardinality(DOMAIN F.handle) + 1
        /\ Cardinality(DOMAIN F.handle) \in Nat
    BY <2>1, <2>2, FS_AddElement, FS_CardinalityType
  <2> QED BY <2>1, <2>3, FileTableAssumption
<1>18. MapOf(G.handle, p) = Promised!Opened(Promised!Opened(MapOf(F.handle, p), n), n)
  <2>1. Promised!Opened(MapOf(F.handle, p), n) = MapOf(D.handle, p)
    BY <1>2, <1>10, <1>15, <1>17, OpenedIs
  <2>2. Promised!Opened(MapOf(D.handle, p), n) = MapOf(G.handle, p)
    BY <1>2, <1>13, <1>15, <1>17, OpenedIs
  <2> QED BY <2>1, <2>2
<1>19. n \in Promised!Range(MapOf(G.handle, p))
  BY <1>15, WithFacts
<1>20. Promised!Becomes(Maps(F.handle), MapOf(F.handle, p), MapOf(G.handle, p))
  BY <1>18, <1>19 DEF Promised!Becomes
<1>21. 0 \in Nums(G.handle, p)
  <2>1. DOMAIN G.handle = DOMAIN D.handle \union {Hid(p, e)}
    BY <1>14 DEF Added
  <2> QED BY <1>2, <1>12, <1>13, <2>1, NumsAdded
<1>22. Consistent(G, L)
  BY <1>2, <1>14, <1>16, <1>21, StaysConsistent
<1>23. G = Bind(Bind(Ref(Ref([F EXCEPT !.node[n] = FreshPipe], Plain(n)), Every(n)),
                     p, -1, Plain(n)), p, -1, Every(n))
  OBVIOUS
<1> QED BY <1>2, <1>16, <1>20, <1>22, <1>23, StepIs

(* dup3: what nfd names is replaced by a handle on w, that of fd. *)
LEMMA Replaced ==
    ASSUME NEW F, NEW L, Consistent(F, L), NEW p \in L, NEW fd \in Nums(F.handle, p),
           NEW nfd \in Nat, fd # nfd, nfd = 0 => F.table[p][1] # Null
    PROVE  LET w == F.handle[Hid(p, fd)].is
               G == Dup3ed(F, p, w, nfd)
           IN  Consistent(G, L) /\ Promised!Step(Maps(F.handle), Maps(G.handle))
<1> PICK w : w = F.handle[Hid(p, fd)].is
  OBVIOUS
<1> PICK G : G = Dup3ed(F, p, w, nfd)
  OBVIOUS
<1> DEFINE S == Nums(F.handle, p)
<1>1. p \in Processes /\ L \in SUBSET Processes /\ 0 \in S /\ Tidy(F) /\ Sound(F)
  BY DEF Consistent, Tidy
<1>2. fd \in Nat /\ Hid(p, fd) \in DOMAIN F.handle
  BY DEF Nums
<1>3. w \in Files /\ w \in Handles /\ F.node[w.file].exists
  BY <1>1, <1>2, NamedExists DEF Files
<1> PICK B : B = Ref(F, w)
  OBVIOUS
<1> PICK P : P = Owe(NoDues, w)
  OBVIOUS
<1>4. Sound(B) /\ B.handle = F.handle /\ P \in Dues /\ Books(B, P)
  <2>1. /\ Counts(F.handle, F.node, NoDues)
        /\ \A h \in DOMAIN F.handle : F.handle[h].is \in Files
        /\ \A n \in Nodes : Kept(F.node[n], n) /\ (n # w.file => Lives(F.node[n], n))
    BY <1>1 DEF Tidy, Books, Lives
  <2> QED BY <1>1, <1>3, <2>1, NothingDue, RefBooks
<1>5. /\ Lookup(F, p, nfd) = IF nfd \in S THEN Hid(p, nfd) ELSE Null
      /\ Lookup(F, p, nfd) # Null <=> nfd \in S
  BY <1>1, LookupIs
<1> PICK C : C = IF nfd \in S THEN Delete(B, Hid(p, nfd)) ELSE B
  OBVIOUS
<1>6. G = Bind(C, p, nfd, w)
  <2>1. Dup3ed(F, p, w, nfd) =
          Bind(IF Lookup(F, p, nfd) = Null THEN Ref(F, w) ELSE Delete(Ref(F, w), Lookup(F, p, nfd)),
               p, nfd, w)
    BY DEF Dup3ed
  <2>2. CASE nfd \in S
    <3>1. Lookup(F, p, nfd) = Hid(p, nfd) /\ Lookup(F, p, nfd) # Null
      BY <1>5, <2>2
    <3> QED BY <2>1, <2>2, <3>1
  <2>3. CASE nfd \notin S
    BY <1>5, <2>1, <2>3
  <2> QED BY <2>2, <2>3
<1>7. /\ Sound(C) /\ Books(C, P)
      /\ nfd \in S => Removed(F.handle, C.handle, Hid(p, nfd))
      /\ nfd \notin S => C.handle = F.handle
  <2>1. CASE nfd \in S
    <3>1. nfd \in Nums(B.handle, p)
      BY <1>4, <2>1
    <3>2. Sound(C) /\ Books(C, P) /\ Removed(B.handle, C.handle, Hid(p, nfd))
      BY <1>1, <1>4, <2>1, <3>1, Deleted
    <3> QED BY <1>4, <2>1, <3>2
  <2>2. CASE nfd \notin S
    BY <1>4, <2>2
  <2> QED BY <2>1, <2>2
<1>8. Nums(C.handle, p) = S \ {nfd}
  <2>1. CASE nfd \in S
    <3>1. DOMAIN C.handle = DOMAIN F.handle \ {Hid(p, nfd)}
      BY <1>7, <2>1 DEF Removed
    <3> QED BY <1>1, <3>1, NumsRemoved
  <2>2. CASE nfd \notin S
    BY <1>7, <2>2
  <2> QED BY <2>1, <2>2
<1>9. Bound(C, G, p, nfd, w)
  <2>1. IF nfd = 0 THEN 1 \in Nums(C.handle, p) ELSE 0 \in Nums(C.handle, p)
    <3>1. CASE nfd = 0
      <4>1. 1 \in S
        BY <1>1, <3>1, LowIndices, TableIs
      <4> QED BY <1>8, <3>1, <4>1
    <3>2. CASE nfd # 0
      BY <1>1, <1>8, <3>2
    <3> QED BY <3>1, <3>2
  <2>2. nfd \in Nat \ Nums(C.handle, p)
    BY <1>8
  <2> QED BY <1>1, <1>3, <1>6, <1>7, <2>1, <2>2, BindNumber
<1>10. Tidy(G) /\ Added(C.handle, G.handle, Hid(p, nfd), w)
  <2>1. Shaped(C.handle)
    BY <1>7 DEF Sound
  <2>2. Books(C, Owe(NoDues, w))
    BY <1>7
  <2>3. Books(G, NoDues)
    BY <1>3, <1>9, <2>1, <2>2, NothingDue, BoundBooks
  <2> QED BY <1>9, <2>3 DEF Bound, Tidy
<1>11. /\ MapOf(G.handle, p) = Promised!With(MapOf(C.handle, p), nfd, w.file)
       /\ Elsewhere(C.handle, G.handle, p)
  BY <1>1, <1>10, MapAdded
<1>12. Elsewhere(F.handle, C.handle, p)
  <2>1. CASE nfd \in S
    BY <1>1, <1>7, <2>1, MapRemoved
  <2>2. CASE nfd \notin S
    BY <1>7, <2>2 DEF Elsewhere
  <2> QED BY <2>1, <2>2
<1>13. Elsewhere(F.handle, G.handle, p)
  BY <1>11, <1>12, ElsewhereTwice
<1>14. /\ DOMAIN MapOf(C.handle, p) = S \ {nfd} /\ DOMAIN MapOf(F.handle, p) = S
       /\ \A e \in S \ {nfd} : MapOf(C.handle, p)[e] = MapOf(F.handle, p)[e]
  <2>1. DOMAIN MapOf(C.handle, p) = S \ {nfd} /\ DOMAIN MapOf(F.handle, p) = S
    BY <1>8, MapFacts
  <2>2. CASE nfd \notin S
    BY <1>7, <2>1, <2>2
  <2>3. CASE nfd \in S
    <3>1. MapOf(C.handle, p) = Promised!Without(MapOf(F.handle, p), nfd)
      BY <1>1, <1>7, <2>3, MapRemoved
    <3>2. MapOf(C.handle, p) = [e \in S \ {nfd} |-> MapOf(F.handle, p)[e]]
      BY <2>1, <3>1 DEF Promised!Without, Promised!Restrict
    <3> QED BY <2>1, <3>2
  <2> QED BY <2>1, <2>2, <2>3
<1>15. MapOf(G.handle, p) = Promised!With(MapOf(F.handle, p), nfd, w.file)
  <2> DEFINE m == MapOf(C.handle, p)
             n == MapOf(F.handle, p)
  <2>1. /\ DOMAIN m = S \ {nfd} /\ DOMAIN n = S
        /\ \A e \in S \ {nfd} : m[e] = n[e]
    BY <1>14
  <2> HIDE DEF m, n, S
  <2>2. Promised!With(m, nfd, w.file) = Promised!With(n, nfd, w.file)
    BY <2>1 DEF Promised!With
  <2> QED BY <1>11, <2>2 DEF m, n
<1>16. nfd \in DOMAIN MapOf(G.handle, p) /\ MapOf(G.handle, p)[nfd] = w.file
  BY <1>15, WithFacts
<1>17. w.file \in Promised!Range(MapOf(F.handle, p))
  <2>1. fd \in DOMAIN MapOf(F.handle, p) /\ MapOf(F.handle, p)[fd] = w.file
    BY MapFacts
  <2> QED BY <2>1 DEF Promised!Range
<1>18. Promised!Becomes(Maps(F.handle), MapOf(F.handle, p), MapOf(G.handle, p))
  BY <1>15, <1>16, <1>17 DEF Promised!Becomes
<1>19. 0 \in Nums(G.handle, p)
  <2>1. DOMAIN G.handle = DOMAIN C.handle \union {Hid(p, nfd)}
    BY <1>10 DEF Added
  <2>2. Nums(G.handle, p) = (S \ {nfd}) \union {nfd}
    BY <1>1, <1>8, <2>1, NumsAdded
  <2> QED BY <1>1, <2>2
<1>20. Consistent(G, L)
  BY <1>1, <1>10, <1>13, <1>19, StaysConsistent
<1> QED BY <1>1, <1>13, <1>18, <1>20, StepIs

(* close *)
LEMMA Closed ==
    ASSUME NEW F, NEW L, Consistent(F, L), NEW p \in L, NEW fd \in Nums(F.handle, p), fd # 0
    PROVE  LET G == Delete(F, Hid(p, fd))
           IN  Consistent(G, L) /\ Promised!Step(Maps(F.handle), Maps(G.handle))
<1> PICK G : G = Delete(F, Hid(p, fd))
  OBVIOUS
<1>1. p \in Processes /\ L \in SUBSET Processes /\ 0 \in Nums(F.handle, p) /\ Tidy(F)
      /\ fd \in Nat
  BY DEF Consistent, Nums
<1>2. Tidy(G) /\ Removed(F.handle, G.handle, Hid(p, fd))
  BY <1>1, NothingDue, Deleted DEF Tidy
<1>3. /\ MapOf(G.handle, p) = Promised!Without(MapOf(F.handle, p), fd)
      /\ Elsewhere(F.handle, G.handle, p)
  BY <1>1, <1>2, MapRemoved
<1>4. 0 \in Nums(G.handle, p)
  <2>1. DOMAIN G.handle = DOMAIN F.handle \ {Hid(p, fd)}
    BY <1>2 DEF Removed
  <2> QED BY <1>1, <2>1, NumsRemoved
<1>5. fd \in DOMAIN MapOf(F.handle, p)
  BY MapFacts
<1>6. Promised!Becomes(Maps(F.handle), MapOf(F.handle, p), MapOf(G.handle, p))
  BY <1>3, <1>5 DEF Promised!Becomes
<1>7. Consistent(G, L)
  BY <1>1, <1>2, <1>3, <1>4, StaysConsistent
<1> QED BY <1>1, <1>3, <1>6, <1>7, StepIs

LEMMA NoMap ==
    ASSUME NEW H, NEW p, Nums(H, p) = {}
    PROVE  MapOf(H, p) = Promised!Empty
<1>1. MapOf(H, p) = [d \in {} |-> H[Hid(p, d)].is.file]
  BY DEF MapOf
<1>2. Promised!Empty = [d \in {} |-> StdIO]
  BY DEF Promised!Empty
<1> QED BY <1>1, <1>2

LEMMA ElsewhereWithin ==
    ASSUME NEW H, NEW J, NEW p, Within(H, J) \/ Within(J, H),
           \A r \in Processes \ {p} : Nums(J, r) = Nums(H, r)
    PROVE  Elsewhere(H, J, p)
<1> SUFFICES ASSUME NEW r \in Processes \ {p}
             PROVE  MapOf(J, r) = MapOf(H, r)
  BY DEF Elsewhere
<1>1. Nums(J, r) = Nums(H, r)
  OBVIOUS
<1>2. \A d \in Nums(H, r) : Hid(r, d) \in DOMAIN H /\ Hid(r, d) \in DOMAIN J
  BY <1>1 DEF Nums
<1>3. \A d \in Nums(H, r) : J[Hid(r, d)].is = H[Hid(r, d)].is
  BY <1>2 DEF Within
<1> QED BY <1>1, <1>3, MapKept

(* The end of a process. *)
LEMMA Ended ==
    ASSUME NEW F, NEW L, Consistent(F, L), NEW p \in L
    PROVE  LET G == [DestroyTable(F, p) EXCEPT !.table[p] = [i \in Indices |-> Null]]
           IN  Consistent(G, L \ {p}) /\ Promised!Step(Maps(F.handle), Maps(G.handle))
<1> PICK K : K = DestroyTable(F, p)
  OBVIOUS
<1> PICK G : G = [K EXCEPT !.table[p] = [i \in Indices |-> Null]]
  OBVIOUS
<1>1. p \in Processes /\ L \in SUBSET Processes /\ 0 \in Nums(F.handle, p) /\ Tidy(F)
  BY DEF Consistent
<1>2. /\ Tidy(K) /\ Within(F.handle, K.handle)
      /\ \A q \in Processes \ {p} : Nums(K.handle, q) = Nums(F.handle, q)
      /\ Nums(K.handle, p) = {}
  <2>1. Destroying(F, K, p, Null)
    BY <1>1, Destroyed
  <2>2. \A d \in Nums(K.handle, p) : Hid(p, d) # Null
    BY <1>1, IdFacts DEF Nums
  <2> QED BY <2>1, <2>2 DEF Destroying
<1>3. G = K
  <2> PICK H, T, N, f : H = K.handle /\ T = K.table /\ N = K.node /\ f = K.fault
    OBVIOUS
  <2> PICK row : row = [i \in Indices |-> Null]
    OBVIOUS
  <2>1. T = TableOf(H) /\ K = [handle |-> H, table |-> T, node |-> N, fault |-> f]
    BY <1>2, SoundFacts DEF Tidy
  <2>2. T[p] = row
    BY <1>1, <1>2, <2>1 DEF TableOf
  <2>3. [T EXCEPT ![p] = row] = T
    <3>1. T = [q \in Processes |-> T[q]]
      BY <2>1 DEF TableOf
    <3> QED BY <1>1, <2>2, <3>1
  <2>4. G = [handle |-> H, table |-> [T EXCEPT ![p] = row], node |-> N, fault |-> f]
    <3>1. G = [K EXCEPT !.table[p] = row]
      OBVIOUS
    <3>2. K = [handle |-> H, table |-> T, node |-> N, fault |-> f]
      BY <2>1
    <3> QED BY ONLY <3>1, <3>2
  <2> QED BY <2>1, <2>3, <2>4
<1>4. Elsewhere(F.handle, K.handle, p)
  BY <1>2, ElsewhereWithin
<1>5. Promised!Becomes(Maps(F.handle), MapOf(F.handle, p), MapOf(K.handle, p))
  BY <1>2, NoMap DEF Promised!Becomes
<1>6. Consistent(K, L \ {p})
  BY <1>1, <1>2, <1>4, StaysConsistent
<1> QED BY <1>1, <1>3, <1>4, <1>5, <1>6, StepIs

(* A child, with the descriptors of its father. *)
LEMMA Forked ==
    ASSUME NEW F, NEW L, Consistent(F, L), NEW p \in L, NEW q \in Processes \ L
    PROVE  LET G == CopyTable(F, p, q)
           IN  Consistent(G, L \union {q}) /\ Promised!Step(Maps(F.handle), Maps(G.handle))
<1> PICK G : G = CopyTable(F, p, q)
  OBVIOUS
<1>1. /\ p \in Processes /\ L \in SUBSET Processes /\ 0 \in Nums(F.handle, p) /\ Tidy(F)
      /\ Nums(F.handle, q) = {} /\ q \in Processes \ {p}
  BY DEF Consistent
<1>2. Copying(F, G, p, q, Null)
  BY <1>1, Copied
<1>3. /\ Tidy(G) /\ Within(G.handle, F.handle)
      /\ \A r \in Processes \ {q} : Nums(G.handle, r) = Nums(F.handle, r)
      /\ \A c \in Nums(G.handle, q) : G.handle[Hid(q, c)].is = F.handle[Hid(p, c)].is
      /\ Nums(G.handle, q) = Nums(F.handle, p)
  <2>1. \A d \in Nums(F.handle, p) : Hid(p, d) # Null
    BY <1>1, IdFacts DEF Nums
  <2> QED BY <1>2, <2>1 DEF Copying
<1>4. Elsewhere(F.handle, G.handle, q)
  BY <1>3, ElsewhereWithin
<1>5. MapOf(G.handle, q) = MapOf(F.handle, p)
  BY <1>3 DEF MapOf
<1>6. MapOf(F.handle, p) \in Promised!Range(Maps(F.handle))
  BY <1>1 DEF Promised!Range, Maps
<1>7. Promised!Becomes(Maps(F.handle), MapOf(F.handle, q), MapOf(G.handle, q))
  BY <1>1, <1>5, <1>6, NoMap DEF Promised!Becomes
<1>8. Consistent(G, L \union {q})
  BY <1>1, <1>3, <1>4, StaysConsistent
<1> QED BY <1>1, <1>4, <1>7, <1>8, StepIs

LEMMA StartedMap ==
    ASSUME NEW F, Tidy(F), NEW q \in Processes, Nums(F.handle, q) = {}
    PROVE  MapOf(InitTable(F, q).handle, q) = Promised!StdMap
<1> PICK J : J = InitTable(F, q).handle
  OBVIOUS
<1>1. Nums(J, q) = 0 .. 2 /\ \A c \in 0 .. 2 : J[Hid(q, c)].is = Plain(StdIO)
  BY Started
<1>2. \A c \in 0 .. 2 : J[Hid(q, c)].is.file = StdIO
  BY <1>1 DEF Plain
<1>3. Promised!StdMap = [d \in 0 .. 2 |-> StdIO]
  BY DEF Promised!StdMap
<1> QED BY <1>1, <1>2, <1>3 DEF MapOf

(* A process that a program is loaded for. *)
LEMMA Begun ==
    ASSUME NEW F, NEW L, Consistent(F, L), NEW q \in Processes \ L
    PROVE  LET G == InitTable(F, q)
           IN  Consistent(G, L \union {q}) /\ Promised!Step(Maps(F.handle), Maps(G.handle))
<1> PICK G : G = InitTable(F, q)
  OBVIOUS
<1>1. L \in SUBSET Processes /\ Tidy(F) /\ Nums(F.handle, q) = {}
  BY DEF Consistent
<1>2. /\ Tidy(G) /\ Within(G.handle, F.handle) /\ Nums(G.handle, q) = 0 .. 2
      /\ \A r \in Processes \ {q} : Nums(G.handle, r) = Nums(F.handle, r)
  BY <1>1, Started
<1>3. Elsewhere(F.handle, G.handle, q)
  BY <1>2, ElsewhereWithin
<1>4. MapOf(G.handle, q) = Promised!StdMap /\ MapOf(F.handle, q) = Promised!Empty
  BY <1>1, StartedMap, NoMap
<1>5. Promised!Becomes(Maps(F.handle), MapOf(F.handle, q), MapOf(G.handle, q))
  BY <1>4 DEF Promised!Becomes
<1>6. 0 \in Nums(G.handle, q)
  BY <1>2
<1>7. Consistent(G, L \union {q})
  BY <1>1, <1>2, <1>3, <1>6, StaysConsistent
<1> QED BY <1>3, <1>5, <1>7, StepIs

(* Before the first process there is nothing to count. *)
LEMMA NothingYet == Tidy(NoTables) /\ \A p \in Processes : Nums(NoTables.handle, p) = {}
<1> PICK f : f = FALSE
  OBVIOUS
<1> DEFINE H == [h \in {} |-> Null]
           T == [p \in Processes |-> [i \in Indices |-> Null]]
           N == [n \in Nodes |-> IF n \in PipeNodes THEN NoNode ELSE FreshNode]
<1>1. NoTables = [handle |-> H, table |-> T, node |-> N, fault |-> f]
  BY DEF NoTables
<1>2. DOMAIN H = {} /\ IsFiniteSet(DOMAIN H)
  BY FS_EmptySet
<1>3. Shaped(H)
  BY <1>2 DEF Shaped
<1>4. \A p \in Processes : Nums(H, p) = {}
  BY <1>2 DEF Nums
<1>5. Linked(H)
  BY <1>4 DEF Linked
<1>6. T = TableOf(H)
  BY <1>4 DEF TableOf
<1>7. NoNode \in NodeRecords /\ NoNode.refs = 0 /\ NoNode.writers = 0 /\ ~ NoNode.exists
  BY NoNodeFacts
<1>8. N \in [Nodes -> NodeRecords]
  BY <1>7, FreshFacts
<1>9. Sound(NoTables)
  <2> HIDE DEF H, T, N
  <2>1. NoTables = [handle |-> H, table |-> TableOf(H), node |-> N, fault |-> f]
    BY <1>1, <1>6
  <2> QED BY ONLY <1>3, <1>5, <1>8, <2>1, f = FALSE, SoundFrom
<1>10. NoTables.handle = H /\ NoTables.node = N
  BY <1>1
<1>11. ASSUME NEW n \in Nodes
       PROVE  /\ N[n].refs = Cardinality(Namers(H, n)) + NoDues[n].refs
              /\ N[n].writers = Cardinality(Writers(H, n)) + NoDues[n].writers
  <2>1. Cardinality(Namers(H, n)) = 0 /\ Cardinality(Writers(H, n)) = 0
    <3>1. Namers(H, n) = {} /\ Writers(H, n) = {}
      BY <1>2 DEF Namers, Writers
    <3> QED BY <3>1, FS_EmptySet
  <2>2. N[n].refs = 0 /\ N[n].writers = 0
    BY <1>7, FreshFacts
  <2>3. NoDues[n].refs = 0 /\ NoDues[n].writers = 0
    BY NothingDue
  <2> HIDE DEF H, N
  <2> QED BY <2>1, <2>2, <2>3
<1>12. ASSUME NEW n \in Nodes
       PROVE  Lives(N[n], n)
  <2>1. CASE n \in PipeNodes
    <3>1. N[n] = NoNode /\ n # StdIO
      BY <2>1, FileTableAssumption
    <3> HIDE DEF N
    <3> QED BY <1>7, <3>1 DEF Lives, Kept
  <2>2. CASE n \notin PipeNodes
    <3>1. N[n] = FreshNode
      BY <2>2
    <3> HIDE DEF N
    <3> QED BY <2>2, <3>1, FreshFacts DEF Lives, Kept
  <2> QED BY <2>1, <2>2
<1>13. Books(NoTables, NoDues)
  <2> HIDE DEF N
  <2>1. \A h \in DOMAIN H : H[h].is \in Files
    BY <1>2
  <2> HIDE DEF H
  <2> QED BY <1>10, <1>11, <1>12, <2>1 DEF Books, Counts
<1> QED BY <1>4, <1>9, <1>10, <1>13 DEF Tidy

-----------------------------------------------------------------------------
(* The invariant.                                                          *)

\* OpenMap of the handles H.
OpenMapOf(H) ==
    [p \in Processes |->
       [fd \in {FD(h) : h \in {x \in DOMAIN H : ProcOf(x) = p}} |->
          H[CHOOSE h \in {x \in DOMAIN H : ProcOf(x) = p} : FD(h) = fd].is.file]]

LEMMA OpenMapIs ==
    ASSUME NEW H, Shaped(H)
    PROVE  OpenMapOf(H) = Maps(H)
<1> SUFFICES ASSUME NEW p \in Processes
             PROVE  OpenMapOf(H)[p] = MapOf(H, p)
  BY DEF OpenMapOf, Maps
<1> DEFINE X == {x \in DOMAIN H : ProcOf(x) = p}
           Y == {FD(h) : h \in X}
<1>1. \A h \in X : h \in DOMAIN H /\ FD(h) \in Nat /\ h = Hid(p, FD(h))
  BY IdIs DEF Shaped
<1>2. \A d \in Nums(H, p) : Hid(p, d) \in X /\ FD(Hid(p, d)) = d
  BY IdFacts DEF Nums
<1>3. Y = Nums(H, p)
  <2>1. \A d \in Y : d \in Nums(H, p)
    BY <1>1 DEF Nums
  <2>2. \A d \in Nums(H, p) : d \in Y
    BY <1>2
  <2> QED BY <2>1, <2>2
<1>4. ASSUME NEW d \in Nums(H, p)
      PROVE  (CHOOSE h \in X : FD(h) = d) = Hid(p, d)
  <2> DEFINE g == CHOOSE h \in X : FD(h) = d
  <2>1. Hid(p, d) \in X /\ FD(Hid(p, d)) = d
    BY <1>2
  <2> HIDE DEF X
  <2>2. g \in X /\ FD(g) = d
    BY <2>1
  <2> HIDE DEF g
  <2>3. g = Hid(p, d)
    BY <1>1, <2>2
  <2> QED BY <2>3 DEF g
<1>5. OpenMapOf(H)[p] = [d \in Y |-> H[CHOOSE h \in X : FD(h) = d].is.file]
  BY DEF OpenMapOf
<1> HIDE DEF X, Y
<1>6. OpenMapOf(H)[p] = [d \in Nums(H, p) |-> H[Hid(p, d)].is.file]
  BY <1>3, <1>4, <1>5
<1> QED BY <1>6 DEF MapOf

\* The inductive invariant: the tables between two system calls.
FInv == Consistent(Now, live)

LEMMA Became ==
    ASSUME NEW F, Tidy(F), Become(F)
    PROVE  Now' = F
<1>1. F = [handle |-> F.handle, table |-> F.table, node |-> F.node, fault |-> F.fault]
  BY SoundFacts DEF Tidy
<1> QED BY <1>1 DEF Become, Now

LEMMA NowHas ==
    /\ Now.handle = handle /\ Now.table = table /\ Now.node = node /\ Now.fault = fault
  BY DEF Now

LEMMA FInvInit == Init => FInv /\ Promised!Init
<1> SUFFICES ASSUME Init
             PROVE  FInv /\ Promised!Init
  OBVIOUS
<1>1. PICK p \in Processes : /\ handle = InitTable(NoTables, p).handle
                             /\ table = InitTable(NoTables, p).table
                             /\ node = InitTable(NoTables, p).node
                             /\ fault = InitTable(NoTables, p).fault
                             /\ live = {p}
  BY DEF Init
<1> PICK F : F = InitTable(NoTables, p)
  OBVIOUS
<1>2. Consistent(NoTables, {})
  BY NothingYet DEF Consistent
<1>3. Consistent(F, {p})
  <2>1. p \in Processes \ {} /\ {} \union {p} = {p}
    OBVIOUS
  <2>2. Consistent(F, {} \union {p})
    BY <1>2, <2>1, Begun
  <2> QED BY <2>1, <2>2
<1>4. Now = F
  <2>1. F = [handle |-> F.handle, table |-> F.table, node |-> F.node, fault |-> F.fault]
    BY <1>3, SoundFacts DEF Consistent, Tidy
  <2> QED BY <1>1, <2>1 DEF Now
<1>5. OpenMap = Maps(handle)
  <2>1. OpenMap = OpenMapOf(handle)
    BY DEF OpenMap, OpenMapOf, Numbers, HandlesOf
  <2>2. Shaped(handle)
    BY <1>3, <1>4, NowHas DEF Consistent, Tidy, Sound
  <2> QED BY <2>1, <2>2, OpenMapIs
<1>6. ASSUME NEW q \in Processes
      PROVE  MapOf(handle, q) \in {Promised!Empty, Promised!StdMap}
  <2>1. handle = F.handle
    BY <1>1
  <2>2. CASE q = p
    BY <2>1, <2>2, NothingYet, StartedMap
  <2>3. CASE q # p
    <3>1. Nums(handle, q) = {}
      BY <1>3, <2>1, <2>3 DEF Consistent
    <3> QED BY <3>1, NoMap
  <2> QED BY <2>2, <2>3
<1>7. Promised!Init
  BY <1>5, <1>6 DEF Promised!Init, Maps
<1> QED BY <1>1, <1>3, <1>4, <1>7 DEF FInv

LEMMA MapsBefore == FInv => OpenMap = Maps(handle)
<1>1. OpenMap = OpenMapOf(handle)
  BY DEF OpenMap, OpenMapOf, Numbers, HandlesOf
<1>2. FInv => Shaped(handle)
  BY NowHas DEF FInv, Consistent, Tidy, Sound
<1> QED BY <1>1, <1>2, OpenMapIs

\* A step keeps the invariant, and does what Descriptors allows.
FStep == FInv' /\ [Promised!Next]_OpenMap

(* The state becomes one of consistent tables. *)
LEMMA StepMade ==
    ASSUME FInv, NEW G, Become(G), Consistent(G, live'),
           Promised!Step(Maps(handle), Maps(G.handle)) \/ G.handle = handle
    PROVE  FStep
<1>1. Now' = G /\ Tidy(G)
  BY Became DEF Consistent
<1>2. FInv'
  BY <1>1 DEF FInv
<1>3. OpenMap = Maps(handle)
  BY MapsBefore
<1>4. handle' = G.handle
  BY DEF Become
<1>5. OpenMap' = Maps(G.handle)
  <2>1. OpenMap' = OpenMapOf(handle')
    BY DEF OpenMap, OpenMapOf, Numbers, HandlesOf
  <2>2. Shaped(handle')
    BY <1>1, <1>4 DEF Tidy, Sound
  <2> QED BY <1>4, <2>1, <2>2, OpenMapIs
<1>6. CASE G.handle = handle
  BY <1>2, <1>3, <1>5, <1>6 DEF FStep
<1>7. CASE Promised!Step(Maps(handle), Maps(G.handle))
  <2>1. Promised!Next
    BY <1>3, <1>5, <1>7 DEF Promised!Next
  <2> QED BY <1>2, <2>1 DEF FStep
<1> QED BY <1>6, <1>7

LEMMA InvFacts ==
    ASSUME FInv
    PROVE  /\ Consistent(Now, live) /\ Tidy(Now) /\ Sound(Now)
           /\ live \in SUBSET Processes
           /\ IsFiniteSet(DOMAIN handle) /\ Cardinality(DOMAIN handle) \in Nat
<1>1. Consistent(Now, live) /\ Tidy(Now) /\ Sound(Now) /\ live \in SUBSET Processes
  BY DEF FInv, Consistent, Tidy
<1>2. IsFiniteSet(DOMAIN handle)
  BY <1>1, NowHas DEF Sound, Shaped
<1> QED BY <1>1, <1>2, FS_CardinalityType

(* An open descriptor of a process. *)
LEMMA IsOpenMeans ==
    ASSUME FInv, NEW p \in live, NEW fd \in FDs
    PROVE  /\ fd \in Nat
           /\ IsOpen(p, fd) <=> fd \in Nums(handle, p)
           /\ IsOpen(p, fd) => /\ Lookup(Now, p, fd) = Hid(p, fd)
                               /\ Hid(p, fd) \in DOMAIN handle
                               /\ handle[Hid(p, fd)].is \in Files
                               /\ handle[Hid(p, fd)].is.file \in Nodes
                               /\ node[handle[Hid(p, fd)].is.file].exists
<1>1. fd \in Nat /\ p \in Processes
  BY FileTableAssumption, InvFacts DEF FDs
<1>2. Sound(Now) /\ Tidy(Now) /\ 0 \in Nums(Now.handle, p)
  BY <1>1, InvFacts DEF Consistent
<1>3. /\ Lookup(Now, p, fd) = IF fd \in Nums(Now.handle, p) THEN Hid(p, fd) ELSE Null
      /\ Lookup(Now, p, fd) # Null <=> fd \in Nums(Now.handle, p)
  BY <1>1, <1>2, LookupIs
<1>4. Now.handle = handle /\ Now.node = node
  BY NowHas
<1>5. fd \in Nums(handle, p) => Hid(p, fd) \in DOMAIN handle
  BY DEF Nums
<1>6. ASSUME Hid(p, fd) \in DOMAIN handle
      PROVE  /\ handle[Hid(p, fd)].is \in Files
             /\ handle[Hid(p, fd)].is.file \in Nodes
             /\ node[handle[Hid(p, fd)].is.file].exists
  BY <1>2, <1>4, <1>6, NamedExists
<1> QED BY <1>1, <1>3, <1>4, <1>5, <1>6 DEF IsOpen

LEMMA OpenStep ==
    ASSUME FInv, NEW p \in live, NEW w \in Files, node[w.file].exists, Room(1),
           Become(Open(Now, p, w, -1)), live' = live
    PROVE  FStep
<1> PICK G : G = Open(Now, p, w, -1)
  OBVIOUS
<1>1. Cardinality(DOMAIN Now.handle) + 1 <= MaxHandles /\ Now.node[w.file].exists
  BY NowHas DEF Room
<1>2. Consistent(G, live) /\ Promised!Step(Maps(Now.handle), Maps(G.handle))
  BY <1>1, InvFacts, Newly
<1> QED BY <1>2, NowHas, StepMade

LEMMA OpenFileStep ==
    ASSUME FInv, NEW p \in Processes, NEW n \in Nodes, OpenFile(p, n)
    PROVE  FStep
<1>1. /\ p \in live /\ Room(1) /\ node[n].exists
      /\ Become(Open(Now, p, Plain(n), -1)) /\ live' = live
  BY DEF OpenFile, Live
<1>2. Plain(n) \in Files /\ Plain(n).file = n
  BY DEF Plain, Files, Handles
<1> QED BY <1>1, <1>2, OpenStep

LEMMA CreateFileStep ==
    ASSUME FInv, NEW p \in Processes, NEW n \in Nodes, CreateFile(p, n)
    PROVE  FStep
<1> PICK A : A = [Now EXCEPT !.node[n] = FreshNode]
  OBVIOUS
<1> PICK G : G = Open(A, p, Plain(n), -1)
  OBVIOUS
<1>1. /\ p \in live /\ Room(1) /\ ~ node[n].exists /\ n \in TempNodes \union VfsNodes
      /\ Become(G) /\ live' = live
  BY DEF CreateFile, Live
<1>2. Plain(n) \in Files /\ Plain(n).file = n
  BY DEF Plain, Files, Handles
<1>3. FreshNode \in NodeRecords /\ FreshNode.exists /\ FreshNode.refs = 0
      /\ FreshNode.writers = 0 /\ ~ FreshNode.autoClose
  BY FreshFacts
<1>4. Lives(FreshNode, n)
  <2>1. n \notin PipeNodes /\ n # StdIO
    BY <1>1, FileTableAssumption
  <2> QED BY <1>3, <2>1 DEF Lives, Kept
<1>5. Now.node[n].refs = 0 /\ Now.node[n].writers = 0
  BY <1>1, InvFacts, NowHas, NoHandles
<1>6. Consistent(A, live) /\ A.handle = handle /\ A.node[n] = FreshNode
  BY <1>3, <1>4, <1>5, InvFacts, NowHas, NodeChanged
<1>7. Cardinality(DOMAIN A.handle) + 1 <= MaxHandles /\ A.node[n].exists
  BY <1>1, <1>3, <1>6 DEF Room
<1>8. Consistent(G, live) /\ Promised!Step(Maps(A.handle), Maps(G.handle))
  BY <1>1, <1>2, <1>6, <1>7, Newly
<1> QED BY <1>1, <1>6, <1>8, StepMade

LEMMA PipeStep ==
    ASSUME FInv, NEW p \in Processes, NEW n \in PipeNodes, Pipe(p, n)
    PROVE  FStep
<1> PICK G : G = Bind(Bind(Ref(Ref([Now EXCEPT !.node[n] = FreshPipe], Plain(n)), Every(n)),
                           p, -1, Plain(n)), p, -1, Every(n))
  OBVIOUS
<1>1. p \in live /\ Room(2) /\ ~ node[n].exists /\ Become(G) /\ live' = live
  BY DEF Pipe, Live
<1>2. Cardinality(DOMAIN Now.handle) + 2 <= MaxHandles /\ ~ Now.node[n].exists
  BY <1>1, NowHas DEF Room
<1>3. Consistent(G, live) /\ Promised!Step(Maps(Now.handle), Maps(G.handle))
  BY <1>1, <1>2, InvFacts, Paired
<1> QED BY <1>1, <1>3, NowHas, StepMade

LEMMA DupStep ==
    ASSUME FInv, NEW p \in Processes, NEW fd \in FDs, Dup(p, fd) \/ DupAll(p, fd)
    PROVE  FStep
<1>1. p \in live /\ Room(1) /\ IsOpen(p, fd) /\ live' = live
  BY DEF Dup, DupAll, Live
<1> PICK w : w = handle[Hid(p, fd)].is
  OBVIOUS
<1>2. Lookup(Now, p, fd) = Hid(p, fd) /\ w \in Files /\ w.file \in Nodes /\ node[w.file].exists
  BY <1>1, IsOpenMeans
<1>3. Every(w.file) \in Files /\ Every(w.file).file = w.file
  BY <1>2 DEF Every, Files, Handles
<1>4. CASE Dup(p, fd)
  <2>1. Become(Open(Now, p, w, -1))
    BY <1>2, <1>4 DEF Dup
  <2> QED BY <1>1, <1>2, <2>1, OpenStep
<1>5. CASE DupAll(p, fd)
  <2>1. Become(Open(Now, p, Every(w.file), -1))
    BY <1>2, <1>5 DEF DupAll
  <2> QED BY <1>1, <1>2, <1>3, <2>1, OpenStep
<1> QED BY <1>4, <1>5

LEMMA Dup3Step ==
    ASSUME FInv, Careful, NEW p \in Processes, NEW fd \in FDs, NEW nfd \in FDs, Dup3(p, fd, nfd)
    PROVE  FStep
<1> PICK w : w = handle[Hid(p, fd)].is
  OBVIOUS
<1> PICK G : G = Dup3ed(Now, p, w, nfd)
  OBVIOUS
<1>1. p \in live /\ IsOpen(p, fd) /\ fd # nfd /\ MayReplace(p, nfd) /\ live' = live
  BY DEF Dup3, Live
<1>2. Lookup(Now, p, fd) = Hid(p, fd) /\ fd \in Nums(Now.handle, p) /\ nfd \in Nat
  BY <1>1, IsOpenMeans, NowHas
<1>3. Become(G)
  BY <1>2 DEF Dup3
<1>4. nfd = 0 => Now.table[p][1] # Null
  BY <1>1, NowHas DEF MayReplace
<1>5. G = Dup3ed(Now, p, Now.handle[Hid(p, fd)].is, nfd)
  BY NowHas
<1>6. Consistent(G, live) /\ Promised!Step(Maps(Now.handle), Maps(G.handle))
  BY <1>1, <1>2, <1>4, <1>5, InvFacts, Replaced
<1> QED BY <1>1, <1>3, <1>6, NowHas, StepMade

LEMMA CloseStep ==
    ASSUME FInv, Careful, NEW p \in Processes, NEW fd \in FDs, Close(p, fd)
    PROVE  FStep
<1> PICK G : G = Delete(Now, Hid(p, fd))
  OBVIOUS
<1>1. p \in live /\ IsOpen(p, fd) /\ fd # 0 /\ live' = live
  BY DEF Close, Live, MayClose
<1>2. Lookup(Now, p, fd) = Hid(p, fd) /\ fd \in Nums(Now.handle, p)
  BY <1>1, IsOpenMeans, NowHas
<1>3. Become(G)
  BY <1>2 DEF Close
<1>4. Consistent(G, live) /\ Promised!Step(Maps(Now.handle), Maps(G.handle))
  BY <1>1, <1>2, InvFacts, Closed
<1> QED BY <1>1, <1>3, <1>4, NowHas, StepMade

LEMMA UnlinkStep ==
    ASSUME FInv, Careful, NEW p \in Processes, NEW n \in Nodes,
           UnlinkTemp(p, n) \/ UnlinkMounted(p, n)
    PROVE  FStep
<1> PICK r : r = IF UnlinkTemp(p, n) /\ node[n].refs # 0 THEN [node[n] EXCEPT !.autoClose = TRUE]
                 ELSE NoNode
  OBVIOUS
<1> PICK G : G = [Now EXCEPT !.node[n] = r]
  OBVIOUS
<1>1. node[n] \in NodeRecords /\ node[n].exists /\ n \notin PipeNodes /\ n # StdIO
  <2>1. n \in TempNodes \union VfsNodes /\ node[n].exists
    BY DEF UnlinkTemp, UnlinkMounted
  <2>2. n \notin PipeNodes /\ n # StdIO
    BY <2>1, FileTableAssumption
  <2>3. Now.node \in [Nodes -> NodeRecords]
    BY InvFacts, SoundFacts
  <2>4. node[n] \in NodeRecords
    BY <2>3, NowHas
  <2> QED BY <2>1, <2>2, <2>4
<1>2. /\ r \in NodeRecords /\ r.refs = node[n].refs /\ r.writers = node[n].writers
      /\ Lives(r, n)
  <2>1. CASE r = NoNode /\ node[n].refs = 0
    <3>1. node[n].writers = 0
      BY <2>1, InvFacts, NowHas, NoHandles
    <3>2. NoNode \in NodeRecords /\ NoNode.refs = 0 /\ NoNode.writers = 0 /\ ~ NoNode.exists
      BY NoNodeFacts
    <3> QED BY <1>1, <2>1, <3>1, <3>2 DEF Lives, Kept
  <2>2. CASE r = [node[n] EXCEPT !.autoClose = TRUE] /\ node[n].refs # 0
    <3> PICK o, t : o = node[n] /\ t = TRUE
      OBVIOUS
    <3>1. r = [o EXCEPT !.autoClose = t]
      BY <2>2
    <3>2. o \in NodeRecords /\ t \in BOOLEAN
      BY <1>1
    <3>3. /\ r \in NodeRecords /\ r.refs = o.refs /\ r.writers = o.writers
          /\ r.exists = o.exists
      BY ONLY <3>1, <3>2 DEF NodeRecords
    <3>4. Lives(r, n)
      BY <1>1, <2>2, <3>3 DEF Lives, Kept
    <3> QED BY <3>3, <3>4
  <2>3. ~ (UnlinkTemp(p, n) /\ node[n].refs # 0) => node[n].refs = 0
    BY DEF UnlinkMounted
  <2> QED BY <2>1, <2>2, <2>3
<1>3. Consistent(G, live) /\ G.handle = handle /\ G.table = table /\ G.fault = fault
      /\ G.node = [node EXCEPT ![n] = r]
  <2>1. Now.handle = handle /\ Now.table = table /\ Now.node = node /\ Now.fault = fault
    BY NowHas
  <2>2. Consistent(Now, live)
    BY InvFacts
  <2> PICK F : F = Now
    OBVIOUS
  <2>3. r \in NodeRecords /\ r.refs = F.node[n].refs /\ r.writers = F.node[n].writers /\ Lives(r, n)
    BY <1>2, <2>1
  <2>4. Consistent(F, live) /\ G = [F EXCEPT !.node[n] = r]
    BY <2>2
  <2>5. /\ Consistent(G, live) /\ G.handle = F.handle /\ G.table = F.table
        /\ G.fault = F.fault /\ G.node = [F.node EXCEPT ![n] = r]
    BY ONLY <2>3, <2>4, NodeChanged, n \in Nodes
  <2> QED BY <2>1, <2>5
<1>4. node' = [node EXCEPT ![n] = r] /\ UNCHANGED <<handle, table, live, fault>>
  <2>1. CASE UnlinkTemp(p, n)
    <3>1. node' = [node EXCEPT ![n] = IF node[n].refs # 0 THEN [node[n] EXCEPT !.autoClose = TRUE]
                                      ELSE NoNode]
      BY <2>1 DEF UnlinkTemp
    <3>2. UNCHANGED <<handle, table, live, fault>>
      BY <2>1 DEF UnlinkTemp
    <3>3. r = IF node[n].refs # 0 THEN [node[n] EXCEPT !.autoClose = TRUE] ELSE NoNode
      BY <2>1
    <3> QED BY <3>1, <3>2, <3>3
  <2>2. CASE UnlinkMounted(p, n)
    <3>1. node' = [node EXCEPT ![n] = NoNode] /\ node[n].refs = 0
      BY <2>2 DEF UnlinkMounted
    <3>2. UNCHANGED <<handle, table, live, fault>>
      BY <2>2 DEF UnlinkMounted
    <3> QED BY <3>1, <3>2
  <2> QED BY <2>1, <2>2
<1>5. Become(G) /\ live' = live
  BY <1>3, <1>4 DEF Become
<1> QED BY <1>3, <1>5, StepMade

LEMMA ForkStep ==
    ASSUME FInv, NEW p \in Processes, NEW q \in Processes, Fork(p, q)
    PROVE  FStep
<1> PICK G : G = CopyTable(Now, p, q)
  OBVIOUS
<1>1. p \in live /\ q \in Processes \ live /\ Become(G) /\ live' = live \union {q}
  BY DEF Fork, Live
<1>2. Consistent(G, live \union {q}) /\ Promised!Step(Maps(Now.handle), Maps(G.handle))
  BY <1>1, InvFacts, Forked
<1> QED BY <1>1, <1>2, NowHas, StepMade

LEMMA StartStep ==
    ASSUME FInv, NEW q \in Processes, Start(q)
    PROVE  FStep
<1> PICK G : G = InitTable(Now, q)
  OBVIOUS
<1>1. q \in Processes \ live /\ Become(G) /\ live' = live \union {q}
  BY DEF Start
<1>2. Consistent(G, live \union {q}) /\ Promised!Step(Maps(Now.handle), Maps(G.handle))
  BY <1>1, InvFacts, Begun
<1> QED BY <1>1, <1>2, NowHas, StepMade

LEMMA DestroyCallStep ==
    ASSUME FInv, NEW p \in Processes, Destroy(p)
    PROVE  FStep
<1> PICK G : G = [DestroyTable(Now, p) EXCEPT !.table[p] = [i \in Indices |-> Null]]
  OBVIOUS
<1>1. p \in live /\ Become(G) /\ live' = live \ {p}
  BY DEF Destroy, Live
<1>2. Consistent(G, live \ {p}) /\ Promised!Step(Maps(Now.handle), Maps(G.handle))
  BY <1>1, InvFacts, Ended
<1> QED BY <1>1, <1>2, NowHas, StepMade

(* Every step keeps the tables consistent, and is a step of Descriptors. *)
LEMMA FInvNext == Careful /\ FInv /\ [Next]_vars => FStep
<1> SUFFICES ASSUME Careful, FInv, [Next]_vars
             PROVE  FStep
  OBVIOUS
<1>1. CASE UNCHANGED vars
  <2>1. UNCHANGED <<handle, table, node, live, fault>>
    BY <1>1 DEF vars
  <2>2. Become(Now)
    BY <2>1, NowHas DEF Become
  <2> QED BY <2>1, <2>2, InvFacts, NowHas, StepMade
<1>2. ASSUME NEW p \in Processes, NEW n \in Nodes,
             OpenFile(p, n) \/ CreateFile(p, n) \/ UnlinkTemp(p, n) \/ UnlinkMounted(p, n)
      PROVE  FStep
  BY <1>2, OpenFileStep, CreateFileStep, UnlinkStep
<1>3. ASSUME NEW p \in Processes, NEW n \in PipeNodes, Pipe(p, n)
      PROVE  FStep
  BY <1>3, PipeStep
<1>4. ASSUME NEW p \in Processes, NEW fd \in FDs, Dup(p, fd) \/ DupAll(p, fd) \/ Close(p, fd)
      PROVE  FStep
  BY <1>4, DupStep, CloseStep
<1>5. ASSUME NEW p \in Processes, NEW fd \in FDs, NEW nfd \in FDs, Dup3(p, fd, nfd)
      PROVE  FStep
  BY <1>5, Dup3Step
<1>6. ASSUME NEW p \in Processes, NEW q \in Processes, Fork(p, q)
      PROVE  FStep
  BY <1>6, ForkStep
<1>7. ASSUME NEW p \in Processes, Start(p) \/ Destroy(p)
      PROVE  FStep
  BY <1>7, StartStep, DestroyCallStep
<1> QED BY <1>1, <1>2, <1>3, <1>4, <1>5, <1>6, <1>7 DEF Next

(* The tables of processes are consistent between two system calls: every   *)
(* handle is linked to its neighbours by number, an array is the handles of *)
(* small numbers, the counts of a node are of its handles, and a process    *)
(* keeps descriptor 0 as long as it lives (Process.cpp, File.hpp).          *)
THEOREM FileTableInvariant == Careful => (Spec => []FInv)
<1> SUFFICES ASSUME Careful
             PROVE  Spec => []FInv
  OBVIOUS
<1>1. Init => FInv
  BY FInvInit
<1>2. FInv /\ [Next]_vars => FInv'
  BY FInvNext DEF FStep
<1> QED BY <1>1, <1>2, PTL DEF Spec

(* The descriptors are the maps that Descriptors promises, whatever open,   *)
(* dup, dup3, pipe, close, fork and exit do in any order (BindToProcess,    *)
(* CopyFileTable, DestroyFileTable).                                        *)
THEOREM DescriptorsImplemented == Careful => (Spec => ImplementsDescriptors)
<1> SUFFICES ASSUME Careful
             PROVE  Spec => ImplementsDescriptors
  OBVIOUS
<1>1. Init => Promised!Init
  BY FInvInit
<1>2. FInv /\ [Next]_vars => [Promised!Next]_OpenMap
  BY FInvNext DEF FStep
<1>3. Spec => []FInv
  BY FileTableInvariant
<1> QED BY <1>1, <1>2, <1>3, PTL DEF Spec, ImplementsDescriptors, Promised!Spec

LEMMA CountsFollow == FInv => CountsExact
<1> SUFFICES ASSUME FInv, NEW n \in Nodes
             PROVE  /\ node[n].refs = Cardinality(NamersOf(n))
                    /\ node[n].writers = IF n \in PipeNodes
                                         THEN Cardinality({h \in NamersOf(n) : handle[h].is.writer})
                                         ELSE 0
  BY DEF CountsExact
<1>1. Books(Now, NoDues) /\ IsFiniteSet(DOMAIN handle)
  BY InvFacts DEF Tidy
<1>2. NamersOf(n) = Namers(handle, n) /\ {h \in NamersOf(n) : handle[h].is.writer} = Writers(handle, n)
  BY DEF NamersOf, Namers, Writers
<1>3. /\ node[n].refs = Cardinality(Namers(handle, n)) + NoDues[n].refs
      /\ node[n].writers = Cardinality(Writers(handle, n)) + NoDues[n].writers
  BY <1>1, NowHas DEF Books, Counts
<1>4. Cardinality(Namers(handle, n)) \in Nat /\ Cardinality(Writers(handle, n)) \in Nat
  BY <1>1, NamersFinite
<1>5. NoDues[n].refs = 0 /\ NoDues[n].writers = 0
  BY NothingDue
<1>6. n \notin PipeNodes => Cardinality(Writers(handle, n)) = 0
  <2>1. n \notin PipeNodes => Writers(handle, n) = {}
    BY <1>1, NowHas DEF Books, Files, Writers, Namers
  <2> QED BY <2>1, FS_EmptySet
<1>7. node[n].refs = Cardinality(Namers(handle, n)) /\ node[n].writers = Cardinality(Writers(handle, n))
  BY <1>3, <1>4, <1>5
<1> QED BY <1>2, <1>6, <1>7

LEMMA LivesFollow == FInv => NodeLivesWhileNamed
<1> SUFFICES ASSUME FInv, NEW n \in Nodes
             PROVE  /\ NamersOf(n) # {} => node[n].exists
                    /\ node[n].exists /\ (n \in PipeNodes \/ node[n].autoClose) => NamersOf(n) # {}
  BY DEF NodeLivesWhileNamed
<1>1. Tidy(Now) /\ IsFiniteSet(DOMAIN handle) /\ NamersOf(n) = Namers(handle, n)
  BY InvFacts DEF NamersOf, Namers
<1>2. ASSUME NEW h \in NamersOf(n)
      PROVE  node[n].exists
  <2>1. h \in DOMAIN Now.handle /\ Now.handle[h].is.file = n
    BY NowHas DEF NamersOf
  <2>2. Now.node[Now.handle[h].is.file].exists
    BY <1>1, <2>1, NamedExists
  <2> QED BY <2>1, <2>2, NowHas
<1>3. ASSUME node[n].exists, n \in PipeNodes \/ node[n].autoClose
      PROVE  NamersOf(n) # {}
  <2>1. Lives(node[n], n)
    BY <1>1, NowHas DEF Tidy, Books
  <2>2. node[n].refs # 0
    BY <1>3, <2>1 DEF Lives, Kept
  <2>3. node[n].refs = Cardinality(NamersOf(n))
    BY CountsFollow DEF CountsExact
  <2> QED BY <2>2, <2>3, FS_EmptySet
<1> QED BY <1>2, <1>3

LEMMA ListsFollow == FInv => ListAndArrayAgree
<1> SUFFICES ASSUME FInv, NEW p \in Processes
             PROVE  LET list == From(Now, table[p][0])
                    IN  /\ Range(list) = HandlesOf(p)
                        /\ \A i, j \in DOMAIN list : i < j => FD(list[i]) < FD(list[j])
                        /\ \A h \in HandlesOf(p), fd \in Indices : FD(h) = fd <=> table[p][fd] = h
                        /\ p \notin live => list = <<>>
  BY DEF ListAndArrayAgree
<1> PICK l : l = From(Now, table[p][0])
  OBVIOUS
<1> DEFINE S == Nums(handle, p)
<1>1. Sound(Now) /\ Consistent(Now, live) /\ Now.handle = handle /\ Now.table = table
  BY InvFacts, NowHas
<1>2. /\ \A h \in HandlesOf(p) : FD(h) \in S /\ h = Hid(p, FD(h))
      /\ \A d \in S : Hid(p, d) \in HandlesOf(p)
  <2>1. \A h \in DOMAIN handle : h \in Ids
    BY <1>1 DEF Sound, Shaped
  <2>2. \A h \in HandlesOf(p) : FD(h) \in Nat /\ h = Hid(p, FD(h)) /\ h \in DOMAIN handle
    BY <2>1, IdIs DEF HandlesOf
  <2>3. \A h \in HandlesOf(p) : FD(h) \in S
    BY <2>2 DEF Nums
  <2>4. \A d \in S : Hid(p, d) \in HandlesOf(p)
    BY IdFacts DEF HandlesOf, Nums
  <2> QED BY <2>2, <2>3, <2>4
<1>3. /\ DOMAIN l = 1 .. Len(l)
      /\ \A i \in 1 .. Len(l) : \E e \in S : l[i] = Hid(p, e)
      /\ \A e \in S : \E i \in 1 .. Len(l) : l[i] = Hid(p, e)
      /\ \A i, j \in 1 .. Len(l) : i < j => FD(l[i]) < FD(l[j])
      /\ p \notin live => l = <<>>
  <2>1. CASE p \in live
    <3>1. 0 \in Nums(Now.handle, p) /\ l = From(Now, Now.table[p][0])
      BY <1>1, <2>1 DEF Consistent
    <3>2. /\ l \in Seq(DOMAIN handle)
          /\ \A i \in 1 .. Len(l) : \E e \in S : l[i] = Hid(p, e)
          /\ \A e \in S : \E i \in 1 .. Len(l) : l[i] = Hid(p, e)
          /\ \A i, j \in 1 .. Len(l) : i < j => FD(l[i]) < FD(l[j])
      BY <1>1, <3>1, ListFacts
    <3> QED BY <2>1, <3>2
  <2>2. CASE p \notin live
    <3>1. S = {}
      BY <1>1, <2>2 DEF Consistent
    <3>2. Now.table[p][0] = Null
      BY <1>1, <3>1, LowIndices, TableIs
    <3>3. Shaped(Now.handle) /\ Linked(Now.handle)
      BY <1>1 DEF Sound
    <3>4. l = <<>>
      BY <1>1, <3>2, <3>3, FromNull
    <3> QED BY <3>1, <3>4
  <2> QED BY <2>1, <2>2
<1>4. Range(l) = HandlesOf(p)
  <2> HIDE DEF S
  <2>1. \A h \in HandlesOf(p) : \E i \in DOMAIN l : l[i] = h
    BY SMTT(30), <1>2, <1>3
  <2>2. \A i \in DOMAIN l : l[i] \in HandlesOf(p)
    BY <1>2, <1>3
  <2> QED BY <2>1, <2>2 DEF Range
<1>5. ASSUME NEW h \in HandlesOf(p), NEW fd \in Indices
      PROVE  FD(h) = fd <=> table[p][fd] = h
  <2>1. table[p][fd] = IF fd \in S THEN Hid(p, fd) ELSE Null
    BY <1>1, TableIs
  <2>2. FD(h) \in S /\ h = Hid(p, FD(h)) /\ FD(h) \in Nat
    BY <1>2 DEF Nums
  <2>3. h # Null
    BY <2>2, IdFacts
  <2>4. fd \in Nat
    BY FileTableAssumption DEF Indices
  <2>5. FD(Hid(p, fd)) = fd
    BY <2>4, IdFacts
  <2> HIDE DEF S
  <2> QED BY <2>1, <2>2, <2>3, <2>5
<1> QED BY <1>3, <1>4, <1>5

LEMMA TypesFollow == FInv => TypeOK
<1> SUFFICES ASSUME FInv
             PROVE  TypeOK
  OBVIOUS
<1>1. Sound(Now) /\ live \in SUBSET Processes
      /\ Now.handle = handle /\ Now.table = table /\ Now.node = node /\ Now.fault = fault
  BY InvFacts, NowHas
<1>2. Shaped(handle) /\ Linked(handle) /\ table = TableOf(handle)
      /\ node \in [Nodes -> NodeRecords] /\ fault = FALSE
  BY <1>1, SoundFacts
<1>3. ASSUME NEW h \in DOMAIN handle
      PROVE  /\ ProcOf(h) \in Processes /\ FD(h) \in Nat
             /\ handle[h] \in [is : Handles, pre : DOMAIN handle \union {Null},
                               nxt : DOMAIN handle \union {Null}]
  <2> PICK p, d : p = ProcOf(h) /\ d = FD(h)
    OBVIOUS
  <2>1. p \in Processes /\ d \in Nat /\ h = Hid(p, d)
    BY <1>2, IdIs DEF Shaped
  <2>2. d \in Nums(handle, p)
    BY <2>1 DEF Nums
  <2>3. IsNext(Nums(handle, p), p, d, handle[h].nxt) /\ IsPrev(Nums(handle, p), p, d, handle[h].pre)
    BY <1>2, <2>1, <2>2 DEF Linked
  <2>4. handle[h].nxt \in DOMAIN handle \union {Null} /\ handle[h].pre \in DOMAIN handle \union {Null}
    BY <2>1, <2>2, <2>3, NextFacts
  <2>5. handle[h] \in [is : Handles, pre : Links, nxt : Links]
    BY <1>2 DEF Shaped
  <2> QED BY <2>1, <2>4, <2>5
<1>4. table \in [Processes -> [Indices -> DOMAIN handle \union {Null}]]
  <2>1. \A p \in Processes, i \in Indices :
           (IF i \in Nums(handle, p) THEN Hid(p, i) ELSE Null) \in DOMAIN handle \union {Null}
    BY DEF Nums
  <2> QED BY <1>2, <2>1 DEF TableOf
<1>5. node \in [Nodes -> [exists : BOOLEAN, refs : Int, writers : Int, autoClose : BOOLEAN]]
  BY <1>2 DEF NodeRecords
<1> QED BY <1>1, <1>2, <1>3, <1>4, <1>5 DEF TypeOK

(* The variables have their types: a link leads to a handle that is there. *)
THEOREM FileTableTypes == Careful => (Spec => []TypeOK)
<1> SUFFICES ASSUME Careful
             PROVE  Spec => []TypeOK
  OBVIOUS
<1> QED BY FileTableInvariant, TypesFollow, PTL

(* The counts of a node are of its handles (FileNode::Ref and Unref).      *)
THEOREM CountsStayExact == Careful => (Spec => []CountsExact)
<1> SUFFICES ASSUME Careful
             PROVE  Spec => []CountsExact
  OBVIOUS
<1> QED BY FileTableInvariant, CountsFollow, PTL

(* No handle names a node that is gone, and a pipe goes with its last one  *)
(* (FileNode::Unref, VFSM.Unlink).                                         *)
THEOREM NodesLiveWhileNamed == Careful => (Spec => []NodeLivesWhileNamed)
<1> SUFFICES ASSUME Careful
             PROVE  Spec => []NodeLivesWhileNamed
  OBVIOUS
<1> QED BY FileTableInvariant, LivesFollow, PTL

(* The list, the array and the numbers of a process tell the same          *)
(* (BindToProcess, Close).                                                 *)
THEOREM ListAndArrayStayEqual == Careful => (Spec => []ListAndArrayAgree)
<1> SUFFICES ASSUME Careful
             PROVE  Spec => []ListAndArrayAgree
  OBVIOUS
<1> QED BY FileTableInvariant, ListsFollow, PTL
=============================================================================
