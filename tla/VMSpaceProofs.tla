---------------------------- MODULE VMSpaceProofs ----------------------------
(***************************************************************************)
(* Proofs about VMSpace: for any layout, any number of processes and any   *)
(* bounds, the regions of a space of a careful program lie apart and       *)
(* FindVMR tells what the list says.  First what the operations do to a    *)
(* list of regions, then what they do to a space, then the steps.  A space *)
(* exists as long as a process has it: this part is first, as the steps    *)
(* need that who runs has a space.  In the end the physical pages: a step  *)
(* neither loses a page nor has one used twice.                            *)
(***************************************************************************)
EXTENDS VMSpace, FiniteSetTheorems, WellFoundedInduction, TLAPS

\* The kernel's region lies where the kernel does.
Regs == {r \in [kind : Kinds, start : Nat, end : Nat] : r.kind = "kernel" => Kernel <= r.start}

\* Regions that are not empty, in order and apart.
Apart(l) ==
    /\ l \in Seq(Regs)
    /\ \A i \in 1 .. Len(l) : l[i].start < l[i].end
    /\ \A i, j \in 1 .. Len(l) : i < j => l[i].end <= l[j].start

Starts(l) == {l[i].start : i \in 1 .. Len(l)}

-----------------------------------------------------------------------------
(* Where a search of the list stops.                                       *)

LEMMA LeastElement ==
    ASSUME NEW I \in SUBSET Nat, I # {}
    PROVE  \E i \in I : \A j \in I : i <= j
<1>1. PICK i \in I : \A j \in I : ~ (<<j, i>> \in OpToRel(<, Nat))
  BY WFMin, NatLessThanWellFounded
<1>2. ASSUME NEW j \in I, j < i
      PROVE  <<j, i>> \in OpToRel(<, Nat)
  BY <1>2 DEF OpToRel
<1>3. ASSUME NEW j \in I
      PROVE  i <= j
  <2>1. i \in Nat /\ j \in Nat
    OBVIOUS
  <2>2. ~ (j < i)
    BY <1>1, <1>2
  <2> QED BY <2>1, <2>2
<1> QED BY <1>3

LEMMA FirstIndex ==
    ASSUME NEW n \in Nat, NEW I \in SUBSET (1 .. n), NEW k,
           k = IF I # {} THEN Min(I) ELSE 0
    PROVE  \/ k = 0 /\ I = {}
           \/ k \in I /\ \A j \in I : k <= j
<1>1. CASE I = {}
  BY <1>1
<1>2. CASE I # {}
  <2>1. \E i \in I : \A j \in I : i <= j
    BY <1>2, LeastElement
  <2>2. k = CHOOSE i \in I : \A j \in I : i <= j
    BY <1>2 DEF Min
  <2> QED BY <2>1, <2>2
<1> QED BY <1>1, <1>2

\* FindVMR's search: the first region that ends behind an address.
LEMMA EndsBehind ==
    ASSUME NEW l \in Seq(Regs), NEW v, NEW k,
           k = SelectInSeq(l, LAMBDA r : v < r.end)
    PROVE  \/ k = 0 /\ \A j \in 1 .. Len(l) : ~ (v < l[j].end)
           \/ /\ k \in 1 .. Len(l) /\ v < l[k].end
              /\ \A j \in 1 .. Len(l) : v < l[j].end => k <= j
<1> DEFINE I == {j \in 1 .. Len(l) : v < l[j].end}
<1>1. k = IF I # {} THEN Min(I) ELSE 0
  BY DEF SelectInSeq
<1>2. Len(l) \in Nat /\ I \in SUBSET (1 .. Len(l))
  OBVIOUS
<1>3. \/ k = 0 /\ I = {}
      \/ k \in I /\ \A j \in I : k <= j
  <2> HIDE DEF I
  <2> QED BY <1>1, <1>2, FirstIndex
<1> QED BY <1>3

\* The region around an address.
At(l, v) == SelectInSeq(l, LAMBDA r : Within(v, r))

LEMMA WithinAt ==
    ASSUME NEW l \in Seq(Regs), NEW v, NEW k, k = At(l, v)
    PROVE  \/ k = 0
           \/ k \in 1 .. Len(l) /\ Within(v, l[k])
<1> DEFINE I == {j \in 1 .. Len(l) : Within(v, l[j])}
<1>1. k = IF I # {} THEN Min(I) ELSE 0
  BY DEF SelectInSeq, At
<1>2. Len(l) \in Nat /\ I \in SUBSET (1 .. Len(l))
  OBVIOUS
<1>3. \/ k = 0 /\ I = {}
      \/ k \in I /\ \A j \in I : k <= j
  <2> HIDE DEF I
  <2> QED BY <1>1, <1>2, FirstIndex
<1> QED BY <1>3

\* The heap's region.
LEMMA HeapAt ==
    ASSUME NEW l \in Seq(Regs), NEW k,
           k = SelectInSeq(l, LAMBDA r : r.kind = "heap"),
           \E j \in 1 .. Len(l) : l[j].kind = "heap"
    PROVE  k \in 1 .. Len(l) /\ l[k].kind = "heap"
<1> DEFINE I == {j \in 1 .. Len(l) : l[j].kind = "heap"}
<1>1. k = IF I # {} THEN Min(I) ELSE 0
  BY DEF SelectInSeq
<1>2. Len(l) \in Nat /\ I \in SUBSET (1 .. Len(l))
  OBVIOUS
<1>3. \/ k = 0 /\ I = {}
      \/ k \in I /\ \A j \in I : k <= j
  <2> HIDE DEF I
  <2> QED BY <1>1, <1>2, FirstIndex
<1> QED BY <1>3

-----------------------------------------------------------------------------
(* What LinkTable's insertion and removal do to a list.                    *)

LEMMA Joined ==
    ASSUME NEW A, NEW a \in Seq(A), NEW b \in Seq(A)
    PROVE  /\ a \o b \in Seq(A)
           /\ Len(a \o b) = Len(a) + Len(b)
           /\ \A i \in 1 .. Len(a) + Len(b) :
                 (a \o b)[i] = IF i <= Len(a) THEN a[i] ELSE b[i - Len(a)]
  OBVIOUS

LEMMA InsertAtFacts ==
    ASSUME NEW A, NEW q \in Seq(A), NEW k \in 1 .. Len(q), NEW e \in A
    PROVE  /\ InsertAt(q, k, e) \in Seq(A)
           /\ Len(InsertAt(q, k, e)) = Len(q) + 1
           /\ \A i \in 1 .. Len(q) + 1 :
                 InsertAt(q, k, e)[i] = IF i < k THEN q[i] ELSE
                                        IF i = k THEN e ELSE q[i - 1]
<1> DEFINE a == SubSeq(q, 1, k - 1)
           b == SubSeq(q, k, Len(q))
           m == <<e>>
<1>0. Len(q) \in Nat /\ k \in Nat /\ 1 <= k /\ k <= Len(q)
  OBVIOUS
<1>1. /\ a \in Seq(A) /\ Len(a) = k - 1
      /\ \A i \in 1 .. k - 1 : a[i] = q[i]
  BY <1>0
<1>2. /\ b \in Seq(A) /\ Len(b) = Len(q) - k + 1
      /\ \A i \in 1 .. Len(q) - k + 1 : b[i] = q[i + k - 1]
  BY <1>0
<1>3. m \in Seq(A) /\ Len(m) = 1 /\ m[1] = e
  OBVIOUS
<1>4. InsertAt(q, k, e) = (a \o m) \o b
  BY DEF InsertAt
<1> HIDE DEF a, b, m
<1>5. /\ a \o m \in Seq(A) /\ Len(a \o m) = k
      /\ \A i \in 1 .. k : (a \o m)[i] = IF i < k THEN q[i] ELSE e
  <2>0. a \in Seq(A) /\ m \in Seq(A)
    BY <1>1, <1>3
  <2>1. a \o m \in Seq(A) /\ Len(a \o m) = Len(a) + Len(m)
    BY <2>0, Joined
  <2>2. \A i \in 1 .. Len(a) + Len(m) :
            (a \o m)[i] = IF i <= Len(a) THEN a[i] ELSE m[i - Len(a)]
    BY <2>0, Joined
  <2>3. Len(a) = k - 1 /\ Len(m) = 1
    BY <1>1, <1>3
  <2>4. ASSUME NEW i \in 1 .. k
        PROVE  (a \o m)[i] = IF i < k THEN q[i] ELSE e
    <3>1. CASE i < k
      BY <1>0, <1>1, <2>2, <2>3, <3>1
    <3>2. CASE i = k
      <4>1. i - (k - 1) = 1 /\ ~ (i <= k - 1) /\ i \in 1 .. (k - 1) + 1
        BY <1>0, <3>2
      <4>2. (a \o m)[i] = m[i - (k - 1)]
        BY <2>2, <2>3, <4>1
      <4>3. (a \o m)[i] = m[1]
        <5> DEFINE d == i - (k - 1)
        <5>1. d = 1 /\ (a \o m)[i] = m[d]
          BY <4>1, <4>2
        <5> HIDE DEF d
        <5> QED BY <5>1
      <4>4. ~ (i < k)
        BY <1>0, <3>2
      <4> QED BY <1>3, <4>3, <4>4
    <3>3. i < k \/ i = k
      BY <1>0
    <3> QED BY <3>1, <3>2, <3>3
  <2> QED BY <1>0, <2>1, <2>3, <2>4
<1> DEFINE c == a \o m
<1>6. c \in Seq(A) /\ Len(c) = k /\ \A i \in 1 .. k : c[i] = IF i < k THEN q[i] ELSE e
  BY <1>5
<1>7. InsertAt(q, k, e) = c \o b
  BY <1>4
<1> HIDE DEF c
<1>c. b \in Seq(A) /\ c \in Seq(A)
  BY <1>2, <1>6
<1>8. c \o b \in Seq(A) /\ Len(c \o b) = Len(c) + Len(b)
  BY <1>c, Joined
<1>9. \A i \in 1 .. Len(c) + Len(b) :
          (c \o b)[i] = IF i <= Len(c) THEN c[i] ELSE b[i - Len(c)]
  BY <1>c, Joined
<1>10. Len(c) + Len(b) = Len(q) + 1
  BY <1>0, <1>2, <1>6
<1>11. ASSUME NEW i \in 1 .. Len(q) + 1
       PROVE  (c \o b)[i] = IF i < k THEN q[i] ELSE IF i = k THEN e ELSE q[i - 1]
  <2>1. CASE i <= k
    <3>1. i \in 1 .. k /\ (c \o b)[i] = c[i]
      BY <1>0, <1>6, <1>9, <1>10, <2>1
    <3> QED BY <1>0, <1>6, <2>1, <3>1
  <2>2. CASE ~ (i <= k)
    <3>1. /\ i - k \in 1 .. Len(q) - k + 1
          /\ (i - k) + k - 1 = i - 1 /\ ~ (i < k) /\ i # k
      BY <1>0, <2>2
    <3>2. (c \o b)[i] = b[i - k]
      BY <1>6, <1>9, <1>10, <2>2
    <3>3. b[i - k] = q[(i - k) + k - 1]
      BY <1>2, <3>1
    <3> QED BY <3>1, <3>2, <3>3
  <2> QED BY <2>1, <2>2
<1> QED BY <1>7, <1>8, <1>10, <1>11

LEMMA RemoveAtFacts ==
    ASSUME NEW A, NEW q \in Seq(A), NEW k \in 1 .. Len(q)
    PROVE  /\ RemoveAt(q, k) \in Seq(A)
           /\ Len(RemoveAt(q, k)) = Len(q) - 1
           /\ \A i \in 1 .. Len(q) - 1 :
                 RemoveAt(q, k)[i] = IF i < k THEN q[i] ELSE q[i + 1]
<1> DEFINE a == SubSeq(q, 1, k - 1)
           b == SubSeq(q, k + 1, Len(q))
<1>0. Len(q) \in Nat /\ k \in Nat /\ 1 <= k /\ k <= Len(q)
  OBVIOUS
<1>1. /\ a \in Seq(A) /\ Len(a) = k - 1
      /\ \A i \in 1 .. k - 1 : a[i] = q[i]
  BY <1>0
<1>2. /\ b \in Seq(A) /\ Len(b) = Len(q) - k
      /\ \A i \in 1 .. Len(q) - k : b[i] = q[i + k]
  BY <1>0
<1>3. RemoveAt(q, k) = a \o b
  BY DEF RemoveAt
<1> HIDE DEF a, b
<1>c. a \in Seq(A) /\ b \in Seq(A)
  BY <1>1, <1>2
<1>4. a \o b \in Seq(A) /\ Len(a \o b) = Len(a) + Len(b)
  BY <1>c, Joined
<1>5. \A i \in 1 .. Len(a) + Len(b) :
          (a \o b)[i] = IF i <= Len(a) THEN a[i] ELSE b[i - Len(a)]
  BY <1>c, Joined
<1>6. Len(a) + Len(b) = Len(q) - 1
  BY <1>0, <1>1, <1>2
<1>7. ASSUME NEW i \in 1 .. Len(q) - 1
      PROVE  (a \o b)[i] = IF i < k THEN q[i] ELSE q[i + 1]
  <2>1. CASE i < k
    <3>1. i \in 1 .. k - 1 /\ i <= k - 1
      BY <1>0, <2>1
    <3> QED BY <1>1, <1>5, <1>6, <2>1, <3>1
  <2>2. CASE ~ (i < k)
    <3>1. /\ i - (k - 1) \in 1 .. Len(q) - k
          /\ (i - (k - 1)) + k = i + 1 /\ ~ (i <= k - 1)
      BY <1>0, <2>2
    <3>2. (a \o b)[i] = b[i - (k - 1)]
      BY <1>1, <1>5, <1>6, <3>1
    <3>3. b[i - (k - 1)] = q[(i - (k - 1)) + k]
      BY <1>2, <3>1
    <3> QED BY <2>2, <3>1, <3>2, <3>3
  <2> QED BY <2>1, <2>2
<1> QED BY <1>3, <1>4, <1>6, <1>7

-----------------------------------------------------------------------------
(* The list stays in order and apart.                                      *)

\* A region linked before region k, or behind the last when k is one more.
LEMMA LinkedApart ==
    ASSUME NEW l, Apart(l), NEW r \in Regs, r.start < r.end,
           NEW k \in 1 .. Len(l) + 1, NEW m \in Seq(Regs),
           Len(m) = Len(l) + 1,
           \A i \in 1 .. Len(l) + 1 :
               m[i] = IF i < k THEN l[i] ELSE IF i = k THEN r ELSE l[i - 1],
           \A i \in 1 .. Len(l) : i < k => l[i].end <= r.start,
           \A i \in 1 .. Len(l) : k <= i => r.end <= l[i].start
    PROVE  /\ Apart(m)
           /\ Starts(m) = Starts(l) \union {r.start}
<1>1. /\ l \in Seq(Regs) /\ Len(l) \in Nat
      /\ \A i \in 1 .. Len(l) : l[i] \in Regs /\ l[i].start < l[i].end
      /\ \A i, j \in 1 .. Len(l) : i < j => l[i].end <= l[j].start
  BY DEF Apart
<1>2. ASSUME NEW i \in 1 .. Len(l) + 1
      PROVE  \/ i < k /\ i \in 1 .. Len(l) /\ m[i] = l[i]
             \/ i = k /\ m[i] = r
             \/ k < i /\ i - 1 \in 1 .. Len(l) /\ k <= i - 1 /\ m[i] = l[i - 1]
  <2>1. i \in Int /\ k \in Int /\ Len(l) \in Nat
    BY <1>1
  <2>2. m[i] = IF i < k THEN l[i] ELSE IF i = k THEN r ELSE l[i - 1]
    OBVIOUS
  <2>3. i < k => i \in 1 .. Len(l)
    BY <2>1
  <2>4. k < i => i - 1 \in 1 .. Len(l) /\ k <= i - 1
    BY <2>1
  <2>5. i < k \/ i = k \/ (k < i /\ i # k /\ ~(i < k))
    BY <2>1
  <2>6. i = k => ~(i < k)
    BY <2>1
  <2> QED BY <2>2, <2>3, <2>4, <2>5, <2>6
<1>3. ASSUME NEW i \in 1 .. Len(m)
      PROVE  m[i].start < m[i].end
  BY <1>1, <1>2
<1>4. ASSUME NEW i \in 1 .. Len(m), NEW j \in 1 .. Len(m), i < j
      PROVE  m[i].end <= m[j].start
  <2>0. i \in 1 .. Len(l) + 1 /\ j \in 1 .. Len(l) + 1 /\ i \in Int /\ j \in Int /\ k \in Int
    BY <1>1
  <2>1. CASE i < k /\ j < k
    BY <1>1, <1>2, <1>4, <2>0, <2>1
  <2>2. CASE i < k /\ j = k
    BY <1>1, <1>2, <1>4, <2>0, <2>2
  <2>3. CASE i < k /\ k < j
    <3>1. /\ i \in 1 .. Len(l) /\ m[i] = l[i]
          /\ j - 1 \in 1 .. Len(l) /\ m[j] = l[j - 1]
      BY <1>2, <2>0, <2>3
    <3>2. i < j - 1
      BY <2>0, <2>3
    <3> QED BY <1>1, <3>1, <3>2
  <2>4. CASE i = k /\ k < j
    <3>1. m[i] = r
      BY <1>2, <2>4
    <3>2. j - 1 \in 1 .. Len(l) /\ k <= j - 1 /\ m[j] = l[j - 1]
      BY <1>2, <2>4
    <3>3. r.end <= l[j - 1].start
      BY <3>2
    <3> QED BY <3>1, <3>2, <3>3
  <2>5. CASE k < i /\ k < j
    <3>1. /\ i - 1 \in 1 .. Len(l) /\ m[i] = l[i - 1]
          /\ j - 1 \in 1 .. Len(l) /\ m[j] = l[j - 1]
      BY <1>2, <2>0, <2>5
    <3>2. i - 1 < j - 1
      BY <1>4, <2>0
    <3> QED BY <1>1, <3>1, <3>2
  <2> QED BY <1>4, <2>0, <2>1, <2>2, <2>3, <2>4, <2>5
<1>5. Apart(m)
  BY <1>3, <1>4 DEF Apart
<1>6. ASSUME NEW i \in 1 .. Len(m)
      PROVE  m[i].start \in Starts(l) \union {r.start}
  BY <1>2 DEF Starts
<1>7. ASSUME NEW i \in 1 .. Len(l)
      PROVE  \E j \in 1 .. Len(m) : m[j] = l[i]
  <2>0. i \in Int /\ k \in Int /\ Len(l) \in Nat
    BY <1>1
  <2>1. CASE i < k
    <3>1. i \in 1 .. Len(l) + 1
      BY <2>0
    <3> QED BY <2>1, <3>1
  <2>2. CASE ~(i < k)
    <3>1. i + 1 \in 1 .. Len(l) + 1 /\ ~(i + 1 < k) /\ i + 1 # k /\ (i + 1) - 1 = i
      BY <2>0, <2>2
    <3>2. m[i + 1] = l[(i + 1) - 1]
      BY <3>1
    <3> QED BY <3>1, <3>2
  <2> QED BY <2>1, <2>2
<1>8. k \in 1 .. Len(m) /\ m[k] = r
  <2>1. ~(k < k)
    BY <1>1
  <2> QED BY <2>1
<1>9. Starts(m) \subseteq Starts(l) \union {r.start}
  BY <1>6 DEF Starts
<1>10. Starts(l) \subseteq Starts(m) /\ r.start \in Starts(m)
  BY <1>7, <1>8 DEF Starts
<1> QED BY <1>5, <1>9, <1>10

\* A region unlinked.
LEMMA UnlinkedApart ==
    ASSUME NEW l, Apart(l), NEW k \in 1 .. Len(l)
    PROVE  /\ Apart(RemoveAt(l, k))
           /\ Starts(l) \ {l[k].start} \subseteq Starts(RemoveAt(l, k))
<1> DEFINE m == RemoveAt(l, k)
<1>1. /\ l \in Seq(Regs) /\ Len(l) \in Nat /\ k \in Int
      /\ \A i \in 1 .. Len(l) : l[i] \in Regs /\ l[i].start < l[i].end
      /\ \A i, j \in 1 .. Len(l) : i < j => l[i].end <= l[j].start
  BY DEF Apart
<1>2. /\ m \in Seq(Regs) /\ Len(m) = Len(l) - 1
      /\ \A i \in 1 .. Len(l) - 1 : m[i] = IF i < k THEN l[i] ELSE l[i + 1]
  BY SMTT(30), <1>1, RemoveAtFacts
<1> DEFINE Old(i) == IF i < k THEN i ELSE i + 1
<1>3. ASSUME NEW i \in 1 .. Len(m)
      PROVE  Old(i) \in 1 .. Len(l) /\ m[i] = l[Old(i)]
  <2>1. i \in 1 .. Len(l) - 1
    BY <1>2
  <2>2. m[i] = IF i < k THEN l[i] ELSE l[i + 1]
    BY <1>2, <2>1
  <2>3. Old(i) \in 1 .. Len(l)
    BY <1>1, <2>1
  <2> QED BY <2>2, <2>3
<1>4. ASSUME NEW i \in 1 .. Len(m), NEW j \in 1 .. Len(m), i < j
      PROVE  Old(i) < Old(j)
  <2>1. i \in Int /\ j \in Int
    BY <1>1, <1>2
  <2> QED BY <1>1, <1>4, <2>1
<1>5. ASSUME NEW j \in 1 .. Len(l), j # k
      PROVE  \E i \in 1 .. Len(m) : m[i] = l[j]
  <2>1. j \in Int /\ Len(m) = Len(l) - 1
    BY <1>1, <1>2
  <2>2. CASE j < k
    <3>1. j \in 1 .. Len(l) - 1
      BY <1>1, <2>1, <2>2
    <3> QED BY <1>2, <2>1, <2>2, <3>1
  <2>3. CASE ~(j < k)
    <3>1. j - 1 \in 1 .. Len(l) - 1 /\ ~(j - 1 < k) /\ (j - 1) + 1 = j
      BY <1>1, <1>5, <2>1, <2>3
    <3>2. m[j - 1] = l[(j - 1) + 1]
      BY <1>2, <3>1
    <3> QED BY <2>1, <3>1, <3>2
  <2> QED BY <2>2, <2>3
<1> HIDE DEF m, Old
<1>6. \A i \in 1 .. Len(m) : m[i].start < m[i].end
  BY <1>1, <1>3
<1>7. \A i, j \in 1 .. Len(m) : i < j => m[i].end <= m[j].start
  BY <1>1, <1>3, <1>4
<1>8. Apart(m)
  BY <1>2, <1>6, <1>7 DEF Apart
<1>9. Starts(l) \ {l[k].start} \subseteq Starts(m)
  BY <1>5 DEF Starts
<1> QED BY <1>8, <1>9 DEF m

\* Another end for a region, behind its start and before the next.
LEMMA EndedApart ==
    ASSUME NEW l, Apart(l), NEW k \in 1 .. Len(l), NEW e \in Nat,
           l[k].start < e,
           e <= l[k].end \/ k = Len(l) \/ e <= l[k + 1].start
    PROVE  /\ Apart([l EXCEPT ![k].end = e])
           /\ Starts([l EXCEPT ![k].end = e]) = Starts(l)
<1> DEFINE m == [l EXCEPT ![k].end = e]
<1>1. /\ l \in Seq(Regs) /\ Len(l) \in Nat /\ k \in Int
      /\ \A i \in 1 .. Len(l) : l[i] \in Regs /\ l[i].start < l[i].end
      /\ \A i, j \in 1 .. Len(l) : i < j => l[i].end <= l[j].start
  BY DEF Apart
<1>2. [l[k] EXCEPT !.end = e] \in Regs
  BY <1>1 DEF Regs
<1>3. m = [l EXCEPT ![k] = [l[k] EXCEPT !.end = e]]
  OBVIOUS
<1>4. m \in Seq(Regs) /\ Len(m) = Len(l)
  BY <1>1, <1>2, <1>3
<1>5. ASSUME NEW i \in 1 .. Len(l)
      PROVE  /\ m[i].start = l[i].start
             /\ m[i].end = IF i = k THEN e ELSE l[i].end
  BY <1>1, <1>5 DEF Regs
<1> HIDE DEF m
<1>6. ASSUME NEW i \in 1 .. Len(l), NEW j \in 1 .. Len(l), i < j
      PROVE  m[i].end <= m[j].start
  <2>0. /\ l[i].end \in Nat /\ l[j].start \in Nat /\ l[k].end \in Nat
        /\ m[j].start = l[j].start /\ l[i].end <= l[j].start
        /\ m[i].end = IF i = k THEN e ELSE l[i].end
    BY <1>1, <1>5, <1>6 DEF Regs
  <2>1. CASE i # k \/ e <= l[k].end
    <3>1. CASE i # k
      BY <2>0, <3>1
    <3>2. CASE i = k /\ e <= l[i].end
      BY <2>0, <3>2
    <3> QED BY <2>1, <3>1, <3>2
  <2>2. CASE i = k /\ e <= l[k + 1].start
    <3>1. i \in Int /\ j \in Int /\ k + 1 \in 1 .. Len(l)
      BY <1>1, <1>6, <2>2
    <3>2. CASE j = k + 1
      BY <1>5, <2>2, <3>2
    <3>3. CASE k + 1 < j
      <4>1. /\ l[k + 1].start < l[k + 1].end
            /\ l[k + 1].end <= l[j].start
            /\ l[k + 1] \in Regs /\ l[j] \in Regs
        BY <1>1, <3>1, <3>3
      <4>2. e <= l[j].start
        BY <2>2, <4>1 DEF Regs
      <4> QED BY <1>5, <2>2, <4>2
    <3> QED BY <1>1, <1>6, <2>2, <3>1, <3>2, <3>3
  <2>3. i = k => k # Len(l)
    BY <1>1, <1>6
  <2> QED BY <2>1, <2>2, <2>3
<1>7. \A i \in 1 .. Len(l) : m[i].start < m[i].end
  BY <1>1, <1>5
<1>8. Apart(m)
  BY <1>4, <1>6, <1>7 DEF Apart
<1>9. Starts(m) = Starts(l)
  BY <1>4, <1>5 DEF Starts
<1> QED BY <1>8, <1>9 DEF m

-----------------------------------------------------------------------------
(* What the operations do to the space of a process.                       *)

\* A record of the fields of Space, with a list in order and a cache in it.
Sane(S) ==
    /\ S = [list |-> S.list, cache |-> S.cache, heap |-> S.heap, page |-> S.page,
            tables |-> S.tables, free |-> S.free, fault |-> S.fault]
    /\ Apart(S.list)
    /\ S.cache \in {None} \union Starts(S.list)
    /\ S.heap \in Nat \union {None}

\* FindVMR: the region of the list that has the address, when there is one.
LEMMA FindTells ==
    ASSUME NEW S, Sane(S), NEW v \in Int
    PROVE  IF \E j \in 1 .. Len(S.list) : Within(v, S.list[j])
           THEN \E j \in 1 .. Len(S.list) :
                    Within(v, S.list[j]) /\ Find(S, v) = S.list[j].start
           ELSE Find(S, v) = None
<1> DEFINE l == S.list
           k == SelectInSeq(l, LAMBDA r : v < r.end)
<1>1. /\ l \in Seq(Regs) /\ Len(l) \in Nat /\ DOMAIN l = 1 .. Len(l)
      /\ \A i \in 1 .. Len(l) : l[i] \in Regs /\ l[i].start < l[i].end
      /\ \A i, j \in 1 .. Len(l) : i < j => l[i].end <= l[j].start
  BY DEF Sane, Apart
<1>2. \/ k = 0 /\ \A j \in 1 .. Len(l) : ~ (v < l[j].end)
      \/ /\ k \in 1 .. Len(l) /\ v < l[k].end
         /\ \A j \in 1 .. Len(l) : v < l[j].end => k <= j
  BY <1>1, EndsBehind
<1>3. Find(S, v) = IF Cached(S, v) THEN S.cache
                   ELSE IF k # 0 /\ Within(v, l[k]) THEN l[k].start ELSE None
  BY DEF Find
<1>4. Cached(S, v) <=> \E i \in 1 .. Len(l) : l[i].start = S.cache /\ Within(v, l[i])
  BY <1>1 DEF Cached
<1> HIDE DEF k
<1>5. ASSUME NEW j \in 1 .. Len(l), Within(v, l[j])
      PROVE  k = j
  <2>1. /\ l[j].start \in Nat /\ l[j].end \in Nat
        /\ l[j].start <= v /\ v < l[j].end
    BY <1>1, <1>5 DEF Regs, Within
  <2>2. k \in 1 .. Len(l) /\ v < l[k].end /\ k <= j
    BY <1>2, <2>1
  <2>3. l[k].end \in Nat
    BY <1>1, <2>2 DEF Regs
  <2>4. k < j => l[k].end <= l[j].start
    BY <1>1, <2>2
  <2>5. ~(k < j)
    BY <2>1, <2>2, <2>3, <2>4
  <2> QED BY <2>2, <2>5
<1>6. CASE Cached(S, v)
  BY <1>3, <1>4, <1>6
<1>7. CASE ~Cached(S, v)
  <2>1. CASE k # 0 /\ Within(v, l[k])
    <3>1. k \in 1 .. Len(l)
      BY <1>2, <2>1
    <3>2. Find(S, v) = l[k].start
      BY <1>3, <1>7, <2>1
    <3> QED BY <2>1, <3>1, <3>2
  <2>2. CASE ~(k # 0 /\ Within(v, l[k]))
    <3>1. Find(S, v) = None
      BY <1>3, <1>7, <2>2
    <3>2. ~ \E j \in 1 .. Len(l) : Within(v, l[j])
      <4>1. ASSUME NEW j \in 1 .. Len(l), Within(v, l[j])
            PROVE  FALSE
        <5>1. k = j /\ j # 0
          BY <4>1, <1>1, <1>5
        <5> QED BY <2>2, <4>1, <5>1
      <4> QED BY <4>1
    <3> QED BY <3>1, <3>2
  <2> QED BY <2>1, <2>2
<1> QED BY <1>6, <1>7

\* What a look-up, a page fault and a write of the kernel leave alone.
Keeps(S, T) == Sane(T) /\ T.list = S.list /\ T.heap = S.heap

LEMMA LookedKeeps ==
    ASSUME NEW S, Sane(S), NEW v \in Int
    PROVE  Keeps(S, Looked(S, v))
<1>1. CASE Find(S, v) = None
  BY <1>1 DEF Looked, Keeps
<1>2. CASE Find(S, v) # None
  <2>1. Find(S, v) \in Starts(S.list)
    BY <1>2, FindTells DEF Starts
  <2>2. Looked(S, v) = [S EXCEPT !.cache = Find(S, v)]
    BY <1>2 DEF Looked
  <2> DEFINE f == Find(S, v)
  <2>3. Looked(S, v) = [list |-> S.list, cache |-> f, heap |-> S.heap,
            page |-> S.page, tables |-> S.tables, free |-> S.free, fault |-> S.fault]
    BY <2>2 DEF Sane
  <2>4. f \in Starts(S.list)
    BY <2>1
  <2> HIDE DEF f
  <2> QED BY <2>3, <2>4 DEF Sane, Keeps
<1> QED BY <1>1, <1>2

LEMMA FaultInKeeps ==
    ASSUME NEW S, Sane(S), NEW v
    PROVE  Keeps(S, FaultIn(S, v))
<1> DEFINE missing == Missing(S, v)
           got == Less(S.free, Len(missing))
           t == S.tables \union Range(SubSeq(missing, 1, got))
           p == IF S.free > Len(missing) THEN S.page \union {v} ELSE S.page
           f == Greater(S.free - Len(missing) - 1, 0)
<1>1. FaultIn(S, v) = [S EXCEPT !.tables = t, !.page = p, !.free = f]
  BY DEF FaultIn
<1> HIDE DEF t, p, f
<1>2. FaultIn(S, v) = [list |-> S.list, cache |-> S.cache, heap |-> S.heap,
            page |-> p, tables |-> t, free |-> f, fault |-> S.fault]
  BY <1>1 DEF Sane
<1> QED BY <1>2 DEF Sane, Keeps

LEMMA StoppedKeeps ==
    ASSUME NEW S, Sane(S), NEW f
    PROVE  Keeps(S, [S EXCEPT !.fault = f])
<1>1. [S EXCEPT !.fault = f] =
          [list |-> S.list, cache |-> S.cache, heap |-> S.heap,
            page |-> S.page, tables |-> S.tables, free |-> S.free, fault |-> f]
  BY DEF Sane
<1> QED BY <1>1 DEF Sane, Keeps

LEMMA WrittenKeeps ==
    ASSUME NEW S, Sane(S), NEW v \in Int
    PROVE  Keeps(S, Written(S, v))
<1> DEFINE T == IF v \in S.page THEN S ELSE FaultIn(Looked(S, v), v)
<1>1. Keeps(S, T)
  <2>1. Keeps(S, Looked(S, v))
    BY LookedKeeps
  <2>2. Keeps(Looked(S, v), FaultIn(Looked(S, v), v))
    BY <2>1, FaultInKeeps DEF Keeps
  <2>3. Keeps(S, FaultIn(Looked(S, v), v))
    BY <2>1, <2>2 DEF Keeps
  <2>4. Keeps(S, S)
    BY DEF Keeps
  <2> QED BY <2>3, <2>4
<1>2. Written(S, v) = IF v \in T.page THEN T ELSE [T EXCEPT !.fault = "memory"]
  BY DEF Written
<1> HIDE DEF T
<1>3. Keeps(T, [T EXCEPT !.fault = "memory"])
  BY <1>1, StoppedKeeps DEF Keeps
<1> QED BY <1>1, <1>2, <1>3 DEF Keeps

\* InsertVMR: what lies apart is linked where it belongs, and the cache is it.
LEMMA InsertSane ==
    ASSUME NEW S, Sane(S), NEW r \in Regs, r.start < r.end
    PROVE  /\ Sane(Insert(S, r)) /\ Insert(S, r).heap = S.heap
           /\ Starts(S.list) \subseteq Starts(Insert(S, r).list)
           /\ S.list = <<>> => r.start \in Starts(Insert(S, r).list)
<1> DEFINE l == S.list
           k == SelectInSeq(l, LAMBDA x : r.start < x.end)
           T(m) == [list |-> m, cache |-> r.start, heap |-> S.heap, page |-> S.page,
                    tables |-> S.tables, free |-> S.free, fault |-> S.fault]
<1>1. /\ l \in Seq(Regs) /\ Len(l) \in Nat /\ r.start \in Nat /\ r.end \in Nat
      /\ \A i \in 1 .. Len(l) : l[i] \in Regs /\ l[i].start < l[i].end
      /\ \A i, j \in 1 .. Len(l) : i < j => l[i].end <= l[j].start
  <2>1. Apart(l) /\ r.start \in Nat /\ r.end \in Nat
    BY DEF Sane, Regs
  <2> HIDE DEF l
  <2> QED BY <2>1 DEF Apart
<1>2. \/ k = 0 /\ \A j \in 1 .. Len(l) : ~ (r.start < l[j].end)
      \/ /\ k \in 1 .. Len(l) /\ r.start < l[k].end
         /\ \A j \in 1 .. Len(l) : r.start < l[j].end => k <= j
  BY <1>1, EndsBehind
<1>3. \/ k = 0 /\ Insert(S, r) = [[S EXCEPT !.cache = r.start] EXCEPT !.list = Append(@, r)]
      \/ /\ k # 0 /\ r.end <= l[k].start
         /\ Insert(S, r) = [[S EXCEPT !.cache = r.start] EXCEPT !.list = InsertAt(@, k, r)]
      \/ k # 0 /\ Insert(S, r) = [S EXCEPT !.fault = "overlap"]
  BY DEF Insert
<1>4. /\ [[S EXCEPT !.cache = r.start] EXCEPT !.list = Append(@, r)] = T(Append(l, r))
      /\ [[S EXCEPT !.cache = r.start] EXCEPT !.list = InsertAt(@, k, r)] = T(InsertAt(l, k, r))
  <2> DEFINE C == [S EXCEPT !.cache = r.start]
  <2>1. C = T(l)
    BY DEF Sane
  <2> HIDE DEF k, l
  <2>2. /\ [T(l) EXCEPT !.list = Append(T(l).list, r)] = T(Append(l, r))
        /\ [T(l) EXCEPT !.list = InsertAt(T(l).list, k, r)] = T(InsertAt(l, k, r))
    OBVIOUS
  <2> QED BY <2>1, <2>2
<1> HIDE DEF k
<1>5. ASSUME NEW m, Apart(m), Starts(m) = Starts(l) \union {r.start},
             Insert(S, r) = T(m)
      PROVE  /\ Sane(Insert(S, r)) /\ Insert(S, r).heap = S.heap
             /\ Starts(S.list) \subseteq Starts(Insert(S, r).list)
             /\ S.list = <<>> => r.start \in Starts(Insert(S, r).list)
  <2>1. Sane(T(m))
    BY <1>5 DEF Sane
  <2> QED BY <1>5, <2>1
<1>6. CASE k = 0
  <2> DEFINE m == Append(l, r)
  <2>1. m \in Seq(Regs) /\ Len(m) = Len(l) + 1 /\ Len(l) + 1 \in 1 .. Len(l) + 1
    BY <1>1
  <2>2. \A i \in 1 .. Len(l) + 1 :
            m[i] = IF i < Len(l) + 1 THEN l[i] ELSE IF i = Len(l) + 1 THEN r ELSE l[i - 1]
    BY <1>1
  <2>3. ASSUME NEW i \in 1 .. Len(l)
        PROVE  l[i].end <= r.start /\ ~(Len(l) + 1 <= i)
    <3>1. ~(r.start < l[i].end) /\ l[i].end \in Nat
      BY <1>1, <1>2, <1>6 DEF Regs
    <3>2. ~(Len(l) + 1 <= i)
      BY <1>1
    <3> QED BY <1>1, <3>1, <3>2
  <2> HIDE DEF m
  <2>4. Apart(l)
    BY DEF Sane
  <2>5. Apart(m) /\ Starts(m) = Starts(l) \union {r.start}
    BY <2>1, <2>2, <2>3, <2>4, LinkedApart
  <2>6. Insert(S, r) = T(m)
    BY <1>3, <1>4, <1>6 DEF m
  <2> QED BY <1>5, <2>5, <2>6
<1>7. CASE k # 0 /\ r.end <= l[k].start /\ Insert(S, r) = T(InsertAt(l, k, r))
  <2> DEFINE m == InsertAt(l, k, r)
  <2>1. k \in 1 .. Len(l) /\ k \in 1 .. Len(l) + 1 /\ l[k].start \in Nat
    BY <1>1, <1>2, <1>7 DEF Regs
  <2>2. /\ m \in Seq(Regs) /\ Len(m) = Len(l) + 1
        /\ \A i \in 1 .. Len(l) + 1 :
            m[i] = IF i < k THEN l[i] ELSE IF i = k THEN r ELSE l[i - 1]
    <3>1. l \in Seq(Regs)
      BY <1>1
    <3> HIDE DEF l
    <3> QED BY <2>1, <3>1, InsertAtFacts
  <2>3. ASSUME NEW i \in 1 .. Len(l), i < k
        PROVE  l[i].end <= r.start
    <3>1. l[i].end \in Nat /\ ~(k <= i)
      BY SMTT(30), <1>1, <2>1, <2>3 DEF Regs
    <3>2. ~(r.start < l[i].end)
      BY <1>2, <1>7, <3>1
    <3> QED BY <1>1, <3>1, <3>2
  <2>4. ASSUME NEW i \in 1 .. Len(l), k <= i
        PROVE  r.end <= l[i].start
    <3>1. CASE i = k
      BY <1>7, <3>1
    <3>2. CASE k < i
      <4>1. /\ l[k].start \in Nat /\ l[k].end \in Nat /\ l[i].start \in Nat
            /\ l[k].start < l[k].end /\ l[k].end <= l[i].start
        BY <1>1, <2>1, <3>2 DEF Regs
      <4> QED BY <1>1, <1>7, <4>1
    <3>3. i = k \/ k < i
      BY <2>1, <2>4
    <3> QED BY <3>1, <3>2, <3>3
  <2> HIDE DEF m
  <2>5. Apart(l)
    BY DEF Sane
  <2>6. Apart(m) /\ Starts(m) = Starts(l) \union {r.start}
    BY ZenonT(30), <2>1, <2>2, <2>3, <2>4, <2>5, LinkedApart
  <2>7. Insert(S, r) = T(m)
    BY <1>7 DEF m
  <2> QED BY <1>5, <2>6, <2>7
<1>8. CASE k # 0 /\ Insert(S, r) = [S EXCEPT !.fault = "overlap"]
  <2>1. Keeps(S, [S EXCEPT !.fault = "overlap"])
    BY StoppedKeeps
  <2>2. S.list # <<>>
    BY <1>1, <1>2, <1>8
  <2> QED BY <1>8, <2>1, <2>2 DEF Keeps
<1> QED BY <1>3, <1>4, <1>6, <1>7, <1>8

\* RemoveVMR: the other regions stay, and the cache is none that went.
LEMMA RemovedSane ==
    ASSUME NEW S, Sane(S), NEW k \in 1 .. Len(S.list)
    PROVE  /\ Sane(Removed(S, k))
           /\ Starts(S.list) \ {S.list[k].start} \subseteq Starts(Removed(S, k).list)
<1> DEFINE l == S.list
           m == RemoveAt(l, k)
           c == IF S.cache = l[k].start THEN None ELSE S.cache
<1>1. Apart(m) /\ Starts(l) \ {l[k].start} \subseteq Starts(m)
  BY UnlinkedApart DEF Sane
<1>2. c \in {None} \union Starts(m)
  BY <1>1 DEF Sane
<1>3. Removed(S, k) = [S EXCEPT !.list = m, !.cache = c]
  BY DEF Removed
<1> HIDE DEF m, c
<1>4. Removed(S, k) = [list |-> m, cache |-> c, heap |-> S.heap, page |-> S.page,
                       tables |-> S.tables, free |-> S.free, fault |-> S.fault]
  BY <1>3 DEF Sane
<1> QED BY <1>1, <1>2, <1>4 DEF Sane

\* Region k with another end, and the heap with another length.
Cut(S, k, e) == [S EXCEPT !.list[k].end = e]
Resized(S, h, k, e) == [S EXCEPT !.heap = h, !.list[k].end = e]

LEMMA EndedSane ==
    ASSUME NEW S, Sane(S), NEW k \in 1 .. Len(S.list), NEW e \in Nat,
           S.list[k].start < e,
           e <= S.list[k].end \/ k = Len(S.list) \/ e <= S.list[k + 1].start,
           NEW h \in Nat \union {None}
    PROVE  /\ Sane(Resized(S, h, k, e)) /\ Starts(Resized(S, h, k, e).list) = Starts(S.list)
           /\ Sane(Cut(S, k, e)) /\ Starts(Cut(S, k, e).list) = Starts(S.list)
<1> DEFINE l == S.list
           m == [l EXCEPT ![k].end = e]
<1>1. Apart(m) /\ Starts(m) = Starts(l)
  BY EndedApart DEF Sane
<1>2. Resized(S, h, k, e) = [S EXCEPT !.heap = h, !.list = m]
  BY DEF Sane, Resized
<1>3. Cut(S, k, e) = [S EXCEPT !.list = m]
  BY DEF Sane, Cut
<1> HIDE DEF m
<1>4. Resized(S, h, k, e) =
          [list |-> m, cache |-> S.cache, heap |-> h, page |-> S.page,
           tables |-> S.tables, free |-> S.free, fault |-> S.fault]
  <2>1. [S EXCEPT !.heap = h, !.list = m] =
          [list |-> m, cache |-> S.cache, heap |-> h, page |-> S.page,
           tables |-> S.tables, free |-> S.free, fault |-> S.fault]
    <3> DEFINE C == [S EXCEPT !.heap = h]
    <3>1. C = [list |-> S.list, cache |-> S.cache, heap |-> h, page |-> S.page,
               tables |-> S.tables, free |-> S.free, fault |-> S.fault]
      BY DEF Sane
    <3> HIDE DEF C
    <3>2. [C EXCEPT !.list = m] =
            [list |-> m, cache |-> S.cache, heap |-> h, page |-> S.page,
             tables |-> S.tables, free |-> S.free, fault |-> S.fault]
      BY <3>1
    <3> QED BY <3>2 DEF C
  <2> QED BY <1>2, <2>1
<1>5. Cut(S, k, e) =
          [list |-> m, cache |-> S.cache, heap |-> S.heap, page |-> S.page,
           tables |-> S.tables, free |-> S.free, fault |-> S.fault]
  BY <1>3 DEF Sane
<1> QED BY <1>1, <1>4, <1>5 DEF Sane

\* GetUsableVMR returns an address with room behind it, or 0.
LEMMA UsableNat ==
    ASSUME NEW S, Sane(S), NEW start \in Nat, NEW end \in Nat, NEW len \in Nat
    PROVE  /\ Usable(S, start, end, len) \in Nat
           /\ \/ Usable(S, start, end, len) = 0
              \/ Usable(S, start, end, len) + len <= end
<1> DEFINE n == Len(S.list)
           Gap(i) == IF i = 0 THEN <<Greater(FirstPage, start), Less(S.list[1].start, end)>>
                     ELSE <<Greater(S.list[i].end, start), Less(S.list[i + 1].start, end)>>
           fits == {i \in 0 .. n - 1 : Gap(i)[1] + len <= Gap(i)[2]}
           k == CHOOSE i \in fits : \A j \in fits : i <= j
<1>1. /\ S.list \in Seq(Regs) /\ n \in Nat /\ FirstPage \in Nat
      /\ \A i \in 1 .. n : S.list[i].start \in Nat /\ S.list[i].end \in Nat
  <2>1. S.list \in Seq(Regs)
    BY DEF Sane, Apart
  <2>2. ASSUME NEW i \in 1 .. n
        PROVE  S.list[i].start \in Nat /\ S.list[i].end \in Nat
    <3>1. S.list[i] \in Regs
      BY <2>1
    <3> QED BY <3>1 DEF Regs
  <2>3. FirstPage \in Nat
    BY VMAssumption
  <2> QED BY <2>1, <2>2, <2>3
<1>2. ASSUME NEW i \in 0 .. n - 1
      PROVE  Gap(i)[1] \in Nat /\ Gap(i)[2] \in Nat /\ Gap(i)[2] <= end
  <2>1. i + 1 \in 1 .. n /\ (i = 0 \/ i \in 1 .. n)
    BY <1>1
  <2>2. /\ S.list[i + 1].start \in Nat
        /\ i = 0 => S.list[1].start \in Nat
        /\ i # 0 => S.list[i].end \in Nat
    BY <1>1, <2>1
  <2>3. CASE i = 0
    BY <1>1, <2>2, <2>3 DEF Greater, Less
  <2>4. CASE i # 0
    BY <1>1, <2>2, <2>4 DEF Greater, Less
  <2> QED BY <2>3, <2>4
<1>3. CASE fits # {}
  <2>1. k \in fits
    <3>1. fits \in SUBSET Nat
      BY <1>1
    <3> HIDE DEF fits
    <3>2. \E i \in fits : \A j \in fits : i <= j
      BY <1>3, <3>1, LeastElement
    <3> QED BY <3>2
  <2>2. Gap(k)[1] \in Nat /\ Gap(k)[1] + len <= end
    <3> HIDE DEF k, Gap
    <3>1. k \in 0 .. n - 1 /\ Gap(k)[1] + len <= Gap(k)[2]
      BY <2>1
    <3> QED BY <1>2, <3>1
  <2>3. Usable(S, start, end, len) \in {0, Gap(k)[1]}
    BY DEF Usable
  <2> HIDE DEF k, Gap
  <2> QED BY <2>2, <2>3
<1>4. CASE fits = {}
  <2>1. Usable(S, start, end, len) = 0
    BY <1>4 DEF Usable
  <2> QED BY <2>1
<1> QED BY <1>3, <1>4

LEMMA FreeKeeps ==
    ASSUME NEW S, Sane(S), NEW f
    PROVE  Keeps(S, [S EXCEPT !.free = f])
<1>1. [S EXCEPT !.free = f] =
          [list |-> S.list, cache |-> S.cache, heap |-> S.heap,
            page |-> S.page, tables |-> S.tables, free |-> f, fault |-> S.fault]
  BY DEF Sane
<1> QED BY <1>1 DEF Sane, Keeps

\* The length of the heap alone.
LEMMA HeapSane ==
    ASSUME NEW S, Sane(S), NEW h \in Nat \union {None}
    PROVE  Sane([S EXCEPT !.heap = h]) /\ [S EXCEPT !.heap = h].list = S.list
<1>1. [S EXCEPT !.heap = h] =
          [list |-> S.list, cache |-> S.cache, heap |-> h,
            page |-> S.page, tables |-> S.tables, free |-> S.free, fault |-> S.fault]
  BY DEF Sane
<1> QED BY <1>1 DEF Sane

\* Resize of a heap that ends behind its start, from a length it may have.
LEMMA ResizeSane ==
    ASSUME NEW S, Sane(S), S.heap # None, NEW to \in Nat,
           \E j \in 1 .. Len(S.list) : S.list[j].kind = "heap",
           \A j \in 1 .. Len(S.list) : S.list[j].kind = "heap" =>
               S.list[j].start < to /\ S.list[j].start + S.heap <= S.list[j].end
    PROVE  Sane(Resize(S, to)) /\ Starts(Resize(S, to).list) = Starts(S.list)
<1> DEFINE l == S.list
           k == SelectInSeq(l, LAMBDA r : r.kind = "heap")
           start == l[k].start
           len == to - start
           Ends(end) == [S EXCEPT !.heap = Greater(len, 0), !.list[k].end = end]
<1>1. l \in Seq(Regs) /\ S.heap \in Nat
  BY DEF Sane, Apart
<1>2. k \in 1 .. Len(l) /\ l[k].kind = "heap"
  BY <1>1, HeapAt
<1>3. Resize(S, to) =
        IF len >= S.heap
        THEN IF to <= l[k].end \/ ~RoomForHeap(S, k, to)
             THEN [S EXCEPT !.heap = len]
             ELSE Ends(to)
        ELSE IF len < 0 THEN Ends(start + 1) ELSE Ends(to)
  BY DEF Resize
<1>4. RoomForHeap(S, k, to) <=> k = Len(l) \/ to <= l[k + 1].start
  BY DEF RoomForHeap
<1> HIDE DEF k
<1>5. l[k] \in Regs /\ start \in Nat /\ l[k].end \in Nat
  <2>1. l[k] \in Regs
    BY <1>1, <1>2
  <2> QED BY <2>1 DEF Regs
<1>6. start < to /\ start + S.heap <= l[k].end
  BY <1>2
<1>7. len \in Nat /\ Greater(len, 0) \in Nat /\ ~(len < 0)
  BY <1>5, <1>6 DEF Greater
<1>8. CASE Resize(S, to) = [S EXCEPT !.heap = len]
  <2> HIDE DEF len
  <2> QED BY <1>7, <1>8, HeapSane
<1>9. CASE /\ Resize(S, to) = Ends(to)
           /\ to <= l[k].end \/ RoomForHeap(S, k, to)
  <2> DEFINE h == Greater(len, 0)
  <2>1. h \in Nat \union {None}
    BY <1>7
  <2>2. to <= l[k].end \/ k = Len(l) \/ to <= l[k + 1].start
    BY <1>4, <1>9
  <2>3. Resize(S, to) = Resized(S, h, k, to)
    BY <1>9 DEF Resized
  <2>4. k \in 1 .. Len(S.list) /\ S.list[k].start < to
    BY <1>2, <1>6
  <2> HIDE DEF h, len, start, Ends
  <2> QED BY <2>1, <2>2, <2>3, <2>4, EndedSane
<1>10. len >= S.heap \/ to <= l[k].end
  BY SMTT(30), <1>1, <1>5, <1>6
<1>11. \/ Resize(S, to) = [S EXCEPT !.heap = len]
       \/ /\ Resize(S, to) = Ends(to)
          /\ to <= l[k].end \/ RoomForHeap(S, k, to)
  <2> HIDE DEF len, Ends
  <2> QED BY <1>3, <1>7, <1>10
<1> QED BY <1>8, <1>9, <1>11

\* What Init of a child makes of its parent's list.
LEMMA InheritedApart ==
    ASSUME NEW l, Apart(l)
    PROVE  /\ Apart([i \in DOMAIN l |-> Inherited(l[i])])
           /\ Starts([i \in DOMAIN l |-> Inherited(l[i])]) = Starts(l)
<1> DEFINE m == [i \in DOMAIN l |-> Inherited(l[i])]
<1>1. /\ l \in Seq(Regs) /\ Len(l) \in Nat /\ DOMAIN l = 1 .. Len(l)
      /\ \A i \in 1 .. Len(l) : l[i] \in Regs /\ l[i].start < l[i].end
      /\ \A i, j \in 1 .. Len(l) : i < j => l[i].end <= l[j].start
  BY DEF Apart
<1>2. ASSUME NEW r \in Regs
      PROVE  /\ Inherited(r) \in Regs
             /\ Inherited(r).start = r.start /\ Inherited(r).end = r.end
             /\ Inherited(r).kind = "kernel" <=> r.kind = "kernel"
  <2> DEFINE c == CASE r.kind = "heap" -> "plain"
                    [] r.kind = "file" -> "fileCopy"
                    [] OTHER -> r.kind
  <2>1. c \in Kinds /\ (c = "kernel" <=> r.kind = "kernel")
    BY DEF Regs, Kinds
  <2>2. Inherited(r) = [r EXCEPT !.kind = c]
    BY DEF Inherited
  <2> HIDE DEF c
  <2> QED BY <2>1, <2>2 DEF Regs
<1>3. \A i \in 1 .. Len(l) : m[i] = Inherited(l[i]) /\ m[i] \in Regs
  BY <1>1, <1>2
<1>4. m \in Seq(Regs) /\ Len(m) = Len(l)
  <2>1. m = [i \in 1 .. Len(l) |-> Inherited(l[i])]
    BY <1>1
  <2>2. \A i \in 1 .. Len(l) : Inherited(l[i]) \in Regs
    BY <1>1, <1>2
  <2> QED BY <1>1, <2>1, <2>2
<1> HIDE DEF m
<1>5. \A i \in 1 .. Len(l) : m[i].start = l[i].start /\ m[i].end = l[i].end
  BY <1>1, <1>2, <1>3
<1>6. Apart(m)
  BY <1>1, <1>4, <1>5 DEF Apart
<1>7. Starts(m) = Starts(l)
  BY <1>4, <1>5 DEF Starts
<1> QED BY <1>6, <1>7 DEF m

-----------------------------------------------------------------------------
(* Who has a space.                                                        *)

Users(s) == {p \in Processes : VMS[p] = s}

UsersInv ==
    /\ VMS \in [Processes -> Processes \union {None}]
    /\ SharedCount \in [Processes -> Nat]
    /\ spaces \subseteq Processes /\ running \subseteq Processes
    /\ \A p \in running : VMS[p] # None
    /\ \A s \in Processes : /\ SharedCount[s] = Cardinality(Users(s))
                            /\ s \in spaces <=> Users(s) # {}

LEMMA UsersFinite == \A s : IsFiniteSet(Users(s))
<1>1. ASSUME NEW s
      PROVE  IsFiniteSet(Users(s))
  <2>1. Users(s) \subseteq Processes /\ IsFiniteSet(Processes)
    BY VMAssumption DEF Users
  <2> QED BY <2>1, FS_Subset
<1> QED BY <1>1

LEMMA InitUsers == Init => UsersInv
<1> SUFFICES ASSUME Init
             PROVE  UsersInv
  OBVIOUS
<1>1. \A s \in Processes : Users(s) = {}
  BY VMAssumption DEF Init, Users
<1>2. Cardinality({}) = 0
  BY FS_EmptySet
<1> QED BY <1>1, <1>2 DEF Init, UsersInv

\* A new process takes a space, a new one or, as a thread, one in use.
LEMMA UsesKeeps ==
    ASSUME UsersInv, NEW p \in Processes, NEW s \in Processes,
           VMS[p] = None, Uses(p, s), spaces' = spaces \union {s}
    PROVE  UsersInv'
<1>1. /\ VMS' = [VMS EXCEPT ![p] = s]
      /\ SharedCount' = [SharedCount EXCEPT ![s] = @ + 1]
      /\ running' = running \union {p}
  BY DEF Uses
<1>2. /\ VMS' \in [Processes -> Processes \union {None}]
      /\ SharedCount' \in [Processes -> Nat]
      /\ spaces' \subseteq Processes /\ running' \subseteq Processes
  BY <1>1 DEF UsersInv
<1>3. None \notin Processes
  BY VMAssumption
<1>4. \A q \in running' : VMS'[q] # None
  BY <1>1, <1>3 DEF UsersInv
<1>5. p \notin Users(s) /\ Users(s)' = Users(s) \union {p}
  BY <1>1, <1>3 DEF UsersInv, Users
<1>6. ASSUME NEW t \in Processes, t # s
      PROVE  /\ SharedCount'[t] = Cardinality(Users(t)')
             /\ t \in spaces' <=> Users(t)' # {}
  <2>1. Users(t)' = Users(t)
    BY <1>1, <1>3, <1>6 DEF UsersInv, Users
  <2> QED BY <1>1, <1>6, <2>1 DEF UsersInv
<1>7. SharedCount'[s] = Cardinality(Users(s)')
  <2>1. Cardinality(Users(s) \union {p}) = Cardinality(Users(s)) + 1
    BY <1>5, UsersFinite, FS_AddElement
  <2> QED BY <1>1, <1>5, <2>1 DEF UsersInv
<1>8. s \in spaces' /\ Users(s)' # {}
  BY <1>5
<1> QED BY <1>2, <1>4, <1>6, <1>7, <1>8 DEF UsersInv

\* A process that is destroyed gives its space back, which goes with the last.
LEMMA DestroyUsers ==
    ASSUME UsersInv, NEW p \in Processes, Destroy(p)
    PROVE  UsersInv'
<1>0. PICK s \in Processes : s = VMS[p]
  BY DEF Destroy, UsersInv
<1>1. /\ p \notin running
      /\ VMS' = [VMS EXCEPT ![p] = None]
      /\ SharedCount' = [SharedCount EXCEPT ![s] = @ - 1]
      /\ running' = running
      /\ spaces' = IF SharedCount[s] = 1 THEN spaces \ {s} ELSE spaces
  BY <1>0 DEF Destroy, UsersInv, LastUser
<1>2. None \notin Processes
  BY VMAssumption
<1>3. p \in Users(s) /\ Users(s)' = Users(s) \ {p}
  BY <1>0, <1>1, <1>2 DEF UsersInv, Users
<1>4. Cardinality(Users(s)') = SharedCount[s] - 1 /\ Cardinality(Users(s)') \in Nat
  <2>1. IsFiniteSet(Users(s)) /\ IsFiniteSet(Users(s) \ {p})
    BY UsersFinite, FS_Subset
  <2>2. Cardinality(Users(s) \ {p}) = Cardinality(Users(s)) - 1
    BY <1>3, <2>1, FS_RemoveElement
  <2>3. Cardinality(Users(s) \ {p}) \in Nat
    BY <2>1, FS_CardinalityType
  <2> QED BY <1>1, <1>3, <2>2, <2>3 DEF UsersInv
<1>5. SharedCount[s] = 1 <=> Users(s)' = {}
  <2>1. IsFiniteSet(Users(s) \ {p})
    BY UsersFinite, FS_Subset
  <2>2. Cardinality(Users(s)') = 0 <=> Users(s)' = {}
    BY <1>3, <2>1, FS_EmptySet
  <2>3. SharedCount[s] \in Nat
    BY <1>1 DEF UsersInv
  <2> QED BY <1>4, <2>2, <2>3
<1>6. SharedCount'[s] = Cardinality(Users(s)')
  BY <1>1, <1>4 DEF UsersInv
<1>7. s \in spaces' <=> Users(s)' # {}
  BY <1>1, <1>3, <1>5 DEF UsersInv
<1>8. ASSUME NEW t \in Processes, t # s
      PROVE  /\ SharedCount'[t] = Cardinality(Users(t)')
             /\ t \in spaces' <=> Users(t)' # {}
  <2>1. Users(t)' = Users(t)
    BY <1>0, <1>1, <1>2, <1>8 DEF UsersInv, Users
  <2> QED BY <1>1, <1>8, <2>1 DEF UsersInv
<1>9. SharedCount' \in [Processes -> Nat]
  <2>1. SharedCount[s] - 1 \in Nat
    BY <1>4
  <2> QED BY <1>1, <2>1 DEF UsersInv
<1>10. /\ VMS' \in [Processes -> Processes \union {None}]
       /\ spaces' \subseteq Processes /\ running' \subseteq Processes
       /\ \A q \in running' : VMS'[q] # None
  BY <1>1 DEF UsersInv
<1> QED BY <1>1, <1>6, <1>7, <1>8, <1>9, <1>10 DEF UsersInv

\* A space with a process that runs in it.
LEMMA LiveExists ==
    ASSUME UsersInv, NEW s \in Processes, Live(s)
    PROVE  s \in spaces
  BY DEF UsersInv, Live, Users

\* Who runs has a space, and one that exists.
LEMMA RunsInSpace ==
    ASSUME UsersInv, NEW p \in Processes, p \in running
    PROVE  VMS[p] \in Processes /\ VMS[p] \in spaces
  BY DEF UsersInv, Users

LEMMA NextUsers ==
    ASSUME UsersInv, [Next]_vars
    PROVE  UsersInv'
<1>1. CASE \E s, p \in Processes :
              Start(p, s) \/ Thread(s, p) \/ \E t \in Processes : Fork(s, p, t)
  <2>1. PICK s \in Processes, p \in Processes :
              Start(p, s) \/ Thread(s, p) \/ \E t \in Processes : Fork(s, p, t)
    BY <1>1
  <2>2. CASE Start(p, s)
    <3>1. VMS[p] = None /\ Uses(p, s) /\ spaces' = spaces \union {s}
      BY <2>2 DEF Start
    <3> QED BY <3>1, UsesKeeps
  <2>3. CASE Thread(s, p)
    <3>1. VMS[p] = None /\ Uses(p, s) /\ spaces' = spaces /\ s \in spaces
      BY <2>3, LiveExists DEF Thread
    <3>2. spaces' = spaces \union {s}
      BY <3>1
    <3> QED BY <3>1, <3>2, UsesKeeps
  <2>4. ASSUME NEW t \in Processes, Fork(s, p, t)
        PROVE  UsersInv'
    <3>1. /\ VMS[p] = None
          /\ \/ Uses(p, t) /\ spaces' = spaces \union {t}
             \/ UNCHANGED <<running, spaces, VMS, SharedCount>>
      BY <2>4 DEF Fork
    <3>2. CASE Uses(p, t) /\ spaces' = spaces \union {t}
      BY <3>1, <3>2, UsesKeeps
    <3>3. CASE UNCHANGED <<running, spaces, VMS, SharedCount>>
      BY <3>3 DEF UsersInv, Users
    <3> QED BY <3>1, <3>2, <3>3
  <2> QED BY <2>1, <2>2, <2>3, <2>4
<1>2. CASE \E p \in Processes : Destroy(p)
  BY <1>2, DestroyUsers
<1>3. CASE UNCHANGED <<spaces, VMS, SharedCount>> /\ running' \subseteq running
  BY <1>3 DEF UsersInv, Users
<1>4. ASSUME NEW p \in Processes, Exit(p) \/ \E v \in Pages : Touch(p, v) \/ Brk(p, v)
      PROVE  UNCHANGED <<spaces, VMS, SharedCount>> /\ running' \subseteq running
  BY <1>4 DEF Exit, Touch, Brk
<1>5. ASSUME NEW s \in Processes, NEW v \in Pages,
             \/ Munmap(s, v) \/ MmapFile(s, v)
             \/ \E len \in 1 .. MaxLen : MmapPlain(s, v, len) \/ MmapFixed(s, v, len)
      PROVE  UNCHANGED <<spaces, VMS, SharedCount>> /\ running' \subseteq running
  BY <1>5 DEF Munmap, MmapFile, MmapPlain, MmapFixed
<1>6. CASE Next
  BY <1>1, <1>2, <1>3, <1>4, <1>5, <1>6 DEF Next
<1>7. CASE UNCHANGED vars
  BY <1>3, <1>7 DEF vars
<1> QED BY <1>6, <1>7

LEMMA UsersInvariant == Spec => []UsersInv
<1>1. UsersInv /\ [Next]_vars => UsersInv'
  BY NextUsers
<1> QED BY <1>1, InitUsers, PTL DEF Spec

LEMMA UsersInvOutlives == UsersInv => SpaceOutlivesItsUsers
<1> SUFFICES ASSUME UsersInv
             PROVE  SpaceOutlivesItsUsers
  OBVIOUS
<1>1. \A s \in Processes :
          /\ SharedCount[s] = Cardinality({p \in Processes : VMS[p] = s})
          /\ (s \in spaces) = ({p \in Processes : VMS[p] = s} # {})
  BY DEF UsersInv, Users
<1>2. \A p \in running : VMS[p] \in spaces
  BY RunsInSpace DEF UsersInv
<1> QED BY <1>1, <1>2 DEF SpaceOutlivesItsUsers

\* SharedCount is right however processes start, fork, make threads, exit and are
\* destroyed: no space goes while a process has it, and none stays behind.
THEOREM SpacesOutliveUsers == Spec => []SpaceOutlivesItsUsers
  BY UsersInvariant, UsersInvOutlives, PTL

-----------------------------------------------------------------------------
(* The invariant: a space has the kernel's region in it while it exists    *)
(* and no region otherwise.                                                *)

SpaceTypes ==
    /\ regions \in [Processes -> Seq(Regs)]
    /\ cache \in [Processes -> Nat \union {None}]
    /\ heap \in [Processes -> Nat \union {None}]
    /\ DOMAIN page = Processes /\ DOMAIN tables = Processes

ListsApart == \A s \in Processes :
    Apart(regions[s]) /\ cache[s] \in {None} \union Starts(regions[s])

KernelMapped == \A s \in Processes :
    IF s \in spaces THEN Kernel \in Starts(regions[s]) ELSE regions[s] = <<>>

SpaceInv == SpaceTypes /\ ListsApart /\ KernelMapped

LEMMA SpaceSane ==
    ASSUME SpaceInv, NEW s \in Processes
    PROVE  /\ Sane(Space(s))
           /\ Space(s).list = regions[s] /\ Space(s).heap = heap[s]
  BY DEF SpaceInv, SpaceTypes, ListsApart, Sane, Space

\* An operation whose result is sane, on a space that it makes, keeps or ends.
LEMMA BecomeKeeps ==
    ASSUME SpaceInv, NEW s \in Processes, NEW S, Sane(S), Become(s, S),
           \A t \in Processes \ {s} : t \in spaces' <=> t \in spaces,
           IF s \in spaces' THEN Kernel \in Starts(S.list) ELSE S.list = <<>>
    PROVE  SpaceInv'
<1>1. /\ regions' = [regions EXCEPT ![s] = S.list]
      /\ cache' = [cache EXCEPT ![s] = S.cache]
      /\ heap' = [heap EXCEPT ![s] = S.heap]
      /\ page' = [page EXCEPT ![s] = S.page]
      /\ tables' = [tables EXCEPT ![s] = S.tables]
  BY DEF Become
<1>2. /\ regions \in [Processes -> Seq(Regs)]
      /\ cache \in [Processes -> Nat \union {None}]
      /\ heap \in [Processes -> Nat \union {None}]
      /\ DOMAIN page = Processes /\ DOMAIN tables = Processes
  BY DEF SpaceInv, SpaceTypes
<1>3. /\ Apart(S.list) /\ S.list \in Seq(Regs)
      /\ S.cache \in {None} \union Starts(S.list)
      /\ S.heap \in Nat \union {None}
  BY DEF Sane, Apart
<1>4. S.cache \in Nat \union {None}
  <2>1. ASSUME NEW i \in 1 .. Len(S.list)
        PROVE  S.list[i].start \in Nat
    <3>1. S.list[i] \in Regs
      BY <1>3
    <3> QED BY <3>1 DEF Regs
  <2> QED BY <1>3, <2>1 DEF Starts
<1>5. SpaceTypes'
  BY <1>1, <1>2, <1>3, <1>4 DEF SpaceTypes
<1>6. ASSUME NEW t \in Processes
      PROVE  /\ t = s => regions'[t] = S.list /\ cache'[t] = S.cache
             /\ t # s => regions'[t] = regions[t] /\ cache'[t] = cache[t]
  BY <1>1, <1>2
<1>7. ListsApart'
  BY <1>3, <1>6 DEF SpaceInv, ListsApart
<1>8. KernelMapped'
  BY <1>6 DEF SpaceInv, KernelMapped
<1> QED BY <1>5, <1>7, <1>8 DEF SpaceInv

\* The usual case: the space was there and stays.
LEMMA StepKeeps ==
    ASSUME SpaceInv, NEW s \in Processes, s \in spaces, NEW S, Sane(S), Become(s, S),
           Kernel \in Starts(S.list), spaces' = spaces
    PROVE  SpaceInv'
  BY BecomeKeeps

LEMMA InitSane == Init => SpaceInv
<1> SUFFICES ASSUME Init
             PROVE  SpaceInv
  OBVIOUS
<1>1. <<>> \in Seq(Regs) /\ Len(<<>>) = 0 /\ 1 .. 0 = {}
  OBVIOUS
<1>2. Apart(<<>>) /\ Starts(<<>>) = {}
  BY <1>1 DEF Apart, Starts
<1>3. SpaceTypes
  BY <1>1 DEF Init, SpaceTypes
<1> QED BY <1>2, <1>3 DEF Init, SpaceInv, ListsApart, KernelMapped

LEMMA RegionSane ==
    ASSUME NEW kind \in Kinds, NEW start \in Nat, NEW end \in Nat, start < end,
           kind = "kernel" => Kernel <= start
    PROVE  /\ Region(kind, start, end) \in Regs
           /\ Region(kind, start, end).start = start
           /\ Region(kind, start, end).end = end
  BY DEF Region, Regs

LEMMA Layout ==
    /\ Bin \in Nat /\ Stack \in Nat /\ Kernel \in Nat /\ MapHint \in Nat /\ MapEnd \in Nat
    /\ FirstPage \in Nat /\ MapEnd < Kernel
  BY VMAssumption

\* Inserting a region of a kind at a place, as the actions do.
LEMMA RegionInserted ==
    ASSUME NEW S, Sane(S), NEW kind \in Kinds, NEW start \in Nat, NEW end \in Nat, start < end,
           kind = "kernel" => Kernel <= start
    PROVE  /\ Sane(Insert(S, Region(kind, start, end)))
           /\ Starts(S.list) \subseteq Starts(Insert(S, Region(kind, start, end)).list)
           /\ S.list = <<>> => start \in Starts(Insert(S, Region(kind, start, end)).list)
<1> DEFINE r == Region(kind, start, end)
<1>1. r \in Regs /\ r.start = start /\ r.end = end
  BY RegionSane
<1> HIDE DEF r
<1>2. /\ Sane(Insert(S, r))
      /\ Starts(S.list) \subseteq Starts(Insert(S, r).list)
      /\ S.list = <<>> => r.start \in Starts(Insert(S, r).list)
  BY <1>1, InsertSane
<1> QED BY <1>1, <1>2 DEF r

\* A space of a process that exists.
Mapped(S) == Sane(S) /\ Kernel \in Starts(S.list)

LEMMA MappedInsert ==
    ASSUME NEW S, Mapped(S), NEW kind \in Kinds, NEW start \in Nat, NEW end \in Nat, start < end,
           kind = "kernel" => Kernel <= start
    PROVE  Mapped(Insert(S, Region(kind, start, end)))
  BY RegionInserted DEF Mapped

LEMMA MappedWritten ==
    ASSUME NEW S, Mapped(S), NEW v \in Int
    PROVE  Mapped(Written(S, v))
  BY WrittenKeeps DEF Mapped, Keeps

\* VmrCache at a region of the user, where execve leaves it.
User(S) == Mapped(S) /\ S.cache # Kernel

LEMMA UserInsert ==
    ASSUME NEW S, User(S), NEW kind \in Kinds \ {"kernel"}, NEW start \in Nat, NEW end \in Nat,
           start < end, start # Kernel
    PROVE  User(Insert(S, Region(kind, start, end)))
<1> DEFINE r == Region(kind, start, end)
           T == [S EXCEPT !.cache = r.start]
           k == SelectInSeq(S.list, LAMBDA x : r.start < x.end)
<1>1. Mapped(Insert(S, r))
  BY MappedInsert DEF User
<1>2. T = [list |-> S.list, cache |-> start, heap |-> S.heap, page |-> S.page,
           tables |-> S.tables, free |-> S.free, fault |-> S.fault]
  BY DEF User, Mapped, Sane, Region
<1>3. \/ Insert(S, r) = [T EXCEPT !.list = Append(@, r)]
      \/ Insert(S, r) = [T EXCEPT !.list = InsertAt(@, k, r)]
      \/ Insert(S, r) = [S EXCEPT !.fault = "overlap"]
  BY DEF Insert
<1> HIDE DEF T, k, r
<1>4. [S EXCEPT !.fault = "overlap"].cache = S.cache
  BY DEF User, Mapped, Sane
<1>5. T.cache = start /\ \A l : [T EXCEPT !.list = l].cache = start
  BY <1>2
<1>6. Insert(S, r).cache \in {start, S.cache}
  BY <1>3, <1>4, <1>5
<1> QED BY <1>1, <1>6 DEF User, r

LEMMA UserWritten ==
    ASSUME NEW S, User(S), NEW v \in Nat, v < Kernel
    PROVE  User(Written(S, v))
<1> DEFINE f == Find(S, v)
           L == Looked(S, v)
           T == IF v \in S.page THEN S ELSE FaultIn(L, v)
<1>1. Mapped(Written(S, v)) /\ Sane(S) /\ v \in Int
  BY MappedWritten DEF User, Mapped
<1>2. f # Kernel
  <2>1. CASE f = None
    BY <2>1, VMAssumption
  <2>2. CASE f # None
    <3>1. PICK j \in 1 .. Len(S.list) : Within(v, S.list[j]) /\ f = S.list[j].start
      BY <1>1, <2>2, FindTells
    <3>2. S.list[j] \in Regs
      BY <1>1 DEF Sane, Apart
    <3> QED BY <3>1, <3>2, Layout DEF Within, Regs
  <2> QED BY <2>1, <2>2
<1>3. L = S \/ L = [S EXCEPT !.cache = f]
  BY DEF Looked
<1> HIDE DEF f
<1>4. L.cache # Kernel /\ Sane(L)
  <2>1. [S EXCEPT !.cache = f].cache = f
    BY <1>1 DEF Sane
  <2>2. Sane(L)
    BY <1>1, LookedKeeps DEF Keeps
  <2> HIDE DEF L
  <2> QED BY <1>2, <1>3, <2>1, <2>2 DEF User
<1> HIDE DEF L
<1>5. FaultIn(L, v).cache = L.cache
  BY <1>4 DEF FaultIn, Sane
<1>6. Sane(T) /\ T.cache # Kernel
  BY <1>1, <1>4, <1>5, FaultInKeeps DEF User, Keeps
<1>7. Written(S, v) = T \/ Written(S, v) = [T EXCEPT !.fault = "memory"]
  BY DEF Written, L
<1> HIDE DEF T
<1>8. [T EXCEPT !.fault = "memory"].cache = T.cache
  BY <1>6 DEF Sane
<1> QED BY <1>1, <1>6, <1>7, <1>8 DEF User

\* Where InsertVMR looks for the place of a region.
Behind(l, q) == SelectInSeq(l, LAMBDA x : q.start < x.end)

LEMMA BehindTells ==
    ASSUME NEW l \in Seq(Regs), NEW q
    PROVE  \/ Behind(l, q) = 0 /\ \A j \in 1 .. Len(l) : ~ (q.start < l[j].end)
           \/ Behind(l, q) \in 1 .. Len(l)
<1> DEFINE v == q.start
           k == SelectInSeq(l, LAMBDA x : v < x.end)
<1>1. Behind(l, q) = k
  BY DEF Behind
<1> HIDE DEF v
<1>2. \/ k = 0 /\ \A j \in 1 .. Len(l) : ~ (v < l[j].end)
      \/ k \in 1 .. Len(l)
  BY EndsBehind
<1> HIDE DEF k
<1> QED BY <1>1, <1>2 DEF v

\* The second region of a list, in front of the first.
LEMMA SecondInFront ==
    ASSUME NEW S, Sane(S), S.list = <<>>, NEW r \in Regs, NEW q \in Regs,
           r.start < r.end, q.start < q.end, q.end <= r.start
    PROVE  Insert(Insert(S, r), q).cache = q.start
<1> DEFINE C == Insert(S, r)
           k == Behind(C.list, q)
           T == [C EXCEPT !.cache = q.start]
<1>1. Sane(C)
  BY InsertSane
<1>2. C.list = <<r>>
  <2> DEFINE i == Behind(S.list, r)
  <2>1. i = 0
    <3>1. S.list \in Seq(Regs) /\ Len(S.list) = 0
      BY DEF Sane, Apart
    <3>2. i = 0 \/ i \in 1 .. Len(S.list)
      BY <3>1, BehindTells
    <3> HIDE DEF i
    <3> QED BY <3>1, <3>2
  <2>2. C = [[S EXCEPT !.cache = r.start] EXCEPT !.list = Append(@, r)]
    BY <2>1 DEF Insert, Behind
  <2> HIDE DEF C
  <2>3. C.list = Append(S.list, r)
    BY <2>2 DEF Sane
  <2> QED BY <2>3
<1>3. C.list \in Seq(Regs) /\ Len(C.list) = 1 /\ C.list[1] = r
  <2> HIDE DEF C
  <2> QED BY <1>1, <1>2 DEF Sane, Apart
<1>4. k = 1
  <2>1. \/ k = 0 /\ \A j \in 1 .. Len(C.list) : ~ (q.start < C.list[j].end)
        \/ k \in 1 .. Len(C.list)
    BY <1>3, BehindTells
  <2> HIDE DEF k, C
  <2>2. q.start < C.list[1].end
    BY <1>3 DEF Regs
  <2> QED BY <1>3, <2>1, <2>2
<1>5. C.list[k].start = r.start
  <2> HIDE DEF k, C
  <2> QED BY <1>3, <1>4
<1>6. Insert(C, q) = [T EXCEPT !.list = InsertAt(@, k, q)]
  <2>1. k # 0 /\ q.end <= C.list[k].start
    <3> HIDE DEF k, C
    <3> QED BY <1>4, <1>5
  <2> QED BY SMTT(30), <2>1 DEF Insert, Behind
<1>7. T.cache = q.start /\ \A l : [T EXCEPT !.list = l].cache = q.start
  <2> HIDE DEF C
  <2>1. T = [list |-> C.list, cache |-> q.start, heap |-> C.heap, page |-> C.page,
             tables |-> C.tables, free |-> C.free, fault |-> C.fault]
    BY <1>1 DEF Sane
  <2> HIDE DEF T
  <2> QED BY <2>1
<1> HIDE DEF C, T, k
<1>8. Insert(C, q).cache = q.start
  BY <1>6, <1>7
<1> QED BY <1>8 DEF C

\* Create, and the program's region in front of the kernel's.
LEMMA FirstRegions ==
    ASSUME NEW S, Sane(S), S.list = <<>>
    PROVE  User(Insert(Insert(S, Region("kernel", Kernel, Kernel + 1)),
                       Region("plain", Bin, Bin + 1)))
<1> DEFINE r == Region("kernel", Kernel, Kernel + 1)
           q == Region("plain", Bin, Bin + 1)
           C == Insert(S, r)
<1>0. /\ Bin \in Nat /\ Kernel \in Nat /\ Bin + 1 <= Kernel /\ Kernel <= Kernel
      /\ Bin < Bin + 1 /\ Kernel < Kernel + 1 /\ Bin + 1 \in Nat /\ Kernel + 1 \in Nat
      /\ "plain" \in Kinds /\ "kernel" \in Kinds
  BY VMAssumption DEF Kinds
<1>1. /\ r \in Regs /\ r.start = Kernel /\ r.end = Kernel + 1
      /\ q \in Regs /\ q.start = Bin /\ q.end = Bin + 1
  BY <1>0, RegionSane
<1>2. Mapped(C)
  BY <1>0, RegionInserted DEF Mapped
<1>3. Mapped(Insert(C, q))
  <2> HIDE DEF C
  <2> QED BY <1>0, <1>2, MappedInsert
<1> HIDE DEF q, r
<1>4. Insert(C, q).cache = Bin
  BY <1>0, <1>1, SecondInFront
<1> HIDE DEF C
<1>5. User(Insert(C, q))
  BY <1>0, <1>3, <1>4 DEF User
<1> QED BY <1>5 DEF C, q, r

\* What execve makes of a space that does not exist yet.
LEMMA StartBuilds ==
    ASSUME SpaceInv, NEW p \in Processes, NEW s \in Processes, Start(p, s)
    PROVE  \E X : User(X) /\ Become(s, X) /\ spaces' = spaces \union {s}
<1>0. /\ "plain" \in Kinds \ {"kernel"} /\ "heap" \in Kinds \ {"kernel"}
      /\ Bin \in Nat /\ Stack \in Nat /\ Kernel \in Nat /\ MapHint \in Nat /\ MapEnd \in Nat
      /\ Bin + 1 \in Nat /\ Bin + 2 \in Nat /\ Stack + 1 \in Nat /\ 1 \in Nat
      /\ Bin < Kernel /\ Bin + 1 # Kernel /\ Bin + 1 < Bin + 2
      /\ Stack < Kernel /\ Stack # Kernel /\ Stack < Stack + 1 /\ MapEnd < Kernel
  BY VMAssumption DEF Kinds
<1> DEFINE S0 == Space(s)
           S1 == [S0 EXCEPT !.free = Greater(@ - 1, 0)]
           C == Create(S0)
           B0 == Insert(C, Region("plain", Bin, Bin + 1))
           B == Written(B0, Bin)
           T == Insert(B, Region("plain", Stack, Stack + 1))
           H0 == Insert(T, Region("heap", Bin + 1, Bin + 2))
           H == [H0 EXCEPT !.heap = 1]
           u == Usable(H, MapHint, MapEnd, 1)
           P == Insert(H, Region("plain", u, u + 1))
           W == Written(P, Stack)
           X == Written(W, u)
<1>1. Sane(S0) /\ S0.list = <<>>
  <2>1. s \notin spaces
    BY DEF Start
  <2> QED BY <2>1, SpaceSane DEF SpaceInv, KernelMapped
<1>2. Sane(S1) /\ S1.list = <<>>
  <2> DEFINE f == Greater(S0.free - 1, 0)
  <2>1. S1 = [S0 EXCEPT !.free = f]
    OBVIOUS
  <2> HIDE DEF f, S0
  <2>2. Keeps(S0, [S0 EXCEPT !.free = f])
    BY <1>1, FreeKeeps
  <2> QED BY <1>1, <2>1, <2>2 DEF Keeps
<1>3. B0 = Insert(Insert(S1, Region("kernel", Kernel, Kernel + 1)), Region("plain", Bin, Bin + 1))
  BY DEF Create
<1> HIDE DEF S1, B0
<1>4. User(B0)
  BY <1>2, <1>3, FirstRegions
<1>5. User(B)
  BY <1>0, <1>4, UserWritten
<1> HIDE DEF B
<1>6. User(T)
  BY <1>0, <1>5, UserInsert
<1> HIDE DEF T
<1>7. User(H0)
  BY <1>0, <1>6, UserInsert
<1> HIDE DEF H0
<1>8. User(H)
  <2>1. Mapped(H)
    BY <1>0, <1>7, HeapSane DEF User, Mapped
  <2>2. H.cache = H0.cache
    BY <1>7 DEF User, Mapped, Sane
  <2> HIDE DEF H
  <2> QED BY <1>7, <2>1, <2>2 DEF User
<1> HIDE DEF H
<1>9. u \in Nat /\ u < Kernel /\ u + 1 \in Nat /\ u < u + 1 /\ u # Kernel
  <2>1. u \in Nat /\ (u = 0 \/ u + 1 <= MapEnd)
    BY <1>0, <1>8, UsableNat DEF User, Mapped
  <2> HIDE DEF u
  <2> QED BY <1>0, <2>1
<1> HIDE DEF u
<1>10. User(P)
  BY <1>0, <1>8, <1>9, UserInsert
<1> HIDE DEF P
<1>11. User(W)
  BY <1>0, <1>10, UserWritten
<1> HIDE DEF W
<1>12. User(X)
  BY <1>9, <1>11, UserWritten
<1>13. Become(s, X) /\ spaces' = spaces \union {s}
  BY DEF Start, X, W, P, u, H, H0, T, B, B0
<1> HIDE DEF X
<1> QED BY <1>12, <1>13

LEMMA StartSane ==
    ASSUME SpaceInv, NEW p \in Processes, NEW s \in Processes, Start(p, s)
    PROVE  SpaceInv' /\ cache'[s] # Kernel /\ spaces' = spaces \union {s}
<1>1. PICK X : User(X) /\ Become(s, X) /\ spaces' = spaces \union {s}
  BY StartBuilds
<1>2. cache'[s] = X.cache
  BY <1>1 DEF Become, SpaceInv, SpaceTypes
<1> QED BY <1>1, <1>2, BecomeKeeps DEF SpaceInv, Mapped, User

\* The space of a process that runs.
LEMMA LiveMapped ==
    ASSUME UsersInv, SpaceInv, NEW s \in Processes, Live(s)
    PROVE  s \in spaces /\ Mapped(Space(s))
  BY LiveExists, SpaceSane DEF SpaceInv, KernelMapped, Mapped

LEMMA RunsMapped ==
    ASSUME UsersInv, SpaceInv, NEW p \in Processes, p \in running
    PROVE  VMS[p] \in Processes /\ VMS[p] \in spaces /\ Mapped(Space(VMS[p]))
  BY RunsInSpace, SpaceSane DEF SpaceInv, KernelMapped, Mapped

LEMMA ForkSane ==
    ASSUME UsersInv, SpaceInv, NEW s \in Processes, NEW q \in Processes, NEW t \in Processes,
           Fork(s, q, t)
    PROVE  SpaceInv'
<1> DEFINE S == Space(s)
           need == 1 + Cardinality(CopiedTables(S)) + Cardinality(Copied(S))
           m == [i \in DOMAIN S.list |-> Inherited(S.list[i])]
           p == Copied(S)
           d == CopiedTables(S)
           f == S.free - need
           C == [S EXCEPT !.list = m, !.cache = Kernel, !.heap = None,
                          !.page = p, !.tables = d, !.free = f]
<1>1. \/ UNCHANGED <<regions, cache, heap, page, tables, spaces>>
      \/ Become(t, C) /\ spaces' = spaces \union {t}
  BY DEF Fork, memory
<1>2. Mapped(S)
  BY LiveMapped DEF Fork
<1>3. Apart(m) /\ Starts(m) = Starts(S.list)
  BY <1>2, InheritedApart DEF Mapped, Sane
<1>4. C = [list |-> m, cache |-> Kernel, heap |-> None, page |-> p,
           tables |-> d, free |-> f, fault |-> S.fault]
  <2> HIDE DEF m, p, d, f, S
  <2>1. C = [S EXCEPT !.list = m, !.cache = Kernel, !.heap = None,
                      !.page = p, !.tables = d, !.free = f]
    OBVIOUS
  <2> HIDE DEF C
  <2> QED BY <1>2, <2>1 DEF Mapped, Sane
<1> HIDE DEF m, p, d, f, S, C
<1>5. Mapped(C)
  BY <1>2, <1>3, <1>4 DEF Mapped, Sane
<1>6. CASE Become(t, C) /\ spaces' = spaces \union {t}
  BY <1>5, <1>6, BecomeKeeps DEF SpaceInv, Mapped
<1>7. CASE UNCHANGED <<regions, cache, heap, page, tables, spaces>>
  BY <1>7 DEF SpaceInv, SpaceTypes, ListsApart, KernelMapped
<1> QED BY <1>1, <1>6, <1>7

\* What a fork that succeeds makes of the child's space.
LEMMA ForkMade ==
    ASSUME UsersInv, SpaceInv, NEW s \in Processes, NEW q \in Processes, NEW t \in Processes,
           Fork(s, q, t), t \in spaces'
    PROVE  /\ spaces' = spaces \union {t}
           /\ regions'[t] = [i \in DOMAIN regions[s] |-> Inherited(regions[s][i])]
           /\ page'[t] = Copied(Space(s))
<1> DEFINE S == Space(s)
           m == [i \in DOMAIN S.list |-> Inherited(S.list[i])]
           c == Copied(S)
           d == CopiedTables(S)
           f == S.free - (1 + Cardinality(d) + Cardinality(c))
           C == [S EXCEPT !.list = m, !.cache = Kernel, !.heap = None,
                          !.page = c, !.tables = d, !.free = f]
<1>1. t \notin spaces
  BY DEF Fork
<1>2. spaces' = spaces \/ (Become(t, C) /\ spaces' = spaces \union {t})
  BY DEF Fork
<1>3. Sane(S) /\ S.list = regions[s]
  BY SpaceSane
<1> HIDE DEF S, m, c, d, f
<1>4. C.list = m /\ C.page = c
  BY <1>3 DEF Sane
<1> HIDE DEF C
<1>5. Become(t, C) /\ spaces' = spaces \union {t}
  BY <1>1, <1>2
<1>6. regions'[t] = m /\ page'[t] = c
  BY <1>4, <1>5 DEF Become, SpaceInv, SpaceTypes
<1> QED BY <1>3, <1>5, <1>6 DEF m, c, S

\* A region that has a page of the user is not the kernel's.
LEMMA UserRegion ==
    ASSUME SpaceInv, NEW s \in Processes, NEW i \in DOMAIN regions[s], NEW v \in Nat, v < Kernel,
           Within(v, regions[s][i])
    PROVE  regions[s][i].kind # "kernel"
<1>1. regions[s][i] \in Regs
  BY DEF SpaceInv, SpaceTypes
<1> QED BY <1>1, Layout DEF Regs, Within

LEMMA ForkCopiesPages ==
    ASSUME UsersInv, SpaceInv,
           NEW s \in Processes, NEW q \in Processes, NEW t \in Processes,
           Fork(s, q, t), t \in spaces', NEW v \in 0 .. Kernel - 1
    PROVE  LET mapped == \E r \in Range(regions[s]) : Within(v, r)
           IN  /\ mapped = (\E r \in Range(regions'[t]) : Within(v, r))
               /\ (v \in page'[t]) = (mapped /\ v \in page[s])
<1> DEFINE l == regions[s]
           m == [i \in DOMAIN l |-> Inherited(l[i])]
           mapped == \E r \in Range(l) : Within(v, r)
<1>1. v \in Nat /\ v < Kernel
  BY Layout
<1>2. /\ regions'[t] = m /\ page'[t] = Copied(Space(s))
      /\ Space(s).list = l /\ Space(s).page = page[s]
  BY ForkMade DEF Space
<1>3. ASSUME NEW i \in DOMAIN l
      PROVE  m[i].start = l[i].start /\ m[i].end = l[i].end
  <2>1. l[i] \in Regs
    BY DEF SpaceInv, SpaceTypes
  <2> QED BY <2>1 DEF Inherited, Regs
<1>4. /\ Range(l) = {l[i] : i \in DOMAIN l}
      /\ Range(m) = {m[i] : i \in DOMAIN l}
  BY DEF Range
<1> HIDE DEF m
<1>5. mapped = \E i \in DOMAIN l : Within(v, l[i])
  BY <1>4
<1>6. mapped = \E r \in Range(m) : Within(v, r)
  BY <1>3, <1>4, <1>5 DEF Within
<1>7. v \in Copied(Space(s)) <=> v \in page[s] /\ \E i \in DOMAIN l : Within(v, l[i])
  BY <1>1, <1>2, UserRegion DEF Copied
<1> QED BY <1>2, <1>5, <1>6, <1>7

\* Steps that touch no space: Thread and Exit.
LEMMA MemoryKept ==
    ASSUME SpaceInv, UNCHANGED <<regions, cache, heap, page, tables, spaces>>
    PROVE  SpaceInv'
  BY DEF SpaceInv, SpaceTypes, ListsApart, KernelMapped

LEMMA DestroySane ==
    ASSUME UsersInv, SpaceInv, NEW p \in Processes, Destroy(p)
    PROVE  SpaceInv'
<1> DEFINE s == VMS[p]
           f == NoSpace.free + Released(Space(s))
           S == [NoSpace EXCEPT !.free = f]
<1>1. /\ s \in Processes
      /\ \/ Become(s, S) /\ spaces' = spaces \ {s}
         \/ UNCHANGED <<regions, cache, heap, page, tables, spaces>>
  BY DEF Destroy, memory, UsersInv
<1>2. Sane(NoSpace) /\ NoSpace.list = <<>>
  <2>1. Apart(<<>>)
    BY DEF Apart
  <2> QED BY <2>1 DEF NoSpace, Sane
<1> HIDE DEF f, s
<1>3. Keeps(NoSpace, S)
  BY <1>2, FreeKeeps
<1> HIDE DEF S
<1>4. CASE Become(s, S) /\ spaces' = spaces \ {s}
  BY <1>1, <1>2, <1>3, <1>4, BecomeKeeps DEF Keeps
<1> QED BY <1>1, <1>4, MemoryKept

LEMMA BrkSane ==
    ASSUME UsersInv, SpaceInv, Careful, NEW p \in Processes, NEW to \in Pages, Brk(p, to)
    PROVE  SpaceInv'
<1> DEFINE s == VMS[p]
           S == Space(s)
           B == \E r \in Range(regions[s]) : r.kind = "heap"
           R == Resize(S, to)
           F == [S EXCEPT !.fault = "freed"]
<1>1. /\ s \in Processes /\ s \in spaces
      /\ Mapped(S) /\ S.list = regions[s] /\ S.heap = heap[s]
  BY RunsMapped, SpaceSane DEF Brk
<1>2. /\ heap[s] # None /\ spaces' = spaces
      /\ \A r \in Range(regions[s]) : r.kind = "heap" =>
                      r.start < to /\ r.start + heap[s] <= r.end
      /\ Become(s, IF B THEN R ELSE F)
  BY DEF Brk
<1> HIDE DEF s
<1>3. Range(regions[s]) = {S.list[j] : j \in 1 .. Len(S.list)}
  <2>1. regions[s] \in Seq(Regs)
    BY <1>1 DEF SpaceInv, SpaceTypes
  <2> QED BY <1>1, <2>1 DEF Range
<1>4. to \in Nat
  BY VMAssumption DEF Pages
<1> HIDE DEF S
<1>5. CASE B
  <2>1. \E j \in 1 .. Len(S.list) : S.list[j].kind = "heap"
    BY <1>3, <1>5
  <2>2. \A j \in 1 .. Len(S.list) : S.list[j].kind = "heap" =>
            S.list[j].start < to /\ S.list[j].start + S.heap <= S.list[j].end
    BY <1>1, <1>2, <1>3
  <2>3. Mapped(R)
    BY <1>1, <1>2, <1>4, <2>1, <2>2, ResizeSane DEF Mapped
  <2>4. Become(s, R)
    BY <1>2, <1>5
  <2> HIDE DEF R
  <2> QED BY <1>1, <1>2, <2>3, <2>4, StepKeeps DEF Mapped
<1>6. CASE ~B
  <2>1. Mapped(F)
    BY <1>1, StoppedKeeps DEF Mapped, Keeps
  <2>2. Become(s, F)
    BY <1>2, <1>6
  <2> HIDE DEF F
  <2> QED BY <1>1, <1>2, <2>1, <2>2, StepKeeps DEF Mapped
<1> QED BY <1>5, <1>6

\* mmap's place is an address, or 0.
LEMMA PlaceNat ==
    ASSUME NEW S, Mapped(S), NEW hint \in Nat, NEW len \in Nat
    PROVE  Place(S, hint, len) \in Nat
<1> DEFINE h == IF hint = 0 THEN MapHint ELSE hint
           u == Usable(S, h, MapEnd, len)
<1>1. h \in Nat /\ MapEnd \in Nat
  BY Layout
<1>2. Place(S, hint, len) = IF hint # 0 /\ u # hint THEN 0 ELSE u
  BY DEF Place
<1> HIDE DEF h
<1>3. u \in Nat
  BY <1>1, UsableNat DEF Mapped
<1> HIDE DEF u
<1> QED BY <1>2, <1>3

LEMMA MmapPlainSane ==
    ASSUME UsersInv, SpaceInv, NEW s \in Processes, NEW hint \in Nat, NEW len \in Nat, 0 < len,
           MmapPlain(s, hint, len)
    PROVE  SpaceInv'
<1> DEFINE S == Space(s)
           u == Place(S, hint, len)
           I == Insert(S, Region("plain", u, u + len))
<1>1. s \in spaces /\ Mapped(S)
  BY LiveMapped DEF MmapPlain
<1>2. Become(s, I) /\ spaces' = spaces
  BY DEF MmapPlain
<1> HIDE DEF S
<1>3. u \in Nat
  BY <1>1, PlaceNat
<1> HIDE DEF u
<1>4. u + len \in Nat /\ u < u + len /\ "plain" \in Kinds
  BY <1>3 DEF Kinds
<1>5. Mapped(I)
  BY <1>1, <1>3, <1>4, MappedInsert
<1> HIDE DEF I
<1> QED BY <1>1, <1>2, <1>5, StepKeeps DEF Mapped

LEMMA MmapFileSane ==
    ASSUME UsersInv, SpaceInv, NEW s \in Processes, NEW hint \in Nat, MmapFile(s, hint)
    PROVE  SpaceInv'
<1> DEFINE S == Space(s)
           u == Place(S, hint, 1)
           I == Insert(S, Region("file", u, u + 1))
           W == Written(I, u)
           F == [S EXCEPT !.fault = "freed"]
<1>1. s \in spaces /\ Mapped(S)
  BY LiveMapped DEF MmapFile
<1>2. Become(s, F) \/ Become(s, W)
  BY DEF MmapFile
<1>3. spaces' = spaces
  BY DEF MmapFile
<1> HIDE DEF S
<1>4. u \in Nat
  BY <1>1, PlaceNat
<1> HIDE DEF u
<1>5. u + 1 \in Nat /\ u < u + 1 /\ "file" \in Kinds /\ u \in Int
  BY <1>4 DEF Kinds
<1>6. Mapped(I)
  BY <1>1, <1>4, <1>5, MappedInsert
<1> HIDE DEF I
<1>7. Mapped(W)
  BY <1>5, <1>6, MappedWritten
<1>8. Mapped(F)
  BY <1>1, StoppedKeeps DEF Mapped, Keeps
<1> HIDE DEF W, F
<1> QED BY <1>1, <1>2, <1>3, <1>7, <1>8, StepKeeps DEF Mapped

LEMMA LookedMapped ==
    ASSUME NEW S, Mapped(S), NEW v \in Int
    PROVE  Mapped(Looked(S, v))
  BY LookedKeeps DEF Mapped, Keeps

\* The region MmapFixed and Munmap find.
LEMMA FoundMapped ==
    ASSUME NEW S, Mapped(S), NEW v, NEW k,
           k = At(S.list, v), k # 0
    PROVE  k \in 1 .. Len(S.list) /\ Within(v, S.list[k])
<1>1. S.list \in Seq(Regs)
  BY DEF Mapped, Sane, Apart
<1> QED BY <1>1, WithinAt

LEMMA MmapFixedSane ==
    ASSUME UsersInv, SpaceInv, Careful, NEW s \in Processes, NEW v \in Nat, NEW len \in Nat, 0 < len,
           MmapFixed(s, v, len)
    PROVE  SpaceInv'
<1> DEFINE S0 == Space(s)
           S == Looked(S0, v)
           k == SelectInSeq(S.list, LAMBDA r : Within(v, r))
           cut == k # 0 /\ S.list[k].end <= v + len
           T == IF cut THEN [S EXCEPT !.list[k].end = v] ELSE S
           u == Place(T, v, len)
           I == Insert(T, Region("plain", u, u + len))
           F == [S EXCEPT !.fault = "cast"]
<1>1. s \in spaces /\ Mapped(S0)
  BY LiveMapped DEF MmapFixed
<1>2. /\ k # 0 /\ S.list[k].start < v
      /\ Become(s, F) \/ Become(s, T) \/ Become(s, I)
      /\ spaces' = spaces
  BY DEF MmapFixed
<1> HIDE DEF S0
<1>3. /\ Mapped(S) /\ k \in 1 .. Len(S.list) /\ Within(v, S.list[k])
  <2>1. Mapped(S)
    BY <1>1, LookedMapped
  <2> HIDE DEF S
  <2>2. k = At(S.list, v)
    BY DEF At
  <2> HIDE DEF k
  <2> QED BY <1>2, <2>1, <2>2, FoundMapped
<1>4. Mapped(F)
  BY <1>3, StoppedKeeps DEF Mapped, Keeps
<1> HIDE DEF S, k
<1>5. Mapped(Cut(S, k, v))
  <2>1. v <= S.list[k].end
    <3>1. S.list \in Seq(Regs)
      BY <1>3 DEF Mapped, Sane, Apart
    <3>2. S.list[k] \in Regs
      BY <1>3, <3>1
    <3> QED BY <1>3, <3>2 DEF Within, Regs
  <2>2. /\ Sane(Cut(S, k, v)) /\ Starts(Cut(S, k, v).list) = Starts(S.list)
    BY <1>2, <1>3, <2>1, EndedSane DEF Mapped
  <2> QED BY <1>3, <2>2 DEF Mapped
<1>6. T = IF cut THEN Cut(S, k, v) ELSE S
  BY DEF Cut
<1> HIDE DEF T
<1>7. Mapped(T)
  BY <1>3, <1>5, <1>6
<1>8. u \in Nat
  BY <1>7, PlaceNat
<1> HIDE DEF u
<1>9. u + len \in Nat /\ u < u + len /\ "plain" \in Kinds
  BY <1>8 DEF Kinds
<1>10. Mapped(I)
  BY <1>7, <1>8, <1>9, MappedInsert
<1> HIDE DEF I, F
<1> QED BY <1>1, <1>2, <1>4, <1>7, <1>10, StepKeeps DEF Mapped

LEMMA MunmapSane ==
    ASSUME UsersInv, SpaceInv, Careful, NEW s \in Processes, NEW v \in Nat, Munmap(s, v)
    PROVE  SpaceInv'
<1> DEFINE S0 == Space(s)
           S == Looked(S0, v)
           k == SelectInSeq(S.list, LAMBDA r : Within(v, r))
           R == Removed(S, k)
           F(why) == [S EXCEPT !.fault = why]
<1>1. s \in spaces /\ Mapped(S0)
  BY LiveMapped DEF Munmap
<1>2. /\ k # 0 /\ S.list[k].start = v /\ v < MapEnd
      /\ Become(s, F("null")) \/ Become(s, F("cast")) \/ Become(s, R)
      /\ spaces' = spaces
  BY DEF Munmap
<1> HIDE DEF S0
<1>3. Mapped(S) /\ k \in 1 .. Len(S.list)
  <2>1. Mapped(S)
    BY <1>1, LookedMapped
  <2> HIDE DEF S
  <2>2. k = At(S.list, v)
    BY DEF At
  <2> HIDE DEF k
  <2> QED BY <1>2, <2>1, <2>2, FoundMapped
<1> HIDE DEF S, k
<1>4. \A why : Mapped(F(why))
  BY <1>3, StoppedKeeps DEF Mapped, Keeps
<1>5. Kernel # S.list[k].start
  BY <1>2, Layout
<1>6. Mapped(R)
  BY <1>3, <1>5, RemovedSane DEF Mapped
<1> HIDE DEF R, F
<1> QED BY <1>1, <1>2, <1>3, <1>4, <1>6, StepKeeps DEF Mapped

LEMMA TouchSane ==
    ASSUME UsersInv, SpaceInv, NEW p \in Processes, NEW v \in Nat, Touch(p, v)
    PROVE  SpaceInv'
<1> DEFINE s == VMS[p]
           S == Space(s)
           L == Looked(S, v)
           F == FaultIn(L, v)
<1>1. s \in Processes /\ s \in spaces /\ Mapped(S)
  BY RunsMapped DEF Touch
<1>2. (Become(s, S) \/ Become(s, F)) /\ spaces' = spaces
  BY DEF Touch
<1> HIDE DEF S, s
<1>3. Mapped(L)
  BY <1>1, LookedKeeps DEF Mapped, Keeps
<1> HIDE DEF L
<1>4. Mapped(F)
  BY <1>3, FaultInKeeps DEF Mapped, Keeps
<1> HIDE DEF F
<1> QED BY <1>1, <1>2, <1>3, <1>4, StepKeeps DEF Mapped

-----------------------------------------------------------------------------
LEMMA NextSane ==
    ASSUME UsersInv, SpaceInv, Careful, [Next]_vars
    PROVE  SpaceInv'
<1>1. Pages \subseteq Nat /\ \A len \in 1 .. MaxLen : len \in Nat /\ 0 < len
  BY VMAssumption DEF Pages
<1>2. ASSUME NEW s \in Processes, NEW p \in Processes,
             Start(p, s) \/ Thread(s, p) \/ \E t \in Processes : Fork(s, p, t)
      PROVE  SpaceInv'
  <2>1. Thread(s, p) => UNCHANGED <<regions, cache, heap, page, tables, spaces>>
    BY DEF Thread, memory
  <2> QED BY <1>2, <2>1, StartSane, MemoryKept, ForkSane
<1>3. ASSUME NEW p \in Processes,
             Exit(p) \/ Destroy(p) \/ \E v \in Pages : Touch(p, v) \/ Brk(p, v)
      PROVE  SpaceInv'
  <2>1. Exit(p) => UNCHANGED <<regions, cache, heap, page, tables, spaces>>
    BY DEF Exit, memory
  <2> QED BY <1>1, <1>3, <2>1, MemoryKept, DestroySane, TouchSane, BrkSane
<1>4. ASSUME NEW s \in Processes, NEW v \in Pages,
             \/ Munmap(s, v) \/ MmapFile(s, v)
             \/ \E len \in 1 .. MaxLen : MmapPlain(s, v, len) \/ MmapFixed(s, v, len)
      PROVE  SpaceInv'
  <2>1. v \in Nat
    BY <1>1
  <2> QED BY <1>1, <1>4, <2>1, MunmapSane, MmapFileSane, MmapPlainSane, MmapFixedSane
<1>5. CASE Next
  BY <1>2, <1>3, <1>4, <1>5 DEF Next
<1>6. CASE UNCHANGED vars
  BY <1>6, MemoryKept DEF vars, memory
<1> QED BY <1>5, <1>6

\* Programs that keep to Careful never bring a space into a state the lemmas
\* do not cover: its list stays in order, its cache in the list.
THEOREM SpaceInvariant == ASSUME Careful PROVE Spec => []SpaceInv
<1>1. UsersInv /\ SpaceInv /\ [Next]_vars => SpaceInv'
  BY NextSane
<1> QED BY <1>1, InitSane, UsersInvariant, PTL DEF Spec

LEMMA SpaceInvApart == SpaceInv => RegionsDisjoint
<1> SUFFICES ASSUME SpaceInv, NEW s \in Processes,
                    NEW i \in DOMAIN regions[s], NEW j \in DOMAIN regions[s], i < j
             PROVE  regions[s][i].end <= regions[s][j].start
  BY DEF RegionsDisjoint
<1>1. regions[s] \in Seq(Regs) /\ Apart(regions[s])
  BY DEF SpaceInv, SpaceTypes, ListsApart
<1>2. i \in 1 .. Len(regions[s]) /\ j \in 1 .. Len(regions[s])
  BY <1>1
<1> QED BY <1>1, <1>2 DEF Apart

LEMMA SpaceInvTells == SpaceInv => CacheTellsTheList
<1> SUFFICES ASSUME SpaceInv, NEW s \in Processes, NEW v \in Pages
             PROVE  /\ cache[s] \in {None} \union {r.start : r \in Range(regions[s])}
                    /\ IF \E r \in Range(regions[s]) : Within(v, r)
                       THEN \E r \in Range(regions[s]) :
                                Within(v, r) /\ Find(Space(s), v) = r.start
                       ELSE Find(Space(s), v) = None
  BY DEF CacheTellsTheList
<1> DEFINE l == regions[s]
<1>1. /\ l \in Seq(Regs) /\ cache[s] \in {None} \union Starts(l)
      /\ Sane(Space(s)) /\ Space(s).list = l
  BY SpaceSane DEF SpaceInv, SpaceTypes, ListsApart
<1>2. v \in Int
  BY VMAssumption DEF Pages
<1>3. Range(l) = {l[j] : j \in 1 .. Len(l)}
  BY <1>1 DEF Range
<1>4. IF \E j \in 1 .. Len(l) : Within(v, l[j])
      THEN \E j \in 1 .. Len(l) : Within(v, l[j]) /\ Find(Space(s), v) = l[j].start
      ELSE Find(Space(s), v) = None
  BY <1>1, <1>2, FindTells
<1> HIDE DEF l
<1>5. cache[s] \in {None} \union {r.start : r \in Range(l)}
  BY <1>1, <1>3 DEF Starts
<1>6. IF \E r \in Range(l) : Within(v, r)
      THEN \E r \in Range(l) : Within(v, r) /\ Find(Space(s), v) = r.start
      ELSE Find(Space(s), v) = None
  BY <1>3, <1>4
<1> QED BY <1>5, <1>6 DEF l

\* brk, mmap, munmap, fork and execve, in any order and number, leave the regions
\* of every space in order and apart.
THEOREM RegionsStayDisjoint == ASSUME Careful PROVE Spec => []RegionsDisjoint
  BY SpaceInvariant, SpaceInvApart, PTL

\* VmrCache never dangles, and FindVMR with it answers as the list does.
THEOREM CacheStaysTrue == ASSUME Careful PROVE Spec => []CacheTellsTheList
  BY SpaceInvariant, SpaceInvTells, PTL

-----------------------------------------------------------------------------
(* A space that is new.                                                    *)

\* Only execve and fork make a space.
LEMMA NewSpace ==
    ASSUME UsersInv, [Next]_vars, NEW t \in spaces' \ spaces
    PROVE  \/ \E p \in Processes : Start(p, t)
           \/ \E s, p \in Processes : Fork(s, p, t)
<1>1. spaces' # spaces
  OBVIOUS
<1>2. ASSUME NEW s \in Processes, NEW p \in Processes,
             Start(p, s) \/ Thread(s, p) \/ \E x \in Processes : Fork(s, p, x)
      PROVE  \/ \E q \in Processes : Start(q, t)
             \/ \E r, q \in Processes : Fork(r, q, t)
  <2>1. CASE Start(p, s)
    BY <2>1 DEF Start
  <2>2. CASE Thread(s, p)
    BY <2>2 DEF Thread
  <2>3. ASSUME NEW x \in Processes, Fork(s, p, x)
        PROVE  Fork(s, p, t)
    <3>1. spaces' = spaces \/ spaces' = spaces \union {x}
      BY <2>3 DEF Fork
    <3>2. t = x
      BY <3>1
    <3> QED BY <2>3, <3>2
  <2> QED BY <1>2, <2>1, <2>2, <2>3
<1>3. ASSUME NEW p \in Processes,
             Exit(p) \/ Destroy(p) \/ \E v \in Pages : Touch(p, v) \/ Brk(p, v)
      PROVE  FALSE
  <2>1. spaces' \subseteq spaces
    BY <1>3 DEF Exit, Destroy, Touch, Brk
  <2> QED BY <2>1
<1>4. ASSUME NEW s \in Processes, NEW v \in Pages,
             \/ Munmap(s, v) \/ MmapFile(s, v)
             \/ \E len \in 1 .. MaxLen : MmapPlain(s, v, len) \/ MmapFixed(s, v, len)
      PROVE  FALSE
  BY <1>1, <1>4 DEF Munmap, MmapFile, MmapPlain, MmapFixed
<1>5. Next
  BY <1>1 DEF vars
<1> QED BY <1>2, <1>3, <1>4, <1>5 DEF Next

LEMMA StepForkCopies ==
    ASSUME UsersInv, SpaceInv, [Next]_vars, NEW t \in spaces' \ spaces, cache'[t] = Kernel
    PROVE  \E s \in {VMS[p] : p \in running} : \A v \in 0 .. Kernel - 1 :
               LET mapped == \E r \in Range(regions[s]) : Within(v, r)
               IN  /\ mapped = (\E r \in Range(regions'[t]) : Within(v, r))
                   /\ (v \in page'[t]) = (mapped /\ v \in page[s])
<1>1. UsersInv'
  BY NextUsers
<1>2. t \in Processes
  BY <1>1 DEF UsersInv
<1>3. ~ \E p \in Processes : Start(p, t)
  BY <1>2, StartSane
<1>4. PICK s \in Processes, p \in Processes : Fork(s, p, t)
  BY <1>3, NewSpace
<1>5. s \in {VMS[q] : q \in running}
  BY <1>4 DEF Fork, Live
<1> QED BY <1>2, <1>4, <1>5, ForkCopiesPages

\* A fork that succeeds gives the child the addresses its parent has, copies of
\* the parent's pages that lie in a region, and no page the parent unmapped.
THEOREM ForksCopy == ASSUME Careful PROVE Spec => ForkCopies
<1>1. UsersInv /\ SpaceInv /\ [Next]_vars => \A t \in spaces' \ spaces :
          cache'[t] = Kernel => \E s \in {VMS[p] : p \in running} :
              \A v \in 0 .. Kernel - 1 :
                  LET mapped == \E r \in Range(regions[s]) : Within(v, r)
                  IN  /\ mapped = (\E r \in Range(regions'[t]) : Within(v, r))
                      /\ (v \in page'[t]) = (mapped /\ v \in page[s])
  BY StepForkCopies
<1> QED BY <1>1, SpaceInvariant, UsersInvariant, PTL DEF Spec, ForkCopies

-----------------------------------------------------------------------------
(* What a page fault takes.                                                *)

\* A record of the fields of Space.
Shape(S) == S = [list |-> S.list, cache |-> S.cache, heap |-> S.heap, page |-> S.page,
                 tables |-> S.tables, free |-> S.free, fault |-> S.fault]

\* The pages of a space can be counted.
Fits(S) ==
    /\ Shape(S)
    /\ IsFiniteSet(S.tables) /\ IsFiniteSet(S.page) /\ S.free \in Nat

\* The pages left and those of a space but its PDT.
Total(S) == S.free + Cardinality(S.tables) + Cardinality(S.page)

\* T comes from S by n pages that are no longer counted, unless the kernel stopped.
Paid(S, T, n) ==
    /\ Fits(T)
    /\ T.fault = "none" => S.fault = "none" /\ Total(T) + n = Total(S)

LEMMA FitsTotal ==
    ASSUME NEW S, Fits(S)
    PROVE  /\ Total(S) \in Nat
           /\ Cardinality(S.tables) \in Nat /\ Cardinality(S.page) \in Nat
<1>1. Cardinality(S.tables) \in Nat /\ Cardinality(S.page) \in Nat
  BY FS_CardinalityType DEF Fits
<1> QED BY <1>1 DEF Fits, Total

\* Two elements, of which either may be left out.
Selected(a, b, T) ==
    (IF a \in T THEN <<>> ELSE <<a>>) \o (IF b \in T THEN <<>> ELSE <<b>>)

LEMMA SelectedFacts ==
    ASSUME NEW A, NEW a \in A, NEW b \in A, a # b, NEW T, NEW m, m = Selected(a, b, T)
    PROVE  /\ m \in Seq(A) /\ Len(m) \in 0 .. 2
           /\ \A i \in 1 .. Len(m) : m[i] \notin T
           /\ \A i, j \in 1 .. Len(m) : i # j => m[i] # m[j]
<1> DEFINE x == IF a \in T THEN <<>> ELSE <<a>>
           y == IF b \in T THEN <<>> ELSE <<b>>
<1>1. /\ x \in Seq(A) /\ Len(x) = IF a \in T THEN 0 ELSE 1
      /\ a \notin T => x[1] = a
  OBVIOUS
<1>2. /\ y \in Seq(A) /\ Len(y) = IF b \in T THEN 0 ELSE 1
      /\ b \notin T => y[1] = b
  OBVIOUS
<1>3. m = x \o y
  BY DEF Selected
<1> HIDE DEF x, y
<1>4. /\ m \in Seq(A) /\ Len(m) = Len(x) + Len(y)
      /\ \A i \in 1 .. Len(x) + Len(y) :
             m[i] = IF i <= Len(x) THEN x[i] ELSE y[i - Len(x)]
  BY <1>1, <1>2, <1>3, Joined
<1>5. CASE a \in T
  BY <1>1, <1>2, <1>4, <1>5
<1>6. CASE a \notin T /\ b \in T
  BY <1>1, <1>2, <1>4, <1>6
<1>7. CASE a \notin T /\ b \notin T
  <2>1. Len(x) = 1 /\ Len(y) = 1 /\ Len(m) = 2 /\ x[1] = a /\ y[1] = b
    BY <1>1, <1>2, <1>4, <1>7
  <2>2. m[1] = a
    BY <1>4, <2>1
  <2>3. m[2] = b
    <3>1. 2 \in 1 .. Len(x) + Len(y) /\ ~ (2 <= Len(x)) /\ 2 - Len(x) = 1
      BY <2>1
    <3>2. m[2] = y[2 - Len(x)]
      BY <1>4, <3>1
    <3> QED BY <2>1, <3>1, <3>2
  <2> QED BY <1>4, <1>7, <2>1, <2>2, <2>3
<1> QED BY <1>5, <1>6, <1>7

\* The first n elements of a sequence without repetitions.
LEMMA CountedFirst ==
    ASSUME NEW A, NEW m \in Seq(A), \A i, j \in 1 .. Len(m) : i # j => m[i] # m[j],
           NEW n \in 0 .. Len(m)
    PROVE  LET made == Range(SubSeq(m, 1, n))
           IN  /\ made = {m[i] : i \in 1 .. n}
               /\ IsFiniteSet(made) /\ Cardinality(made) = n
<1> DEFINE q == SubSeq(m, 1, n)
           made == Range(q)
<1>1. n \in Nat /\ Len(m) \in Nat /\ n <= Len(m)
  OBVIOUS
<1>2. q \in Seq(A) /\ Len(q) = n /\ \A i \in 1 .. n : q[i] = m[i]
  BY <1>1
<1> HIDE DEF q
<1>3. DOMAIN q = 1 .. n /\ q \in [1 .. n -> A]
  BY <1>2
<1>4. made = {q[i] : i \in 1 .. n}
  BY <1>3 DEF Range
<1> HIDE DEF made
<1>5. \A i, j \in 1 .. n : q[i] = q[j] => i = j
  BY <1>1, <1>2
<1>6. q \in Surjection(1 .. n, made)
  BY <1>3, <1>4 DEF Surjection
<1>7. q \in Injection(1 .. n, made)
  BY <1>3, <1>4, <1>5 DEF Injection, IsInjective
<1>8. IsFiniteSet(1 .. n) /\ Cardinality(1 .. n) = n
  BY <1>1, FS_Interval
<1>9. IsFiniteSet(made) /\ Cardinality(made) = n
  BY <1>6, <1>7, <1>8, FS_Surjection
<1> QED BY <1>2, <1>4, <1>9 DEF made, q

\* The tables that are made are not there, and there are as many as are asked for.
LEMMA TablesMade ==
    ASSUME NEW S, NEW v
    PROVE  /\ Len(Missing(S, v)) \in Nat
           /\ \A n \in 0 .. Len(Missing(S, v)) :
                 LET made == Range(SubSeq(Missing(S, v), 1, n))
                 IN  /\ made \intersect S.tables = {}
                     /\ IsFiniteSet(made) /\ Cardinality(made) = n
<1> DEFINE a == <<"top", 0>>
           b == <<"low", v \div 4>>
           m == Missing(S, v)
           T == S.tables
<1>1. a \in {a, b} /\ b \in {a, b} /\ a # b
  OBVIOUS
<1>2. m = Selected(a, b, T)
  BY DEF Missing, TablesOf, Selected
<1> HIDE DEF a, b, m, T
<1>3. /\ m \in Seq({a, b}) /\ Len(m) \in 0 .. 2
      /\ \A i \in 1 .. Len(m) : m[i] \notin T
      /\ \A i, j \in 1 .. Len(m) : i # j => m[i] # m[j]
  BY <1>1, <1>2, SelectedFacts
<1>4. ASSUME NEW n \in 0 .. Len(m)
      PROVE  LET made == Range(SubSeq(m, 1, n))
             IN  /\ made \intersect T = {}
                 /\ IsFiniteSet(made) /\ Cardinality(made) = n
  <2>1. /\ Range(SubSeq(m, 1, n)) = {m[i] : i \in 1 .. n}
        /\ IsFiniteSet(Range(SubSeq(m, 1, n))) /\ Cardinality(Range(SubSeq(m, 1, n))) = n
    BY <1>3, CountedFirst
  <2>2. \A i \in 1 .. n : i \in 1 .. Len(m)
    BY <1>3
  <2>3. \A i \in 1 .. n : m[i] \notin T
    BY <1>3, <2>2
  <2> QED BY <2>1, <2>3
<1> QED BY <1>3, <1>4 DEF m, T

\* SolvePageFault takes what it adds, however much it gets.
LEMMA FaultInPaid ==
    ASSUME NEW S, Fits(S), NEW v, v \notin S.page
    PROVE  /\ Paid(S, FaultIn(S, v), 0)
           /\ S.free = 0 => v \notin FaultIn(S, v).page
<1> DEFINE n == Len(Missing(S, v))
           got == Less(S.free, n)
           made == Range(SubSeq(Missing(S, v), 1, got))
           t == S.tables \union made
           p == IF S.free > n THEN S.page \union {v} ELSE S.page
           f == Greater(S.free - n - 1, 0)
           F == FaultIn(S, v)
<1>1. F = [S EXCEPT !.tables = t, !.page = p, !.free = f]
  BY DEF FaultIn
<1>2. n \in Nat /\ S.free \in Nat /\ got \in 0 .. n /\ got = IF S.free < n THEN S.free ELSE n
  <2>1. n \in Nat /\ S.free \in Nat
    BY TablesMade DEF Fits
  <2> HIDE DEF n
  <2> QED BY <2>1 DEF Less
<1>3. /\ made \intersect S.tables = {}
      /\ IsFiniteSet(made) /\ Cardinality(made) = got
  <2> HIDE DEF got
  <2> QED BY <1>2, TablesMade
<1> HIDE DEF made
<1>4. /\ IsFiniteSet(t)
      /\ Cardinality(t) = Cardinality(S.tables) + got
  <2>1. /\ IsFiniteSet(t)
        /\ Cardinality(t) = Cardinality(S.tables) + Cardinality(made)
                                - Cardinality(S.tables \intersect made)
    BY <1>3, FS_Union DEF Fits
  <2>2. Cardinality(S.tables \intersect made) = 0
    BY <1>3, FS_EmptySet
  <2>3. Cardinality(S.tables) \in Nat
    BY FitsTotal
  <2> DEFINE c == Cardinality(t)
             a == Cardinality(S.tables)
             b == Cardinality(made)
             d == Cardinality(S.tables \intersect made)
  <2>4. c = a + b - d /\ d = 0 /\ a \in Nat /\ b = got /\ got \in Nat
    BY <1>2, <1>3, <2>1, <2>2, <2>3
  <2> HIDE DEF a, b, c, d, got
  <2>5. c = a + got
    BY <2>4
  <2> QED BY <1>3, <2>1, <2>5 DEF a, c, Fits
<1>5. /\ IsFiniteSet(p)
      /\ Cardinality(p) = Cardinality(S.page) + (IF S.free > n THEN 1 ELSE 0)
  <2>1. /\ IsFiniteSet(S.page \union {v})
        /\ Cardinality(S.page \union {v}) = Cardinality(S.page) + 1
    BY FS_AddElement DEF Fits
  <2>2. Cardinality(S.page) \in Nat
    BY FitsTotal
  <2> HIDE DEF n
  <2> QED BY <2>1, <2>2 DEF Fits
<1>6. f \in Nat /\ f = IF S.free > n THEN S.free - n - 1 ELSE 0
  <2> HIDE DEF n
  <2> QED BY <1>2 DEF Greater
<1>7. S.free = 0 => v \notin p
  BY <1>2
<1> HIDE DEF n, got, t, p, f, F
<1>8. F.tables = t /\ F.page = p /\ F.free = f /\ F.fault = S.fault
  BY <1>1 DEF Fits, Shape
<1>9. Fits(F)
  <2>1. Shape(F)
    BY <1>1 DEF Fits, Shape
  <2> QED BY <1>4, <1>5, <1>6, <1>8, <2>1 DEF Fits
<1>10. Total(F) + 0 = Total(S)
  <2>1. Cardinality(S.tables) \in Nat /\ Cardinality(S.page) \in Nat
    BY FitsTotal
  <2>2. CASE S.free > n
    <3>1. got = n /\ f = S.free - n - 1 /\ Cardinality(p) = Cardinality(S.page) + 1
      BY <1>2, <1>5, <1>6, <2>2
    <3> QED BY <1>2, <1>4, <1>8, <2>1, <3>1 DEF Total
  <2>3. CASE ~(S.free > n)
    <3>1. got = S.free /\ f = 0 /\ Cardinality(p) = Cardinality(S.page)
      BY <1>2, <1>5, <1>6, <2>1, <2>3
    <3> QED BY <1>2, <1>4, <1>8, <2>1, <3>1 DEF Total
  <2> QED BY <2>2, <2>3
<1> QED BY <1>7, <1>8, <1>9, <1>10 DEF Paid, F

-----------------------------------------------------------------------------
(* What the operations on a space take.                                    *)

\* The pages of S and T are the same.
Same(S, T) ==
    /\ Shape(T)
    /\ T.tables = S.tables /\ T.page = S.page /\ T.free = S.free
    /\ T.fault = "none" => S.fault = "none"

LEMMA SamePaid ==
    ASSUME NEW S, Fits(S), NEW T, Same(S, T)
    PROVE  Paid(S, T, 0)
<1>1. Fits(T) /\ Total(T) = Total(S)
  BY DEF Same, Fits, Total
<1> QED BY <1>1, FitsTotal DEF Paid, Same

LEMMA PaidOnce ==
    ASSUME NEW S, NEW T, NEW U, NEW n \in Int, Fits(S), Paid(S, T, n), Paid(T, U, 0)
    PROVE  Paid(S, U, n)
<1>1. Total(S) \in Nat /\ Total(T) \in Nat /\ Total(U) \in Nat
  BY FitsTotal DEF Paid
<1> QED BY <1>1 DEF Paid

LEMMA LookedSame ==
    ASSUME NEW S, Shape(S), NEW v
    PROVE  Same(S, Looked(S, v))
<1>1. Looked(S, v) = S \/ Looked(S, v) = [S EXCEPT !.cache = Find(S, v)]
  BY DEF Looked
<1> DEFINE f == Find(S, v)
<1>2. Looked(S, v) = S \/ Looked(S, v) = [S EXCEPT !.cache = f]
  BY <1>1
<1> HIDE DEF f
<1> QED BY <1>2 DEF Shape, Same

LEMMA StoppedSame ==
    ASSUME NEW S, Shape(S), NEW why, why # "none"
    PROVE  Same(S, [S EXCEPT !.fault = why])
  BY DEF Shape, Same

LEMMA InsertSame ==
    ASSUME NEW S, Shape(S), NEW r
    PROVE  Same(S, Insert(S, r))
<1> DEFINE k == Behind(S.list, r)
           T == [S EXCEPT !.cache = r.start]
<1>1. \/ Insert(S, r) = [T EXCEPT !.list = Append(@, r)]
      \/ Insert(S, r) = [T EXCEPT !.list = InsertAt(@, k, r)]
      \/ Insert(S, r) = [S EXCEPT !.fault = "overlap"]
  BY SMTT(30) DEF Insert, Behind
<1>2. T = [list |-> S.list, cache |-> r.start, heap |-> S.heap, page |-> S.page,
           tables |-> S.tables, free |-> S.free, fault |-> S.fault]
  BY DEF Shape
<1> HIDE DEF T, k
<1>3. \A l : Same(S, [T EXCEPT !.list = l])
  BY <1>2 DEF Same, Shape
<1>4. \/ \E l : Insert(S, r) = [T EXCEPT !.list = l]
      \/ Insert(S, r) = [S EXCEPT !.fault = "overlap"]
  BY <1>1
<1> QED BY <1>3, <1>4, StoppedSame

LEMMA WrittenPaid ==
    ASSUME NEW S, Fits(S), NEW v
    PROVE  /\ Paid(S, Written(S, v), 0)
           /\ v \notin S.page /\ S.free = 0 => Written(S, v).fault # "none"
<1> DEFINE L == Looked(S, v)
           F == FaultIn(L, v)
           T == IF v \in S.page THEN S ELSE F
<1>1. Same(S, L) /\ Fits(L)
  BY LookedSame, SamePaid DEF Fits, Paid
<1>2. v \notin S.page => /\ Paid(L, F, 0)
                         /\ L.free = 0 => v \notin F.page
  <2> HIDE DEF L
  <2> QED BY <1>1, FaultInPaid DEF Same
<1>3. Written(S, v) = IF v \in T.page THEN T ELSE [T EXCEPT !.fault = "memory"]
  BY DEF Written
<1> HIDE DEF L, F
<1>4. Paid(S, T, 0) /\ (v \notin S.page /\ S.free = 0 => v \notin T.page)
  <2>1. CASE v \in S.page
    BY <2>1, SamePaid DEF Same, Fits
  <2>2. CASE v \notin S.page
    <3>1. Paid(S, F, 0)
      BY <1>1, <1>2, <2>2, SamePaid, PaidOnce
    <3> QED BY <1>1, <1>2, <2>2, <3>1 DEF Same
  <2> QED BY <2>1, <2>2
<1> HIDE DEF T
<1>5. CASE v \in T.page
  BY <1>3, <1>4, <1>5
<1>6. CASE v \notin T.page
  <2>1. Written(S, v) = [T EXCEPT !.fault = "memory"]
    BY <1>3, <1>6
  <2>2. Same(T, Written(S, v))
    BY <1>4, <2>1, StoppedSame DEF Paid, Fits
  <2>3. Paid(S, Written(S, v), 0)
    BY <1>4, <2>2, SamePaid, PaidOnce DEF Paid
  <2>4. Written(S, v).fault = "memory"
    BY <1>4, <2>1 DEF Paid, Fits, Shape
  <2> QED BY <2>3, <2>4
<1> QED BY <1>5, <1>6

-----------------------------------------------------------------------------
(* The sums over all spaces.                                               *)

\* What the spaces but s have.
Others(held, s) == UNION {{t} \X held[t] : t \in Processes \ {s}}

LEMMA OthersFinite ==
    ASSUME NEW f, \A t \in Processes : IsFiniteSet(f[t]), NEW s
    PROVE  IsFiniteSet(Others(f, s))
<1> DEFINE P == Processes \ {s}
           g == [t \in P |-> {t} \X f[t]]
           all == {{t} \X f[t] : t \in P}
<1>1. IsFiniteSet(P)
  BY VMAssumption, FS_Subset
<1>2. IsFiniteSet(all)
  <2>1. g \in Surjection(P, all)
    BY DEF Surjection
  <2> HIDE DEF g, P, all
  <2> QED BY <1>1, <2>1, FS_Surjection
<1>3. \A T \in all : IsFiniteSet(T)
  <2>1. ASSUME NEW t \in P
        PROVE  IsFiniteSet({t} \X f[t])
    BY FS_Singleton, FS_Product
  <2> QED BY <2>1
<1>4. IsFiniteSet(UNION all)
  <2> HIDE DEF all
  <2> QED BY <1>2, <1>3, FS_UNION
<1> QED BY <1>4 DEF Others

\* All have what s has and what the others have.
LEMMA OfAllParts ==
    ASSUME NEW f, \A t \in Processes : IsFiniteSet(f[t]), NEW s \in Processes
    PROVE  /\ IsFiniteSet(OfAll(f))
           /\ Cardinality(OfAll(f)) = Cardinality(Others(f, s)) + Cardinality(f[s])
           /\ Cardinality(Others(f, s)) \in Nat /\ Cardinality(f[s]) \in Nat
<1> DEFINE own == {s} \X f[s]
<1>1. OfAll(f) = Others(f, s) \union own
  BY DEF OfAll, Others
<1>2. Others(f, s) \intersect own = {}
  BY DEF Others
<1>3. IsFiniteSet(Others(f, s))
  BY OthersFinite
<1>4. IsFiniteSet(own) /\ Cardinality(own) = Cardinality(f[s]) /\ Cardinality(f[s]) \in Nat
  <2>1. /\ IsFiniteSet({s}) /\ Cardinality({s}) = 1
        /\ IsFiniteSet(f[s]) /\ Cardinality(f[s]) \in Nat
    BY FS_Singleton, FS_CardinalityType
  <2>2. IsFiniteSet(own) /\ Cardinality(own) = Cardinality({s}) * Cardinality(f[s])
    BY <2>1, FS_Product
  <2>3. Cardinality(own) = 1 * Cardinality(f[s])
    BY <2>1, <2>2
  <2> HIDE DEF own
  <2> QED BY <2>1, <2>2, <2>3
<1> HIDE DEF own
<1>5. Cardinality(Others(f, s) \intersect own) = 0
  BY <1>2, FS_EmptySet
<1>6. /\ IsFiniteSet(OfAll(f))
      /\ Cardinality(OfAll(f)) = Cardinality(Others(f, s)) + Cardinality(own)
                                   - Cardinality(Others(f, s) \intersect own)
  BY <1>1, <1>3, <1>4, FS_Union
<1>7. Cardinality(Others(f, s)) \in Nat
  BY <1>3, FS_CardinalityType
<1> QED BY <1>4, <1>5, <1>6, <1>7

\* One space changes.
LEMMA OfAllChanged ==
    ASSUME NEW f, \A t \in Processes : IsFiniteSet(f[t]), NEW s \in Processes,
           NEW g, IsFiniteSet(g[s]), \A t \in Processes \ {s} : g[t] = f[t]
    PROVE  /\ Cardinality(OfAll(g)) = Cardinality(OfAll(f)) - Cardinality(f[s]) + Cardinality(g[s])
           /\ Cardinality(OfAll(f)) \in Nat /\ Cardinality(OfAll(g)) \in Nat
<1>1. \A t \in Processes : IsFiniteSet(g[t])
  OBVIOUS
<1>2. Others(g, s) = Others(f, s)
  BY DEF Others
<1>3. /\ Cardinality(OfAll(g)) = Cardinality(Others(g, s)) + Cardinality(g[s])
      /\ Cardinality(g[s]) \in Nat
  BY <1>1, OfAllParts
<1>4. /\ Cardinality(OfAll(f)) = Cardinality(Others(f, s)) + Cardinality(f[s])
      /\ Cardinality(Others(f, s)) \in Nat /\ Cardinality(f[s]) \in Nat
  BY OfAllParts
<1> QED BY <1>1, <1>2, <1>3, <1>4

-----------------------------------------------------------------------------
(* The invariant: what can be counted adds up, and a space that does not   *)
(* exist has nothing.                                                      *)

FramesInv ==
    /\ DOMAIN page = Processes /\ DOMAIN tables = Processes
    /\ \A s \in Processes : IsFiniteSet(page[s]) /\ IsFiniteSet(tables[s])
    /\ \A s \in Processes \ spaces : page[s] = {} /\ tables[s] = {}
    /\ free \in Nat
    /\ FramesAccounted

LEMMA SpaceFits ==
    ASSUME FramesInv, NEW s \in Processes
    PROVE  Fits(Space(s))
  BY DEF FramesInv, Fits, Shape, Space

\* A space that changes, with its PDT, as its pages do.
LEMMA BecomePaid ==
    ASSUME FramesInv, IsFiniteSet(spaces), IsFiniteSet(spaces'), NEW s \in Processes, NEW T, NEW n \in Int,
           Become(s, T), Paid(Space(s), T, n),
           Cardinality(spaces') = Cardinality(spaces) + n,
           spaces \ {s} \subseteq spaces', s \in spaces' \/ (T.page = {} /\ T.tables = {})
    PROVE  FramesInv'
<1>1. /\ page' = [page EXCEPT ![s] = T.page]
      /\ tables' = [tables EXCEPT ![s] = T.tables]
      /\ free' = T.free /\ fault' = T.fault
  BY DEF Become
<1>2. /\ Space(s).tables = tables[s] /\ Space(s).page = page[s]
      /\ Space(s).free = free /\ Space(s).fault = fault
  BY DEF Space
<1>3. /\ DOMAIN page = Processes /\ DOMAIN tables = Processes
      /\ \A t \in Processes : IsFiniteSet(page[t]) /\ IsFiniteSet(tables[t])
      /\ DOMAIN page = Processes /\ DOMAIN tables = Processes
  BY DEF FramesInv
<1>4. IsFiniteSet(T.tables) /\ IsFiniteSet(T.page) /\ T.free \in Nat
  BY DEF Paid, Fits
<1>5. /\ DOMAIN page' = Processes /\ DOMAIN tables' = Processes
      /\ \A t \in Processes : IsFiniteSet(page'[t]) /\ IsFiniteSet(tables'[t])
      /\ \A t \in Processes \ spaces' : page'[t] = {} /\ tables'[t] = {}
      /\ free' \in Nat
  BY <1>1, <1>3, <1>4 DEF FramesInv
<1>6. /\ Cardinality(OfAll(page')) = Cardinality(OfAll(page)) - Cardinality(page[s])
                                       + Cardinality(T.page)
      /\ Cardinality(OfAll(page)) \in Nat /\ Cardinality(OfAll(page')) \in Nat
  <2>1. PICK f, g : f = page /\ g = page'
    OBVIOUS
  <2>2. /\ \A t \in Processes : IsFiniteSet(f[t])
        /\ IsFiniteSet(g[s]) /\ \A t \in Processes \ {s} : g[t] = f[t]
    BY <1>1, <1>3, <1>4, <2>1
  <2>3. /\ Cardinality(OfAll(g)) = Cardinality(OfAll(f)) - Cardinality(f[s]) + Cardinality(g[s])
        /\ Cardinality(OfAll(f)) \in Nat /\ Cardinality(OfAll(g)) \in Nat
    BY <2>2, OfAllChanged
  <2> QED BY <1>1, <1>3, <2>1, <2>3
<1>7. /\ Cardinality(OfAll(tables')) = Cardinality(OfAll(tables)) - Cardinality(tables[s])
                                         + Cardinality(T.tables)
      /\ Cardinality(OfAll(tables)) \in Nat /\ Cardinality(OfAll(tables')) \in Nat
  <2>1. PICK f, g : f = tables /\ g = tables'
    OBVIOUS
  <2>2. /\ \A t \in Processes : IsFiniteSet(f[t])
        /\ IsFiniteSet(g[s]) /\ \A t \in Processes \ {s} : g[t] = f[t]
    BY <1>1, <1>3, <1>4, <2>1
  <2>3. /\ Cardinality(OfAll(g)) = Cardinality(OfAll(f)) - Cardinality(f[s]) + Cardinality(g[s])
        /\ Cardinality(OfAll(f)) \in Nat /\ Cardinality(OfAll(g)) \in Nat
    BY <2>2, OfAllChanged
  <2> QED BY <1>1, <1>3, <2>1, <2>3
<1>8. /\ Cardinality(spaces) \in Nat /\ free \in Nat
      /\ Cardinality(page[s]) \in Nat /\ Cardinality(tables[s]) \in Nat
      /\ Cardinality(T.page) \in Nat /\ Cardinality(T.tables) \in Nat
  BY <1>3, <1>4, FS_CardinalityType DEF FramesInv
<1>9. CASE T.fault = "none"
  <2>1. fault = "none" /\ Total(T) + n = Total(Space(s))
    BY <1>2, <1>9 DEF Paid
  <2>2. T.free + Cardinality(T.tables) + Cardinality(T.page) + n =
            free + Cardinality(tables[s]) + Cardinality(page[s])
    BY <1>2, <2>1 DEF Total
  <2>3. free + Cardinality(spaces) + Cardinality(OfAll(tables)) + Cardinality(OfAll(page)) = Frames
    BY <2>1 DEF FramesInv, FramesAccounted
  <2>4. free' + Cardinality(spaces') + Cardinality(OfAll(tables')) + Cardinality(OfAll(page')) = Frames
    BY <1>1, <1>4, <1>6, <1>7, <1>8, <2>2, <2>3
  <2> QED BY <1>5, <2>4 DEF FramesInv, FramesAccounted, OfAll
<1>10. CASE T.fault # "none"
  BY <1>1, <1>5, <1>10 DEF FramesInv, FramesAccounted
<1> QED BY <1>9, <1>10

\* The usual case: the spaces stay the same.
LEMMA StepPaid ==
    ASSUME FramesInv, UsersInv, NEW s \in Processes, s \in spaces, spaces' = spaces,
           NEW T, Become(s, T), Paid(Space(s), T, 0)
    PROVE  FramesInv'
<1>1. IsFiniteSet(spaces) /\ Cardinality(spaces) \in Nat
  BY VMAssumption, FS_Subset, FS_CardinalityType DEF UsersInv
<1> QED BY <1>1, BecomePaid

\* A space that is new, with its PDT.
LEMMA NewPaid ==
    ASSUME FramesInv, UsersInv, NEW s \in Processes \ spaces, spaces' = spaces \union {s},
           NEW T, Become(s, T), Paid(Space(s), T, 1)
    PROVE  FramesInv'
<1>1. IsFiniteSet(spaces) /\ Cardinality(spaces) \in Nat
  BY VMAssumption, FS_Subset, FS_CardinalityType DEF UsersInv
<1>2. IsFiniteSet(spaces') /\ Cardinality(spaces') = Cardinality(spaces) + 1
  BY <1>1, FS_AddElement
<1>3. spaces \ {s} \subseteq spaces' /\ s \in spaces' /\ 1 \in Int
  OBVIOUS
<1> QED BY <1>1, <1>2, <1>3, BecomePaid

LEMMA FramesKept ==
    ASSUME FramesInv, UNCHANGED <<page, tables, spaces, free>>, fault' = fault \/ fault' # "none"
    PROVE  FramesInv'
  BY DEF FramesInv, FramesAccounted, OfAll

LEMMA InitFrames == Init => FramesInv
<1> SUFFICES ASSUME Init
             PROVE  FramesInv
  OBVIOUS
<1>1. OfAll(tables) = {} /\ OfAll(page) = {}
  BY DEF Init, OfAll
<1>2. free = Frames /\ Frames \in Nat /\ spaces = {}
  BY VMAssumption DEF Init
<1>3. FramesAccounted
  BY <1>1, <1>2, FS_EmptySet DEF FramesAccounted
<1> QED BY <1>2, <1>3, FS_EmptySet DEF Init, FramesInv

-----------------------------------------------------------------------------
(* The steps.                                                              *)

LEMMA PaidInsert ==
    ASSUME NEW S, NEW T, NEW n \in Int, Fits(S), Paid(S, T, n), NEW r
    PROVE  Paid(S, Insert(T, r), n)
<1>1. Paid(T, Insert(T, r), 0)
  BY InsertSame, SamePaid DEF Paid, Fits
<1> QED BY <1>1, PaidOnce

LEMMA PaidWritten ==
    ASSUME NEW S, NEW T, NEW n \in Int, Fits(S), Paid(S, T, n), NEW v
    PROVE  Paid(S, Written(T, v), n)
<1>1. Paid(T, Written(T, v), 0)
  BY WrittenPaid DEF Paid
<1> QED BY <1>1, PaidOnce

\* execve: a PDT, which it lacks when there are no pages, and what is written.
LEMMA StartPaid ==
    ASSUME FramesInv, UsersInv, SpaceInv, NEW p \in Processes, NEW s \in Processes, Start(p, s)
    PROVE  FramesInv'
<1> DEFINE S0 == Space(s)
           f == Greater(S0.free - 1, 0)
           S1 == [S0 EXCEPT !.free = f]
           C == Insert(S1, Region("kernel", Kernel, Kernel + 1))
           B0 == Insert(C, Region("plain", Bin, Bin + 1))
           B == Written(B0, Bin)
           T == Insert(B, Region("plain", Stack, Stack + 1))
           H0 == Insert(T, Region("heap", Bin + 1, Bin + 2))
           H == [H0 EXCEPT !.heap = 1]
           u == Usable(H, MapHint, MapEnd, 1)
           P == Insert(H, Region("plain", u, u + 1))
           W == Written(P, Stack)
           X == Written(W, u)
<1>0. 0 \in Int /\ 1 \in Int
  OBVIOUS
<1>1. Fits(S0) /\ S0.page = {} /\ s \notin spaces
  BY SpaceFits DEF Start, FramesInv, Space
<1>2. Become(s, X) /\ spaces' = spaces \union {s}
  BY DEF Start, Create
<1> HIDE DEF S0
<1>3. /\ Fits(S1) /\ S1.page = {} /\ S1.fault = S0.fault
      /\ S1.tables = S0.tables /\ S1.page = S0.page /\ S1.free = f
      /\ f = IF S0.free = 0 THEN 0 ELSE S0.free - 1
  <2>1. f \in Nat /\ f = IF S0.free = 0 THEN 0 ELSE S0.free - 1
    BY <1>1 DEF Greater, Fits
  <2> HIDE DEF f
  <2> QED BY SMTT(30), <1>1, <2>1 DEF Fits, Shape
<1>4. S0.free # 0 => Paid(S0, S1, 1)
  <2>1. Total(S0) \in Nat
    BY <1>1, FitsTotal
  <2> HIDE DEF S1, f
  <2>2. Cardinality(S0.tables) \in Nat /\ Cardinality(S0.page) \in Nat /\ S0.free \in Nat
    BY <1>1, FitsTotal DEF Fits
  <2>3. S0.free # 0 => Total(S1) + 1 = Total(S0)
    BY <1>3, <2>2 DEF Total
  <2> QED BY <1>3, <2>3 DEF Paid
<1> HIDE DEF S1, f
<1>5. Same(S1, C) /\ Paid(S1, C, 0)
  BY <1>3, InsertSame, SamePaid DEF Fits
<1> HIDE DEF C
<1>6. Paid(S1, B0, 0) /\ B0.page = {} /\ B0.free = S1.free
  <2>1. Same(C, B0) /\ Fits(C)
    BY <1>5, InsertSame DEF Same, Paid
  <2> QED BY <1>3, <1>5, <2>1, SamePaid, PaidOnce DEF Same
<1> HIDE DEF B0
<1>7. /\ Paid(S1, B, 0)
      /\ S1.free = 0 => B.fault # "none"
  <2>1. Paid(S1, B, 0)
    BY <1>0, <1>3, <1>6, PaidWritten
  <2>2. Fits(B0) /\ Bin \notin B0.page
    BY <1>6 DEF Paid
  <2>3. B0.free = 0 => B.fault # "none"
    BY <2>2, WrittenPaid
  <2> QED BY <1>6, <2>1, <2>3
<1> HIDE DEF B
<1>8. Paid(S0, B, 1)
  <2>1. CASE S0.free = 0
    <3>1. B.fault # "none"
      BY <1>3, <1>7, <2>1
    <3> QED BY <1>7, <3>1 DEF Paid
  <2>2. CASE S0.free # 0
    BY <1>0, <1>1, <1>4, <1>7, <2>2, PaidOnce
  <2> QED BY <2>1, <2>2
<1>9. Paid(S0, H0, 1)
  <2>1. Paid(S0, T, 1)
    BY <1>0, <1>1, <1>8, PaidInsert
  <2> HIDE DEF T
  <2> QED BY <1>0, <1>1, <2>1, PaidInsert
<1> HIDE DEF H0
<1>10. Paid(S0, H, 1)
  <2>1. Same(H0, H) /\ Fits(H0)
    BY <1>9 DEF Same, Paid, Fits, Shape
  <2> HIDE DEF H
  <2> QED BY <1>0, <1>1, <1>9, <2>1, SamePaid, PaidOnce
<1> HIDE DEF H, u
<1>11. Paid(S0, W, 1)
  <2>1. Paid(S0, P, 1)
    BY <1>0, <1>1, <1>10, PaidInsert
  <2> HIDE DEF P
  <2> QED BY <1>0, <1>1, <2>1, PaidWritten
<1> HIDE DEF W
<1>12. Paid(S0, X, 1)
  BY <1>0, <1>1, <1>11, PaidWritten
<1> HIDE DEF X
<1> QED BY <1>1, <1>2, <1>12, NewPaid DEF S0

\* A fork that has the pages it needs, or stops.
LEMMA ForkPaid ==
    ASSUME FramesInv, UsersInv, NEW s \in Processes, NEW q \in Processes, NEW t \in Processes,
           Fork(s, q, t)
    PROVE  FramesInv'
<1> DEFINE S == Space(s)
           S0 == Space(t)
           m == [i \in DOMAIN S.list |-> Inherited(S.list[i])]
           c == Copied(S)
           d == CopiedTables(S)
           need == 1 + Cardinality(d) + Cardinality(c)
           f == S.free - need
           C == [S EXCEPT !.list = m, !.cache = Kernel, !.heap = None,
                          !.page = c, !.tables = d, !.free = f]
<1>1. \/ UNCHANGED <<page, tables, spaces, free>> /\ fault' # "none"
      \/ ~(need > free) /\ Become(t, C) /\ spaces' = spaces \union {t}
  BY DEF Fork, memory
<1>2. /\ Fits(S) /\ Fits(S0) /\ S.free = free /\ S0.free = free
      /\ S.fault = fault /\ S0.fault = fault /\ t \notin spaces
      /\ S0.tables = {} /\ S0.page = {}
  BY SpaceFits DEF Fork, FramesInv, Space
<1>3. c \subseteq S.page /\ d \subseteq S.tables
  BY DEF Copied, CopiedTables
<1> HIDE DEF S, S0, m, c, d
<1>4. /\ IsFiniteSet(c) /\ IsFiniteSet(d)
      /\ Cardinality(c) \in Nat /\ Cardinality(d) \in Nat
  BY <1>2, <1>3, FS_Subset, FS_CardinalityType DEF Fits
<1>5. CASE ~(need > free) /\ Become(t, C) /\ spaces' = spaces \union {t}
  <2>1. f \in Nat
    BY <1>2, <1>4, <1>5 DEF Fits
  <2>2. f = free - (1 + Cardinality(d) + Cardinality(c)) /\ free \in Nat
    BY <1>2 DEF Fits
  <2> HIDE DEF f
  <2>3. /\ C.page = c /\ C.tables = d /\ C.free = f /\ C.fault = fault /\ Shape(C)
    <3>1. C = [list |-> m, cache |-> Kernel, heap |-> None, page |-> c,
               tables |-> d, free |-> f, fault |-> fault]
      <4>1. C = [S EXCEPT !.list = m, !.cache = Kernel, !.heap = None,
                          !.page = c, !.tables = d, !.free = f]
        OBVIOUS
      <4> HIDE DEF C
      <4> QED BY <1>2, <4>1 DEF Fits, Shape
    <3> HIDE DEF C
    <3> QED BY <3>1 DEF Shape
  <2> HIDE DEF C
  <2>4. Fits(C)
    BY <1>4, <2>1, <2>3 DEF Fits
  <2>5. Total(C) + 1 = Total(S0)
    <3>1. Total(C) = f + Cardinality(d) + Cardinality(c)
      BY <2>3 DEF Total
    <3>2. Total(S0) = free + 0 + 0
      BY <1>2, FS_EmptySet DEF Total
    <3> QED BY <1>4, <2>1, <2>2, <3>1, <3>2
  <2>6. Paid(S0, C, 1)
    BY <1>2, <2>3, <2>4, <2>5 DEF Paid
  <2> QED BY <1>2, <1>5, <2>6, NewPaid DEF S0
<1> QED BY <1>1, <1>5, FramesKept

\* The last process of a space gives back all the space has.
LEMMA DestroyPaid ==
    ASSUME FramesInv, UsersInv, SpaceInv, NEW p \in Processes, Destroy(p)
    PROVE  FramesInv'
<1>0. PICK s \in Processes : s = VMS[p]
  BY DEF Destroy, UsersInv
<1> DEFINE S == Space(s)
           h == Held(S)
           f == NoSpace.free + Released(S)
           T == [NoSpace EXCEPT !.free = f]
<1>1. \/ UNCHANGED <<page, tables, spaces, free, fault>>
      \/ Become(s, T) /\ spaces' = spaces \ {s}
  BY <1>0 DEF Destroy, memory
<1>2. s \in spaces /\ regions[s] # <<>>
  <2>1. s \in spaces
    BY <1>0 DEF UsersInv, Users
  <2>2. Kernel \in Starts(regions[s])
    BY <2>1 DEF SpaceInv, KernelMapped
  <2> QED BY <2>1, <2>2 DEF Starts
<1>3. /\ Fits(S) /\ S.free = free /\ S.fault = fault
      /\ f = free + (1 + Cardinality(S.tables) + Cardinality(S.page))
      /\ Cardinality(S.tables) \in Nat /\ Cardinality(S.page) \in Nat
  <2>1. Fits(S) /\ S.list = regions[s] /\ S.free = free /\ S.fault = fault /\ NoSpace.free = free
    BY SpaceFits DEF Space, NoSpace
  <2> HIDE DEF S
  <2> QED BY <1>2, <2>1, FitsTotal DEF Released, Held
<1>4. /\ T.page = {} /\ T.tables = {} /\ T.free = f /\ T.fault = fault /\ Shape(T)
  <2> HIDE DEF f
  <2> QED BY DEF NoSpace, Shape
<1> HIDE DEF S, T, f
<1>5. Fits(T) /\ Total(T) = f + 0 + 0
  BY <1>3, <1>4, FS_EmptySet DEF Fits, Total
<1>6. Paid(S, T, 0 - 1)
  <2>1. Total(T) + (0 - 1) = Total(S)
    BY <1>3, <1>5 DEF Total, Fits
  <2> QED BY <1>3, <1>4, <1>5, <2>1 DEF Paid
<1>7. CASE Become(s, T) /\ spaces' = spaces \ {s}
  <2>1. IsFiniteSet(spaces) /\ Cardinality(spaces) \in Nat
    BY VMAssumption, FS_Subset, FS_CardinalityType DEF UsersInv
  <2>2. IsFiniteSet(spaces') /\ Cardinality(spaces') = Cardinality(spaces) + (0 - 1)
    BY <1>2, <1>7, <2>1, FS_RemoveElement
  <2>3. 0 - 1 \in Int /\ spaces \ {s} \subseteq spaces'
    BY <1>7
  <2> QED BY <1>4, <1>6, <1>7, <2>1, <2>2, <2>3, BecomePaid DEF S
<1> QED BY <1>1, <1>7, FramesKept

\* What is not about pages.
Listed(S, l, c) == [S EXCEPT !.list = l, !.cache = c]
HeapOf(S, h) == [S EXCEPT !.heap = h]

LEMMA EditSame ==
    ASSUME NEW S, Shape(S), NEW l, NEW c, NEW k
    PROVE  /\ Same(S, Listed(S, l, c))
           /\ Same(S, HeapOf(S, c))
           /\ Same(S, Resized(S, c, k, l))
<1>1. ASSUME NEW T, T = [S EXCEPT !.list = l, !.cache = c]
      PROVE  Same(S, T)
  BY <1>1 DEF Shape, Same
<1>2. ASSUME NEW T, T = [S EXCEPT !.heap = c]
      PROVE  Same(S, T)
  BY <1>2 DEF Shape, Same
<1>3. ASSUME NEW T, T = [S EXCEPT !.heap = c, !.list[k].end = l]
      PROVE  Same(S, T)
  BY <1>3 DEF Shape, Same
<1> QED BY <1>1, <1>2, <1>3 DEF Listed, HeapOf, Resized

\* Resize moves ends, or the length of the heap alone.
LEMMA ResizeSame ==
    ASSUME NEW S, Shape(S), NEW to
    PROVE  Same(S, Resize(S, to))
<1> DEFINE k == SelectInSeq(S.list, LAMBDA r : r.kind = "heap")
           len == to - S.list[k].start
           h == Greater(len, 0)
<1>1. \/ Resize(S, to) = HeapOf(S, len)
      \/ Resize(S, to) = Resized(S, h, k, to)
      \/ Resize(S, to) = Resized(S, h, k, S.list[k].start + 1)
  BY DEF Resize, HeapOf, Resized
<1> HIDE DEF k, len, h
<1> QED BY <1>1, EditSame

LEMMA BrkPaid ==
    ASSUME FramesInv, UsersInv, NEW p \in Processes, NEW to, Brk(p, to)
    PROVE  FramesInv'
<1>0. PICK s \in Processes : s = VMS[p] /\ s \in spaces
  BY RunsInSpace DEF Brk
<1> DEFINE S == Space(s)
           R == Resize(S, to)
           F == [S EXCEPT !.fault = "freed"]
<1>1. (Become(s, R) \/ Become(s, F)) /\ spaces' = spaces
  BY <1>0 DEF Brk
<1>2. Fits(S)
  BY SpaceFits
<1> HIDE DEF S
<1>3. Paid(S, R, 0) /\ Paid(S, F, 0)
  BY <1>2, ResizeSame, StoppedSame, SamePaid DEF Fits
<1> HIDE DEF R, F
<1> QED BY <1>0, <1>1, <1>3, StepPaid DEF S

LEMMA MmapPlainPaid ==
    ASSUME FramesInv, UsersInv, NEW s \in Processes, NEW hint, NEW len, MmapPlain(s, hint, len)
    PROVE  FramesInv'
<1> DEFINE S == Space(s)
           u == Place(S, hint, len)
           r == Region("plain", u, u + len)
           I == Insert(S, r)
<1>1. Become(s, I) /\ spaces' = spaces /\ s \in spaces
  BY LiveExists DEF MmapPlain
<1>2. Fits(S)
  BY SpaceFits
<1> HIDE DEF S, r
<1>3. Paid(S, I, 0)
  BY <1>2, InsertSame, SamePaid DEF Fits
<1> HIDE DEF I
<1> QED BY <1>1, <1>3, StepPaid DEF S

LEMMA MmapFilePaid ==
    ASSUME FramesInv, UsersInv, NEW s \in Processes, NEW hint, MmapFile(s, hint)
    PROVE  FramesInv'
<1> DEFINE S == Space(s)
           u == Place(S, hint, 1)
           r == Region("file", u, u + 1)
           I == Insert(S, r)
           W == Written(I, u)
           F == [S EXCEPT !.fault = "freed"]
<1>1. (Become(s, F) \/ Become(s, W)) /\ spaces' = spaces /\ s \in spaces
  BY LiveExists DEF MmapFile
<1>2. Fits(S)
  BY SpaceFits
<1> HIDE DEF S, r, u
<1>3. Paid(S, I, 0) /\ Paid(S, F, 0)
  BY <1>2, InsertSame, StoppedSame, SamePaid DEF Fits
<1> HIDE DEF I
<1>4. Paid(S, W, 0)
  BY <1>2, <1>3, PaidWritten
<1> HIDE DEF W, F
<1> QED BY <1>1, <1>3, <1>4, StepPaid DEF S

LEMMA MmapFixedPaid ==
    ASSUME FramesInv, UsersInv, NEW s \in Processes, NEW v, NEW len, MmapFixed(s, v, len)
    PROVE  FramesInv'
<1> DEFINE S0 == Space(s)
           S == Looked(S0, v)
           k == SelectInSeq(S.list, LAMBDA r : Within(v, r))
           cut == k # 0 /\ S.list[k].end <= v + len
           T == IF cut THEN [S EXCEPT !.list[k].end = v] ELSE S
           u == Place(T, v, len)
           q == Region("plain", u, u + len)
           I == Insert(T, q)
           F == [S EXCEPT !.fault = "cast"]
<1>1. /\ Become(s, F) \/ Become(s, T) \/ Become(s, I)
      /\ spaces' = spaces /\ s \in spaces
  BY LiveExists DEF MmapFixed
<1>2. Fits(S0)
  BY SpaceFits
<1> HIDE DEF S0
<1>3. Same(S0, S) /\ Paid(S0, S, 0)
  BY <1>2, LookedSame, SamePaid DEF Fits
<1> HIDE DEF S, k, q
<1>4. Same(S, T)
  BY <1>3 DEF Same, Shape
<1> HIDE DEF T
<1>5. Same(T, I) /\ Same(S, F)
  BY <1>3, <1>4, InsertSame, StoppedSame DEF Same
<1> HIDE DEF I, F
<1>6. Same(S0, T) /\ Same(S0, I) /\ Same(S0, F)
  BY <1>3, <1>4, <1>5 DEF Same
<1>7. Paid(S0, T, 0) /\ Paid(S0, I, 0) /\ Paid(S0, F, 0)
  BY <1>2, <1>6, SamePaid
<1> QED BY <1>1, <1>7, StepPaid DEF S0

\* munmap takes a region; what is under it stays in the tables.
LEMMA MunmapPaid ==
    ASSUME FramesInv, UsersInv, NEW s \in Processes, NEW v, Munmap(s, v)
    PROVE  FramesInv'
<1> DEFINE S0 == Space(s)
           S == Looked(S0, v)
           k == SelectInSeq(S.list, LAMBDA r : Within(v, r))
           R == Removed(S, k)
           N == [S EXCEPT !.fault = "null"]
           F == [S EXCEPT !.fault = "cast"]
<1>1. /\ Become(s, N) \/ Become(s, F) \/ Become(s, R)
      /\ spaces' = spaces /\ s \in spaces
  BY LiveExists DEF Munmap
<1>2. Fits(S0)
  BY SpaceFits
<1> HIDE DEF S0
<1>3. Same(S0, S) /\ Paid(S0, S, 0)
  BY <1>2, LookedSame, SamePaid DEF Fits
<1> HIDE DEF S, k
<1>4. Same(S, R)
  <2> DEFINE l == RemoveAt(S.list, k)
             c == IF S.cache = S.list[k].start THEN None ELSE S.cache
  <2>1. R = Listed(S, l, c)
    BY DEF Removed, Listed
  <2> HIDE DEF R, l, c
  <2> QED BY <1>3, <2>1, EditSame DEF Same
<1>5. Same(S, N) /\ Same(S, F)
  BY <1>3, StoppedSame DEF Same
<1> HIDE DEF R, N, F
<1>6. Same(S0, R) /\ Same(S0, N) /\ Same(S0, F)
  BY <1>3, <1>4, <1>5 DEF Same
<1>7. Paid(S0, R, 0) /\ Paid(S0, N, 0) /\ Paid(S0, F, 0)
  BY <1>2, <1>6, SamePaid
<1> QED BY <1>1, <1>7, StepPaid DEF S0

LEMMA TouchPaid ==
    ASSUME FramesInv, UsersInv, NEW p \in Processes, NEW v, Touch(p, v)
    PROVE  FramesInv'
<1>0. PICK s \in Processes : s = VMS[p] /\ s \in spaces
  BY RunsInSpace DEF Touch
<1> DEFINE S == Space(s)
           L == Looked(S, v)
           F == FaultIn(L, v)
<1>1. (Become(s, S) \/ Become(s, F)) /\ spaces' = spaces /\ v \notin page[s]
  BY <1>0 DEF Touch
<1>2. Fits(S) /\ v \notin S.page
  BY <1>1, SpaceFits DEF Space
<1> HIDE DEF S
<1>3. Same(S, L) /\ Paid(S, L, 0) /\ Paid(S, S, 0)
  <2>1. Same(S, L) /\ Same(S, S)
    BY <1>2, LookedSame DEF Fits, Same
  <2> HIDE DEF L
  <2> QED BY <1>2, <2>1, SamePaid
<1> HIDE DEF L
<1>4. Paid(L, F, 0)
  BY <1>2, <1>3, FaultInPaid DEF Same, Paid
<1> HIDE DEF F
<1>5. Paid(S, F, 0)
  BY <1>2, <1>3, <1>4, PaidOnce
<1> QED BY <1>0, <1>1, <1>3, <1>5, StepPaid DEF S

-----------------------------------------------------------------------------
LEMMA NextPaid ==
    ASSUME FramesInv, UsersInv, SpaceInv, [Next]_vars
    PROVE  FramesInv'
<1>1. ASSUME NEW s \in Processes, NEW p \in Processes,
             Start(p, s) \/ Thread(s, p) \/ \E t \in Processes : Fork(s, p, t)
      PROVE  FramesInv'
  <2>1. Thread(s, p) => UNCHANGED <<page, tables, spaces, free, fault>>
    BY DEF Thread, memory
  <2> QED BY <1>1, <2>1, StartPaid, FramesKept, ForkPaid
<1>2. ASSUME NEW p \in Processes,
             Exit(p) \/ Destroy(p) \/ \E v \in Pages : Touch(p, v) \/ Brk(p, v)
      PROVE  FramesInv'
  <2>1. Exit(p) => UNCHANGED <<page, tables, spaces, free, fault>>
    BY DEF Exit, memory
  <2> QED BY <1>2, <2>1, FramesKept, DestroyPaid, TouchPaid, BrkPaid
<1>3. ASSUME NEW s \in Processes, NEW v \in Pages,
             \/ Munmap(s, v) \/ MmapFile(s, v)
             \/ \E len \in 1 .. MaxLen : MmapPlain(s, v, len) \/ MmapFixed(s, v, len)
      PROVE  FramesInv'
  BY <1>3, MunmapPaid, MmapFilePaid, MmapPlainPaid, MmapFixedPaid
<1>4. CASE Next
  BY <1>1, <1>2, <1>3, <1>4 DEF Next
<1>5. CASE UNCHANGED vars
  BY <1>5, FramesKept DEF vars, memory
<1> QED BY <1>4, <1>5

\* Page faults that get only some of what they need, forks that are refused,
\* unmapped regions whose pages stay and the end of processes, in any order:
\* no physical page is lost and none is counted twice.
THEOREM PagesAddUp == ASSUME Careful PROVE Spec => []FramesAccounted
<1>1. FramesInv /\ UsersInv /\ SpaceInv /\ [Next]_vars => FramesInv'
  BY NextPaid
<1>2. FramesInv => FramesAccounted
  BY DEF FramesInv
<1> QED BY <1>1, <1>2, InitFrames, UsersInvariant, SpaceInvariant, PTL DEF Spec
=============================================================================
