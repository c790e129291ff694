---------------------------- MODULE ZoneProofs ----------------------------
(***************************************************************************)
(* Proofs about Zone, for any order of the root, any number of pages and   *)
(* any requests: the tree of nodes and its numbers, the flags that         *)
(* splitting and merging keep in shape, the lists, the count, the actions, *)
(* and last the theorems, which follow from ZoneInv.                       *)
(***************************************************************************)
EXTENDS Zone, FiniteSetTheorems, WellFoundedInduction, TLAPS

(* Induction for a set of numbers. *)
LEMMA AllNumbers ==
    ASSUME NEW I \in SUBSET Nat, 0 \in I, \A i \in I : i + 1 \in I
    PROVE  I = Nat
<1> SUFFICES ASSUME NEW n \in Nat \ I PROVE FALSE
  OBVIOUS
<1>1. PICK m \in Nat \ I : \A j \in Nat \ I : ~ (<<j, m>> \in OpToRel(<, Nat))
  BY WFMin, NatLessThanWellFounded
<1>2. m # 0 /\ m - 1 \in Nat /\ (m - 1) + 1 = m /\ m - 1 < m
  OBVIOUS
<1>3. m - 1 \notin I
  BY <1>2
<1>4. <<m - 1, m>> \in OpToRel(<, Nat)
  BY <1>2 DEF OpToRel
<1> QED BY <1>1, <1>2, <1>3, <1>4

(* A set of numbers that is not empty has a least one. *)
LEMMA LeastNumber ==
    ASSUME NEW S \in SUBSET Nat, S # {}
    PROVE  Min(S) \in S /\ \A i \in S : Min(S) <= i
<1>1. PICK m \in S : \A j \in S : ~ (<<j, m>> \in OpToRel(<, Nat))
  BY WFMin, NatLessThanWellFounded
<1>2. \A j \in S : m <= j
  <2> SUFFICES ASSUME NEW j \in S, j < m
               PROVE  FALSE
    OBVIOUS
  <2>1. <<j, m>> \in OpToRel(<, Nat)
    BY DEF OpToRel
  <2> QED BY <1>1, <2>1
<1> QED BY <1>2 DEF Min

\* f is what a loop comes to after each of its rounds.
IsLoop(f, start, step) == f = [k \in Nat |-> IF k = 0 THEN start ELSE step[f[k - 1]]]

(* A loop that stays among the states D has such a function. *)
LEMMA Rounds ==
    ASSUME NEW D, NEW step \in [D -> D], NEW start \in D
    PROVE  \E f \in [Nat -> D] : IsLoop(f, start, step)
<1> DEFINE G(k) == {g \in [0 .. k -> D] :
                       g[0] = start /\ \A i \in 0 .. k - 1 : g[i + 1] = step[g[i]]}
<1>1. ASSUME NEW k \in Nat, NEW m \in Nat, NEW g \in G(k), NEW h \in G(m)
      PROVE  \A i \in Nat : i <= k /\ i <= m => g[i] = h[i]
  <2> DEFINE I == {i \in Nat : i <= k /\ i <= m => g[i] = h[i]}
  <2>1. 0 \in I
    OBVIOUS
  <2>2. ASSUME NEW i \in I
        PROVE  i + 1 \in I
    <3>1. ASSUME i + 1 <= k, i + 1 <= m
          PROVE  g[i + 1] = h[i + 1]
      <4>1. i \in 0 .. k - 1 /\ i \in 0 .. m - 1 /\ g[i] = h[i]
        BY <3>1
      <4> QED BY <4>1
    <3> QED BY <3>1
  <2>3. I = Nat
    <3> HIDE DEF I
    <3> QED BY <2>1, <2>2, AllNumbers DEF I
  <2> QED BY <2>3
<1>2. \A k \in Nat : G(k) # {}
  <2> DEFINE I == {k \in Nat : G(k) # {}}
  <2>1. 0 \in I
    <3>1. [i \in 0 .. 0 |-> start] \in G(0)
      OBVIOUS
    <3> QED BY <3>1
  <2>2. ASSUME NEW k \in I
        PROVE  k + 1 \in I
    <3>1. PICK g : g \in G(k)
      OBVIOUS
    <3> DEFINE h == [i \in 0 .. k + 1 |-> IF i = k + 1 THEN step[g[k]] ELSE g[i]]
    <3>2. \A i \in 0 .. k : g[i] \in D /\ h[i] = g[i]
      BY <3>1
    <3>3. h[k + 1] = step[g[k]] /\ step[g[k]] \in D
      BY <3>2
    <3>4. h \in [0 .. k + 1 -> D]
      BY SMTT(30), <3>2, <3>3
    <3>5. ASSUME NEW i \in 0 .. (k + 1) - 1
          PROVE  h[i + 1] = step[h[i]]
      <4>1. CASE i = k
        BY <4>1, <3>2, <3>3
      <4>2. CASE i # k
        <5>1. i \in 0 .. k - 1 /\ i \in 0 .. k /\ i + 1 \in 0 .. k
          BY <4>2
        <5> HIDE DEF h
        <5> QED BY <5>1, <3>1, <3>2
      <4> QED BY <4>1, <4>2
    <3>6. h[0] = start
      BY <3>1, <3>2
    <3>7. h \in G(k + 1)
      <4> HIDE DEF h
      <4> QED BY <3>4, <3>5, <3>6
    <3> QED BY <3>7
  <2>3. I = Nat
    <3> HIDE DEF I
    <3> QED BY <2>1, <2>2, AllNumbers DEF I
  <2> QED BY <2>3
<1> DEFINE c == [k \in Nat |-> CHOOSE g \in G(k) : TRUE]
           f == [k \in Nat |-> c[k][k]]
<1>3. \A k \in Nat : c[k] \in G(k)
  BY <1>2
<1> HIDE DEF c
<1>4. ASSUME NEW k \in Nat
      PROVE  /\ f[k] \in D
             /\ f[k] = IF k = 0 THEN start ELSE step[f[k - 1]]
  <2>1. c[k] \in [0 .. k -> D] /\ c[k][0] = start
    BY <1>3
  <2>2. CASE k # 0
    <3>1. k - 1 \in Nat /\ k - 1 \in 0 .. k - 1 /\ (k - 1) + 1 = k /\ k - 1 <= k
      BY <2>2
    <3>2. c[k] \in G(k) /\ c[k - 1] \in G(k - 1)
      BY <1>3, <3>1
    <3>3. c[k][(k - 1) + 1] = step[c[k][k - 1]]
      BY <3>1, <3>2
    <3>4. c[k][k - 1] = c[k - 1][k - 1]
      <4> HIDE DEF G
      <4> QED BY <1>1, <3>1, <3>2
    <3> QED BY <2>1, <2>2, <3>1, <3>3, <3>4
  <2> QED BY <2>1, <2>2
<1>5. f \in [Nat -> D] /\ f = [k \in Nat |-> IF k = 0 THEN start ELSE step[f[k - 1]]]
  <2> HIDE DEF f
  <2>1. f = [k \in Nat |-> f[k]]
    BY DEF f
  <2> QED BY <1>4, <2>1
<1> QED BY <1>5 DEF IsLoop

-----------------------------------------------------------------------------
(* Powers of two.                                                          *)

(* The recursion of Pow2. *)
LEMMA Pow2Facts ==
    /\ Pow2[0] = 1
    /\ \A k \in Nat : Pow2[k] \in Nat \ {0} /\ Pow2[k + 1] = 2 * Pow2[k]
<1> DEFINE D == Nat \ {0}
           double == [x \in D |-> 2 * x]
           IsPow(g) == g = [k \in Nat |-> IF k = 0 THEN 1 ELSE 2 * g[k - 1]]
<1>1. double \in [D -> D] /\ 1 \in D
  OBVIOUS
<1>2. PICK f \in [Nat -> D] : IsLoop(f, 1, double)
  <2> HIDE DEF D, double
  <2> QED BY <1>1, Rounds
<1>3. IsPow(f)
  <2>1. ASSUME NEW k \in Nat
        PROVE  f[k] = IF k = 0 THEN 1 ELSE 2 * f[k - 1]
    <3>1. f[k] = IF k = 0 THEN 1 ELSE double[f[k - 1]]
      BY <1>2 DEF IsLoop
    <3>2. k # 0 => f[k - 1] \in D
      OBVIOUS
    <3> QED BY <3>1, <3>2
  <2>2. f = [k \in Nat |-> f[k]]
    OBVIOUS
  <2> QED BY <2>1, <2>2
<1>4. IsPow(Pow2)
  <2>1. Pow2 = CHOOSE g : IsPow(g)
    BY DEF Pow2
  <2> HIDE DEF IsPow
  <2> QED BY <1>3, <2>1
<1>5. Pow2[0] = 1 /\ \A k \in Nat : Pow2[k + 1] = 2 * Pow2[k]
  <2>1. \A k \in Nat : Pow2[k] = IF k = 0 THEN 1 ELSE 2 * Pow2[k - 1]
    BY <1>4
  <2>2. ASSUME NEW k \in Nat PROVE Pow2[k + 1] = 2 * Pow2[k]
    <3>1. k + 1 \in Nat /\ k + 1 # 0 /\ (k + 1) - 1 = k
      OBVIOUS
    <3> HIDE DEF IsPow
    <3> QED BY <2>1, <3>1
  <2> QED BY <2>1, <2>2
<1> DEFINE J == {k \in Nat : Pow2[k] \in Nat \ {0}}
<1>6. J = Nat
  <2>1. 0 \in J
    BY <1>5
  <2>2. ASSUME NEW k \in J PROVE k + 1 \in J
    BY <1>5
  <2> HIDE DEF J
  <2> QED BY <2>1, <2>2, AllNumbers DEF J
<1>7. \A k \in Nat : Pow2[k] \in Nat \ {0}
  BY <1>6
<1> QED BY <1>5, <1>7

(* The power of a sum is the product of the powers. *)
LEMMA Pow2Add ==
    ASSUME NEW a \in Nat, NEW b \in Nat
    PROVE  Pow2[a + b] = Pow2[a] * Pow2[b]
<1> DEFINE I == {k \in Nat : Pow2[a + k] = Pow2[a] * Pow2[k]}
<1>1. 0 \in I
  BY Pow2Facts
<1>2. ASSUME NEW k \in I
      PROVE  k + 1 \in I
  <2>1. /\ Pow2[a + (k + 1)] = 2 * Pow2[a + k] /\ Pow2[k + 1] = 2 * Pow2[k]
        /\ Pow2[a] \in Nat /\ Pow2[k] \in Nat
    <3>1. a + k \in Nat /\ a + (k + 1) = (a + k) + 1
      OBVIOUS
    <3> QED BY <3>1, Pow2Facts
  <2>2. Pow2[a + k] = Pow2[a] * Pow2[k]
    OBVIOUS
  <2>3. \A x, y \in Nat : 2 * (x * y) = x * (2 * y)
    OBVIOUS
  <2> QED BY <2>1, <2>2, <2>3
<1>3. I = Nat
  <2> HIDE DEF I
  <2> QED BY <1>1, <1>2, AllNumbers DEF I
<1> QED BY <1>3

(* A larger exponent at least doubles the power. *)
LEMMA Pow2Grows ==
    ASSUME NEW a \in Nat, NEW b \in Nat, a < b
    PROVE  2 * Pow2[a] <= Pow2[b]
<1> DEFINE c == b - (a + 1)
<1>1. c \in Nat /\ b = (a + 1) + c /\ a + 1 \in Nat
  OBVIOUS
<1> HIDE DEF c
<1>2. Pow2[b] = (2 * Pow2[a]) * Pow2[c] /\ Pow2[a] \in Nat /\ Pow2[c] \in Nat \ {0}
  <2>1. Pow2[b] = Pow2[a + 1] * Pow2[c]
    BY <1>1, Pow2Add
  <2>2. Pow2[a + 1] = 2 * Pow2[a]
    BY Pow2Facts
  <2> QED BY <1>1, <2>1, <2>2, Pow2Facts
<1>3. \A x \in Nat, y \in Nat \ {0} : x <= x * y
  OBVIOUS
<1>4. 2 * Pow2[a] \in Nat
  BY <1>2
<1> QED BY <1>2, <1>3, <1>4

(* Every number is less than its power. *)
LEMMA Pow2Beyond ==
    \A n \in Nat : n < Pow2[n]
<1> DEFINE I == {k \in Nat : k < Pow2[k]}
<1>1. 0 \in I
  BY Pow2Facts
<1>2. ASSUME NEW k \in I
      PROVE  k + 1 \in I
  BY Pow2Facts
<1>3. I = Nat
  <2> HIDE DEF I
  <2> QED BY <1>1, <1>2, AllNumbers DEF I
<1> QED BY <1>3

(* The logarithm is the exponent between whose powers the number is. *)
LEMMA LogIs ==
    ASSUME NEW n \in Nat, NEW k \in Nat, Pow2[k] <= n, n < Pow2[k + 1]
    PROVE  Log2(n) = k
<1>1. ASSUME NEW j \in Nat, Pow2[j] <= n, n < Pow2[j + 1]
      PROVE  j = k
  <2>1. ~ (j < k)
    <3> SUFFICES ASSUME j < k PROVE FALSE
      OBVIOUS
    <3>1. 2 * Pow2[j] <= Pow2[k] /\ Pow2[j + 1] = 2 * Pow2[j] /\ Pow2[j] \in Nat /\ Pow2[k] \in Nat
      BY Pow2Grows, Pow2Facts
    <3> QED BY <1>1, <3>1
  <2>2. ~ (k < j)
    <3> SUFFICES ASSUME k < j PROVE FALSE
      OBVIOUS
    <3>1. 2 * Pow2[k] <= Pow2[j] /\ Pow2[k + 1] = 2 * Pow2[k] /\ Pow2[j] \in Nat /\ Pow2[k] \in Nat
      BY Pow2Grows, Pow2Facts
    <3> QED BY <1>1, <3>1
  <2> QED BY <2>1, <2>2
<1>2. n # 0 /\ k \in 0 .. n
  <2>1. k < Pow2[k] /\ Pow2[k] \in Nat
    BY Pow2Beyond, Pow2Facts
  <2> QED BY <2>1
<1> DEFINE j == CHOOSE i \in 0 .. n : Pow2[i] <= n /\ n < Pow2[i + 1]
<1>3. j \in 0 .. n /\ Pow2[j] <= n /\ n < Pow2[j + 1]
  BY <1>2
<1>4. Log2(n) = j
  BY <1>2 DEF Log2
<1> HIDE DEF j
<1> QED BY <1>1, <1>3, <1>4

(* Every number but 0 is between two powers of two. *)
LEMMA LogFacts ==
    ASSUME NEW n \in Nat \ {0}
    PROVE  /\ Log2(n) \in Nat /\ Pow2[Log2(n)] <= n /\ n < Pow2[Log2(n) + 1]
<1> DEFINE S == {k \in Nat : n < Pow2[k + 1]}
           k == Min(S)
<1>1. n \in S
  <2>1. n < Pow2[n] /\ Pow2[n + 1] = 2 * Pow2[n] /\ Pow2[n] \in Nat
    BY Pow2Beyond, Pow2Facts
  <2> QED BY <2>1
<1>2. k \in S /\ \A i \in S : k <= i
  <2> HIDE DEF S
  <2> QED BY <1>1, LeastNumber DEF S
<1> HIDE DEF k
<1>3. Pow2[k] <= n
  <2>1. CASE k = 0
    BY <2>1, Pow2Facts
  <2>2. CASE k # 0
    <3>1. k - 1 \in Nat /\ (k - 1) + 1 = k /\ ~ (k <= k - 1)
      BY <1>2, <2>2
    <3>2. ~ (n < Pow2[k])
      BY <1>2, <3>1
    <3> QED BY <1>2, <3>2, Pow2Facts
  <2> QED BY <2>1, <2>2
<1>4. k \in Nat /\ n < Pow2[k + 1]
  BY <1>2
<1>5. Log2(n) = k
  BY <1>3, <1>4, LogIs
<1> QED BY <1>3, <1>4, <1>5

-----------------------------------------------------------------------------
(* The tree of nodes.                                                      *)

M == Pow2[max_order]

(* The order of a node, by the logarithm of its number. *)
LEMMA OrderFacts ==
    ASSUME NEW i \in Node
    PROVE  /\ i \in Nat \ {0} /\ order[i] \in Order /\ order[i] \in Nat
           /\ Log2(i) \in Nat /\ order[i] = max_order - Log2(i)
           /\ Pow2[Log2(i)] <= i /\ i < Pow2[Log2(i) + 1]
<1>1. i \in Nat \ {0} /\ i < Pow2[max_order + 1]
  BY ZoneAssumption, Pow2Facts DEF Node
<1>2. Log2(i) \in Nat /\ Pow2[Log2(i)] <= i /\ i < Pow2[Log2(i) + 1]
  BY <1>1, LogFacts
<1>3. Log2(i) <= max_order
  <2> SUFFICES ASSUME max_order < Log2(i) PROVE FALSE
    BY <1>2, ZoneAssumption
  <2>1. max_order + 1 \in Nat /\ max_order + 1 <= Log2(i)
    BY <1>2, ZoneAssumption
  <2>2. Pow2[max_order + 1] <= Pow2[Log2(i)]
    <3>1. CASE max_order + 1 = Log2(i)
      BY <3>1, <2>1, Pow2Facts
    <3>2. CASE max_order + 1 < Log2(i)
      <4>1. 2 * Pow2[max_order + 1] <= Pow2[Log2(i)]
        BY <1>2, <2>1, <3>2, Pow2Grows
      <4>2. Pow2[max_order + 1] \in Nat
        BY <2>1, Pow2Facts
      <4>3. Pow2[Log2(i)] \in Nat
        BY <1>2, Pow2Facts
      <4> QED BY <4>1, <4>2, <4>3
    <3> QED BY <1>2, <2>1, <3>1, <3>2
  <2>3. Pow2[max_order + 1] \in Nat /\ Pow2[Log2(i)] \in Nat
    BY <1>2, <2>1, Pow2Facts
  <2> QED BY <1>1, <1>2, <2>2, <2>3
<1>4. order[i] = max_order - Log2(i)
  BY DEF order
<1> QED BY <1>1, <1>2, <1>3, <1>4, ZoneAssumption DEF Order

(* A node is named by its order and its place among the nodes of that order. *)
LEMMA OrderIs ==
    ASSUME NEW o \in Order, NEW i \in Nat,
           Pow2[max_order - o] <= i, i < 2 * Pow2[max_order - o]
    PROVE  i \in Node /\ order[i] = o
<1> DEFINE d == max_order - o
<1>1. d \in Nat /\ d <= max_order /\ max_order \in Nat
  BY ZoneAssumption DEF Order
<1>2. Pow2[d + 1] = 2 * Pow2[d] /\ Pow2[d] \in Nat \ {0}
  BY <1>1, Pow2Facts
<1>3. Log2(i) = d
  BY <1>1, <1>2, LogIs
<1>4. i < Pow2[max_order + 1] /\ Pow2[max_order + 1] \in Nat
  <2>1. max_order + 1 \in Nat /\ d < max_order + 1
    BY <1>1
  <2>2. 2 * Pow2[d] <= Pow2[max_order + 1]
    BY <1>1, <2>1, Pow2Grows
  <2>3. Pow2[max_order + 1] \in Nat
    BY <2>1, Pow2Facts
  <2> QED BY <1>2, <2>2, <2>3
<1>5. i \in Node
  BY <1>2, <1>4 DEF Node
<1> QED BY <1>1, <1>3, <1>5 DEF order, Order

(* The numbers of the nodes of one order, and how many pages they have      *)
(* together.                                                                *)
LEMMA PlaceFacts ==
    ASSUME NEW i \in Node
    PROVE  /\ max_order - order[i] \in Nat
           /\ Pow2[max_order - order[i]] <= i /\ i < 2 * Pow2[max_order - order[i]]
           /\ Pow2[max_order - order[i]] \in Nat \ {0}
           /\ Pow2[order[i]] \in Nat \ {0} /\ M \in Nat \ {0}
           /\ Pow2[max_order - order[i]] * Pow2[order[i]] = M
<1>1. /\ order[i] \in Nat /\ Log2(i) \in Nat /\ Log2(i) = max_order - order[i]
      /\ max_order \in Nat /\ max_order = Log2(i) + order[i] /\ i \in Nat
  BY OrderFacts, ZoneAssumption
<1>2. Pow2[Log2(i)] <= i /\ i < Pow2[Log2(i) + 1] /\ Pow2[Log2(i) + 1] = 2 * Pow2[Log2(i)]
  BY <1>1, OrderFacts, Pow2Facts
<1>3. Pow2[Log2(i)] * Pow2[order[i]] = M
  BY <1>1, Pow2Add DEF M
<1>4. Pow2[order[i]] \in Nat \ {0} /\ M \in Nat \ {0} /\ Pow2[Log2(i)] \in Nat \ {0}
  BY <1>1, Pow2Facts DEF M
<1> QED BY <1>1, <1>2, <1>3, <1>4

(* The sons of a node that is no leaf. *)
LEMMA SonFacts ==
    ASSUME NEW i \in Node, order[i] # 0
    PROVE  /\ 2 * i \in Node /\ 2 * i + 1 \in Node /\ order[i] - 1 \in Order
           /\ order[2 * i] = order[i] - 1 /\ order[2 * i + 1] = order[i] - 1
<1> DEFINE d == max_order - order[i]
           o == order[i] - 1
<1>1. i \in Nat /\ order[i] \in Order /\ o \in Order /\ order[i] \in Nat /\ max_order \in Nat
  BY OrderFacts, ZoneAssumption DEF Order
<1>2. d \in Nat /\ Pow2[d] <= i /\ i < 2 * Pow2[d] /\ Pow2[d] \in Nat
  BY PlaceFacts
<1>3. max_order - o = d + 1 /\ Pow2[d + 1] = 2 * Pow2[d]
  BY <1>1, <1>2, Pow2Facts
<1> HIDE DEF d, o
<1>4. Pow2[max_order - o] = 2 * Pow2[d]
  BY <1>3
<1>5. 2 * i \in Node /\ order[2 * i] = o
  BY <1>1, <1>2, <1>4, OrderIs
<1>6. 2 * i + 1 \in Node /\ order[2 * i + 1] = o
  BY <1>1, <1>2, <1>4, OrderIs
<1> QED BY <1>1, <1>5, <1>6 DEF o

(* Only the root has the largest order. *)
LEMMA RootFacts ==
    /\ 1 \in Node /\ order[1] = max_order
    /\ \A i \in Node : order[i] = max_order => i = 1
<1>1. max_order \in Order /\ max_order - max_order = 0 /\ Pow2[0] = 1
  BY ZoneAssumption, Pow2Facts DEF Order
<1>2. 1 \in Node /\ order[1] = max_order
  BY <1>1, OrderIs
<1>3. ASSUME NEW i \in Node, order[i] = max_order
      PROVE  i = 1
  BY <1>1, <1>3, PlaceFacts, OrderFacts
<1> QED BY <1>2, <1>3

(* Every other node is a son. *)
LEMMA ParentFacts ==
    ASSUME NEW i \in Node, i # 1
    PROVE  /\ GetParent(i) \in Node /\ order[GetParent(i)] = order[i] + 1
           /\ order[i] + 1 \in Order
           /\ i = 2 * GetParent(i) \/ i = 2 * GetParent(i) + 1
<1> DEFINE d == max_order - order[i]
           o == order[i] + 1
           h == GetParent(i)
<1>1. i \in Nat /\ order[i] \in Order /\ order[i] \in Nat /\ max_order \in Nat /\ order[i] # max_order
  BY OrderFacts, ZoneAssumption, RootFacts
<1>2. o \in Order /\ d - 1 \in Nat /\ max_order - o = d - 1 /\ d = (d - 1) + 1
  BY <1>1 DEF Order
<1>3. h \in Nat /\ (i = 2 * h \/ i = 2 * h + 1)
  BY <1>1 DEF GetParent
<1>4. Pow2[d] <= i /\ i < 2 * Pow2[d]
  BY PlaceFacts
<1>5. Pow2[d] = 2 * Pow2[d - 1] /\ Pow2[d - 1] \in Nat
  BY <1>2, Pow2Facts
<1> HIDE DEF h, d, o
<1>6. Pow2[d - 1] <= h /\ h < 2 * Pow2[d - 1]
  BY <1>3, <1>4, <1>5
<1>7. h \in Node /\ order[h] = o
  BY <1>2, <1>3, <1>6, OrderIs
<1> QED BY <1>2, <1>3, <1>7 DEF h, o

(* The partner of a node is the other son of its parent. *)
LEMMA PartnerFacts ==
    ASSUME NEW i \in Node, i # 1
    PROVE  /\ GetPartner(i) \in Node /\ GetPartner(i) # 1 /\ GetPartner(i) # i
           /\ order[GetPartner(i)] = order[i]
           /\ GetParent(GetPartner(i)) = GetParent(i)
           /\ GetPartner(GetPartner(i)) = i
           /\ \A j \in Node : j # 1 /\ GetParent(j) = GetParent(i) => j = i \/ j = GetPartner(i)
<1> DEFINE h == GetParent(i)
<1>1. /\ h \in Node /\ order[h] = order[i] + 1 /\ order[i] \in Nat
      /\ i = 2 * h \/ i = 2 * h + 1
  BY ParentFacts, OrderFacts
<1>2. h \in Nat \ {0} /\ order[h] # 0
  BY <1>1, OrderFacts
<1>3. /\ 2 * h \in Node /\ 2 * h + 1 \in Node
      /\ order[2 * h] = order[i] /\ order[2 * h + 1] = order[i]
  BY <1>1, <1>2, SonFacts
<1>4. \A j \in Node : j # 1 => j = 2 * GetParent(j) \/ j = 2 * GetParent(j) + 1
  BY ParentFacts
<1> HIDE DEF h
<1>5. /\ (2 * h) % 2 = 0 /\ (2 * h + 1) % 2 = 1
      /\ (2 * h) \div 2 = h /\ (2 * h + 1) \div 2 = h
  BY <1>2
<1>6. CASE i = 2 * h
  <2>1. GetPartner(i) = 2 * h + 1 /\ GetPartner(2 * h + 1) = i
    BY <1>2, <1>5, <1>6 DEF GetPartner
  <2> QED BY <1>2, <1>3, <1>4, <1>5, <1>6, <2>1 DEF GetParent, h
<1>7. CASE i = 2 * h + 1
  <2>1. GetPartner(i) = 2 * h /\ GetPartner(2 * h) = i
    BY <1>2, <1>5, <1>7 DEF GetPartner
  <2> QED BY <1>2, <1>3, <1>4, <1>5, <1>7, <2>1 DEF GetParent, h
<1> QED BY <1>1, <1>6, <1>7 DEF h

(* The pages of a node, by number. *)
LEMMA PagesFacts ==
    ASSUME NEW i \in Node
    PROVE  /\ Pages[i] = {a \in Int : i * Pow2[order[i]] <= a + M /\ a + M < (i + 1) * Pow2[order[i]]}
           /\ Pages[i] \subseteq 0 .. M - 1
           /\ FirstPage[i] \in Pages[i] /\ FirstPage[i] \in Nat
           /\ FirstPage[i] = i * Pow2[order[i]] - M
           /\ \A a \in Pages[i] : FirstPage[i] <= a
           /\ Pages[i] = FirstPage[i] .. FirstPage[i] + Pow2[order[i]] - 1
<1> DEFINE P == Pow2[order[i]]
           Q == Pow2[max_order - order[i]]
<1>1. /\ i \in Nat \ {0} /\ P \in Nat \ {0} /\ Q \in Nat \ {0} /\ M \in Nat \ {0}
      /\ Q <= i /\ i < 2 * Q /\ Q * P = M
  BY OrderFacts, PlaceFacts
<1>2. /\ FirstPage[i] = i * P - M
      /\ Pages[i] = FirstPage[i] .. FirstPage[i] + P - 1
  BY DEF FirstPage, Pages, M
<1> HIDE DEF P, Q
<1>3. (i + 1) * P = i * P + P /\ i * P \in Nat
  BY <1>1
<1>4. Q * P <= i * P /\ (i + 1) * P <= (2 * Q) * P /\ (2 * Q) * P = 2 * (Q * P)
  <2>1. \A x, y, z \in Nat : x <= y => x * z <= y * z
    OBVIOUS
  <2>2. Q \in Nat /\ i + 1 \in Nat /\ 2 * Q \in Nat /\ i + 1 <= 2 * Q
    BY <1>1
  <2> QED BY <1>1, <2>1, <2>2
<1>5. M <= i * P /\ i * P + P <= 2 * M
  BY <1>1, <1>3, <1>4
<1>6. \A a \in Int : a \in Pages[i] <=> i * P <= a + M /\ a + M < (i + 1) * P
  BY <1>1, <1>2, <1>3
<1>7. FirstPage[i] \in Nat /\ FirstPage[i] \in Pages[i]
  <2> DEFINE R == i * P
  <2>1. R \in Nat /\ M \in Nat /\ P \in Nat \ {0} /\ M <= R
    BY <1>1, <1>3, <1>5
  <2>2. FirstPage[i] = R - M
    BY <1>2
  <2> HIDE DEF R, M
  <2>3. FirstPage[i] \in Nat
    BY <2>1, <2>2
  <2> QED BY <1>2, <2>1, <2>3
<1>8. Pages[i] \subseteq 0 .. M - 1
  BY <1>1, <1>2, <1>3, <1>5
<1>9. Pages[i] \subseteq Int
  BY <1>2, <1>7
<1>10. Pages[i] = {a \in Int : i * P <= a + M /\ a + M < (i + 1) * P}
  <2> HIDE DEF M
  <2> QED BY <1>6, <1>9
<1>11. \A a \in Pages[i] : FirstPage[i] <= a
  BY <1>2, <1>7
<1> QED BY <1>2, <1>7, <1>8, <1>10, <1>11 DEF P

(* Two nodes of one order have no page in common. *)
LEMMA SameOrderApart ==
    ASSUME NEW i \in Node, NEW j \in Node, order[i] = order[j], Pages[i] \cap Pages[j] # {}
    PROVE  i = j
<1> DEFINE P == Pow2[order[i]]
<1>1. PICK a \in Pages[i] \cap Pages[j] : TRUE
  OBVIOUS
<1>2. /\ i * P <= a + M /\ a + M < (i + 1) * P
      /\ j * P <= a + M /\ a + M < (j + 1) * P /\ a \in Int
  BY <1>1, PagesFacts
<1>3. i \in Nat /\ j \in Nat /\ P \in Nat \ {0} /\ M \in Nat
  BY OrderFacts, PlaceFacts
<1> HIDE DEF P
<1>4. \A x, y \in Nat : x < y => (x + 1) * P <= y * P
  <2>1. \A x, y, z \in Nat : x <= y => x * z <= y * z
    OBVIOUS
  <2>2. \A x \in Nat : x + 1 \in Nat
    OBVIOUS
  <2>3. \A x, y \in Nat : x < y => x + 1 <= y
    OBVIOUS
  <2> QED BY <1>3, <2>1, <2>2, <2>3
<1>5. i * P \in Nat /\ j * P \in Nat /\ (i + 1) * P \in Nat /\ (j + 1) * P \in Nat
  BY <1>3
<1>6. ~ (i < j)
  BY <1>2, <1>3, <1>4, <1>5
<1>7. ~ (j < i)
  BY <1>2, <1>3, <1>4, <1>5
<1> QED BY <1>3, <1>6, <1>7

(* The sons share out the pages of a node. *)
LEMMA SonPages ==
    ASSUME NEW i \in Node, order[i] # 0
    PROVE  /\ Pages[2 * i] \union Pages[2 * i + 1] = Pages[i]
           /\ Pages[2 * i] \cap Pages[2 * i + 1] = {}
<1> DEFINE P == Pow2[order[i] - 1]
<1>1. /\ i \in Nat /\ 2 * i \in Node /\ 2 * i + 1 \in Node /\ order[i] - 1 \in Nat
      /\ order[2 * i] = order[i] - 1 /\ order[2 * i + 1] = order[i] - 1
      /\ order[i] = (order[i] - 1) + 1
  BY OrderFacts, SonFacts
<1>2. Pow2[order[i]] = 2 * P /\ P \in Nat \ {0} /\ M \in Nat
  BY <1>1, Pow2Facts, PlaceFacts
<1>3. /\ Pages[2 * i] = {a \in Int : (2 * i) * P <= a + M /\ a + M < (2 * i + 1) * P}
      /\ Pages[2 * i + 1] = {a \in Int : (2 * i + 1) * P <= a + M /\ a + M < ((2 * i + 1) + 1) * P}
      /\ Pages[i] = {a \in Int : i * (2 * P) <= a + M /\ a + M < (i + 1) * (2 * P)}
  BY <1>1, <1>2, PagesFacts
<1> HIDE DEF P
<1>4. /\ (2 * i) * P = i * (2 * P) /\ ((2 * i + 1) + 1) * P = (i + 1) * (2 * P)
      /\ i * (2 * P) \in Nat /\ (2 * i + 1) * P = i * (2 * P) + P
      /\ (i + 1) * (2 * P) = i * (2 * P) + 2 * P
  BY <1>1, <1>2
<1> DEFINE l == i * (2 * P)
<1>5. /\ Pages[2 * i] = {a \in Int : l <= a + M /\ a + M < l + P}
      /\ Pages[2 * i + 1] = {a \in Int : l + P <= a + M /\ a + M < l + 2 * P}
      /\ Pages[i] = {a \in Int : l <= a + M /\ a + M < l + 2 * P} /\ l \in Nat
  BY <1>3, <1>4
<1> HIDE DEF l
<1> QED BY <1>2, <1>5

(* Partners share out the pages of their parent. *)
LEMMA PartnerPages ==
    ASSUME NEW i \in Node, i # 1
    PROVE  /\ Pages[i] \union Pages[GetPartner(i)] = Pages[GetParent(i)]
           /\ Pages[i] \cap Pages[GetPartner(i)] = {}
<1> DEFINE h == GetParent(i)
           j == GetPartner(i)
<1>1. /\ h \in Node /\ order[h] # 0
      /\ i = 2 * h \/ i = 2 * h + 1
      /\ j = 2 * h \/ j = 2 * h + 1
      /\ i # j
  <2>1. h \in Node /\ order[h] = order[i] + 1 /\ order[i] \in Nat
    BY ParentFacts, OrderFacts
  <2>2. j \in Node /\ j # 1 /\ GetParent(j) = h /\ j # i
    BY PartnerFacts
  <2> QED BY <2>1, <2>2, ParentFacts
<1> HIDE DEF h, j
<1>2. /\ Pages[2 * h] \union Pages[2 * h + 1] = Pages[h]
      /\ Pages[2 * h] \cap Pages[2 * h + 1] = {}
  BY <1>1, SonPages
<1> QED BY <1>1, <1>2 DEF h, j

-----------------------------------------------------------------------------
(* The nodes above a node.                                                 *)

(* Halving the quotient is dividing by twice as much. *)
LEMMA HalvedAgain ==
    ASSUME NEW i \in Nat, NEW a \in Nat \ {0}
    PROVE  (i \div a) \div 2 = i \div (2 * a)
<1> DEFINE q == i \div a
           h == q \div 2
<1>1. q \in Nat /\ q * a <= i /\ i < q * a + a
  OBVIOUS
<1>2. h \in Nat /\ 2 * h <= q /\ q <= 2 * h + 1
  BY <1>1
<1> HIDE DEF q, h
<1>3. (2 * h) * a <= q * a /\ q * a <= (2 * h + 1) * a
  <2>1. \A x, y, z \in Nat : x <= y => x * z <= y * z
    OBVIOUS
  <2>2. 2 * h \in Nat /\ 2 * h + 1 \in Nat
    BY <1>2
  <2> QED BY <1>1, <1>2, <2>1, <2>2
<1>4. /\ (2 * h) * a = h * (2 * a) /\ (2 * h + 1) * a = h * (2 * a) + a
      /\ h * (2 * a) \in Nat /\ q * a \in Nat /\ 2 * a \in Nat \ {0}
  BY <1>1, <1>2
<1> DEFINE b == 2 * a
           r == i - h * b
<1>5. r \in 0 .. b - 1 /\ i = h * b + r /\ b \in Nat \ {0}
  BY <1>1, <1>3, <1>4
<1> HIDE DEF b, r
<1>6. i \div b = h
  BY <1>2, <1>5
<1> QED BY <1>6 DEF b, h, q

(* One level further up is the parent. *)
LEMMA AboveNext ==
    ASSUME NEW i \in Nat
    PROVE  /\ Above(i, 0) = i
           /\ \A k \in Nat : Above(i, k + 1) = GetParent(Above(i, k))
<1>1. Above(i, 0) = i
  BY Pow2Facts DEF Above
<1>2. ASSUME NEW k \in Nat
      PROVE  Above(i, k + 1) = GetParent(Above(i, k))
  <2>1. Pow2[k + 1] = 2 * Pow2[k] /\ Pow2[k] \in Nat \ {0}
    BY Pow2Facts
  <2>2. (i \div Pow2[k]) \div 2 = i \div (2 * Pow2[k])
    BY <2>1, HalvedAgain
  <2> QED BY <2>1, <2>2 DEF Above, GetParent
<1> QED BY <1>1, <1>2

(* What is k levels above a node is a node, of an order larger by k. *)
LEMMA AboveFacts ==
    ASSUME NEW p \in Node, NEW k \in 0 .. max_order - order[p]
    PROVE  /\ Above(p, k) \in Node /\ order[Above(p, k)] = order[p] + k
           /\ k < max_order - order[p] => Above(p, k) # 1
<1> DEFINE n == max_order - order[p]
           I == {j \in Nat : j <= n => Above(p, j) \in Node /\ order[Above(p, j)] = order[p] + j}
<1>1. p \in Nat /\ order[p] \in Nat /\ n \in Nat /\ max_order \in Nat
  BY OrderFacts, ZoneAssumption DEF Order
<1>2. 0 \in I
  BY <1>1, AboveNext
<1>3. ASSUME NEW j \in I
      PROVE  j + 1 \in I
  <2>1. SUFFICES ASSUME j + 1 <= n
                 PROVE  /\ Above(p, j + 1) \in Node
                        /\ order[Above(p, j + 1)] = order[p] + (j + 1)
    OBVIOUS
  <2>2. Above(p, j) \in Node /\ order[Above(p, j)] = order[p] + j
    BY <1>1, <2>1
  <2>3. Above(p, j) # 1
    BY <1>1, <2>1, <2>2, RootFacts
  <2>4. Above(p, j + 1) = GetParent(Above(p, j))
    BY <1>1, AboveNext
  <2>5. /\ GetParent(Above(p, j)) \in Node
        /\ order[GetParent(Above(p, j))] = order[Above(p, j)] + 1
    BY <2>2, <2>3, ParentFacts
  <2>6. (order[p] + j) + 1 = order[p] + (j + 1)
    BY <1>1
  <2> QED BY <2>2, <2>4, <2>5, <2>6
<1>4. I = Nat
  <2> HIDE DEF I
  <2> QED BY <1>2, <1>3, AllNumbers DEF I
<1>5. Above(p, k) \in Node /\ order[Above(p, k)] = order[p] + k
  BY <1>1, <1>4
<1>6. k < n => Above(p, k) # 1
  BY <1>1, <1>5, RootFacts
<1> QED BY <1>5, <1>6

-----------------------------------------------------------------------------
(* What Init lists.                                                        *)

(* A set of numbers with a bound has a greatest one. *)
LEMMA GreatestNumber ==
    ASSUME NEW n \in Nat, NEW S \in SUBSET (0 .. n), S # {}
    PROVE  Max(S) \in S /\ \A k \in S : k <= Max(S)
<1> DEFINE J == {k \in Nat : n - k \in S}
           m == n - Min(J)
<1>1. J \in SUBSET Nat /\ J # {}
  <2>1. PICK k : k \in S
    OBVIOUS
  <2>2. n - k \in Nat /\ n - (n - k) = k
    BY <2>1
  <2> QED BY <2>1, <2>2
<1>2. Min(J) \in J /\ \A k \in J : Min(J) <= k
  <2> HIDE DEF J
  <2> QED BY <1>1, LeastNumber
<1>3. m \in S
  BY <1>2
<1>4. ASSUME NEW k \in S
      PROVE  k <= m
  <2>1. n - k \in Nat /\ n - (n - k) = k
    OBVIOUS
  <2>2. Min(J) <= n - k /\ Min(J) \in Nat
    BY <1>2, <2>1
  <2> QED BY <2>2
<1> HIDE DEF m
<1> QED BY <1>3, <1>4 DEF Max

(* BuildTree frees the nodes below which all pages exist. *)
LEMMA BuiltFacts ==
    ASSUME NEW i \in Node
    PROVE  /\ BuiltFlags[i] \in {Free, Unusable}
           /\ BuiltFlags[i] = Free <=> Pages[i] \subseteq ValidPages
  BY DEF BuiltFlags, Free, Unusable

(* Not all pages below the root exist. *)
LEMMA RootUnusable ==
    ~ (Pages[1] \subseteq ValidPages)
<1>1. /\ 1 \in Node /\ order[1] = max_order /\ M \in Nat \ {0}
      /\ Pages[1] = {a \in Int : 1 * M <= a + M /\ a + M < (1 + 1) * M}
  BY RootFacts, PagesFacts, PlaceFacts DEF M
<1>2. M - 1 \in Pages[1]
  BY <1>1
<1>3. M - 1 \notin ValidPages
  BY <1>1, ZoneAssumption DEF M, ValidPages
<1> QED BY <1>2, <1>3

(* The head of a list after Init is a node InitArea visited. *)
LEMMA ListedFacts ==
    ASSUME NEW o \in Order, ListedAtInit(o) # {}
    PROVE  Max(ListedAtInit(o)) \in ListedAtInit(o)
<1> DEFINE n == Pow2[max_order + 1]
<1>1. n \in Nat
  BY ZoneAssumption, Pow2Facts
<1>2. Node \subseteq 0 .. n
  BY <1>1 DEF Node
<1>3. ListedAtInit(o) \in SUBSET (0 .. n)
  BY <1>2 DEF ListedAtInit
<1> HIDE DEF n
<1> QED BY <1>1, <1>3, GreatestNumber

(* A block of Init is alone on its list, and not all pages of its parent    *)
(* exist.                                                                   *)
LEMMA BaseFacts ==
    ASSUME NEW i \in Base
    PROVE  /\ i \in Node /\ i # 1 /\ order[i] \in Order
           /\ ToSet(InitFreeArea[order[i]]) = {i}
           /\ Pages[i] \subseteq ValidPages
           /\ ~ (Pages[GetParent(i)] \subseteq ValidPages)
<1>1. PICK o \in Order : i \in ToSet(InitFreeArea[o])
  BY DEF Base
<1>2. InitFreeArea[o] = IF ListedAtInit(o) = {} THEN <<>> ELSE <<Max(ListedAtInit(o))>>
  BY DEF InitFreeArea
<1>3. ListedAtInit(o) # {} /\ i = Max(ListedAtInit(o)) /\ ToSet(InitFreeArea[o]) = {i}
  BY <1>1, <1>2 DEF ToSet
<1>4. i \in Node /\ order[i] = o /\ Visited(i) /\ BuiltFlags[i] = Free
  BY <1>3, ListedFacts DEF ListedAtInit
<1>5. Pages[i] \subseteq ValidPages
  BY <1>4, BuiltFacts
<1>6. i # 1
  BY <1>5, RootUnusable
<1>7. 1 \in 1 .. Log2(i)
  <2>1. order[i] # max_order /\ Log2(i) \in Nat /\ order[i] = max_order - Log2(i)
    BY <1>4, <1>6, RootFacts, OrderFacts
  <2> QED BY <2>1, ZoneAssumption
<1>8. Above(i, 1) = GetParent(i)
  <2>1. i \in Nat /\ 0 + 1 = 1
    BY <1>4, OrderFacts
  <2> QED BY <2>1, AboveNext
<1>9. BuiltFlags[GetParent(i)] # Free
  BY <1>4, <1>7, <1>8 DEF Visited
<1>10. ~ (Pages[GetParent(i)] \subseteq ValidPages)
  BY <1>4, <1>6, <1>9, ParentFacts, BuiltFacts
<1> QED BY <1>1, <1>3, <1>4, <1>5, <1>6, <1>10

-----------------------------------------------------------------------------
(* Flags.                                                                  *)

\* A node that is a block of its own if it is free or used.
Live(f, i) == i \in Base \/ (i # 1 /\ f[GetParent(i)] = Divided)

FreeBlocks(f) == {i \in Node : f[i] = Free /\ Live(f, i)}
UsedBlocks(f) == {i \in Node : f[i] = Used}

\* What splitting and merging keep of the flags: all below a free or used node
\* is free, and a node stays divided only while its sons are not both free.
Shape(f) ==
    /\ f \in [Node -> {Unusable, Free, Used, Divided}]
    /\ \A i \in Node : f[i] = Unusable <=> ~ (Pages[i] \subseteq ValidPages)
    /\ \A i \in Node \ {1} : f[GetParent(i)] \in {Free, Used} => f[i] = Free
    /\ \A i \in Node : f[i] = Divided => order[i] # 0
    /\ \A i \in Node \ {1} : f[GetParent(i)] = Divided => f[i] # Free \/ f[GetPartner(i)] # Free
    /\ \A i \in Node : f[i] \in {Divided, Used} => Live(f, i)

\* The lists hold the free blocks, each once and by its order.
ListsHold(lists, blocks) ==
    /\ lists \in [Order -> Seq(Node)]
    /\ \A o \in Order : IsInjective(lists[o])
    /\ \A o \in Order : ToSet(lists[o]) = {i \in blocks : order[i] = o}

\* The inductive invariant.
ZoneInv ==
    /\ Shape(flags)
    /\ ListsHold(free_area, FreeBlocks(flags))
    /\ held = UsedBlocks(flags)
    /\ free_page_num = valid_page_num - Cardinality(PagesIn(Base))
                         + Cardinality(PagesIn(FreeBlocks(flags)))
    /\ refused \in Order \union {-1}

(* The four flags differ. *)
LEMMA FlagsApart ==
    /\ Unusable # Free /\ Unusable # Used /\ Unusable # Divided
    /\ Free # Used /\ Free # Divided /\ Used # Divided
  BY DEF Unusable, Free, Used, Divided

(* Above a block of Init not all pages exist. *)
LEMMA LiveAbove ==
    ASSUME NEW f, Shape(f), NEW i \in Node, i \in Base \/ ~ (Pages[i] \subseteq ValidPages)
    PROVE  i # 1 => f[GetParent(i)] = Unusable
<1> SUFFICES ASSUME i # 1 PROVE f[GetParent(i)] = Unusable
  OBVIOUS
<1>1. GetParent(i) \in Node /\ Pages[i] \subseteq Pages[GetParent(i)]
  BY ParentFacts, PartnerPages
<1>2. ~ (Pages[GetParent(i)] \subseteq ValidPages)
  BY <1>1, BaseFacts
<1> QED BY <1>1, <1>2 DEF Shape

(* What is above a node that is divided, used or a block is divided or does    *)
(* not exist.                                                              *)
LEMMA AboveLive ==
    ASSUME NEW f, Shape(f), NEW i \in Node, NEW j \in Node,
           Pages[i] \cap Pages[j] # {}, order[j] < order[i], Live(f, j)
    PROVE  f[i] \in {Divided, Unusable}
<1> DEFINE Bad(x) == /\ order[x] < order[i] /\ Pages[i] \cap Pages[x] # {}
                     /\ Live(f, x) \/ f[x] = Unusable
           I == {k \in Nat : \A x \in Node : order[i] - order[x] = k + 1 /\ Bad(x)
                                                => f[i] \in {Divided, Unusable}}
<1>0. \A x \in Node : order[x] \in Nat
  BY OrderFacts
<1>1. ASSUME NEW x \in Node, Bad(x)
      PROVE  /\ x # 1 /\ GetParent(x) \in Node /\ order[GetParent(x)] = order[x] + 1
             /\ Pages[i] \cap Pages[GetParent(x)] # {}
             /\ f[GetParent(x)] \in {Divided, Unusable}
             /\ Live(f, GetParent(x)) \/ f[GetParent(x)] = Unusable
  <2>1. x # 1
    BY <1>1, <1>0, RootFacts, OrderFacts, ZoneAssumption DEF Order
  <2>2. /\ GetParent(x) \in Node /\ order[GetParent(x)] = order[x] + 1
        /\ Pages[x] \subseteq Pages[GetParent(x)]
    BY <2>1, ParentFacts, PartnerPages
  <2>3. f[GetParent(x)] \in {Divided, Unusable}
    <3>1. CASE x \in Base \/ f[x] = Unusable
      BY <2>1, <3>1, LiveAbove DEF Shape
    <3>2. CASE x \notin Base /\ f[x] # Unusable
      BY <1>1, <3>2 DEF Live
    <3> QED BY <3>1, <3>2
  <2>4. Live(f, GetParent(x)) \/ f[GetParent(x)] = Unusable
    BY <2>2, <2>3 DEF Shape
  <2> QED BY <1>1, <2>1, <2>2, <2>3, <2>4
<1>2. 0 \in I
  <2> SUFFICES ASSUME NEW x \in Node, order[i] - order[x] = 1, Bad(x)
               PROVE  f[i] \in {Divided, Unusable}
    OBVIOUS
  <2>1. order[GetParent(x)] = order[i] /\ GetParent(x) \in Node /\ Pages[i] \cap Pages[GetParent(x)] # {}
    BY <1>0, <1>1
  <2>2. GetParent(x) = i
    BY <2>1, SameOrderApart
  <2> QED BY <1>1, <2>2
<1>3. ASSUME NEW k \in I
      PROVE  k + 1 \in I
  <2> SUFFICES ASSUME NEW x \in Node, order[i] - order[x] = (k + 1) + 1, Bad(x)
               PROVE  f[i] \in {Divided, Unusable}
    OBVIOUS
  <2>1. /\ GetParent(x) \in Node /\ order[GetParent(x)] = order[x] + 1
        /\ Pages[i] \cap Pages[GetParent(x)] # {}
        /\ Live(f, GetParent(x)) \/ f[GetParent(x)] = Unusable
    BY <1>1
  <2>2. order[i] - order[GetParent(x)] = k + 1 /\ order[GetParent(x)] < order[i]
    BY <1>0, <2>1
  <2> QED BY <2>1, <2>2
<1>4. I = Nat
  <2> HIDE DEF I
  <2> QED BY <1>2, <1>3, AllNumbers DEF I
<1>5. (order[i] - order[j]) - 1 \in Nat /\ order[i] - order[j] = ((order[i] - order[j]) - 1) + 1
  BY <1>0
<1> QED BY <1>4, <1>5

Blocks(f) == FreeBlocks(f) \union UsedBlocks(f)

(* What is a block exists, and is not the root. *)
LEMMA BlocksFacts ==
    ASSUME NEW f, Shape(f), NEW i \in Blocks(f)
    PROVE  /\ i \in Node /\ f[i] \in {Free, Used} /\ Live(f, i)
           /\ Pages[i] \subseteq ValidPages /\ i # 1
<1>1. i \in Node /\ f[i] \in {Free, Used} /\ Live(f, i)
  BY DEF Blocks, FreeBlocks, UsedBlocks, Shape
<1>2. Pages[i] \subseteq ValidPages
  BY <1>1, FlagsApart DEF Shape
<1> QED BY <1>1, <1>2, RootUnusable

(* Blocks have no page in common. *)
LEMMA BlocksApart ==
    ASSUME NEW f, Shape(f), NEW i \in Blocks(f), NEW j \in Blocks(f), Pages[i] \cap Pages[j] # {}
    PROVE  i = j
<1>1. /\ i \in Node /\ f[i] \in {Free, Used} /\ Live(f, i)
      /\ j \in Node /\ f[j] \in {Free, Used} /\ Live(f, j)
  BY BlocksFacts
<1>2. order[i] \in Nat /\ order[j] \in Nat
  BY <1>1, OrderFacts
<1>3. ~ (order[i] < order[j])
  BY <1>1, AboveLive, FlagsApart
<1>4. ~ (order[j] < order[i])
  BY <1>1, AboveLive, FlagsApart
<1> QED BY <1>1, <1>2, <1>3, <1>4, SameOrderApart

(* Below a live node every page is in a block. *)
LEMMA LiveCovered ==
    ASSUME NEW f, Shape(f), NEW i \in Node, Live(f, i), f[i] # Unusable, NEW a \in Pages[i]
    PROVE  \E j \in Blocks(f) : a \in Pages[j]
<1> DEFINE I == {k \in Nat : \A x \in Node : order[x] = k /\ Live(f, x) /\ f[x] # Unusable /\ a \in Pages[x]
                                => \E j \in Blocks(f) : a \in Pages[j]}
<1>0. \A x \in Node : order[x] \in Nat
  BY OrderFacts
<1>1. ASSUME NEW x \in Node, Live(f, x), f[x] # Unusable, a \in Pages[x]
      PROVE  \/ \E j \in Blocks(f) : a \in Pages[j]
             \/ /\ order[x] # 0
                /\ \E y \in Node : order[y] = order[x] - 1 /\ Live(f, y) /\ f[y] # Unusable /\ a \in Pages[y]
  <2>1. CASE f[x] \in {Free, Used}
    BY <1>1, <2>1 DEF Blocks, FreeBlocks, UsedBlocks
  <2>2. CASE f[x] = Divided
    <3>1. order[x] # 0
      BY <2>2 DEF Shape
    <3>2. /\ 2 * x \in Node /\ 2 * x + 1 \in Node
          /\ order[2 * x] = order[x] - 1 /\ order[2 * x + 1] = order[x] - 1
          /\ Pages[2 * x] \union Pages[2 * x + 1] = Pages[x]
      BY <3>1, SonFacts, SonPages
    <3>3. /\ x \in Nat \ {0} /\ 2 * x # 1 /\ 2 * x + 1 # 1
          /\ GetParent(2 * x) = x /\ GetParent(2 * x + 1) = x
      BY OrderFacts DEF GetParent
    <3>4. Live(f, 2 * x) /\ Live(f, 2 * x + 1)
      BY <2>2, <3>3 DEF Live
    <3>5. Pages[x] \subseteq ValidPages
      BY <1>1 DEF Shape
    <3>6. f[2 * x] # Unusable /\ f[2 * x + 1] # Unusable
      BY <3>2, <3>5 DEF Shape
    <3> QED BY <1>1, <3>1, <3>2, <3>4, <3>6
  <2> QED BY <1>1, <2>1, <2>2 DEF Shape
<1>2. 0 \in I
  BY <1>1
<1>3. ASSUME NEW k \in I
      PROVE  k + 1 \in I
  <2> SUFFICES ASSUME NEW x \in Node, order[x] = k + 1, Live(f, x), f[x] # Unusable, a \in Pages[x]
               PROVE  \E j \in Blocks(f) : a \in Pages[j]
    OBVIOUS
  <2> SUFFICES ASSUME NEW y \in Node, order[y] = order[x] - 1, Live(f, y), f[y] # Unusable, a \in Pages[y]
               PROVE  \E j \in Blocks(f) : a \in Pages[j]
    BY <1>1
  <2>1. order[y] = k
    OBVIOUS
  <2> QED BY <2>1
<1>4. I = Nat
  <2> HIDE DEF I
  <2> QED BY <1>2, <1>3, AllNumbers DEF I
<1> QED BY <1>0, <1>4

(* Above a live node there is a block of Init, with all its pages. *)
LEMMA LiveInBase ==
    ASSUME NEW f, Shape(f), NEW i \in Node, Live(f, i)
    PROVE  \E b \in Base : Pages[i] \subseteq Pages[b]
<1> DEFINE I == {k \in Nat : \A x \in Node : max_order - order[x] = k /\ Live(f, x)
                                => \E b \in Base : Pages[x] \subseteq Pages[b]}
<1>0. \A x \in Node : order[x] \in Nat /\ max_order - order[x] \in Nat
  BY OrderFacts, PlaceFacts
<1>1. ASSUME NEW x \in Node, Live(f, x), x \notin Base
      PROVE  /\ x # 1 /\ GetParent(x) \in Node /\ order[GetParent(x)] = order[x] + 1
             /\ Pages[x] \subseteq Pages[GetParent(x)] /\ Live(f, GetParent(x))
  <2>1. x # 1 /\ f[GetParent(x)] = Divided
    BY <1>1 DEF Live
  <2>2. /\ GetParent(x) \in Node /\ order[GetParent(x)] = order[x] + 1
        /\ Pages[x] \subseteq Pages[GetParent(x)]
    BY <2>1, ParentFacts, PartnerPages
  <2>3. Live(f, GetParent(x))
    BY <2>1, <2>2 DEF Shape
  <2> QED BY <2>1, <2>2, <2>3
<1>2. 0 \in I
  <2> SUFFICES ASSUME NEW x \in Node, max_order - order[x] = 0, Live(f, x)
               PROVE  \E b \in Base : Pages[x] \subseteq Pages[b]
    OBVIOUS
  <2>1. x = 1
    BY <1>0, RootFacts, ZoneAssumption
  <2> QED BY <1>1, <2>1
<1>3. ASSUME NEW k \in I
      PROVE  k + 1 \in I
  <2> SUFFICES ASSUME NEW x \in Node, max_order - order[x] = k + 1, Live(f, x), x \notin Base
               PROVE  \E b \in Base : Pages[x] \subseteq Pages[b]
    OBVIOUS
  <2>1. /\ GetParent(x) \in Node /\ order[GetParent(x)] = order[x] + 1
        /\ Pages[x] \subseteq Pages[GetParent(x)] /\ Live(f, GetParent(x))
    BY <1>1
  <2>2. max_order - order[GetParent(x)] = k
    BY <1>0, <2>1, ZoneAssumption
  <2>3. \E b \in Base : Pages[GetParent(x)] \subseteq Pages[b]
    BY <2>1, <2>2
  <2> QED BY <2>1, <2>3
<1>4. I = Nat
  <2> HIDE DEF I
  <2> QED BY <1>2, <1>3, AllNumbers DEF I
<1> QED BY <1>0, <1>4

(* The blocks together have the pages that Init has put on the lists. *)
LEMMA BlocksCover ==
    ASSUME NEW f, Shape(f)
    PROVE  PagesIn(Blocks(f)) = PagesIn(Base)
<1>1. ASSUME NEW a \in PagesIn(Blocks(f))
      PROVE  a \in PagesIn(Base)
  <2>1. PICK i \in Blocks(f) : a \in Pages[i]
    BY DEF PagesIn
  <2>2. \E b \in Base : Pages[i] \subseteq Pages[b]
    BY BlocksFacts, LiveInBase
  <2> QED BY <2>1, <2>2 DEF PagesIn
<1>2. ASSUME NEW a \in PagesIn(Base)
      PROVE  a \in PagesIn(Blocks(f))
  <2>1. PICK b \in Base : a \in Pages[b]
    BY DEF PagesIn
  <2>2. b \in Node /\ Live(f, b) /\ f[b] # Unusable
    BY BaseFacts DEF Live, Shape
  <2>3. \E j \in Blocks(f) : a \in Pages[j]
    BY <2>1, <2>2, LiveCovered
  <2> QED BY <2>3 DEF PagesIn
<1> QED BY <1>1, <1>2

(* A divided node has a used one below it. *)
LEMMA DividedHoldsUsed ==
    ASSUME NEW f, Shape(f), NEW i \in Node, f[i] = Divided
    PROVE  \E p \in UsedBlocks(f) : Pages[p] \subseteq Pages[i]
<1> DEFINE I == {k \in Nat : \A x \in Node : order[x] = k /\ f[x] = Divided
                                => \E p \in UsedBlocks(f) : Pages[p] \subseteq Pages[x]}
<1>0. \A x \in Node : order[x] \in Nat
  BY OrderFacts
<1>1. ASSUME NEW x \in Node, f[x] = Divided
      PROVE  /\ order[x] # 0
             /\ \E y \in Node : /\ order[y] = order[x] - 1 /\ Pages[y] \subseteq Pages[x]
                                /\ f[y] \in {Used, Divided}
  <2>1. order[x] # 0
    BY <1>1 DEF Shape
  <2>2. /\ 2 * x \in Node /\ 2 * x + 1 \in Node
        /\ order[2 * x] = order[x] - 1 /\ order[2 * x + 1] = order[x] - 1
        /\ Pages[2 * x] \subseteq Pages[x] /\ Pages[2 * x + 1] \subseteq Pages[x]
    BY <2>1, SonFacts, SonPages
  <2>3. /\ x \in Nat \ {0} /\ 2 * x # 1 /\ GetParent(2 * x) = x
    BY OrderFacts DEF GetParent
  <2>4. GetPartner(2 * x) = 2 * x + 1
    BY <2>3 DEF GetPartner
  <2>5. f[2 * x] # Free \/ f[2 * x + 1] # Free
    BY <1>1, <2>2, <2>3, <2>4 DEF Shape
  <2>6. Pages[x] \subseteq ValidPages
    BY <1>1, FlagsApart DEF Shape
  <2>7. f[2 * x] # Unusable /\ f[2 * x + 1] # Unusable
    BY <2>2, <2>6 DEF Shape
  <2>8. f[2 * x] \in {Used, Divided} \/ f[2 * x + 1] \in {Used, Divided}
    BY <2>2, <2>5, <2>7 DEF Shape
  <2> QED BY <2>1, <2>2, <2>8
<1>2. 0 \in I
  BY <1>1
<1>3. ASSUME NEW k \in I
      PROVE  k + 1 \in I
  <2> SUFFICES ASSUME NEW x \in Node, order[x] = k + 1, f[x] = Divided
               PROVE  \E p \in UsedBlocks(f) : Pages[p] \subseteq Pages[x]
    OBVIOUS
  <2>1. PICK y \in Node : order[y] = order[x] - 1 /\ Pages[y] \subseteq Pages[x] /\ f[y] \in {Used, Divided}
    BY <1>1
  <2>2. CASE f[y] = Used
    BY <2>1, <2>2 DEF UsedBlocks
  <2>3. CASE f[y] = Divided
    <3>1. order[y] = k
      BY <2>1
    <3>2. \E p \in UsedBlocks(f) : Pages[p] \subseteq Pages[y]
      BY <2>3, <3>1
    <3> QED BY <2>1, <3>2
  <2> QED BY <2>1, <2>2, <2>3
<1>4. I = Nat
  <2> HIDE DEF I
  <2> QED BY <1>2, <1>3, AllNumbers DEF I
<1> QED BY <1>0, <1>4

-----------------------------------------------------------------------------
(* Splitting.                                                              *)

(* The way from b down to its rightmost leaf. *)
LEMMA RightmostFacts ==
    ASSUME NEW b \in Node
    PROVE  /\ Rightmost(b, order[b]) = b
           /\ \A c \in 0 .. order[b] :
                 /\ Rightmost(b, c) \in Node /\ order[Rightmost(b, c)] = c
                 /\ c < order[b] => /\ Rightmost(b, c) # 1
                                    /\ GetParent(Rightmost(b, c)) = Rightmost(b, c + 1)
<1> DEFINE n == order[b]
           R(c) == Rightmost(b, c)
           I == {k \in Nat : k <= n => R(n - k) \in Node /\ order[R(n - k)] = n - k}
<1>1. n \in Nat /\ b \in Nat \ {0}
  BY OrderFacts
<1>2. R(n) = b
  BY <1>1, Pow2Facts DEF Rightmost
<1>3. ASSUME NEW c \in Nat, c < n
      PROVE  R(c) = 2 * R(c + 1) + 1
  <2> DEFINE d == n - (c + 1)
             P == Pow2[d]
  <2>1. d \in Nat /\ n - c = d + 1
    BY <1>1, <1>3
  <2>2. Pow2[n - c] = 2 * P /\ P \in Nat
    BY <2>1, Pow2Facts
  <2>3. R(c) = (b + 1) * (2 * P) - 1 /\ R(c + 1) = (b + 1) * P - 1
    BY <2>2 DEF Rightmost
  <2> HIDE DEF P, R
  <2>4. (b + 1) * (2 * P) = 2 * ((b + 1) * P) /\ (b + 1) * P \in Nat
    BY <1>1, <2>2
  <2> QED BY <2>3, <2>4
<1> HIDE DEF R
<1>4. 0 \in I
  BY <1>1, <1>2
<1>5. ASSUME NEW k \in I
      PROVE  k + 1 \in I
  <2> SUFFICES ASSUME k + 1 <= n
               PROVE  R(n - (k + 1)) \in Node /\ order[R(n - (k + 1))] = n - (k + 1)
    OBVIOUS
  <2> DEFINE c == n - (k + 1)
  <2>1. c \in Nat /\ c < n /\ c + 1 = n - k /\ k <= n
    BY <1>1
  <2>2. R(c + 1) \in Node /\ order[R(c + 1)] = c + 1
    BY <2>1
  <2>3. R(c) = 2 * R(c + 1) + 1
    BY <1>3, <2>1
  <2> HIDE DEF c
  <2>4. order[R(c + 1)] # 0 /\ order[R(c + 1)] - 1 = c
    BY <2>1, <2>2
  <2>5. R(c) \in Node /\ order[R(c)] = c
    BY <2>2, <2>3, <2>4, SonFacts
  <2> QED BY <2>5 DEF c
<1>6. I = Nat
  <2> HIDE DEF I
  <2> QED BY <1>4, <1>5, AllNumbers DEF I
<1>7. ASSUME NEW c \in 0 .. n
      PROVE  R(c) \in Node /\ order[R(c)] = c
  <2>1. n - c \in I /\ n - c <= n /\ n - (n - c) = c
    BY <1>1, <1>6
  <2> QED BY <2>1
<1>8. ASSUME NEW c \in 0 .. n, c < n
      PROVE  R(c) # 1 /\ GetParent(R(c)) = R(c + 1)
  <2>1. R(c) = 2 * R(c + 1) + 1 /\ c + 1 \in 0 .. n
    BY <1>1, <1>3, <1>8
  <2>2. R(c + 1) \in Nat \ {0}
    BY <1>7, <2>1, OrderFacts
  <2> QED BY <2>1, <2>2 DEF GetParent
<1> QED BY <1>2, <1>7, <1>8 DEF R

\* Flags f once b has been split down to its rightmost node of order o.
SplitTo(f, b, o) ==
    [i \in Node |-> IF i = Rightmost(b, o) THEN Used
                    ELSE IF i \in {Rightmost(b, c) : c \in o + 1 .. order[b]} THEN Divided ELSE f[i]]

(* Splitting a free block keeps the shape; it leaves the partners of the    *)
(* nodes on its way free, and its last node used.                           *)
LEMMA SplitShape ==
    ASSUME NEW f, Shape(f), NEW b \in FreeBlocks(f), NEW o \in 0 .. order[b]
    PROVE  LET g == SplitTo(f, b, o)
               p == Rightmost(b, o)
           IN  /\ Shape(g)
               /\ p \in Node /\ order[p] = o /\ f[p] = Free
               /\ UsedBlocks(g) = UsedBlocks(f) \union {p}
               /\ FreeBlocks(g) = (FreeBlocks(f) \ {b})
                     \union {GetPartner(Rightmost(b, c)) : c \in o .. order[b] - 1}
               /\ \A c \in o .. order[b] - 1 :
                     /\ GetPartner(Rightmost(b, c)) \in Node \ FreeBlocks(f)
                     /\ order[GetPartner(Rightmost(b, c))] = c
<1> DEFINE n == order[b]
           R(c) == Rightmost(b, c)
           g == SplitTo(f, b, o)
           p == R(o)
           path == {R(c) : c \in o + 1 .. n}
<1>1. b \in Node /\ f[b] = Free /\ Live(f, b) /\ n \in Nat /\ b # 1 /\ b \in Nat
  <2>1. b \in Node /\ f[b] = Free /\ Live(f, b) /\ b \in Blocks(f)
    BY DEF FreeBlocks, Blocks
  <2> QED BY <2>1, BlocksFacts, OrderFacts
<1>2. /\ R(n) = b
      /\ \A c \in 0 .. n : R(c) \in Node /\ order[R(c)] = c
      /\ \A c \in 0 .. n : c < n => R(c) # 1 /\ GetParent(R(c)) = R(c + 1)
  BY <1>1, RightmostFacts
<1>3. o \in Nat /\ o <= n
  BY <1>1
<1>4. g = [i \in Node |-> IF i = p THEN Used ELSE IF i \in path THEN Divided ELSE f[i]]
  BY DEF SplitTo
<1> HIDE DEF R, g, n
<1>5. \A c \in 0 .. n : f[R(c)] = Free
  <2> DEFINE I == {k \in Nat : k <= n => f[R(n - k)] = Free}
  <2>1. 0 \in I
    BY <1>1, <1>2
  <2>2. ASSUME NEW k \in I
        PROVE  k + 1 \in I
    <3> SUFFICES ASSUME k + 1 <= n
                 PROVE  f[R(n - (k + 1))] = Free
      OBVIOUS
    <3> DEFINE c == n - (k + 1)
    <3>1. c \in 0 .. n /\ c < n /\ c + 1 = n - k /\ k <= n
      BY <1>1
    <3>2. R(c) \in Node \ {1} /\ GetParent(R(c)) = R(c + 1) /\ f[R(c + 1)] = Free
      BY <1>2, <3>1
    <3> HIDE DEF c
    <3>3. f[R(c)] = Free
      BY <3>2 DEF Shape
    <3> QED BY <3>3 DEF c
  <2>3. I = Nat
    <3> HIDE DEF I
    <3> QED BY <2>1, <2>2, AllNumbers DEF I
  <2>4. ASSUME NEW c \in 0 .. n PROVE f[R(c)] = Free
    <3>1. n - c \in Nat /\ n - c <= n /\ n - (n - c) = c
      BY <1>1
    <3>2. n - c \in I
      BY <2>3, <3>1
    <3> QED BY <3>1, <3>2
  <2> QED BY <2>4
<1>6. /\ p \in Node /\ order[p] = o /\ f[p] = Free
      /\ \A i \in path : i \in Node /\ order[i] # 0 /\ f[i] = Free /\ order[i] > o
      /\ p \notin path
  <2>1. \A c \in o + 1 .. n : c \in 0 .. n /\ c # 0 /\ c > o
    BY <1>1, <1>3
  <2> QED BY <1>2, <1>3, <1>5, <2>1
<1>7. /\ g[p] = Used /\ \A i \in path : g[i] = Divided
      /\ \A i \in Node : i # p /\ i \notin path => g[i] = f[i]
  BY <1>4, <1>6
\* A node on the way is the start or has its parent on the way.
<1>8. \A i \in path \union {p} : i = b \/ (i # 1 /\ GetParent(i) \in path)
  <2> SUFFICES ASSUME NEW c \in o .. n
               PROVE  R(c) = b \/ (R(c) # 1 /\ GetParent(R(c)) \in path)
    BY <1>1, <1>3
  <2>1. CASE c = n
    BY <1>2, <2>1
  <2>2. CASE c # n
    <3>1. c \in 0 .. n /\ c < n /\ c + 1 \in o + 1 .. n
      BY <1>1, <1>3, <2>2
    <3> QED BY <1>2, <3>1
  <2> QED BY <2>1, <2>2
\* A node on the way above its end has its son on the way.
<1>9. \A h \in path : \E i \in path \union {p} : i # 1 /\ GetParent(i) = h
  <2> SUFFICES ASSUME NEW c \in o + 1 .. n
               PROVE  \E i \in path \union {p} : i # 1 /\ GetParent(i) = R(c)
    OBVIOUS
  <2>1. c - 1 \in 0 .. n /\ c - 1 < n /\ (c - 1) + 1 = c /\ (c - 1 = o \/ c - 1 \in o + 1 .. n)
    BY <1>1, <1>3
  <2>2. R(c - 1) # 1 /\ GetParent(R(c - 1)) = R(c) /\ R(c - 1) \in path \union {p}
    BY <1>2, <2>1
  <2> QED BY <2>2
<1>10. b \in path \union {p}
  <2>1. n = o \/ n \in o + 1 .. n
    BY <1>1, <1>3
  <2> QED BY <1>2, <2>1
<1> HIDE DEF p, path
<1>11. f[GetParent(b)] # Free /\ f[GetParent(b)] # Used /\ GetParent(b) \in Node
  <2>1. GetParent(b) \in Node
    BY <1>1, ParentFacts
  <2>2. b \in Base => f[GetParent(b)] = Unusable
    BY <1>1, LiveAbove
  <2> QED BY <1>1, <2>1, <2>2, FlagsApart DEF Live
<1>12. GetParent(b) # p /\ GetParent(b) \notin path
  BY <1>6, <1>11
<1>13. Shape(g)
  <2>1. g \in [Node -> {Unusable, Free, Used, Divided}]
    BY <1>4 DEF Shape
  <2>2. ASSUME NEW i \in Node
        PROVE  g[i] = Unusable <=> ~ (Pages[i] \subseteq ValidPages)
    BY <1>6, <1>7, FlagsApart DEF Shape
  <2>3. ASSUME NEW i \in Node \ {1}, g[GetParent(i)] \in {Free, Used}
        PROVE  g[i] = Free
    <3>1. GetParent(i) \in Node
      BY ParentFacts
    <3>2. GetParent(i) \notin path /\ f[GetParent(i)] \in {Free, Used}
      BY <1>6, <1>7, <2>3, <3>1, FlagsApart
    <3>3. f[i] = Free
      BY <3>2 DEF Shape
    <3>4. i # b
      BY <1>11, <3>2
    <3>5. i \notin path /\ i # p
      BY <1>8, <3>2, <3>4
    <3> QED BY <1>7, <3>3, <3>5
  <2>4. ASSUME NEW i \in Node, g[i] = Divided
        PROVE  order[i] # 0
    BY <1>6, <1>7, <2>4, FlagsApart DEF Shape
  <2>5. ASSUME NEW i \in Node \ {1}, g[GetParent(i)] = Divided
        PROVE  g[i] # Free \/ g[GetPartner(i)] # Free
    <3>1. CASE GetParent(i) \in path
      <4>1. PICK j \in path \union {p} : j # 1 /\ GetParent(j) = GetParent(i)
        BY <1>9, <3>1
      <4>2. j \in Node /\ g[j] # Free
        BY <1>6, <1>7, <4>1, FlagsApart
      <4>3. j = i \/ j = GetPartner(i)
        BY <4>1, <4>2, PartnerFacts
      <4> QED BY <4>2, <4>3
    <3>2. CASE GetParent(i) \notin path
      <4>1. f[GetParent(i)] = Divided
        BY <1>7, <2>5, <3>2, FlagsApart, ParentFacts
      <4>2. f[i] # Free \/ f[GetPartner(i)] # Free
        BY <4>1 DEF Shape
      <4>3. \A j \in Node : f[j] # Free => g[j] # Free
        BY <1>6, <1>7
      <4> QED BY <4>2, <4>3, PartnerFacts
    <3> QED BY <3>1, <3>2
  <2>6. ASSUME NEW i \in Node, g[i] \in {Divided, Used}
        PROVE  Live(g, i)
    <3>1. CASE i = b
      <4>1. b \in Base \/ f[GetParent(b)] = Divided
        BY <1>1 DEF Live
      <4>2. g[GetParent(b)] = f[GetParent(b)]
        BY <1>7, <1>11, <1>12
      <4> QED BY <1>1, <3>1, <4>1, <4>2 DEF Live
    <3>2. CASE i \in path \union {p} /\ i # b
      BY <1>7, <1>8, <3>2 DEF Live
    <3>3. CASE i \notin path \union {p}
      <4>1. Live(f, i)
        BY <1>7, <2>6, <3>3 DEF Shape
      <4>2. i # 1 /\ f[GetParent(i)] = Divided => g[GetParent(i)] = Divided
        BY <1>6, <1>7, FlagsApart, ParentFacts
      <4> QED BY <4>1, <4>2 DEF Live
    <3> QED BY <3>1, <3>2, <3>3
  <2> QED BY <2>1, <2>2, <2>3, <2>4, <2>5, <2>6 DEF Shape
<1>14. UsedBlocks(g) = UsedBlocks(f) \union {p}
  BY <1>6, <1>7, FlagsApart DEF UsedBlocks
<1> DEFINE left == {GetPartner(R(c)) : c \in o .. n - 1}
<1>15. ASSUME NEW c \in o .. n - 1
       PROVE  /\ R(c) \in path \union {p} /\ R(c) # b /\ R(c) \in Node /\ R(c) # 1
              /\ GetParent(R(c)) \in path /\ GetPartner(R(c)) \in Node \ {1}
              /\ GetParent(GetPartner(R(c))) = GetParent(R(c))
              /\ order[GetPartner(R(c))] = c
              /\ f[GetPartner(R(c))] = Free /\ GetPartner(R(c)) \notin path \union {p, b}
              /\ ~ Live(f, GetPartner(R(c)))
  <2>1. c \in 0 .. n /\ c < n /\ (c = o \/ c \in o + 1 .. n) /\ c + 1 \in o + 1 .. n
    BY <1>1, <1>3
  <2>2. R(c) \in Node /\ order[R(c)] = c /\ R(c) # 1 /\ GetParent(R(c)) = R(c + 1)
    BY <1>2, <2>1
  <2>3. R(c) \in path \union {p} /\ GetParent(R(c)) \in path
    BY <2>1, <2>2 DEF path, p
  <2>4. /\ GetPartner(R(c)) \in Node \ {1} /\ order[GetPartner(R(c))] = c
        /\ GetParent(GetPartner(R(c))) = GetParent(R(c)) /\ GetPartner(R(c)) # R(c)
    BY <2>2, PartnerFacts
  <2>5. f[GetParent(R(c))] = Free
    BY <1>6, <2>3
  <2>6. f[GetPartner(R(c))] = Free
    BY <2>4, <2>5 DEF Shape
  <2>7. \A e \in o .. n : order[R(e)] = e
    BY <1>2, <1>3
  <2>8. GetPartner(R(c)) \notin path \union {p}
    <3>1. \A i \in path \union {p} : order[i] = c => i = R(c)
      BY <1>1, <1>3, <2>7 DEF path, p
    <3> QED BY <2>4, <3>1
  <2>9. ~ Live(f, GetPartner(R(c)))
    <3>1. GetPartner(R(c)) \notin Base
      BY <2>4, <2>5, LiveAbove, FlagsApart
    <3> QED BY <2>4, <2>5, <3>1, FlagsApart DEF Live
  <2>10. R(c) # b
    BY <1>1, <2>1, <2>2 DEF n
  <2> QED BY <1>10, <2>2, <2>3, <2>4, <2>6, <2>8, <2>9, <2>10
<1>16. ASSUME NEW i \in FreeBlocks(g)
       PROVE  i \in (FreeBlocks(f) \ {b}) \union left
  <2>1. i \in Node /\ g[i] = Free /\ Live(g, i)
    BY DEF FreeBlocks
  <2>2. i \notin path \union {p} /\ f[i] = Free
    BY <1>7, <2>1, FlagsApart
  <2>3. CASE i \in Base
    BY <1>10, <2>1, <2>2, <2>3 DEF FreeBlocks, Live
  <2>4. CASE i # 1 /\ g[GetParent(i)] = Divided /\ GetParent(i) \notin path
    <3>1. f[GetParent(i)] = Divided
      BY <1>7, <2>1, <2>4, FlagsApart, ParentFacts
    <3> QED BY <1>10, <2>1, <2>2, <2>4, <3>1 DEF FreeBlocks, Live
  <2>5. CASE i # 1 /\ GetParent(i) \in path
    <3>1. PICK c \in o + 1 .. n : GetParent(i) = R(c)
      BY <2>5 DEF path
    <3>2. c - 1 \in o .. n - 1 /\ c - 1 \in 0 .. n /\ c - 1 < n /\ (c - 1) + 1 = c
      BY <1>1, <1>3
    <3>3. R(c - 1) \in path \union {p} /\ R(c - 1) \in Node /\ R(c - 1) # 1
      BY <1>15, <3>2
    <3>4. GetParent(R(c - 1)) = GetParent(i)
      BY <1>2, <3>1, <3>2
    <3>5. i = GetPartner(R(c - 1))
      BY <2>1, <2>2, <2>5, <3>3, <3>4, PartnerFacts
    <3> QED BY <3>2, <3>5
  <2> QED BY <2>1, <2>3, <2>4, <2>5 DEF Live
<1>17. ASSUME NEW i \in FreeBlocks(f), i # b
       PROVE  i \in FreeBlocks(g)
  <2>1. i \in Node /\ f[i] = Free /\ Live(f, i)
    BY DEF FreeBlocks
  <2>2. i \notin path \union {p}
    <3> SUFFICES ASSUME i \in path \union {p} PROVE FALSE
      OBVIOUS
    <3>1. i # 1 /\ GetParent(i) \in path
      BY <1>8, <1>17
    <3>2. f[GetParent(i)] = Free
      BY <1>6, <3>1
    <3>3. i \notin Base
      BY <2>1, <3>1, <3>2, LiveAbove, FlagsApart
    <3> QED BY <2>1, <3>2, <3>3, FlagsApart DEF Live
  <2>3. g[i] = Free
    BY <1>7, <2>1, <2>2
  <2>4. i # 1 /\ f[GetParent(i)] = Divided => g[GetParent(i)] = Divided
    BY <1>6, <1>7, <2>1, FlagsApart, ParentFacts
  <2> QED BY <2>1, <2>3, <2>4 DEF FreeBlocks, Live
<1>18. ASSUME NEW i \in left
       PROVE  i \in FreeBlocks(g)
  <2>1. PICK c \in o .. n - 1 : i = GetPartner(R(c))
    OBVIOUS
  <2>2. i \in Node \ {1} /\ f[i] = Free /\ i \notin path \union {p} /\ GetParent(i) \in path
    BY <1>15, <2>1
  <2> QED BY <1>7, <2>2 DEF FreeBlocks, Live
<1>19. FreeBlocks(g) = (FreeBlocks(f) \ {b}) \union left
  <2> HIDE DEF left
  <2> QED BY <1>16, <1>17, <1>18
<1>20. \A c \in o .. n - 1 : /\ GetPartner(R(c)) \in Node \ FreeBlocks(f)
                             /\ order[GetPartner(R(c))] = c
  BY <1>15 DEF FreeBlocks
<1> QED BY <1>6, <1>13, <1>14, <1>19, <1>20 DEF p, R, n, g

-----------------------------------------------------------------------------
(* Merging.                                                                *)

\* Merging from p ends k levels up: the first time the partner is not free.
MergeEnds(f, p, k) ==
    /\ k \in 0 .. max_order - order[p] - 1
    /\ f[GetPartner(Above(p, k))] # Free
    /\ \A j \in 0 .. k - 1 : f[GetPartner(Above(p, j))] = Free

(* Merge stops below the root. *)
LEMMA MergeStops ==
    ASSUME NEW f, Shape(f), NEW p \in UsedBlocks(f)
    PROVE  \E k \in Nat : MergeEnds(f, p, k)
<1> DEFINE n == max_order - order[p]
           S == {k \in 0 .. n - 1 : f[GetPartner(Above(p, k))] # Free}
<1>1. p \in Node /\ f[p] = Used /\ order[p] \in Nat /\ n \in Nat /\ p \in Nat
  <2>1. p \in Node /\ f[p] = Used
    BY DEF UsedBlocks
  <2> QED BY <2>1, OrderFacts, PlaceFacts
<1>2. S # {}
  <2> SUFFICES ASSUME \A k \in 0 .. n - 1 : f[GetPartner(Above(p, k))] = Free
               PROVE  FALSE
    OBVIOUS
  <2> DEFINE I == {k \in Nat : k <= n => Pages[Above(p, k)] \subseteq ValidPages}
  <2>1. 0 \in I
    <3>1. Above(p, 0) = p
      BY <1>1, AboveNext
    <3>2. Pages[p] \subseteq ValidPages
      BY <1>1, FlagsApart DEF Shape
    <3> QED BY <3>1, <3>2
  <2>2. ASSUME NEW k \in I
        PROVE  k + 1 \in I
    <3> SUFFICES ASSUME k + 1 <= n
                 PROVE  Pages[Above(p, k + 1)] \subseteq ValidPages
      OBVIOUS
    <3>1. k \in 0 .. n /\ k < n /\ k \in 0 .. n - 1
      BY <1>1
    <3>2. /\ Above(p, k) \in Node \ {1} /\ Pages[Above(p, k)] \subseteq ValidPages
          /\ Above(p, k + 1) = GetParent(Above(p, k))
      BY <1>1, <3>1, AboveFacts, AboveNext
    <3>3. f[GetPartner(Above(p, k))] = Free
      BY <3>1
    <3>4. GetPartner(Above(p, k)) \in Node
      BY <3>2, PartnerFacts
    <3>5. Pages[GetPartner(Above(p, k))] \subseteq ValidPages
      BY <3>3, <3>4, FlagsApart DEF Shape
    <3> QED BY <3>2, <3>5, PartnerPages
  <2>3. I = Nat
    <3> HIDE DEF I
    <3> QED BY <2>1, <2>2, AllNumbers DEF I
  <2>4. Pages[Above(p, n)] \subseteq ValidPages
    BY <1>1, <2>3
  <2>5. Above(p, n) \in Node /\ order[Above(p, n)] = order[p] + n
    BY <1>1, AboveFacts
  <2>6. Above(p, n) = 1
    <3>1. order[p] + n = max_order
      BY <1>1, ZoneAssumption
    <3> HIDE DEF n
    <3> QED BY <2>5, <3>1, RootFacts
  <2> QED BY <2>4, <2>6, RootUnusable
<1>3. S \in SUBSET Nat
  OBVIOUS
<1>4. Min(S) \in S /\ \A k \in S : Min(S) <= k
  <2> HIDE DEF S
  <2> QED BY <1>2, <1>3, LeastNumber
<1>5. \A j \in 0 .. Min(S) - 1 : j \in 0 .. n - 1 /\ j \notin S
  BY <1>1, <1>4
<1>6. Min(S) \in 0 .. n - 1 /\ f[GetPartner(Above(p, Min(S)))] # Free
  BY <1>4
<1>7. \A j \in 0 .. Min(S) - 1 : f[GetPartner(Above(p, j))] = Free
  BY <1>5
<1>8. MergeEnds(f, p, Min(S)) /\ Min(S) \in Nat
  <2> HIDE DEF S
  <2> QED BY <1>6, <1>7 DEF MergeEnds
<1> QED BY <1>8

(* Where it stops is what Merge returns. *)
LEMMA MergeIs ==
    ASSUME NEW p, NEW k \in Nat, MergeEnds(flags, p, k)
    PROVE  Merge(p) = Above(p, k)
<1> DEFINE Ends(j) == /\ flags[GetPartner(Above(p, j))] # Free
                      /\ \A m \in 0 .. j - 1 : ~ (flags[GetPartner(Above(p, m))] # Free)
           n == max_order - order[p] - 1
           K == CHOOSE j \in 0 .. n : Ends(j)
<1>1. k \in 0 .. n /\ Ends(k)
  BY DEF MergeEnds
<1>2. Merge(p) = Above(p, K)
  BY DEF Merge
<1>3. K \in 0 .. n /\ Ends(K)
  <2> HIDE DEF Ends, n
  <2> QED BY <1>1
<1> HIDE DEF K
<1>4. ASSUME NEW i \in 0 .. n, NEW j \in 0 .. n, Ends(i), Ends(j), i < j
      PROVE  FALSE
  <2>1. i \in 0 .. j - 1
    BY <1>4
  <2> QED BY <1>4, <2>1
<1>5. K \in Int /\ k \in Int
  BY <1>3
<1>6. ~ (K < k) /\ ~ (k < K)
  <2> HIDE DEF Ends, n
  <2> QED BY <1>1, <1>3, <1>4
<1> QED BY <1>2, <1>5, <1>6

\* Flags f once p has been freed and merged up to top.
MergeTo(f, p, top) == [i \in Node |-> IF i \in UpTo(p, top) THEN Free ELSE f[i]]

(* The nodes met on the way up.                                            *)
LEMMA MergeWay ==
    ASSUME NEW f, Shape(f), NEW p \in UsedBlocks(f), NEW k \in Nat, MergeEnds(f, p, k)
    PROVE  LET top == Above(p, k)
               up == UpTo(p, top)
           IN  /\ p \in up /\ top \in up /\ order[top] \in Order
               /\ \A i \in up : /\ i \in Node /\ i # 1 /\ Live(f, i)
                                /\ f[i] = IF i = p THEN Used ELSE Divided
               /\ \A i \in up \ {top} : /\ GetParent(i) \in up /\ f[GetParent(i)] = Divided
                                        /\ f[GetPartner(i)] = Free /\ i \notin Base
               /\ \A i \in up \ {p} : \E j \in up \ {top} : GetParent(j) = i
               /\ GetParent(top) \notin up
               /\ GetPartner(top) \notin up /\ f[GetPartner(top)] # Free
<1> DEFINE n == order[p]
           A(j) == Above(p, j)
           top == A(k)
           up == {A(j) : j \in 0 .. k}
<1>1. p \in Node /\ f[p] = Used /\ n \in Nat /\ p \in Nat
  <2>1. p \in Node /\ f[p] = Used
    BY DEF UsedBlocks
  <2> QED BY <2>1, OrderFacts
<1>2. /\ k \in 0 .. max_order - n - 1 /\ f[GetPartner(top)] # Free
      /\ \A j \in 0 .. k - 1 : f[GetPartner(A(j))] = Free
  BY DEF MergeEnds
<1>3. \A j \in 0 .. k + 1 : A(j) \in Node /\ order[A(j)] = n + j
  <2>1. \A j \in 0 .. k + 1 : j \in 0 .. max_order - n
    BY <1>1, <1>2, ZoneAssumption
  <2> QED BY <1>1, <2>1, AboveFacts
<1>4. \A j \in 0 .. k : A(j) # 1
  <2>1. \A j \in 0 .. k : j \in 0 .. max_order - n /\ j < max_order - n
    BY <1>1, <1>2, ZoneAssumption
  <2> QED BY <1>1, <2>1, AboveFacts
<1>5. A(0) = p /\ \A j \in Nat : A(j + 1) = GetParent(A(j))
  BY <1>1, AboveNext
<1>6. UpTo(p, top) = up
  <2>1. order[top] - order[p] = k
    BY <1>1, <1>3
  <2> QED BY <2>1 DEF UpTo
<1> DEFINE Met(j) == /\ Live(f, A(j)) /\ f[A(j)] = IF j = 0 THEN Used ELSE Divided
<1> HIDE DEF A, n
<1>7. ASSUME NEW j \in 0 .. k, j # k, Met(j)
      PROVE  A(j) \notin Base /\ f[A(j + 1)] = Divided
  <2>1. /\ A(j) \in Node \ {1} /\ f[GetPartner(A(j))] = Free /\ A(j + 1) = GetParent(A(j))
    BY <1>2, <1>3, <1>4, <1>5, <1>7
  <2>2. A(j) \notin Base
    <3> SUFFICES ASSUME A(j) \in Base PROVE FALSE
      OBVIOUS
    <3>1. Pages[A(j)] \subseteq ValidPages /\ ~ (Pages[GetParent(A(j))] \subseteq ValidPages)
      BY BaseFacts
    <3>2. GetPartner(A(j)) \in Node /\ Pages[A(j)] \union Pages[GetPartner(A(j))] = Pages[GetParent(A(j))]
      BY <2>1, PartnerFacts, PartnerPages
    <3>3. Pages[GetPartner(A(j))] \subseteq ValidPages
      BY <2>1, <3>2, FlagsApart DEF Shape
    <3> QED BY <3>1, <3>2, <3>3
  <2>3. Live(f, A(j))
    BY <1>7
  <2> QED BY <2>1, <2>2, <2>3 DEF Live
<1>8. \A j \in 0 .. k : Met(j)
  <2> DEFINE I == {j \in Nat : j <= k => Met(j)}
  <2>1. 0 \in I
    <3>1. Live(f, p)
      BY <1>1 DEF Shape
    <3> QED BY <1>1, <1>5, <3>1
  <2>2. ASSUME NEW j \in I
        PROVE  j + 1 \in I
    <3> SUFFICES ASSUME j + 1 <= k
                 PROVE  Met(j + 1)
      OBVIOUS
    <3>1. j \in 0 .. k /\ j # k /\ Met(j) /\ j + 1 # 0 /\ j + 1 \in 0 .. k + 1
      OBVIOUS
    <3> HIDE DEF Met
    <3>2. f[A(j + 1)] = Divided
      BY <1>7, <3>1
    <3>3. A(j + 1) \in Node
      BY <1>3, <3>1
    <3>4. Live(f, A(j + 1))
      BY <3>2, <3>3 DEF Shape
    <3> QED BY <3>1, <3>2, <3>4 DEF Met
  <2>3. I = Nat
    <3> HIDE DEF I
    <3> QED BY <2>1, <2>2, AllNumbers DEF I
  <2> QED BY <2>3
<1>9. \A j \in 0 .. k : (A(j) = p) <=> (j = 0)
  BY <1>1, <1>3, <1>5 DEF n
<1>10. p \in up /\ top \in up /\ order[top] \in Order
  <2>1. 0 \in 0 .. k /\ k \in 0 .. k
    OBVIOUS
  <2>2. top \in Node
    BY <1>3, <2>1
  <2> QED BY <1>5, <2>1, <2>2, OrderFacts
<1>11. \A i \in up : i \in Node /\ i # 1 /\ Live(f, i) /\ f[i] = IF i = p THEN Used ELSE Divided
  <2> SUFFICES ASSUME NEW j \in 0 .. k
               PROVE  /\ A(j) \in Node /\ A(j) # 1 /\ Live(f, A(j))
                      /\ f[A(j)] = IF A(j) = p THEN Used ELSE Divided
    OBVIOUS
  <2>1. A(j) \in Node /\ A(j) # 1
    BY <1>3, <1>4
  <2> QED BY <1>8, <1>9, <2>1
<1>12. \A i \in up \ {top} : /\ GetParent(i) \in up /\ f[GetParent(i)] = Divided
                             /\ f[GetPartner(i)] = Free /\ i \notin Base
  <2> SUFFICES ASSUME NEW j \in 0 .. k, A(j) # top
               PROVE  /\ GetParent(A(j)) \in up /\ f[GetParent(A(j))] = Divided
                      /\ f[GetPartner(A(j))] = Free /\ A(j) \notin Base
    OBVIOUS
  <2>1. j # k /\ j \in 0 .. k - 1 /\ j + 1 \in 0 .. k
    OBVIOUS
  <2>2. A(j + 1) = GetParent(A(j))
    BY <1>5
  <2> HIDE DEF Met
  <2>3. A(j) \notin Base /\ f[A(j + 1)] = Divided
    BY <1>7, <1>8, <2>1
  <2> QED BY <1>2, <2>1, <2>2, <2>3
<1>13. \A i \in up \ {p} : \E j \in up \ {top} : GetParent(j) = i
  <2> SUFFICES ASSUME NEW j \in 0 .. k, A(j) # p
               PROVE  \E i \in up \ {top} : GetParent(i) = A(j)
    OBVIOUS
  <2>1. j # 0 /\ j - 1 \in Nat /\ (j - 1) + 1 = j /\ j - 1 \in 0 .. k /\ j - 1 # k
    BY <1>9
  <2>2. A(j) = GetParent(A(j - 1))
    BY <1>5, <2>1
  <2>3. A(j - 1) # top
    <3>1. order[A(j - 1)] = n + (j - 1) /\ order[top] = n + k
      BY <1>3, <2>1
    <3> QED BY <1>1, <2>1, <3>1
  <2> QED BY <2>1, <2>2, <2>3
<1>14. \A i \in up : order[i] <= n + k
  BY <1>1, <1>3
<1>15. GetParent(top) \notin up
  <2>1. k + 1 \in 0 .. k + 1 /\ A(k + 1) = GetParent(top)
    BY <1>5
  <2>2. order[GetParent(top)] = n + (k + 1)
    BY <1>3, <2>1
  <2> HIDE DEF up
  <2> QED BY <1>1, <1>14, <2>2
<1>16. GetPartner(top) \notin up
  <2>1. top \in Node \ {1}
    BY <1>10, <1>11
  <2>2. order[GetPartner(top)] = order[top] /\ GetPartner(top) # top
    BY <2>1, PartnerFacts
  <2>3. \A i \in up : order[i] = order[top] => i = top
    BY <1>1, <1>3
  <2> QED BY <2>2, <2>3
<1>17. f[GetPartner(top)] # Free
  BY <1>2 DEF A
<1> QED
  <2> HIDE DEF up, top
  <2>1. Above(p, k) = top
    BY DEF A, top
  <2> QED BY <1>6, <1>10, <1>11, <1>12, <1>13, <1>15, <1>16, <1>17, <2>1

\* The partners Merge takes off their lists on its way from p to top.
Partners(p, top) == {GetPartner(i) : i \in UpTo(p, top) \ {top}}

(* Freeing a used block and merging keeps the shape; it takes the partners  *)
(* on its way from the free blocks and adds the last node.                  *)
LEMMA MergeShape ==
    ASSUME NEW f, Shape(f), NEW p \in UsedBlocks(f), NEW k \in Nat, MergeEnds(f, p, k)
    PROVE  LET top == Above(p, k)
               g == MergeTo(f, p, top)
           IN  /\ Shape(g)
               /\ top \in Node /\ order[top] \in Order /\ top \notin FreeBlocks(f)
               /\ UsedBlocks(g) = UsedBlocks(f) \ {p}
               /\ FreeBlocks(g) = (FreeBlocks(f) \ Partners(p, top)) \union {top}
<1> DEFINE top == Above(p, k)
           up == UpTo(p, top)
           partners == Partners(p, top)
           g == MergeTo(f, p, top)
<1>1. p \in up /\ top \in up /\ order[top] \in Order
  BY MergeWay
<1>2. \A i \in up : i \in Node /\ i # 1 /\ Live(f, i) /\ f[i] = IF i = p THEN Used ELSE Divided
  BY MergeWay
<1>3. \A i \in up \ {top} : /\ GetParent(i) \in up /\ f[GetParent(i)] = Divided
                            /\ f[GetPartner(i)] = Free /\ i \notin Base
  BY MergeWay
<1>4. \A i \in up \ {p} : \E j \in up \ {top} : GetParent(j) = i
  BY MergeWay
<1>5. GetParent(top) \notin up /\ GetPartner(top) \notin up /\ f[GetPartner(top)] # Free
  BY MergeWay
<1>6. partners = {GetPartner(i) : i \in up \ {top}}
  BY DEF Partners
<1>7. g = [i \in Node |-> IF i \in up THEN Free ELSE f[i]]
  BY DEF MergeTo
<1> HIDE DEF top, up, partners, g
<1>8. /\ \A i \in up : g[i] = Free
      /\ \A i \in Node \ up : g[i] = f[i]
  BY <1>2, <1>7
\* A son of a node on the way is on it, or a free partner of one that is.
<1>9. ASSUME NEW i \in Node \ {1}, i \notin up, GetParent(i) \in up
      PROVE  f[i] = Free /\ (GetParent(i) # p => i \in partners)
  <2>1. CASE GetParent(i) = p
    BY <1>2, <1>9, <2>1 DEF Shape
  <2>2. CASE GetParent(i) # p
    <3>1. PICK j \in up \ {top} : GetParent(j) = GetParent(i)
      BY <1>4, <1>9, <2>2
    <3>2. j \in Node \ {1} /\ i # j
      BY <1>2, <1>9
    <3>3. i = GetPartner(j)
      BY <3>1, <3>2, PartnerFacts
    <3> QED BY <1>3, <1>6, <2>2, <3>3
  <2> QED BY <2>1, <2>2
<1>10. Shape(g)
  <2>1. g \in [Node -> {Unusable, Free, Used, Divided}]
    BY <1>7 DEF Shape
  <2>2. ASSUME NEW i \in Node
        PROVE  g[i] = Unusable <=> ~ (Pages[i] \subseteq ValidPages)
    <3>1. i \in up => f[i] # Unusable
      BY <1>2, FlagsApart
    <3> QED BY <1>8, <3>1, FlagsApart DEF Shape
  <2>3. ASSUME NEW i \in Node \ {1}, g[GetParent(i)] \in {Free, Used}
        PROVE  g[i] = Free
    <3>1. GetParent(i) \in Node
      BY ParentFacts
    <3>2. CASE i \in up
      BY <1>8, <3>2
    <3>3. CASE i \notin up /\ GetParent(i) \in up
      BY <1>8, <1>9, <3>3
    <3>4. CASE i \notin up /\ GetParent(i) \notin up
      BY <1>8, <2>3, <3>1, <3>4 DEF Shape
    <3> QED BY <3>2, <3>3, <3>4
  <2>4. ASSUME NEW i \in Node, g[i] = Divided
        PROVE  order[i] # 0
    BY <1>8, <2>4, FlagsApart DEF Shape
  <2>5. ASSUME NEW i \in Node \ {1}, g[GetParent(i)] = Divided
        PROVE  g[i] # Free \/ g[GetPartner(i)] # Free
    <3>1. GetParent(i) \in Node \ up /\ f[GetParent(i)] = Divided
      BY <1>8, <2>5, FlagsApart, ParentFacts
    <3>2. f[i] # Free \/ f[GetPartner(i)] # Free
      BY <3>1 DEF Shape
    <3>3. /\ GetPartner(i) \in Node \ {1} /\ GetParent(GetPartner(i)) = GetParent(i)
          /\ GetPartner(GetPartner(i)) = i
      BY PartnerFacts
    <3>4. \A j \in up : GetParent(j) = GetParent(i) => j = top
      BY <1>3, <3>1
    <3>5. GetPartner(top) \in Node => g[GetPartner(top)] # Free
      BY <1>5, <1>8
    <3>6. CASE i \in up
      BY <3>3, <3>4, <3>5, <3>6
    <3>7. CASE GetPartner(i) \in up
      BY <3>3, <3>4, <3>5, <3>7
    <3>8. CASE i \notin up /\ GetPartner(i) \notin up
      BY <1>8, <3>2, <3>3, <3>8
    <3> QED BY <3>6, <3>7, <3>8
  <2>6. ASSUME NEW i \in Node, g[i] \in {Divided, Used}
        PROVE  Live(g, i)
    <3>1. i \notin up /\ f[i] \in {Divided, Used}
      BY <1>8, <2>6, FlagsApart
    <3>2. Live(f, i)
      BY <3>1 DEF Shape
    <3>3. i # 1 => GetParent(i) \in Node \ up
      BY <1>9, <3>1, FlagsApart, ParentFacts
    <3> QED BY <1>8, <3>2, <3>3 DEF Live
  <2> QED BY <2>1, <2>2, <2>3, <2>4, <2>5, <2>6 DEF Shape
<1>11. UsedBlocks(g) = UsedBlocks(f) \ {p}
  BY <1>1, <1>2, <1>8, FlagsApart DEF UsedBlocks
<1>12. ASSUME NEW i \in FreeBlocks(g)
       PROVE  i \in (FreeBlocks(f) \ partners) \union {top}
  <2>1. i \in Node /\ g[i] = Free /\ Live(g, i)
    BY DEF FreeBlocks
  <2>2. CASE i \in up /\ i # top
    <3>1. g[GetParent(i)] = Free /\ i \notin Base
      BY <1>3, <1>8, <2>2
    <3> QED BY <2>1, <3>1, FlagsApart DEF Live
  <2>3. CASE i \notin up
    <3>1. f[i] = Free
      BY <1>8, <2>1, <2>3
    <3>2. i \in Base \/ (i # 1 /\ GetParent(i) \notin up /\ f[GetParent(i)] = Divided)
      BY <1>8, <2>1, FlagsApart, ParentFacts DEF Live
    <3>3. i \in FreeBlocks(f)
      BY <2>1, <3>1, <3>2 DEF FreeBlocks, Live
    <3>4. i \notin partners
      <4> SUFFICES ASSUME NEW j \in up \ {top}, i = GetPartner(j)
                   PROVE  FALSE
        BY <1>6
      <4>1. j \in Node \ {1} /\ GetParent(j) \in up /\ f[GetParent(j)] = Divided
        BY <1>2, <1>3
      <4>2. GetParent(i) = GetParent(j) /\ i # 1
        BY <4>1, PartnerFacts
      <4>3. i \in Base
        BY <3>2, <4>1, <4>2
      <4>4. f[GetParent(i)] = Unusable
        BY <2>1, <4>2, <4>3, LiveAbove
      <4> QED BY <4>1, <4>2, <4>4, FlagsApart
    <3> QED BY <3>3, <3>4
  <2> QED BY <2>2, <2>3
<1>13. ASSUME NEW i \in FreeBlocks(f), i \notin partners
       PROVE  i \in FreeBlocks(g)
  <2>1. i \in Node /\ f[i] = Free /\ Live(f, i)
    BY DEF FreeBlocks
  <2>2. i \notin up /\ g[i] = Free
    BY <1>2, <1>8, <2>1, FlagsApart
  <2>3. i # 1 /\ f[GetParent(i)] = Divided => GetParent(i) \notin up
    BY <1>2, <1>9, <1>13, <2>1, <2>2, FlagsApart
  <2> QED BY <1>8, <2>1, <2>2, <2>3, ParentFacts DEF FreeBlocks, Live
<1>14. top \in FreeBlocks(g) /\ top \notin FreeBlocks(f)
  <2>1. top \in Node /\ top # 1 /\ Live(f, top) /\ g[top] = Free /\ f[top] # Free
    BY <1>1, <1>2, <1>8, FlagsApart
  <2>2. g[GetParent(top)] = f[GetParent(top)]
    BY <1>5, <1>8, <2>1, ParentFacts
  <2> QED BY <2>1, <2>2 DEF FreeBlocks, Live
<1>15. FreeBlocks(g) = (FreeBlocks(f) \ partners) \union {top}
  BY <1>12, <1>13, <1>14
<1>16. top \in Node
  BY <1>1, <1>2
<1> QED BY <1>1, <1>10, <1>11, <1>14, <1>15, <1>16 DEF top, partners, g

-----------------------------------------------------------------------------
(* The lists.                                                              *)

\* A list of nodes without a double.
IsList(l) == l \in Seq(Node) /\ IsInjective(l)

(* A node put before the head of a list. *)
LEMMA AddedFacts ==
    ASSUME NEW l, IsList(l), NEW x \in Node, x \notin ToSet(l)
    PROVE  IsList(<<x>> \o l) /\ ToSet(<<x>> \o l) = ToSet(l) \union {x}
<1> DEFINE m == <<x>> \o l
<1>1. l \in Seq(Node) /\ Len(l) \in Nat /\ DOMAIN l = 1 .. Len(l)
  BY DEF IsList
<1>2. /\ m \in Seq(Node) /\ Len(m) = Len(l) + 1 /\ m[1] = x
      /\ \A k \in 2 .. Len(l) + 1 : m[k] = l[k - 1]
  <2>1. <<x>> \in Seq(Node) /\ Len(<<x>>) = 1 /\ <<x>>[1] = x
    OBVIOUS
  <2>2. m \in Seq(Node) /\ Len(m) = Len(<<x>>) + Len(l)
    BY <1>1, <2>1
  <2>3. \A k \in 1 .. Len(<<x>>) + Len(l) : m[k] = IF k <= Len(<<x>>) THEN <<x>>[k] ELSE l[k - Len(<<x>>)]
    BY <1>1, <2>1
  <2> HIDE DEF m
  <2> QED BY <1>1, <2>1, <2>2, <2>3
<1> HIDE DEF m
<1>3. DOMAIN m = 1 .. Len(l) + 1
  BY <1>2
<1>4. \A k \in 2 .. Len(l) + 1 : k - 1 \in 1 .. Len(l)
  BY <1>1
<1>5. \A i, j \in 1 .. Len(l) : l[i] = l[j] => i = j
  BY <1>1 DEF IsList, IsInjective
<1>6. \A i \in 1 .. Len(l) : l[i] # x
  BY <1>1 DEF ToSet
<1>7. ASSUME NEW i \in DOMAIN m, NEW j \in DOMAIN m, m[i] = m[j]
      PROVE  i = j
  <2>1. CASE i = 1 /\ j = 1
    BY <2>1
  <2>2. CASE i = 1 /\ j # 1
    <3>1. j \in 2 .. Len(l) + 1
      BY <1>1, <1>3, <2>2
    <3> QED BY <1>2, <1>4, <1>6, <1>7, <2>2, <3>1
  <2>3. CASE i # 1 /\ j = 1
    <3>1. i \in 2 .. Len(l) + 1
      BY <1>1, <1>3, <2>3
    <3> QED BY <1>2, <1>4, <1>6, <1>7, <2>3, <3>1
  <2>4. CASE i # 1 /\ j # 1
    <3>1. i \in 2 .. Len(l) + 1 /\ j \in 2 .. Len(l) + 1
      BY <1>1, <1>3, <2>4
    <3>2. l[i - 1] = l[j - 1] /\ i - 1 \in 1 .. Len(l) /\ j - 1 \in 1 .. Len(l)
      BY <1>2, <1>4, <1>7, <3>1
    <3>3. i - 1 = j - 1
      BY <1>5, <3>2
    <3> QED BY <3>1, <3>3
  <2> QED BY <2>1, <2>2, <2>3, <2>4
<1>8. ToSet(m) \subseteq ToSet(l) \union {x}
  <2> SUFFICES ASSUME NEW k \in 1 .. Len(l) + 1
               PROVE  m[k] \in ToSet(l) \union {x}
    BY <1>3 DEF ToSet
  <2>1. CASE k = 1
    BY <1>2, <2>1
  <2>2. CASE k # 1
    <3>1. k \in 2 .. Len(l) + 1
      BY <1>1, <2>2
    <3> QED BY <1>1, <1>2, <1>4, <3>1 DEF ToSet
  <2> QED BY <2>1, <2>2
<1>9. ToSet(l) \union {x} \subseteq ToSet(m)
  <2>1. x \in ToSet(m)
    <3>1. 1 \in DOMAIN m
      BY <1>1, <1>3
    <3> QED BY <1>2, <3>1 DEF ToSet
  <2>2. ASSUME NEW k \in 1 .. Len(l)
        PROVE  l[k] \in ToSet(m)
    <3>1. k + 1 \in 2 .. Len(l) + 1 /\ (k + 1) - 1 = k /\ k + 1 \in DOMAIN m
      BY <1>1, <1>3
    <3>2. m[k + 1] = l[k]
      BY <1>2, <3>1
    <3> QED BY <3>1, <3>2 DEF ToSet
  <2> QED BY <1>1, <2>1, <2>2 DEF ToSet
<1>10. IsList(m)
  BY <1>2, <1>7 DEF IsList, IsInjective
<1> QED BY <1>8, <1>9, <1>10 DEF m

\* The list l without what stands at k.
IsWithout(m, l, k) ==
    /\ m \in Seq(Node) /\ Len(m) = Len(l) - 1
    /\ \A i \in 1 .. Len(l) - 1 : m[i] = IF i < k THEN l[i] ELSE l[i + 1]

(* A list without one of its nodes. *)
LEMMA WithoutFacts ==
    ASSUME NEW l, IsList(l), NEW k \in DOMAIN l, NEW m, IsWithout(m, l, k)
    PROVE  IsList(m) /\ ToSet(m) = ToSet(l) \ {l[k]}
<1>1. /\ l \in Seq(Node) /\ Len(l) \in Nat /\ DOMAIN l = 1 .. Len(l) /\ k \in 1 .. Len(l)
      /\ \A i, j \in 1 .. Len(l) : l[i] = l[j] => i = j
  BY DEF IsList, IsInjective
<1> DEFINE at(i) == IF i < k THEN i ELSE i + 1
<1>2. m \in Seq(Node) /\ DOMAIN m = 1 .. Len(l) - 1
  BY <1>1 DEF IsWithout
<1>3. \A i \in 1 .. Len(l) - 1 : m[i] = l[at(i)] /\ at(i) \in 1 .. Len(l) /\ at(i) # k
  BY <1>1 DEF IsWithout
<1>4. \A i, j \in 1 .. Len(l) - 1 : at(i) = at(j) => i = j
  BY <1>1
<1>5. \A j \in 1 .. Len(l) : j # k => \E i \in 1 .. Len(l) - 1 : at(i) = j
  <2> SUFFICES ASSUME NEW j \in 1 .. Len(l), j # k
               PROVE  \E i \in 1 .. Len(l) - 1 : at(i) = j
    OBVIOUS
  <2>1. CASE j < k
    <3>1. j \in 1 .. Len(l) - 1 /\ at(j) = j
      BY <1>1, <2>1
    <3> QED BY <3>1
  <2>2. CASE ~ (j < k)
    <3>1. j - 1 \in 1 .. Len(l) - 1 /\ at(j - 1) = j
      BY <1>1, <2>2
    <3> QED BY <3>1
  <2> QED BY <2>1, <2>2
<1> HIDE DEF at
<1>6. IsList(m)
  BY <1>1, <1>2, <1>3, <1>4 DEF IsList, IsInjective
<1>7. ToSet(m) \subseteq ToSet(l) \ {l[k]}
  BY <1>1, <1>2, <1>3 DEF ToSet
<1>8. ToSet(l) \ {l[k]} \subseteq ToSet(m)
  <2> SUFFICES ASSUME NEW j \in 1 .. Len(l), j # k
               PROVE  l[j] \in ToSet(m)
    BY <1>1 DEF ToSet
  <2>1. PICK i \in 1 .. Len(l) - 1 : at(i) = j
    BY <1>5
  <2>2. m[i] = l[j]
    BY <1>3, <2>1
  <2> QED BY <1>2, <2>2 DEF ToSet
<1> QED BY <1>6, <1>7, <1>8

(* A list without its head. *)
LEMMA TailFacts ==
    ASSUME NEW l, IsList(l), l # <<>>
    PROVE  /\ Head(l) \in ToSet(l)
           /\ IsList(Tail(l)) /\ ToSet(Tail(l)) = ToSet(l) \ {Head(l)}
<1>1. l \in Seq(Node) /\ 1 \in DOMAIN l /\ Head(l) = l[1]
  BY DEF IsList
<1>2. IsWithout(Tail(l), l, 1)
  BY <1>1 DEF IsWithout
<1>3. Head(l) \in ToSet(l)
  BY <1>1 DEF ToSet
<1> QED BY <1>1, <1>2, <1>3, WithoutFacts

(* A list without a node that is dismantled. *)
LEMMA DismantleFacts ==
    ASSUME NEW l, IsList(l), NEW x \in ToSet(l)
    PROVE  IsList(Dismantle(l, x)) /\ ToSet(Dismantle(l, x)) = ToSet(l) \ {x}
<1> DEFINE k == CHOOSE i \in DOMAIN l : l[i] = x
           r == SubSeq(l, 1, k - 1)
           t == SubSeq(l, k + 1, Len(l))
<1>1. k \in DOMAIN l /\ l[k] = x
  BY DEF ToSet
<1>2. Dismantle(l, x) = r \o t
  BY DEF Dismantle, RemoveAt
<1> HIDE DEF k
<1>3. l \in Seq(Node) /\ Len(l) \in Nat /\ k \in 1 .. Len(l)
  BY <1>1 DEF IsList
<1>4. /\ r \in Seq(Node) /\ Len(r) = k - 1
      /\ \A i \in 1 .. k - 1 : r[i] = l[i]
  BY <1>3
<1>5. /\ t \in Seq(Node) /\ Len(t) = Len(l) - k
      /\ \A i \in 1 .. Len(l) - k : t[i] = l[i + k]
  BY <1>3
<1> HIDE DEF r, t
<1>6. /\ r \o t \in Seq(Node) /\ Len(r \o t) = Len(r) + Len(t)
      /\ \A i \in 1 .. Len(r) + Len(t) : (r \o t)[i] = IF i <= Len(r) THEN r[i] ELSE t[i - Len(r)]
  BY <1>4, <1>5
<1>7. Len(r) + Len(t) = Len(l) - 1
  BY <1>3, <1>4, <1>5
<1>8. ASSUME NEW i \in 1 .. Len(l) - 1
      PROVE  (r \o t)[i] = IF i < k THEN l[i] ELSE l[i + 1]
  <2>1. CASE i < k
    <3>1. i \in 1 .. k - 1 /\ i <= Len(r)
      BY <1>3, <1>4, <2>1
    <3> QED BY <1>4, <1>6, <1>7, <2>1, <3>1
  <2>2. CASE ~ (i < k)
    <3>1. i - (k - 1) \in 1 .. Len(l) - k /\ ~ (i <= Len(r)) /\ (i - (k - 1)) + k = i + 1
      BY <1>3, <1>4, <2>2
    <3>2. t[i - (k - 1)] = l[i + 1]
      BY <1>5, <3>1
    <3> QED BY <1>4, <1>6, <1>7, <2>2, <3>1, <3>2
  <2> QED BY <2>1, <2>2
<1>9. IsWithout(r \o t, l, k)
  BY <1>6, <1>7, <1>8 DEF IsWithout
<1> QED BY <1>1, <1>2, <1>9, WithoutFacts

(* ListsHold, list by list. *)
LEMMA ListsAre ==
    ASSUME NEW lists, NEW blocks
    PROVE  ListsHold(lists, blocks)
             <=> /\ lists = [o \in Order |-> lists[o]]
                 /\ \A o \in Order : IsList(lists[o]) /\ ToSet(lists[o]) = {i \in blocks : order[i] = o}
<1>1. lists \in [Order -> Seq(Node)]
         <=> lists = [o \in Order |-> lists[o]] /\ \A o \in Order : lists[o] \in Seq(Node)
  OBVIOUS
<1> QED BY <1>1 DEF ListsHold, IsList

-----------------------------------------------------------------------------
(* The counts.                                                             *)

(* A node of order o has two to the o pages. *)
LEMMA PageCount ==
    ASSUME NEW i \in Node, Pages[i] \subseteq ValidPages
    PROVE  /\ IsFiniteSet(Pages[i]) /\ Cardinality(Pages[i]) = Pow2[order[i]]
<1>1. Pages[i] = FirstPage[i] .. FirstPage[i] + Pow2[order[i]] - 1 /\ FirstPage[i] \in Nat
  BY PagesFacts
<1>2. Pow2[order[i]] \in Nat \ {0}
  BY PlaceFacts
<1> DEFINE a == FirstPage[i]
           b == FirstPage[i] + Pow2[order[i]] - 1
<1>3. a \in Int /\ b \in Int /\ ~ (a > b) /\ b - a + 1 = Pow2[order[i]]
  BY <1>1, <1>2
<1> HIDE DEF a, b
<1>4. IsFiniteSet(a .. b) /\ Cardinality(a .. b) = Pow2[order[i]]
  BY <1>3, FS_Interval
<1> QED BY <1>1, <1>4 DEF a, b

(* Sets of existing pages can be counted. *)
LEMMA ValidFinite ==
    ASSUME NEW S \in SUBSET ValidPages
    PROVE  IsFiniteSet(S) /\ Cardinality(S) \in Nat /\ Cardinality(S) <= valid_page_num
<1>1. valid_page_num \in Nat \ {0}
  BY ZoneAssumption
<1>2. 0 \in Int /\ valid_page_num - 1 \in Int
  BY <1>1
<1>3. IsFiniteSet(0 .. valid_page_num - 1)
  BY <1>2, FS_Interval
<1>4. Cardinality(0 .. valid_page_num - 1)
          = IF 0 > valid_page_num - 1 THEN 0 ELSE (valid_page_num - 1) - 0 + 1
  BY <1>2, FS_Interval
<1>5. IsFiniteSet(ValidPages) /\ Cardinality(ValidPages) = valid_page_num
  BY <1>1, <1>3, <1>4 DEF ValidPages
<1>6. IsFiniteSet(S) /\ Cardinality(S) <= Cardinality(ValidPages)
  BY <1>5, FS_Subset
<1>7. Cardinality(S) \in Nat
  BY <1>6, FS_CardinalityType
<1> QED BY <1>5, <1>6, <1>7

(* The free and the used blocks share out the pages Init has listed. *)
LEMMA PagesOfBlocks ==
    ASSUME NEW f, Shape(f)
    PROVE  /\ PagesIn(FreeBlocks(f)) = PagesIn(Base) \ PagesIn(UsedBlocks(f))
           /\ PagesIn(FreeBlocks(f)) \subseteq ValidPages
           /\ PagesIn(UsedBlocks(f)) \subseteq PagesIn(Base)
           /\ PagesIn(Base) \subseteq ValidPages
<1>1. PagesIn(FreeBlocks(f)) \union PagesIn(UsedBlocks(f)) = PagesIn(Base)
  <2>1. PagesIn(Blocks(f)) = PagesIn(FreeBlocks(f)) \union PagesIn(UsedBlocks(f))
    BY DEF PagesIn, Blocks
  <2> QED BY <2>1, BlocksCover
<1>2. PagesIn(FreeBlocks(f)) \cap PagesIn(UsedBlocks(f)) = {}
  <2> SUFFICES ASSUME NEW i \in FreeBlocks(f), NEW j \in UsedBlocks(f), NEW a \in Pages[i] \cap Pages[j]
               PROVE  FALSE
    BY DEF PagesIn
  <2>1. i \in Blocks(f) /\ j \in Blocks(f)
    BY DEF Blocks
  <2>2. i = j
    BY <2>1, BlocksApart
  <2> QED BY <2>2, FlagsApart DEF FreeBlocks, UsedBlocks
<1>3. PagesIn(Base) \subseteq ValidPages
  BY BaseFacts DEF PagesIn
<1> QED BY <1>1, <1>2, <1>3

(* One more node in use: its pages are no longer those of free blocks.     *)
LEMMA OneMoreUsed ==
    ASSUME NEW f, Shape(f), NEW g, Shape(g), NEW p \in Node,
           p \notin UsedBlocks(f), UsedBlocks(g) = UsedBlocks(f) \union {p}
    PROVE  /\ Cardinality(PagesIn(FreeBlocks(f)))
                = Cardinality(PagesIn(FreeBlocks(g))) + Pow2[order[p]]
           /\ Cardinality(PagesIn(FreeBlocks(f))) \in Nat
           /\ Cardinality(PagesIn(FreeBlocks(g))) \in Nat
<1> DEFINE F == PagesIn(FreeBlocks(f))
           G == PagesIn(FreeBlocks(g))
<1>1. /\ F = PagesIn(Base) \ PagesIn(UsedBlocks(f)) /\ F \subseteq ValidPages
      /\ G = PagesIn(Base) \ PagesIn(UsedBlocks(g)) /\ G \subseteq ValidPages
      /\ PagesIn(UsedBlocks(g)) \subseteq PagesIn(Base)
  BY PagesOfBlocks
<1>2. PagesIn(UsedBlocks(g)) = PagesIn(UsedBlocks(f)) \union Pages[p]
  BY DEF PagesIn
<1>3. Pages[p] \cap PagesIn(UsedBlocks(f)) = {}
  <2> SUFFICES ASSUME NEW j \in UsedBlocks(f), NEW a \in Pages[p] \cap Pages[j]
               PROVE  FALSE
    BY DEF PagesIn
  <2>1. p \in Blocks(g) /\ j \in Blocks(g)
    BY DEF Blocks
  <2>2. p = j
    BY <2>1, BlocksApart
  <2> QED BY <2>2
<1>4. F = G \union Pages[p] /\ G \cap Pages[p] = {}
  BY <1>1, <1>2, <1>3
<1>5. Pages[p] \subseteq ValidPages
  BY <1>1, <1>4
<1>6. IsFiniteSet(Pages[p]) /\ Cardinality(Pages[p]) = Pow2[order[p]] /\ Pow2[order[p]] \in Nat
  BY <1>5, PageCount, PlaceFacts
<1>7. IsFiniteSet(G) /\ Cardinality(G) \in Nat /\ Cardinality(F) \in Nat
  BY <1>1, ValidFinite
<1> HIDE DEF F, G
<1>8. Cardinality(G \union Pages[p]) = Cardinality(G) + Cardinality(Pages[p]) - Cardinality(G \cap Pages[p])
  BY <1>6, <1>7, FS_Union
<1>9. Cardinality(G \cap Pages[p]) = 0
  BY <1>4, FS_EmptySet
<1>10. Cardinality(F) = Cardinality(G) + Pow2[order[p]]
  BY <1>4, <1>6, <1>7, <1>8, <1>9
<1> QED BY <1>7, <1>10 DEF F, G

-----------------------------------------------------------------------------
(* Init establishes the invariant.                                         *)

(* The flags of BuildTree have the shape, with the blocks of Init free. *)
LEMMA BuiltShape ==
    /\ Shape(BuiltFlags)
    /\ FreeBlocks(BuiltFlags) = Base /\ UsedBlocks(BuiltFlags) = {}
<1>1. \A i \in Node : /\ BuiltFlags[i] \in {Free, Unusable}
                      /\ BuiltFlags[i] = Free <=> Pages[i] \subseteq ValidPages
  BY BuiltFacts
<1>2. BuiltFlags \in [Node -> {Unusable, Free, Used, Divided}]
  BY DEF BuiltFlags
<1>3. \A i \in Node : BuiltFlags[i] # Used /\ BuiltFlags[i] # Divided
  BY <1>1, FlagsApart
<1>4. ASSUME NEW i \in Node \ {1}, BuiltFlags[GetParent(i)] \in {Free, Used}
      PROVE  BuiltFlags[i] = Free
  <2>1. GetParent(i) \in Node /\ Pages[i] \subseteq Pages[GetParent(i)]
    BY ParentFacts, PartnerPages
  <2> QED BY <1>1, <1>3, <1>4, <2>1
<1>5. \A i \in Node \ {1} : GetParent(i) \in Node
  BY ParentFacts
<1> HIDE DEF BuiltFlags
<1>6. Shape(BuiltFlags)
  BY <1>1, <1>2, <1>3, <1>4, <1>5, FlagsApart DEF Shape
<1>7. FreeBlocks(BuiltFlags) = Base
  <2>1. \A i \in Base : i \in Node /\ BuiltFlags[i] = Free
    BY <1>1, BaseFacts
  <2>2. \A i \in Node : Live(BuiltFlags, i) => i \in Base
    BY <1>3, <1>5 DEF Live
  <2> QED BY <2>1, <2>2 DEF FreeBlocks, Live
<1>8. UsedBlocks(BuiltFlags) = {}
  BY <1>3 DEF UsedBlocks
<1> QED BY <1>6, <1>7, <1>8

(* The lists of InitArea hold them. *)
LEMMA InitLists ==
    ListsHold(InitFreeArea, Base)
<1>1. ASSUME NEW o \in Order
      PROVE  IsList(InitFreeArea[o]) /\ ToSet(InitFreeArea[o]) = {i \in Base : order[i] = o}
  <2>1. InitFreeArea[o] = IF ListedAtInit(o) = {} THEN <<>> ELSE <<Max(ListedAtInit(o))>>
    BY DEF InitFreeArea
  <2>2. CASE ListedAtInit(o) = {}
    <3>1. IsList(InitFreeArea[o]) /\ ToSet(InitFreeArea[o]) = {}
      BY <2>1, <2>2 DEF IsList, IsInjective, ToSet
    <3>2. \A i \in Base : order[i] # o
      BY <3>1, BaseFacts
    <3> QED BY <3>1, <3>2
  <2>3. CASE ListedAtInit(o) # {}
    <3> DEFINE x == Max(ListedAtInit(o))
    <3>1. x \in Node /\ order[x] = o
      BY <2>3, ListedFacts DEF ListedAtInit
    <3>2. InitFreeArea[o] = <<x>>
      BY <2>1, <2>3
    <3> HIDE DEF x
    <3>3. IsList(InitFreeArea[o]) /\ ToSet(InitFreeArea[o]) = {x}
      BY <3>1, <3>2 DEF IsList, IsInjective, ToSet
    <3>4. x \in Base
      BY <3>3 DEF Base
    <3>5. \A i \in Base : order[i] = o => i = x
      BY <3>3, BaseFacts
    <3> QED BY <3>1, <3>3, <3>4, <3>5
  <2> QED BY <2>2, <2>3
<1>2. InitFreeArea = [o \in Order |-> InitFreeArea[o]]
  BY DEF InitFreeArea
<1> HIDE DEF InitFreeArea
<1> QED BY <1>1, <1>2, ListsAre

(* So Init establishes the invariant. *)
LEMMA Initially ==
    Init => ZoneInv
<1> SUFFICES ASSUME Init PROVE ZoneInv
  OBVIOUS
<1>1. /\ flags = BuiltFlags /\ free_area = InitFreeArea /\ held = {} /\ refused = -1
      /\ free_page_num = valid_page_num
  BY DEF Init
<1>2. Cardinality(PagesIn(Base)) \in Nat /\ valid_page_num \in Nat
  BY BuiltShape, PagesOfBlocks, ValidFinite, ZoneAssumption
<1>3. free_page_num = valid_page_num - Cardinality(PagesIn(Base))
                         + Cardinality(PagesIn(FreeBlocks(flags)))
  BY <1>1, <1>2, BuiltShape
<1> QED BY <1>1, <1>3, BuiltShape, InitLists DEF ZoneInv

-----------------------------------------------------------------------------
(* AllocPage.                                                              *)

(* A request is rounded up to the next power of two; the root is at least  *)
(* that large.                                                             *)
LEMMA OrderForFacts ==
    ASSUME NEW n \in Requests
    PROVE  /\ OrderFor(n) \in Order
           /\ n # 0 => n <= Pow2[OrderFor(n)] /\ Pow2[OrderFor(n)] < 2 * n
<1>1. n \in Nat /\ n <= M /\ M \in Nat \ {0} /\ max_order \in Nat \ {0}
  BY ZoneAssumption, Pow2Facts DEF M
<1>2. CASE n = 0
  <2>1. Log2(n) = 0 /\ Pow2[0] = 1
    BY <1>2, Pow2Facts DEF Log2
  <2>2. OrderFor(n) = 1
    BY <1>2, <2>1 DEF OrderFor
  <2> QED BY <1>1, <1>2, <2>2 DEF Order
<1>3. CASE n # 0
  <2> DEFINE l == Log2(n)
  <2>1. l \in Nat /\ Pow2[l] <= n /\ n < 2 * Pow2[l] /\ Pow2[l + 1] = 2 * Pow2[l] /\ Pow2[l] \in Nat
    BY <1>1, <1>3, LogFacts, Pow2Facts
  <2>2. OrderFor(n) = IF Pow2[l] = n THEN l ELSE l + 1
    BY DEF OrderFor
  <2> HIDE DEF l
  <2>3. n <= Pow2[OrderFor(n)] /\ Pow2[OrderFor(n)] < 2 * n
    BY <1>1, <1>3, <2>1, <2>2
  <2>4. l <= max_order
    <3> SUFFICES ASSUME max_order < l PROVE FALSE
      BY <1>1, <2>1
    <3>1. 2 * M <= Pow2[l]
      BY <1>1, <2>1, Pow2Grows DEF M
    <3> QED BY <1>1, <2>1, <3>1
  <2>5. l = max_order => Pow2[l] = n
    BY <1>1, <2>1 DEF M
  <2>6. OrderFor(n) \in 0 .. max_order
    BY <1>1, <2>1, <2>2, <2>4, <2>5
  <2> QED BY <2>3, <2>6 DEF Order
<1> QED BY <1>2, <1>3

\* The flags and the lists once block b of the lists was split and p of order o taken.
LEMMA AllocLists ==
    ASSUME NEW f, Shape(f), NEW lists, ListsHold(lists, FreeBlocks(f)),
           NEW b \in FreeBlocks(f), NEW o \in 0 .. order[b], b = Head(lists[order[b]]),
           NEW new, new = [c \in Order |->
                             IF c = order[b] THEN Tail(lists[c])
                             ELSE IF c \in o .. order[b] - 1
                                  THEN <<GetPartner(Rightmost(b, c))>> \o lists[c]
                             ELSE lists[c]]
    PROVE  ListsHold(new, FreeBlocks(SplitTo(f, b, o)))
<1> DEFINE X == FreeBlocks(f)
           Y == FreeBlocks(SplitTo(f, b, o))
           x(c) == GetPartner(Rightmost(b, c))
<1>1. b \in Node /\ order[b] \in Nat /\ order[b] \in Order
  BY OrderFacts DEF FreeBlocks
<1>2. Y = (X \ {b}) \union {x(c) : c \in o .. order[b] - 1}
  BY SplitShape
<1>3. \A c \in o .. order[b] - 1 : x(c) \in Node \ X /\ order[x(c)] = c
  BY SplitShape
<1>4. \A c \in Order : IsList(lists[c]) /\ ToSet(lists[c]) = {i \in X : order[i] = c}
  BY ListsAre
<1>5. new = [c \in Order |-> new[c]]
  OBVIOUS
<1>6. \A c \in Order : new[c] = IF c = order[b] THEN Tail(lists[c])
                                ELSE IF c \in o .. order[b] - 1 THEN <<x(c)>> \o lists[c]
                                ELSE lists[c]
  OBVIOUS
<1> HIDE DEF X, Y, x
<1>7. ASSUME NEW c \in Order
      PROVE  IsList(new[c]) /\ ToSet(new[c]) = {i \in Y : order[i] = c}
  <2>1. CASE c = order[b]
    <3>1. b \in ToSet(lists[c])
      BY <1>4, <2>1 DEF X
    <3>2. lists[c] # <<>>
      BY <3>1 DEF ToSet
    <3>3. IsList(Tail(lists[c])) /\ ToSet(Tail(lists[c])) = ToSet(lists[c]) \ {b}
      BY <1>4, <2>1, <3>2, TailFacts
    <3>4. \A e \in o .. order[b] - 1 : order[x(e)] # c
      BY <1>1, <1>3, <2>1
    <3> QED BY <1>2, <1>4, <1>6, <2>1, <3>3, <3>4
  <2>2. CASE c \in o .. order[b] - 1
    <3>1. c # order[b] /\ x(c) \in Node \ X /\ order[x(c)] = c
      BY <1>1, <1>3, <2>2
    <3>2. IsList(<<x(c)>> \o lists[c]) /\ ToSet(<<x(c)>> \o lists[c]) = ToSet(lists[c]) \union {x(c)}
      BY <1>4, <3>1, AddedFacts
    <3>3. \A e \in o .. order[b] - 1 : order[x(e)] = c => e = c
      BY <1>3
    <3>4. new[c] = <<x(c)>> \o lists[c]
      BY <1>6, <2>2, <3>1
    <3>5. {i \in Y : order[i] = c} = {i \in X : order[i] = c} \union {x(c)}
      BY <1>2, <2>2, <3>1, <3>3
    <3> QED BY <1>4, <3>2, <3>4, <3>5
  <2>3. CASE c # order[b] /\ c \notin o .. order[b] - 1
    <3>1. \A e \in o .. order[b] - 1 : order[x(e)] # c
      BY <1>3, <2>3
    <3> QED BY <1>2, <1>4, <1>6, <2>3, <3>1
  <2> QED BY <2>1, <2>2, <2>3
<1> QED BY <1>5, <1>7, ListsAre DEF Y

(* A request that is served hands out a node that was not in use. *)
LEMMA AllocStep ==
    ASSUME ZoneInv, NEW n \in Requests, AllocPage(n), Source(OrderFor(n)) # {}
    PROVE  /\ ZoneInv'
           /\ \E p \in Node : /\ order[p] = OrderFor(n) /\ held' = held \union {p} /\ p \notin held
                              /\ refused' = -1
<1> DEFINE o == OrderFor(n)
           m == Min(Source(o))
           b == Head(free_area[m])
           p == Rightmost(b, o)
           g == SplitTo(flags, b, o)
<1>1. /\ flags' = FlagsSplit(b, p)
      /\ free_area' = [c \in Order |->
                         IF c = order[b] THEN Tail(free_area[c])
                         ELSE IF c \in o .. order[b] - 1
                              THEN <<GetPartner(Rightmost(b, c))>> \o free_area[c]
                         ELSE free_area[c]]
      /\ free_page_num' = free_page_num - Pow2[o]
      /\ held' = held \union {p} /\ refused' = -1
  BY DEF AllocPage
<1>2. Shape(flags) /\ ListsHold(free_area, FreeBlocks(flags)) /\ held = UsedBlocks(flags)
  BY DEF ZoneInv
<1>3. o \in Order /\ o \in Nat
  BY OrderForFacts DEF Order
<1>4. m \in Order /\ m >= o /\ free_area[m] # <<>>
  <2>1. Source(o) \in SUBSET Nat /\ Source(o) # {}
    BY DEF Source, Order
  <2>2. m \in Source(o)
    BY <2>1, LeastNumber
  <2> QED BY <2>2 DEF Source
<1> HIDE DEF m, o
<1>5. b \in FreeBlocks(flags) /\ order[b] = m
  <2>1. IsList(free_area[m]) /\ ToSet(free_area[m]) = {i \in FreeBlocks(flags) : order[i] = m}
    BY <1>2, <1>4, ListsAre
  <2>2. b \in ToSet(free_area[m])
    BY <1>4, <2>1, TailFacts
  <2> QED BY <2>1, <2>2
<1>6. b = Head(free_area[order[b]]) /\ o \in 0 .. order[b]
  BY <1>3, <1>4, <1>5 DEF Order
<1> HIDE DEF b
<1>7. /\ Shape(g) /\ p \in Node /\ order[p] = o /\ flags[p] = Free
      /\ UsedBlocks(g) = UsedBlocks(flags) \union {p}
  BY <1>2, <1>5, <1>6, SplitShape
<1>8. flags' = g
  BY <1>1, <1>7 DEF FlagsSplit, SplitNodes, SplitTo
<1>9. ListsHold(free_area', FreeBlocks(g))
  BY <1>1, <1>2, <1>5, <1>6, AllocLists
<1>10. p \notin UsedBlocks(flags)
  BY <1>7, FlagsApart DEF UsedBlocks
<1> HIDE DEF p, g
<1>11. free_page_num' = valid_page_num - Cardinality(PagesIn(Base)) + Cardinality(PagesIn(FreeBlocks(g)))
  <2>1. /\ Cardinality(PagesIn(FreeBlocks(flags))) = Cardinality(PagesIn(FreeBlocks(g))) + Pow2[order[p]]
        /\ Cardinality(PagesIn(FreeBlocks(flags))) \in Nat
        /\ Cardinality(PagesIn(FreeBlocks(g))) \in Nat
    BY <1>2, <1>7, <1>10, OneMoreUsed
  <2>2. Cardinality(PagesIn(Base)) \in Nat /\ valid_page_num \in Nat
    BY <1>2, PagesOfBlocks, ValidFinite, ZoneAssumption
  <2>3. Pow2[o] \in Nat
    BY <1>3, Pow2Facts
  <2>4. free_page_num = valid_page_num - Cardinality(PagesIn(Base)) + Cardinality(PagesIn(FreeBlocks(flags)))
    BY DEF ZoneInv
  <2>5. free_page_num' = free_page_num - Pow2[o] /\ order[p] = o
    BY <1>1, <1>7
  <2> QED BY <2>1, <2>2, <2>3, <2>4, <2>5
<1>12. held' = UsedBlocks(g)
  BY <1>1, <1>2, <1>7
<1>13. ZoneInv'
  BY <1>1, <1>7, <1>8, <1>9, <1>11, <1>12 DEF ZoneInv
<1>14. p \in Node /\ order[p] = OrderFor(n) /\ held' = held \union {p} /\ p \notin held /\ refused' = -1
  BY <1>1, <1>2, <1>7, <1>10 DEF o
<1> QED BY <1>13, <1>14

(* A request that is refused changes nothing. *)
LEMMA RefuseStep ==
    ASSUME ZoneInv, NEW n \in Requests, AllocPage(n), Source(OrderFor(n)) = {}
    PROVE  /\ ZoneInv'
           /\ refused' = OrderFor(n) /\ OrderFor(n) \in Order /\ UNCHANGED held
<1>1. refused' = OrderFor(n) /\ UNCHANGED <<flags, free_area, free_page_num, held>>
  BY DEF AllocPage
<1>2. OrderFor(n) \in Order
  BY OrderForFacts
<1>3. ZoneInv'
  BY <1>1, <1>2 DEF ZoneInv
<1> QED BY <1>1, <1>2, <1>3

-----------------------------------------------------------------------------
(* FreePage.                                                               *)

(* The partners met on the way up are free blocks, one of each order. *)
LEMMA PartnersFacts ==
    ASSUME NEW f, Shape(f), NEW p \in UsedBlocks(f), NEW k \in Nat, MergeEnds(f, p, k)
    PROVE  LET top == Above(p, k)
               x(c) == GetPartner(Above(p, c - order[p]))
           IN  /\ Partners(p, top) = {x(c) : c \in order[p] .. order[top] - 1}
               /\ \A c \in order[p] .. order[top] - 1 : x(c) \in FreeBlocks(f) /\ order[x(c)] = c
<1> DEFINE top == Above(p, k)
           n == order[p]
           up == UpTo(p, top)
           x(c) == GetPartner(Above(p, c - order[p]))
<1>1. p \in Node /\ n \in Nat /\ k \in 0 .. max_order - n
  <2>1. p \in Node
    BY DEF UsedBlocks
  <2>2. n \in Nat
    BY <2>1, OrderFacts
  <2> QED BY <2>1, <2>2, ZoneAssumption DEF MergeEnds
<1>2. top \in Node /\ order[top] = n + k
  BY <1>1, AboveFacts
<1>3. up = {Above(p, j) : j \in 0 .. k}
  <2>1. order[top] - order[p] = k
    BY <1>1, <1>2
  <2> QED BY <2>1 DEF UpTo
<1>4. \A j \in 0 .. k : order[Above(p, j)] = n + j
  <2>1. \A j \in 0 .. k : j \in 0 .. max_order - n
    BY <1>1, ZoneAssumption
  <2> QED BY <1>1, <2>1, AboveFacts
<1>5. \A i \in up \ {top} : /\ GetParent(i) \in up /\ f[GetParent(i)] = Divided
                            /\ f[GetPartner(i)] = Free /\ i \notin Base
  BY MergeWay
<1>6. \A i \in up : i \in Node /\ i # 1
  BY MergeWay
<1>7. Partners(p, top) = {GetPartner(i) : i \in up \ {top}}
  BY DEF Partners
<1> HIDE DEF up
<1>8. ASSUME NEW c \in n .. (n + k) - 1
      PROVE  /\ Above(p, c - n) \in up \ {top} /\ c - n \in 0 .. k
             /\ order[Above(p, c - n)] = c
  <2>1. c - n \in 0 .. k /\ n + (c - n) = c /\ c # n + k
    BY <1>1
  <2>2. order[Above(p, c - n)] = c
    BY <1>4, <2>1
  <2>3. Above(p, c - n) \in up
    BY <1>3, <2>1
  <2> HIDE DEF n, top
  <2> QED BY <1>2, <2>1, <2>2, <2>3
<1>9. \A i \in up \ {top} : \E c \in n .. (n + k) - 1 : i = Above(p, c - n)
  <2> SUFFICES ASSUME NEW j \in 0 .. k, Above(p, j) # top
               PROVE  \E c \in n .. (n + k) - 1 : Above(p, j) = Above(p, c - n)
    BY <1>3
  <2>1. j # k /\ n + j \in n .. (n + k) - 1 /\ (n + j) - n = j
    BY <1>1
  <2> QED BY <2>1
<1>10. Partners(p, top) = {x(c) : c \in n .. (n + k) - 1}
  BY <1>7, <1>8, <1>9
<1>11. ASSUME NEW c \in n .. (n + k) - 1
       PROVE  x(c) \in FreeBlocks(f) /\ order[x(c)] = c
  <2> DEFINE i == Above(p, c - n)
  <2>1. i \in up \ {top} /\ i \in Node \ {1} /\ order[i] = c
    BY <1>6, <1>8
  <2>2. f[GetParent(i)] = Divided /\ f[GetPartner(i)] = Free
    BY <1>5, <2>1
  <2>3. /\ GetPartner(i) \in Node /\ GetPartner(i) # 1 /\ order[GetPartner(i)] = order[i]
        /\ GetParent(GetPartner(i)) = GetParent(i)
    BY <2>1, PartnerFacts
  <2> QED BY <2>1, <2>2, <2>3 DEF FreeBlocks, Live
<1>12. \A c \in order[p] .. order[top] - 1 : c \in n .. (n + k) - 1
  BY <1>2
<1> QED BY <1>2, <1>10, <1>11, <1>12

(* The lists once p has been freed and merged up to top. *)
LEMMA FreeLists ==
    ASSUME NEW f, Shape(f), NEW lists, ListsHold(lists, FreeBlocks(f)),
           NEW p \in UsedBlocks(f), NEW k \in Nat, MergeEnds(f, p, k),
           NEW top, top = Above(p, k),
           NEW new, new = [c \in Order |->
                             IF c = order[top] THEN <<top>> \o lists[c]
                             ELSE IF c \in order[p] .. order[top] - 1
                                  THEN Dismantle(lists[c], GetPartner(Above(p, c - order[p])))
                             ELSE lists[c]]
    PROVE  ListsHold(new, FreeBlocks(MergeTo(f, p, top)))
<1> DEFINE X == FreeBlocks(f)
           Y == FreeBlocks(MergeTo(f, p, top))
           x(c) == GetPartner(Above(p, c - order[p]))
           S == order[p] .. order[top] - 1
<1>1. top \in Node /\ top \notin X /\ order[top] \in Order
  BY MergeShape
<1>2. Y = (X \ Partners(p, top)) \union {top}
  BY MergeShape
<1>3. Partners(p, top) = {x(c) : c \in S} /\ \A c \in S : x(c) \in X /\ order[x(c)] = c
  BY PartnersFacts
<1>4. \A c \in Order : IsList(lists[c]) /\ ToSet(lists[c]) = {i \in X : order[i] = c}
  BY ListsAre
<1>5. new = [c \in Order |-> new[c]]
  OBVIOUS
<1>6. \A c \in Order : new[c] = IF c = order[top] THEN <<top>> \o lists[c]
                                ELSE IF c \in S THEN Dismantle(lists[c], x(c))
                                ELSE lists[c]
  OBVIOUS
<1>7. order[top] \notin S
  BY <1>1, OrderFacts
<1> HIDE DEF X, Y, x, S
<1>8. ASSUME NEW c \in Order
      PROVE  IsList(new[c]) /\ ToSet(new[c]) = {i \in Y : order[i] = c}
  <2>1. CASE c = order[top]
    <3>1. IsList(<<top>> \o lists[c]) /\ ToSet(<<top>> \o lists[c]) = ToSet(lists[c]) \union {top}
      BY <1>1, <1>4, AddedFacts
    <3>2. \A e \in S : order[x(e)] # c
      BY <1>3, <1>7, <2>1
    <3> QED BY <1>2, <1>3, <1>4, <1>6, <2>1, <3>1, <3>2
  <2>2. CASE c \in S
    <3>1. x(c) \in ToSet(lists[c]) /\ order[x(c)] = c /\ c # order[top]
      BY <1>3, <1>4, <1>7, <2>2
    <3>2. /\ IsList(Dismantle(lists[c], x(c)))
          /\ ToSet(Dismantle(lists[c], x(c))) = ToSet(lists[c]) \ {x(c)}
      BY <1>4, <3>1, DismantleFacts
    <3>3. \A e \in S : order[x(e)] = c => e = c
      BY <1>3
    <3>4. {i \in Y : order[i] = c} = {i \in X : order[i] = c} \ {x(c)}
      BY <1>2, <1>3, <2>2, <3>1, <3>3
    <3> QED BY <1>4, <1>6, <2>2, <3>1, <3>2, <3>4
  <2>3. CASE c # order[top] /\ c \notin S
    <3>1. \A e \in S : order[x(e)] # c
      BY <1>3, <2>3
    <3> QED BY <1>2, <1>3, <1>4, <1>6, <2>3, <3>1
  <2> QED BY <2>1, <2>2, <2>3
<1> QED BY <1>5, <1>8, ListsAre DEF Y

(* FreePage gives back just the node it is called with. *)
LEMMA FreeStep ==
    ASSUME ZoneInv, NEW p \in held, FreePage(p)
    PROVE  ZoneInv' /\ held' = held \ {p} /\ refused' = -1
<1> DEFINE top == Merge(p)
           g == MergeTo(flags, p, top)
<1>1. Shape(flags) /\ ListsHold(free_area, FreeBlocks(flags)) /\ held = UsedBlocks(flags)
  BY DEF ZoneInv
<1>2. p \in UsedBlocks(flags) /\ p \in Node
  BY <1>1 DEF UsedBlocks
<1>3. PICK k \in Nat : MergeEnds(flags, p, k)
  BY <1>1, <1>2, MergeStops
<1>4. top = Above(p, k)
  BY <1>3, MergeIs
<1>5. /\ flags' = g
      /\ free_area' = [c \in Order |->
                         IF c = order[top] THEN <<top>> \o free_area[c]
                         ELSE IF c \in order[p] .. order[top] - 1
                              THEN Dismantle(free_area[c], GetPartner(Above(p, c - order[p])))
                         ELSE free_area[c]]
      /\ free_page_num' = free_page_num + Pow2[order[p]]
      /\ held' = held \ {p} /\ refused' = -1
  BY DEF FreePage, MergeTo
<1> HIDE DEF top, g
<1>6. Shape(g) /\ UsedBlocks(g) = UsedBlocks(flags) \ {p}
  BY <1>1, <1>2, <1>3, <1>4, MergeShape DEF g
<1>7. ListsHold(free_area', FreeBlocks(g))
  BY <1>1, <1>2, <1>3, <1>4, <1>5, FreeLists DEF g
<1>8. free_page_num' = valid_page_num - Cardinality(PagesIn(Base)) + Cardinality(PagesIn(FreeBlocks(g)))
  <2>1. p \notin UsedBlocks(g) /\ UsedBlocks(flags) = UsedBlocks(g) \union {p}
    BY <1>2, <1>6
  <2>2. /\ Cardinality(PagesIn(FreeBlocks(g))) = Cardinality(PagesIn(FreeBlocks(flags))) + Pow2[order[p]]
        /\ Cardinality(PagesIn(FreeBlocks(flags))) \in Nat
        /\ Cardinality(PagesIn(FreeBlocks(g))) \in Nat
    BY <1>1, <1>2, <1>6, <2>1, OneMoreUsed
  <2>3. Cardinality(PagesIn(Base)) \in Nat /\ valid_page_num \in Nat
    BY <1>1, PagesOfBlocks, ValidFinite, ZoneAssumption
  <2>4. Pow2[order[p]] \in Nat
    BY <1>2, PlaceFacts
  <2>5. free_page_num = valid_page_num - Cardinality(PagesIn(Base)) + Cardinality(PagesIn(FreeBlocks(flags)))
    BY DEF ZoneInv
  <2> QED BY <1>5, <2>2, <2>3, <2>4, <2>5
<1>9. held' = UsedBlocks(g)
  BY <1>1, <1>5, <1>6
<1>10. ZoneInv'
  BY <1>5, <1>6, <1>7, <1>8, <1>9 DEF ZoneInv
<1> QED BY <1>5, <1>10

(* A node in use is found by the address of its first page.                *)
LEMMA QueryFinds ==
    ASSUME ZoneInv, NEW p \in held
    PROVE  QueryPage(FirstPage[p]) = p
<1> DEFINE a == FirstPage[p]
           leaf == M + a
           way == {Above(Pow2[max_order] + a, k) : k \in Order}
           hits == {i \in way : flags[i] = Used /\ FirstPage[i] = a}
<1>1. Shape(flags) /\ p \in UsedBlocks(flags) /\ p \in Node /\ flags[p] = Used
  BY DEF ZoneInv, UsedBlocks
<1>2. /\ a \in Nat /\ a \in 0 .. M - 1 /\ a = p * Pow2[order[p]] - M
      /\ p \in Nat \ {0} /\ Pow2[order[p]] \in Nat \ {0} /\ M \in Nat \ {0} /\ order[p] \in Order
  BY <1>1, PagesFacts, OrderFacts, PlaceFacts
<1>3. leaf \in Node /\ order[leaf] = 0
  <2>1. 0 \in Order /\ max_order - 0 = max_order
    BY ZoneAssumption DEF Order
  <2>2. Pow2[max_order - 0] <= leaf /\ leaf < 2 * Pow2[max_order - 0] /\ leaf \in Nat
    BY <1>2, <2>1 DEF M
  <2> HIDE DEF leaf
  <2> QED BY <2>1, <2>2, OrderIs
<1>4. \A k \in Order : Above(leaf, k) \in Node
  <2>1. \A k \in Order : k \in 0 .. max_order - order[leaf]
    BY <1>3, ZoneAssumption DEF Order
  <2> QED BY <1>3, <2>1, AboveFacts
<1>5. Above(leaf, order[p]) = p
  <2> DEFINE P == Pow2[order[p]]
  <2>1. leaf = p * P
    <3>1. p * P \in Nat
      BY <1>2
    <3> HIDE DEF P
    <3> QED BY <1>2, <3>1 DEF P
  <2>2. \A x \in Nat, y \in Nat \ {0} : (x * y) \div y = x
    OBVIOUS
  <2> QED BY <1>2, <2>1, <2>2 DEF Above
<1>6. way = {Above(leaf, k) : k \in Order}
  BY DEF M
<1> HIDE DEF leaf, way
<1>7. p \in hits
  BY <1>1, <1>2, <1>5, <1>6
<1>8. ASSUME NEW i \in hits
      PROVE  i = p
  <2>1. i \in Node /\ flags[i] = Used /\ FirstPage[i] = a
    BY <1>4, <1>6
  <2>2. i \in Blocks(flags) /\ p \in Blocks(flags) /\ a \in Pages[i] /\ a \in Pages[p]
    BY <1>1, <2>1, PagesFacts DEF Blocks, UsedBlocks
  <2> QED BY <1>1, <2>2, BlocksApart
<1>9. hits = {p}
  BY <1>7, <1>8
<1>10. Min(hits) = p
  <2>1. {p} \in SUBSET Nat /\ {p} # {}
    BY <1>2
  <2> QED BY <1>9, <2>1, LeastNumber
<1>11. QueryPage(a) = IF hits = {} THEN 0 ELSE Min(hits)
  BY DEF QueryPage, way
<1> HIDE DEF hits
<1> QED BY <1>9, <1>10, <1>11

(* Free by address frees the node that was handed out there.               *)
LEMMA FreeAddressIs ==
    ASSUME ZoneInv, NEW p \in held, FreeAddress(p)
    PROVE  FreePage(p)
<1>1. QueryPage(FirstPage[p]) = p
  BY QueryFinds
<1>2. p # 0
  BY OrderFacts DEF ZoneInv, UsedBlocks
<1> QED BY <1>1, <1>2 DEF FreeAddress

-----------------------------------------------------------------------------

(* Every step keeps the invariant. *)
LEMMA Stepwise ==
    ZoneInv /\ [Next]_vars => ZoneInv'
<1> SUFFICES ASSUME ZoneInv, [Next]_vars
             PROVE  ZoneInv'
  OBVIOUS
<1>1. ASSUME NEW n \in Requests, AllocPage(n)
      PROVE  ZoneInv'
  BY <1>1, AllocStep, RefuseStep
<1>2. ASSUME NEW p \in held, FreePage(p)
      PROVE  ZoneInv'
  BY <1>2, FreeStep
<1>3. ASSUME NEW p \in held, FreeAddress(p)
      PROVE  ZoneInv'
  BY <1>2, <1>3, FreeAddressIs
<1>4. CASE UNCHANGED vars
  BY <1>4 DEF vars, ZoneInv
<1> QED BY <1>1, <1>2, <1>3, <1>4 DEF Next

(* The tree, the lists and the count fit together at all times: the nodes  *)
(* with flag 1 are those handed out, the lists hold the free blocks, and   *)
(* these two kinds of blocks share out the pages that Zone::Init listed.   *)
THEOREM ZoneInvariant ==
    Spec => []ZoneInv
<1> QED BY Initially, Stepwise, PTL DEF Spec

(* TypeOK always holds.                                                    *)
THEOREM TypeCorrect ==
    Spec => []TypeOK
<1>1. ZoneInv => TypeOK
  <2> SUFFICES ASSUME ZoneInv PROVE TypeOK
    OBVIOUS
  <2>1. Shape(flags) /\ ListsHold(free_area, FreeBlocks(flags)) /\ held = UsedBlocks(flags)
    BY DEF ZoneInv
  <2>2. \A o \in Order : \A k \in DOMAIN free_area[o] :
            free_area[o][k] \in Node /\ order[free_area[o][k]] = o
    <3> SUFFICES ASSUME NEW o \in Order, NEW k \in DOMAIN free_area[o]
                 PROVE  free_area[o][k] \in Node /\ order[free_area[o][k]] = o
      OBVIOUS
    <3>1. free_area[o][k] \in ToSet(free_area[o])
      BY DEF ToSet
    <3> QED BY <2>1, <3>1 DEF ListsHold, FreeBlocks
  <2>3. free_page_num \in 0 .. valid_page_num
    <3> DEFINE F == PagesIn(FreeBlocks(flags))
               B == PagesIn(Base)
    <3>1. F \subseteq B /\ B \subseteq ValidPages /\ F \subseteq ValidPages
      BY <2>1, PagesOfBlocks
    <3>2. IsFiniteSet(B) /\ Cardinality(B) \in Nat /\ Cardinality(B) <= valid_page_num /\ Cardinality(F) \in Nat
      BY <3>1, ValidFinite
    <3>3. Cardinality(F) <= Cardinality(B)
      BY <3>1, <3>2, FS_Subset
    <3>4. free_page_num = valid_page_num - Cardinality(B) + Cardinality(F) /\ valid_page_num \in Nat
      BY ZoneAssumption DEF ZoneInv
    <3> HIDE DEF F, B
    <3> QED BY <3>2, <3>3, <3>4
  <2>4. DOMAIN free_area = Order
    BY <2>1 DEF ListsHold
  <2>5. held \subseteq Node /\ flags \in [Node -> {Unusable, Free, Used, Divided}]
    BY <2>1 DEF UsedBlocks, Shape
  <2>6. refused \in Order \union {-1}
    BY DEF ZoneInv
  <2> QED BY <2>2, <2>3, <2>4, <2>5, <2>6 DEF TypeOK
<1> QED BY <1>1, ZoneInvariant, PTL

(* The lists hold the free blocks. *)
LEMMA ListedIs ==
    ASSUME ZoneInv
    PROVE  Listed = FreeBlocks(flags)
<1>1. \A o \in Order : ToSet(free_area[o]) = {i \in FreeBlocks(flags) : order[i] = o}
  BY DEF ZoneInv, ListsHold
<1>2. \A i \in FreeBlocks(flags) : order[i] \in Order
  BY OrderFacts DEF FreeBlocks
<1> QED BY <1>1, <1>2 DEF Listed

(* A page is handed out once: no two of the blocks in use have a page in   *)
(* common, none has a page of a block on a list, and all their pages       *)
(* exist, however AllocPage split and FreePage merged.                     *)
THEOREM HandedOutOnce ==
    Spec => []( /\ \A p, q \in held : p # q => Pages[p] \cap Pages[q] = {}
                /\ PagesIn(held) \cap PagesIn(Listed) = {}
                /\ PagesIn(held) \subseteq ValidPages )
<1> DEFINE Once == /\ \A p, q \in held : p # q => Pages[p] \cap Pages[q] = {}
                   /\ PagesIn(held) \cap PagesIn(Listed) = {}
                   /\ PagesIn(held) \subseteq ValidPages
<1>1. ZoneInv => Once
  <2> SUFFICES ASSUME ZoneInv PROVE Once
    OBVIOUS
  <2>1. Shape(flags) /\ held = UsedBlocks(flags) /\ Listed = FreeBlocks(flags)
    BY ListedIs DEF ZoneInv
  <2>2. ASSUME NEW p \in held, NEW q \in held, p # q
        PROVE  Pages[p] \cap Pages[q] = {}
    BY <2>1, <2>2, BlocksApart DEF Blocks
  <2>3. /\ PagesIn(Listed) = PagesIn(Base) \ PagesIn(held)
        /\ PagesIn(held) \subseteq PagesIn(Base) /\ PagesIn(Base) \subseteq ValidPages
    BY <2>1, PagesOfBlocks
  <2> QED BY <2>2, <2>3
<1> HIDE DEF Once
<1>2. Spec => []Once
  BY <1>1, ZoneInvariant, PTL
<1> QED BY <1>2 DEF Once

(* The pages that are counted and in no block on a list are at all times   *)
(* as many as after Zone::Init: neither AllocPage nor FreePage with its    *)
(* splits and merges loses a page or counts one twice.                     *)
THEOREM NoPageIsLost ==
    Spec => [](free_page_num - Cardinality(PagesIn(Listed))
                  = valid_page_num - Cardinality(PagesIn(Base)))
<1>1. ZoneInv => free_page_num - Cardinality(PagesIn(Listed))
                    = valid_page_num - Cardinality(PagesIn(Base))
  <2> SUFFICES ASSUME ZoneInv
               PROVE  free_page_num - Cardinality(PagesIn(Listed))
                         = valid_page_num - Cardinality(PagesIn(Base))
    OBVIOUS
  <2>1. /\ free_page_num = valid_page_num - Cardinality(PagesIn(Base))
                             + Cardinality(PagesIn(FreeBlocks(flags)))
        /\ Shape(flags)
    BY DEF ZoneInv
  <2>2. /\ Cardinality(PagesIn(Base)) \in Nat /\ valid_page_num \in Nat
        /\ Cardinality(PagesIn(FreeBlocks(flags))) \in Nat
    BY <2>1, PagesOfBlocks, ValidFinite, ZoneAssumption
  <2> QED BY <2>1, <2>2, ListedIs
<1> QED BY <1>1, ZoneInvariant, PTL

(* For the sizes of memory whose pages Zone::Init lists all, every page    *)
(* free_page_num counts stays in a block on a list.                        *)
THEOREM CountedPages ==
    ASSUME InitListsAll
    PROVE  Spec => []CountedPagesAreListed
<1>1. valid_page_num \in Nat /\ Cardinality(ValidPages) = valid_page_num
  <2>1. valid_page_num \in Nat \ {0} /\ 0 \in Int /\ valid_page_num - 1 \in Int
    BY ZoneAssumption
  <2>2. Cardinality(0 .. valid_page_num - 1)
            = IF 0 > valid_page_num - 1 THEN 0 ELSE (valid_page_num - 1) - 0 + 1
    BY <2>1, FS_Interval
  <2> QED BY <2>1, <2>2 DEF ValidPages
<1>2. ZoneInv => CountedPagesAreListed
  <2> SUFFICES ASSUME ZoneInv PROVE CountedPagesAreListed
    OBVIOUS
  <2>1. /\ free_page_num = valid_page_num - Cardinality(PagesIn(Base))
                             + Cardinality(PagesIn(FreeBlocks(flags)))
        /\ Shape(flags) /\ Cardinality(PagesIn(Base)) = valid_page_num
    BY <1>1 DEF ZoneInv, InitListsAll
  <2>2. Cardinality(PagesIn(FreeBlocks(flags))) \in Nat
    BY <2>1, PagesOfBlocks, ValidFinite
  <2> QED BY <1>1, <2>1, <2>2, ListedIs DEF CountedPagesAreListed
<1> QED BY <1>2, ZoneInvariant, PTL

(* However blocks were split and freed: when none is in use, Merge has put *)
(* the blocks of Zone::Init together again.                                *)
THEOREM MergesBack ==
    Spec => []FreedMemoryMergesBack
<1>1. ZoneInv => FreedMemoryMergesBack
  <2> SUFFICES ASSUME ZoneInv, held = {}, NEW o \in Order
               PROVE  ToSet(free_area[o]) = ToSet(InitFreeArea[o])
    BY DEF FreedMemoryMergesBack
  <2>1. Shape(flags) /\ ListsHold(free_area, FreeBlocks(flags)) /\ UsedBlocks(flags) = {}
    BY DEF ZoneInv
  <2>2. \A i \in Node : flags[i] # Divided /\ flags[i] # Used
    BY <2>1, DividedHoldsUsed DEF UsedBlocks
  <2>3. \A i \in Base : i \in Node /\ flags[i] = Free
    BY <2>1, <2>2, BaseFacts DEF Shape
  <2>4. \A i \in Node : Live(flags, i) => i \in Base
    BY <2>2, ParentFacts DEF Live
  <2>5. FreeBlocks(flags) = Base
    BY <2>3, <2>4 DEF FreeBlocks, Live
  <2> QED BY <2>1, <2>5, InitLists DEF ListsHold
<1> QED BY <1>1, ZoneInvariant, PTL

(* A request that is answered gets enough pages, and less than twice as    *)
(* many.                                                                   *)
THEOREM Served ==
    Spec => RequestServed
<1> DEFINE A == \A n \in Requests \ {0} :
                   AllocPage(n) /\ refused' = -1
                     => \E p \in held' \ held : n <= Pow2[order[p]] /\ Pow2[order[p]] < 2 * n
<1>1. ZoneInv => A
  <2> SUFFICES ASSUME ZoneInv, NEW n \in Requests \ {0}, AllocPage(n), refused' = -1
               PROVE  \E p \in held' \ held : n <= Pow2[order[p]] /\ Pow2[order[p]] < 2 * n
    OBVIOUS
  <2>1. Source(OrderFor(n)) # {}
    <3> SUFFICES ASSUME Source(OrderFor(n)) = {} PROVE FALSE
      OBVIOUS
    <3>1. refused' = OrderFor(n) /\ OrderFor(n) \in Order
      BY RefuseStep
    <3> QED BY <3>1 DEF Order
  <2>2. PICK p \in Node : order[p] = OrderFor(n) /\ held' = held \union {p} /\ p \notin held
    BY <2>1, AllocStep
  <2> QED BY <2>2, OrderForFacts
<1>2. ZoneInv /\ [Next]_vars => [A]_vars
  BY <1>1
<1> HIDE DEF A
<1>3. Spec => [][A]_vars
  BY <1>2, ZoneInvariant, PTL DEF Spec
<1> QED BY <1>3 DEF RequestServed, A

-----------------------------------------------------------------------------
(* The allocator Zone implements.                                          *)

Run(p) == [first |-> FirstPage[p], order |-> order[p]]

(* Powers are the same in both specifications. *)
LEMMA SamePowers ==
    Abstract!Pow2 = Pow2
  BY DEF Pow2, Abstract!Pow2

(* A node stands for one run, of its pages. *)
LEMMA RunFacts ==
    /\ \A p \in Node : Abstract!PagesOf(Run(p)) = Pages[p]
    /\ \A p, q \in Node : Run(p) = Run(q) => p = q
<1>1. ASSUME NEW p \in Node
      PROVE  Abstract!PagesOf(Run(p)) = Pages[p]
  <2>1. Pages[p] = FirstPage[p] .. FirstPage[p] + Pow2[order[p]] - 1
    BY PagesFacts
  <2>2. Abstract!PagesOf(Run(p)) = Run(p).first .. Run(p).first + Pow2[Run(p).order] - 1
    BY SamePowers DEF Abstract!PagesOf
  <2>3. Run(p).first = FirstPage[p] /\ Run(p).order = order[p]
    BY DEF Run
  <2> QED BY <2>1, <2>2, <2>3
<1>2. ASSUME NEW p \in Node, NEW q \in Node, Run(p) = Run(q)
      PROVE  p = q
  <2>1. Run(p).first = FirstPage[p] /\ Run(p).order = order[p] /\ Run(q).first = FirstPage[q] /\ Run(q).order = order[q]
    BY DEF Run
  <2>2. order[p] = order[q] /\ FirstPage[p] = FirstPage[q]
    BY <1>2, <2>1
  <2>3. FirstPage[p] \in Pages[p] \cap Pages[q]
    BY <2>2, PagesFacts
  <2> QED BY <2>2, <2>3, SameOrderApart
<1> QED BY <1>1, <1>2

(* The runs of an order are the nodes of that order whose pages all exist. *)
LEMMA RunsAre ==
    ASSUME NEW o \in Order
    PROVE  Abstract!Runs(o) = {Run(p) : p \in {i \in Node : order[i] = o /\ Pages[i] \subseteq ValidPages}}
<1> DEFINE P == Pow2[o]
           Q == Pow2[max_order - o]
           n == valid_page_num \div P
<1>1. o \in Nat /\ max_order - o \in Nat /\ max_order = (max_order - o) + o
  BY ZoneAssumption DEF Order
<1>2. P \in Nat \ {0} /\ Q \in Nat \ {0} /\ M = Q * P /\ M \in Nat \ {0}
  <2>1. Pow2[(max_order - o) + o] = Q * P
    BY <1>1, Pow2Add
  <2>2. P \in Nat \ {0} /\ Q \in Nat \ {0}
    BY <1>1, Pow2Facts
  <2>3. M = Pow2[(max_order - o) + o] /\ M \in Nat \ {0}
    BY <1>1, Pow2Facts DEF M
  <2> QED BY <2>1, <2>2, <2>3
<1>3. valid_page_num \in Nat \ {0} /\ valid_page_num < M
  BY <1>2, ZoneAssumption DEF M
<1>4. Abstract!Runs(o) = {[first |-> k * P, order |-> o] : k \in 0 .. n - 1}
  BY SamePowers DEF Abstract!Runs
<1> HIDE DEF P, Q
<1>5. n \in Nat /\ n * P <= valid_page_num /\ valid_page_num < n * P + P
  BY <1>2, <1>3
<1> HIDE DEF n
<1>6. \A x, y, z \in Nat : x <= y => x * z <= y * z
  OBVIOUS
<1>7. \A k \in Nat : k < n <=> k * P + P <= valid_page_num
  <2> SUFFICES ASSUME NEW k \in Nat
               PROVE  k < n <=> k * P + P <= valid_page_num
    OBVIOUS
  <2>1. (k + 1) * P = k * P + P /\ k * P \in Nat /\ n * P \in Nat
    BY <1>2, <1>5
  <2>2. k < n => k * P + P <= n * P
    <3>1. k < n => k + 1 <= n
      BY <1>5
    <3> QED BY <1>2, <1>5, <1>6, <2>1, <3>1
  <2>3. ~ (k < n) => n * P <= k * P
    <3>1. ~ (k < n) => n <= k
      BY <1>5
    <3> QED BY <1>2, <1>5, <1>6, <3>1
  <2> QED BY <1>2, <1>3, <1>5, <2>1, <2>2, <2>3
\* The node at place k of order o.
<1>8. ASSUME NEW k \in Nat, k * P + P <= valid_page_num
      PROVE  /\ Q + k \in Node /\ order[Q + k] = o
             /\ FirstPage[Q + k] = k * P
  <2>1. k * P \in Nat /\ (Q + k) * P = Q * P + k * P
    BY <1>2
  <2>2. k < Q
    <3> SUFFICES ASSUME Q <= k PROVE FALSE
      BY <1>2
    <3>1. Q * P <= k * P
      BY <1>2, <1>6
    <3> QED BY <1>2, <1>3, <1>8, <2>1, <3>1
  <2>3. Q + k \in Nat /\ Q <= Q + k /\ Q + k < 2 * Q
    BY <1>2, <2>2
  <2>4. Q + k \in Node /\ order[Q + k] = o
    BY <2>3, OrderIs DEF Q
  <2>5. FirstPage[Q + k] = (Q + k) * P - M
    BY <2>4, PagesFacts DEF P
  <2> QED BY <1>2, <2>1, <2>4, <2>5
<1>9. ASSUME NEW i \in Node, order[i] = o
      PROVE  /\ i - Q \in Nat /\ FirstPage[i] = (i - Q) * P /\ Q + (i - Q) = i
             /\ Pages[i] \subseteq ValidPages <=> (i - Q) * P + P <= valid_page_num
  <2>1. i \in Nat /\ Q <= i
    BY <1>9, PlaceFacts, OrderFacts DEF Q
  <2>2. i - Q \in Nat /\ Q + (i - Q) = i
    BY <1>2, <2>1
  <2>3. FirstPage[i] = i * P - M /\ Pages[i] = FirstPage[i] .. FirstPage[i] + P - 1
    BY <1>9, PagesFacts DEF P
  <2>4. i * P = Q * P + (i - Q) * P /\ (i - Q) * P \in Nat
    <3> DEFINE d == i - Q
    <3>1. d \in Nat /\ i = Q + d
      BY <1>2, <2>1
    <3> HIDE DEF d
    <3>2. (Q + d) * P = Q * P + d * P /\ d * P \in Nat
      BY <1>2, <3>1
    <3> QED BY <3>1, <3>2 DEF d
  <2> DEFINE a == (i - Q) * P
  <2>5. FirstPage[i] = a /\ a \in Nat /\ Pages[i] = a .. a + P - 1
    BY <1>2, <2>3, <2>4
  <2> HIDE DEF a
  <2>6. Pages[i] \subseteq ValidPages <=> a + P <= valid_page_num
    <3>1. a + P - 1 \in a .. a + P - 1
      BY <1>2, <2>5
    <3> QED BY <1>2, <1>3, <2>5, <3>1 DEF ValidPages
  <2> QED BY <2>2, <2>5, <2>6 DEF a
<1>10. ASSUME NEW k \in 0 .. n - 1
       PROVE  \E p \in Node : /\ order[p] = o /\ Pages[p] \subseteq ValidPages
                              /\ [first |-> k * P, order |-> o] = Run(p)
  <2>1. k \in Nat /\ k * P + P <= valid_page_num
    BY <1>5, <1>7
  <2>2. Q + k \in Node /\ order[Q + k] = o /\ FirstPage[Q + k] = k * P
    BY <1>8, <2>1
  <2>3. (Q + k) - Q = k
    BY <1>2
  <2>4. Pages[Q + k] \subseteq ValidPages
    BY <1>9, <2>1, <2>2, <2>3
  <2>5. Run(Q + k) = [first |-> k * P, order |-> o]
    BY <2>2 DEF Run
  <2> QED BY <2>2, <2>4, <2>5
<1>11. ASSUME NEW p \in Node, order[p] = o, Pages[p] \subseteq ValidPages
       PROVE  \E k \in 0 .. n - 1 : Run(p) = [first |-> k * P, order |-> o]
  <2>1. p - Q \in Nat /\ FirstPage[p] = (p - Q) * P /\ (p - Q) * P + P <= valid_page_num
    BY <1>9, <1>11
  <2>2. p - Q \in 0 .. n - 1
    BY <1>5, <1>7, <2>1
  <2>3. Run(p) = [first |-> (p - Q) * P, order |-> o]
    BY <1>11, <2>1 DEF Run
  <2> QED BY <2>2, <2>3
<1> QED BY <1>4, <1>10, <1>11

AbsHeld == {Run(p) : p \in held}

(* The pages in use are those of the nodes held. *)
LEMMA HeldPagesAre ==
    ASSUME ZoneInv
    PROVE  Abstract!HeldPages = PagesIn(held)
<1>1. held \subseteq Node
  BY DEF ZoneInv, UsedBlocks
<1>2. \A p \in held : Abstract!PagesOf([first |-> FirstPage[p], order |-> order[p]]) = Pages[p]
  BY <1>1, RunFacts DEF Run
<1> QED BY <1>2 DEF Abstract!HeldPages, PagesIn

(* A block of the wanted order is available if its node has only free      *)
(* pages; AllocPage refuses only when there is none.                       *)
LEMMA RefusedRightly ==
    ASSUME ZoneInv, InitListsAll, NEW o \in Order, Source(o) = {}
    PROVE  Abstract!Available(o) = {}
<1> SUFFICES ASSUME NEW i \in Node, order[i] = o, Pages[i] \subseteq ValidPages,
                    Pages[i] \cap PagesIn(held) = {}
             PROVE  FALSE
  <2>1. Abstract!Available(o) = {b \in Abstract!Runs(o) : Abstract!PagesOf(b) \cap PagesIn(held) = {}}
    BY HeldPagesAre DEF Abstract!Available
  <2> QED BY <2>1, RunsAre, RunFacts
<1>1. Shape(flags) /\ held = UsedBlocks(flags) /\ ListsHold(free_area, FreeBlocks(flags))
  BY DEF ZoneInv
<1>2. FirstPage[i] \in Pages[i]
  BY PagesFacts
<1>3. PICK j \in Blocks(flags) : FirstPage[i] \in Pages[j]
  <2>1. FirstPage[i] \in PagesIn(Blocks(flags))
    BY <1>1, <1>2, BlocksCover DEF InitListsAll
  <2> QED BY <2>1 DEF PagesIn
<1>4. j \in FreeBlocks(flags)
  BY <1>1, <1>2, <1>3 DEF Blocks, PagesIn
<1>5. j \in Node /\ Live(flags, j) /\ order[j] \in Order
  BY <1>4, OrderFacts DEF FreeBlocks
<1>6. order[j] < o
  <2> SUFFICES ASSUME o <= order[j] PROVE FALSE
    BY <1>5 DEF Order
  <2>1. j \in ToSet(free_area[order[j]])
    BY <1>1, <1>4, <1>5 DEF ListsHold
  <2>2. free_area[order[j]] # <<>>
    BY <2>1 DEF ToSet
  <2>3. order[j] \in Source(o)
    BY <1>5, <2>2 DEF Source, Order
  <2> QED BY <2>3
<1>7. flags[i] \in {Divided, Unusable}
  BY <1>1, <1>2, <1>3, <1>5, <1>6, AboveLive
<1>8. flags[i] = Divided
  BY <1>1, <1>7 DEF Shape
<1>9. PICK p \in UsedBlocks(flags) : Pages[p] \subseteq Pages[i]
  BY <1>1, <1>8, DividedHoldsUsed
<1>10. p \in Node /\ FirstPage[p] \in Pages[p]
  BY <1>9, PagesFacts DEF UsedBlocks
<1> QED BY <1>1, <1>9, <1>10 DEF PagesIn

(* For the sizes of memory whose pages Zone::Init lists all, Zone is the   *)
(* abstract allocator: what it hands out is an aligned run of free pages,  *)
(* and it refuses only when there is none.                                 *)
THEOREM Implements ==
    ASSUME InitListsAll
    PROVE  Spec => ImplementsPageAllocator
<1>1. Init => Abstract!Init
  BY DEF Init, Abstract!Init
<1>2. ASSUME ZoneInv, ZoneInv', NEW n \in Requests, AllocPage(n)
      PROVE  Abstract!Next
  <2>1. OrderFor(n) \in Order
    BY OrderForFacts
  <2>2. CASE Source(OrderFor(n)) = {}
    <3>1. refused' = OrderFor(n) /\ UNCHANGED held
      BY <1>2, <2>2, RefuseStep
    <3>2. Abstract!Available(OrderFor(n)) = {}
      BY <1>2, <2>1, <2>2, RefusedRightly
    <3>3. Abstract!Refuse(OrderFor(n))
      BY <3>1, <3>2 DEF Abstract!Refuse
    <3> QED BY <2>1, <3>3 DEF Abstract!Next, Order
  <2>3. CASE Source(OrderFor(n)) # {}
    <3>1. PICK p \in Node : /\ order[p] = OrderFor(n) /\ held' = held \union {p} /\ p \notin held
                            /\ refused' = -1
      BY <1>2, <2>3, AllocStep
    <3>2. Shape(flags') /\ held' = UsedBlocks(flags')
      BY <1>2 DEF ZoneInv
    <3>3. p \in Blocks(flags') /\ \A q \in held : q \in Blocks(flags')
      BY <3>1, <3>2 DEF Blocks
    <3>4. Pages[p] \subseteq ValidPages
      BY <3>2, <3>3, BlocksFacts
    <3>5. Pages[p] \cap PagesIn(held) = {}
      <4>1. \A q \in held : Pages[p] \cap Pages[q] = {}
        BY <3>1, <3>2, <3>3, BlocksApart
      <4> QED BY <4>1 DEF PagesIn
    <3>6. Run(p) \in Abstract!Available(OrderFor(n))
      BY <1>2, <2>1, <3>1, <3>4, <3>5, RunsAre, RunFacts, HeldPagesAre DEF Abstract!Available
    <3>7. AbsHeld' = AbsHeld \union {Run(p)}
      BY <3>1 DEF AbsHeld, Run
    <3>8. Abstract!Allocate(OrderFor(n))
      BY <3>1, <3>6, <3>7 DEF Abstract!Allocate, AbsHeld, Run
    <3> QED BY <2>1, <3>8 DEF Abstract!Next, Order
  <2> QED BY <2>2, <2>3
<1>3. ASSUME ZoneInv, NEW p \in held, FreePage(p)
      PROVE  Abstract!Next
  <2>1. held' = held \ {p} /\ refused' = -1 /\ held \subseteq Node
    BY <1>3, FreeStep DEF ZoneInv, UsedBlocks
  <2>2. AbsHeld' = AbsHeld \ {Run(p)}
    <3>1. \A q \in held : Run(q) = Run(p) => q = p
      BY <2>1, RunFacts
    <3> QED BY <2>1, <3>1 DEF AbsHeld, Run
  <2>3. Run(p) \in AbsHeld
    BY DEF AbsHeld
  <2>4. Abstract!Release(Run(p))
    BY <2>1, <2>2 DEF Abstract!Release, AbsHeld, Run
  <2> QED BY <2>3, <2>4 DEF Abstract!Next, AbsHeld, Run
<1>4. ZoneInv /\ ZoneInv' /\ [Next]_vars => [Abstract!Next]_(Abstract!allocVars)
  <2> SUFFICES ASSUME ZoneInv, ZoneInv', [Next]_vars
               PROVE  [Abstract!Next]_(Abstract!allocVars)
    OBVIOUS
  <2>1. CASE \E n \in Requests : AllocPage(n)
    BY <1>2, <2>1
  <2>2. ASSUME NEW p \in held, FreePage(p)
        PROVE  Abstract!Next
    BY <1>3, <2>2
  <2>3. ASSUME NEW p \in held, FreeAddress(p)
        PROVE  Abstract!Next
    BY <1>3, <2>3, FreeAddressIs
  <2>4. CASE UNCHANGED vars
    BY <2>4 DEF vars, Abstract!allocVars
  <2> QED BY <2>1, <2>2, <2>3, <2>4 DEF Next
<1> QED BY <1>1, <1>4, ZoneInvariant, PTL DEF Spec, ImplementsPageAllocator, Abstract!Spec
=============================================================================
