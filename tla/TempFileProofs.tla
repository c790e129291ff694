--------------------------- MODULE TempFileProofs ---------------------------
(***************************************************************************)
(* Proofs about TempFile, for fragments of any size, any number of handles *)
(* and calls of any length.  First numbers and the rounds of a loop, then  *)
(* what Find, Read and Write do to a file, then the calls, and in the end  *)
(* that a temporary file is the row of bytes that ByteFile promises.       *)
(***************************************************************************)
EXTENDS TempFile, WellFoundedInduction, TLAPS

(* Induction for a set of numbers. *)
LEMMA AllNumbers ==
    ASSUME NEW I \in SUBSET Nat, 0 \in I, \A i \in I : i + 1 \in I
    PROVE  I = Nat
<1> SUFFICES ASSUME NEW n \in Nat \ I PROVE FALSE
  OBVIOUS
<1>1. PICK m \in Nat \ I : \A j \in Nat \ I : ~ (<<j, m>> \in OpToRel(<, Nat))
  BY WFMin, NatLessThanWellFounded
<1>2. m # 0 /\ m - 1 \in Nat /\ (m - 1) + 1 = m /\ m - 1 < m
  OBVIOUS
<1>3. m - 1 \notin I
  BY <1>2
<1>4. <<m - 1, m>> \in OpToRel(<, Nat)
  BY <1>2 DEF OpToRel
<1> QED BY <1>1, <1>2, <1>3, <1>4

\* f is what a loop comes to after each of its rounds.
IsLoop(f, start, step) == f = [k \in Nat |-> IF k = 0 THEN start ELSE step[f[k - 1]]]

(* A loop that stays among the states D has such a function. *)
LEMMA Rounds ==
    ASSUME NEW D, NEW step \in [D -> D], NEW start \in D
    PROVE  \E f \in [Nat -> D] : IsLoop(f, start, step)
<1> DEFINE G(k) == {g \in [0 .. k -> D] :
                       g[0] = start /\ \A i \in 0 .. k - 1 : g[i + 1] = step[g[i]]}
<1>1. ASSUME NEW k \in Nat, NEW m \in Nat, NEW g \in G(k), NEW h \in G(m)
      PROVE  \A i \in Nat : i <= k /\ i <= m => g[i] = h[i]
  <2> DEFINE I == {i \in Nat : i <= k /\ i <= m => g[i] = h[i]}
  <2>1. 0 \in I
    OBVIOUS
  <2>2. ASSUME NEW i \in I
        PROVE  i + 1 \in I
    <3>1. ASSUME i + 1 <= k, i + 1 <= m
          PROVE  g[i + 1] = h[i + 1]
      <4>1. i \in 0 .. k - 1 /\ i \in 0 .. m - 1 /\ g[i] = h[i]
        BY <3>1
      <4> QED BY <4>1
    <3> QED BY <3>1
  <2>3. I = Nat
    <3> HIDE DEF I
    <3> QED BY <2>1, <2>2, AllNumbers DEF I
  <2> QED BY <2>3
<1>2. \A k \in Nat : G(k) # {}
  <2> DEFINE I == {k \in Nat : G(k) # {}}
  <2>1. 0 \in I
    <3>1. [i \in 0 .. 0 |-> start] \in G(0)
      OBVIOUS
    <3> QED BY <3>1
  <2>2. ASSUME NEW k \in I
        PROVE  k + 1 \in I
    <3>1. PICK g : g \in G(k)
      OBVIOUS
    <3> DEFINE h == [i \in 0 .. k + 1 |-> IF i = k + 1 THEN step[g[k]] ELSE g[i]]
    <3>2. \A i \in 0 .. k : g[i] \in D /\ h[i] = g[i]
      BY <3>1
    <3>3. h[k + 1] = step[g[k]] /\ step[g[k]] \in D
      BY <3>2
    <3>4. h \in [0 .. k + 1 -> D]
      BY <3>2, <3>3
    <3>5. ASSUME NEW i \in 0 .. (k + 1) - 1
          PROVE  h[i + 1] = step[h[i]]
      <4>1. CASE i = k
        BY <4>1, <3>2, <3>3
      <4>2. CASE i # k
        <5>1. i \in 0 .. k - 1 /\ i \in 0 .. k /\ i + 1 \in 0 .. k
          BY <4>2
        <5> HIDE DEF h
        <5> QED BY <5>1, <3>1, <3>2
      <4> QED BY <4>1, <4>2
    <3>6. h[0] = start
      BY <3>1, <3>2
    <3>7. h \in G(k + 1)
      <4> HIDE DEF h
      <4> QED BY <3>4, <3>5, <3>6
    <3> QED BY <3>7
  <2>3. I = Nat
    <3> HIDE DEF I
    <3> QED BY <2>1, <2>2, AllNumbers DEF I
  <2> QED BY <2>3
<1> DEFINE c == [k \in Nat |-> CHOOSE g \in G(k) : TRUE]
           f == [k \in Nat |-> c[k][k]]
<1>3. \A k \in Nat : c[k] \in G(k)
  BY <1>2
<1> HIDE DEF c
<1>4. ASSUME NEW k \in Nat
      PROVE  /\ f[k] \in D
             /\ f[k] = IF k = 0 THEN start ELSE step[f[k - 1]]
  <2>1. c[k] \in [0 .. k -> D] /\ c[k][0] = start
    BY <1>3
  <2>2. CASE k # 0
    <3>1. k - 1 \in Nat /\ k - 1 \in 0 .. k - 1 /\ (k - 1) + 1 = k /\ k - 1 <= k
      BY <2>2
    <3>2. c[k] \in G(k) /\ c[k - 1] \in G(k - 1)
      BY <1>3, <3>1
    <3>3. c[k][(k - 1) + 1] = step[c[k][k - 1]]
      BY <3>1, <3>2
    <3>4. c[k][k - 1] = c[k - 1][k - 1]
      <4> HIDE DEF G
      <4> QED BY <1>1, <3>1, <3>2
    <3> QED BY <2>1, <2>2, <3>1, <3>3, <3>4
  <2> QED BY <2>1, <2>2
<1>5. f \in [Nat -> D] /\ f = [k \in Nat |-> IF k = 0 THEN start ELSE step[f[k - 1]]]
  <2> HIDE DEF f
  <2>1. f = [k \in Nat |-> f[k]]
    BY DEF f
  <2> QED BY <1>4, <2>1
<1> QED BY <1>5 DEF IsLoop

\* m counts down in every round.
Counts(D, step, m) ==
    /\ m \in [D -> Nat]
    /\ \A d \in D : m[d] = 0 \/ m[step[d]] < m[d]
    /\ \A d \in D : m[d] = 0 => m[step[d]] = 0

(* It has come to nothing after as many rounds.                            *)
LEMMA RoundsEnd ==
    ASSUME NEW D, NEW step \in [D -> D], NEW start \in D, NEW m, Counts(D, step, m),
           NEW f, IsLoop(f, start, step)
    PROVE  \A k \in Nat : f[k] \in D /\ (k >= m[start] => m[f[k]] = 0)
<1> DEFINE I == {k \in Nat : f[k] \in D /\ (m[f[k]] = 0 \/ m[f[k]] <= m[start] - k)}
<1>1. \A k \in Nat : f[k] = IF k = 0 THEN start ELSE step[f[k - 1]]
  BY DEF IsLoop
<1> USE DEF Counts
<1>2. 0 \in I
  BY <1>1
<1>3. ASSUME NEW k \in I
      PROVE  k + 1 \in I
  <2>1. k + 1 \in Nat /\ k + 1 # 0 /\ (k + 1) - 1 = k
    OBVIOUS
  <2>2. f[k + 1] = step[f[k]]
    BY <1>1, <2>1
  <2>3. f[k] \in D /\ step[f[k]] \in D
    OBVIOUS
  <2>4. m[f[k]] \in Nat /\ m[step[f[k]]] \in Nat /\ m[start] \in Nat
    BY <2>3
  <2> QED BY <2>1, <2>2, <2>3, <2>4
<1>4. I = Nat
  <2> HIDE DEF I
  <2> QED BY <1>2, <1>3, AllNumbers DEF I
<1>5. ASSUME NEW k \in Nat
      PROVE  f[k] \in D /\ (k >= m[start] => m[f[k]] = 0)
  <2>1. f[k] \in D /\ (m[f[k]] = 0 \/ m[f[k]] <= m[start] - k)
    BY <1>4
  <2>2. m[f[k]] \in Nat /\ m[start] \in Nat
    BY <2>1
  <2> QED BY <2>1, <2>2
<1> QED BY <1>5

-----------------------------------------------------------------------------
LEMMA ConcatFacts ==
    ASSUME NEW S, NEW s \in Seq(S), NEW t \in Seq(S)
    PROVE  /\ s \o t \in Seq(S) /\ Len(s \o t) = Len(s) + Len(t)
           /\ \A k \in 1 .. Len(s) + Len(t) :
                  (s \o t)[k] = IF k <= Len(s) THEN s[k] ELSE t[k - Len(s)]
OBVIOUS

-----------------------------------------------------------------------------
(* Places in the fragments. *)

LEMMA SizeFacts == FragmentSize \in Nat \ {0} /\ BufferSize \in Nat \ {0}
BY TempFileAssumption

LEMMA Multiple ==
    ASSUME NEW b \in Nat \ {0}, NEW c \in Int, NEW d \in Int
    PROVE  /\ c * b \in Int /\ (c + 1) * b = c * b + b
           /\ c < d => c * b + b <= d * b
<1>1. /\ c * b \in Int /\ d * b \in Int /\ (c + 1) * b = c * b + b
      /\ (d - c) * b = d * b - c * b
  OBVIOUS
<1>2. ASSUME NEW e \in Int, e >= 1
      PROVE  e * b >= b
  BY <1>2
<1>3. ASSUME c < d
      PROVE  c * b + b <= d * b
  <2>1. d - c \in Int /\ d - c >= 1
    BY <1>3
  <2>2. (d - c) * b >= b
    BY <1>2, <2>1
  <2> QED BY <1>1, <2>2
<1> QED BY <1>1, <1>3

(* Fragments begin a fragment's size apart. *)
LEMMA BeginFacts ==
    ASSUME NEW i \in Int, NEW j \in Int
    PROVE  /\ Begin(i) \in Int /\ Begin(i + 1) = Begin(i) + FragmentSize
           /\ i < j => Begin(i) + FragmentSize <= Begin(j)
           /\ i < j => Begin(i + 1) <= Begin(j)
<1>1. i - 1 \in Int /\ j - 1 \in Int /\ (i - 1) + 1 = i /\ (i + 1) - 1 = i
  OBVIOUS
<1>2. /\ (i - 1) * FragmentSize \in Int
      /\ ((i - 1) + 1) * FragmentSize = (i - 1) * FragmentSize + FragmentSize
      /\ i - 1 < j - 1 => (i - 1) * FragmentSize + FragmentSize <= (j - 1) * FragmentSize
  BY <1>1, SizeFacts, Multiple
<1>3. Begin(i + 1) = Begin(i) + FragmentSize
  BY <1>1, <1>2 DEF Begin
<1>4. ASSUME i < j
      PROVE  Begin(i) + FragmentSize <= Begin(j)
  BY <1>2, <1>4 DEF Begin
<1> QED BY <1>2, <1>3, <1>4 DEF Begin

LEMMA FirstBegin == Begin(1) = 0
<1>1. 0 * FragmentSize = 0
  BY SizeFacts
<1> QED BY <1>1 DEF Begin

\* The number of the fragment that place p is in.
Around(p) == p \div FragmentSize + 1

LEMMA AroundFacts ==
    ASSUME NEW p \in Nat
    PROVE  /\ Around(p) \in Nat \ {0}
           /\ p \in Begin(Around(p)) .. Begin(Around(p) + 1) - 1
           /\ p % FragmentSize = p - Begin(Around(p))
           /\ p % FragmentSize \in 0 .. FragmentSize - 1
           /\ \A i \in Int : p \in Begin(i) .. Begin(i + 1) - 1 => i = Around(p)
<1> DEFINE q == p \div FragmentSize
           r == p % FragmentSize
<1>1. q \in Nat /\ r \in 0 .. FragmentSize - 1
  BY SizeFacts
<1>2. p = FragmentSize * q + r
  BY SizeFacts, Z3
<1>3. q * FragmentSize = FragmentSize * q /\ FragmentSize * q \in Int
  BY <1>1, SizeFacts
<1> HIDE DEF q, r
<1>4. q + 1 \in Nat \ {0} /\ (q + 1) - 1 = q
  BY <1>1
<1>5. Begin(q + 1) = FragmentSize * q
  BY <1>3, <1>4 DEF Begin
<1>6. p \in Begin(q + 1) .. Begin((q + 1) + 1) - 1
  <2>1. Begin((q + 1) + 1) = Begin(q + 1) + FragmentSize /\ Begin(q + 1) \in Int
    BY <1>4, BeginFacts
  <2> QED BY <1>1, <1>2, <1>5, <2>1, SizeFacts
<1>7. ASSUME NEW i \in Int, p \in Begin(i) .. Begin(i + 1) - 1
      PROVE  i = q + 1
  <2>1. /\ i < q + 1 => Begin(i + 1) <= Begin(q + 1)
        /\ q + 1 < i => Begin((q + 1) + 1) <= Begin(i)
        /\ Begin(i) \in Int /\ Begin(i + 1) \in Int
        /\ Begin(q + 1) \in Int /\ Begin((q + 1) + 1) \in Int
    BY <1>4, BeginFacts
  <2> QED BY <1>4, <1>6, <1>7, <2>1
<1>8. r = p - Begin(q + 1)
  BY <1>1, <1>2, <1>3, <1>5
<1>9. Around(p) = q + 1
  BY DEF Around, q
<1> QED BY <1>1, <1>4, <1>6, <1>7, <1>8, <1>9 DEF r

-----------------------------------------------------------------------------
(* The files, and what they hold. *)

Fragment == [size : Nat, data : [0 .. FragmentSize - 1 -> Bytes \union {Garbage}]]
Files == [frags : Seq(Fragment), cache : Nat, FileSize : Nat]

\* FragmentsTile, without the bound on the size.
Tiled(S) ==
    /\ S.cache \in 0 .. Len(S.frags)
    /\ \A i \in 1 .. Len(S.frags) :
           /\ S.frags[i].size = Least(FragmentSize, S.FileSize - Begin(i))
           /\ \A k \in 0 .. S.frags[i].size - 1 : S.frags[i].data[k] \in Bytes
    /\ S.FileSize <= Begin(Len(S.frags) + 1)

\* The byte at place x, counted from 0.
ByteAt(S, x) == S.frags[Around(x)].data[x % FragmentSize]

LEMMA LeastFacts ==
    ASSUME NEW a \in Int, NEW b \in Int
    PROVE  /\ Least(a, b) \in Int /\ Least(a, b) <= a /\ Least(a, b) <= b
           /\ Least(a, b) = a \/ Least(a, b) = b
           /\ a <= b => Least(a, b) = a
           /\ b <= a => Least(a, b) = b
BY DEF Least

LEMMA GreatestFacts ==
    ASSUME NEW a \in Int, NEW b \in Int
    PROVE  /\ Greatest(a, b) \in Int /\ Greatest(a, b) >= a /\ Greatest(a, b) >= b
           /\ Greatest(a, b) = a \/ Greatest(a, b) = b
           /\ a <= b => Greatest(a, b) = b
           /\ b <= a => Greatest(a, b) = a
BY DEF Greatest

(* Find finds the fragment around a place, if there is one: the one used   *)
(* last never makes it begin too far behind.                               *)
LEMMA FoundIs ==
    ASSUME NEW S \in Files, Tiled(S), NEW p \in Nat
    PROVE  Found(S, p) = IF Around(p) <= Len(S.frags) THEN Around(p) ELSE 0
<1> DEFINE from == IF S.cache # 0 /\ p > Begin(S.cache) THEN S.cache ELSE 1
           fits(i) == p \in Begin(i) .. Begin(i + 1) - 1
           n == Len(S.frags)
           a == Around(p)
<1>1. n \in Nat /\ S.cache \in 0 .. n /\ from \in Nat
  BY DEF Files, Tiled
<1>2. a \in Nat \ {0} /\ fits(a) /\ \A i \in Int : fits(i) => i = a
  BY AroundFacts
<1>3. from <= a
  <2>1. ASSUME S.cache # 0, p > Begin(S.cache), a < S.cache
        PROVE  FALSE
    <3>1. /\ Begin(a + 1) <= Begin(S.cache)
          /\ Begin(a + 1) \in Int /\ Begin(S.cache) \in Int /\ Begin(a) \in Int
      <4>1. a \in Int /\ S.cache \in Int
        BY <1>1, <1>2
      <4> HIDE DEF a
      <4> QED BY <4>1, <2>1, BeginFacts
    <3> QED BY <1>2, <2>1, <3>1
  <2> QED BY <1>1, <1>2, <2>1
<1>4. Found(S, p) = IF \E i \in from .. n : fits(i)
                    THEN CHOOSE i \in from .. n : fits(i) ELSE 0
  BY DEF Found
<1> HIDE DEF from, fits, n, a
<1>5. CASE a <= n
  <2>1. a \in from .. n
    BY <1>1, <1>2, <1>3, <1>5
  <2>2. (CHOOSE i \in from .. n : fits(i)) = a
    <3>1. \A i \in from .. n : fits(i) => i = a
      BY <1>1, <1>2
    <3> QED BY <1>2, <2>1, <3>1
  <2> QED BY <1>2, <1>4, <1>5, <2>1, <2>2 DEF n, a
<1>6. CASE ~ (a <= n)
  <2>1. ~ \E i \in from .. n : fits(i)
    BY <1>1, <1>2, <1>6
  <2> QED BY <1>4, <1>6, <2>1 DEF n, a
<1> QED BY <1>5, <1>6

(* What lies before the end lies in a fragment and has been written. *)
LEMMA ByteFacts ==
    ASSUME NEW S \in Files, Tiled(S), NEW x \in 0 .. S.FileSize - 1
    PROVE  /\ Around(x) \in 1 .. Len(S.frags)
           /\ x - Begin(Around(x)) \in 0 .. S.frags[Around(x)].size - 1
           /\ ByteAt(S, x) = S.frags[Around(x)].data[x - Begin(Around(x))]
           /\ ByteAt(S, x) \in Bytes
<1> DEFINE a == Around(x)
           n == Len(S.frags)
<1>1. n \in Nat /\ S.FileSize \in Nat /\ x \in Nat /\ x < S.FileSize
      /\ S.FileSize <= Begin(n + 1)
  BY DEF Files, Tiled
<1>2. /\ a \in Nat \ {0} /\ x \in Begin(a) .. Begin(a + 1) - 1
      /\ x % FragmentSize = x - Begin(a)
  BY <1>1, AroundFacts
<1> HIDE DEF a
<1>3. a <= n
  <2>1. Begin(a) \in Int /\ (n + 1 < a => Begin(n + 1) + FragmentSize <= Begin(a))
        /\ Begin(n + 1) \in Int
    <3> DEFINE e == n + 1
    <3>1. e \in Int /\ a \in Int
      BY <1>1, <1>2
    <3> HIDE DEF e
    <3>2. /\ Begin(a) \in Int /\ (e < a => Begin(e) + FragmentSize <= Begin(a))
          /\ Begin(e) \in Int
      BY <3>1, BeginFacts
    <3> QED BY <3>2 DEF e
  <2>2. a # n + 1
    BY <1>1, <1>2, <2>1
  <2> QED BY <1>1, <1>2, <2>1, <2>2, SizeFacts
<1>4. a \in 1 .. n /\ S.frags[a].size = Least(FragmentSize, S.FileSize - Begin(a))
      /\ \A k \in 0 .. S.frags[a].size - 1 : S.frags[a].data[k] \in Bytes
  BY <1>1, <1>2, <1>3 DEF Tiled
<1>5. x - Begin(a) \in 0 .. S.frags[a].size - 1
  <2>1. Begin(a) \in Int /\ Begin(a + 1) = Begin(a) + FragmentSize
    BY <1>2, BeginFacts
  <2>2. Least(FragmentSize, S.FileSize - Begin(a)) \in {FragmentSize, S.FileSize - Begin(a)}
    BY DEF Least
  <2> QED BY <1>1, <1>2, <1>4, <2>1, <2>2, SizeFacts
<1>6. ByteAt(S, x) = S.frags[a].data[x - Begin(a)]
  BY <1>2 DEF ByteAt, a
<1> QED BY <1>4, <1>5, <1>6 DEF a

LEMMA UsedFacts ==
    ASSUME NEW S \in Files, Tiled(S), NEW i \in 0 .. Len(S.frags)
    PROVE  /\ Used(S, i) \in Files /\ Tiled(Used(S, i))
           /\ Used(S, i).frags = S.frags /\ Used(S, i).FileSize = S.FileSize
<1>1. Used(S, i) \in Files
  BY DEF Used, Files
<1>2. /\ Used(S, i).frags = S.frags /\ Used(S, i).FileSize = S.FileSize
      /\ Used(S, i).cache \in {S.cache, i}
  BY DEF Used, Files
<1>3. Tiled(Used(S, i))
  BY <1>2 DEF Tiled
<1> QED BY <1>1, <1>2, <1>3

(* Files of the same fragments and size are the same but for the cache.    *)
SameBytes(S, T) ==
    T \in Files /\ Tiled(T) /\ T.frags = S.frags /\ T.FileSize = S.FileSize

-----------------------------------------------------------------------------
(* Read.                                                                   *)

\* Where the loop can be that reads n bytes of S from p on.
ReadStates(S, p, n) ==
    {st \in [S : Files, p : Nat, n : Nat, out : Seq(Bytes)] :
        /\ SameBytes(S, st.S)
        /\ st.p = p + Len(st.out) /\ st.p <= S.FileSize /\ Len(st.out) <= n
        /\ st.n = n - Len(st.out) \/ (st.n = 0 /\ st.p = S.FileSize)
        /\ \A k \in 1 .. Len(st.out) : st.out[k] = ByteAt(S, p + k - 1)}

\* len bytes of f, from x - b on.
Piece(f, x, b, len) == [k \in 1 .. len |-> f[x + k - 1 - b]]

LEMMA PieceAt ==
    ASSUME NEW f, NEW x \in Int, NEW b \in Int, NEW len \in Int, NEW k \in 1 .. len
    PROVE  Piece(f, x, b, len)[k] = f[x + k - 1 - b]
BY DEF Piece

LEMMA ReadRoundFacts ==
    ASSUME NEW S \in Files, Tiled(S), NEW p \in Nat, NEW n \in Nat,
           NEW st \in ReadStates(S, p, n)
    PROVE  /\ ReadRound(st) \in ReadStates(S, p, n)
           /\ st.n = 0 => ReadRound(st).n = 0
           /\ st.n # 0 => ReadRound(st).n < st.n
<1> DEFINE i == Found(st.S, st.p)
           len == RoundOfRead(st.S, i, st.p, st.n)
<1>1. /\ st = [S |-> st.S, p |-> st.p, n |-> st.n, out |-> st.out]
      /\ st.S \in Files /\ st.p \in Nat /\ st.n \in Nat /\ st.out \in Seq(Bytes)
      /\ Len(st.out) \in Nat
      /\ st.p = p + Len(st.out) /\ st.p <= S.FileSize /\ Len(st.out) <= n
      /\ (st.n # 0 => st.n = n - Len(st.out))
      /\ \A k \in 1 .. Len(st.out) : st.out[k] = ByteAt(S, p + k - 1)
      /\ S.FileSize \in Nat /\ Len(S.frags) \in Nat
  BY DEF ReadStates, Files
<1>2. Tiled(st.S) /\ st.S.frags = S.frags /\ st.S.FileSize = S.FileSize
  BY DEF ReadStates, SameBytes
<1>3. i = IF Around(st.p) <= Len(S.frags) THEN Around(st.p) ELSE 0
  BY <1>1, <1>2, FoundIs
<1>4. Around(st.p) \in Nat \ {0} /\ st.p \in Begin(Around(st.p)) .. Begin(Around(st.p) + 1) - 1
  BY <1>1, AroundFacts
<1>5. ReadRound(st) =
        IF st.n = 0 THEN st
        ELSE IF i = 0 THEN [S |-> st.S, p |-> st.p, n |-> 0, out |-> st.out]
        ELSE IF len = 0 THEN [S |-> Used(st.S, i), p |-> st.p, n |-> 0, out |-> st.out]
        ELSE [S |-> Used(st.S, i), p |-> st.p + len, n |-> st.n - len,
              out |-> st.out \o [k \in 1 .. len |->
                          st.S.frags[i].data[st.p + k - 1 - Begin(i)]]]
  BY DEF ReadRound
<1> HIDE DEF i
<1>6. CASE st.n = 0
  BY <1>5, <1>6
<1>7. ASSUME NEW T, T \in Files, SameBytes(S, T), st.p = S.FileSize
      PROVE  [S |-> T, p |-> st.p, n |-> 0, out |-> st.out] \in ReadStates(S, p, n)
  BY <1>1, <1>7 DEF ReadStates
<1>8. CASE st.n # 0 /\ i = 0
  <2>1. st.p = S.FileSize
    <3> DEFINE e == Len(S.frags) + 1
               a == Around(st.p)
    <3>1. a >= e /\ a \in Int /\ e \in Int
      BY <1>1, <1>3, <1>4, <1>8
    <3>2. S.FileSize <= Begin(e) /\ st.p \in Begin(a) .. Begin(a + 1) - 1
      BY <1>4 DEF Tiled
    <3> HIDE DEF e, a
    <3>3. /\ Begin(e) \in Int /\ Begin(a) \in Int /\ (e < a => Begin(e + 1) <= Begin(a))
          /\ Begin(e + 1) = Begin(e) + FragmentSize
      BY <3>1, BeginFacts
    <3>4. Begin(e) <= Begin(a)
      BY <3>1, <3>3, SizeFacts
    <3> QED BY <1>1, <3>2, <3>3, <3>4
  <2>2. SameBytes(S, st.S)
    BY <1>1, <1>2 DEF SameBytes
  <2>3. ReadRound(st) = [S |-> st.S, p |-> st.p, n |-> 0, out |-> st.out]
    BY <1>5, <1>8
  <2> QED BY <1>1, <1>7, <1>8, <2>1, <2>2, <2>3
<1>9. CASE st.n # 0 /\ i # 0
  <2> DEFINE size == S.frags[i].size
             rest == Begin(i) + size - st.p
  <2>1. /\ i \in 1 .. Len(S.frags) /\ i = Around(st.p)
        /\ Begin(i) \in Int /\ Begin(i + 1) = Begin(i) + FragmentSize
        /\ st.p \in Begin(i) .. Begin(i + 1) - 1
    <3>1. i \in 1 .. Len(S.frags) /\ i = Around(st.p)
      BY <1>1, <1>3, <1>4, <1>9
    <3> QED BY <1>4, <3>1, BeginFacts
  <2>2. /\ size = Least(FragmentSize, S.FileSize - Begin(i))
        /\ \A k \in 0 .. size - 1 : S.frags[i].data[k] \in Bytes
    BY <2>1 DEF Tiled
  <2>3. size \in Int /\ rest \in Int /\ rest >= 0 /\ st.p + rest <= S.FileSize
        /\ (rest = 0 => st.p = S.FileSize) /\ st.p + rest <= Begin(i + 1)
    <3>1. /\ Least(FragmentSize, S.FileSize - Begin(i)) \in {FragmentSize, S.FileSize - Begin(i)}
          /\ Least(FragmentSize, S.FileSize - Begin(i)) <= FragmentSize
          /\ Least(FragmentSize, S.FileSize - Begin(i)) <= S.FileSize - Begin(i)
      <4> DEFINE d == S.FileSize - Begin(i)
      <4>1. d \in Int /\ FragmentSize \in Int
        BY <1>1, <2>1, SizeFacts
      <4> HIDE DEF d
      <4>2. /\ Least(FragmentSize, d) \in {FragmentSize, d}
            /\ Least(FragmentSize, d) <= FragmentSize /\ Least(FragmentSize, d) <= d
        BY <4>1, LeastFacts
      <4> QED BY <4>2 DEF d
    <3>2. st.p <= S.FileSize /\ st.p \in Nat /\ S.FileSize \in Nat
      BY <1>1
    <3> HIDE DEF size
    <3>3. size \in {FragmentSize, S.FileSize - Begin(i)} /\ size <= FragmentSize
          /\ size <= S.FileSize - Begin(i)
      BY <2>2, <3>1
    <3>4. size \in Int
      BY <2>1, <3>2, <3>3, SizeFacts
    <3>5. CASE size = FragmentSize
      BY <2>1, <3>2, <3>3, <3>4, <3>5, SizeFacts
    <3>6. CASE size = S.FileSize - Begin(i)
      <4>1. rest = S.FileSize - st.p
        BY <2>1, <3>2, <3>6
      <4>2. S.FileSize - Begin(i) <= FragmentSize
        BY <3>3, <3>6
      <4> HIDE DEF rest
      <4> QED BY <2>1, <3>2, <3>4, <4>1, <4>2, SizeFacts
    <3> QED BY <3>3, <3>5, <3>6
  <2>4. len = Least(st.n, rest)
    BY <1>2, <2>3 DEF RoundOfRead
  <2> HIDE DEF len, rest, size
  <2>5. len \in Nat /\ len <= st.n /\ len <= rest /\ (len = 0 => rest = 0)
    BY <1>1, <1>9, <2>3, <2>4 DEF Least
  <2>6. SameBytes(S, Used(st.S, i))
    <3>1. i \in 0 .. Len(st.S.frags)
      BY <1>2, <2>1
    <3> QED BY <1>1, <1>2, <3>1, UsedFacts DEF SameBytes
  <2>7. CASE len = 0
    <3>1. ReadRound(st) = [S |-> Used(st.S, i), p |-> st.p, n |-> 0, out |-> st.out]
      BY <1>5, <1>9, <2>7
    <3>2. Used(st.S, i) \in Files /\ st.p = S.FileSize
      BY <2>3, <2>5, <2>6, <2>7 DEF SameBytes
    <3> QED BY <1>1, <1>7, <1>9, <2>6, <3>1, <3>2
  <2>8. CASE len # 0
    <3> DEFINE new == Piece(S.frags[i].data, st.p, Begin(i), len)
               out == st.out \o new
    <3>1. ReadRound(st) = [S |-> Used(st.S, i), p |-> st.p + len, n |-> st.n - len, out |-> out]
      BY <1>2, <1>5, <1>9, <2>8 DEF Piece
    <3>2. ASSUME NEW k \in 1 .. len
          PROVE  /\ new[k] = ByteAt(S, (st.p + k) - 1)
                 /\ new[k] \in Bytes
      <4> DEFINE x == (st.p + k) - 1
      <4>1. x \in 0 .. S.FileSize - 1 /\ x \in Begin(i) .. Begin(i + 1) - 1
        <5>1. /\ st.p \in Nat /\ S.FileSize \in Nat /\ Begin(i) \in Int /\ Begin(i + 1) \in Int
              /\ rest \in Int
          BY <1>1, <2>1, <2>3, SizeFacts
        <5>2. st.p + len <= S.FileSize /\ st.p + len <= Begin(i + 1) /\ Begin(i) <= st.p
          BY SMTT(30), <2>1, <2>3, <2>5, <5>1
        <5> QED BY <2>5, <5>1, <5>2
      <4>2. i = Around(x)
        <5>1. i \in Int /\ x \in Nat
          BY <1>1, <2>1, <4>1
        <5> HIDE DEF x
        <5> QED BY <4>1, <5>1, AroundFacts
      <4>3. ByteAt(S, x) = S.frags[i].data[x - Begin(i)] /\ ByteAt(S, x) \in Bytes
        BY <4>1, <4>2, ByteFacts
      <4>4. new[k] = S.frags[i].data[x - Begin(i)]
        <5>1. st.p \in Int /\ Begin(i) \in Int /\ len \in Int
          BY <1>1, <2>1, <2>5
        <5> QED BY <5>1, PieceAt
      <4> QED BY <4>3, <4>4
    <3>3. new \in Seq(Bytes) /\ Len(new) = len
      <4>1. new \in [1 .. len -> Bytes]
        <5>1. \A k \in 1 .. len : new[k] \in Bytes
          BY <3>2
        <5> QED BY <5>1 DEF Piece
      <4> HIDE DEF new
      <4> QED BY <2>5, <4>1
    <3> HIDE DEF new
    <3>4. /\ out \in Seq(Bytes) /\ Len(out) = Len(st.out) + len
          /\ \A k \in 1 .. Len(st.out) + len :
                out[k] = IF k <= Len(st.out) THEN st.out[k] ELSE new[k - Len(st.out)]
      <4>1. st.out \in Seq(Bytes)
        BY <1>1
      <4> QED BY <3>3, <4>1, ConcatFacts
    <3> HIDE DEF out
    <3>5. ASSUME NEW k \in 1 .. Len(out)
          PROVE  out[k] = ByteAt(S, p + k - 1)
      <4>1. CASE k <= Len(st.out)
        <5>1. k \in 1 .. Len(st.out)
          BY <1>1, <4>1
        <5> QED BY <1>1, <2>5, <3>4, <4>1, <5>1
      <4>2. CASE ~ (k <= Len(st.out))
        <5>1. k - Len(st.out) \in 1 .. len
          BY SMTT(30), <1>1, <2>5, <3>4, <4>2
        <5>2. (st.p + (k - Len(st.out))) - 1 = (p + k) - 1
          BY <1>1
        <5>3. out[k] = new[k - Len(st.out)]
          BY <3>4, <4>2
        <5> QED BY <3>2, <5>1, <5>2, <5>3
      <4> QED BY <4>1, <4>2
    <3>6. /\ st.p + len \in Nat /\ st.n - len \in Nat /\ st.n - len < st.n
          /\ st.p + len = p + Len(out) /\ st.p + len <= S.FileSize /\ Len(out) <= n
          /\ st.n - len = n - Len(out)
      <4>1. /\ st.p \in Nat /\ st.n \in Nat /\ st.n = n - Len(st.out) /\ Len(st.out) \in Nat
            /\ st.p = p + Len(st.out) /\ Len(out) = Len(st.out) + len /\ S.FileSize \in Nat
        BY <1>1, <1>9, <3>4
      <4> QED BY <2>3, <2>5, <2>8, <4>1
    <3>7. ReadRound(st) \in ReadStates(S, p, n)
      <4>1. Used(st.S, i) \in Files
        BY <2>6 DEF SameBytes
      <4> DEFINE r == [S |-> Used(st.S, i), p |-> st.p + len, n |-> st.n - len, out |-> out]
      <4>2. r \in [S : Files, p : Nat, n : Nat, out : Seq(Bytes)]
        BY <3>4, <3>6, <4>1
      <4>3. r.S = Used(st.S, i) /\ r.p = st.p + len /\ r.n = st.n - len /\ r.out = out
        OBVIOUS
      <4> HIDE DEF r
      <4>4. r \in ReadStates(S, p, n)
        BY <2>6, <3>5, <3>6, <4>2, <4>3 DEF ReadStates
      <4> QED BY <3>1, <4>4 DEF r
    <3>8. ReadRound(st).n = st.n - len
      BY <3>1
    <3> QED BY <1>9, <3>6, <3>7, <3>8
  <2> QED BY <2>7, <2>8
<1> QED BY <1>6, <1>8, <1>9

(* Read gives the bytes from a place on, as many as asked for or as there  *)
(* are, and leaves the file as it was.                                     *)
LEMMA ReadFromFacts ==
    ASSUME NEW S \in Files, Tiled(S), NEW p \in 0 .. S.FileSize, NEW n \in Nat
    PROVE  LET r == ReadFrom(S, p, n)
           IN  /\ SameBytes(S, r.S) /\ r.out \in Seq(Bytes)
               /\ Len(r.out) = Least(n, S.FileSize - p)
               /\ \A k \in 1 .. Len(r.out) : r.out[k] = ByteAt(S, p + k - 1)
<1> DEFINE D == ReadStates(S, p, n)
           start == [S |-> S, p |-> p, n |-> n, out |-> <<>>]
           step == [st \in D |-> ReadRound(st)]
           left == [st \in D |-> st.n]
           F == CHOOSE after :
                    after = [k \in Nat |-> IF k = 0 THEN start ELSE ReadRound(after[k - 1])]
<1>1. p \in Nat /\ S.FileSize \in Nat /\ p <= S.FileSize
  BY DEF Files
<1>2. start \in D
  <2>1. SameBytes(S, S)
    BY DEF SameBytes
  <2>2. <<>> \in Seq(Bytes) /\ Len(<<>>) = 0
    OBVIOUS
  <2>3. \A k \in 1 .. 0 : <<>>[k] = ByteAt(S, p + k - 1)
    OBVIOUS
  <2> QED BY <1>1, <2>1, <2>2, <2>3 DEF ReadStates
<1>3. \A st \in D : /\ ReadRound(st) \in D
                    /\ st.n = 0 => ReadRound(st).n = 0
                    /\ st.n # 0 => ReadRound(st).n < st.n
                    /\ st.n \in Nat
  <2>1. \A st \in D : st.n \in Nat
    BY DEF ReadStates
  <2> QED BY <1>1, <2>1, ReadRoundFacts
<1>4. ReadFrom(S, p, n) = F[n]
  BY DEF ReadFrom
<1> HIDE DEF D, start, F
<1>5. step \in [D -> D] /\ left \in [D -> Nat] /\ \A st \in D : step[st] = ReadRound(st)
  BY <1>3
<1>6. F = [k \in Nat |-> IF k = 0 THEN start ELSE ReadRound(F[k - 1])]
  <2>1. PICK f \in [Nat -> D] : IsLoop(f, start, step)
    <3> HIDE DEF step
    <3> QED BY <1>2, <1>5, Rounds
  <2>2. f = [k \in Nat |-> IF k = 0 THEN start ELSE ReadRound(f[k - 1])]
    <3>1. ASSUME NEW k \in Nat, k # 0
          PROVE  step[f[k - 1]] = ReadRound(f[k - 1])
      <4>1. k - 1 \in Nat
        BY <3>1
      <4> QED BY <1>5, <4>1
    <3> HIDE DEF step
    <3> QED BY <2>1, <3>1 DEF IsLoop
  <2> QED BY <2>2 DEF F
<1>7. \A k \in Nat : F[k] \in D
  <2> DEFINE I == {k \in Nat : F[k] \in D}
  <2>1. 0 \in I
    BY <1>2, <1>6
  <2>2. ASSUME NEW k \in I
        PROVE  k + 1 \in I
    <3>1. k + 1 \in Nat /\ k + 1 # 0 /\ (k + 1) - 1 = k
      OBVIOUS
    <3>2. F[k + 1] = ReadRound(F[k])
      BY <1>6, <3>1
    <3> QED BY <1>3, <3>1, <3>2
  <2>3. I = Nat
    <3> HIDE DEF I
    <3> QED BY <2>1, <2>2, AllNumbers DEF I
  <2> QED BY <2>3
<1>8. IsLoop(F, start, step)
  <2>1. ASSUME NEW k \in Nat, k # 0
        PROVE  step[F[k - 1]] = ReadRound(F[k - 1])
    <3>1. k - 1 \in Nat
      BY <2>1
    <3> QED BY <1>5, <1>7, <3>1
  <2> HIDE DEF step
  <2> QED BY <1>6, <2>1 DEF IsLoop
<1>9. F[n] \in D /\ F[n].n = 0
  <2>1. /\ \A d \in D : left[d] = 0 \/ left[step[d]] < left[d]
        /\ \A d \in D : left[d] = 0 => left[step[d]] = 0
    BY <1>3
  <2>2. left[start] = n
    BY <1>2 DEF start
  <2>3. left[F[n]] = F[n].n
    BY <1>7
  <2> HIDE DEF step, left
  <2>4. F[n] \in D /\ (n >= left[start] => left[F[n]] = 0)
    <3>1. \A k \in Nat : F[k] \in D /\ (k >= left[start] => left[F[k]] = 0)
      <4>1. step \in [D -> D] /\ Counts(D, step, left)
        BY <1>5, <2>1 DEF Counts
      <4> QED BY <1>2, <1>8, <4>1, RoundsEnd
    <3> QED BY <3>1
  <2> QED BY <2>2, <2>3, <2>4
<1>10. ASSUME NEW r \in D, r.n = 0
       PROVE  /\ SameBytes(S, r.S) /\ r.out \in Seq(Bytes)
              /\ Len(r.out) = Least(n, S.FileSize - p)
              /\ \A k \in 1 .. Len(r.out) : r.out[k] = ByteAt(S, p + k - 1)
  <2>1. /\ SameBytes(S, r.S) /\ r.out \in Seq(Bytes)
        /\ r.p = p + Len(r.out) /\ r.p <= S.FileSize /\ Len(r.out) <= n
        /\ r.n = n - Len(r.out) \/ r.p = S.FileSize
        /\ \A k \in 1 .. Len(r.out) : r.out[k] = ByteAt(S, p + k - 1)
    BY DEF D, ReadStates
  <2>2. Len(r.out) = Least(n, S.FileSize - p)
    <3>1. Len(r.out) \in Nat
      BY <2>1
    <3> QED BY <1>1, <1>10, <2>1, <3>1 DEF Least
  <2> QED BY <2>1, <2>2
<1> QED BY <1>4, <1>9, <1>10

-----------------------------------------------------------------------------
(* Write.                                                                  *)

(* Only the end of a file with no room left has no fragment around it.     *)
LEMMA NoRoom ==
    ASSUME NEW S \in Files, Tiled(S), NEW p \in 0 .. S.FileSize,
           ~ (Around(p) <= Len(S.frags))
    PROVE  p = S.FileSize /\ p = Begin(Len(S.frags) + 1) /\ Around(p) = Len(S.frags) + 1
<1> DEFINE e == Len(S.frags) + 1
           a == Around(p)
<1>1. p \in Nat /\ p <= S.FileSize /\ S.FileSize \in Nat /\ Len(S.frags) \in Nat
  BY DEF Files
<1>2. a \in Int /\ e \in Int /\ a >= e
  BY <1>1, AroundFacts
<1>3. S.FileSize <= Begin(e) /\ p \in Begin(a) .. Begin(a + 1) - 1
  BY <1>1, AroundFacts DEF Tiled
<1> HIDE DEF e, a
<1>4. /\ Begin(e) \in Int /\ Begin(a) \in Int /\ (e < a => Begin(e + 1) <= Begin(a))
      /\ Begin(e + 1) = Begin(e) + FragmentSize
  BY <1>2, BeginFacts
<1>5. a = e
  BY <1>1, <1>2, <1>3, <1>4, SizeFacts
<1> QED BY <1>1, <1>3, <1>4, <1>5 DEF a, e

LEMMA FilledFacts ==
    ASSUME NEW f \in Fragment, NEW at \in Nat, NEW c \in Seq(Bytes)
    PROVE  /\ Filled(f, at, c) \in Fragment
           /\ Filled(f, at, c).size = Greatest(f.size, at + Len(c))
           /\ \A k \in 0 .. FragmentSize - 1 :
                  Filled(f, at, c).data[k] = IF k \in at .. at + Len(c) - 1
                                             THEN c[k - at + 1] ELSE f.data[k]
<1> DEFINE data == [k \in DOMAIN f.data |-> IF k \in at .. at + Len(c) - 1
                                           THEN c[k - at + 1] ELSE f.data[k]]
<1>1. f.size \in Nat /\ f.data \in [0 .. FragmentSize - 1 -> Bytes \union {Garbage}]
      /\ DOMAIN f.data = 0 .. FragmentSize - 1 /\ Len(c) \in Nat
  BY DEF Fragment
<1>2. Greatest(f.size, at + Len(c)) \in Nat
  BY <1>1 DEF Greatest
<1>3. ASSUME NEW k \in 0 .. FragmentSize - 1
      PROVE  /\ data[k] \in Bytes \union {Garbage}
             /\ data[k] = IF k \in at .. at + Len(c) - 1 THEN c[k - at + 1] ELSE f.data[k]
  <2>1. CASE k \in at .. at + Len(c) - 1
    <3>1. k - at + 1 \in 1 .. Len(c)
      BY <1>1, <2>1
    <3>2. c[k - at + 1] \in Bytes
      BY <3>1
    <3> QED BY <1>1, <2>1, <3>2
  <2>2. CASE k \notin at .. at + Len(c) - 1
    BY <1>1, <2>2
  <2> QED BY <2>1, <2>2
<1>4. data \in [0 .. FragmentSize - 1 -> Bytes \union {Garbage}]
  BY <1>1, <1>3
<1>5. Filled(f, at, c) = [size |-> Greatest(f.size, at + Len(c)), data |-> data]
  BY DEF Filled
<1> HIDE DEF data
<1> QED BY <1>2, <1>3, <1>4, <1>5 DEF Fragment

\* The file T with the bytes c in fragment i, from place q on.
Refilled(T, i, q, c) ==
    [frags |-> [T.frags EXCEPT ![i] = Filled(@, q - Begin(i), c)],
     cache |-> i, FileSize |-> Greatest(T.FileSize, q + Len(c))]

\* U holds what T does, but the bytes c from place q on.
Overwritten(T, U, q, c) ==
    /\ U \in Files /\ Tiled(U)
    /\ U.FileSize = Greatest(T.FileSize, q + Len(c))
    /\ \A x \in 0 .. U.FileSize - 1 :
           ByteAt(U, x) = IF x \in q .. q + Len(c) - 1 THEN c[x - q + 1] ELSE ByteAt(T, x)

LEMMA RefilledFacts ==
    ASSUME NEW T \in Files, Tiled(T), NEW i \in 1 .. Len(T.frags),
           NEW q \in 0 .. T.FileSize, q \in Begin(i) .. Begin(i + 1) - 1,
           NEW c \in Seq(Bytes), q + Len(c) <= Begin(i + 1)
    PROVE  Overwritten(T, Refilled(T, i, q, c), q, c)
<1> DEFINE U == Refilled(T, i, q, c)
           at == q - Begin(i)
           n == Len(T.frags)
           L == Len(c)
           f == Filled(T.frags[i], at, c)
           size == Greatest(T.FileSize, q + L)
<1>1. /\ T.frags \in Seq(Fragment) /\ n \in Nat /\ i \in Nat /\ T.FileSize \in Nat
      /\ q \in Nat /\ q <= T.FileSize /\ L \in Nat
      /\ Begin(i) \in Int /\ Begin(i + 1) = Begin(i) + FragmentSize
      /\ T.frags[i] \in Fragment
  <2>1. T.frags \in Seq(Fragment) /\ T.FileSize \in Nat
    BY DEF Files
  <2>2. n \in Nat /\ i \in Nat /\ i \in Int /\ L \in Nat /\ q \in Nat /\ q <= T.FileSize
    BY <2>1
  <2>3. T.frags[i] \in Fragment
    BY <2>1, <2>2
  <2>4. Begin(i) \in Int /\ Begin(i + 1) = Begin(i) + FragmentSize
    BY <2>2, BeginFacts
  <2> QED BY <2>1, <2>2, <2>3, <2>4
<1>2. at \in 0 .. FragmentSize - 1 /\ at + L <= FragmentSize
  BY <1>1, SizeFacts
<1>3. U = [frags |-> [T.frags EXCEPT ![i] = f], cache |-> i, FileSize |-> size]
  BY DEF Refilled
<1>4. /\ f \in Fragment /\ f.size = Greatest(T.frags[i].size, at + L)
      /\ \A k \in 0 .. FragmentSize - 1 :
             f.data[k] = IF k \in at .. at + L - 1 THEN c[k - at + 1] ELSE T.frags[i].data[k]
  <2> DEFINE g == T.frags[i]
  <2>1. at \in Nat /\ g \in Fragment /\ f = Filled(g, at, c)
    BY <1>1, <1>2
  <2> HIDE DEF at, f, g
  <2>2. /\ Filled(g, at, c) \in Fragment
        /\ Filled(g, at, c).size = Greatest(g.size, at + Len(c))
        /\ \A k \in 0 .. FragmentSize - 1 :
               Filled(g, at, c).data[k]
                 = IF k \in at .. at + Len(c) - 1 THEN c[k - at + 1] ELSE g.data[k]
    <3>1. c \in Seq(Bytes)
      OBVIOUS
    <3> QED BY <2>1, <3>1, FilledFacts, Zenon
  <2> QED BY <2>1, <2>2 DEF g
<1>5. size \in Nat /\ size >= T.FileSize /\ size >= q + L /\ size \in {T.FileSize, q + L}
  BY <1>1 DEF Greatest
<1> HIDE DEF f, size, at, L, n, U
<1>6. /\ U.frags \in Seq(Fragment) /\ Len(U.frags) = n /\ U.cache = i /\ U.FileSize = size
      /\ U.frags[i] = f /\ \A j \in 1 .. n : j # i => U.frags[j] = T.frags[j]
  BY <1>1, <1>3, <1>4 DEF n
<1>7. U \in Files
  BY <1>1, <1>3, <1>4, <1>5 DEF Files, n
<1>8. \A j \in 1 .. n :
          /\ T.frags[j].size = Least(FragmentSize, T.FileSize - Begin(j))
          /\ T.frags[j].size \in Nat
          /\ \A k \in 0 .. T.frags[j].size - 1 : T.frags[j].data[k] \in Bytes
  <2>1. \A j \in 1 .. n : T.frags[j] \in Fragment
    BY <1>1 DEF n
  <2>2. \A j \in 1 .. n : T.frags[j].size \in Nat
    BY <2>1 DEF Fragment
  <2> QED BY <2>2 DEF Tiled, n
<1>9. ASSUME NEW j \in 1 .. n, j # i
      PROVE  Least(FragmentSize, T.FileSize - Begin(j)) = Least(FragmentSize, size - Begin(j))
  <2> DEFINE d == Begin(j)
             b == Begin(i)
             s == T.FileSize
  <2>1. i \in Int /\ j \in Int /\ (j < i \/ i < j)
    BY <1>1, <1>9
  <2>2. d \in Int /\ b \in Int /\ (d + FragmentSize <= b \/ b + FragmentSize <= d)
    <3>1. /\ Begin(i) \in Int /\ Begin(j) \in Int
          /\ (j < i => Begin(j) + FragmentSize <= Begin(i))
          /\ (i < j => Begin(i) + FragmentSize <= Begin(j))
      BY <2>1, BeginFacts
    <3> QED BY <2>1, <3>1
  <2>3. Least(FragmentSize, s - d) \in Nat
    BY <1>8
  <2>4. b <= q /\ q + L <= b + FragmentSize /\ q <= s /\ s \in Nat /\ q \in Nat /\ L \in Nat
    BY <1>1 DEF L
  <2> HIDE DEF b, d, s
  <2>5. Least(FragmentSize, s - d) = Least(FragmentSize, Greatest(s, q + L) - d)
    BY <2>2, <2>3, <2>4, SizeFacts DEF Least, Greatest
  <2> QED BY <2>5 DEF d, s, size
<1>10. /\ f.size = Least(FragmentSize, size - Begin(i)) /\ f.size \in Nat
       /\ T.frags[i].size \in Nat /\ T.frags[i].size <= FragmentSize
       /\ at <= T.frags[i].size /\ f.size <= FragmentSize
  <2> DEFINE z == T.frags[i].size
             b == Begin(i)
             s == T.FileSize
  <2>1. z = Least(FragmentSize, s - b) /\ z \in Nat
    BY <1>1, <1>8 DEF n
  <2>2. /\ b \in Int /\ b <= q /\ q < b + FragmentSize /\ q + L <= b + FragmentSize
        /\ q <= s /\ s \in Nat /\ q \in Nat /\ L \in Nat
    BY <1>1, SizeFacts DEF L
  <2>3. f.size = Greatest(z, (q - b) + L) /\ f.size \in Nat /\ at = q - b
    BY <1>4 DEF Fragment, at
  <2> HIDE DEF b, z, s
  <2>4. /\ z <= FragmentSize /\ (q < b + FragmentSize => q - b <= z)
        /\ Greatest(z, (q - b) + L) = Least(FragmentSize, Greatest(s, q + L) - b)
    BY <2>1, <2>2, SizeFacts DEF Least, Greatest
  <2>5. f.size <= FragmentSize
    <3>1. (q - b) + L <= FragmentSize
      BY <2>2, SizeFacts
    <3> QED BY <2>3, <2>4, <3>1 DEF Greatest
  <2> QED BY <2>1, <2>2, <2>3, <2>4, <2>5 DEF z, b, s, size
<1>11. ASSUME NEW k \in 0 .. f.size - 1
       PROVE  f.data[k] \in Bytes
  <2>1. k \in 0 .. FragmentSize - 1
    BY <1>10, SizeFacts
  <2>2. CASE k \in at .. at + L - 1
    <3>1. k - at + 1 \in 1 .. Len(c)
      BY SMTT(30), <1>1, <1>2, <2>2 DEF L
    <3> QED BY <1>4, <2>1, <2>2, <3>1
  <2>3. CASE k \notin at .. at + L - 1
    <3>1. k \in 0 .. T.frags[i].size - 1
      <4>1. T.frags[i].size \in Nat
        BY <1>1, <1>8 DEF n
      <4> QED BY <1>1, <1>2, <1>4, <1>10, <2>3, <4>1 DEF Greatest
    <3>2. T.frags[i].data[k] \in Bytes
      BY <1>1, <1>8, <3>1 DEF n
    <3> QED BY <1>4, <2>1, <2>3, <3>2
  <2> QED BY <2>2, <2>3
<1>12. Tiled(U)
  <2>1. ASSUME NEW j \in 1 .. n
        PROVE  /\ U.frags[j].size = Least(FragmentSize, size - Begin(j))
               /\ \A k \in 0 .. U.frags[j].size - 1 : U.frags[j].data[k] \in Bytes
    <3>1. CASE j = i
      BY <1>6, <1>10, <1>11, <3>1
    <3>2. CASE j # i
      BY <1>6, <1>8, <1>9, <3>2
    <3> QED BY <3>1, <3>2
  <2>2. size <= Begin(n + 1)
    <3> DEFINE e == n + 1
    <3>1. T.FileSize <= Begin(e)
      BY DEF Tiled, n
    <3>2. i \in Int /\ e \in Int /\ i < e
      BY <1>1 DEF n
    <3> HIDE DEF e
    <3>3. Begin(e) \in Int /\ Begin(i + 1) <= Begin(e)
      BY <3>2, BeginFacts
    <3>4. size <= Begin(e)
      BY <1>1, <1>5, <3>1, <3>3, SizeFacts DEF L
    <3> QED BY <3>4 DEF e
  <2>3. i \in 0 .. n
    BY <1>1 DEF n
  <2> QED BY <1>6, <2>1, <2>2, <2>3 DEF Tiled
<1>13. ASSUME NEW x \in 0 .. size - 1
       PROVE  ByteAt(U, x) = IF x \in q .. q + L - 1 THEN c[x - q + 1] ELSE ByteAt(T, x)
  <2> DEFINE a == Around(x)
             r == x % FragmentSize
  <2>1. /\ a \in Nat \ {0} /\ x \in Begin(a) .. Begin(a + 1) - 1
        /\ r = x - Begin(a) /\ r \in 0 .. FragmentSize - 1
        /\ \A j \in Int : x \in Begin(j) .. Begin(j + 1) - 1 => j = a
    <3>1. x \in Nat
      BY <1>5
    <3> QED BY <3>1, AroundFacts
  <2>2. a \in 1 .. n
    <3>1. Around(x) \in 1 .. Len(U.frags)
      BY <1>6, <1>7, <1>12, ByteFacts
    <3> QED BY <1>6, <3>1
  <2>3. ByteAt(U, x) = U.frags[a].data[r] /\ ByteAt(T, x) = T.frags[a].data[r]
    BY DEF ByteAt
  <2> HIDE DEF a, r
  <2>4. CASE a = i
    <3>1. U.frags[a] = f
      BY <1>6, <2>4
    <3>2. f.data[r] = IF r \in at .. at + L - 1 THEN c[r - at + 1] ELSE T.frags[i].data[r]
      BY <1>4, <2>1
    <3>3. at = q - Begin(i) /\ r = x - Begin(i) /\ x \in Int
      BY <1>5, <2>1, <2>4 DEF at
    <3>4. (r \in at .. at + L - 1) <=> (x \in q .. q + L - 1)
      BY SMTT(30), <1>1, <3>3
    <3>5. r - at + 1 = x - q + 1
      BY <1>1, <3>3
    <3> QED BY <2>3, <2>4, <3>1, <3>2, <3>4, <3>5
  <2>5. CASE a # i
    <3>1. U.frags[a] = T.frags[a]
      BY <1>6, <2>2, <2>5
    <3>2. x \notin q .. q + L - 1
      <4>1. SUFFICES ASSUME x \in q .. q + L - 1
                     PROVE  x \in Begin(i) .. Begin(i + 1) - 1 /\ i \in Int
        BY <2>1, <2>5
      <4>2. q + L <= Begin(i + 1) /\ Begin(i) <= q
        BY <1>1 DEF L
      <4> QED BY <1>1, <4>1, <4>2, SizeFacts
    <3> QED BY <2>3, <3>1, <3>2
  <2> QED BY <2>4, <2>5
<1> QED BY <1>6, <1>7, <1>12, <1>13 DEF Overwritten, U, size, L

\* The file T with an empty fragment more.
Grown(T, c) == [frags |-> Append(T.frags, NewFragment), cache |-> c, FileSize |-> T.FileSize]

LEMMA GrownFacts ==
    ASSUME NEW T \in Files, Tiled(T), T.FileSize = Begin(Len(T.frags) + 1),
           NEW c \in 0 .. Len(T.frags) + 1
    PROVE  /\ Grown(T, c) \in Files /\ Tiled(Grown(T, c))
           /\ Len(Grown(T, c).frags) = Len(T.frags) + 1
           /\ \A x \in 0 .. T.FileSize - 1 : ByteAt(Grown(T, c), x) = ByteAt(T, x)
<1> DEFINE U == Grown(T, c)
           n == Len(T.frags)
           e == n + 1
<1>1. T.frags \in Seq(Fragment) /\ n \in Nat /\ T.FileSize \in Nat
  BY DEF Files
<1>2. NewFragment \in Fragment /\ NewFragment.size = 0
  BY DEF NewFragment, Fragment
<1>3. U = [frags |-> Append(T.frags, NewFragment), cache |-> c, FileSize |-> T.FileSize]
  BY DEF Grown
<1> HIDE DEF U
<1>4. /\ U.frags \in Seq(Fragment) /\ Len(U.frags) = e /\ U.cache = c /\ U.FileSize = T.FileSize
      /\ U.frags[e] = NewFragment /\ \A j \in 1 .. n : U.frags[j] = T.frags[j]
  BY <1>1, <1>2, <1>3
<1>5. U \in Files
  BY <1>1, <1>2, <1>3 DEF Files
<1>6. Tiled(U)
  <2>1. ASSUME NEW j \in 1 .. e
        PROVE  /\ U.frags[j].size = Least(FragmentSize, T.FileSize - Begin(j))
               /\ \A k \in 0 .. U.frags[j].size - 1 : U.frags[j].data[k] \in Bytes
    <3>1. CASE j \in 1 .. n
      BY <1>4, <3>1 DEF Tiled
    <3>2. CASE j = e
      <4>1. U.frags[j].size = 0 /\ T.FileSize - Begin(j) = 0
        <5>1. T.FileSize - T.FileSize = 0
          BY <1>1
        <5> QED BY <1>2, <1>4, <3>2, <5>1
      <4>2. Least(FragmentSize, 0) = 0
        BY SizeFacts DEF Least
      <4> QED BY <4>1, <4>2
    <3> QED BY <1>1, <3>1, <3>2
  <2>2. T.FileSize <= Begin(e + 1)
    <3>1. e \in Int
      BY <1>1
    <3>2. T.FileSize = Begin(e)
      OBVIOUS
    <3> HIDE DEF e
    <3>3. Begin(e) \in Int /\ Begin(e + 1) = Begin(e) + FragmentSize
      BY <3>1, BeginFacts
    <3> QED BY <1>1, <3>2, <3>3, SizeFacts
  <2> HIDE DEF e
  <2>3. c \in 0 .. e
    BY DEF e
  <2> QED BY <1>4, <2>1, <2>2, <2>3 DEF Tiled
<1>7. ASSUME NEW x \in 0 .. T.FileSize - 1
      PROVE  ByteAt(U, x) = ByteAt(T, x)
  <2>1. Around(x) \in 1 .. n
    BY ByteFacts
  <2> QED BY <1>4, <2>1 DEF ByteAt
<1> QED BY <1>4, <1>5, <1>6, <1>7 DEF U

\* Where the loop can be that writes b to S from p on.
WriteStates(S, p, b) ==
    {st \in [S : Files, p : Nat, b : Seq(Bytes)] :
        /\ Tiled(st.S) /\ st.p >= p /\ st.p + Len(st.b) = p + Len(b)
        /\ \A k \in 1 .. Len(st.b) : st.b[k] = b[(st.p - p) + k]
        /\ st.S.FileSize = Greatest(S.FileSize, st.p)
        /\ \A x \in 0 .. st.S.FileSize - 1 :
               ByteAt(st.S, x) = IF x \in p .. st.p - 1 THEN b[x - p + 1] ELSE ByteAt(S, x)}

\* A bound on the rounds it has still to go.
RoundsOfWrite(st) ==
    IF st.b = <<>> THEN 0
    ELSE IF Found(st.S, st.p) = 0 THEN 2 * Len(st.b) + 1 ELSE 2 * Len(st.b)

LEMMA RoundsOfWriteFacts ==
    ASSUME NEW S \in Files, NEW p \in Nat, NEW b \in Seq(Bytes), NEW st \in WriteStates(S, p, b)
    PROVE  /\ RoundsOfWrite(st) \in Nat
           /\ RoundsOfWrite(st) = 0 <=> st.b = <<>>
           /\ RoundsOfWrite(st) <= 2 * Len(st.b) + 1
<1>1. st.b \in Seq(Bytes) /\ Len(st.b) \in Nat /\ (st.b # <<>> => Len(st.b) > 0)
  BY DEF WriteStates
<1> QED BY <1>1 DEF RoundsOfWrite

LEMMA WriteRoundFacts ==
    ASSUME NEW S \in Files, Tiled(S), NEW p \in 0 .. S.FileSize, NEW b \in Seq(Bytes),
           NEW st \in WriteStates(S, p, b)
    PROVE  /\ WriteRound(st) \in WriteStates(S, p, b)
           /\ st.b = <<>> => WriteRound(st) = st
           /\ st.b # <<>> => RoundsOfWrite(WriteRound(st)) < RoundsOfWrite(st)
<1> DEFINE T == st.S
           q == st.p
           i == Found(T, q)
           len == Least(Len(st.b), Begin(i + 1) - q)
           n == Len(T.frags)
<1>1. /\ T \in Files /\ q \in Nat /\ st.b \in Seq(Bytes) /\ Tiled(T) /\ q >= p
      /\ q + Len(st.b) = p + Len(b) /\ p \in Nat /\ S.FileSize \in Nat
      /\ T.FileSize = Greatest(S.FileSize, q)
      /\ T.FileSize \in Nat /\ n \in Nat /\ Len(st.b) \in Nat /\ Len(b) \in Nat
  BY DEF WriteStates, Files
<1>2. \A k \in 1 .. Len(st.b) : st.b[k] = b[(q - p) + k]
  BY DEF WriteStates
<1>3. \A x \in 0 .. T.FileSize - 1 :
          ByteAt(T, x) = IF x \in p .. q - 1 THEN b[x - p + 1] ELSE ByteAt(S, x)
  BY DEF WriteStates
<1>4. q \in 0 .. T.FileSize
  BY <1>1 DEF Greatest
<1>5. /\ i = IF Around(q) <= n THEN Around(q) ELSE 0
      /\ Around(q) \in Nat \ {0} /\ q \in Begin(Around(q)) .. Begin(Around(q) + 1) - 1
  BY <1>1, FoundIs, AroundFacts
<1>6. CASE st.b = <<>>
  BY <1>6 DEF WriteRound
<1>7. CASE st.b # <<>> /\ i = 0
  <2> DEFINE c == IF T.frags = <<>> THEN T.cache ELSE n + 1
             U == Grown(T, c)
             next == [S |-> U, p |-> q, b |-> st.b]
  <2>1. WriteRound(st) = next
    BY <1>7 DEF WriteRound, Grown
  <2>2. q = T.FileSize /\ T.FileSize = Begin(n + 1) /\ Around(q) = n + 1
    <3>1. ~ (Around(q) <= n)
      BY <1>5, <1>7
    <3> QED BY <1>1, <1>4, <3>1, NoRoom
  <2>3. c \in 0 .. n + 1
    BY SMTT(30), <1>1 DEF Tiled
  <2> HIDE DEF c
  <2>4. /\ U \in Files /\ Tiled(U) /\ Len(U.frags) = n + 1 /\ U.FileSize = T.FileSize
        /\ \A x \in 0 .. T.FileSize - 1 : ByteAt(U, x) = ByteAt(T, x)
    <3>1. U.FileSize = T.FileSize
      BY DEF Grown
    <3> QED BY <1>1, <2>2, <2>3, <3>1, GrownFacts
  <2> HIDE DEF U, T, q
  <2>5. next \in WriteStates(S, p, b)
    <3>1. next \in [S : Files, p : Nat, b : Seq(Bytes)]
      BY <1>1, <2>4
    <3>2. next.S = U /\ next.p = q /\ next.b = st.b
      OBVIOUS
    <3> HIDE DEF next
    <3> QED BY <1>1, <1>2, <1>3, <2>4, <3>1, <3>2 DEF WriteStates
  <2>6. Found(U, q) # 0
    BY <1>1, <1>5, <2>2, <2>4, FoundIs
  <2>7. RoundsOfWrite(next) = 2 * Len(st.b) /\ RoundsOfWrite(st) = 2 * Len(st.b) + 1
    BY <1>7, <2>6 DEF RoundsOfWrite, T, q
  <2> HIDE DEF next
  <2> QED BY <1>1, <1>7, <2>1, <2>5, <2>7
<1>8. CASE st.b # <<>> /\ i # 0
  <2> DEFINE c == SubSeq(st.b, 1, len)
             rest == SubSeq(st.b, len + 1, Len(st.b))
             U == Refilled(T, i, q, c)
             next == [S |-> U, p |-> q + len, b |-> rest]
  <2>1. i \in 1 .. n /\ i = Around(q) /\ q \in Begin(i) .. Begin(i + 1) - 1
    BY <1>1, <1>5, <1>8
  <2>2. /\ len \in 1 .. Len(st.b) /\ q + len <= Begin(i + 1)
    <3> DEFINE d == Begin(i + 1)
    <3>1. d \in Int
      BY <2>1, BeginFacts, SizeFacts
    <3>2. Len(st.b) > 0
      BY <1>1, <1>8
    <3>3. q < d
      BY <1>1, <2>1, <3>1
    <3> HIDE DEF d, i
    <3> QED BY <1>1, <3>1, <3>2, <3>3 DEF d, Least
  <2> HIDE DEF len
  <2>3. /\ c \in Seq(Bytes) /\ Len(c) = len /\ \A k \in 1 .. len : c[k] = st.b[k]
        /\ rest \in Seq(Bytes) /\ Len(rest) = Len(st.b) - len
        /\ \A k \in 1 .. Len(rest) : rest[k] = st.b[len + k]
    BY SMTT(30), <1>1, <2>2
  <2>4. WriteRound(st) = next
    <3>1. U.cache = i /\ U.FileSize = Greatest(T.FileSize, q + len)
      BY <2>3 DEF Refilled
    <3>2. U = [frags |-> [T.frags EXCEPT ![i] = Filled(@, q - Begin(i), c)],
               cache |-> i, FileSize |-> Greatest(T.FileSize, q + len)]
      BY <2>3 DEF Refilled
    <3> QED BY <1>8, <3>2 DEF WriteRound, len
  <2> HIDE DEF c, rest
  <2>5. Overwritten(T, U, q, c)
    <3> HIDE DEF T, i, q
    <3> QED BY <1>1, <1>4, <2>1, <2>2, <2>3, RefilledFacts DEF n
  <2> HIDE DEF U, T, q
  <2>6. /\ U \in Files /\ Tiled(U) /\ U.FileSize = Greatest(T.FileSize, q + len)
        /\ \A x \in 0 .. U.FileSize - 1 :
               ByteAt(U, x) = IF x \in q .. q + len - 1 THEN c[x - q + 1] ELSE ByteAt(T, x)
    BY <2>3, <2>5 DEF Overwritten
  <2>7. U.FileSize = Greatest(S.FileSize, q + len) /\ U.FileSize \in Nat
        /\ U.FileSize <= Greatest(T.FileSize, q + len)
    BY <1>1, <2>2, <2>6 DEF Greatest
  <2>8. /\ q \in Nat /\ p \in Nat /\ q >= p /\ q + Len(st.b) = p + Len(b) /\ Len(b) \in Nat
         /\ Len(st.b) \in Nat /\ len \in Nat /\ len <= Len(st.b)
         /\ Len(rest) \in Nat /\ Len(rest) = Len(st.b) - len
    <3>1. Len(st.b) \in Nat /\ len \in Nat /\ len <= Len(st.b)
      BY <1>1, <2>2
    <3> QED BY <1>1, <2>3, <3>1
  <2>9. ASSUME NEW k \in 1 .. Len(rest)
        PROVE  rest[k] = b[((q + len) - p) + k]
    <3>1. len + k \in 1 .. Len(st.b) /\ (q - p) + (len + k) = ((q + len) - p) + k
      BY <2>8
    <3> QED BY <1>2, <2>3, <3>1
  <2>10. ASSUME NEW x \in 0 .. U.FileSize - 1
        PROVE  ByteAt(U, x) = IF x \in p .. (q + len) - 1 THEN b[x - p + 1] ELSE ByteAt(S, x)
    <3>1. x \in Nat /\ len \in Nat
      BY <2>2, <2>7
    <3>2. CASE x \in q .. q + len - 1
      <4>1. x - q + 1 \in 1 .. len /\ (q - p) + (x - q + 1) = x - p + 1 /\ x \in p .. (q + len) - 1
        BY <1>1, <3>1, <3>2
      <4>2. x - q + 1 \in 1 .. Len(st.b)
        BY <1>1, <2>2, <4>1
      <4> QED BY <1>2, <2>3, <2>6, <3>2, <4>1, <4>2
    <3>3. CASE x \notin q .. q + len - 1
      <4>1. x \in 0 .. T.FileSize - 1
        BY <1>1, <1>4, <2>6, <2>7, <3>1, <3>3 DEF Greatest
      <4>2. (x \in p .. q - 1) <=> (x \in p .. (q + len) - 1)
        BY <1>1, <3>1, <3>3
      <4>3. ByteAt(U, x) = ByteAt(T, x)
        BY <2>6, <3>3
      <4> QED BY <1>3, <4>1, <4>2, <4>3
    <3> QED BY <3>2, <3>3
  <2>11. next \in WriteStates(S, p, b)
    <3>1. next \in [S : Files, p : Nat, b : Seq(Bytes)]
      BY <1>1, <2>2, <2>3, <2>6
    <3>2. next.S = U /\ next.p = q + len /\ next.b = rest
      OBVIOUS
    <3>3. q + len >= p /\ (q + len) + Len(rest) = p + Len(b)
      <4> DEFINE lr == Len(rest)
                 ls == Len(st.b)
                 lb == Len(b)
      <4>1. /\ q \in Nat /\ p \in Nat /\ q >= p /\ q + ls = p + lb /\ lb \in Nat
            /\ ls \in Nat /\ len \in Nat /\ lr \in Nat /\ lr = ls - len
        BY <2>8
      <4> HIDE DEF lr, ls, lb
      <4>2. q + len >= p /\ (q + len) + lr = p + lb
        BY <4>1
      <4> QED BY <4>2 DEF lr, lb
    <3> HIDE DEF next
    <3> QED BY <2>6, <2>7, <2>9, <2>10, <3>1, <3>2, <3>3 DEF WriteStates
  <2>12. RoundsOfWrite(next) < RoundsOfWrite(st)
    <3>1. RoundsOfWrite(next) \in Nat /\ RoundsOfWrite(next) <= 2 * Len(rest) + 1
      <4>1. next.b = rest
        OBVIOUS
      <4> HIDE DEF next
      <4> QED BY <1>1, <2>11, <4>1, RoundsOfWriteFacts
    <3>2. RoundsOfWrite(st) = 2 * Len(st.b)
      BY <1>8 DEF RoundsOfWrite, T, q
    <3> HIDE DEF next
    <3> QED BY <1>1, <2>2, <2>3, <3>1, <3>2
  <2> HIDE DEF next
  <2> QED BY <1>8, <2>4, <2>11, <2>12
<1> QED BY <1>6, <1>7, <1>8

(* Write puts its bytes from a place on, over what is there and behind the *)
(* end, and leaves all other bytes.                                        *)
LEMMA WriteToFacts ==
    ASSUME NEW S \in Files, Tiled(S), NEW p \in 0 .. S.FileSize, NEW b \in Seq(Bytes)
    PROVE  Overwritten(S, WriteTo(S, p, b), p, b)
<1> DEFINE D == WriteStates(S, p, b)
           start == [S |-> S, p |-> p, b |-> b]
           step == [st \in D |-> WriteRound(st)]
           left == [st \in D |-> RoundsOfWrite(st)]
           last == 2 * Len(b) + 1
           F == CHOOSE after :
                    after = [k \in Nat |-> IF k = 0 THEN start ELSE WriteRound(after[k - 1])]
<1>1. p \in Nat /\ S.FileSize \in Nat /\ p <= S.FileSize /\ Len(b) \in Nat /\ last \in Nat
  BY DEF Files
<1>2. start \in D
  <2>1. Greatest(S.FileSize, p) = S.FileSize
    BY <1>1 DEF Greatest
  <2>2. /\ start \in [S : Files, p : Nat, b : Seq(Bytes)]
        /\ start.S = S /\ start.p = p /\ start.b = b
    BY <1>1
  <2>3. /\ p >= p /\ p + Len(b) = p + Len(b)
        /\ \A k \in 1 .. Len(b) : b[k] = b[(p - p) + k]
        /\ \A x \in 0 .. S.FileSize - 1 : x \notin p .. p - 1
    BY <1>1
  <2> HIDE DEF start
  <2> QED BY <2>1, <2>2, <2>3 DEF WriteStates
<1>3. \A st \in D : /\ WriteRound(st) \in D
                    /\ RoundsOfWrite(st) = 0 => WriteRound(st) = st
                    /\ RoundsOfWrite(st) # 0 => RoundsOfWrite(WriteRound(st)) < RoundsOfWrite(st)
                    /\ RoundsOfWrite(st) \in Nat
  <2> TAKE st \in D
  <2>1. RoundsOfWrite(st) \in Nat /\ (RoundsOfWrite(st) = 0 <=> st.b = <<>>)
    BY <1>1, RoundsOfWriteFacts
  <2> QED BY <2>1, WriteRoundFacts
<1>4. WriteTo(S, p, b) = F[last].S
  <2>1. ~ (p > S.FileSize)
    BY <1>1
  <2> QED BY <2>1 DEF WriteTo
<1> HIDE DEF D, start, F, last
<1>5. step \in [D -> D] /\ left \in [D -> Nat] /\ \A st \in D : step[st] = WriteRound(st)
  BY <1>3
<1>6. F = [k \in Nat |-> IF k = 0 THEN start ELSE WriteRound(F[k - 1])]
  <2>1. PICK f \in [Nat -> D] : IsLoop(f, start, step)
    <3> HIDE DEF step
    <3> QED BY <1>2, <1>5, Rounds
  <2>2. f = [k \in Nat |-> IF k = 0 THEN start ELSE WriteRound(f[k - 1])]
    <3>1. ASSUME NEW k \in Nat, k # 0
          PROVE  step[f[k - 1]] = WriteRound(f[k - 1])
      <4>1. k - 1 \in Nat
        BY <3>1
      <4> QED BY <1>5, <4>1
    <3> HIDE DEF step
    <3> QED BY <2>1, <3>1 DEF IsLoop
  <2> QED BY <2>2 DEF F
<1>7. \A k \in Nat : F[k] \in D
  <2> DEFINE I == {k \in Nat : F[k] \in D}
  <2>1. 0 \in I
    BY <1>2, <1>6
  <2>2. ASSUME NEW k \in I
        PROVE  k + 1 \in I
    <3>1. k + 1 \in Nat /\ k + 1 # 0 /\ (k + 1) - 1 = k
      OBVIOUS
    <3>2. F[k + 1] = WriteRound(F[k])
      BY <1>6, <3>1
    <3> QED BY <1>3, <3>1, <3>2
  <2>3. I = Nat
    <3> HIDE DEF I
    <3> QED BY <2>1, <2>2, AllNumbers DEF I
  <2> QED BY <2>3
<1>8. IsLoop(F, start, step)
  <2>1. ASSUME NEW k \in Nat, k # 0
        PROVE  step[F[k - 1]] = WriteRound(F[k - 1])
    <3>1. k - 1 \in Nat
      BY <2>1
    <3> QED BY <1>5, <1>7, <3>1
  <2> HIDE DEF step
  <2> QED BY <1>6, <2>1 DEF IsLoop
<1>9. F[last] \in D /\ RoundsOfWrite(F[last]) = 0
  <2>1. /\ \A d \in D : left[d] = 0 \/ left[step[d]] < left[d]
        /\ \A d \in D : left[d] = 0 => left[step[d]] = 0
    BY <1>3
  <2>2. left[start] \in Nat /\ last >= left[start]
    <3>1. RoundsOfWrite(start) <= 2 * Len(start.b) + 1 /\ RoundsOfWrite(start) \in Nat
      BY <1>1, <1>2, RoundsOfWriteFacts DEF D
    <3>2. start.b = b
      BY DEF start
    <3> QED BY <1>1, <1>2, <3>1, <3>2 DEF last
  <2>3. left[F[last]] = RoundsOfWrite(F[last])
    BY <1>1, <1>7
  <2> HIDE DEF step, left
  <2>4. F[last] \in D /\ (last >= left[start] => left[F[last]] = 0)
    <3>1. \A k \in Nat : F[k] \in D /\ (k >= left[start] => left[F[k]] = 0)
      <4>1. step \in [D -> D] /\ Counts(D, step, left)
        BY <1>5, <2>1 DEF Counts
      <4> QED BY <1>2, <1>8, <4>1, RoundsEnd
    <3> QED BY <1>1, <3>1
  <2> QED BY <2>2, <2>3, <2>4
<1>10. ASSUME NEW st \in D, st.b = <<>>
       PROVE  Overwritten(S, st.S, p, b)
  <2>1. /\ st.S \in Files /\ Tiled(st.S) /\ st.p \in Nat
        /\ st.p + Len(st.b) = p + Len(b)
        /\ st.S.FileSize = Greatest(S.FileSize, st.p)
        /\ \A x \in 0 .. st.S.FileSize - 1 :
               ByteAt(st.S, x) = IF x \in p .. st.p - 1 THEN b[x - p + 1] ELSE ByteAt(S, x)
    BY DEF D, WriteStates
  <2>2. st.p = p + Len(b)
    BY <1>1, <1>10, <2>1
  <2> QED BY <2>1, <2>2 DEF Overwritten
<1>11. F[last].b = <<>>
  BY <1>1, <1>9, RoundsOfWriteFacts DEF D
<1> QED BY <1>4, <1>9, <1>10, <1>11

-----------------------------------------------------------------------------
(* A file as the row of its bytes.                                         *)

Row(S) == [i \in 1 .. S.FileSize |-> ByteAt(S, i - 1)]

LEMMA SameRow ==
    ASSUME NEW S, NEW s \in Seq(S), NEW t \in Seq(S), Len(s) = Len(t),
           \A i \in 1 .. Len(s) : s[i] = t[i]
    PROVE  s = t
OBVIOUS

LEMMA RowFacts ==
    ASSUME NEW S \in Files, Tiled(S)
    PROVE  /\ Row(S) \in Seq(Bytes) /\ Len(Row(S)) = S.FileSize
           /\ \A i \in 1 .. S.FileSize : Row(S)[i] = ByteAt(S, i - 1)
<1>1. S.FileSize \in Nat
  BY DEF Files
<1>2. ASSUME NEW i \in 1 .. S.FileSize
      PROVE  ByteAt(S, i - 1) \in Bytes
  <2>1. i - 1 \in 0 .. S.FileSize - 1
    BY <1>1
  <2> QED BY <2>1, ByteFacts
<1>3. Row(S) \in [1 .. S.FileSize -> Bytes]
  BY <1>2 DEF Row
<1>4. \A i \in 1 .. S.FileSize : Row(S)[i] = ByteAt(S, i - 1)
  BY DEF Row
<1>5. Row(S) \in Seq(Bytes) /\ Len(Row(S)) = S.FileSize
  BY <1>1, <1>3
<1> QED BY <1>4, <1>5

LEMMA SameBytesSameRow ==
    ASSUME NEW S, NEW T, SameBytes(S, T)
    PROVE  Row(T) = Row(S)
BY DEF Row, SameBytes, ByteAt

LEMMA SubSeqFacts ==
    ASSUME NEW S, NEW s \in Seq(S), NEW m \in Nat \ {0}, NEW n \in 0 .. Len(s)
    PROVE  /\ SubSeq(s, m, n) \in Seq(S)
           /\ Len(SubSeq(s, m, n)) = IF m <= n THEN (n - m) + 1 ELSE 0
           /\ \A i \in 1 .. Len(SubSeq(s, m, n)) : SubSeq(s, m, n)[i] = s[(m + i) - 1]
<1>1. Len(s) \in Nat
  OBVIOUS
<1>2. CASE m <= n
  <2>1. SubSeq(s, m, n) = [i \in 1 .. (n - m) + 1 |-> s[(i + m) - 1]]
    BY <1>1, <1>2
  <2>2. \A i \in 1 .. (n - m) + 1 : (i + m) - 1 \in 1 .. Len(s) /\ (i + m) - 1 = (m + i) - 1
    BY <1>1, <1>2
  <2>3. SubSeq(s, m, n) \in [1 .. (n - m) + 1 -> S] /\ (n - m) + 1 \in Nat
    BY <1>2, <2>1, <2>2
  <2>4. Len(SubSeq(s, m, n)) = (n - m) + 1 /\ SubSeq(s, m, n) \in Seq(S)
    BY <2>3
  <2> QED BY <1>2, <2>1, <2>2, <2>4
<1>3. CASE ~ (m <= n)
  BY <1>1, <1>3
<1> QED BY <1>2, <1>3

(* What Read gives is a part of the row.                                   *)
LEMMA ReadGivesPart ==
    ASSUME NEW S \in Files, Tiled(S), NEW p \in 0 .. S.FileSize, NEW n \in Nat
    PROVE  LET r == ReadFrom(S, p, n)
           IN  r.out = SubSeq(Row(S), p + 1, Least(p + n, S.FileSize))
<1> DEFINE r == ReadFrom(S, p, n)
           N == S.FileSize
           e == Least(p + n, N)
           part == SubSeq(Row(S), p + 1, e)
<1>1. /\ r.out \in Seq(Bytes) /\ Len(r.out) = Least(n, N - p)
      /\ \A k \in 1 .. Len(r.out) : r.out[k] = ByteAt(S, p + k - 1)
  BY ReadFromFacts
<1> HIDE DEF r
<1>2. N \in Nat /\ p \in Nat /\ p <= N
  BY DEF Files
<1> HIDE DEF N
<1>3. e \in p .. N /\ Least(n, N - p) = e - p
  BY <1>2 DEF Least
<1>4. /\ Row(S) \in Seq(Bytes) /\ Len(Row(S)) = N
      /\ \A i \in 1 .. N : Row(S)[i] = ByteAt(S, i - 1)
  BY RowFacts DEF N
<1> HIDE DEF e
<1>5. /\ part \in Seq(Bytes) /\ Len(part) = IF p + 1 <= e THEN (e - (p + 1)) + 1 ELSE 0
      /\ \A i \in 1 .. Len(part) : part[i] = Row(S)[((p + 1) + i) - 1]
  <2>1. p + 1 \in Nat \ {0} /\ e \in 0 .. Len(Row(S))
    BY <1>2, <1>3, <1>4
  <2> QED BY <1>4, <2>1, SubSeqFacts
<1> HIDE DEF part
<1>6. Len(part) = e - p
  BY <1>2, <1>3, <1>5
<1>7. ASSUME NEW i \in 1 .. Len(part)
      PROVE  part[i] = r.out[i]
  <2>1. /\ ((p + 1) + i) - 1 \in 1 .. N /\ (((p + 1) + i) - 1) - 1 = (p + i) - 1
        /\ i \in 1 .. Len(r.out)
    BY <1>1, <1>2, <1>3, <1>6
  <2> QED BY <1>1, <1>4, <1>5, <2>1
<1>8. part = r.out
  BY <1>1, <1>3, <1>5, <1>6, <1>7, SameRow
<1> QED BY <1>8 DEF part, e, r, N

(* A file that holds what another does but for some bytes is that row with *)
(* these over it.                                                          *)
LEMMA OverwrittenRow ==
    ASSUME NEW S \in Files, Tiled(S), NEW U, NEW p \in 0 .. S.FileSize,
           NEW b \in Seq(Bytes), Overwritten(S, U, p, b)
    PROVE  Row(U) = Promised!Over(Row(S), p, b)
<1> DEFINE N == S.FileSize
           L == Len(b)
           s == Row(S)
           u == Row(U)
           head == SubSeq(s, 1, p)
           tail == SubSeq(s, p + L + 1, N)
           hb == head \o b
           all == hb \o tail
<1>1. N \in Nat /\ p \in Nat /\ p <= N /\ L \in Nat
  BY DEF Files
<1>2. s \in Seq(Bytes) /\ Len(s) = N /\ \A i \in 1 .. N : s[i] = ByteAt(S, i - 1)
  BY RowFacts
<1>3. /\ U.FileSize = Greatest(N, p + L)
      /\ \A x \in 0 .. U.FileSize - 1 :
             ByteAt(U, x) = IF x \in p .. p + L - 1 THEN b[x - p + 1] ELSE ByteAt(S, x)
  BY DEF Overwritten
<1>4. u \in Seq(Bytes) /\ Len(u) = U.FileSize /\ \A i \in 1 .. U.FileSize : u[i] = ByteAt(U, i - 1)
  BY RowFacts DEF Overwritten
<1>5. Promised!Over(Row(S), p, b) = all
  BY <1>2 DEF Promised!Over
<1> HIDE DEF s, u, N, L
<1>6. head \in Seq(Bytes) /\ Len(head) = p /\ \A i \in 1 .. p : head[i] = s[i]
  <2>1. 1 \in Nat \ {0} /\ p \in 0 .. Len(s)
    BY <1>1, <1>2
  <2>2. /\ head \in Seq(Bytes) /\ Len(head) = IF 1 <= p THEN (p - 1) + 1 ELSE 0
        /\ \A i \in 1 .. Len(head) : head[i] = s[(1 + i) - 1]
    BY <1>2, <2>1, SubSeqFacts
  <2> HIDE DEF head
  <2>3. Len(head) = p
    BY <1>1, <2>2
  <2> QED BY <1>1, <2>2, <2>3
<1>7. /\ tail \in Seq(Bytes)
      /\ Len(tail) = IF (p + L) + 1 <= N THEN (N - ((p + L) + 1)) + 1 ELSE 0
      /\ \A i \in 1 .. Len(tail) : tail[i] = s[(((p + L) + 1) + i) - 1]
  <2>1. (p + L) + 1 \in Nat \ {0} /\ N \in 0 .. Len(s)
    BY <1>1, <1>2
  <2> QED BY SMTT(30), <1>2, <2>1, SubSeqFacts
<1> HIDE DEF head, tail
<1>8. /\ hb \in Seq(Bytes) /\ Len(hb) = p + L
      /\ \A k \in 1 .. p + L : hb[k] = IF k <= p THEN head[k] ELSE b[k - p]
  BY <1>6, ConcatFacts DEF L
<1> HIDE DEF hb
<1>9. /\ all \in Seq(Bytes) /\ Len(all) = (p + L) + Len(tail)
      /\ \A k \in 1 .. (p + L) + Len(tail) :
            all[k] = IF k <= p + L THEN hb[k] ELSE tail[k - (p + L)]
  <2>1. /\ all \in Seq(Bytes) /\ Len(all) = Len(hb) + Len(tail)
        /\ \A k \in 1 .. Len(hb) + Len(tail) :
              all[k] = IF k <= Len(hb) THEN hb[k] ELSE tail[k - Len(hb)]
    BY <1>7, <1>8, ConcatFacts, Zenon
  <2> HIDE DEF all
  <2> QED BY <1>8, <2>1
<1> HIDE DEF all
<1>10. Len(all) = U.FileSize
  <2>1. Len(tail) \in Nat
    BY <1>7
  <2> QED BY <1>1, <1>3, <1>7, <1>9, <2>1 DEF Greatest
<1>11. ASSUME NEW k \in 1 .. U.FileSize
       PROVE  all[k] = u[k]
  <2>1. U.FileSize \in Nat /\ k - 1 \in 0 .. U.FileSize - 1 /\ k \in Nat
    BY <1>4
  <2>2. u[k] = IF k - 1 \in p .. p + L - 1 THEN b[(k - 1) - p + 1] ELSE ByteAt(S, k - 1)
    BY <1>3, <1>4, <2>1
  <2>3. CASE k <= p
    <3>1. k - 1 \notin p .. p + L - 1 /\ k <= p + L /\ k \in 1 .. p /\ k \in 1 .. N
      BY <1>1, <2>1, <2>3
    <3>2. k \in 1 .. (p + L) /\ k \in 1 .. (p + L) + Len(tail)
      BY <1>1, <1>9, <1>10, <2>3, <3>1
    <3> QED BY <1>2, <1>6, <1>8, <1>9, <2>2, <2>3, <3>1, <3>2
  <2>4. CASE p < k /\ k <= p + L
    <3>1. k - 1 \in p .. p + L - 1 /\ (k - 1) - p + 1 = k - p /\ ~ (k <= p) /\ k \in 1 .. (p + L)
      BY <1>1, <2>1, <2>4
    <3>2. k \in 1 .. (p + L) + Len(tail)
      BY <1>9, <1>10
    <3> QED BY <1>8, <1>9, <2>2, <2>4, <3>1, <3>2
  <2>5. CASE p + L < k
    <3>1. k \in 1 .. (p + L) + Len(tail) /\ ~ (k <= p + L) /\ k - 1 \notin p .. p + L - 1
      BY <1>1, <1>9, <1>10, <2>1, <2>5
    <3>2. Len(tail) \in Nat
      BY <1>7
    <3>3. /\ k - (p + L) \in 1 .. Len(tail) /\ (((p + L) + 1) + (k - (p + L))) - 1 = k
          /\ k \in 1 .. N
      BY <1>1, <1>7, <2>1, <2>5, <3>1, <3>2
    <3>4. all[k] = tail[k - (p + L)]
      BY <1>9, <3>1
    <3>5. tail[k - (p + L)] = s[k]
      BY <1>7, <3>3
    <3> QED BY <1>2, <2>2, <3>1, <3>3, <3>4, <3>5
  <2> QED BY <1>1, <2>1, <2>3, <2>4, <2>5
<1>12. all = u
  BY <1>4, <1>9, <1>10, <1>11, SameRow
<1> QED BY <1>5, <1>12 DEF u

(* Two writes, the second where the first ends, are one of all the bytes.  *)
LEMMA OverwrittenTwice ==
    ASSUME NEW S \in Files, NEW T, NEW U, NEW p \in 0 .. S.FileSize,
           NEW b \in Seq(Bytes), NEW c \in Seq(Bytes),
           Overwritten(S, T, p, b), Overwritten(T, U, p + Len(b), c)
    PROVE  Overwritten(S, U, p, b \o c)
<1> DEFINE bc == b \o c
           L == Len(b)
           M == Len(c)
           N == S.FileSize
<1>1. N \in Nat /\ p \in Nat /\ p <= N /\ L \in Nat /\ M \in Nat
  BY DEF Files
<1>2. /\ T.FileSize = Greatest(N, p + L)
      /\ \A x \in 0 .. T.FileSize - 1 :
             ByteAt(T, x) = IF x \in p .. p + L - 1 THEN b[x - p + 1] ELSE ByteAt(S, x)
  BY DEF Overwritten
<1>3. /\ U \in Files /\ Tiled(U) /\ U.FileSize = Greatest(T.FileSize, (p + L) + M)
      /\ \A x \in 0 .. U.FileSize - 1 :
             ByteAt(U, x) = IF x \in (p + L) .. (p + L) + M - 1
                            THEN c[x - (p + L) + 1] ELSE ByteAt(T, x)
  BY DEF Overwritten
<1>4. /\ Len(bc) = L + M
      /\ \A k \in 1 .. L + M : bc[k] = IF k <= L THEN b[k] ELSE c[k - L]
  BY ConcatFacts
<1> HIDE DEF bc, L, M, N
<1>5. U.FileSize = Greatest(N, p + Len(bc))
  <2>1. T.FileSize \in Nat
    BY <1>1, <1>2 DEF Greatest
  <2> QED BY <1>1, <1>2, <1>3, <1>4, <2>1 DEF Greatest
<1>6. ASSUME NEW x \in 0 .. U.FileSize - 1
      PROVE  ByteAt(U, x) = IF x \in p .. p + Len(bc) - 1 THEN bc[x - p + 1] ELSE ByteAt(S, x)
  <2>1. x \in Int /\ x >= 0
    OBVIOUS
  <2>2. CASE x \in (p + L) .. (p + L) + M - 1
    <3>1. /\ x \in p .. p + Len(bc) - 1 /\ x - p + 1 \in 1 .. L + M /\ ~ (x - p + 1 <= L)
          /\ (x - p + 1) - L = x - (p + L) + 1
      BY <1>1, <1>4, <2>1, <2>2
    <3> QED BY <1>3, <1>4, <2>2, <3>1
  <2>3. CASE x \in p .. p + L - 1
    <3>1. /\ x \notin (p + L) .. (p + L) + M - 1
          /\ x \in p .. p + Len(bc) - 1 /\ x - p + 1 \in 1 .. L + M /\ x - p + 1 <= L
      BY <1>1, <1>4, <2>1, <2>3
    <3>2. x \in 0 .. T.FileSize - 1
      BY <1>1, <1>2, <2>1, <2>3 DEF Greatest
    <3> QED BY <1>2, <1>3, <1>4, <2>3, <3>1, <3>2
  <2>4. CASE x \notin (p + L) .. (p + L) + M - 1 /\ x \notin p .. p + L - 1
    <3>1. x \notin p .. p + Len(bc) - 1
      BY <1>1, <1>4, <2>1, <2>4
    <3>2. x \in 0 .. T.FileSize - 1
      <4>1. x < Greatest(N, p + L)
        <5>1. U.FileSize = N \/ U.FileSize = (p + L) + M
          BY <1>1, <1>4, <1>5 DEF Greatest
        <5>2. x < U.FileSize /\ U.FileSize \in Nat
          BY <1>1, <1>4, <1>5, <2>1 DEF Greatest
        <5>3. x < N \/ x < p + L
          BY <1>1, <2>1, <2>4, <5>1, <5>2
        <5> QED BY <1>1, <2>1, <5>3 DEF Greatest
      <4>2. Greatest(N, p + L) \in Nat
        BY <1>1 DEF Greatest
      <4> QED BY <1>2, <2>1, <4>1, <4>2
    <3> QED BY <1>2, <1>3, <2>4, <3>1, <3>2
  <2> QED BY <2>2, <2>3, <2>4
<1> QED BY <1>3, <1>5, <1>6 DEF Overwritten, bc, N

-----------------------------------------------------------------------------
(* Handles.                                                                *)

\* What a call can work on.
CallStates ==
    {st \in [S : Files, pos : [Handles -> Nat], out : Seq(Bytes)] :
        Tiled(st.S) /\ \A h \in Handles : st.pos[h] <= st.S.FileSize}

IsPlace(st, at) == at = Own \/ at \in 0 .. st.S.FileSize

LEMMA WhereFacts ==
    ASSUME NEW st \in CallStates, NEW h \in Handles, NEW at, IsPlace(st, at)
    PROVE  Where(st.pos, h, at) \in 0 .. st.S.FileSize
<1>1. st.pos[h] \in 0 .. st.S.FileSize
  BY DEF CallStates, Files
<1> QED BY <1>1 DEF Where, IsPlace

\* The bytes that a read gives.
PartOf(st, h, at, n) ==
    SubSeq(Row(st.S), Where(st.pos, h, at) + 1, Least(Where(st.pos, h, at) + n, st.S.FileSize))

LEMMA HandleReadFacts ==
    ASSUME NEW st \in CallStates, NEW h \in Handles, NEW at, IsPlace(st, at), NEW n \in Nat
    PROVE  LET r == HandleRead(st, h, at, n)
               part == PartOf(st, h, at, n)
           IN  /\ r \in CallStates /\ SameBytes(st.S, r.S)
               /\ part \in Seq(Bytes)
               /\ Len(part) = Least(n, st.S.FileSize - Where(st.pos, h, at))
               /\ r.out = st.out \o part
               /\ r.pos = Moved(st.pos, h, at, Len(part))
<1> DEFINE r == HandleRead(st, h, at, n)
           p == Where(st.pos, h, at)
           f == ReadFrom(st.S, p, n)
           part == PartOf(st, h, at, n)
           N == st.S.FileSize
<1>1. /\ st.S \in Files /\ Tiled(st.S) /\ st.pos \in [Handles -> Nat] /\ st.out \in Seq(Bytes)
      /\ \A g \in Handles : st.pos[g] <= N
      /\ N \in Nat
  BY DEF CallStates, Files
<1>2. p \in 0 .. N
  BY WhereFacts
<1>3. /\ SameBytes(st.S, f.S) /\ f.out \in Seq(Bytes) /\ Len(f.out) = Least(n, N - p)
      /\ f.out = part
  <2> HIDE DEF p
  <2>1. /\ SameBytes(st.S, f.S) /\ f.out \in Seq(Bytes) /\ Len(f.out) = Least(n, N - p)
    BY <1>1, <1>2, ReadFromFacts
  <2>2. f.out = SubSeq(Row(st.S), p + 1, Least(p + n, N))
    BY <1>1, <1>2, ReadGivesPart
  <2> QED BY <2>1, <2>2 DEF PartOf, p
<1>4. r = [S |-> f.S, pos |-> Moved(st.pos, h, at, Len(f.out)), out |-> st.out \o f.out]
  BY DEF HandleRead
<1> HIDE DEF f, part, r
<1>5. Len(f.out) \in Nat /\ p + Len(f.out) <= N
  <2>1. p \in Nat /\ p <= N
    BY <1>1, <1>2
  <2> HIDE DEF p
  <2> QED BY <1>1, <1>3, <2>1 DEF Least
<1>6. /\ Moved(st.pos, h, at, Len(f.out)) \in [Handles -> Nat]
      /\ \A g \in Handles : Moved(st.pos, h, at, Len(f.out))[g] <= N
  <2> DEFINE P == [st.pos EXCEPT ![h] = @ + Len(f.out)]
  <2>1. CASE at = Own
    <3>1. p = st.pos[h] /\ Moved(st.pos, h, at, Len(f.out)) = P
      BY <2>1 DEF Where, Moved
    <3>2. \A g \in Handles : P[g] = IF g = h THEN st.pos[h] + Len(f.out) ELSE st.pos[g]
      BY <1>1
    <3>3. P \in [Handles -> Nat]
      BY <1>1, <1>5
    <3> HIDE DEF P
    <3> QED BY <1>1, <1>5, <3>1, <3>2, <3>3
  <2>2. CASE at # Own
    BY <1>1, <2>2 DEF Moved
  <2> QED BY <2>1, <2>2
<1>7. st.out \o f.out \in Seq(Bytes)
  BY <1>1, <1>3, ConcatFacts
<1> HIDE DEF p
<1>8. /\ r \in [S : Files, pos : [Handles -> Nat], out : Seq(Bytes)]
      /\ r.S = f.S /\ r.pos = Moved(st.pos, h, at, Len(f.out)) /\ r.out = st.out \o f.out
  BY <1>3, <1>4, <1>6, <1>7 DEF SameBytes
<1>9. r \in CallStates
  <2>1. Tiled(f.S) /\ f.S.FileSize = N
    BY <1>3 DEF SameBytes
  <2> QED BY <1>6, <1>8, <2>1 DEF CallStates
<1> QED BY <1>3, <1>8, <1>9 DEF r, part, p

LEMMA HandleWriteFacts ==
    ASSUME NEW st \in CallStates, NEW h \in Handles, NEW at, IsPlace(st, at), NEW b \in Seq(Bytes)
    PROVE  LET r == HandleWrite(st, h, at, b)
               p == Where(st.pos, h, at)
           IN  /\ r \in CallStates /\ Overwritten(st.S, r.S, p, b)
               /\ r.S.FileSize = Greatest(st.S.FileSize, p + Len(b))
               /\ r.pos = Moved(st.pos, h, at, Len(b)) /\ r.out = st.out
<1> DEFINE r == HandleWrite(st, h, at, b)
           p == Where(st.pos, h, at)
           T == WriteTo(st.S, p, b)
           P == Moved(st.pos, h, at, Len(b))
           N == st.S.FileSize
<1>1. /\ st.S \in Files /\ Tiled(st.S) /\ st.pos \in [Handles -> Nat] /\ st.out \in Seq(Bytes)
      /\ \A g \in Handles : st.pos[g] <= N
      /\ N \in Nat /\ Len(b) \in Nat
  BY DEF CallStates, Files
<1>2. p \in 0 .. N /\ p \in Nat /\ ~ (p > N)
  BY <1>1, WhereFacts
<1>3. Overwritten(st.S, T, p, b)
  <2> HIDE DEF p
  <2> QED BY <1>1, <1>2, WriteToFacts
<1>4. r = [S |-> T, pos |-> P, out |-> st.out]
  BY <1>2 DEF HandleWrite
<1> HIDE DEF T, r
<1>5. T \in Files /\ Tiled(T) /\ T.FileSize = Greatest(N, p + Len(b))
  BY <1>3 DEF Overwritten
<1>6. P \in [Handles -> Nat] /\ \A g \in Handles : P[g] <= T.FileSize
  <2> DEFINE Q == [st.pos EXCEPT ![h] = @ + Len(b)]
  <2>1. Greatest(N, p + Len(b)) >= N /\ Greatest(N, p + Len(b)) >= p + Len(b)
        /\ Greatest(N, p + Len(b)) \in Nat
    <3> HIDE DEF p
    <3> QED BY <1>1, <1>2 DEF Greatest
  <2>2. CASE at = Own
    <3>1. p = st.pos[h] /\ P = Q
      BY <2>2 DEF Where, Moved
    <3>2. \A g \in Handles : Q[g] = IF g = h THEN st.pos[h] + Len(b) ELSE st.pos[g]
      BY <1>1
    <3>3. Q \in [Handles -> Nat]
      BY <1>1
    <3> HIDE DEF Q, P, p
    <3>4. ASSUME NEW g \in Handles
          PROVE  Q[g] <= T.FileSize
      <4>1. CASE g = h
        BY <1>5, <2>1, <3>1, <3>2, <4>1
      <4>2. CASE g # h
        <5>1. Q[g] = st.pos[g] /\ st.pos[g] <= N /\ st.pos[g] \in Nat
          BY <1>1, <3>2, <4>2
        <5> QED BY <1>1, <1>5, <2>1, <5>1
      <4> QED BY <4>1, <4>2
    <3> QED BY <3>1, <3>3, <3>4
  <2>3. CASE at # Own
    <3>1. P = st.pos
      BY <2>3 DEF Moved
    <3> HIDE DEF P, p
    <3>2. ASSUME NEW g \in Handles
          PROVE  st.pos[g] <= T.FileSize
      <4>1. st.pos[g] <= N /\ st.pos[g] \in Nat
        BY <1>1
      <4> QED BY <1>1, <1>5, <2>1, <4>1
    <3> QED BY <1>1, <3>1, <3>2
  <2> QED BY <2>2, <2>3
<1> HIDE DEF p, P
<1>7. /\ r \in [S : Files, pos : [Handles -> Nat], out : Seq(Bytes)]
      /\ r.S = T /\ r.pos = P /\ r.out = st.out
  BY <1>1, <1>4, <1>5, <1>6
<1>8. r \in CallStates
  BY <1>5, <1>6, <1>7 DEF CallStates
<1> QED BY <1>3, <1>5, <1>7, <1>8 DEF r, p, P

-----------------------------------------------------------------------------
(* The invariant.                                                          *)

\* Every handle stands inside the file or at its end.
FileInv ==
    /\ File \in Files /\ Tiled(File) /\ FileSize <= MaxSize
    /\ pos \in [Handles -> Nat] /\ \A h \in Handles : pos[h] <= FileSize

\* What a sendfile has still to send is there, and has room.
SendInv ==
    sending # None =>
        /\ sending \in [in : Handles, out : Handles, left : 1 .. MaxIO]
        /\ sending.in # sending.out
        /\ pos[sending.in] + sending.left <= FileSize
        /\ pos[sending.out] + sending.left <= MaxSize

TInv == FileInv /\ SendInv

LEMMA FileFields ==
    ASSUME File \in Files
    PROVE  /\ frags \in Seq(Fragment) /\ cache \in Nat /\ FileSize \in Nat
           /\ File.frags = frags /\ File.cache = cache /\ File.FileSize = FileSize
BY DEF File, Files

LEMMA StartedFacts ==
    ASSUME FileInv
    PROVE  /\ Started \in CallStates /\ Started.S = File /\ Started.pos = pos
           /\ Started.out = <<>> /\ Started.S.FileSize = FileSize
           /\ Content = Row(File) /\ Content \in Seq(Bytes) /\ Len(Content) = FileSize
<1>1. /\ File \in Files /\ Tiled(File) /\ pos \in [Handles -> Nat]
      /\ \A h \in Handles : pos[h] <= FileSize
      /\ File.FileSize = FileSize /\ File.frags = frags
  BY FileFields DEF FileInv
<1>2. <<>> \in Seq(Bytes)
  OBVIOUS
<1>3. Started \in CallStates
  BY <1>1, <1>2 DEF Started, CallStates
<1>4. Content = Row(File)
  BY <1>1 DEF Content, Row, ByteAt, Around
<1>5. Row(File) \in Seq(Bytes) /\ Len(Row(File)) = FileSize
  BY <1>1, RowFacts
<1> QED BY <1>1, <1>3, <1>4, <1>5 DEF Started

LEMMA DoneFacts ==
    ASSUME NEW st \in CallStates, Done(st), st.S.FileSize <= MaxSize
    PROVE  /\ FileInv' /\ Content' = Row(st.S) /\ pos' = st.pos /\ FileSize' = st.S.FileSize
<1>1. st.S \in Files /\ Tiled(st.S) /\ st.pos \in [Handles -> Nat]
      /\ \A h \in Handles : st.pos[h] <= st.S.FileSize
  BY DEF CallStates
<1>2. /\ frags' = st.S.frags /\ cache' = st.S.cache /\ FileSize' = st.S.FileSize
      /\ pos' = st.pos
  BY DEF Done, Become
<1>3. File' = st.S
  <2>1. st.S = [frags |-> st.S.frags, cache |-> st.S.cache, FileSize |-> st.S.FileSize]
    BY <1>1 DEF Files
  <2> QED BY <1>2, <2>1 DEF File
<1>4. FileInv'
  BY <1>1, <1>2, <1>3 DEF FileInv
<1>5. Content' = Row(st.S)
  BY <1>2 DEF Content, Row, ByteAt, Around
<1> QED BY <1>2, <1>4, <1>5

\* What a step has to show.
Kept == TInv' /\ (Promised!Next \/ UNCHANGED Promised!vars)

LEMMA SendRests ==
    ASSUME sending = None, sending' = sending
    PROVE  SendInv'
BY DEF SendInv

(* A step that gives the part of the row that a read asks for is a read.   *)
LEMMA ReadIsRead ==
    ASSUME FileInv, NEW h \in Handles, NEW at, IsPlace(Started, at), NEW n \in 1 .. MaxIO,
           got' = PartOf(Started, h, at, n), pos' = Moved(pos, h, at, Len(got')),
           Content' = Content
    PROVE  Promised!Next
<1>1. Started.S = File /\ Started.pos = pos /\ Started.S.FileSize = FileSize
      /\ Content = Row(File) /\ Len(Content) = FileSize
  BY StartedFacts
<1>2. got' = SubSeq(Content, Where(pos, h, at) + 1, Least(Where(pos, h, at) + n, Len(Content)))
  BY <1>1 DEF PartOf
<1>3. Promised!Read(h, at, n)
  BY <1>2 DEF Promised!Read, Promised!Where, Promised!Least, Promised!Moved, Where, Least, Moved
<1>4. at \in {Own} \union 0 .. Len(Content)
  BY <1>1 DEF IsPlace
<1> QED BY <1>3, <1>4 DEF Promised!Next

(* A step that puts bytes over the row, and no others, is a write.         *)
LEMMA WriteIsWrite ==
    ASSUME FileInv, NEW h \in Handles, NEW at, IsPlace(Started, at), NEW n \in 1 .. MaxIO,
           NEW b \in [1 .. n -> Bytes], Len(b) = n,
           Content' = Promised!Over(Content, Where(pos, h, at), b),
           pos' = Moved(pos, h, at, n), got' = got
    PROVE  Promised!Next
<1>1. Started.S.FileSize = FileSize /\ Len(Content) = FileSize
  BY StartedFacts
<1>2. Promised!Write(h, at, b)
  BY DEF Promised!Write, Promised!Where, Promised!Moved, Where, Moved
<1>3. at \in {Own} \union 0 .. Len(Content)
  BY <1>1 DEF IsPlace
<1> QED BY <1>2, <1>3 DEF Promised!Next

(* A handle that is put inside the file.                                   *)
LEMMA SeekIsSeek ==
    ASSUME FileInv, NEW h \in Handles, NEW p \in 0 .. FileSize,
           pos' = [pos EXCEPT ![h] = p], UNCHANGED <<frags, cache, FileSize, got>>
    PROVE  FileInv' /\ Promised!Next
<1>1. Content' = Content
  BY DEF Content
<1>2. Len(Content) = FileSize
  BY StartedFacts
<1>3. Promised!Seek(h)
  BY <1>1, <1>2 DEF Promised!Seek
<1>4. FileInv'
  <2>1. File' = File
    BY DEF File
  <2>2. FileSize \in Nat
    BY FileFields DEF FileInv
  <2> QED BY <2>1, <2>2 DEF FileInv
<1> QED BY <1>3, <1>4 DEF Promised!Next

LEMMA EmptyConcat ==
    ASSUME NEW S, NEW s \in Seq(S)
    PROVE  <<>> \o s = s /\ s \o <<>> = s
<1> DEFINE l == <<>> \o s
           r == s \o <<>>
<1>1. <<>> \in Seq(S) /\ Len(<<>>) = 0 /\ Len(s) \in Nat
  OBVIOUS
<1>2. /\ l \in Seq(S) /\ Len(l) = 0 + Len(s)
      /\ \A k \in 1 .. 0 + Len(s) : l[k] = IF k <= 0 THEN <<>>[k] ELSE s[k - 0]
  BY <1>1, ConcatFacts
<1>3. /\ r \in Seq(S) /\ Len(r) = Len(s) + 0
      /\ \A k \in 1 .. Len(s) + 0 : r[k] = IF k <= Len(s) THEN s[k] ELSE <<>>[k - Len(s)]
  BY <1>1, ConcatFacts
<1> HIDE DEF l, r
<1>4. l = s
  <2>1. Len(l) = Len(s) /\ \A k \in 1 .. Len(l) : l[k] = s[k]
    BY <1>1, <1>2
  <2> QED BY <1>2, <2>1, SameRow
<1>5. r = s
  <2>1. Len(r) = Len(s) /\ \A k \in 1 .. Len(r) : r[k] = s[k]
    BY <1>1, <1>3
  <2> QED BY <1>3, <2>1, SameRow
<1> QED BY <1>4, <1>5 DEF l, r

-----------------------------------------------------------------------------
(* The calls.                                                              *)

LEMMA SizeBound ==
    ASSUME FileInv
    PROVE  FileSize \in Nat /\ FileSize <= MaxSize /\ MaxSize \in Nat /\ MaxIO \in Nat
BY FileFields, TempFileAssumption DEF FileInv

(* read and pread. *)
LEMMA ReadStep ==
    ASSUME TInv, NEW h \in Handles, NEW n \in 1 .. MaxIO,
           NEW at \in {Own} \union 0 .. FileSize, Read(h, at, n)
    PROVE  Kept
<1> DEFINE part == PartOf(Started, h, at, n)
<1>1. PICK st \in {HandleRead(Started, h, at, n)} : Done(st) /\ got' = st.out
  BY DEF Read
<1>2. sending = None /\ sending' = sending
  BY DEF Read
<1>3. /\ Started \in CallStates /\ Started.S = File /\ Started.pos = pos
      /\ Started.out = <<>> /\ Started.S.FileSize = FileSize
      /\ Content = Row(File)
  BY StartedFacts DEF TInv
<1>4. IsPlace(Started, at) /\ n \in Nat
  BY <1>3 DEF IsPlace
<1>5. /\ st \in CallStates /\ SameBytes(File, st.S) /\ part \in Seq(Bytes)
      /\ st.out = <<>> \o part /\ st.pos = Moved(pos, h, at, Len(part))
  BY <1>1, <1>3, <1>4, HandleReadFacts
<1> HIDE DEF part
<1>6. st.out = part
  BY <1>5, EmptyConcat
<1>7. st.S.FileSize <= MaxSize
  BY <1>3, <1>5, SizeBound DEF SameBytes, TInv
<1>8. FileInv' /\ Content' = Row(st.S) /\ pos' = st.pos
  BY <1>1, <1>5, <1>7, DoneFacts
<1>9. Content' = Content
  BY <1>3, <1>5, <1>8, SameBytesSameRow
<1>10. Promised!Next
  <2>1. got' = PartOf(Started, h, at, n) /\ pos' = Moved(pos, h, at, Len(got'))
    BY <1>1, <1>5, <1>6, <1>8 DEF part
  <2> QED BY <1>4, <1>9, <2>1, ReadIsRead DEF TInv
<1> QED BY <1>2, <1>8, <1>10, SendRests DEF Kept, TInv

(* n times the byte b. *)
LEMMA SameByteSeq ==
    ASSUME NEW n \in Nat, NEW b \in Bytes
    PROVE  [i \in 1 .. n |-> b] \in Seq(Bytes) /\ Len([i \in 1 .. n |-> b]) = n
OBVIOUS

(* write and pwrite. *)
LEMMA WriteStep ==
    ASSUME TInv, NEW h \in Handles, NEW n \in 1 .. MaxIO, NEW b \in Bytes,
           NEW at \in {Own} \union 0 .. FileSize, Write(h, at, n, b)
    PROVE  Kept
<1> DEFINE c == [i \in 1 .. n |-> b]
           p == Where(pos, h, at)
<1>1. PICK st \in {HandleWrite(Started, h, at, c)} : Done(st)
  BY DEF Write
<1>2. sending = None /\ sending' = sending /\ got' = got /\ p + n <= MaxSize
  BY DEF Write
<1>3. /\ Started \in CallStates /\ Started.S = File /\ Started.pos = pos
      /\ Started.S.FileSize = FileSize
      /\ Content = Row(File)
  BY StartedFacts DEF TInv
<1>4. IsPlace(Started, at) /\ n \in Nat
  BY <1>3 DEF IsPlace
<1>5. c \in Seq(Bytes) /\ Len(c) = n /\ c \in [1 .. n -> Bytes]
  BY <1>4, SameByteSeq
<1> HIDE DEF c
<1>6. /\ st \in CallStates /\ Overwritten(File, st.S, p, c)
      /\ st.S.FileSize = Greatest(FileSize, p + Len(c))
      /\ st.pos = Moved(pos, h, at, Len(c))
  BY <1>1, <1>3, <1>4, <1>5, HandleWriteFacts
<1>7. p \in 0 .. FileSize
  BY <1>3, <1>4, WhereFacts
<1> HIDE DEF p
<1>8. st.S.FileSize <= MaxSize
  BY <1>2, <1>5, <1>6, SizeBound DEF TInv, Greatest
<1>9. FileInv' /\ Content' = Row(st.S) /\ pos' = st.pos
  BY <1>1, <1>6, <1>8, DoneFacts
<1>10. Content' = Promised!Over(Content, p, c)
  <2>1. File \in Files /\ Tiled(File) /\ File.FileSize = FileSize
    BY FileFields DEF TInv, FileInv
  <2> QED BY <1>3, <1>5, <1>6, <1>7, <1>9, <2>1, OverwrittenRow
<1>11. Promised!Next
  BY <1>2, <1>4, <1>5, <1>6, <1>9, <1>10, WriteIsWrite DEF TInv, p
<1> QED BY <1>2, <1>9, <1>11, SendRests DEF Kept, TInv

(* lseek, of a program that stays inside the file, and dup.                *)
LEMMA LseekStep ==
    ASSUME TInv, Careful, NEW h \in Handles, NEW base, NEW off, Lseek(h, base, off)
    PROVE  Kept
<1>1. /\ sending = None /\ sending' = sending /\ UNCHANGED <<frags, cache, FileSize, got>>
      /\ Seek(h, base, off) \in 0 .. MaxSize /\ Seek(h, base, off) <= FileSize
      /\ pos' = [pos EXCEPT ![h] = Seek(h, base, off)]
  BY DEF Lseek
<1>2. Seek(h, base, off) \in 0 .. FileSize
  BY <1>1, SizeBound DEF TInv
<1>3. FileInv' /\ Promised!Next
  BY <1>1, <1>2, SeekIsSeek DEF TInv
<1> QED BY <1>1, <1>3, SendRests DEF Kept, TInv

LEMMA DumpStep ==
    ASSUME TInv, NEW h \in Handles, NEW g \in Handles, Dump(h, g)
    PROVE  Kept
<1>1. /\ sending = None /\ sending' = sending /\ UNCHANGED <<frags, cache, FileSize, got>>
      /\ pos' = [pos EXCEPT ![g] = pos[h]]
  BY DEF Dump
<1>2. pos[h] \in 0 .. FileSize
  BY SizeBound DEF TInv, FileInv
<1>3. FileInv' /\ Promised!Next
  BY <1>1, <1>2, SeekIsSeek DEF TInv
<1> QED BY <1>1, <1>3, SendRests DEF Kept, TInv

(* sendfile, up to its first round.                                        *)
LEMMA SendfileStep ==
    ASSUME TInv, Careful, NEW in \in Handles, NEW out \in Handles, NEW n \in 1 .. MaxIO,
           NEW at \in {Own} \union 0 .. FileSize, Sendfile(in, out, at, n)
    PROVE  Kept
<1> DEFINE p == Where(pos, in, at)
           left == Least(n, FileSize - p)
<1>1. /\ sending = None /\ in # out /\ p # FileSize
      /\ pos[out] + left <= MaxSize
      /\ pos' = [pos EXCEPT ![in] = p]
      /\ sending' = [in |-> in, out |-> out, left |-> left]
      /\ UNCHANGED <<frags, cache, FileSize, got>>
  BY DEF Sendfile
<1>2. p \in 0 .. FileSize
  <2>1. Started \in CallStates /\ Started.pos = pos /\ Started.S.FileSize = FileSize
    BY StartedFacts DEF TInv
  <2>2. IsPlace(Started, at)
    BY <2>1 DEF IsPlace
  <2> QED BY <2>1, <2>2, WhereFacts
<1> HIDE DEF p
<1>3. FileInv' /\ Promised!Next
  BY <1>1, <1>2, SeekIsSeek DEF TInv
<1>4. left \in 1 .. MaxIO /\ p + left <= FileSize
  BY <1>1, <1>2, SizeBound DEF TInv, Least
<1> HIDE DEF left
<1>5. SendInv'
  <2>1. pos \in [Handles -> Nat]
    BY DEF TInv, FileInv
  <2>2. pos'[in] = p /\ pos'[out] = pos[out] /\ FileSize' = FileSize
    BY <1>1, <2>1
  <2>3. /\ sending' \in [in : Handles, out : Handles, left : 1 .. MaxIO]
        /\ sending'.in = in /\ sending'.out = out /\ sending'.left = left
    BY <1>1, <1>4
  <2> QED BY <1>1, <1>4, <2>2, <2>3 DEF SendInv
<1> QED BY <1>3, <1>5 DEF Kept, TInv

(* Two neighbouring parts of a row are one.                                *)
LEMMA SubSeqSplit ==
    ASSUME NEW S, NEW s \in Seq(S), NEW e \in 0 .. Len(s), NEW q \in 0 .. e, NEW p \in 0 .. q
    PROVE  SubSeq(s, p + 1, q) \o SubSeq(s, q + 1, e) = SubSeq(s, p + 1, e)
<1> DEFINE a == SubSeq(s, p + 1, q)
           b == SubSeq(s, q + 1, e)
           c == SubSeq(s, p + 1, e)
           ab == a \o b
<1>1. /\ Len(s) \in Nat /\ e \in Nat /\ q \in Nat /\ p \in Nat /\ p <= q /\ q <= e /\ e <= Len(s)
      /\ p + 1 \in Nat \ {0} /\ q + 1 \in Nat \ {0}
  OBVIOUS
<1>2. /\ a \in Seq(S) /\ Len(a) = IF p + 1 <= q THEN (q - (p + 1)) + 1 ELSE 0
      /\ \A i \in 1 .. Len(a) : a[i] = s[((p + 1) + i) - 1]
  <2>1. q \in 0 .. Len(s)
    BY <1>1
  <2> QED BY <1>1, <2>1, SubSeqFacts
<1>3. /\ b \in Seq(S) /\ Len(b) = IF q + 1 <= e THEN (e - (q + 1)) + 1 ELSE 0
      /\ \A i \in 1 .. Len(b) : b[i] = s[((q + 1) + i) - 1]
  BY <1>1, SubSeqFacts
<1>4. /\ c \in Seq(S) /\ Len(c) = IF p + 1 <= e THEN (e - (p + 1)) + 1 ELSE 0
      /\ \A i \in 1 .. Len(c) : c[i] = s[((p + 1) + i) - 1]
  BY <1>1, SubSeqFacts
<1> HIDE DEF a, b, c
<1>5. /\ ab \in Seq(S) /\ Len(ab) = Len(a) + Len(b)
      /\ \A k \in 1 .. Len(a) + Len(b) : ab[k] = IF k <= Len(a) THEN a[k] ELSE b[k - Len(a)]
  BY <1>2, <1>3, ConcatFacts
<1> HIDE DEF ab
<1>6. Len(a) = q - p /\ Len(b) = e - q /\ Len(c) = e - p
  BY <1>1, <1>2, <1>3, <1>4
<1>7. Len(ab) = Len(c)
  BY <1>1, <1>5, <1>6
<1>8. ASSUME NEW k \in 1 .. Len(ab)
      PROVE  ab[k] = c[k]
  <2>1. k \in Nat /\ k \in 1 .. Len(a) + Len(b) /\ k \in 1 .. Len(c)
    BY <1>1, <1>5, <1>6, <1>7
  <2>2. CASE k <= Len(a)
    <3>1. k \in 1 .. Len(a)
      BY <1>1, <1>6, <2>1, <2>2
    <3> QED BY <1>2, <1>4, <1>5, <2>1, <2>2, <3>1
  <2>3. CASE ~ (k <= Len(a))
    <3>1. k - Len(a) \in 1 .. Len(b) /\ ((q + 1) + (k - Len(a))) - 1 = ((p + 1) + k) - 1
      BY <1>1, <1>6, <2>1, <2>3
    <3> QED BY <1>3, <1>4, <1>5, <2>1, <2>3, <3>1
  <2> QED BY <2>2, <2>3
<1>9. ab = c
  BY <1>4, <1>5, <1>7, <1>8, SameRow
<1> QED BY <1>9 DEF ab, a, b, c

(* The second part of a vector goes on where the first ended.              *)
LEMMA BehindFacts ==
    ASSUME NEW st \in CallStates, NEW h \in Handles, NEW at, IsPlace(st, at),
           NEW n \in Nat, NEW k \in Nat
    PROVE  LET P == Moved(st.pos, h, at, n)
           IN  /\ Where(P, h, Behind(at, n)) = Where(st.pos, h, at) + n
               /\ Moved(P, h, Behind(at, n), k) = Moved(st.pos, h, at, n + k)
<1> DEFINE Q == [st.pos EXCEPT ![h] = @ + n]
           R == [Q EXCEPT ![h] = @ + k]
<1>1. st.pos \in [Handles -> Nat] /\ st.S.FileSize \in Nat
  BY DEF CallStates, Files
<1>2. Own \notin Nat
  BY TempFileAssumption
<1>3. CASE at = Own
  <2>1. Q \in [Handles -> Nat] /\ Q[h] = st.pos[h] + n
    BY <1>1
  <2>2. /\ Behind(at, n) = Own /\ Moved(st.pos, h, at, n) = Q
        /\ Moved(Q, h, Own, k) = R
        /\ Moved(st.pos, h, at, n + k) = [st.pos EXCEPT ![h] = @ + (n + k)]
    BY <1>3 DEF Behind, Moved
  <2>3. R = [st.pos EXCEPT ![h] = @ + (n + k)]
    <3>1. st.pos[h] \in Nat /\ (st.pos[h] + n) + k = st.pos[h] + (n + k)
      BY <1>1
    <3> QED BY <1>1, <3>1
  <2> QED BY <1>3, <2>1, <2>2, <2>3 DEF Where
<1>4. CASE at # Own
  <2>1. at \in Nat /\ at + n \in Nat
    BY <1>1, <1>4 DEF IsPlace
  <2>2. Behind(at, n) = at + n /\ at + n # Own
    BY <1>2, <1>4, <2>1 DEF Behind
  <2> QED BY <1>4, <2>2 DEF Where, Moved
<1> QED BY <1>3, <1>4

(* readv and preadv.                                                       *)
LEMMA ReadVectorStep ==
    ASSUME TInv, NEW h \in Handles, NEW n \in 1 .. MaxIO, NEW m \in 1 .. MaxIO - n,
           NEW at \in {Own} \union 0 .. FileSize, ReadVector(h, at, n, m)
    PROVE  Kept
<1> DEFINE p == Where(pos, h, at)
           row == Row(File)
           part == PartOf(Started, h, at, n)
           whole == PartOf(Started, h, at, n + m)
<1>1. PICK first \in {HandleRead(Started, h, at, n)} :
          \E st \in {IF Len(first.out) = n THEN HandleRead(first, h, Behind(at, n), m) ELSE first} :
              Done(st) /\ got' = st.out
  BY DEF ReadVector
<1>2. PICK st \in {IF Len(first.out) = n THEN HandleRead(first, h, Behind(at, n), m) ELSE first} :
              Done(st) /\ got' = st.out
  BY <1>1
<1>3. sending = None /\ sending' = sending
  BY DEF ReadVector
<1>4. /\ Started \in CallStates /\ Started.S = File /\ Started.pos = pos
      /\ Started.out = <<>> /\ Started.S.FileSize = FileSize
      /\ Content = row
  BY StartedFacts DEF TInv
<1>5. IsPlace(Started, at) /\ n \in Nat /\ m \in Nat /\ n + m \in 1 .. MaxIO
      /\ FileSize \in Nat
  <2>1. FileSize \in Nat /\ MaxIO \in Nat
    BY SizeBound DEF TInv
  <2> QED BY <1>4, <2>1 DEF IsPlace
<1>6. /\ first \in CallStates /\ SameBytes(File, first.S) /\ part \in Seq(Bytes)
      /\ Len(part) = Least(n, FileSize - p)
      /\ first.out = <<>> \o part /\ first.pos = Moved(pos, h, at, Len(part))
  <2> DEFINE r == HandleRead(Started, h, at, n)
  <2>1. IsPlace(Started, at) /\ n \in Nat
    BY <1>5
  <2>2. /\ r \in CallStates /\ SameBytes(File, r.S) /\ part \in Seq(Bytes)
        /\ Len(part) = Least(n, FileSize - p)
        /\ r.out = <<>> \o part /\ r.pos = Moved(pos, h, at, Len(part))
    BY <1>4, <2>1, HandleReadFacts
  <2>3. first = r
    BY <1>1
  <2> HIDE DEF r, part, p
  <2> QED BY <2>2, <2>3
<1>7. p \in 0 .. FileSize
  BY <1>4, <1>5, WhereFacts
<1>8. part = SubSeq(row, p + 1, Least(p + n, FileSize))
  BY <1>4 DEF PartOf
<1>9. whole = SubSeq(row, p + 1, Least(p + (n + m), FileSize))
  BY <1>4 DEF PartOf
<1>10. row \in Seq(Bytes) /\ Len(row) = FileSize
  BY StartedFacts DEF TInv
<1> HIDE DEF p, part, row, whole
<1>11. first.out = part
  BY <1>6, EmptyConcat
<1>12. /\ st \in CallStates /\ SameBytes(File, st.S) /\ st.out = whole
       /\ st.pos = Moved(pos, h, at, Len(whole))
  <2>1. CASE Len(part) = n
    <3> DEFINE place == Behind(at, n)
               more == PartOf(first, h, place, m)
    <3>1. st = HandleRead(first, h, place, m)
      BY <1>2, <1>11, <2>1
    <3>2. p + n <= FileSize
      BY <1>5, <1>6, <1>7, <2>1 DEF Least
    <3>3. Where(first.pos, h, place) = p + n
      <4>1. IsPlace(Started, at) /\ n \in Nat /\ 0 \in Nat
        BY <1>5
      <4>2. Where(Moved(Started.pos, h, at, n), h, Behind(at, n))
              = Where(Started.pos, h, at) + n
        BY <1>4, <4>1, BehindFacts
      <4>3. first.pos = Moved(Started.pos, h, at, n)
        BY <1>4, <1>6, <2>1
      <4> QED BY <1>4, <4>2, <4>3 DEF p
    <3>4. first.S.FileSize = FileSize /\ Row(first.S) = row
      <4>1. File.FileSize = FileSize
        BY <1>4
      <4> QED BY <1>6, <4>1, SameBytesSameRow DEF SameBytes, row
    <3>5. IsPlace(first, place)
      <4>1. CASE at = Own
        BY <4>1 DEF IsPlace, Behind
      <4>2. CASE at # Own
        <5>1. at = p /\ place = at + n
          BY <4>2 DEF p, Where, Behind
        <5>2. p + n \in 0 .. FileSize
          BY <1>5, <1>7, <3>2
        <5> QED BY <3>4, <5>1, <5>2 DEF IsPlace
      <4> QED BY <4>1, <4>2
    <3> HIDE DEF place
    <3>6. /\ st \in CallStates /\ SameBytes(first.S, st.S) /\ more \in Seq(Bytes)
          /\ st.out = first.out \o more
          /\ st.pos = Moved(first.pos, h, place, Len(more))
      BY <1>5, <1>6, <3>1, <3>5, HandleReadFacts
    <3>7. more = SubSeq(row, (p + n) + 1, Least((p + n) + m, FileSize))
      BY <3>3, <3>4 DEF PartOf
    <3> HIDE DEF more
    <3>8. part \o more = whole
      <4> DEFINE q == p + n
                 e == Least((p + n) + m, FileSize)
      <4>1. Least(p + n, FileSize) = q /\ p + (n + m) = (p + n) + m
        BY <1>5, <1>7, <3>2 DEF Least
      <4>2. e \in 0 .. Len(row) /\ q \in 0 .. e /\ p \in 0 .. q
        BY <1>5, <1>7, <1>10, <3>2 DEF Least
      <4>3. part = SubSeq(row, p + 1, q) /\ whole = SubSeq(row, p + 1, e)
            /\ more = SubSeq(row, q + 1, e)
        BY <1>8, <1>9, <3>7, <4>1
      <4> HIDE DEF q, e
      <4> QED BY <1>10, <4>2, <4>3, SubSeqSplit
    <3>9. Len(whole) = n + Len(more) /\ Len(more) \in Nat
      <4>1. Len(part \o more) = Len(part) + Len(more)
        BY <1>6, <3>6, ConcatFacts
      <4>2. Len(more) \in Nat
        BY <3>6
      <4> QED BY <2>1, <3>8, <4>1, <4>2
    <3>10. Moved(first.pos, h, place, Len(more)) = Moved(pos, h, at, n + Len(more))
      <4>1. Moved(Moved(pos, h, at, n), h, Behind(at, n), Len(more))
              = Moved(pos, h, at, n + Len(more))
        <5> DEFINE l == Len(more)
        <5>1. IsPlace(Started, at) /\ n \in Nat /\ l \in Nat /\ Started \in CallStates
          BY <1>4, <1>5, <3>9
        <5> HIDE DEF l
        <5>2. Moved(Moved(Started.pos, h, at, n), h, Behind(at, n), l)
                = Moved(Started.pos, h, at, n + l)
          BY <5>1, BehindFacts
        <5> QED BY <1>4, <5>2 DEF l
      <4> QED BY <1>6, <2>1, <4>1 DEF place
    <3>11. SameBytes(File, st.S)
      BY <1>6, <3>6 DEF SameBytes
    <3> QED BY <1>11, <3>6, <3>8, <3>9, <3>10, <3>11
  <2>2. CASE Len(part) # n
    <3>1. st = first
      BY <1>2, <1>11, <2>2
    <3>2. Least(p + n, FileSize) = Least(p + (n + m), FileSize)
      BY <1>5, <1>6, <1>7, <2>2 DEF Least
    <3>3. whole = part
      BY <1>8, <1>9, <3>2
    <3> QED BY <1>6, <1>11, <3>1, <3>3
  <2> QED BY <2>1, <2>2
<1>13. st.S.FileSize <= MaxSize
  BY <1>4, <1>12, SizeBound DEF SameBytes, TInv
<1>14. FileInv' /\ Content' = Row(st.S) /\ pos' = st.pos
  BY <1>2, <1>12, <1>13, DoneFacts
<1>15. Content' = Content
  BY <1>4, <1>12, <1>14, SameBytesSameRow DEF row
<1>16. Promised!Next
  <2>1. got' = PartOf(Started, h, at, n + m) /\ pos' = Moved(pos, h, at, Len(got'))
    BY <1>2, <1>12, <1>14 DEF whole
  <2> QED BY <1>5, <1>15, <2>1, ReadIsRead DEF TInv
<1> QED BY <1>3, <1>14, <1>16, SendRests DEF Kept, TInv

(* writev and pwritev.                                                     *)
LEMMA WriteVectorStep ==
    ASSUME TInv, NEW h \in Handles, NEW n \in 1 .. MaxIO, NEW m \in 1 .. MaxIO - n,
           NEW b \in Bytes, NEW c \in Bytes,
           NEW at \in {Own} \union 0 .. FileSize, WriteVector(h, at, n, b, m, c)
    PROVE  Kept
<1> DEFINE p == Where(pos, h, at)
           bs == [i \in 1 .. n |-> b]
           cs == [i \in 1 .. m |-> c]
           all == bs \o cs
           place == Behind(at, n)
           first == HandleWrite(Started, h, at, bs)
           st == HandleWrite(first, h, place, cs)
<1>1. FileSize \in Nat /\ FileSize <= MaxSize /\ MaxSize \in Nat /\ MaxIO \in Nat
  BY SizeBound DEF TInv
<1>2. n \in Nat /\ m \in Nat /\ n + m \in 1 .. MaxIO
  BY <1>1
<1>3. /\ Started \in CallStates /\ Started.S = File /\ Started.pos = pos
      /\ Started.S.FileSize = FileSize /\ Content = Row(File)
  BY StartedFacts DEF TInv
<1>4. IsPlace(Started, at)
  BY <1>3 DEF IsPlace
<1>5. p \in 0 .. FileSize
  BY <1>3, <1>4, WhereFacts
<1>6. /\ bs \in Seq(Bytes) /\ Len(bs) = n /\ cs \in Seq(Bytes) /\ Len(cs) = m
  BY <1>2, SameByteSeq
<1>7. Done(st) /\ sending = None /\ sending' = sending /\ got' = got /\ p + n + m <= MaxSize
  <2>1. ~ (p > FileSize)
    BY <1>1, <1>5
  <2> HIDE DEF st, first, bs, cs
  <2> QED BY <2>1 DEF WriteVector, st, first, bs, cs
<1> HIDE DEF bs, cs
<1>8. /\ first \in CallStates /\ Overwritten(File, first.S, p, bs)
      /\ first.S.FileSize = Greatest(FileSize, p + n)
      /\ first.pos = Moved(pos, h, at, n)
  BY <1>3, <1>4, <1>6, HandleWriteFacts
<1>9. /\ Where(Moved(pos, h, at, n), h, place) = p + n
      /\ Moved(Moved(pos, h, at, n), h, place, m) = Moved(pos, h, at, n + m)
  BY <1>2, <1>3, <1>4, BehindFacts
<1> HIDE DEF first
<1>10. IsPlace(first, place)
  <2>1. CASE at = Own
    BY <2>1 DEF IsPlace, Behind
  <2>2. CASE at # Own
    <3>1. at = p /\ place = at + n
      BY <2>2 DEF Where, Behind
    <3> HIDE DEF p, place
    <3>2. p + n \in 0 .. Greatest(FileSize, p + n)
      BY <1>1, <1>2, <1>5 DEF Greatest
    <3> QED BY <1>8, <3>1, <3>2 DEF IsPlace
  <2> QED BY <2>1, <2>2
<1> HIDE DEF place
<1>11. /\ st \in CallStates /\ Overwritten(first.S, st.S, Where(first.pos, h, place), cs)
       /\ st.S.FileSize = Greatest(first.S.FileSize, Where(first.pos, h, place) + m)
       /\ st.pos = Moved(first.pos, h, place, m)
  BY <1>6, <1>8, <1>10, HandleWriteFacts
<1> HIDE DEF st, p
<1>12. /\ Overwritten(first.S, st.S, p + n, cs)
       /\ st.S.FileSize = Greatest(first.S.FileSize, (p + n) + m)
       /\ st.pos = Moved(pos, h, at, n + m)
  BY <1>8, <1>9, <1>11 DEF p
<1>13. all \in Seq(Bytes) /\ Len(all) = n + m /\ all \in [1 .. n + m -> Bytes]
  <2>1. all \in Seq(Bytes) /\ Len(all) = n + m
    BY <1>6, ConcatFacts
  <2> HIDE DEF all
  <2> QED BY <1>2, <2>1
<1>14. Overwritten(File, st.S, p, all)
  <2>1. File \in Files /\ File.FileSize = FileSize
    BY FileFields DEF TInv, FileInv
  <2> QED BY <1>5, <1>6, <1>8, <1>12, <2>1, OverwrittenTwice
<1> HIDE DEF all
<1>15. st.S.FileSize <= MaxSize
  BY <1>1, <1>2, <1>5, <1>7, <1>8, <1>12 DEF Greatest
<1>16. FileInv' /\ Content' = Row(st.S) /\ pos' = st.pos
  BY <1>7, <1>11, <1>15, DoneFacts
<1>17. Content' = Promised!Over(Content, p, all)
  <2>1. File \in Files /\ Tiled(File) /\ File.FileSize = FileSize
    BY FileFields DEF TInv, FileInv
  <2> QED BY <1>3, <1>5, <1>13, <1>14, <1>16, <2>1, OverwrittenRow
<1>18. Promised!Next
  <2> DEFINE l == n + m
  <2>1. /\ l \in 1 .. MaxIO /\ all \in [1 .. l -> Bytes] /\ Len(all) = l
        /\ pos' = Moved(pos, h, at, l)
    BY <1>2, <1>12, <1>13, <1>16
  <2> HIDE DEF l
  <2> QED BY <1>4, <1>7, <1>17, <2>1, WriteIsWrite DEF TInv, p
<1> QED BY <1>7, <1>16, <1>18, SendRests DEF Kept, TInv

(* A round of sendfile gives as many bytes as it asks for.                 *)
LEMMA SendRoundStep ==
    ASSUME TInv, SendRound
    PROVE  Kept
<1> DEFINE in == sending.in
           out == sending.out
           left == sending.left
           n == Least(BufferSize, left)
           r == HandleRead(Started, in, Own, n)
           part == PartOf(Started, in, Own, n)
           garbage == [k \in 1 .. n - Len(r.out) |-> Garbage]
           st == HandleWrite(r, out, Own, r.out \o garbage)
<1>1. FileSize \in Nat /\ FileSize <= MaxSize /\ MaxSize \in Nat /\ MaxIO \in Nat
      /\ BufferSize \in Nat \ {0}
  BY SizeBound, SizeFacts DEF TInv
<1>2. /\ in \in Handles /\ out \in Handles /\ left \in 1 .. MaxIO /\ in # out
      /\ pos[in] + left <= FileSize /\ pos[out] + left <= MaxSize
      /\ sending = [in |-> in, out |-> out, left |-> left]
  BY DEF TInv, SendInv, SendRound
<1>3. pos \in [Handles -> Nat] /\ pos[in] \in Nat /\ pos[out] \in 0 .. FileSize
  BY <1>1, <1>2 DEF TInv, FileInv
<1>4. Done(st) /\ sending' = (IF left = n THEN None ELSE [sending EXCEPT !.left = @ - n])
      /\ got' = got
  BY DEF SendRound
<1> HIDE DEF in, out, left
<1>5. n \in 1 .. MaxIO /\ n <= left
  BY <1>1, <1>2 DEF Least
<1> HIDE DEF n
<1>6. /\ Started \in CallStates /\ Started.S = File /\ Started.pos = pos
      /\ Started.out = <<>> /\ Started.S.FileSize = FileSize
      /\ Content = Row(File) /\ Content \in Seq(Bytes) /\ Len(Content) = FileSize
  BY StartedFacts DEF TInv
<1>7. IsPlace(Started, Own) /\ n \in Nat
  BY <1>5 DEF IsPlace
<1>8. Where(pos, in, Own) = pos[in] /\ Where(pos, out, Own) = pos[out]
  BY DEF Where
<1>9. /\ r \in CallStates /\ SameBytes(File, r.S) /\ part \in Seq(Bytes)
      /\ Len(part) = Least(n, FileSize - pos[in])
      /\ r.out = <<>> \o part /\ r.pos = Moved(pos, in, Own, Len(part))
  <2>1. in \in Handles
    BY <1>2
  <2>2. /\ r \in CallStates /\ SameBytes(Started.S, r.S) /\ part \in Seq(Bytes)
        /\ Len(part) = Least(n, Started.S.FileSize - Where(Started.pos, in, Own))
        /\ r.out = Started.out \o part /\ r.pos = Moved(Started.pos, in, Own, Len(part))
    BY <1>6, <1>7, <2>1, HandleReadFacts
  <2> HIDE DEF r, part
  <2> QED BY <1>6, <1>8, <2>2
<1>10. part = SubSeq(Content, pos[in] + 1, pos[in] + n)
  <2>1. Least(pos[in] + n, FileSize) = pos[in] + n
    BY <1>1, <1>2, <1>3, <1>5 DEF Least
  <2> QED BY <1>6, <1>8, <2>1 DEF PartOf
<1> HIDE DEF part, r
<1>11. Len(part) = n
  BY <1>1, <1>2, <1>3, <1>5, <1>9 DEF Least
<1>12. r.out = part /\ r.out \o garbage = part
  <2>1. r.out = part
    BY <1>9, EmptyConcat
  <2>2. garbage = <<>>
    BY <1>7, <1>11, <2>1
  <2> QED BY <1>9, <2>1, <2>2, EmptyConcat
<1> HIDE DEF garbage
<1>13. st = HandleWrite(r, out, Own, part)
  BY <1>12
<1> HIDE DEF st
<1>14. /\ r.pos = [pos EXCEPT ![in] = @ + n] /\ r.pos[out] = pos[out]
       /\ r.S \in Files /\ Tiled(r.S) /\ r.S.FileSize = FileSize /\ Row(r.S) = Content
  <2>1. r.pos = [pos EXCEPT ![in] = @ + n] /\ r.pos[out] = pos[out]
    BY <1>2, <1>3, <1>9, <1>11 DEF Moved
  <2>2. r.S \in Files /\ Tiled(r.S)
    BY <1>9 DEF CallStates
  <2>3. Row(r.S) = Content
    BY <1>6, <1>9, SameBytesSameRow
  <2>4. r.S.FileSize = FileSize
    BY <1>6, <1>9 DEF SameBytes
  <2> QED BY <2>1, <2>2, <2>3, <2>4
<1>15. IsPlace(r, Own) /\ Where(r.pos, out, Own) = pos[out]
  BY <1>14 DEF IsPlace, Where
<1>16. /\ st \in CallStates /\ Overwritten(r.S, st.S, pos[out], part)
       /\ st.S.FileSize = Greatest(FileSize, pos[out] + n)
       /\ st.pos = Moved(r.pos, out, Own, n)
  BY <1>2, <1>9, <1>11, <1>13, <1>14, <1>15, HandleWriteFacts
<1>17. st.S.FileSize <= MaxSize
  BY <1>1, <1>2, <1>3, <1>5, <1>16 DEF Greatest
<1>18. FileInv' /\ Content' = Row(st.S) /\ pos' = st.pos /\ FileSize' = st.S.FileSize
  BY <1>4, <1>16, <1>17, DoneFacts
<1>19. Content' = Promised!Over(Content, pos[out], part)
  <2> DEFINE q == pos[out]
             T == r.S
  <2>1. q \in 0 .. T.FileSize
    BY <1>3, <1>14
  <2>2. T \in Files /\ Tiled(T) /\ Row(T) = Content /\ Overwritten(T, st.S, q, part)
    BY <1>14, <1>16
  <2> HIDE DEF q, T
  <2>3. Row(st.S) = Promised!Over(Row(T), q, part)
    BY <1>9, <2>1, <2>2, OverwrittenRow
  <2> QED BY <1>18, <2>2, <2>3 DEF q
<1>20. pos' = [[pos EXCEPT ![in] = @ + n] EXCEPT ![out] = @ + n]
  BY <1>14, <1>16, <1>18 DEF Moved
<1>21. Promised!Next
  <2>1. pos[in] + n <= Len(Content)
    BY <1>1, <1>2, <1>3, <1>5, <1>6
  <2>2. Promised!Copy(in, out, n)
    BY <1>2, <1>4, <1>10, <1>19, <1>20, <2>1 DEF Promised!Copy
  <2> QED BY <1>2, <1>5, <2>2 DEF Promised!Next
<1>22. SendInv'
  <2>1. CASE left = n
    BY <1>4, <2>1 DEF SendInv
  <2>2. CASE left # n
    <3> DEFINE rest == left - n
    <3>1. rest \in 1 .. MaxIO
      BY <1>1, <1>2, <1>5, <2>2
    <3>2. sending' = [in |-> in, out |-> out, left |-> rest]
      BY <1>2, <1>4, <2>2
    <3>3. pos'[in] = pos[in] + n /\ pos'[out] = pos[out] + n
      BY <1>2, <1>3, <1>20
    <3>4. FileSize' \in Nat /\ FileSize <= FileSize'
      BY <1>1, <1>3, <1>5, <1>16, <1>18 DEF Greatest
    <3>5. pos[in] + n + rest <= FileSize' /\ pos[out] + n + rest <= MaxSize
      BY <1>1, <1>2, <1>3, <1>5, <3>4
    <3> HIDE DEF rest
    <3>6. /\ sending' \in [in : Handles, out : Handles, left : 1 .. MaxIO]
          /\ sending'.in = in /\ sending'.out = out /\ sending'.left = rest
      BY <1>2, <3>1, <3>2
    <3> QED BY <1>2, <3>3, <3>5, <3>6 DEF SendInv
  <2> QED BY <2>1, <2>2
<1> QED BY <1>18, <1>21, <1>22 DEF Kept, TInv

-----------------------------------------------------------------------------
(* The theorems.                                                           *)

LEMMA TInvInit == Init => TInv /\ Promised!Init
<1> SUFFICES ASSUME Init
             PROVE  TInv /\ Promised!Init
  OBVIOUS
<1>1. /\ frags = <<>> /\ cache = 0 /\ FileSize = 0
      /\ pos = [h \in Handles |-> 0] /\ got = <<>> /\ sending = None
  BY DEF Init
<1>2. File = [frags |-> <<>>, cache |-> 0, FileSize |-> 0]
  BY <1>1 DEF File
<1>3. File \in Files
  BY <1>2 DEF Files
<1>4. Tiled(File)
  BY <1>2, FirstBegin DEF Tiled
<1>5. FileInv
  BY <1>1, <1>3, <1>4, TempFileAssumption DEF FileInv
<1>6. Content = <<>>
  <2>1. Content \in Seq(Bytes) /\ Len(Content) = 0
    BY <1>1, <1>5, StartedFacts
  <2> QED BY <2>1
<1> QED BY <1>1, <1>5, <1>6 DEF TInv, SendInv, Promised!Init

LEMMA TInvNext == TInv /\ Careful /\ [Next]_vars => Kept
<1> SUFFICES ASSUME TInv, Careful, [Next]_vars
             PROVE  Kept
  OBVIOUS
<1>1. ASSUME NEW h \in Handles, NEW n \in 1 .. MaxIO, NEW at \in {Own} \union 0 .. FileSize,
             Read(h, at, n)
      PROVE  Kept
  BY <1>1, ReadStep
<1>2. ASSUME NEW h \in Handles, NEW n \in 1 .. MaxIO, NEW at \in {Own} \union 0 .. FileSize,
             NEW b \in Bytes, Write(h, at, n, b)
      PROVE  Kept
  BY <1>2, WriteStep
<1>3. ASSUME NEW h \in Handles, NEW n \in 1 .. MaxIO, NEW at \in {Own} \union 0 .. FileSize,
             NEW m \in 1 .. MaxIO - n, ReadVector(h, at, n, m)
      PROVE  Kept
  BY <1>3, ReadVectorStep
<1>4. ASSUME NEW h \in Handles, NEW n \in 1 .. MaxIO, NEW at \in {Own} \union 0 .. FileSize,
             NEW m \in 1 .. MaxIO - n, NEW b \in Bytes, NEW c \in Bytes,
             WriteVector(h, at, n, b, m, c)
      PROVE  Kept
  BY <1>4, WriteVectorStep
<1>5. ASSUME NEW h \in Handles, NEW n \in 1 .. MaxIO, NEW at \in {Own} \union 0 .. FileSize,
             NEW g \in Handles, Sendfile(h, g, at, n)
      PROVE  Kept
  BY <1>5, SendfileStep
<1>6. ASSUME NEW h \in Handles, NEW base \in {"begin", "current", "end"},
             NEW off \in -MaxIO .. MaxIO, Lseek(h, base, off)
      PROVE  Kept
  BY <1>6, LseekStep
<1>7. ASSUME NEW h \in Handles, NEW g \in Handles, Dump(h, g)
      PROVE  Kept
  BY <1>7, DumpStep
<1>8. CASE SendRound
  BY <1>8, SendRoundStep
<1>9. CASE UNCHANGED vars
  <2>1. /\ frags' = frags /\ cache' = cache /\ FileSize' = FileSize
        /\ pos' = pos /\ got' = got /\ sending' = sending
    BY <1>9 DEF vars
  <2>2. File' = File /\ Content' = Content
    BY <2>1 DEF File, Content
  <2>3. FileInv' /\ SendInv'
    BY <2>1, <2>2 DEF TInv, FileInv, SendInv
  <2> QED BY <2>1, <2>2, <2>3 DEF Kept, TInv, Promised!vars
<1> QED BY <1>1, <1>2, <1>3, <1>4, <1>5, <1>6, <1>7, <1>8, <1>9 DEF Next

(* The fragments, the handles and a sendfile between two rounds always     *)
(* stand to one another as TInv says, whatever programs call               *)
(* (TempFileNode::Read and Write, FileHandle and sendfile), as long as     *)
(* none leaves the file or sends to where it reads from.                   *)
THEOREM TempFileInvariant == Careful => (Spec => []TInv)
<1> SUFFICES ASSUME Careful
             PROVE  Spec => []TInv
  OBVIOUS
<1>1. Init => TInv
  BY TInvInit
<1>2. TInv /\ [Next]_vars => TInv'
  BY TInvNext DEF Kept
<1> QED BY <1>1, <1>2, PTL DEF Spec

(* Write's loop leaves every fragment but the last full, and has written   *)
(* all that is below the size: Extend never meets a gap.                   *)
THEOREM FragmentsStayTiled == Careful => (Spec => []FragmentsTile)
<1> SUFFICES ASSUME Careful
             PROVE  Spec => []FragmentsTile
  OBVIOUS
<1>1. TInv => FragmentsTile
  <2> SUFFICES ASSUME TInv
               PROVE  FragmentsTile
    OBVIOUS
  <2>1. /\ Tiled(File) /\ FileSize \in 0 .. MaxSize
        /\ File.frags = frags /\ File.cache = cache /\ File.FileSize = FileSize
    BY SizeBound, FileFields DEF TInv, FileInv
  <2> QED BY <2>1 DEF FragmentsTile, Tiled
<1> QED BY <1>1, TempFileInvariant, PTL

(* Through fragments, the one used last and the loops over them, the file  *)
(* behaves as a row of bytes: reads, writes, their vectors and sendfile    *)
(* are reads, writes and copies of that row.                               *)
THEOREM ByteFileImplemented == Careful => (Spec => ImplementsByteFile)
<1> SUFFICES ASSUME Careful
             PROVE  Spec => ImplementsByteFile
  OBVIOUS
<1>1. Init => Promised!Init
  BY TInvInit
<1>2. TInv /\ [Next]_vars => [Promised!Next]_(Promised!vars)
  BY TInvNext DEF Kept
<1>3. Spec => []TInv
  BY TempFileInvariant
<1> QED BY <1>1, <1>2, <1>3, PTL DEF Spec, ImplementsByteFile, Promised!Spec
=============================================================================
