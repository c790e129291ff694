------------------------- MODULE FileSystemProofs -------------------------
(***************************************************************************)
(* Proofs about the file systems.  First FAT32, for any size of the        *)
(* volume, any paths and any writes: the invariant, loops and their        *)
(* values, what an access to the device leaves, chains, lookups, writes to *)
(* files and to directories, the calls, and the theorems.  Then VFS, for   *)
(* any paths and any number of nodes: the invariant, the tree of nodes and *)
(* its lists of children, a new node and a node that goes, what the volume *)
(* and the nodes have in common, lookups, the calls, and the theorems.     *)
(***************************************************************************)
EXTENDS FAT32, VFS, FiniteSetTheorems, WellFoundedInduction, TLAPS

IsEntry(slot) == slot.kind \in {"short", "deleted"}

EntriesOf(D) == {x \in 1 .. Slots : IsEntry(D.disk[x])}

(***************************************************************************)
(* The inductive invariant: what the FAT and the entries look like at any  *)
(* time, also between the steps of a call.                                 *)

\* What the hint is still to give out is free.
AboveHintFree(D) == \A c \in D.hint .. LastCluster : D.fat[c] = Free

\* A cluster is followed by one that was taken after it.
LinksAscend(D) ==
    \A c \in Clusters : D.fat[c] \in Clusters => c < D.fat[c] /\ D.fat[c] < D.hint

\* No two clusters are followed by the same one.
LinksApart(D) ==
    \A c, d \in Clusters : D.fat[c] \in Clusters /\ D.fat[c] = D.fat[d] => c = d

\* h was taken, and no other cluster leads to it.
HeadOf(D, h) == h \in Root + 1 .. D.hint - 1 /\ \A c \in Clusters : D.fat[c] # h

\* Every entry has a chain of its own, and its cluster is the head of it.
EntriesApart(D) ==
    /\ \A x \in EntriesOf(D) : HeadOf(D, D.disk[x].first)
    /\ \A x, y \in EntriesOf(D) : D.disk[x].first = D.disk[y].first => x = y

Sound(D) ==
    /\ D \in DeviceType
    /\ D.hint > Root
    /\ AboveHintFree(D)
    /\ LinksAscend(D)
    /\ LinksApart(D)
    /\ EntriesApart(D)

\* The nodes of the tree name clusters that were taken.
NodesSound ==
    /\ node \in [Paths -> Node \union {None}]
    /\ \A p \in Paths : node[p] # None => node[p].first < hint /\ node[p].at # 0

FInv == Sound(Device) /\ NodesSound
-----------------------------------------------------------------------------
(* Numbers.                                                                *)

(* Induction for a set of numbers. *)
LEMMA AllNumbers ==
    ASSUME NEW I \in SUBSET Nat, 0 \in I, \A i \in I : i + 1 \in I
    PROVE  I = Nat
<1> SUFFICES ASSUME NEW n \in Nat \ I PROVE FALSE
  OBVIOUS
<1>1. PICK m \in Nat \ I : \A j \in Nat \ I : ~ (<<j, m>> \in OpToRel(<, Nat))
  BY WFMin, NatLessThanWellFounded
<1>2. m # 0 /\ m - 1 \in Nat /\ (m - 1) + 1 = m /\ m - 1 < m
  OBVIOUS
<1>3. m - 1 \notin I
  BY <1>2
<1>4. <<m - 1, m>> \in OpToRel(<, Nat)
  BY <1>2 DEF OpToRel
<1> QED BY <1>1, <1>2, <1>3, <1>4

(* A set of numbers that is not empty has a least one. *)
LEMMA LeastNumber ==
    ASSUME NEW S \in SUBSET Nat, S # {}
    PROVE  Min(S) \in S /\ \A i \in S : Min(S) <= i
<1>1. PICK m \in S : \A j \in S : ~ (<<j, m>> \in OpToRel(<, Nat))
  BY WFMin, NatLessThanWellFounded
<1>2. \A j \in S : m <= j
  <2> SUFFICES ASSUME NEW j \in S, j < m
               PROVE  FALSE
    OBVIOUS
  <2>1. <<j, m>> \in OpToRel(<, Nat)
    BY DEF OpToRel
  <2> QED BY <1>1, <2>1
<1> QED BY <1>2 DEF Min

(* A product of positive numbers is positive. *)
LEMMA Product ==
    ASSUME NEW a \in Nat \ {0}, NEW b \in Nat \ {0}
    PROVE  a * b \in Nat \ {0}
OBVIOUS

(* A product of numbers is one. *)
LEMMA ProductNat ==
    ASSUME NEW a \in Nat, NEW b \in Nat
    PROVE  a * b \in Nat
OBVIOUS

(* A product grows with its factor. *)
LEMMA ProductGrows ==
    ASSUME NEW a \in Nat, NEW b \in Nat, NEW c \in Nat, a <= b
    PROVE  a * c <= b * c
OBVIOUS

(* Division with remainder. *)
LEMMA DivMod ==
    ASSUME NEW a \in Int, NEW b \in Nat \ {0}
    PROVE  /\ a % b \in 0 .. b - 1 /\ a \div b \in Int
           /\ a = (a \div b) * b + (a % b)
<1>1. a % b \in 0 .. b - 1 /\ a \div b \in Int
  OBVIOUS
<1>2. a = (a \div b) * b + (a % b)
  BY Z3
<1> QED BY <1>1, <1>2

(* A remainder and a quotient are the only ones. *)
LEMMA Quotient ==
    ASSUME NEW q \in Int, NEW b \in Nat \ {0}, NEW r \in 0 .. b - 1
    PROVE  (q * b + r) \div b = q
OBVIOUS

(* The constants of the volume. *)
LEMMA Sizes ==
    /\ K \in Nat \ {0} /\ LastCluster \in Nat /\ LastCluster > 3
    /\ Root = 2 /\ Clusters = 2 .. LastCluster /\ End = LastCluster + 1
    /\ Clusters \subseteq Nat /\ End \notin Clusters /\ Free = 0 /\ Free \notin Clusters
    /\ Slots \in Nat /\ Slots = K * (LastCluster - 1)
<1>1. SPC \in Nat \ {0} /\ EPS \in Nat \ {0} /\ LastCluster \in Nat /\ LastCluster > 3
  BY FATAssumption
<1>2. K \in Nat \ {0}
  BY <1>1, Product DEF K
<1>3. Slots \in Nat
  <2>1. LastCluster - 1 \in Nat
    BY <1>1
  <2> QED BY <1>2, <2>1, ProductNat DEF Slots
<1> QED BY <1>1, <1>2, <1>3 DEF Root, Clusters, End, Free, Slots
\* Round n of a loop of m rounds, step[n], takes the values of V[n - 1] to those
\* of V[n].
LoopWithin(m, V, start, step) ==
    start \in V[0] /\ \A n \in 1 .. m : \A v \in V[n - 1] : step[n][v] \in V[n]

\* f[n] is the value after n rounds.
LoopValues(f, m, V, start, step) ==
    /\ f = [n \in 0 .. m |-> f[n]] /\ f[0] = start
    /\ \A n \in 1 .. m : f[n] = step[n][f[n - 1]]
    /\ \A n \in 0 .. m : f[n] \in V[n]

(* Such a loop has a value after every round. *)
LEMMA Rounds ==
    ASSUME NEW m \in Nat, NEW V, NEW start, NEW step, LoopWithin(m, V, start, step)
    PROVE  \E f : LoopValues(f, m, V, start, step)
<1> USE DEF LoopWithin, LoopValues
<1> DEFINE Runs(f, l) == LoopValues(f, l, V, start, step)
           I == {l \in Nat : l <= m => \E f : Runs(f, l)}
<1>1. 0 \in I
  <2>1. Runs([n \in 0 .. 0 |-> start], 0)
    OBVIOUS
  <2> HIDE DEF Runs, LoopValues
  <2> QED BY <2>1
<1>2. ASSUME NEW l \in I
      PROVE  l + 1 \in I
  <2>1. l \in Nat
    OBVIOUS
  <2> SUFFICES ASSUME l + 1 <= m
               PROVE  \E g : Runs(g, l + 1)
    <3> HIDE DEF Runs, LoopValues
    <3> QED BY <2>1
  <2>2. \E f : Runs(f, l)
    <3> HIDE DEF Runs, LoopValues
    <3> QED BY <2>1
  <2>3. PICK f : Runs(f, l)
    BY <2>2
  <2> DEFINE g == [n \in 0 .. l + 1 |-> IF n <= l THEN f[n] ELSE step[l + 1][f[l]]]
  <2>4. g = [n \in 0 .. l + 1 |-> g[n]]
    OBVIOUS
  <2>5. (\A n \in 0 .. l : g[n] = f[n]) /\ g[l + 1] = step[l + 1][f[l]]
    BY <2>1
  <2>6. f[0] = start /\ 0 \in 0 .. l /\ l \in 0 .. l /\ l + 1 \in 1 .. m
    BY <2>1, <2>3
  <2>7. /\ \A n \in 1 .. l : f[n] = step[n][f[n - 1]]
        /\ \A n \in 0 .. l : f[n] \in V[n]
    BY <2>3
  <2> HIDE DEF g
  <2>8. ASSUME NEW n \in 1 .. l + 1
        PROVE  g[n] = step[n][g[n - 1]]
    <3>1. CASE n = l + 1
      <4>1. n - 1 = l
        BY <2>1, <3>1
      <4> QED BY <2>5, <2>6, <3>1, <4>1
    <3>2. CASE n # l + 1
      <4>1. n \in 1 .. l /\ n \in 0 .. l /\ n - 1 \in 0 .. l
        BY <2>1, <3>2
      <4> QED BY <2>5, <2>7, <4>1
    <3> QED BY <3>1, <3>2
  <2>9. ASSUME NEW n \in 0 .. l + 1
        PROVE  g[n] \in V[n]
    <3>1. CASE n = l + 1
      <4>1. (l + 1) - 1 = l /\ f[l] \in V[(l + 1) - 1]
        BY <2>1, <2>6, <2>7
      <4>2. step[l + 1][f[l]] \in V[l + 1]
        BY <2>6, <4>1
      <4> QED BY <2>5, <3>1, <4>2
    <3>2. CASE n # l + 1
      <4>1. n \in 0 .. l
        BY <2>1, <3>2
      <4> QED BY <2>5, <2>7, <4>1
    <3> QED BY <3>1, <3>2
  <2>10. Runs(g, l + 1)
    BY <2>4, <2>5, <2>6, <2>8, <2>9
  <2> HIDE DEF Runs, LoopValues
  <2> QED BY <2>10
<1>3. I = Nat
  <2> HIDE DEF I
  <2> QED BY <1>1, <1>2, AllNumbers DEF I
<1>4. m \in I
  <2> HIDE DEF I
  <2> QED BY <1>3
<1> HIDE DEF Runs, LoopValues
<1> HIDE DEF LoopValues
<1>5. \E f : Runs(f, m)
  BY <1>4
<1> QED BY <1>5 DEF Runs

(* It has no other. *)
LEMMA OneLoop ==
    ASSUME NEW m \in Nat, NEW f, NEW h, h[0] = f[0],
           \A n \in 1 .. m : h[n - 1] = f[n - 1] => h[n] = f[n]
    PROVE  h[m] = f[m]
<1> DEFINE I == {n \in Nat : n <= m => h[n] = f[n]}
<1>1. 0 \in I
  OBVIOUS
<1>2. ASSUME NEW n \in I
      PROVE  n + 1 \in I
  <2>1. n \in Nat /\ (n + 1) - 1 = n
    OBVIOUS
  <2>2. n + 1 <= m => n + 1 \in 1 .. m /\ n <= m
    BY <2>1
  <2> QED BY <2>1, <2>2
<1>3. I = Nat
  <2> HIDE DEF I
  <2> QED BY <1>1, <1>2, AllNumbers DEF I
<1>4. m \in I
  <2> HIDE DEF I
  <2> QED BY <1>3
<1> QED BY <1>4
-----------------------------------------------------------------------------
(* What one access to the device leaves.                                   *)

(* The fields of a device. *)
LEMMA DeviceFields ==
    ASSUME NEW D \in DeviceType
    PROVE  /\ D = [fat |-> D.fat, disk |-> D.disk, hint |-> D.hint, fault |-> D.fault]
           /\ D.fat \in [Clusters -> 0 .. End] /\ D.disk \in [1 .. Slots -> Slot]
           /\ D.hint \in Clusters \union {End} /\ D.fault \in BOOLEAN
BY DEF DeviceType

(* A device with its fault set. *)
LEMMA FaultSet ==
    ASSUME NEW D \in DeviceType, NEW v \in BOOLEAN
    PROVE  /\ [D EXCEPT !.fault = v] \in DeviceType
           /\ [D EXCEPT !.fault = v].fat = D.fat /\ [D EXCEPT !.fault = v].disk = D.disk
           /\ [D EXCEPT !.fault = v].hint = D.hint /\ [D EXCEPT !.fault = v].fault = v
BY DEF DeviceType

(* A device with one slot changed. *)
LEMMA SlotSet ==
    ASSUME NEW D \in DeviceType, NEW x \in 1 .. Slots, NEW slot \in Slot
    PROVE  LET P == [D EXCEPT !.disk[x] = slot]
           IN  /\ P \in DeviceType /\ P.fat = D.fat /\ P.hint = D.hint /\ P.fault = D.fault
               /\ P.disk = [D.disk EXCEPT ![x] = slot]
BY DEF DeviceType

(* A device with one entry of the FAT changed. *)
LEMMA LinkSet ==
    ASSUME NEW D \in DeviceType, NEW c \in Clusters, NEW next \in 0 .. End
    PROVE  LET P == [D EXCEPT !.fat[c] = next]
           IN  /\ P \in DeviceType /\ P.disk = D.disk /\ P.hint = D.hint /\ P.fault = D.fault
               /\ P.fat = [D.fat EXCEPT ![c] = next]
BY DEF DeviceType

(* A device with another hint. *)
LEMMA HintSet ==
    ASSUME NEW D \in DeviceType, NEW h \in Clusters \union {End}
    PROVE  LET P == [D EXCEPT !.hint = h]
           IN  /\ P \in DeviceType /\ P.disk = D.disk /\ P.hint = h /\ P.fault = D.fault
               /\ P.fat = D.fat
BY DEF DeviceType

(* WriteRawData of a slot. *)
LEMMA PutIs ==
    ASSUME NEW D \in DeviceType, NEW x, NEW slot \in Slot
    PROVE  LET P == Put(D, x, slot)
           IN  /\ P \in DeviceType /\ P.fat = D.fat /\ P.hint = D.hint
               /\ P.disk = IF writes /\ x \in 1 .. Slots THEN [D.disk EXCEPT ![x] = slot] ELSE D.disk
               /\ (x \in 1 .. Slots \/ ~writes) => P.fault = D.fault
               /\ D.fault => P.fault
<1>1. CASE writes /\ x \notin 1 .. Slots
  <2>1. Put(D, x, slot) = [D EXCEPT !.fault = TRUE]
    BY <1>1 DEF Put
  <2> QED BY <1>1, <2>1, FaultSet
<1>2. CASE writes /\ x \in 1 .. Slots
  <2>1. Put(D, x, slot) = [D EXCEPT !.disk[x] = slot]
    BY <1>2 DEF Put, Stored
  <2> QED BY <1>2, <2>1, SlotSet
<1>3. CASE ~writes
  <2>1. Put(D, x, slot) = D
    BY <1>3 DEF Put, Stored
  <2> QED BY <1>3, <2>1
<1> QED BY <1>1, <1>2, <1>3

(* GetFreeClusterAndPlusOne. *)
LEMMA AllocatedIs ==
    ASSUME NEW D \in DeviceType
    PROVE  LET A == Allocated(D)
           IN  /\ A \in DeviceType /\ A.disk = D.disk
               /\ IF writes /\ D.hint \in Clusters
                  THEN A.fat = [D.fat EXCEPT ![D.hint] = End] /\ A.hint = D.hint + 1
                  ELSE A.fat = D.fat /\ A.hint = D.hint
               /\ IF D.hint \in Clusters THEN A.fault = D.fault ELSE A.fault
<1>1. CASE D.hint \notin Clusters
  <2>1. Allocated(D) = [D EXCEPT !.fault = TRUE]
    BY <1>1 DEF Allocated
  <2> QED BY <1>1, <2>1, FaultSet
<1>2. CASE D.hint \in Clusters /\ writes
  <2> DEFINE M == [D EXCEPT !.fat[D.hint] = End]
  <2>1. Allocated(D) = [M EXCEPT !.hint = M.hint + 1]
    BY <1>2 DEF Allocated, Stored, SetFATContent
  <2>2. End \in 0 .. End
    BY Sizes
  <2>3. /\ M \in DeviceType /\ M.disk = D.disk /\ M.hint = D.hint /\ M.fault = D.fault
        /\ M.fat = [D.fat EXCEPT ![D.hint] = End]
    BY <1>2, <2>2, LinkSet
  <2>4. D.hint + 1 \in Clusters \union {End}
    BY <1>2, Sizes
  <2> HIDE DEF M
  <2> QED BY <1>2, <2>1, <2>3, <2>4, HintSet
<1>3. CASE D.hint \in Clusters /\ ~writes
  <2>1. Allocated(D) = D
    BY <1>3 DEF Allocated, Stored
  <2> QED BY <1>3, <2>1
<1> QED BY <1>1, <1>2, <1>3

(* The extension of a chain. *)
LEMMA ExtendedIs ==
    ASSUME NEW D \in DeviceType, NEW c, writes => c \in Clusters
    PROVE  LET A == Allocated(D)
               E == Extended(D, c)
           IN  /\ E \in DeviceType /\ E.disk = D.disk /\ E.hint = A.hint /\ E.fault = A.fault
               /\ E.fat = IF writes /\ ~A.fault THEN [A.fat EXCEPT ![c] = D.hint] ELSE A.fat
               /\ ~A.fault => D.hint \in Clusters
<1> DEFINE A == Allocated(D)
<1>1. A \in DeviceType /\ A.disk = D.disk /\ (~A.fault => D.hint \in Clusters)
  BY AllocatedIs
<1>2. CASE A.fault
  BY <1>1, <1>2 DEF Extended
<1>3. CASE ~A.fault /\ writes
  <2>1. Extended(D, c) = [A EXCEPT !.fat[c] = D.hint]
    BY <1>3 DEF Extended, SetFATContent, Stored
  <2>2. D.hint \in 0 .. End
    BY <1>1, <1>3, Sizes
  <2> HIDE DEF A
  <2> QED BY <1>1, <1>3, <2>1, <2>2, LinkSet DEF A
<1>4. CASE ~A.fault /\ ~writes
  <2>1. Extended(D, c) = A
    BY <1>4 DEF Extended, SetFATContent, Stored
  <2> QED BY <1>1, <1>4, <2>1
<1> QED BY <1>2, <1>3, <1>4
-----------------------------------------------------------------------------
(* Each access keeps the volume sound, and the chains there are.           *)

\* E goes on with the chains of D: links stay, and new ones lead to clusters
\* taken since.
LinksKept(D, E) ==
    /\ E.hint >= D.hint
    /\ \A c \in Clusters : D.fat[c] \in Clusters => E.fat[c] = D.fat[c]
    /\ \A c \in Clusters : E.fat[c] = D.fat[c] \/ E.fat[c] >= D.hint

\* A cluster that was taken and is in no chain yet.
FreshHead(D, h) == HeadOf(D, h) /\ \A x \in EntriesOf(D) : D.disk[x].first # h

(* What Sound says of the fields. *)
LEMMA SoundFields ==
    ASSUME NEW D, Sound(D)
    PROVE  /\ D \in DeviceType /\ D.hint \in Nat /\ D.hint > Root /\ D.hint <= End
           /\ D.fat \in [Clusters -> 0 .. End] /\ D.disk \in [1 .. Slots -> Slot]
<1>1. D \in DeviceType /\ D.hint > Root
  BY DEF Sound
<1>2. /\ D.fat \in [Clusters -> 0 .. End] /\ D.disk \in [1 .. Slots -> Slot]
      /\ D.hint \in Clusters \union {End}
  BY <1>1, DeviceFields
<1> QED BY <1>1, <1>2, Sizes

(* Where the FAT and the hint are the same, all links are kept. *)
LEMMA LinksSame ==
    ASSUME NEW D \in DeviceType, NEW E, E.fat = D.fat, E.hint = D.hint
    PROVE  LinksKept(D, E)
<1>1. D.hint >= D.hint
  BY DeviceFields, Sizes
<1> QED BY <1>1 DEF LinksKept

(* Links that are kept twice are kept. *)
LEMMA LinksKeptOn ==
    ASSUME NEW D \in DeviceType, NEW E \in DeviceType, NEW F \in DeviceType,
           LinksKept(D, E), LinksKept(E, F)
    PROVE  LinksKept(D, F)
<1>1. /\ D.hint \in Nat /\ E.hint \in Nat /\ F.hint \in Nat
      /\ F.fat \in [Clusters -> 0 .. End]
  <2>1. \A G \in DeviceType : G.hint \in Nat /\ G.fat \in [Clusters -> 0 .. End]
    <3> TAKE G \in DeviceType
    <3>1. G.hint \in Clusters \union {End} /\ G.fat \in [Clusters -> 0 .. End]
      BY DeviceFields
    <3>2. Clusters \union {End} \subseteq Nat
      BY ONLY Sizes
    <3> QED BY ONLY <3>1, <3>2
  <2> QED BY <2>1
<1>2. F.hint >= D.hint
  BY <1>1 DEF LinksKept
<1>3. \A c \in Clusters : F.fat[c] >= E.hint => F.fat[c] >= D.hint
  <2>1. \A c \in Clusters : F.fat[c] \in Nat
    BY <1>1, Sizes
  <2> QED BY <1>1, <2>1 DEF LinksKept
<1> QED BY <1>2, <1>3 DEF LinksKept

(* A slot that is written is no entry, or that of a chain of its own. *)
LEMMA PutSound ==
    ASSUME NEW D, Sound(D), NEW x, NEW slot \in Slot,
           writes /\ IsEntry(slot) => \/ x \in EntriesOf(D) /\ slot.first = D.disk[x].first
                                      \/ FreshHead(D, slot.first)
    PROVE  Sound(Put(D, x, slot))
<1> DEFINE P == Put(D, x, slot)
<1>1. /\ P \in DeviceType /\ P.fat = D.fat /\ P.hint = D.hint
      /\ P.disk = IF writes /\ x \in 1 .. Slots THEN [D.disk EXCEPT ![x] = slot] ELSE D.disk
  BY PutIs DEF Sound
<1> HIDE DEF P
<1>2. \A h : HeadOf(P, h) <=> HeadOf(D, h)
  BY <1>1 DEF HeadOf
<1>3. EntriesApart(P)
  <2>1. CASE P.disk = D.disk
    BY <1>2, <2>1 DEF EntriesApart, EntriesOf, Sound
  <2>2. CASE writes /\ x \in 1 .. Slots /\ P.disk = [D.disk EXCEPT ![x] = slot]
    <3>1. D.disk \in [1 .. Slots -> Slot]
      BY DEF Sound, DeviceType
    <3>2. P.disk[x] = slot /\ \A y \in 1 .. Slots : y # x => P.disk[y] = D.disk[y]
      BY <2>2, <3>1
    <3>3. \A y \in EntriesOf(P) : y # x => y \in EntriesOf(D) /\ P.disk[y] = D.disk[y]
      BY <3>2 DEF EntriesOf
    <3>4. x \in EntriesOf(P) => HeadOf(D, slot.first)
      BY <2>2, <3>2 DEF EntriesOf, FreshHead, EntriesApart, Sound
    <3>5. \A y \in EntriesOf(P) : x \in EntriesOf(P) /\ P.disk[y].first = slot.first => y = x
      BY <2>2, <3>2, <3>3 DEF EntriesOf, FreshHead, EntriesApart, Sound
    <3> QED BY <1>2, <3>2, <3>3, <3>4, <3>5 DEF EntriesApart, Sound
  <2> QED BY <1>1, <2>1, <2>2
<1>4. P.hint > Root /\ AboveHintFree(P) /\ LinksAscend(P) /\ LinksApart(P)
  BY <1>1 DEF Sound, AboveHintFree, LinksAscend, LinksApart
<1> QED BY <1>1, <1>3, <1>4 DEF Sound, P

(* An entry that is written heads a chain that no other entry has. *)
LEMMA PutFresh ==
    ASSUME NEW D \in DeviceType, NEW x, NEW slot \in Slot, NEW h, FreshHead(D, h),
           IsEntry(slot) => slot.first # h
    PROVE  FreshHead(Put(D, x, slot), h)
<1> DEFINE P == Put(D, x, slot)
<1>1. /\ P \in DeviceType /\ P.fat = D.fat /\ P.hint = D.hint
      /\ P.disk = IF writes /\ x \in 1 .. Slots THEN [D.disk EXCEPT ![x] = slot] ELSE D.disk
  BY PutIs
<1>2. D.disk \in [1 .. Slots -> Slot]
  BY DEF DeviceType
<1> HIDE DEF P
<1>3. HeadOf(P, h)
  BY <1>1 DEF HeadOf, FreshHead
<1>4. \A y \in EntriesOf(P) : P.disk[y].first # h
  BY <1>1, <1>2 DEF EntriesOf, FreshHead
<1> QED BY <1>3, <1>4 DEF FreshHead, P

(* The cluster that is taken is fresh. *)
LEMMA AllocatedSound ==
    ASSUME NEW D, Sound(D)
    PROVE  LET A == Allocated(D)
           IN  /\ Sound(A) /\ LinksKept(D, A)
               /\ \A h : FreshHead(D, h) => FreshHead(A, h)
               /\ writes /\ ~A.fault => /\ FreshHead(A, D.hint) /\ D.hint \in Clusters
                                        /\ A.hint = D.hint + 1
<1> DEFINE A == Allocated(D)
<1>1. /\ A \in DeviceType /\ A.disk = D.disk
      /\ IF writes /\ D.hint \in Clusters
         THEN A.fat = [D.fat EXCEPT ![D.hint] = End] /\ A.hint = D.hint + 1
         ELSE A.fat = D.fat /\ A.hint = D.hint
      /\ IF D.hint \in Clusters THEN A.fault = D.fault ELSE A.fault
  BY AllocatedIs DEF Sound
<1> HIDE DEF A
<1>2. /\ D \in DeviceType /\ D.hint \in Nat /\ D.hint > Root
      /\ D.fat \in [Clusters -> 0 .. End]
  BY Sizes DEF Sound, DeviceType
<1>3. CASE A.fat = D.fat /\ A.hint = D.hint
  <2>1. \A h : HeadOf(A, h) <=> HeadOf(D, h)
    BY <1>3 DEF HeadOf
  <2>2. EntriesOf(A) = EntriesOf(D)
    BY <1>1 DEF EntriesOf
  <2>3. A.hint > Root /\ AboveHintFree(A) /\ LinksAscend(A) /\ LinksApart(A) /\ EntriesApart(A)
    BY <1>1, <1>3, <2>1, <2>2 DEF Sound, AboveHintFree, LinksAscend, LinksApart, EntriesApart
  <2>4. \A h : FreshHead(D, h) => FreshHead(A, h)
    BY <1>1, <2>1, <2>2 DEF FreshHead
  <2>5. CASE ~ (writes /\ D.hint \in Clusters)
    <3>1. ~ (writes /\ ~A.fault)
      BY <1>1, <2>5
    <3> QED BY <1>1, <1>2, <1>3, <2>3, <2>4, <3>1, LinksSame DEF Sound, A
  <2>6. CASE writes /\ D.hint \in Clusters
    <3>1. A.hint # D.hint
      BY <1>1, <1>2, <2>6
    <3> QED BY <1>3, <3>1
  <2> QED BY <2>5, <2>6
<1>4. CASE /\ writes /\ D.hint \in Clusters
           /\ A.fat = [D.fat EXCEPT ![D.hint] = End] /\ A.hint = D.hint + 1
  <2>1. /\ A.fat[D.hint] = End
        /\ \A c \in Clusters : c # D.hint => A.fat[c] = D.fat[c]
    BY <1>2, <1>4
  <2>2. \A c \in Clusters : A.fat[c] \in Clusters => c # D.hint /\ A.fat[c] = D.fat[c]
    BY <2>1, Sizes
  <2>3. AboveHintFree(A)
    <3>1. \A c \in D.hint + 1 .. LastCluster : c \in Clusters /\ c # D.hint /\ D.fat[c] = Free
      BY <1>2, Sizes DEF Sound, AboveHintFree
    <3> QED BY <1>4, <2>1, <3>1 DEF AboveHintFree
  <2>4. LinksAscend(A)
    <3> SUFFICES ASSUME NEW c \in Clusters, A.fat[c] \in Clusters
                 PROVE  c < A.fat[c] /\ A.fat[c] < D.hint + 1
      BY <1>4 DEF LinksAscend
    <3>1. c < D.fat[c] /\ D.fat[c] < D.hint /\ A.fat[c] = D.fat[c]
      BY <2>2 DEF Sound, LinksAscend
    <3> QED BY <1>2, <3>1, Sizes
  <2>5. LinksApart(A)
    BY <2>2 DEF Sound, LinksApart
  <2>6. \A h : HeadOf(D, h) => HeadOf(A, h)
    <3> SUFFICES ASSUME NEW h, HeadOf(D, h)
                 PROVE  HeadOf(A, h)
      OBVIOUS
    <3>1. h \in Root + 1 .. D.hint - 1 /\ h \in Clusters
      BY <1>2, <1>4, Sizes DEF HeadOf
    <3>2. h \in Root + 1 .. A.hint - 1
      BY <1>2, <1>4, <3>1, Sizes
    <3>3. \A c \in Clusters : A.fat[c] # h
      BY <2>2, <3>1 DEF HeadOf
    <3> QED BY <3>2, <3>3 DEF HeadOf
  <2>7. EntriesOf(A) = EntriesOf(D)
    BY <1>1 DEF EntriesOf
  <2>8. EntriesApart(A) /\ \A h : FreshHead(D, h) => FreshHead(A, h)
    BY <1>1, <2>6, <2>7 DEF Sound, EntriesApart, FreshHead
  <2>9. FreshHead(A, D.hint)
    <3>1. D.hint \in Root + 1 .. A.hint - 1
      BY <1>2, <1>4, Sizes
    <3>2. \A c \in Clusters : A.fat[c] # D.hint
      <4> SUFFICES ASSUME NEW c \in Clusters, A.fat[c] = D.hint
                   PROVE  FALSE
        OBVIOUS
      <4>1. D.fat[c] = D.hint /\ D.fat[c] < D.hint
        BY <1>4, <2>2 DEF Sound, LinksAscend
      <4> QED BY <1>2, <4>1
    <3>3. \A x \in EntriesOf(A) : A.disk[x].first # D.hint
      <4> SUFFICES ASSUME NEW x \in EntriesOf(D), D.disk[x].first = D.hint
                   PROVE  FALSE
        BY <1>1, <2>7
      <4>1. D.hint \in Root + 1 .. D.hint - 1
        BY DEF Sound, EntriesApart, HeadOf
      <4> QED BY <1>2, <4>1
    <3> QED BY <3>1, <3>2, <3>3 DEF FreshHead, HeadOf
  <2>10. A.hint > Root /\ LinksKept(D, A)
    <3>1. A.hint > Root /\ A.hint >= D.hint /\ End >= D.hint
      BY <1>2, <1>4, Sizes
    <3>2. D.fat[D.hint] \notin Clusters
      BY <1>2, <1>4, Sizes DEF Sound, AboveHintFree
    <3> QED BY <2>1, <3>1, <3>2 DEF LinksKept
  <2> QED BY <1>1, <1>4, <2>3, <2>4, <2>5, <2>8, <2>9, <2>10 DEF Sound, A
<1> QED BY <1>1, <1>3, <1>4

(* A chain is extended at its end. *)
LEMMA ExtendedSound ==
    ASSUME NEW D, Sound(D), NEW c,
           writes => c \in Root .. D.hint - 1 /\ D.fat[c] \notin Clusters
    PROVE  LET E == Extended(D, c)
           IN  /\ Sound(E) /\ LinksKept(D, E)
               /\ \A h : FreshHead(D, h) => FreshHead(E, h)
               /\ writes /\ ~E.fault => D.hint \in Root .. E.hint - 1
<1> DEFINE A == Allocated(D)
           E == Extended(D, c)
<1>1. D \in DeviceType /\ (writes => c \in Clusters)
  BY Sizes DEF Sound, DeviceType
<1>2. /\ E \in DeviceType /\ E.disk = D.disk /\ E.hint = A.hint /\ E.fault = A.fault
      /\ E.fat = IF writes /\ ~A.fault THEN [A.fat EXCEPT ![c] = D.hint] ELSE A.fat
  BY <1>1, ExtendedIs
<1>3. /\ Sound(A) /\ A.hint >= D.hint /\ LinksKept(D, A)
      /\ \A h : FreshHead(D, h) => FreshHead(A, h)
      /\ writes /\ ~A.fault => /\ FreshHead(A, D.hint) /\ D.hint \in Clusters
                               /\ A.hint = D.hint + 1
  BY AllocatedSound DEF LinksKept
<1>4. A \in DeviceType /\ A.disk = D.disk
  BY <1>1, AllocatedIs
<1> HIDE DEF A, E
<1>5. EntriesOf(E) = EntriesOf(A) /\ E.disk = A.disk
  BY <1>2, <1>4 DEF EntriesOf
<1>6. D.hint \in Nat /\ D.hint > Root /\ A.hint \in Nat
  BY <1>3, <1>4, Sizes DEF Sound, DeviceType
<1>7. CASE E.fat = A.fat /\ ~ (writes /\ ~A.fault)
  <2>1. \A h : HeadOf(E, h) <=> HeadOf(A, h)
    BY <1>2, <1>7 DEF HeadOf
  <2>2. Sound(E)
    BY <1>2, <1>3, <1>5, <1>7, <2>1
       DEF Sound, AboveHintFree, LinksAscend, LinksApart, EntriesApart
  <2>3. \A h : FreshHead(D, h) => FreshHead(E, h)
    BY <1>3, <1>5, <2>1 DEF FreshHead
  <2>4. LinksKept(D, E)
    BY <1>2, <1>3, <1>7 DEF LinksKept
  <2> QED BY <1>2, <1>3, <1>7, <2>2, <2>3, <2>4 DEF E
<1>8. CASE writes /\ ~A.fault /\ E.fat = [A.fat EXCEPT ![c] = D.hint]
  <2>1. /\ c \in Root .. D.hint - 1 /\ c \in Clusters /\ D.hint \in Clusters
        /\ FreshHead(A, D.hint) /\ A.hint = D.hint + 1
    BY <1>1, <1>3, <1>8
  <2>2. /\ E.fat[c] = D.hint
        /\ \A d \in Clusters : d # c => E.fat[d] = A.fat[d]
    BY <1>4, <1>8, <2>1 DEF DeviceType
  <2>3. AboveHintFree(E)
    <3>1. \A d \in A.hint .. LastCluster : d \in Clusters /\ d # c /\ A.fat[d] = Free
      BY <1>3, <1>6, <2>1, Sizes DEF Sound, AboveHintFree
    <3> QED BY <1>2, <2>2, <3>1 DEF AboveHintFree
  <2>4. LinksAscend(E)
    <3> SUFFICES ASSUME NEW d \in Clusters, E.fat[d] \in Clusters
                 PROVE  d < E.fat[d] /\ E.fat[d] < A.hint
      BY <1>2 DEF LinksAscend
    <3>1. CASE d = c
      <4>1. E.fat[d] = D.hint /\ d < D.hint
        <5>1. c < D.hint
          BY <1>6, <2>1 DEF Root
        <5> QED BY <2>2, <3>1, <5>1
      <4> QED BY <1>6, <2>1, <4>1
    <3>2. CASE d # c
      BY <1>3, <2>2, <3>2 DEF Sound, LinksAscend
    <3> QED BY <3>1, <3>2
  <2>5. LinksApart(E)
    BY <1>3, <2>1, <2>2 DEF Sound, LinksApart, FreshHead, HeadOf
  <2>6. \A h : HeadOf(A, h) /\ h # D.hint => HeadOf(E, h)
    BY <1>2, <2>2 DEF HeadOf
  <2>7. \A x \in EntriesOf(A) : A.disk[x].first # D.hint
    BY <2>1 DEF FreshHead
  <2>8. EntriesApart(E)
    BY <1>3, <1>5, <2>6, <2>7 DEF Sound, EntriesApart
  <2>9. ASSUME NEW h, FreshHead(D, h)
        PROVE  FreshHead(E, h)
    <3>1. h \in Root + 1 .. D.hint - 1
      BY <2>9 DEF FreshHead, HeadOf
    <3>2. h # D.hint
      BY <1>6, <3>1, Sizes
    <3> QED BY <1>3, <1>5, <2>6, <2>9, <3>2 DEF FreshHead
  <2>10. Sound(E)
    BY <1>2, <1>3, <2>3, <2>4, <2>5, <2>8 DEF Sound
  <2>11. D.hint \in Root .. E.hint - 1
    BY <1>2, <1>6, <2>1, Sizes
  <2>12. LinksKept(D, E)
    <3>1. D.fat[c] \notin Clusters /\ E.fat[c] >= D.hint
      BY <1>6, <1>8, <2>2
    <3> QED BY <1>2, <1>3, <2>2, <3>1 DEF LinksKept
  <2> QED BY <1>2, <1>3, <2>9, <2>10, <2>11, <2>12 DEF E
<1> QED BY <1>2, <1>7, <1>8
-----------------------------------------------------------------------------
(* Chains.                                                                 *)

\* f[n] is what is known of a chain after n steps.
FollowsChain(f, D, c) ==
    f = [n \in 0 .. LastCluster |->
            IF n = 0 THEN IF c \in Clusters THEN <<c>> ELSE <<>>
            ELSE With(f[n - 1], LAMBDA s : Longer(D, s))]

(* What Chain collects follows the links of the FAT. *)
LEMMA ChainSteps ==
    ASSUME NEW D, NEW c
    PROVE  \E f : /\ f[0] = IF c \in Clusters THEN <<c>> ELSE <<>>
                  /\ \A n \in 1 .. LastCluster : f[n] = Longer(D, f[n - 1])
                  /\ Chain(D, c) = f[LastCluster]
<1> DEFINE first == IF c \in Clusters THEN <<c>> ELSE <<>>
           Steps(f, m) == /\ DOMAIN f = 0 .. m /\ f = [n \in 0 .. m |-> f[n]] /\ f[0] = first
                          /\ \A n \in 1 .. m : f[n] = Longer(D, f[n - 1])
           I == {m \in Nat : \E f : Steps(f, m)}
<1>1. 0 \in I
  <2>1. Steps([n \in 0 .. 0 |-> first], 0)
    OBVIOUS
  <2> QED BY <2>1
<1>2. ASSUME NEW m \in I
      PROVE  m + 1 \in I
  <2>1. PICK f : Steps(f, m)
    OBVIOUS
  <2>2. m \in Nat
    OBVIOUS
  <2> DEFINE g == [n \in 0 .. m + 1 |-> IF n <= m THEN f[n] ELSE Longer(D, f[m])]
  <2>3. Steps(g, m + 1)
    <3>1. DOMAIN g = 0 .. m + 1 /\ g = [n \in 0 .. m + 1 |-> g[n]]
      OBVIOUS
    <3>2. g[0] = first
      BY <2>1, <2>2
    <3>3. ASSUME NEW n \in 1 .. m + 1
          PROVE  g[n] = Longer(D, g[n - 1])
      <4>1. n - 1 \in 0 .. m /\ g[n - 1] = f[n - 1]
        BY <2>2
      <4>2. CASE n <= m
        <5>1. n \in 1 .. m /\ g[n] = f[n]
          BY <2>2, <4>2
        <5> QED BY <2>1, <4>1, <5>1
      <4>3. CASE n = m + 1
        <5>1. n - 1 = m /\ g[n] = Longer(D, f[m])
          BY <2>2, <4>3
        <5> QED BY <4>1, <5>1
      <4> QED BY <2>2, <4>2, <4>3
    <3> HIDE DEF g
    <3> QED BY <3>1, <3>2, <3>3
  <2> HIDE DEF g, Steps
  <2> QED BY <2>2, <2>3
<1>3. I = Nat
  <2> HIDE DEF I
  <2> QED BY <1>1, <1>2, AllNumbers DEF I
<1>4. PICK f : Steps(f, LastCluster)
  BY <1>3, Sizes
<1>5. \A s : With(s, LAMBDA t : Longer(D, t)) = Longer(D, s)
  BY DEF With
<1>6. FollowsChain(f, D, c)
  <2>1. f = [n \in 0 .. LastCluster |-> f[n]]
    BY <1>4
  <2>2. \A n \in 0 .. LastCluster : f[n] = IF n = 0 THEN first ELSE Longer(D, f[n - 1])
    <3> SUFFICES ASSUME NEW n \in 0 .. LastCluster
                 PROVE  f[n] = IF n = 0 THEN first ELSE Longer(D, f[n - 1])
      OBVIOUS
    <3>1. n # 0 => n \in 1 .. LastCluster
      BY Sizes
    <3> HIDE DEF first
    <3> QED BY <1>4, <3>1
  <2>3. \A n \in 0 .. LastCluster :
           f[n] = IF n = 0 THEN first ELSE With(f[n - 1], LAMBDA s : Longer(D, s))
    BY <2>2 DEF With
  <2> QED BY <2>1, <2>3 DEF FollowsChain, With
<1>7. \E h : FollowsChain(h, D, c) /\ Chain(D, c) = h[LastCluster]
  <2>1. Chain(D, c) = (CHOOSE h : FollowsChain(h, D, c))[LastCluster]
    BY DEF Chain, FollowsChain, With
  <2>2. FollowsChain(CHOOSE h : FollowsChain(h, D, c), D, c)
    BY <1>6
  <2> QED BY <2>1, <2>2
<1>8. PICK h : FollowsChain(h, D, c) /\ Chain(D, c) = h[LastCluster]
  BY <1>7
<1>9. h[0] = first /\ \A n \in 1 .. LastCluster : h[n] = Longer(D, h[n - 1])
  BY <1>8, Sizes DEF FollowsChain, With
<1> QED BY <1>8, <1>9

\* s begins at c and follows the links of the FAT.
FollowsLinks(D, c, s) ==
    /\ s \in Seq(Clusters) /\ Len(s) >= 1 /\ s[1] = c
    /\ \A k \in 1 .. Len(s) - 1 : s[k + 1] = D.fat[s[k]]

(* The clusters of a chain ascend, and all were taken. *)
LEMMA LinksClimb ==
    ASSUME NEW D, Sound(D), NEW c \in Root .. D.hint - 1, NEW s, FollowsLinks(D, c, s)
    PROVE  /\ \A k \in 1 .. Len(s) : s[k] \in Root .. D.hint - 1 /\ s[k] >= c + (k - 1)
           /\ \A i, j \in 1 .. Len(s) : i < j => s[i] < s[j]
<1>0. D.hint \in Nat
  BY Sizes DEF Sound, DeviceType
<1>1. /\ s \in Seq(Clusters) /\ Len(s) \in Nat /\ s[1] = c /\ c \in Nat /\ c >= Root
      /\ \A k \in 1 .. Len(s) - 1 : s[k + 1] = D.fat[s[k]]
      /\ \A k \in 1 .. Len(s) : s[k] \in Clusters /\ s[k] \in Nat
  <2>1. c \in Nat /\ c >= Root
    BY <1>0, Sizes
  <2>2. /\ s \in Seq(Clusters) /\ Len(s) \in Nat /\ s[1] = c
        /\ \A k \in 1 .. Len(s) - 1 : s[k + 1] = D.fat[s[k]]
    BY DEF FollowsLinks
  <2>3. \A k \in 1 .. Len(s) : s[k] \in Clusters
    BY <2>2
  <2> QED BY <2>1, <2>2, <2>3, Sizes
<1>2. D.hint \in Nat /\ c < D.hint
  BY <1>0, Sizes
<1>3. \A k \in 1 .. Len(s) - 1 : s[k] < s[k + 1] /\ s[k + 1] < D.hint
  <2> SUFFICES ASSUME NEW k \in 1 .. Len(s) - 1
               PROVE  s[k] < s[k + 1] /\ s[k + 1] < D.hint
    OBVIOUS
  <2>1. k + 1 \in 1 .. Len(s) /\ k \in 1 .. Len(s)
    BY <1>1
  <2> QED BY <1>1, <2>1 DEF Sound, LinksAscend
<1> DEFINE I == {n \in Nat : n + 1 <= Len(s) =>
                    /\ s[n + 1] < D.hint /\ s[n + 1] >= c + n
                    /\ \A i \in 1 .. n : s[i] < s[n + 1]}
<1>4. 0 \in I
  BY <1>1, <1>2
<1>5. ASSUME NEW n \in I
      PROVE  n + 1 \in I
  <2> SUFFICES ASSUME n + 2 <= Len(s)
               PROVE  /\ s[n + 2] < D.hint /\ s[n + 2] >= c + n + 1
                      /\ \A i \in 1 .. n + 1 : s[i] < s[n + 2]
    <3>1. n \in Nat /\ (n + 1) + 1 = n + 2 /\ c + (n + 1) = c + n + 1
      BY <1>1
    <3> QED BY <3>1
  <2>1. n \in Nat /\ n + 1 \in 1 .. Len(s) - 1 /\ (n + 1) + 1 = n + 2 /\ n + 2 \in 1 .. Len(s)
    BY <1>1
  <2>2. s[n + 1] < s[n + 2] /\ s[n + 2] < D.hint
    BY <1>3, <2>1
  <2>3. s[n + 1] \in Nat /\ s[n + 2] \in Nat /\ \A i \in 1 .. n : s[i] \in Nat
    BY <1>1, <2>1
  <2>4. s[n + 1] >= c + n /\ \A i \in 1 .. n : s[i] < s[n + 1]
    BY <1>1, <2>1
  <2>5. \A i \in 1 .. n + 1 : s[i] < s[n + 2]
    <3> SUFFICES ASSUME NEW i \in 1 .. n + 1
                 PROVE  s[i] < s[n + 2]
      OBVIOUS
    <3>1. i = n + 1 \/ i \in 1 .. n
      BY <2>1
    <3> QED BY <2>2, <2>3, <2>4, <3>1
  <2> QED BY <1>1, <2>1, <2>2, <2>3, <2>4, <2>5
<1>6. I = Nat
  <2> HIDE DEF I
  <2> QED BY <1>4, <1>5, AllNumbers DEF I
<1>7. \A k \in 1 .. Len(s) : /\ s[k] < D.hint /\ s[k] >= c + (k - 1)
                             /\ \A i \in 1 .. k - 1 : s[i] < s[k]
  <2> SUFFICES ASSUME NEW k \in 1 .. Len(s)
               PROVE  /\ s[k] < D.hint /\ s[k] >= c + (k - 1)
                      /\ \A i \in 1 .. k - 1 : s[i] < s[k]
    OBVIOUS
  <2>1. k - 1 \in Nat /\ (k - 1) + 1 = k
    BY <1>1
  <2>2. k - 1 \in I
    <3> HIDE DEF I
    <3> QED BY <1>6, <2>1
  <2> QED BY <1>1, <2>1, <2>2
<1>8. \A k \in 1 .. Len(s) : s[k] \in Root .. D.hint - 1 /\ s[k] >= c + (k - 1)
  <2> SUFFICES ASSUME NEW k \in 1 .. Len(s)
               PROVE  s[k] \in Root .. D.hint - 1 /\ s[k] >= c + (k - 1)
    OBVIOUS
  <2>1. s[k] < D.hint /\ s[k] >= c + (k - 1)
    BY <1>7
  <2>2. s[k] \in Nat /\ k - 1 \in Nat /\ c \in Nat /\ c >= Root
    BY <1>1
  <2> HIDE DEF I
  <2>3. s[k] >= Root
    BY <2>1, <2>2 DEF Root
  <2> QED BY <1>2, <2>1, <2>2, <2>3 DEF Root
<1>9. ASSUME NEW i \in 1 .. Len(s), NEW j \in 1 .. Len(s), i < j
      PROVE  s[i] < s[j]
  <2>1. i \in 1 .. j - 1
    BY <1>9
  <2> QED BY <1>7, <2>1
<1> QED BY <1>8, <1>9

(* Chain gives all of a chain: it goes on up to a cluster without a next.  *)
LEMMA ChainIs ==
    ASSUME NEW D, Sound(D), NEW c \in Root .. D.hint - 1
    PROVE  FollowsLinks(D, c, Chain(D, c)) /\ D.fat[Last(Chain(D, c))] \notin Clusters
<1>1. PICK f : /\ f[0] = IF c \in Clusters THEN <<c>> ELSE <<>>
               /\ \A n \in 1 .. LastCluster : f[n] = Longer(D, f[n - 1])
               /\ Chain(D, c) = f[LastCluster]
  BY ChainSteps
<1>2. D.hint \in Nat /\ D.hint <= End /\ c \in Clusters /\ c \in Nat /\ c >= Root
  BY Sizes DEF Sound, DeviceType
<1> DEFINE Reached(n) == /\ FollowsLinks(D, c, f[n])
                         /\ Len(f[n]) = n + 1 \/ D.fat[f[n][Len(f[n])]] \notin Clusters
           I == {n \in Nat : n <= LastCluster => Reached(n)}
<1>3. f[0] = <<c>> /\ \A n \in 0 .. LastCluster : n # 0 => f[n] = Longer(D, f[n - 1])
  BY <1>1, <1>2, Sizes
<1>4. 0 \in I
  <2>1. <<c>> \in Seq(Clusters) /\ Len(<<c>>) = 1 /\ <<c>>[1] = c
    BY <1>2
  <2>2. FollowsLinks(D, c, <<c>>)
    BY <2>1 DEF FollowsLinks
  <2> QED BY <1>3, <2>1, <2>2
<1>5. ASSUME NEW n \in I
      PROVE  n + 1 \in I
  <2> SUFFICES ASSUME n + 1 <= LastCluster
               PROVE  Reached(n + 1)
    OBVIOUS
  <2> DEFINE s == f[n]
             t == f[n + 1]
  <2>1. n \in Nat /\ n + 1 \in 0 .. LastCluster /\ (n + 1) - 1 = n /\ n <= LastCluster
    BY Sizes
  <2>2. t = Longer(D, s)
    BY <1>3, <2>1
  <2>3. FollowsLinks(D, c, s) /\ (Len(s) = n + 1 \/ D.fat[s[Len(s)]] \notin Clusters)
    BY <2>1
  <2> HIDE DEF s, t
  <2>4. /\ s \in Seq(Clusters) /\ Len(s) \in Nat /\ Len(s) >= 1 /\ s[1] = c /\ s # <<>>
        /\ \A k \in 1 .. Len(s) - 1 : s[k + 1] = D.fat[s[k]]
    BY <2>3 DEF FollowsLinks
  <2>5. CASE D.fat[s[Len(s)]] \notin Clusters
    <3>1. t = s
      BY <2>2, <2>5 DEF Longer, Last
    <3> QED BY <2>3, <2>5, <3>1 DEF s, t
  <2>6. CASE D.fat[s[Len(s)]] \in Clusters
    <3> DEFINE next == D.fat[s[Len(s)]]
    <3>1. t = Append(s, next)
      BY <2>2, <2>4, <2>6 DEF Longer, Last
    <3>2. /\ t \in Seq(Clusters) /\ Len(t) = Len(s) + 1 /\ t[Len(s) + 1] = next
          /\ \A k \in 1 .. Len(s) : t[k] = s[k]
      BY <2>4, <2>6, <3>1
    <3> HIDE DEF next
    <3>3. t[1] = c
      BY <2>4, <3>2
    <3>4. ASSUME NEW k \in 1 .. Len(t) - 1
          PROVE  t[k + 1] = D.fat[t[k]]
      <4>1. k = Len(s) \/ k \in 1 .. Len(s) - 1
        BY <2>4, <3>2
      <4>2. CASE k = Len(s)
        BY <2>4, <3>2, <4>2 DEF next
      <4>3. CASE k \in 1 .. Len(s) - 1
        <5>1. k \in 1 .. Len(s) /\ k + 1 \in 1 .. Len(s)
          BY <2>4, <4>3
        <5> QED BY <2>4, <3>2, <4>3, <5>1
      <4> QED BY <4>1, <4>2, <4>3
    <3>5. FollowsLinks(D, c, t)
      BY <2>4, <3>2, <3>3, <3>4 DEF FollowsLinks
    <3>6. Len(t) = (n + 1) + 1
      BY <2>3, <2>6, <3>2
    <3> QED BY <3>5, <3>6 DEF t
  <2> QED BY <2>5, <2>6
<1>6. I = Nat
  <2> HIDE DEF I
  <2> QED BY <1>4, <1>5, AllNumbers DEF I
<1> DEFINE s == Chain(D, c)
<1>7. FollowsLinks(D, c, s) /\ (Len(s) = LastCluster + 1 \/ D.fat[s[Len(s)]] \notin Clusters)
  <2>1. LastCluster \in I
    <3> HIDE DEF I
    <3> QED BY <1>6, Sizes
  <2> QED BY <1>1, <2>1, Sizes
<1> HIDE DEF s, Reached
<1>8. Len(s) # LastCluster + 1
  <2> SUFFICES ASSUME Len(s) = LastCluster + 1
               PROVE  FALSE
    OBVIOUS
  <2>1. Len(s) \in 1 .. Len(s)
    BY Sizes
  <2>2. s[Len(s)] \in Root .. D.hint - 1 /\ s[Len(s)] >= c + (Len(s) - 1)
    BY <1>7, <2>1, LinksClimb
  <2> QED BY <1>2, <2>2, Sizes
<1> QED BY <1>7, <1>8 DEF s, Last

(* Two chains that meet begin at one cluster, when none leads to either.   *)
LEMMA ChainsMeet ==
    ASSUME NEW D, Sound(D), NEW c, NEW d, NEW s, NEW t,
           FollowsLinks(D, c, s), FollowsLinks(D, d, t),
           \A x \in Clusters : D.fat[x] # c /\ D.fat[x] # d,
           NEW i \in 1 .. Len(s), NEW j \in 1 .. Len(t), s[i] = t[j]
    PROVE  c = d
<1>1. /\ s \in Seq(Clusters) /\ Len(s) \in Nat /\ s[1] = c
      /\ \A k \in 1 .. Len(s) - 1 : s[k + 1] = D.fat[s[k]]
      /\ t \in Seq(Clusters) /\ Len(t) \in Nat /\ t[1] = d
      /\ \A k \in 1 .. Len(t) - 1 : t[k + 1] = D.fat[t[k]]
      /\ \A k \in 1 .. Len(s) : s[k] \in Clusters
      /\ \A k \in 1 .. Len(t) : t[k] \in Clusters
  BY DEF FollowsLinks
<1> DEFINE I == {n \in Nat : \A k \in 1 .. Len(t) : n + 1 <= Len(s) /\ s[n + 1] = t[k] => c = d}
<1>2. 0 \in I
  <2> SUFFICES ASSUME NEW k \in 1 .. Len(t), c = t[k]
               PROVE  c = d
    BY <1>1
  <2>1. CASE k = 1
    BY <1>1, <2>1
  <2>2. CASE k # 1
    <3>1. k - 1 \in 1 .. Len(t) - 1 /\ k - 1 \in 1 .. Len(t) /\ (k - 1) + 1 = k
      BY <1>1, <2>2
    <3>2. c = D.fat[t[k - 1]]
      BY <1>1, <3>1
    <3> QED BY <1>1, <3>1, <3>2
  <2> QED BY <2>1, <2>2
<1>3. ASSUME NEW n \in I
      PROVE  n + 1 \in I
  <2>0. n \in Nat
    OBVIOUS
  <2> SUFFICES ASSUME NEW k \in 1 .. Len(t), n + 2 <= Len(s), s[n + 2] = t[k]
               PROVE  c = d
    <3>1. (n + 1) + 1 = n + 2
      OBVIOUS
    <3> QED BY <3>1
  <2>1. n + 1 \in 1 .. Len(s) - 1 /\ (n + 1) + 1 = n + 2 /\ n + 1 \in 1 .. Len(s) /\ n + 2 \in 1 .. Len(s)
    <3> HIDE DEF I
    <3> QED BY <1>1, <2>0
  <2>2. s[n + 2] = D.fat[s[n + 1]] /\ s[n + 2] \in Clusters /\ s[n + 1] \in Clusters
    BY <1>1, <2>1
  <2>3. CASE k = 1
    BY <1>1, <2>2, <2>3
  <2>4. CASE k # 1
    <3>1. k - 1 \in 1 .. Len(t) - 1 /\ k - 1 \in 1 .. Len(t) /\ (k - 1) + 1 = k
      BY <1>1, <2>4
    <3>2. t[k] = D.fat[t[k - 1]] /\ t[k - 1] \in Clusters
      BY <1>1, <3>1
    <3>3. s[n + 1] = t[k - 1]
      BY <2>2, <3>2 DEF Sound, LinksApart
    <3> QED BY <2>1, <3>1, <3>3
  <2> QED BY <2>3, <2>4
<1>4. I = Nat
  <2> HIDE DEF I
  <2> QED BY <1>2, <1>3, AllNumbers DEF I
<1>5. i - 1 \in I /\ (i - 1) + 1 = i
  <2> HIDE DEF I
  <2> QED BY <1>1, <1>4
<1> QED BY <1>1, <1>5
-----------------------------------------------------------------------------
(* Directories and paths.                                                  *)

(* A cluster's slots lie in the data area, and tell the cluster. *)
LEMMA SlotsOfCluster ==
    ASSUME NEW c \in Clusters, NEW r \in 0 .. K - 1
    PROVE  /\ SlotOf(c) \in Nat /\ SlotOf(c) + r + 1 \in 1 .. Slots
           /\ (SlotOf(c) + r) \div K + 2 = c
<1> DEFINE q == c - 2
           s == q * K
<1>1. K \in Nat \ {0} /\ c \in Nat /\ q \in Nat /\ q + 1 <= LastCluster - 1 /\ LastCluster - 1 \in Nat
  BY Sizes
<1>2. s \in Nat
  BY <1>1, ProductNat
<1>3. s + K <= Slots
  <2> HIDE DEF q, s
  <2>1. (q + 1) * K <= (LastCluster - 1) * K
    BY <1>1, ProductGrows
  <2>2. (q + 1) * K = q * K + K
    BY <1>1
  <2>3. (LastCluster - 1) * K = Slots
    BY <1>1, Sizes
  <2>4. q * K + K <= Slots
    BY <2>1, <2>2, <2>3
  <2> QED BY <2>4 DEF s
<1>4. (s + r) \div K = q
  BY <1>1, Quotient
<1>5. SlotOf(c) = s
  BY DEF SlotOf
<1> HIDE DEF s
<1>6. s + r + 1 \in 1 .. Slots
  BY <1>1, <1>2, <1>3, Sizes
<1>7. q + 2 = c
  BY <1>1
<1> QED BY <1>2, <1>4, <1>5, <1>6, <1>7

(* A place of a chain is a slot, or lies beyond the data area. *)
LEMMA PlaceInIs ==
    ASSUME NEW s \in Seq(Clusters), NEW i \in 1 .. K * Len(s)
    PROVE  LET k == (i - 1) \div K + 1
           IN  /\ k \in 1 .. Len(s) /\ PlaceIn(s, i) \in 1 .. Slots
               /\ (PlaceIn(s, i) - 1) \div K + 2 = s[k]
<1> DEFINE q == (i - 1) \div K
           r == (i - 1) % K
           k == q + 1
<1>1. K \in Nat \ {0} /\ Len(s) \in Nat /\ K * Len(s) \in Nat
  BY Sizes, ProductNat
<1>2. i - 1 \in Nat /\ i - 1 < K * Len(s)
  BY <1>1
<1>3. q \in Int /\ r \in 0 .. K - 1 /\ i - 1 = q * K + r
  <2>1. i - 1 \in Int /\ K \in Nat \ {0}
    BY <1>1, <1>2
  <2> HIDE DEF k
  <2> QED BY ONLY <2>1, DivMod DEF q, r
<1> HIDE DEF q, r
<1>4. q >= 0
  <2> SUFFICES ASSUME q < 0
               PROVE  FALSE
    BY <1>3
  <2>1. 0 - q \in Nat /\ 1 <= 0 - q /\ 1 \in Nat /\ K \in Nat
    BY <1>1, <1>3
  <2>2. 1 * K <= (0 - q) * K
    BY <2>1, ProductGrows
  <2>3. (0 - q) * K = 0 - q * K /\ q * K \in Int
    BY <1>1, <1>3
  <2> QED BY <1>1, <1>2, <1>3, <2>2, <2>3
<1>5. q < Len(s)
  <2> SUFFICES ASSUME Len(s) <= q
               PROVE  FALSE
    BY <1>1, <1>3
  <2>1. Len(s) * K <= q * K
    BY <1>1, <1>3, <1>4, ProductGrows
  <2>2. Len(s) * K = K * Len(s) /\ q * K \in Int
    BY <1>1, <1>3
  <2> QED BY <1>1, <1>2, <1>3, <2>1, <2>2
<1>6. k \in 1 .. Len(s) /\ s[k] \in Clusters
  BY <1>1, <1>3, <1>4, <1>5
<1>7. PlaceIn(s, i) = SlotOf(s[k]) + r + 1
  BY <1>6 DEF PlaceIn, q, r
<1>8. /\ SlotOf(s[k]) \in Nat /\ SlotOf(s[k]) + r + 1 \in 1 .. Slots
      /\ (SlotOf(s[k]) + r) \div K + 2 = s[k]
  BY <1>3, <1>6, SlotsOfCluster
<1>9. (SlotOf(s[k]) + r + 1) - 1 = SlotOf(s[k]) + r
  BY <1>3, <1>8
<1> QED BY <1>6, <1>7, <1>8, <1>9 DEF q

(* What a chain holds. *)
LEMMA StreamIs ==
    ASSUME NEW D, Sound(D), NEW c \in Root .. D.hint - 1
    PROVE  /\ Chain(D, c) \in Seq(Clusters)
           /\ Stream(D, c) = [i \in 1 .. K * Len(Chain(D, c)) |-> D.disk[Place(D, c, i)]]
           /\ DOMAIN Stream(D, c) = 1 .. K * Len(Chain(D, c))
           /\ Len(Stream(D, c)) = K * Len(Chain(D, c)) /\ Len(Stream(D, c)) \in Nat
           /\ \A i \in DOMAIN Stream(D, c) :
                 /\ Place(D, c, i) \in 1 .. Slots /\ Stream(D, c)[i] = D.disk[Place(D, c, i)]
                 /\ \E k \in 1 .. Len(Chain(D, c)) : (Place(D, c, i) - 1) \div K + 2 = Chain(D, c)[k]
<1> DEFINE s == Chain(D, c)
<1>1. s \in Seq(Clusters) /\ Len(s) \in Nat
  BY ChainIs DEF FollowsLinks
<1>2. Stream(D, c) = [i \in 1 .. K * Len(s) |-> D.disk[PlaceIn(s, i)]]
  BY DEF Stream, With
<1> HIDE DEF s
<1>3. Stream(D, c) = [i \in 1 .. K * Len(s) |-> D.disk[Place(D, c, i)]]
  BY <1>2 DEF Place, s
<1>4. K * Len(s) \in Nat
  BY <1>1, Sizes, ProductNat
<1>5. DOMAIN Stream(D, c) = 1 .. K * Len(s)
  BY <1>2
<1>6. Len(Stream(D, c)) = K * Len(s)
  BY <1>4, <1>5
<1>7. \A i \in 1 .. K * Len(s) :
         /\ Place(D, c, i) \in 1 .. Slots /\ Stream(D, c)[i] = D.disk[Place(D, c, i)]
         /\ \E k \in 1 .. Len(s) : (Place(D, c, i) - 1) \div K + 2 = s[k]
  BY <1>1, <1>3, PlaceInIs DEF Place, s
<1> QED BY <1>1, <1>3, <1>4, <1>5, <1>6, <1>7 DEF s

(* FindFileByNameFromCluster gives a short entry of the directory. *)
LEMMA FindNameIs ==
    ASSUME NEW D, Sound(D), NEW c \in Root .. D.hint - 1, NEW name
    PROVE  LET x == FindName(D, c, name)
           IN  x # 0 => x \in 1 .. Slots /\ D.disk[x].kind = "short"
<1> DEFINE stream == Stream(D, c)
           hits == {i \in DOMAIN stream : /\ stream[i].kind = "short" /\ NameOf(stream, i) = name
                                          /\ \A j \in 1 .. i - 1 : stream[j].kind # "zero"}
<1>1. FindName(D, c, name) = IF hits = {} THEN 0 ELSE Place(D, c, Min(hits))
  BY DEF FindName, With
<1>2. hits \subseteq Nat /\ hits \subseteq DOMAIN stream
  BY StreamIs
<1>3. hits # {} => Min(hits) \in hits
  <2> HIDE DEF hits
  <2> QED BY <1>2, LeastNumber
<1>4. \A i \in hits : Place(D, c, i) \in 1 .. Slots /\ D.disk[Place(D, c, i)].kind = "short"
  BY StreamIs
<1> HIDE DEF hits
<1> QED BY <1>1, <1>3, <1>4

\* The nodes that a lookup may give.
RootNodes == {RootNode}
NodesBelow(D) == {None} \union {NodeAt(D, x) : x \in {y \in 1 .. Slots : D.disk[y].kind = "short"}}

(* What a lookup gives is the root or the node of a short entry. *)
LEMMA NodesBelowIs ==
    ASSUME NEW D, Sound(D), NEW n \in RootNodes \union NodesBelow(D), n # None
    PROVE  /\ n \in Node /\ n.first \in Root .. D.hint - 1
           /\ n \in NodesBelow(D) =>
                 n.at \in 1 .. Slots /\ D.disk[n.at].kind = "short" /\ n.first = D.disk[n.at].first
<1>1. D.hint \in Nat /\ D.hint > Root /\ D.disk \in [1 .. Slots -> Slot]
  BY Sizes DEF Sound, DeviceType
<1>2. ASSUME NEW x \in 1 .. Slots, D.disk[x].kind = "short"
      PROVE  /\ NodeAt(D, x) \in Node /\ NodeAt(D, x).first \in Root .. D.hint - 1
             /\ NodeAt(D, x).at = x /\ NodeAt(D, x).first = D.disk[x].first
  <2>1. D.disk[x] \in [kind : {"short", "deleted"}, name : Name, first : Clusters,
                       dir : BOOLEAN, size : Nat]
    <3>1. D.disk[x] \in Slot
      BY <1>1
    <3> QED BY <1>2, <3>1 DEF Slot, ZeroSlot
  <2>2. D.disk[x].first \in Root + 1 .. D.hint - 1
    BY <1>2 DEF Sound, EntriesApart, EntriesOf, IsEntry, HeadOf
  <2>3. NodeAt(D, x) = [first |-> D.disk[x].first, dir |-> D.disk[x].dir, size |-> D.disk[x].size, at |-> x]
    BY DEF NodeAt
  <2>4. x \in 0 .. Slots
    BY Sizes
  <2>5. NodeAt(D, x) \in Node
    BY <2>1, <2>3, <2>4 DEF Node
  <2> QED BY <1>1, <2>2, <2>3, <2>5, Sizes
<1>3. /\ RootNode \in Node /\ RootNode.first \in Root .. D.hint - 1 /\ RootNode.at = 0
      /\ RootNode.at \notin 1 .. Slots
  <2>1. Root \in Clusters /\ 0 \in 0 .. Slots /\ Root \in Root .. D.hint - 1 /\ 0 \notin 1 .. Slots
    BY <1>1, Sizes
  <2> QED BY <2>1 DEF RootNode, Node
<1>4. CASE n \in NodesBelow(D)
  BY <1>2, <1>4 DEF NodesBelow
<1>5. CASE n \notin NodesBelow(D)
  BY <1>3, <1>5 DEF RootNodes
<1> QED BY <1>4, <1>5

(* The node of a name in a directory. *)
LEMMA BelowIs ==
    ASSUME NEW D, Sound(D), NEW up \in RootNodes \union NodesBelow(D), NEW name
    PROVE  Below(D, up, name) \in NodesBelow(D)
<1>1. CASE up = None \/ ~up.dir
  BY <1>1 DEF Below, NodesBelow
<1>2. CASE up # None /\ up.dir
  <2> DEFINE x == FindName(D, up.first, name)
  <2>1. Below(D, up, name) = IF x = 0 THEN None ELSE NodeAt(D, x)
    BY <1>2 DEF Below, With
  <2>2. x # 0 => x \in 1 .. Slots /\ D.disk[x].kind = "short"
    BY <1>2, FindNameIs, NodesBelowIs
  <2> HIDE DEF x
  <2> QED BY <2>1, <2>2 DEF NodesBelow
<1> QED BY <1>1, <1>2

\* at[i] is the node of the first i names of a path.
FollowsPath(at, D, path) ==
    at = [i \in 0 .. Len(path) |->
             IF i = 0 THEN RootNode
             ELSE With(at[i - 1], LAMBDA up : Below(D, up, path[i]))]

\* at[i] is what FindFileByPath holds after i names.
PathSteps(D, path, at) ==
    /\ at[0] = RootNode /\ FindPath(D, path) = at[Len(path)]
    /\ \A i \in 1 .. Len(path) : at[i] = Below(D, at[i - 1], path[i])
    /\ \A i \in 0 .. Len(path) : at[i] \in IF i = 0 THEN RootNodes ELSE NodesBelow(D)

(* FindFileByPath goes down name by name. *)
LEMMA FindPathLoop ==
    ASSUME NEW D, Sound(D), NEW path, Len(path) \in Nat
    PROVE  \E at : PathSteps(D, path, at)
<1> DEFINE m == Len(path)
           V == [i \in 0 .. m |-> IF i = 0 THEN RootNodes ELSE NodesBelow(D)]
           step == [i \in 1 .. m |-> [up \in V[i - 1] |-> Below(D, up, path[i])]]
<1>1. ASSUME NEW i \in 1 .. m, NEW up \in V[i - 1]
      PROVE  step[i][up] = Below(D, up, path[i]) /\ step[i][up] \in V[i]
  <2>1. i \in 0 .. m /\ i - 1 \in 0 .. m /\ i # 0
    OBVIOUS
  <2>2. V[i] = NodesBelow(D) /\ V[i - 1] \subseteq RootNodes \union NodesBelow(D)
    BY <2>1
  <2>3. step[i][up] = Below(D, up, path[i])
    OBVIOUS
  <2> HIDE DEF V, step
  <2> QED BY <2>2, <2>3, BelowIs
<1>2. RootNode \in V[0]
  BY DEF RootNodes
<1> HIDE DEF V, step
<1>3. PICK f : LoopValues(f, m, V, RootNode, step)
  <2>1. LoopWithin(m, V, RootNode, step)
    BY <1>1, <1>2 DEF LoopWithin
  <2>2. m \in Nat
    OBVIOUS
  <2> HIDE DEF m
  <2> QED BY <2>1, <2>2, Rounds
<1>4. \A i \in 1 .. m : f[i] = Below(D, f[i - 1], path[i])
  <2> SUFFICES ASSUME NEW i \in 1 .. m
               PROVE  f[i] = Below(D, f[i - 1], path[i])
    OBVIOUS
  <2>1. i - 1 \in 0 .. m
    OBVIOUS
  <2> QED BY <1>1, <1>3, <2>1 DEF LoopValues
<1>5. FollowsPath(f, D, path)
  <2>1. \A i \in 0 .. m : f[i] = IF i = 0 THEN RootNode
                                 ELSE With(f[i - 1], LAMBDA up : Below(D, up, path[i]))
    <3> SUFFICES ASSUME NEW i \in 0 .. m
                 PROVE  f[i] = IF i = 0 THEN RootNode
                               ELSE With(f[i - 1], LAMBDA up : Below(D, up, path[i]))
      OBVIOUS
    <3>1. i # 0 => i \in 1 .. m
      OBVIOUS
    <3> QED BY <1>3, <1>4, <3>1 DEF With, LoopValues
  <2> QED BY <1>3, <2>1 DEF FollowsPath, With, LoopValues
<1> DEFINE h == CHOOSE at : FollowsPath(at, D, path)
<1>6. FollowsPath(h, D, path)
  BY <1>5
<1>7. FindPath(D, path) = h[m]
  BY DEF FindPath, FollowsPath, With
<1> HIDE DEF h
<1>8. h[0] = RootNode /\ \A i \in 1 .. m : h[i] = Below(D, h[i - 1], path[i])
  BY <1>6 DEF FollowsPath, With
<1>9. h[m] = f[m]
  <2>1. h[0] = f[0] /\ \A i \in 1 .. m : h[i - 1] = f[i - 1] => h[i] = f[i]
    BY <1>3, <1>4, <1>8 DEF LoopValues
  <2>2. m \in Nat
    OBVIOUS
  <2> HIDE DEF m
  <2> QED BY <2>1, <2>2, OneLoop
<1>10. \A i \in 0 .. m : f[i] \in IF i = 0 THEN RootNodes ELSE NodesBelow(D)
  BY <1>3 DEF LoopValues, V
<1>11. PathSteps(D, path, f)
  BY <1>3, <1>4, <1>7, <1>9, <1>10 DEF LoopValues, PathSteps
<1> QED BY <1>11

(* FindFileByPath gives the root, nothing, or the node of a short entry. *)
LEMMA FindPathIs ==
    ASSUME NEW D, Sound(D), NEW path, Len(path) \in Nat
    PROVE  FindPath(D, path) \in IF Len(path) = 0 THEN RootNodes ELSE NodesBelow(D)
<1>1. PICK at : PathSteps(D, path, at)
  BY FindPathLoop
<1>2. Len(path) \in 0 .. Len(path)
  OBVIOUS
<1> QED BY <1>1, <1>2 DEF PathSteps
-----------------------------------------------------------------------------
(* What is written into a file.                                            *)

(* The last cluster of a chain was taken. *)
LEMMA LastTaken ==
    ASSUME NEW D, Sound(D), NEW c \in Root .. D.hint - 1
    PROVE  Last(Chain(D, c)) \in Root .. D.hint - 1
<1>1. FollowsLinks(D, c, Chain(D, c))
  BY ChainIs
<1>2. Len(Chain(D, c)) \in 1 .. Len(Chain(D, c))
  BY <1>1 DEF FollowsLinks
<1> QED BY <1>1, <1>2, LinksClimb DEF Last

\* The volumes that a call may make of D.
Later(D) == {F \in DeviceType : Sound(F) /\ LinksKept(D, F)}

FollowsGrowth(after, D, first, clusters) ==
    after = [n \in 0 .. clusters |->
                IF n = 0 THEN D
                ELSE With(after[n - 1], LAMBDA F :
                         IF F.fault THEN F ELSE Extended(F, Last(Chain(F, first))))]

\* One cluster more.
OneMore(F, first) == IF F.fault THEN F ELSE Extended(F, Last(Chain(F, first)))

(* One round of Grown. *)
LEMMA OneMoreSound ==
    ASSUME NEW D, Sound(D), NEW first \in Root .. D.hint - 1, NEW F \in Later(D)
    PROVE  OneMore(F, first) \in Later(D) /\ first \in Root .. F.hint - 1
<1>1. Sound(F) /\ F.hint >= D.hint /\ LinksKept(D, F) /\ F \in DeviceType
  BY DEF Later, LinksKept
<1>2. F.hint \in Nat /\ D.hint \in Nat /\ D \in DeviceType
  BY <1>1, SoundFields
<1>3. first \in Root .. F.hint - 1
  <2>1. Root \in Nat
    BY Sizes
  <2>2. first \in Int /\ Root <= first /\ first <= D.hint - 1
    BY <1>2, <2>1
  <2> QED BY <1>1, <1>2, <2>1, <2>2
<1>4. CASE F.fault
  BY <1>3, <1>4 DEF OneMore
<1>5. CASE ~F.fault
  <2> DEFINE E == Extended(F, Last(Chain(F, first)))
  <2>1. Last(Chain(F, first)) \in Root .. F.hint - 1 /\ F.fat[Last(Chain(F, first))] \notin Clusters
    BY <1>1, <1>3, LastTaken, ChainIs
  <2>2. Sound(E) /\ LinksKept(F, E)
    BY <1>1, <2>1, ExtendedSound
  <2> HIDE DEF E
  <2>3. E \in DeviceType
    BY <2>2, SoundFields
  <2>4. LinksKept(D, E)
    BY <1>1, <1>2, <2>2, <2>3, LinksKeptOn
  <2>5. E \in Later(D)
    BY <2>2, <2>3, <2>4 DEF Later
  <2> QED BY <1>3, <1>5, <2>5 DEF OneMore, E
<1> QED BY <1>4, <1>5

\* after[n] is the volume with n clusters more.
GrownSteps(D, first, m, after) ==
    /\ after[0] = D /\ Grown(D, first, m) = after[m]
    /\ \A n \in 1 .. m : after[n] = OneMore(after[n - 1], first)
    /\ \A n \in 0 .. m : after[n] \in Later(D)

(* The clusters that a write adds, one by one. *)
LEMMA GrownLoop ==
    ASSUME NEW D, Sound(D), NEW first \in Root .. D.hint - 1, NEW m \in Nat
    PROVE  \E after : GrownSteps(D, first, m, after)
<1> DEFINE V == [n \in 0 .. m |-> Later(D)]
           step == [n \in 1 .. m |-> [F \in Later(D) |-> OneMore(F, first)]]
<1>1. \A n \in 1 .. m : \A F \in Later(D) :
         step[n][F] = OneMore(F, first) /\ OneMore(F, first) \in Later(D)
  BY OneMoreSound
<1>2. \A n \in 0 .. m : V[n] = Later(D)
  OBVIOUS
<1>3. D \in Later(D)
  BY SoundFields, LinksSame DEF Later
<1> HIDE DEF V, step
<1>4. PICK f : LoopValues(f, m, V, D, step)
  <2>1. LoopWithin(m, V, D, step)
    <3>1. \A n \in 1 .. m : n \in 0 .. m /\ n - 1 \in 0 .. m
      OBVIOUS
    <3> QED BY <1>1, <1>2, <1>3, <3>1 DEF LoopWithin
  <2> QED BY <2>1, Rounds
<1>5. /\ f = [n \in 0 .. m |-> f[n]] /\ f[0] = D
      /\ \A n \in 1 .. m : f[n] = step[n][f[n - 1]]
      /\ \A n \in 0 .. m : f[n] \in Later(D)
  BY <1>2, <1>4 DEF LoopValues
<1>6. \A n \in 1 .. m : f[n] = OneMore(f[n - 1], first)
  <2>1. \A n \in 1 .. m : n - 1 \in 0 .. m
    OBVIOUS
  <2> QED BY <1>1, <1>5, <2>1
<1>7. FollowsGrowth(f, D, first, m)
  <2>1. \A n \in 0 .. m : f[n] = IF n = 0 THEN D ELSE With(f[n - 1], LAMBDA F :
                                    IF F.fault THEN F ELSE Extended(F, Last(Chain(F, first))))
    <3> SUFFICES ASSUME NEW n \in 0 .. m
                 PROVE  f[n] = IF n = 0 THEN D ELSE With(f[n - 1], LAMBDA F :
                                  IF F.fault THEN F ELSE Extended(F, Last(Chain(F, first))))
      OBVIOUS
    <3>1. n # 0 => n \in 1 .. m
      OBVIOUS
    <3> QED BY <1>5, <1>6, <3>1 DEF With, OneMore
  <2> QED BY <1>5, <2>1 DEF FollowsGrowth, With
<1> DEFINE h == CHOOSE after : FollowsGrowth(after, D, first, m)
<1>8. FollowsGrowth(h, D, first, m)
  BY <1>7
<1>9. Grown(D, first, m) = h[m]
  BY DEF Grown, FollowsGrowth, With
<1> HIDE DEF h
<1>10. h[0] = D /\ \A n \in 1 .. m : h[n] = OneMore(h[n - 1], first)
  BY <1>8 DEF FollowsGrowth, With, OneMore
<1>11. h[m] = f[m]
  <2>1. h[0] = f[0] /\ \A n \in 1 .. m : h[n - 1] = f[n - 1] => h[n] = f[n]
    BY <1>5, <1>6, <1>10
  <2> QED BY <2>1, OneLoop
<1> QED BY <1>5, <1>6, <1>9, <1>11 DEF GrownSteps

(* The clusters that a write adds. *)
LEMMA GrownSound ==
    ASSUME NEW D, Sound(D), NEW first \in Root .. D.hint - 1, NEW m \in Nat
    PROVE  Grown(D, first, m) \in Later(D)
BY GrownLoop DEF GrownSteps

FollowsUnits(after, E, p, first, pos, n, v) ==
    after = [j \in 0 .. n |->
                IF j = 0 THEN E
                ELSE With(after[j - 1], LAMBDA F : Put(F, Place(F, first, pos + j), Data(p, pos + j, v)))]

(* One unit of a write. *)
LEMMA UnitSound ==
    ASSUME NEW D \in DeviceType, NEW F \in Later(D), NEW x, NEW p \in Paths, NEW i \in Nat, NEW v \in Nat
    PROVE  Put(F, x, Data(p, i, v)) \in Later(D)
<1>1. Data(p, i, v) \in Slot /\ ~IsEntry(Data(p, i, v))
  BY DEF Data, Slot, IsEntry
<1>2. Sound(F) /\ LinksKept(D, F) /\ F \in DeviceType
  BY DEF Later
<1>3. Put(F, x, Data(p, i, v)) \in DeviceType /\ LinksKept(D, Put(F, x, Data(p, i, v)))
  <2>1. /\ Put(F, x, Data(p, i, v)) \in DeviceType /\ Put(F, x, Data(p, i, v)).hint = F.hint
        /\ Put(F, x, Data(p, i, v)).fat = F.fat
    BY <1>1, <1>2, PutIs
  <2> QED BY <1>2, <2>1 DEF LinksKept
<1>4. Sound(Put(F, x, Data(p, i, v)))
  BY <1>1, <1>2, PutSound
<1> QED BY <1>2, <1>3, <1>4 DEF Later

\* after[j] is the volume with j units written, after the clusters for them.
UnitSteps(D, p, first, pos, m, v, after) ==
    /\ \E l \in Nat : after[0] = Grown(D, first, l)
    /\ WriteUnits(D, p, first, pos, m, v) = after[m]
    /\ \A j \in 1 .. m :
          after[j] = Put(after[j - 1], Place(after[j - 1], first, pos + j), Data(p, pos + j, v))
    /\ \A j \in 0 .. m : after[j] \in Later(D)

(* All units of a write, with the clusters they need. *)
LEMMA WriteUnitsLoop ==
    ASSUME NEW D, Sound(D), NEW first \in Root .. D.hint - 1, NEW p \in Paths,
           NEW pos \in Nat, NEW m \in Nat, NEW v \in Nat
    PROVE  \E after : UnitSteps(D, p, first, pos, m, v, after)
<1> DEFINE have == Len(Chain(D, first))
           more == IF pos \div K < have THEN ClustersFor(pos + m) - have ELSE 0
           E == Grown(D, first, IF more > 0 THEN more ELSE 0)
           unit(F, j) == Put(F, Place(F, first, pos + j), Data(p, pos + j, v))
           V == [n \in 0 .. m |-> Later(D)]
           step == [n \in 1 .. m |-> [F \in Later(D) |-> unit(F, n)]]
<1>0. E \in Later(D) /\ \E l \in Nat : E = Grown(D, first, l)
  <2>1. Len(Chain(D, first)) \in Nat
    BY ChainIs DEF FollowsLinks
  <2>2. ClustersFor(pos + m) \in Int
    <3>1. pos + m \in Int /\ K \in Nat \ {0}
      BY Sizes
    <3>2. (pos + m) \div K \in Int
      BY ONLY <3>1, DivMod
    <3> QED BY <3>2 DEF ClustersFor
  <2>3. (IF more > 0 THEN more ELSE 0) \in Nat
    BY <2>1, <2>2
  <2> HIDE DEF more, have
  <2> QED BY <2>3, GrownSound
<1>1. \A n \in 1 .. m : \A F \in Later(D) : step[n][F] = unit(F, n) /\ unit(F, n) \in Later(D)
  <2>1. D \in DeviceType /\ \A n \in 1 .. m : pos + n \in Nat
    BY SoundFields
  <2> QED BY <2>1, UnitSound
<1>2. \A n \in 0 .. m : V[n] = Later(D)
  OBVIOUS
<1> HIDE DEF V, step, E, unit
<1>4. PICK f : LoopValues(f, m, V, E, step)
  <2>1. LoopWithin(m, V, E, step)
    <3>1. \A n \in 1 .. m : n \in 0 .. m /\ n - 1 \in 0 .. m
      OBVIOUS
    <3> QED BY <1>0, <1>1, <1>2, <3>1 DEF LoopWithin
  <2> QED BY <2>1, Rounds
<1>5. /\ f = [n \in 0 .. m |-> f[n]] /\ f[0] = E
      /\ \A n \in 1 .. m : f[n] = step[n][f[n - 1]]
      /\ \A n \in 0 .. m : f[n] \in Later(D)
  BY <1>2, <1>4 DEF LoopValues
<1>6. \A n \in 1 .. m : f[n] = unit(f[n - 1], n)
  <2>1. \A n \in 1 .. m : n - 1 \in 0 .. m
    OBVIOUS
  <2> QED BY <1>1, <1>5, <2>1
<1>7. FollowsUnits(f, E, p, first, pos, m, v)
  <2>1. \A n \in 0 .. m : f[n] = IF n = 0 THEN E ELSE With(f[n - 1], LAMBDA F :
                                    Put(F, Place(F, first, pos + n), Data(p, pos + n, v)))
    <3> SUFFICES ASSUME NEW n \in 0 .. m
                 PROVE  f[n] = IF n = 0 THEN E ELSE With(f[n - 1], LAMBDA F :
                                  Put(F, Place(F, first, pos + n), Data(p, pos + n, v)))
      OBVIOUS
    <3>1. n # 0 => n \in 1 .. m
      OBVIOUS
    <3> QED BY <1>5, <1>6, <3>1 DEF With, unit
  <2> QED BY <1>5, <2>1 DEF FollowsUnits, With
<1> DEFINE h == CHOOSE after : FollowsUnits(after, E, p, first, pos, m, v)
<1>8. FollowsUnits(h, E, p, first, pos, m, v)
  BY <1>7
<1>9. WriteUnits(D, p, first, pos, m, v) = h[m]
  BY DEF WriteUnits, FollowsUnits, With, E
<1> HIDE DEF h
<1>10. h[0] = E /\ \A n \in 1 .. m : h[n] = unit(h[n - 1], n)
  BY <1>8 DEF FollowsUnits, With, unit
<1>11. h[m] = f[m]
  <2>1. h[0] = f[0] /\ \A n \in 1 .. m : h[n - 1] = f[n - 1] => h[n] = f[n]
    BY <1>5, <1>6, <1>10
  <2> QED BY <2>1, OneLoop
<1>12. \E l \in Nat : f[0] = Grown(D, first, l)
  BY <1>0, <1>5
<1>13. \A j \in 1 .. m : f[j] = Put(f[j - 1], Place(f[j - 1], first, pos + j), Data(p, pos + j, v))
  BY <1>6 DEF unit
<1> QED BY <1>5, <1>9, <1>11, <1>12, <1>13 DEF UnitSteps

(* What a write leaves. *)
LEMMA WriteUnitsSound ==
    ASSUME NEW D, Sound(D), NEW first \in Root .. D.hint - 1, NEW p \in Paths,
           NEW pos \in Nat, NEW m \in Nat, NEW v \in Nat
    PROVE  WriteUnits(D, p, first, pos, m, v) \in Later(D)
<1>1. PICK after : UnitSteps(D, p, first, pos, m, v, after)
  BY WriteUnitsLoop
<1>2. m \in 0 .. m
  OBVIOUS
<1> QED BY <1>1, <1>2 DEF UnitSteps
-----------------------------------------------------------------------------
(* What is added to a directory.                                           *)

\* The rounds of AddContentToCluster: h is the cluster of the entry that is still
\* to be written.
Adding(D, h, pending) ==
    {st \in [D : Later(D), cluster : Int, sector : Int, offset : Int, count : Int] :
        /\ writes /\ ~st.D.fault => st.cluster \in Root .. st.D.hint - 1
        /\ writes /\ pending => FreshHead(st.D, h)}

(* One round of AddContentToCluster, which may write beside the directory. *)
LEMMA EntryAddedSound ==
    ASSUME NEW D \in DeviceType, NEW h, NEW st \in Adding(D, h, TRUE), NEW e \in Slot, NEW pending \in BOOLEAN,
           IsEntry(e) => e.first = h /\ ~pending
    PROVE  EntryAdded(st, e) \in Adding(D, h, pending)
<1> DEFINE x == st.sector * EPS + st.offset + 1
           P == Put(st.D, x, e)
           full == st.offset + 1 = EPS
           count == IF full THEN st.count + 1 ELSE st.count
           offset == IF full THEN 0 ELSE st.offset + 1
           sector == IF full THEN st.sector + 1 ELSE st.sector
           next == [st EXCEPT !.D = P, !.offset = offset, !.sector = sector, !.count = count]
           E == Extended(P, st.cluster)
<1>1. /\ st \in [D : Later(D), cluster : Int, sector : Int, offset : Int, count : Int]
      /\ writes /\ ~st.D.fault => st.cluster \in Root .. st.D.hint - 1
      /\ writes => FreshHead(st.D, h)
  BY DEF Adding
<1>2. st.D \in Later(D) /\ Sound(st.D) /\ st.D \in DeviceType /\ LinksKept(D, st.D)
  BY <1>1 DEF Later
<1>3. /\ P \in DeviceType /\ P.fat = st.D.fat /\ P.hint = st.D.hint
      /\ st.D.fault => P.fault
  <2> HIDE DEF x
  <2>1. \A S \in DeviceType : /\ Put(S, x, e) \in DeviceType /\ Put(S, x, e).fat = S.fat
                              /\ Put(S, x, e).hint = S.hint
                              /\ S.fault => Put(S, x, e).fault
    BY PutIs
  <2> QED BY <1>2, <2>1
<1>4. Sound(P)
  <2> HIDE DEF x
  <2> QED BY <1>1, <1>2, PutSound
<1>5. writes /\ pending => FreshHead(P, h)
  <2> HIDE DEF x
  <2> QED BY <1>1, <1>2, PutFresh
<1>6. count \in Int /\ offset \in Int /\ sector \in Int /\ st.cluster \in Int
  BY <1>1
<1>7. next = [D |-> P, cluster |-> st.cluster, sector |-> sector, offset |-> offset, count |-> count]
  <2> HIDE DEF P, offset, sector, count
  <2>1. next \in [D : {P}, cluster : {st.cluster}, sector : {sector}, offset : {offset},
                 count : {count}]
    BY <1>1
  <2> HIDE DEF next
  <2> QED BY <2>1
<1>8. EntryAdded(st, e) =
         IF count # SPC \/ P.fault THEN next
         ELSE IF P.fat[st.cluster] \in Clusters
         THEN [next EXCEPT !.cluster = P.fat[st.cluster]]
         ELSE [next EXCEPT !.D = E, !.cluster = P.hint, !.sector = (P.hint - 2) * SPC]
  BY DEF EntryAdded
<1> HIDE DEF P, full, count, offset, sector, next, E
<1>9. P \in Later(D)
  BY <1>2, <1>3, <1>4 DEF Later, LinksKept
<1>10. P.hint \in Nat /\ P.hint > Root /\ SPC \in Nat
  BY <1>4, SoundFields, FATAssumption
<1>11. CASE count # SPC \/ P.fault
  BY <1>1, <1>3, <1>5, <1>6, <1>7, <1>8, <1>9, <1>11 DEF Adding
<1>12. CASE ~ (count # SPC \/ P.fault) /\ P.fat[st.cluster] \in Clusters
  <2> DEFINE c == P.fat[st.cluster]
  <2>1. EntryAdded(st, e) =
           [D |-> P, cluster |-> c, sector |-> sector, offset |-> offset, count |-> count]
    <3> HIDE DEF c
    <3>1. EntryAdded(st, e) = [next EXCEPT !.cluster = c]
      BY <1>8, <1>12 DEF c
    <3> QED BY <1>7, <3>1
  <2>2. c \in Int
    BY <1>12, Sizes
  <2>3. writes => c \in Root .. P.hint - 1
    <3> SUFFICES ASSUME writes
                 PROVE  c \in Root .. P.hint - 1
      OBVIOUS
    <3>1. st.cluster \in Root .. P.hint - 1 /\ st.cluster \in Clusters
      BY <1>1, <1>3, <1>4, <1>12, SoundFields, Sizes
    <3>2. st.cluster < c /\ c < P.hint
      BY <1>4, <1>12, <3>1 DEF Sound, LinksAscend
    <3> HIDE DEF c
    <3> QED BY <1>10, <2>2, <3>1, <3>2, Sizes
  <2> HIDE DEF c
  <2> QED BY <1>5, <1>6, <1>9, <2>1, <2>2, <2>3 DEF Adding
<1>13. CASE ~ (count # SPC \/ P.fault) /\ P.fat[st.cluster] \notin Clusters
  <2> DEFINE s == (P.hint - 2) * SPC
  <2>1. s \in Int
    BY <1>10
  <2>2. EntryAdded(st, e) =
           [D |-> E, cluster |-> P.hint, sector |-> s, offset |-> offset, count |-> count]
    <3> HIDE DEF s
    <3>1. EntryAdded(st, e) = [next EXCEPT !.D = E, !.cluster = P.hint, !.sector = s]
      BY <1>8, <1>13 DEF s
    <3> QED BY <1>7, <3>1
  <2>3. writes => st.cluster \in Root .. P.hint - 1 /\ P.fat[st.cluster] \notin Clusters
    BY <1>1, <1>3, <1>13
  <2>4. /\ Sound(E) /\ LinksKept(P, E)
        /\ FreshHead(P, h) => FreshHead(E, h)
        /\ writes /\ ~E.fault => P.hint \in Root .. E.hint - 1
    BY <1>4, <2>3, ExtendedSound DEF E
  <2>5. E \in DeviceType
    BY <2>4, SoundFields
  <2>7. LinksKept(D, E)
    BY <1>9, <2>4, <2>5, LinksKeptOn DEF Later
  <2>8. E \in Later(D)
    BY <2>4, <2>5, <2>7 DEF Later
  <2>9. P.hint \in Int
    BY <1>10
  <2> HIDE DEF s
  <2> QED BY <1>5, <1>6, <2>1, <2>2, <2>4, <2>8, <2>9 DEF Adding
<1> QED BY <1>11, <1>12, <1>13

\* The entries that go into a directory: one of a file or directory, the last.
Filed(entries, h) ==
    /\ entries \in Seq(Slot) /\ entries # <<>>
    /\ \A n \in 1 .. Len(entries) :
          IsEntry(entries[n]) => n = Len(entries) /\ entries[n].first = h

FollowsEntries(after, E, x, entries) ==
    after = [n \in 0 .. Len(entries) |->
                IF n = 0 THEN [D |-> E, cluster |-> x \div K + 2, sector |-> x \div EPS,
                               offset |-> x % EPS, count |-> SectorOffset(x)]
                ELSE With(after[n - 1], LAMBDA st : EntryAdded(st, entries[n]))]

(* The place where the entries begin. *)
LEMMA FirstPlace ==
    ASSUME NEW D, Sound(D), NEW c \in Root .. D.hint - 1
    PROVE  LET i == FirstZero(D, c)
               E == IF i = 0 THEN Extended(D, Last(Chain(D, c))) ELSE D
               x == IF i = 0 THEN SlotOf(D.hint) ELSE Place(D, c, i) - 1
           IN  ~E.fault =>
                  /\ x \in Nat /\ Sound(E) /\ LinksKept(D, E)
                  /\ \A h : FreshHead(D, h) => FreshHead(E, h)
                  /\ writes => x \div K + 2 \in Root .. E.hint - 1
<1> DEFINE i == FirstZero(D, c)
           L == Last(Chain(D, c))
<1>1. D \in DeviceType /\ L \in Root .. D.hint - 1 /\ L \in Clusters /\ D.fat[L] \notin Clusters
  <2>1. /\ D \in DeviceType /\ D.hint \in Nat /\ D.hint <= End /\ L \in Root .. D.hint - 1
        /\ D.fat[L] \notin Clusters
    BY SoundFields, LastTaken, ChainIs
  <2> HIDE DEF L
  <2> QED BY <2>1, Sizes
<1>2. CASE i = 0
  <2> DEFINE E == Extended(D, L)
  <2> SUFFICES ASSUME ~E.fault
               PROVE  /\ SlotOf(D.hint) \in Nat /\ Sound(E) /\ LinksKept(D, E)
                      /\ \A h : FreshHead(D, h) => FreshHead(E, h)
                      /\ writes => SlotOf(D.hint) \div K + 2 \in Root .. E.hint - 1
    BY <1>2
  <2>1. D.hint \in Clusters
    BY <1>1, ExtendedIs
  <2>2. /\ Sound(E) /\ LinksKept(D, E)
        /\ \A h : FreshHead(D, h) => FreshHead(E, h)
        /\ writes => D.hint \in Root .. E.hint - 1
    BY <1>1, ExtendedSound
  <2>3. 0 \in 0 .. K - 1
    BY Sizes
  <2>4. SlotOf(D.hint) \in Nat /\ SlotOf(D.hint) + 0 = SlotOf(D.hint)
    BY <2>1, <2>3, SlotsOfCluster
  <2>5. (SlotOf(D.hint) + 0) \div K + 2 = D.hint
    BY <2>1, <2>3, SlotsOfCluster
  <2> HIDE DEF E
  <2> QED BY <2>2, <2>4, <2>5
<1>3. CASE i # 0
  <2>1. i \in 1 .. Len(Stream(D, c))
    <3> DEFINE I == {j \in 1 .. Len(Stream(D, c)) : Stream(D, c)[j].kind = "zero"}
    <3>1. i = IF I # {} THEN Min(I) ELSE 0
      BY DEF FirstZero, SelectInSeq
    <3>2. I \subseteq 1 .. Len(Stream(D, c)) /\ I \subseteq Nat
      OBVIOUS
    <3> HIDE DEF I, i
    <3>3. I # {} /\ i = Min(I)
      BY <1>3, <3>1
    <3>4. Min(I) \in I
      BY <3>2, <3>3, LeastNumber
    <3> QED BY <3>2, <3>3, <3>4
  <2>2. i \in DOMAIN Stream(D, c)
    BY <2>1, StreamIs
  <2> HIDE DEF i
  <2>3. /\ Place(D, c, i) \in 1 .. Slots
        /\ \E k \in 1 .. Len(Chain(D, c)) : (Place(D, c, i) - 1) \div K + 2 = Chain(D, c)[k]
    BY <2>2, StreamIs
  <2>4. \A k \in 1 .. Len(Chain(D, c)) : Chain(D, c)[k] \in Root .. D.hint - 1
    BY ChainIs, LinksClimb
  <2>5. (Place(D, c, i) - 1) \div K + 2 \in Root .. D.hint - 1
    BY <2>3, <2>4
  <2>6. LinksKept(D, D)
    BY <1>1, LinksSame
  <2>7. Place(D, c, i) - 1 \in Nat
    BY <2>3
  <2> QED BY <1>3, <2>5, <2>6, <2>7 DEF i
<1> QED BY <1>2, <1>3

\* Where AddContentToCluster begins: the volume, with a cluster more when there
\* is no zero slot, and the number of the slot counted from 0.
AddStart(D, c) == IF FirstZero(D, c) = 0 THEN Extended(D, Last(Chain(D, c))) ELSE D
AddPlace(D, c) == IF FirstZero(D, c) = 0 THEN SlotOf(D.hint) ELSE Place(D, c, FirstZero(D, c)) - 1

\* after[n] is what its loop holds after n rounds.
AddSteps(D, c, h, entries, after) ==
    /\ after[0] = [D |-> AddStart(D, c), cluster |-> AddPlace(D, c) \div K + 2,
                   sector |-> AddPlace(D, c) \div EPS, offset |-> AddPlace(D, c) % EPS,
                   count |-> SectorOffset(AddPlace(D, c))]
    /\ \A n \in 1 .. Len(entries) : after[n] = EntryAdded(after[n - 1], entries[n])
    /\ \A n \in 0 .. Len(entries) : after[n] \in Adding(D, h, n < Len(entries))
    /\ AddContent(D, c, entries) = after[Len(entries)].D

(* AddContentToCluster, over all entries. *)
LEMMA AddContentLoop ==
    ASSUME NEW D, Sound(D), NEW c \in Root .. D.hint - 1, NEW h, NEW entries,
           Filed(entries, h), writes => FreshHead(D, h)
    PROVE  IF AddStart(D, c).fault
           THEN AddContent(D, c, entries).fault /\ AddContent(D, c, entries) \in Later(D)
           ELSE \E after : AddSteps(D, c, h, entries, after)
<1> DEFINE i == FirstZero(D, c)
           E == IF i = 0 THEN Extended(D, Last(Chain(D, c))) ELSE D
           x == IF i = 0 THEN SlotOf(D.hint) ELSE Place(D, c, i) - 1
           m == Len(entries)
           start == [D |-> E, cluster |-> x \div K + 2, sector |-> x \div EPS,
                     offset |-> x % EPS, count |-> SectorOffset(x)]
           Vs(n) == Adding(D, h, n < m)
           V == [n \in 0 .. m |-> Vs(n)]
           step == [n \in 1 .. m |-> [st \in Vs(n - 1) |-> EntryAdded(st, entries[n])]]
<1>1. D \in DeviceType /\ D.hint \in Nat
  BY SoundFields
<1>0. E = AddStart(D, c) /\ x = AddPlace(D, c)
  BY DEF AddStart, AddPlace
<1>2. CASE E.fault
  <2>1. AddContent(D, c, entries) = [D EXCEPT !.fault = TRUE]
    BY <1>2 DEF AddContent
  <2> DEFINE F == [D EXCEPT !.fault = TRUE]
  <2>2. F \in DeviceType /\ F.fat = D.fat /\ F.disk = D.disk /\ F.hint = D.hint /\ F.fault
    BY <1>1, FaultSet
  <2> HIDE DEF F
  <2>3. Sound(F)
    BY <2>2 DEF Sound, AboveHintFree, LinksAscend, LinksApart, EntriesApart, EntriesOf, HeadOf
  <2>4. F \in Later(D)
    BY <1>1, <2>2, <2>3, LinksSame DEF Later
  <2> HIDE DEF E, x
  <2> QED BY <1>0, <1>2, <2>1, <2>2, <2>4 DEF F
<1>3. CASE ~E.fault
  <2>1. /\ x \in Nat /\ Sound(E) /\ LinksKept(D, E)
        /\ \A g : FreshHead(D, g) => FreshHead(E, g)
        /\ writes => x \div K + 2 \in Root .. E.hint - 1
    BY <1>3, FirstPlace
  <2>2. entries \in Seq(Slot) /\ m \in Nat /\ m > 0
    BY DEF Filed
  <2> HIDE DEF E, x, m
  <2>3. start \in Vs(0)
    <3>1. E \in Later(D)
      BY <2>1, SoundFields DEF Later
    <3>2. x \div K + 2 \in Int /\ x \div EPS \in Int /\ x % EPS \in Int /\ SectorOffset(x) \in Int
      <4>1. x \in Int /\ K \in Nat \ {0} /\ EPS \in Nat \ {0}
        BY <2>1, Sizes, FATAssumption
      <4>2. x \div K \in Int /\ x \div EPS \in Int /\ x % EPS \in 0 .. EPS - 1
        BY ONLY <4>1, DivMod
      <4> QED BY <4>1, <4>2 DEF SectorOffset
    <3> QED BY <2>1, <3>1, <3>2 DEF Adding
  <2>4. ASSUME NEW n \in 1 .. m, NEW st \in Vs(n - 1)
        PROVE  EntryAdded(st, entries[n]) \in Vs(n) /\ step[n][st] = EntryAdded(st, entries[n])
    <3>1. n - 1 < m /\ entries[n] \in Slot /\ (n < m) \in BOOLEAN
      BY <2>2 DEF m
    <3>2. st \in Adding(D, h, TRUE)
      BY <3>1
    <3>3. IsEntry(entries[n]) => entries[n].first = h /\ ~ (n < m)
      BY <2>2 DEF Filed, m
    <3>4. step[n][st] = EntryAdded(st, entries[n])
      OBVIOUS
    <3>5. \A pending \in BOOLEAN : (IsEntry(entries[n]) => ~pending)
             => EntryAdded(st, entries[n]) \in Adding(D, h, pending)
      BY <1>1, <3>1, <3>2, <3>3, EntryAddedSound
    <3>6. EntryAdded(st, entries[n]) \in Adding(D, h, n < m)
      <4>1. CASE n < m
        <5>1. (n < m) = TRUE
          BY <4>1
        <5>2. EntryAdded(st, entries[n]) \in Adding(D, h, TRUE)
          BY <3>3, <3>5, <4>1
        <5> QED BY <5>1, <5>2
      <4>2. CASE ~ (n < m)
        <5>1. (n < m) = FALSE
          BY <4>2
        <5>2. EntryAdded(st, entries[n]) \in Adding(D, h, FALSE)
          BY <3>5
        <5> QED BY <5>1, <5>2
      <4> QED BY <4>1, <4>2
    <3> QED BY <3>4, <3>6
  <2>5. \A n \in 0 .. m : V[n] = Vs(n)
    OBVIOUS
  <2> HIDE DEF V, Vs, step, start
  <2>6. PICK f : LoopValues(f, m, V, start, step)
    <3>1. LoopWithin(m, V, start, step)
      <4>1. 0 \in 0 .. m /\ \A n \in 1 .. m : n \in 0 .. m /\ n - 1 \in 0 .. m
        BY <2>2
      <4> QED BY <2>3, <2>4, <2>5, <4>1 DEF LoopWithin
    <3> QED BY <2>2, <3>1, Rounds
  <2>7. /\ f = [n \in 0 .. m |-> f[n]] /\ f[0] = start
        /\ \A n \in 1 .. m : f[n] = step[n][f[n - 1]]
        /\ \A n \in 0 .. m : f[n] \in Vs(n)
    BY <2>5, <2>6 DEF LoopValues
  <2>8. \A n \in 1 .. m : f[n] = EntryAdded(f[n - 1], entries[n])
    <3>1. \A n \in 1 .. m : n - 1 \in 0 .. m
      BY <2>2
    <3> QED BY <2>4, <2>7, <3>1
  <2>9. FollowsEntries(f, E, x, entries)
    <3>1. \A n \in 0 .. m : f[n] = IF n = 0 THEN start
                                   ELSE With(f[n - 1], LAMBDA st : EntryAdded(st, entries[n]))
      <4> SUFFICES ASSUME NEW n \in 0 .. m
                   PROVE  f[n] = IF n = 0 THEN start
                                 ELSE With(f[n - 1], LAMBDA st : EntryAdded(st, entries[n]))
        OBVIOUS
      <4>1. n # 0 => n \in 1 .. m
        BY <2>2
      <4> QED BY <2>7, <2>8, <4>1 DEF With
    <3> QED BY <2>7, <3>1 DEF FollowsEntries, With, m, start
  <2> DEFINE g == CHOOSE after : FollowsEntries(after, E, x, entries)
  <2>10. FollowsEntries(g, E, x, entries)
    BY <2>9
  <2>11. AddContent(D, c, entries) = g[m].D
    BY <1>3 DEF AddContent, FollowsEntries, With, E, x, m
  <2> HIDE DEF g
  <2>12. g[0] = start /\ \A n \in 1 .. m : g[n] = EntryAdded(g[n - 1], entries[n])
    BY <2>2, <2>10 DEF FollowsEntries, With, m, start
  <2>13. g[m] = f[m]
    <3>1. g[0] = f[0] /\ \A n \in 1 .. m : g[n - 1] = f[n - 1] => g[n] = f[n]
      BY <2>7, <2>8, <2>12
    <3> QED BY <2>2, <3>1, OneLoop
  <2>14. AddSteps(D, c, h, entries, f)
    BY <1>0, <2>7, <2>8, <2>11, <2>13 DEF AddSteps, Vs, m, start
  <2> QED BY <1>0, <1>3, <2>14
<1> QED BY <1>2, <1>3

(* What AddContentToCluster leaves. *)
LEMMA AddContentSound ==
    ASSUME NEW D, Sound(D), NEW c \in Root .. D.hint - 1, NEW h, NEW entries,
           Filed(entries, h), writes => FreshHead(D, h)
    PROVE  AddContent(D, c, entries) \in Later(D)
<1>1. CASE AddStart(D, c).fault
  BY <1>1, AddContentLoop
<1>2. CASE ~AddStart(D, c).fault
  <2>1. PICK after : AddSteps(D, c, h, entries, after)
    BY <1>2, AddContentLoop
  <2>2. Len(entries) \in 0 .. Len(entries)
    BY DEF Filed
  <2> QED BY <2>1, <2>2 DEF AddSteps, Adding
<1> QED BY <1>1, <1>2

(* The two parts of the name of a short entry. *)
LEMMA PairTyped ==
    ASSUME NEW S, NEW a \in S, NEW b \in S
    PROVE  <<a, b>> \in Seq(S)
OBVIOUS

(* What GetShortName and GetLongName put together. *)
LEMMA EntriesForIs ==
    ASSUME NEW name \in Name, NEW first \in Clusters, NEW isDir \in BOOLEAN
    PROVE  Filed(EntriesFor(name, first, isDir), first)
<1>1. ASSUME NEW short \in Name
      PROVE  ShortEntry(short, first, isDir, 0) \in Slot /\ ShortEntry(short, first, isDir, 0).first = first
  BY DEF ShortEntry, Slot
<1>2. CASE name \in ShortNames
  <2> DEFINE short == <<name[1], IF name[3] = "." THEN "" ELSE name[3]>>
             e == ShortEntry(short, first, isDir, 0)
  <2>1. EntriesFor(name, first, isDir) = <<e>>
    BY <1>2 DEF EntriesFor, IsShortContent, GetShortName
  <2>2. e \in Slot /\ e.first = first
    <3>1. Len(name) = 3
      BY <1>2, NamesAssumption
    <3>2. name[1] \in STRING /\ name[3] \in STRING
      BY <3>1 DEF Name
    <3>3. short \in Name
      <4> DEFINE ext == IF name[3] = "." THEN "" ELSE name[3]
      <4>1. ext \in STRING
        BY <3>2, NamesAssumption
      <4> HIDE DEF ext
      <4>2. <<name[1], ext>> \in Seq(STRING)
        BY <3>2, <4>1, PairTyped
      <4> QED BY <4>2 DEF Name, ext
    <3> HIDE DEF short
    <3> QED BY <1>1, <3>3
  <2> HIDE DEF e
  <2> QED BY <2>1, <2>2 DEF Filed
<1>3. CASE name \notin ShortNames
  <2> DEFINE e == ShortEntry(<<"~1", "">>, first, isDir, 0)
             m == Len(name)
             longs == [i \in 1 .. m |-> LongEntry(name[m + 1 - i])]
  <2>1. EntriesFor(name, first, isDir) = Append(longs, e)
    BY <1>3 DEF EntriesFor, IsShortContent, GetLongName
  <2>2. m \in Nat /\ \A j \in 1 .. m : name[j] \in STRING
    BY DEF Name
  <2>3. <<"~1", "">> \in Name
    BY PairTyped, NamesAssumption DEF Name
  <2>4. e \in Slot /\ e.first = first
    BY <1>1, <2>3
  <2>5. \A i \in 1 .. m : longs[i] \in Slot /\ ~IsEntry(longs[i])
    <3> SUFFICES ASSUME NEW i \in 1 .. m
                 PROVE  longs[i] \in Slot /\ ~IsEntry(longs[i])
      OBVIOUS
    <3>1. m + 1 - i \in 1 .. m
      BY <2>2
    <3>2. longs[i] = [kind |-> "long", part |-> name[m + 1 - i]] /\ name[m + 1 - i] \in STRING
      BY <2>2, <3>1 DEF LongEntry
    <3> QED BY <3>2 DEF Slot, IsEntry
  <2>6. DOMAIN longs = 1 .. m
    OBVIOUS
  <2> HIDE DEF e, m
  <2>7. longs \in Seq(Slot) /\ Len(longs) = m
    <3>1. longs \in [1 .. m -> Slot]
      BY <2>5
    <3> HIDE DEF longs
    <3> QED BY <2>2, <2>6, <3>1
  <2> HIDE DEF longs
  <2> DEFINE t == Append(longs, e)
  <2>8. /\ t \in Seq(Slot) /\ Len(t) = m + 1 /\ t[m + 1] = e
        /\ \A n \in 1 .. m : t[n] = longs[n]
    BY <2>4, <2>7
  <2> HIDE DEF t
  <2>9. t # <<>>
    BY <2>2, <2>8
  <2>10. \A n \in 1 .. m + 1 : n = m + 1 \/ n \in 1 .. m
    BY <2>2
  <2>11. Filed(t, first)
    BY <2>4, <2>5, <2>8, <2>9, <2>10 DEF Filed
  <2> QED BY <2>1, <2>11 DEF t
<1> QED BY <1>2, <1>3
(* Only the size or the kind of an entry is changed where it lies. *)
LEMMA SizeSlot ==
    ASSUME NEW slot \in Slot, NEW size \in Nat
    PROVE  /\ [slot EXCEPT !.size = size] \in Slot
           /\ [slot EXCEPT !.size = size].kind = slot.kind
           /\ IsEntry(slot) => [slot EXCEPT !.size = size].first = slot.first
<1> DEFINE t == [slot EXCEPT !.size = size]
<1>1. slot = ZeroSlot => t = slot
  BY DEF ZeroSlot
<1>2. slot \in [kind : {"data"}, of : Paths \X Nat \X Nat] => t = slot
  OBVIOUS
<1>3. slot \in [kind : {"long"}, part : STRING] => t = slot
  OBVIOUS
<1>4. slot \in [kind : {"short", "deleted"}, name : Name, first : Clusters,
                dir : BOOLEAN, size : Nat]
      => /\ t \in [kind : {"short", "deleted"}, name : Name, first : Clusters,
                   dir : BOOLEAN, size : Nat]
         /\ t.kind = slot.kind /\ t.first = slot.first
  OBVIOUS
<1>5. t \in Slot /\ t.kind = slot.kind /\ (IsEntry(slot) => t.first = slot.first)
  <2> HIDE DEF t
  <2> QED BY <1>1, <1>2, <1>3, <1>4 DEF Slot
<1> QED BY <1>5

(* The fields of an entry. *)
LEMMA EntrySlot ==
    ASSUME NEW slot \in Slot, IsEntry(slot)
    PROVE  slot \in [kind : {"short", "deleted"}, name : Name, first : Clusters,
                     dir : BOOLEAN, size : Nat]
BY DEF Slot, IsEntry, ZeroSlot

(* Unlink marks an entry, and keeps its chain. *)
LEMMA DeletedSlot ==
    ASSUME NEW slot \in Slot, IsEntry(slot)
    PROVE  /\ [slot EXCEPT !.kind = "deleted"] \in Slot
           /\ IsEntry([slot EXCEPT !.kind = "deleted"])
           /\ [slot EXCEPT !.kind = "deleted"].first = slot.first
<1> DEFINE t == [slot EXCEPT !.kind = "deleted"]
<1>1. /\ t \in [kind : {"short", "deleted"}, name : Name, first : Clusters,
                dir : BOOLEAN, size : Nat]
      /\ t.kind = "deleted" /\ t.first = slot.first
  BY EntrySlot
<1>2. t \in Slot /\ IsEntry(t) /\ t.first = slot.first
  <2> HIDE DEF t
  <2> QED BY <1>1 DEF Slot, IsEntry
<1> QED BY <1>2

(* A fault changes nothing else. *)
LEMMA FaultSound ==
    ASSUME NEW D, Sound(D)
    PROVE  [D EXCEPT !.fault = TRUE] \in Later(D)
<1> DEFINE F == [D EXCEPT !.fault = TRUE]
<1>1. D \in DeviceType /\ D.hint \in Nat
  BY SoundFields
<1>2. F \in DeviceType /\ F.fat = D.fat /\ F.disk = D.disk /\ F.hint = D.hint
  BY <1>1, FaultSet
<1> HIDE DEF F
<1>3. Sound(F)
  BY <1>2 DEF Sound, AboveHintFree, LinksAscend, LinksApart, EntriesApart, EntriesOf, HeadOf
<1>4. F \in Later(D)
  BY <1>1, <1>2, <1>3, LinksSame DEF Later
<1> QED BY <1>4 DEF F
-----------------------------------------------------------------------------
(* Each call keeps the invariant.                                          *)

(* The fields of Device. *)
LEMMA DeviceIs ==
    /\ Device.fat = fat /\ Device.disk = disk /\ Device.hint = hint /\ Device.fault = fault
    /\ DOMAIN Device = {"fat", "disk", "hint", "fault"}
BY DEF Device

(* What a call leaves on the device. *)
LEMMA BecomeIs ==
    ASSUME NEW D \in DeviceType, Become(D)
    PROVE  Device' = D
<1>1. /\ fat' = D.fat /\ disk' = D.disk /\ hint' = D.hint /\ fault' = D.fault
  BY DEF Become
<1>2. D = [fat |-> D.fat, disk |-> D.disk, hint |-> D.hint, fault |-> D.fault]
  BY DeviceFields
<1> QED BY <1>1, <1>2 DEF Device

(* A part of a path is a name. *)
LEMMA NameOfPath ==
    ASSUME NEW p \in Paths
    PROVE  p \in Seq(Name) /\ Len(p) \in Nat /\ Len(p) > 0 /\ p[Len(p)] \in Name
<1>1. p \in Seq(Name) /\ p # <<>>
  BY FATAssumption DEF Name
<1> QED BY <1>1

(* The nodes keep naming clusters that were taken when the hint moves on. *)
LEMMA NodesLater ==
    ASSUME NodesSound, hint \in Nat, hint' \in Nat, hint' >= hint,
           node' \in [Paths -> Node \union {None}],
           \A p \in Paths : node'[p] # None =>
              node[p] # None /\ node'[p].first = node[p].first /\ node'[p].at = node[p].at
    PROVE  NodesSound'
<1> SUFFICES ASSUME NEW p \in Paths, node'[p] # None
             PROVE  node'[p].first < hint' /\ node'[p].at # 0
  BY DEF NodesSound
<1>1. node[p] # None /\ node'[p].first = node[p].first /\ node'[p].at = node[p].at
  OBVIOUS
<1>2. node[p] \in Node /\ node[p].first < hint /\ node[p].at # 0
  BY <1>1 DEF NodesSound
<1>3. node[p].first \in Nat
  BY <1>2, Sizes DEF Node
<1> QED BY <1>1, <1>2, <1>3

(* The volume is delivered sound. *)
LEMMA InitSound == Init => FInv
<1> SUFFICES ASSUME Init
             PROVE  FInv
  OBVIOUS
<1> DEFINE name == <<Old[1][1], Old[1][3]>>
           e == ShortEntry(name, Root + 1, FALSE, OldSize)
<1>1. /\ Old \in Paths /\ OldSize \in Nat /\ OldSize <= K /\ name \in Name
  <2>1. Old \in Paths /\ Len(Old) = 1 /\ OldSize \in 0 .. SPC * EPS
    BY FATAssumption
  <2>2. OldSize \in Nat /\ OldSize <= K
    BY <2>1, Sizes DEF K
  <2>3. name \in Name
    <3>1. Old[1] \in Name /\ Len(Old[1]) = 3
      BY <2>1, NameOfPath, FATAssumption, NamesAssumption
    <3>2. Old[1][1] \in STRING /\ Old[1][3] \in STRING
      BY <3>1 DEF Name
    <3> QED BY <3>2, PairTyped DEF Name
  <2> HIDE DEF name
  <2> QED BY <2>1, <2>2, <2>3
<1>2. Root \in Clusters /\ Root + 1 \in Clusters /\ Root + 2 \in Clusters
  BY Sizes
<1> HIDE DEF name
<1>3. e \in Slot /\ IsEntry(e) /\ e.first = Root + 1
  BY <1>1, <1>2 DEF ShortEntry, Slot, IsEntry
<1>4. \A i \in Nat : Data(Old, i, 0) \in Slot /\ ~IsEntry(Data(Old, i, 0))
  BY <1>1 DEF Data, Slot, IsEntry
<1>5. ZeroSlot \in Slot /\ ~IsEntry(ZeroSlot)
  BY DEF ZeroSlot, Slot, IsEntry
<1>6. /\ fat = [c \in Clusters |-> IF c \in {Root, Root + 1} THEN End ELSE Free]
      /\ disk = [x \in 1 .. Slots |->
                   IF x = 1 THEN e
                   ELSE IF x \in K + 1 .. K + OldSize THEN Data(Old, x - K, 0) ELSE ZeroSlot]
      /\ hint = Root + 2 /\ node = [p \in Paths |-> None] /\ fault = FALSE
  BY DEF Init, name
<1> HIDE DEF e
<1>7. \A x \in 1 .. Slots : disk[x] \in Slot /\ (x # 1 => ~IsEntry(disk[x])) /\ (x = 1 => disk[x] = e)
  <2> SUFFICES ASSUME NEW x \in 1 .. Slots
               PROVE  disk[x] \in Slot /\ (x # 1 => ~IsEntry(disk[x])) /\ (x = 1 => disk[x] = e)
    OBVIOUS
  <2>1. x \in K + 1 .. K + OldSize => x - K \in Nat
    BY <1>1, Sizes
  <2> QED BY <1>3, <1>4, <1>5, <1>6, <2>1
<1>8. \A c \in Clusters : fat[c] \in {Free, End} /\ fat[c] \notin Clusters
  BY <1>6, Sizes
<1>9. Device \in DeviceType
  <2>1. fat \in [Clusters -> 0 .. End]
    BY <1>6, Sizes
  <2>2. disk \in [1 .. Slots -> Slot]
    BY <1>6, <1>7
  <2>3. hint \in Clusters \union {End} /\ fault \in BOOLEAN
    BY <1>2, <1>6
  <2> QED BY <2>1, <2>2, <2>3 DEF Device, DeviceType
<1>10. AboveHintFree(Device)
  <2>1. \A c \in Root + 2 .. LastCluster : c \in Clusters /\ c \notin {Root, Root + 1}
    BY Sizes
  <2> QED BY <1>6, <2>1, DeviceIs DEF AboveHintFree
<1>11. LinksAscend(Device) /\ LinksApart(Device)
  BY <1>8, DeviceIs DEF LinksAscend, LinksApart
<1>12. EntriesApart(Device)
  <2>1. \A x \in EntriesOf(Device) : x = 1 /\ Device.disk[x].first = Root + 1
    BY <1>3, <1>7, DeviceIs DEF EntriesOf
  <2>2. HeadOf(Device, Root + 1)
    <3>1. Root + 1 \in Root + 1 .. hint - 1
      BY <1>6, Sizes
    <3> QED BY <1>2, <1>8, <3>1, DeviceIs DEF HeadOf
  <2> QED BY <2>1, <2>2 DEF EntriesApart
<1>13. hint > Root
  BY <1>6, Sizes
<1>14. NodesSound
  BY <1>6 DEF NodesSound
<1> QED BY <1>9, <1>10, <1>11, <1>12, <1>13, <1>14, DeviceIs DEF FInv, Sound

(* Open puts nodes of entries into the tree. *)
LEMMA OpenSound ==
    ASSUME FInv, NEW p \in Paths, Open(p)
    PROVE  FInv'
<1>1. UNCHANGED <<fat, disk, hint, fault>> /\ Sound(Device)
  BY DEF Open, FInv
<1>2. Device' = Device
  BY <1>1 DEF Device
<1>3. node' = [q \in Paths |-> IF IsPrefix(q, p) /\ node[q] = None THEN FindPath(Device, q)
                               ELSE node[q]]
  BY DEF Open
<1>4. \A q \in Paths : FindPath(Device, q) # None =>
         /\ FindPath(Device, q) \in Node /\ FindPath(Device, q).first < hint
         /\ FindPath(Device, q).at # 0
  <2> SUFFICES ASSUME NEW q \in Paths, FindPath(Device, q) # None
               PROVE  /\ FindPath(Device, q) \in Node /\ FindPath(Device, q).first < hint
                      /\ FindPath(Device, q).at # 0
    OBVIOUS
  <2>1. FindPath(Device, q) \in NodesBelow(Device)
    BY <1>1, NameOfPath, FindPathIs
  <2>2. /\ FindPath(Device, q) \in Node /\ FindPath(Device, q).first \in Root .. Device.hint - 1
        /\ FindPath(Device, q).at \in 1 .. Slots
    BY <1>1, <2>1, NodesBelowIs
  <2>3. Device.hint \in Nat
    BY <1>1, SoundFields
  <2> QED BY <2>2, <2>3, DeviceIs, Sizes
<1>5. NodesSound'
  BY <1>1, <1>3, <1>4 DEF NodesSound, FInv
<1> QED BY <1>1, <1>2, <1>5 DEF FInv

(* A new file or directory takes a fresh cluster and an entry for it. *)
LEMMA CreatedSound ==
    ASSUME FInv, NEW p \in Paths, NEW isDir \in BOOLEAN, Created(p, isDir)
    PROVE  FInv'
<1> DEFINE A == Allocated(Device)
           q == SubSeq(p, 1, Len(p) - 1)
           up == FindPath(Device, q)
           entries == EntriesFor(p[Len(p)], hint, isDir)
<1>1. /\ up # None
      /\ Become(IF A.fault THEN A ELSE AddContent(A, up.first, entries))
      /\ node' = node
  BY DEF Created
<1>2. /\ Sound(Device) /\ hint \in Nat /\ hint > Root /\ NodesSound
  BY SoundFields, DeviceIs DEF FInv
<1>3. up.first \in Root .. hint - 1
  <2>1. Len(q) \in Nat
    BY NameOfPath
  <2>2. up \in RootNodes \union NodesBelow(Device)
    BY <1>2, <2>1, FindPathIs
  <2> HIDE DEF up
  <2> QED BY <1>1, <1>2, <2>2, NodesBelowIs, DeviceIs
<1>4. /\ Sound(A) /\ A.hint >= hint /\ A \in DeviceType /\ A.hint \in Nat
      /\ writes /\ ~A.fault => FreshHead(A, hint)
      /\ ~A.fault => hint \in Clusters
  <2>1. /\ Sound(A) /\ A.hint >= hint
        /\ writes /\ ~A.fault => FreshHead(A, hint)
    BY <1>2, AllocatedSound, DeviceIs DEF LinksKept
  <2>2. ~A.fault => hint \in Clusters
    BY <1>2, AllocatedIs, DeviceIs, SoundFields
  <2> HIDE DEF A
  <2> QED BY <2>1, <2>2, SoundFields
<1> DEFINE B == IF A.fault THEN A ELSE AddContent(A, up.first, entries)
<1>5. B \in DeviceType /\ Sound(B) /\ B.hint >= hint
  <2>1. CASE A.fault
    BY <1>4, <2>1
  <2>2. CASE ~A.fault
    <3>1. Filed(entries, hint)
      <4>1. p[Len(p)] \in Name /\ hint \in Clusters
        BY <1>4, <2>2, NameOfPath
      <4> QED BY <4>1, EntriesForIs
    <3>2. up.first \in Root .. A.hint - 1
      <4> HIDE DEF up, A
      <4> QED BY <1>2, <1>3, <1>4, Sizes
    <3>3. AddContent(A, up.first, entries) \in Later(A)
      <4> HIDE DEF A, up, entries
      <4> QED BY <1>4, <2>2, <3>1, <3>2, AddContentSound
    <3> DEFINE C == AddContent(A, up.first, entries)
    <3> HIDE DEF C, A
    <3>4. C \in DeviceType /\ Sound(C) /\ C.hint >= A.hint
      BY <3>3 DEF Later, LinksKept, C
    <3>5. C.hint \in Nat
      BY <3>4, SoundFields
    <3>6. C.hint >= hint
      BY <1>2, <1>4, <3>4, <3>5
    <3>7. B = C
      BY <2>2 DEF C
    <3> HIDE DEF B
    <3> QED BY <3>4, <3>6, <3>7
  <2> QED BY <2>1, <2>2
<1>6. Become(B)
  BY <1>1
<1> HIDE DEF A, B, up, entries
<1>7. Device' = B
  BY <1>5, <1>6, BecomeIs
<1>8. hint' = B.hint /\ hint' \in Nat
  BY <1>5, <1>6, SoundFields DEF Become
<1>9. NodesSound'
  <2>1. node' \in [Paths -> Node \union {None}]
    BY <1>1, <1>2 DEF NodesSound
  <2>2. \A r \in Paths : node'[r] = node[r]
    BY <1>1
  <2> QED BY <1>2, <1>5, <1>8, <2>1, <2>2, NodesLater
<1> QED BY <1>5, <1>7, <1>9 DEF FInv
(* FAT32FileNode::Write lengthens the chain of one file. *)
LEMMA WriteSound ==
    ASSUME FInv, NEW p \in Paths, NEW pos \in 0 .. MaxSize, NEW n \in 1 .. MaxWrite,
           NEW v \in 1 .. Payloads, Write(p, pos, n, v)
    PROVE  FInv'
<1>1. Sound(Device) /\ hint \in Nat /\ hint > Root /\ NodesSound
  BY SoundFields, DeviceIs DEF FInv
<1>2. pos \in Nat /\ n \in Nat /\ pos + n \in Nat /\ v \in Nat
  BY FATAssumption
<1>3. node[p] # None /\ node[p] \in Node /\ node[p].first < hint /\ node[p].at # 0
  BY <1>1 DEF Write, NodesSound
<1>4. node[p].first \in Root .. hint - 1 /\ node[p].at \in 1 .. Slots
  <2>1. node[p].first \in Clusters /\ node[p].at \in 0 .. Slots
    BY <1>3 DEF Node
  <2> QED BY <1>1, <1>3, <2>1, Sizes
<1> DEFINE D == WriteUnits(Device, p, node[p].first, pos, n, v)
           x == node[p].at
           slot == [D.disk[x] EXCEPT !.size = pos + n]
           P == Put(D, x, slot)
<1>5. D \in Later(Device)
  BY <1>1, <1>2, <1>4, WriteUnitsSound, DeviceIs
<1>6. \/ Become([Device EXCEPT !.fault = TRUE]) /\ node' = node
      \/ Become(P) /\ node' = [node EXCEPT ![p].size = pos + n]
      \/ Become(D) /\ node' = node
  BY DEF Write
<1> HIDE DEF D
<1>7. Sound(D) /\ LinksKept(Device, D) /\ D \in DeviceType
  BY <1>5 DEF Later
<1>8. P \in Later(Device)
  <2>1. D.disk[x] \in Slot
    BY <1>4, <1>7, SoundFields
  <2>2. slot \in Slot /\ (IsEntry(slot) => IsEntry(D.disk[x]) /\ slot.first = D.disk[x].first)
    BY <1>2, <2>1, SizeSlot DEF IsEntry
  <2> HIDE DEF x, slot
  <2>3. IsEntry(slot) => x \in EntriesOf(D) /\ slot.first = D.disk[x].first
    BY <1>4, <2>2 DEF EntriesOf, x
  <2>4. Sound(P)
    BY <1>7, <2>2, <2>3, PutSound
  <2>5. P \in DeviceType /\ P.hint = D.hint /\ P.fat = D.fat
    BY <1>7, <2>2, PutIs
  <2> HIDE DEF P
  <2> QED BY <1>7, <2>4, <2>5 DEF Later, LinksKept
<1>9. [Device EXCEPT !.fault = TRUE] \in Later(Device)
  BY <1>1, FaultSound
<1>10. PICK E \in Later(Device) : Become(E)
  BY <1>5, <1>6, <1>8, <1>9
<1>11. Sound(E) /\ E.hint >= hint /\ E \in DeviceType
  BY <1>10, DeviceIs DEF Later, LinksKept
<1>12. Device' = E /\ hint' = E.hint /\ hint' \in Nat
  BY <1>10, <1>11, BecomeIs, SoundFields DEF Become
<1>13. /\ node' \in [Paths -> Node \union {None}]
       /\ \A q \in Paths : node'[q] # None =>
             node[q] # None /\ node'[q].first = node[q].first /\ node'[q].at = node[q].at
  <2>1. node \in [Paths -> Node \union {None}]
    BY <1>1 DEF NodesSound
  <2>2. CASE node' = node
    BY <2>1, <2>2
  <2>3. CASE node' = [node EXCEPT ![p].size = pos + n]
    <3> DEFINE new == [node[p] EXCEPT !.size = pos + n]
    <3>1. new \in Node /\ new.first = node[p].first /\ new.at = node[p].at
      BY <1>2, <1>3 DEF Node
    <3>2. node' = [node EXCEPT ![p] = new]
      BY <2>3
    <3> HIDE DEF new
    <3>3. node'[p] = new /\ \A q \in Paths : q # p => node'[q] = node[q]
      BY <2>1, <3>2
    <3> QED BY <1>3, <2>1, <3>1, <3>2, <3>3
  <2> QED BY <1>6, <2>2, <2>3
<1>14. NodesSound'
  BY <1>1, <1>11, <1>12, <1>13, NodesLater
<1> QED BY <1>11, <1>12, <1>14 DEF FInv

(* Unlink. *)
LEMMA DeleteSound ==
    ASSUME FInv, NEW p \in Paths, Delete(p)
    PROVE  FInv'
<1> DEFINE n == FindPath(Device, p)
           slot == [Device.disk[n.at] EXCEPT !.kind = "deleted"]
           P == Put(Device, n.at, slot)
<1>1. Sound(Device) /\ hint \in Nat /\ NodesSound
  BY SoundFields, DeviceIs DEF FInv
<1>2. n # None /\ Become(P)
  BY DEF Delete
<1>3. n.at \in 1 .. Slots /\ Device.disk[n.at].kind = "short"
  <2>1. n \in NodesBelow(Device)
    BY <1>1, NameOfPath, FindPathIs
  <2> HIDE DEF n
  <2> QED BY <1>1, <1>2, <2>1, NodesBelowIs
<1>4. Device.disk[n.at] \in Slot /\ n.at \in EntriesOf(Device) /\ IsEntry(Device.disk[n.at])
  BY <1>1, <1>3, SoundFields DEF EntriesOf, IsEntry
<1>5. slot \in Slot /\ IsEntry(slot) /\ slot.first = Device.disk[n.at].first
  BY <1>4, DeletedSlot
<1> HIDE DEF slot, n
<1>6. Sound(P)
  BY <1>1, <1>4, <1>5, PutSound
<1>7. P \in DeviceType /\ P.hint = hint
  <2>1. Device \in DeviceType
    BY <1>1, SoundFields
  <2> HIDE DEF P
  <2>2. P \in DeviceType /\ P.hint = Device.hint
    BY <1>5, <2>1, PutIs DEF P
  <2> QED BY <2>2, DeviceIs
<1> HIDE DEF P
<1>8. Device' = P /\ hint' = hint
  BY <1>2, <1>7, BecomeIs DEF Become
<1>9. /\ node' \in [Paths -> Node \union {None}]
      /\ \A q \in Paths : node'[q] # None => node'[q] = node[q]
  <2>1. node' = [q \in Paths |-> IF q \in Forgotten(p) THEN None ELSE node[q]]
    BY DEF Delete
  <2> QED BY <1>1, <2>1 DEF NodesSound
<1>10. NodesSound'
  <2>1. hint' \in Nat /\ hint' >= hint
    BY <1>1, <1>8
  <2> QED BY <1>1, <1>9, <2>1, NodesLater
<1> QED BY <1>6, <1>8, <1>10 DEF FInv

(* Every step keeps the invariant. *)
LEMMA StepSound == FInv /\ [Next]_vars => FInv'
<1> SUFFICES ASSUME FInv, [Next]_vars
             PROVE  FInv'
  OBVIOUS
<1>1. CASE UNCHANGED vars
  BY <1>1 DEF vars, FInv, NodesSound, Device, Sound, AboveHintFree, LinksAscend, LinksApart,
              EntriesApart, EntriesOf, HeadOf
<1>2. CASE Next
  <2>1. PICK p \in Paths :
           \/ Open(p) \/ Delete(p) \/ CreateFile(p) \/ CreateDirectory(p)
           \/ \E pos \in 0 .. MaxSize, n \in 1 .. MaxWrite, v \in 1 .. Payloads : Write(p, pos, n, v)
    BY <1>2 DEF Next
  <2>2. CASE Open(p)
    BY <2>2, OpenSound
  <2>3. CASE Delete(p)
    BY <2>3, DeleteSound
  <2>4. CASE CreateFile(p)
    BY <2>4, CreatedSound DEF CreateFile
  <2>5. CASE CreateDirectory(p)
    BY <2>5, CreatedSound DEF CreateDirectory
  <2>6. CASE \E pos \in 0 .. MaxSize, n \in 1 .. MaxWrite, v \in 1 .. Payloads : Write(p, pos, n, v)
    BY <2>6, WriteSound
  <2> QED BY <2>1, <2>2, <2>3, <2>4, <2>5, <2>6
<1> QED BY <1>1, <1>2

(* Sound and NodesSound always hold: GetFreeClusterAndPlusOne takes what is *)
(* free, a chain grows by a fresh cluster at its end, and every entry that  *)
(* AddContentToCluster writes heads a chain of its own, wherever the entry  *)
(* itself lands; whether the device writes or only reads.                   *)
THEOREM VolumeSound == Spec => []FInv
<1>1. Init => FInv
  BY InitSound
<1>2. FInv /\ [Next]_vars => FInv'
  BY StepSound
<1> QED BY <1>1, <1>2, PTL DEF Spec

(* The invariant gives the types. *)
LEMMA SoundTyped == FInv /\ writes \in BOOLEAN => TypeOK
BY SoundFields DEF FInv, Sound, NodesSound, TypeOK

(* TypeOK always holds: entries that are written over other slots, and      *)
(* clusters taken at the end of the FAT, leave a volume of the same shape.  *)
THEOREM TypeCorrect == Spec => []TypeOK
<1>1. Init => writes \in BOOLEAN
  BY DEF Init
<1>2. (writes \in BOOLEAN) /\ [Next]_vars => (writes \in BOOLEAN)'
  <2>1. Next => writes' = writes
    BY DEF Next
  <2>2. UNCHANGED vars => writes' = writes
    BY DEF vars
  <2> QED BY <2>1, <2>2
<1>3. Spec => [](writes \in BOOLEAN)
  BY <1>1, <1>2, PTL DEF Spec
<1> QED BY <1>3, VolumeSound, SoundTyped, PTL

(* Two chains that meet would have one head. *)
LEMMA SoundChainsApart == FInv => ChainsApart
<1> SUFFICES ASSUME FInv
             PROVE  ChainsApart
  OBVIOUS
<1> DEFINE heads == {Root} \union {disk[x].first : x \in Entries}
           owned == [c \in heads |-> Chain(Device, c)]
<1>1. Sound(Device) /\ hint \in Nat /\ hint > Root
  BY SoundFields, DeviceIs DEF FInv
<1>2. Entries = EntriesOf(Device)
  BY DeviceIs DEF Entries, EntriesOf, IsEntry
<1>3. \A x, y \in Entries : x # y => disk[x].first # disk[y].first
  BY <1>1, <1>2, DeviceIs DEF Sound, EntriesApart
<1>4. \A c \in hint .. LastCluster : fat[c] = Free
  BY <1>1, DeviceIs DEF Sound, AboveHintFree
<1>5. ASSUME NEW c \in heads
      PROVE  c \in Root .. hint - 1 /\ \A x \in Clusters : fat[x] # c
  <2>1. CASE c = Root
    <3>1. \A x \in Clusters : fat[x] \in Clusters => x < fat[x] /\ x \in Nat /\ x >= Root
      BY <1>1, DeviceIs, Sizes DEF Sound, LinksAscend
    <3>2. Root \in Clusters /\ Root \in Root .. hint - 1 /\ ~ (Root < Root)
      BY <1>1, Sizes
    <3>3. ASSUME NEW x \in Clusters, fat[x] = Root
          PROVE  FALSE
      <4>1. x < Root /\ x \in Nat /\ x >= Root
        BY <3>1, <3>2, <3>3
      <4> QED BY <4>1, Sizes
    <3> QED BY <2>1, <3>2, <3>3
  <2>2. CASE \E x \in Entries : c = disk[x].first
    <3>1. HeadOf(Device, c)
      BY <1>1, <1>2, <2>2, DeviceIs DEF Sound, EntriesApart
    <3>2. c \in Root + 1 .. hint - 1 /\ \A x \in Clusters : fat[x] # c
      BY <3>1, DeviceIs DEF HeadOf
    <3> QED BY <1>1, <3>2, Sizes
  <2> QED BY <2>1, <2>2
<1> HIDE DEF heads
<1>6. \A c \in heads : /\ owned[c] = Chain(Device, c)
                       /\ FollowsLinks(Device, c, owned[c])
                       /\ owned[c] \in Seq(Clusters) /\ DOMAIN owned[c] = 1 .. Len(owned[c])
                       /\ Len(owned[c]) \in Nat
  <2> SUFFICES ASSUME NEW c \in heads
               PROVE  /\ owned[c] = Chain(Device, c)
                      /\ FollowsLinks(Device, c, owned[c])
                      /\ owned[c] \in Seq(Clusters) /\ DOMAIN owned[c] = 1 .. Len(owned[c])
                      /\ Len(owned[c]) \in Nat
    OBVIOUS
  <2>1. owned[c] = Chain(Device, c)
    OBVIOUS
  <2>2. FollowsLinks(Device, c, Chain(Device, c))
    BY <1>1, <1>5, ChainIs, DeviceIs
  <2> HIDE DEF owned
  <2>3. FollowsLinks(Device, c, owned[c])
    BY <2>1, <2>2
  <2>4. owned[c] \in Seq(Clusters)
    BY <2>3 DEF FollowsLinks
  <2> QED BY <2>1, <2>3, <2>4
<1>7. ASSUME NEW c \in heads
      PROVE  IsInjective(owned[c]) /\ Range(owned[c]) \subseteq Root .. hint - 1
  <2> DEFINE s == owned[c]
  <2>1. FollowsLinks(Device, c, s) /\ DOMAIN s = 1 .. Len(s) /\ Len(s) \in Nat
    BY <1>6
  <2> HIDE DEF s
  <2>2. /\ \A k \in 1 .. Len(s) : s[k] \in Root .. hint - 1
        /\ \A i, j \in 1 .. Len(s) : i < j => s[i] < s[j]
    BY <1>1, <1>5, <2>1, LinksClimb, DeviceIs
  <2>3. \A i, j \in 1 .. Len(s) : s[i] = s[j] => i = j
    <3> SUFFICES ASSUME NEW i \in 1 .. Len(s), NEW j \in 1 .. Len(s), s[i] = s[j], i # j
                 PROVE  FALSE
      OBVIOUS
    <3>1. s[i] \in Nat
      BY <1>1, <2>2, Sizes
    <3>2. i < j \/ j < i
      BY <2>1
    <3> QED BY <2>2, <3>1, <3>2
  <2> QED BY <2>1, <2>2, <2>3 DEF IsInjective, Range, s
<1>8. ASSUME NEW c \in heads, NEW d \in heads, c < d
      PROVE  Range(owned[c]) \cap Range(owned[d]) = {}
  <2> SUFFICES ASSUME NEW i \in 1 .. Len(owned[c]), NEW j \in 1 .. Len(owned[d]),
                      owned[c][i] = owned[d][j]
               PROVE  FALSE
    BY <1>6 DEF Range
  <2>1. FollowsLinks(Device, c, owned[c]) /\ FollowsLinks(Device, d, owned[d])
    BY <1>6
  <2>2. \A x \in Clusters : Device.fat[x] # c /\ Device.fat[x] # d
    BY <1>5, DeviceIs
  <2> HIDE DEF owned
  <2>3. c = d
    BY <1>1, <2>1, <2>2, ChainsMeet
  <2>4. c \in Nat
    BY <1>1, <1>5, Sizes
  <2> QED BY <1>8, <2>3, <2>4
<1>9. DOMAIN owned = heads
  OBVIOUS
<1>10. /\ \A c \in DOMAIN owned : IsInjective(owned[c]) /\ Range(owned[c]) \subseteq Root .. hint - 1
       /\ \A c, d \in DOMAIN owned : c < d => Range(owned[c]) \cap Range(owned[d]) = {}
  BY <1>7, <1>8, <1>9
<1> QED BY <1>3, <1>4, <1>10 DEF ChainsApart, heads

(* ChainsApart always holds: no cluster belongs to two files or            *)
(* directories, or twice to one, and the hint never gives out one in use.  *)
THEOREM ClustersOwnedOnce == Spec => []ChainsApart
BY VolumeSound, SoundChainsApart, PTL
-----------------------------------------------------------------------------
(***************************************************************************)
(* The virtual file system: the inductive invariant, which says what the   *)
(* tree of nodes and the volume look like at any time.                     *)

\* The sections of the paths that are used: those of inputs and the kernel's.
Words == (UNION {{in.names[i] : i \in 1 .. Len(in.names)} : in \in Inputs})
         \union {"", "VFS", "FAT32", "dev", "stdIO", "Zero", "zero", "null", "tmp", "a", "."}

Kinds == {"dir", "device", "temp", "mount", "folder", "file"}

FileNode == [name : Words, kind : Kinds, fa : Nat \union {Null}, pre : Nat \union {Null},
             nxt : Nat \union {Null}, child : Nat \union {Null}, refs : Nat, auto : BOOLEAN]

TreeTyped(T) ==
    /\ T \in [DOMAIN T -> FileNode]
    /\ DOMAIN T \in SUBSET (Nat \ {0}) /\ IsFiniteSet(DOMAIN T)

\* The root has no father, and every other node has one.
FathersThere(T) ==
    /\ root \in DOMAIN T /\ T[root].fa = Null
    /\ \A n \in DOMAIN T \ {root} : T[n].fa \in DOMAIN T

\* Nodes that are not the root have one among them whose father is not.
Acyclic(T) == \A S \in SUBSET (DOMAIN T \ {root}) : S # {} => \E m \in S : T[m].fa \notin S

\* The nodes all are the children of n, in their order.
IsChildList(T, n, all) ==
    /\ all \in Seq(DOMAIN T)
    /\ T[n].child = IF all = <<>> THEN Null ELSE all[1]
    /\ \A i \in 1 .. Len(all) :
           /\ all[i] \in DOMAIN T /\ T[all[i]].fa = n
           /\ T[all[i]].pre = IF i = 1 THEN Null ELSE all[i - 1]
           /\ T[all[i]].nxt = IF i = Len(all) THEN Null ELSE all[i + 1]
    /\ \A i, j \in 1 .. Len(all) : all[i] = all[j] => i = j
    /\ \A m \in DOMAIN T : T[m].fa = n => \E i \in 1 .. Len(all) : all[i] = m

Linked(T) == \A n \in DOMAIN T : IsChildList(T, n, Children(T, n))

\* No two children of a node have one name.
NamesApart(T) ==
    \A m, n \in DOMAIN T : T[m].fa = T[n].fa /\ T[m].name = T[n].name => m = n

\* The place of the volume is FAT32 in VFS.
AtMount(T, name, fa) == name = "FAT32" /\ T[fa].name = "VFS" /\ T[fa].fa = root

\* Files of the volume lie in it, all else in plain directories; there is at
\* most one volume, in its place.
KindsFit(T) ==
    /\ T[root].kind = "dir"
    /\ \A n \in DOMAIN T \ {root} : IF T[n].kind \in {"folder", "file"} THEN BelongVFS(T[T[n].fa])
                                    ELSE T[T[n].fa].kind = "dir"
    /\ \A m, n \in DOMAIN T : T[m].kind = "mount" /\ T[n].kind = "mount" => m = n
    /\ \A n \in DOMAIN T : T[n].auto => T[n].kind = "temp"
    /\ \A n \in DOMAIN T : T[n].kind = "mount" => AtMount(T, T[n].name, T[n].fa)

\* The directory of temporary files.
TmpThere(T) == \E n \in DOMAIN T : T[n].fa = root /\ T[n].name = "tmp" /\ T[n].kind = "dir"

Rooted(T) == TreeTyped(T) /\ FathersThere(T) /\ Acyclic(T)

Shaped(T) == Rooted(T) /\ Linked(T) /\ NamesApart(T)

TreeSound(T) == Shaped(T) /\ KindsFit(T) /\ TmpThere(T)

\* The nodes of the volume stand for what V has.
Standing(T, V) ==
    \A n \in DOMAIN T : T[n].kind \in {"file", "folder"} =>
        PathInVFS(T, n) \in DOMAIN V /\ V[PathInVFS(T, n)] = T[n].kind

\* There is something in V only as long as it is mounted.
MountedFor(T, V) == DOMAIN V # {} => \E n \in DOMAIN T : T[n].kind = "mount"

NodesIn(T, V) == Standing(T, V) /\ MountedFor(T, V)

\* V has with each file what it is in.
VolumeTyped(V) ==
    /\ V \in [DOMAIN V -> {"file", "folder"}] /\ DOMAIN V \in SUBSET Seq(Words)
    /\ \A q \in DOMAIN V : q # <<>> /\ (Len(q) # 1 => Front(q) \in DOMAIN V)

\* The nodes and the volume as they are to be.
Agree(T, V) == TreeSound(T) /\ VolumeTyped(V) /\ NodesIn(T, V)

LinksTyped == links \in Seq(Seq(Words) \X Seq(Words))

VFSInv == Agree(tree, volume) /\ LinksTyped /\ cwd.names \in Seq(Words)
-----------------------------------------------------------------------------
(* Fathers.                                                                *)

(* The empty sequence. *)
LEMMA EmptyTyped ==
    ASSUME NEW S
    PROVE  <<>> \in Seq(S) /\ Len(<<>>) = 0
OBVIOUS

(* Sequences over a larger set. *)
LEMMA SeqGrows ==
    ASSUME NEW S, NEW R, S \subseteq R, NEW s \in Seq(S)
    PROVE  s \in Seq(R)
OBVIOUS

(* What the kernel names files by. *)
LEMMA KernelWords ==
    /\ "" \in Words /\ "VFS" \in Words /\ "FAT32" \in Words /\ "dev" \in Words /\ "stdIO" \in Words
    /\ "Zero" \in Words /\ "zero" \in Words /\ "null" \in Words /\ "tmp" \in Words /\ "a" \in Words
    /\ "." \in Words
BY DEF Words

(* What programs name files by. *)
LEMMA InputTyped ==
    ASSUME NEW in \in Inputs
    PROVE  in.abs \in BOOLEAN /\ in.names \in Seq(Words)
<1>1. in.names \in Seq(STRING)
  BY VFSAssumption
<1>2. \A i \in 1 .. Len(in.names) : in.names[i] \in Words
  <2> DEFINE sections(x) == {x.names[i] : i \in 1 .. Len(x.names)}
             all == {sections(x) : x \in Inputs}
  <2>1. \A i \in 1 .. Len(in.names) : in.names[i] \in sections(in)
    OBVIOUS
  <2> HIDE DEF sections
  <2>2. sections(in) \subseteq UNION all
    OBVIOUS
  <2>3. UNION all \subseteq Words
    BY DEF Words, sections
  <2> QED BY <2>1, <2>2, <2>3
<1>3. in.names \in Seq(Words)
  BY <1>1, <1>2
<1> QED BY <1>3, VFSAssumption

\* The sequence t is s and e behind it.
LongerBy(t, s, e) == Len(t) = Len(s) + 1 /\ t[Len(s) + 1] = e /\ \A i \in 1 .. Len(s) : t[i] = s[i]

(* One element more in a sequence. *)
LEMMA AppendTyped ==
    ASSUME NEW S, NEW s \in Seq(S), NEW e \in S
    PROVE  Append(s, e) \in Seq(S) /\ LongerBy(Append(s, e), s, e)
BY DEF LongerBy

(* What holds of the root and of every node whose father it holds of holds *)
(* of all nodes.                                                           *)
LEMMA ByFathers ==
    ASSUME NEW T, FathersThere(T), Acyclic(T), NEW S, root \in S,
           \A m \in DOMAIN T \ {root} : T[m].fa \in S => m \in S
    PROVE  DOMAIN T \subseteq S
<1> DEFINE R == DOMAIN T \ S
<1>1. R \in SUBSET (DOMAIN T \ {root})
  OBVIOUS
<1>2. ASSUME R # {}
      PROVE  FALSE
  <2>1. PICK m \in R : T[m].fa \notin R
    BY <1>1, <1>2 DEF Acyclic
  <2>2. T[m].fa \in DOMAIN T
    BY <1>1, <2>1 DEF FathersThere
  <2> QED BY <1>1, <2>1, <2>2
<1> QED BY <1>2

(* A node is not its own father, nor that of its father. *)
LEMMA FatherApart ==
    ASSUME NEW T, FathersThere(T), Acyclic(T), NEW n \in DOMAIN T, n # root
    PROVE  T[n].fa # n /\ (T[n].fa # root => T[T[n].fa].fa # n)
<1>1. T[n].fa # n
  <2>1. {n} \in SUBSET (DOMAIN T \ {root}) /\ {n} # {}
    OBVIOUS
  <2> QED BY <2>1 DEF Acyclic
<1>2. ASSUME T[n].fa # root, T[T[n].fa].fa = n
      PROVE  FALSE
  <2>1. {n, T[n].fa} \in SUBSET (DOMAIN T \ {root}) /\ {n, T[n].fa} # {}
    BY <1>2 DEF FathersThere
  <2>2. PICK m \in {n, T[n].fa} : T[m].fa \notin {n, T[n].fa}
    BY <2>1 DEF Acyclic
  <2> QED BY <1>2, <2>2
<1> QED BY <1>1, <1>2

(* A father that there is is a node. *)
LEMMA FatherIs ==
    ASSUME NEW T, Rooted(T), NEW m \in DOMAIN T
    PROVE  (T[m].fa # Null <=> m # root) /\ (m # root => T[m].fa \in DOMAIN T)
<1>1. DOMAIN T \subseteq Nat /\ root \in DOMAIN T /\ T[root].fa = Null
  BY DEF Rooted, TreeTyped, FathersThere
<1>2. Null \notin DOMAIN T
  BY <1>1, VFSAssumption
<1> QED BY <1>1, <1>2 DEF Rooted, FathersThere

FollowsUnder(T, n, within) ==
    within = [m \in DOMAIN T |-> m = n \/ (T[m].fa # Null /\ within[T[m].fa])]

(* Under gives the node and all nodes whose father it gives. *)
LEMMA UnderIs ==
    ASSUME NEW T, Rooted(T), NEW n \in DOMAIN T
    PROVE  /\ Under(T, n) \in SUBSET DOMAIN T
           /\ \A m \in DOMAIN T :
                 m \in Under(T, n) <=> m = n \/ (m # root /\ T[m].fa \in Under(T, n))
<1> DEFINE closed(S) == n \in S /\ \A x \in DOMAIN T : T[x].fa \in S => x \in S
           C == {m \in DOMAIN T : \A S \in SUBSET DOMAIN T : closed(S) => m \in S}
           W == CHOOSE f : FollowsUnder(T, n, f)
           g == [m \in DOMAIN T |-> m \in C]
<1>1. \A m \in DOMAIN T : (T[m].fa # Null <=> m # root) /\ (m # root => T[m].fa \in DOMAIN T)
  BY FatherIs
<1>2. n \in C /\ \A x \in DOMAIN T : T[x].fa \in C => x \in C
  OBVIOUS
<1>3. ASSUME NEW m \in DOMAIN T, m \in C, m # n, m = root \/ T[m].fa \notin C
      PROVE  FALSE
  <2>1. Null \notin DOMAIN T
    BY VFSAssumption DEF Rooted, TreeTyped
  <2>2. C \in SUBSET DOMAIN T
    OBVIOUS
  <2>3. \A S \in SUBSET DOMAIN T : closed(S) => m \in S
    BY <1>3
  <2> HIDE DEF C
  <2>4. T[m].fa \notin C
    BY <1>1, <1>3, <2>1, <2>2
  <2>5. closed(C \ {m}) /\ C \ {m} \in SUBSET DOMAIN T
    BY <1>2, <1>3, <2>2, <2>4
  <2> HIDE DEF closed
  <2> QED BY <2>3, <2>5
<1>4. FollowsUnder(T, n, g)
  <2>1. ASSUME NEW m \in DOMAIN T
        PROVE  (m \in C) = (m = n \/ (T[m].fa # Null /\ g[T[m].fa]))
    <3>1. T[m].fa # Null => g[T[m].fa] = (T[m].fa \in C)
      BY <1>1, <2>1
    <3> HIDE DEF C, g
    <3>2. (m \in C) <=> (m = n \/ (T[m].fa # Null /\ T[m].fa \in C))
      BY <1>1, <1>2, <1>3, <2>1
    <3>3. (m = n \/ (T[m].fa # Null /\ T[m].fa \in C)) = (m = n \/ (T[m].fa # Null /\ g[T[m].fa]))
      BY <3>1
    <3>4. (m \in C) = (m = n \/ (T[m].fa # Null /\ T[m].fa \in C))
      BY <3>2
    <3> QED BY <3>3, <3>4
  <2> HIDE DEF C
  <2>2. g = [m \in DOMAIN T |-> m = n \/ (T[m].fa # Null /\ g[T[m].fa])]
    BY <2>1
  <2> QED BY <2>2 DEF FollowsUnder
<1>5. FollowsUnder(T, n, W)
  <2> HIDE DEF g
  <2> QED BY <1>4
<1> HIDE DEF C, g
<1>6. Under(T, n) = {m \in DOMAIN T : W[m]}
  BY DEF Under, W, FollowsUnder
<1> HIDE DEF W
<1>7. \A m \in DOMAIN T : W[m] = (m = n \/ (T[m].fa # Null /\ W[T[m].fa]))
  BY <1>5 DEF FollowsUnder
<1> QED BY <1>1, <1>6, <1>7
-----------------------------------------------------------------------------
(* Paths of nodes.                                                         *)

\* Where the path of a node begins.
AtTop(T, m, top) == m = root \/ T[m].kind = top \/ T[m].fa = Null

FollowsNames(T, top, W, path) ==
    path = [m \in W |-> IF m = root \/ T[m].kind = top \/ T[m].fa = Null THEN <<>>
                        ELSE Append(path[T[m].fa], T[m].name)]

\* Paths of some nodes, and of their fathers.
PathsOf(T, top, W, path) ==
    /\ W \in SUBSET DOMAIN T /\ \A m \in W \ {root} : T[m].fa \in W
    /\ path = [m \in W |-> path[m]]
    /\ \A m \in W : path[m] = IF AtTop(T, m, top) THEN <<>> ELSE Append(path[T[m].fa], T[m].name)

(* Such paths are the only ones. *)
LEMMA PathsUnique ==
    ASSUME NEW T, Rooted(T), NEW top, NEW V, NEW p, NEW W, NEW q,
           PathsOf(T, top, V, p), PathsOf(T, top, W, q)
    PROVE  \A m \in V \cap W : p[m] = q[m]
<1> DEFINE S == {m \in DOMAIN T : m \in V \cap W => p[m] = q[m]}
<1>1. root \in S
  BY DEF PathsOf, AtTop, Rooted, FathersThere
<1>2. ASSUME NEW m \in DOMAIN T \ {root}, T[m].fa \in S
      PROVE  m \in S
  <2>1. m \in V \cap W => T[m].fa \in V \cap W
    BY <1>2 DEF PathsOf
  <2> QED BY <1>2, <2>1 DEF PathsOf
<1>3. DOMAIN T \subseteq S
  <2> HIDE DEF S
  <2> QED BY <1>1, <1>2, ByFathers DEF Rooted
<1> QED BY <1>3 DEF PathsOf

(* Every node has such a path. *)
LEMMA PathsExist ==
    ASSUME NEW T, Rooted(T), NEW top, NEW n \in DOMAIN T
    PROVE  \E W, p : n \in W /\ PathsOf(T, top, W, p)
<1> DEFINE S == {m \in DOMAIN T : \E W, p : m \in W /\ PathsOf(T, top, W, p)}
<1>1. root \in S
  <2>1. PathsOf(T, top, {root}, [m \in {root} |-> <<>>])
    BY DEF PathsOf, AtTop, Rooted, FathersThere
  <2> QED BY <2>1 DEF Rooted, FathersThere
<1>2. ASSUME NEW m \in DOMAIN T \ {root}, T[m].fa \in S
      PROVE  m \in S
  <2>1. PICK W, p : T[m].fa \in W /\ PathsOf(T, top, W, p)
    BY <1>2
  <2>2. CASE m \in W
    BY <2>1, <2>2
  <2>3. CASE m \notin W
    <3> DEFINE X == W \union {m}
               q == [x \in X |-> IF x # m THEN p[x]
                                 ELSE IF AtTop(T, m, top) THEN <<>> ELSE Append(p[T[m].fa], T[m].name)]
    <3>1. X \in SUBSET DOMAIN T /\ \A x \in X \ {root} : T[x].fa \in X
      BY <2>1 DEF PathsOf
    <3>2. q = [x \in X |-> q[x]]
      OBVIOUS
    <3>3. \A x \in W : q[x] = p[x] /\ x # m
      BY <2>3
    <3>4. q[m] = IF AtTop(T, m, top) THEN <<>> ELSE Append(p[T[m].fa], T[m].name)
      OBVIOUS
    <3> HIDE DEF q
    <3>5. ASSUME NEW x \in X
          PROVE  q[x] = IF AtTop(T, x, top) THEN <<>> ELSE Append(q[T[x].fa], T[x].name)
      <4>1. CASE x = m
        BY <2>1, <3>3, <3>4, <4>1
      <4>2. CASE x \in W /\ ~AtTop(T, x, top)
        <5>1. x # root
          BY <4>2 DEF AtTop
        <5>2. T[x].fa \in W /\ p[x] = Append(p[T[x].fa], T[x].name)
          BY <2>1, <4>2, <5>1 DEF PathsOf
        <5> QED BY <3>3, <4>2, <5>2
      <4>3. CASE x \in W /\ AtTop(T, x, top)
        BY <2>1, <3>3, <4>3 DEF PathsOf
      <4> QED BY <4>1, <4>2, <4>3
    <3>6. PathsOf(T, top, X, q)
      BY <3>1, <3>2, <3>5 DEF PathsOf
    <3> HIDE DEF X
    <3>7. m \in X
      BY DEF X
    <3> QED BY <3>6, <3>7
  <2> QED BY <2>2, <2>3
<1>3. DOMAIN T \subseteq S
  <2> HIDE DEF S
  <2> QED BY <1>1, <1>2, ByFathers DEF Rooted
<1> QED BY <1>3

(* The path of a node is that of its father and its name. *)
LEMMA PathIs ==
    ASSUME NEW T, Rooted(T), NEW top, NEW n \in DOMAIN T
    PROVE  PathUpTo(T, n, top) = IF AtTop(T, n, top) THEN <<>>
                                 ELSE Append(PathUpTo(T, T[n].fa, top), T[n].name)
<1> DEFINE good(p, m) == \E W, q : m \in W /\ PathsOf(T, top, W, q) /\ p = q[m]
           g == [m \in DOMAIN T |-> CHOOSE p : good(p, m)]
           f == CHOOSE path : FollowsNames(T, top, DOMAIN T, path)
<1>1. \A m \in DOMAIN T : good(g[m], m)
  <2> SUFFICES ASSUME NEW m \in DOMAIN T PROVE good(g[m], m)
    OBVIOUS
  <2>1. \E p : good(p, m)
    BY PathsExist
  <2>2. g[m] = CHOOSE p : good(p, m)
    OBVIOUS
  <2> HIDE DEF good, g
  <2> QED BY <2>1, <2>2
<1>2. \A m \in DOMAIN T : \A W, q : m \in W /\ PathsOf(T, top, W, q) => g[m] = q[m]
  <2> HIDE DEF g
  <2> QED BY <1>1, PathsUnique
<1>3. ASSUME NEW m \in DOMAIN T
      PROVE  g[m] = IF AtTop(T, m, top) THEN <<>> ELSE Append(g[T[m].fa], T[m].name)
  <2>1. PICK W, q : m \in W /\ PathsOf(T, top, W, q)
    BY PathsExist
  <2> HIDE DEF g
  <2>2. g[m] = q[m] /\ (m # root => T[m].fa \in W /\ T[m].fa \in DOMAIN T)
    BY <1>2, <2>1 DEF PathsOf
  <2>3. m # root => g[T[m].fa] = q[T[m].fa]
    BY <1>2, <2>1, <2>2
  <2>4. ~AtTop(T, m, top) => m # root
    BY DEF AtTop
  <2> QED BY <2>1, <2>2, <2>3, <2>4 DEF PathsOf
<1>4. FollowsNames(T, top, DOMAIN T, g)
  <2>1. g = [m \in DOMAIN T |-> g[m]]
    OBVIOUS
  <2> HIDE DEF g
  <2>2. g = [m \in DOMAIN T |-> IF AtTop(T, m, top) THEN <<>> ELSE Append(g[T[m].fa], T[m].name)]
    BY <1>3, <2>1
  <2> QED BY <2>2 DEF FollowsNames, AtTop
<1>5. FollowsNames(T, top, DOMAIN T, f)
  <2> HIDE DEF g
  <2> QED BY <1>4
<1>6. \A m \in DOMAIN T : PathUpTo(T, m, top) = f[m]
  BY DEF PathUpTo, FollowsNames
<1> HIDE DEF f
<1>7. f[n] = IF AtTop(T, n, top) THEN <<>> ELSE Append(f[T[n].fa], T[n].name)
  BY <1>5 DEF FollowsNames, AtTop
<1>8. ~AtTop(T, n, top) => T[n].fa \in DOMAIN T
  BY FatherIs DEF AtTop
<1> QED BY <1>6, <1>7, <1>8

(* A path consists of names. *)
LEMMA PathTyped ==
    ASSUME NEW T, Rooted(T), NEW top, NEW n \in DOMAIN T
    PROVE  PathUpTo(T, n, top) \in Seq(Words)
<1> DEFINE S == {m \in DOMAIN T : PathUpTo(T, m, top) \in Seq(Words)}
<1>1. root \in S
  <2>1. root \in DOMAIN T /\ AtTop(T, root, top)
    BY DEF AtTop, Rooted, FathersThere
  <2>2. PathUpTo(T, root, top) = <<>>
    BY <2>1, PathIs
  <2> QED BY <2>1, <2>2
<1>2. ASSUME NEW m \in DOMAIN T \ {root}, T[m].fa \in S
      PROVE  m \in S
  <2>1. T[m].name \in Words
    BY DEF Rooted, TreeTyped, FileNode
  <2> DEFINE p == PathUpTo(T, m, top)
             q == PathUpTo(T, T[m].fa, top)
  <2>2. (p = <<>> \/ p = Append(q, T[m].name)) /\ q \in Seq(Words)
    BY <1>2, PathIs
  <2> HIDE DEF p, q
  <2>3. Append(q, T[m].name) \in Seq(Words)
    BY <2>1, <2>2, AppendTyped
  <2>4. p \in Seq(Words)
    BY <2>2, <2>3, EmptyTyped
  <2> QED BY <2>4 DEF p
<1>3. DOMAIN T \subseteq S
  <2> HIDE DEF S
  <2> QED BY <1>1, <1>2, ByFathers DEF Rooted
<1> QED BY <1>3

(* The path of a node is the same where its fathers are the same. *)
LEMMA PathKept ==
    ASSUME NEW T, Rooted(T), NEW U, Rooted(U), NEW top, NEW D \in SUBSET (DOMAIN T \cap DOMAIN U),
           \A m \in D \ {root} : T[m].fa \in D,
           \A m \in D : T[m].fa = U[m].fa /\ T[m].name = U[m].name /\ T[m].kind = U[m].kind
    PROVE  \A m \in D : PathUpTo(T, m, top) = PathUpTo(U, m, top)
<1> DEFINE S == {m \in DOMAIN T : m \in D => PathUpTo(T, m, top) = PathUpTo(U, m, top)}
<1>1. root \in S
  BY PathIs DEF AtTop, Rooted, FathersThere
<1>2. ASSUME NEW m \in DOMAIN T \ {root}, T[m].fa \in S
      PROVE  m \in S
  <2> SUFFICES ASSUME m \in D
               PROVE  PathUpTo(T, m, top) = PathUpTo(U, m, top)
    OBVIOUS
  <2>1. T[m].fa \in D /\ m \in DOMAIN U /\ (AtTop(T, m, top) <=> AtTop(U, m, top))
    BY DEF AtTop
  <2>2. PathUpTo(T, T[m].fa, top) = PathUpTo(U, U[m].fa, top)
    BY <1>2, <2>1
  <2>3. PathUpTo(T, m, top) = IF AtTop(T, m, top) THEN <<>>
                              ELSE Append(PathUpTo(T, T[m].fa, top), T[m].name)
    BY PathIs
  <2>4. PathUpTo(U, m, top) = IF AtTop(U, m, top) THEN <<>>
                              ELSE Append(PathUpTo(U, U[m].fa, top), U[m].name)
    BY <2>1, PathIs
  <2> QED BY <2>1, <2>2, <2>3, <2>4
<1>3. DOMAIN T \subseteq S
  <2> HIDE DEF S
  <2> QED BY <1>1, <1>2, ByFathers DEF Rooted
<1> QED BY <1>3
-----------------------------------------------------------------------------
(* Children.                                                               *)

\* The first l elements of s.
FirstOf(s, l) == [i \in 1 .. l |-> s[i]]

(* One element more of the first ones. *)
LEMMA FirstGrows ==
    ASSUME NEW S, NEW s \in Seq(S), NEW l \in Nat, l <= Len(s)
    PROVE  /\ FirstOf(s, l) \in Seq(S) /\ Len(FirstOf(s, l)) = l
           /\ l > 0 => FirstOf(s, l) # <<>> /\ Last(FirstOf(s, l)) = s[l]
           /\ l < Len(s) => Append(FirstOf(s, l), s[l + 1]) = FirstOf(s, l + 1)
           /\ FirstOf(s, Len(s)) = s
<1>1. FirstOf(s, l) \in Seq(S) /\ Len(FirstOf(s, l)) = l
  BY DEF FirstOf
<1>2. l > 0 => FirstOf(s, l) # <<>> /\ FirstOf(s, l)[l] = s[l]
  BY DEF FirstOf
<1>3. l < Len(s) => Append(FirstOf(s, l), s[l + 1]) = FirstOf(s, l + 1)
  BY DEF FirstOf
<1>4. FirstOf(s, Len(s)) = s
  BY DEF FirstOf
<1> QED BY <1>1, <1>2, <1>3, <1>4 DEF Last

(* The numbers up to n are n. *)
LEMMA CountTo ==
    ASSUME NEW n \in Nat
    PROVE  Cardinality(1 .. n) = n
<1>1. \A a, b \in Int : Cardinality(a .. b) = IF a > b THEN 0 ELSE b - a + 1
  BY FS_Interval
<1>2. Cardinality(1 .. n) = IF 1 > n THEN 0 ELSE n - 1 + 1
  <2>1. 1 \in Int /\ n \in Int
    OBVIOUS
  <2> QED BY Zenon, <1>1, <2>1
<1> QED BY <1>2

(* A sequence without repetition is no longer than the set is large. *)
LEMMA ShortEnough ==
    ASSUME NEW S, IsFiniteSet(S), NEW s \in Seq(S),
           \A i, j \in 1 .. Len(s) : s[i] = s[j] => i = j
    PROVE  Cardinality(S) \in Nat /\ Len(s) <= Cardinality(S)
<1>1. Len(s) \in Nat /\ DOMAIN s = 1 .. Len(s)
  OBVIOUS
<1>2. s \in Injection(1 .. Len(s), S)
  BY DEF Injection, IsInjective
<1>3. Cardinality(1 .. Len(s)) <= Cardinality(S)
  BY <1>2, FS_Injection
<1>4. Cardinality(1 .. Len(s)) = Len(s)
  BY <1>1, CountTo
<1> QED BY <1>1, <1>3, <1>4, FS_CardinalityType

FollowsChildren(T, n, upTo) ==
    upTo = [k \in 0 .. Cardinality(DOMAIN T) |->
               IF k = 0 THEN IF T[n].child = Null THEN <<>> ELSE <<T[n].child>>
               ELSE With(upTo[k - 1], LAMBDA s : Further(T, s))]

(* Children gives the list of the children. *)
LEMMA ChildrenIs ==
    ASSUME NEW T, TreeTyped(T), NEW n \in DOMAIN T, NEW s, IsChildList(T, n, s)
    PROVE  Children(T, n) = s
<1> DEFINE N == Cardinality(DOMAIN T)
           least(k) == IF k < Len(s) THEN k + 1 ELSE Len(s)
           g == [k \in 0 .. N |-> FirstOf(s, least(k))]
           start == IF T[n].child = Null THEN <<>> ELSE <<T[n].child>>
           h == CHOOSE f : FollowsChildren(T, n, f)
<1>1. N \in Nat /\ Len(s) <= N /\ Len(s) \in Nat /\ s \in Seq(DOMAIN T)
  BY ShortEnough DEF TreeTyped, IsChildList
<1>2. DOMAIN T \subseteq Nat /\ Null \notin DOMAIN T /\ \A i \in 1 .. Len(s) : s[i] \in DOMAIN T
  BY <1>1, VFSAssumption DEF TreeTyped
<1>3. \A k \in 0 .. N : least(k) \in Nat /\ least(k) <= Len(s)
  BY <1>1
<1>4. \A k \in 0 .. N : g[k] = FirstOf(s, least(k))
  OBVIOUS
<1>5. g[0] = start
  <2>1. CASE s = <<>>
    <3>1. start = <<>> /\ least(0) = 0
      BY <2>1 DEF IsChildList
    <3>2. FirstOf(s, 0) = <<>>
      BY DEF FirstOf
    <3> QED BY <1>1, <3>1, <3>2
  <2>2. CASE s # <<>>
    <3>1. 1 \in 1 .. Len(s) /\ T[n].child = s[1]
      BY <1>1, <2>2 DEF IsChildList
    <3>2. start = <<s[1]>> /\ least(0) = 1
      BY <1>1, <1>2, <3>1
    <3>3. FirstOf(s, 1) = <<s[1]>>
      BY DEF FirstOf
    <3> QED BY <1>1, <3>2, <3>3
  <2> QED BY <2>1, <2>2
<1>6. ASSUME NEW k \in 1 .. N
      PROVE  g[k] = Further(T, g[k - 1])
  <2>1. k - 1 \in 0 .. N /\ k \in 0 .. N
    BY <1>1
  <2> DEFINE l == least(k - 1)
             t == FirstOf(s, l)
  <2>2. g[k - 1] = t /\ g[k] = FirstOf(s, least(k)) /\ l \in Nat /\ l <= Len(s)
    BY <1>3, <2>1
  <2>3. CASE k < Len(s)
    <3>1. l = k /\ l \in 1 .. Len(s) /\ l # Len(s) /\ least(k) = k + 1 /\ k + 1 \in 1 .. Len(s)
      BY <1>1, <2>3
    <3>2. t # <<>> /\ Last(t) = s[l] /\ Append(t, s[l + 1]) = FirstOf(s, l + 1)
      BY <1>1, <2>3, <3>1, FirstGrows
    <3> HIDE DEF t, l
    <3>3. T[s[l]].nxt = s[l + 1] /\ s[l + 1] # Null
      <4>1. l + 1 \in 1 .. Len(s)
        BY <3>1
      <4>2. s[l + 1] # Null
        BY <1>2, <4>1
      <4>3. T[s[l]].nxt = IF l = Len(s) THEN Null ELSE s[l + 1]
        BY <3>1 DEF IsChildList
      <4> QED BY <3>1, <4>2, <4>3
    <3>4. Further(T, t) = Append(t, s[l + 1])
      BY <3>2, <3>3 DEF Further
    <3> HIDE DEF g
    <3> QED BY <2>2, <3>1, <3>2, <3>4
  <2>4. CASE ~ (k < Len(s))
    <3>1. least(k) = Len(s) /\ l = Len(s)
      BY <1>1, <2>1, <2>4
    <3>2. g[k] = t
      BY <2>2, <3>1
    <3>3. Further(T, t) = t
      <4>1. CASE Len(s) = 0
        <5>1. t = <<>>
          BY <3>1, <4>1 DEF FirstOf
        <5> HIDE DEF t
        <5> QED BY <5>1 DEF Further
      <4>2. CASE Len(s) # 0
        <5>1. Last(t) = s[l] /\ l \in 1 .. Len(s)
          BY <1>1, <3>1, <4>2, FirstGrows
        <5>2. T[s[l]].nxt = Null
          BY <3>1, <5>1 DEF IsChildList
        <5> HIDE DEF t, l
        <5> QED BY <5>1, <5>2 DEF Further
      <4> QED BY <4>1, <4>2
    <3> HIDE DEF g, t
    <3> QED BY <2>2, <3>2, <3>3
  <2> QED BY <2>3, <2>4
<1>7. FollowsChildren(T, n, g)
  <2>1. g = [k \in 0 .. N |-> g[k]]
    OBVIOUS
  <2> HIDE DEF g
  <2>2. \A k \in 0 .. N : g[k] = IF k = 0 THEN start ELSE Further(T, g[k - 1])
    BY <1>1, <1>5, <1>6
  <2>3. \A k \in 0 .. N :
           g[k] = IF k = 0 THEN start ELSE With(g[k - 1], LAMBDA t : Further(T, t))
    BY <2>2 DEF With
  <2> QED BY <2>1, <2>3 DEF FollowsChildren, With
<1>8. FollowsChildren(T, n, h)
  <2> HIDE DEF g
  <2> QED BY <1>7
<1>9. Children(T, n) = h[N]
  BY DEF Children, FollowsChildren, With
<1> HIDE DEF h
<1>10. h[0] = start /\ \A k \in 1 .. N : h[k] = Further(T, h[k - 1])
  <2>1. N \in Nat
    BY <1>1
  <2> QED BY <1>8, <2>1 DEF FollowsChildren, With
<1> HIDE DEF g, start
<1>11. h[N] = g[N]
  <2>1. \A k \in 1 .. N : h[k - 1] = g[k - 1] => h[k] = g[k]
    BY <1>6, <1>10
  <2> HIDE DEF N
  <2> QED BY <1>1, <1>5, <1>10, <2>1, OneLoop
<1>12. least(N) = Len(s) /\ N \in 0 .. N
  BY <1>1
<1> QED BY <1>1, <1>4, <1>9, <1>11, <1>12, FirstGrows

(* A list of children with an injective numbering is what FindChildName    *)
(* searches: it gives the child of that name, when there is one.           *)
LEMMA FindChildNameIs ==
    ASSUME NEW T, Shaped(T), NEW n \in DOMAIN T, NEW name
    PROVE  /\ FindChildName(T, n, name) \in DOMAIN T \union {Null}
           /\ FindChildName(T, n, name) # Null =>
                 T[FindChildName(T, n, name)].fa = n /\ T[FindChildName(T, n, name)].name = name
           /\ \A m \in DOMAIN T : T[m].fa = n /\ T[m].name = name => FindChildName(T, n, name) = m
<1> DEFINE all == Children(T, n)
           I == {i \in 1 .. Len(all) : T[all[i]].name = name}
           c == FindChildName(T, n, name)
<1>1. IsChildList(T, n, all) /\ Null \notin DOMAIN T
  BY VFSAssumption DEF Shaped, Linked, Rooted, TreeTyped
<1>2. I \in SUBSET Nat
  OBVIOUS
<1>3. c = IF I = {} THEN Null ELSE all[Min(I)]
  <2> DEFINE i == SelectInSeq(all, LAMBDA m : T[m].name = name)
  <2>1. i = IF I # {} THEN Min(I) ELSE 0
    BY DEF SelectInSeq
  <2>2. c = IF i = 0 THEN Null ELSE all[i]
    BY DEF FindChildName, With
  <2> HIDE DEF i, all, c
  <2>3. I # {} => Min(I) # 0
    <3>1. 0 \notin I
      OBVIOUS
    <3> HIDE DEF I
    <3> QED BY <1>2, <3>1, LeastNumber
  <2> QED BY <2>1, <2>2, <2>3
<1> HIDE DEF all, c
<1>4. CASE I = {}
  <2>1. \A m \in DOMAIN T : T[m].fa = n => T[m].name # name
    <3> SUFFICES ASSUME NEW m \in DOMAIN T, T[m].fa = n
                 PROVE  T[m].name # name
      OBVIOUS
    <3>1. PICK i \in 1 .. Len(all) : all[i] = m
      BY <1>1 DEF IsChildList
    <3> QED BY <1>4, <3>1
  <2> QED BY <1>3, <1>4, <2>1 DEF c
<1>5. CASE I # {}
  <2>1. Min(I) \in I
    BY <1>2, <1>5, LeastNumber
  <2>2. c \in DOMAIN T /\ T[c].fa = n /\ T[c].name = name
    BY <1>1, <1>3, <1>5, <2>1 DEF IsChildList
  <2> QED BY <2>2 DEF c, Shaped, NamesApart
<1> QED BY <1>4, <1>5
-----------------------------------------------------------------------------
(* What is added to the tree.                                              *)

(* A new node has a number that no other has. *)
LEMMA FreshIs ==
    ASSUME NEW T, TreeTyped(T)
    PROVE  Fresh(T) \in Nat \ {0} /\ Fresh(T) \notin DOMAIN T
<1> DEFINE D == DOMAIN T
           N == Cardinality(D)
           Out == {n \in Nat : n # 0 /\ n \notin D}
           least == Min(Out)
<1>1. IsFiniteSet(D) /\ D \subseteq Nat \ {0} /\ N \in Nat
  BY FS_CardinalityType DEF TreeTyped
<1> HIDE DEF D
<1>2. \A k \in Nat : 1 .. k \subseteq D => k <= N
  <2> SUFFICES ASSUME NEW k \in Nat, 1 .. k \subseteq D
               PROVE  k <= N
    OBVIOUS
  <2>1. Cardinality(1 .. k) <= N
    BY <1>1, FS_Subset
  <2>2. Cardinality(1 .. k) = IF 1 > k THEN 0 ELSE k - 1 + 1
    BY FS_Interval
  <2> QED BY <1>1, <2>1, <2>2
<1>3. Out # {}
  <2>1. ~ (1 .. N + 1 \subseteq D)
    BY <1>1, <1>2
  <2> QED BY <1>1, <2>1
<1>4. least \in Out /\ \A n \in Out : least <= n
  <2>1. Out \in SUBSET Nat
    OBVIOUS
  <2> HIDE DEF Out
  <2> QED BY <1>3, <2>1, LeastNumber
<1> HIDE DEF least
<1>5. 1 .. least - 1 \subseteq D
  BY <1>4
<1>6. least \in 1 .. N + 1
  BY <1>1, <1>2, <1>4, <1>5
<1> DEFINE good(n) == n \in 1 .. N + 1 /\ n \notin D /\ 1 .. n - 1 \subseteq D
<1>7. Fresh(T) = CHOOSE n \in 1 .. N + 1 : n \notin D /\ 1 .. n - 1 \subseteq D
  BY DEF Fresh, D
<1>8. Fresh(T) \in 1 .. N + 1 /\ Fresh(T) \notin D
  <2> HIDE DEF N
  <2> QED BY <1>4, <1>5, <1>6, <1>7
<1> QED BY <1>1, <1>8 DEF D

(* The lists of children that there are are those that Children gives. *)
LEMMA LinkedBy ==
    ASSUME NEW T, TreeTyped(T), \A n \in DOMAIN T : \E s : IsChildList(T, n, s)
    PROVE  Linked(T)
BY ChildrenIs DEF Linked

\* U has the nodes of T and a child n of fa before the others.
GrownBy(T, U, n, fa, name, kind) ==
    /\ DOMAIN U = DOMAIN T \union {n} /\ TreeTyped(U) /\ n \notin DOMAIN T
    /\ U[n].name = name /\ U[n].kind = kind /\ U[n].fa = fa /\ U[n].pre = Null
    /\ U[n].nxt = T[fa].child /\ U[n].child = Null /\ U[n].refs = 0 /\ ~U[n].auto
    /\ \A m \in DOMAIN T :
          /\ U[m].name = T[m].name /\ U[m].kind = T[m].kind /\ U[m].fa = T[m].fa
          /\ U[m].refs = T[m].refs /\ U[m].auto = T[m].auto /\ U[m].nxt = T[m].nxt
          /\ U[m].child = IF m = fa THEN n ELSE T[m].child
          /\ U[m].pre = IF m = T[fa].child THEN n ELSE T[m].pre

(* The fields of the nodes after AddNewNode of a new node.                 *)
LEMMA AddedIs ==
    ASSUME NEW T, TreeTyped(T), NEW fa \in DOMAIN T, T[fa].child # fa,
           NEW name \in Words, NEW kind \in Kinds
    PROVE  GrownBy(T, Added(T, New(name, kind), fa), Fresh(T), fa, name, kind)
<1> DEFINE n == Fresh(T)
           U == Added(T, New(name, kind), fa)
           x == [New(name, kind) EXCEPT !.fa = fa, !.nxt = T[fa].child]
           old == T[fa].child
<1>1. n \in Nat \ {0} /\ n \notin DOMAIN T
  BY FreshIs
<1>2. \A m \in DOMAIN T : T[m] \in FileNode /\ m \in Nat \ {0}
  BY DEF TreeTyped
<1>3. U = [m \in DOMAIN T \union {n} |->
              IF m = n THEN x
              ELSE IF m = fa THEN [T[m] EXCEPT !.child = n]
              ELSE IF m = old THEN [T[m] EXCEPT !.pre = n]
              ELSE T[m]]
  BY DEF Added
<1>4. /\ x \in FileNode
      /\ x.name = name /\ x.kind = kind /\ x.fa = fa /\ x.pre = Null
      /\ x.nxt = old /\ x.child = Null /\ x.refs = 0 /\ ~x.auto
  BY <1>2 DEF New, FileNode
<1> HIDE DEF n, U, x
<1>5. \A m \in DOMAIN T : /\ [T[m] EXCEPT !.child = n] \in FileNode
                          /\ [T[m] EXCEPT !.pre = n] \in FileNode
  BY <1>1, <1>2 DEF FileNode
<1>6. DOMAIN U = DOMAIN T \union {n} /\ U[n] = x
  BY <1>3
<1>7. \A m \in DOMAIN T : U[m] = IF m = fa THEN [T[m] EXCEPT !.child = n]
                                 ELSE IF m = old THEN [T[m] EXCEPT !.pre = n]
                                 ELSE T[m]
  BY <1>1, <1>3
<1>8. TreeTyped(U)
  <2>1. U \in [DOMAIN U -> FileNode]
    BY <1>2, <1>3, <1>4, <1>5
  <2>2. DOMAIN U \in SUBSET (Nat \ {0}) /\ IsFiniteSet(DOMAIN U)
    BY <1>1, <1>6, FS_AddElement DEF TreeTyped
  <2> QED BY <2>1, <2>2 DEF TreeTyped
<1>9. ASSUME NEW m \in DOMAIN T
      PROVE  /\ U[m].name = T[m].name /\ U[m].kind = T[m].kind /\ U[m].fa = T[m].fa
             /\ U[m].refs = T[m].refs /\ U[m].auto = T[m].auto /\ U[m].nxt = T[m].nxt
             /\ U[m].child = IF m = fa THEN n ELSE T[m].child
             /\ U[m].pre = IF m = old THEN n ELSE T[m].pre
  <2> HIDE DEF old
  <2>1. CASE m = fa
    <3>1. U[m] = [T[m] EXCEPT !.child = n] /\ m # old
      BY <1>7, <2>1 DEF old
    <3> QED BY <1>2, <2>1, <3>1 DEF FileNode
  <2>2. CASE m # fa /\ m = old
    <3>1. U[m] = [T[m] EXCEPT !.pre = n]
      BY <1>7, <2>2
    <3> QED BY <1>2, <2>2, <3>1 DEF FileNode
  <2>3. CASE m # fa /\ m # old
    <3>1. U[m] = T[m]
      BY <1>7, <2>3
    <3> QED BY <2>3, <3>1
  <2> QED BY <2>1, <2>2, <2>3
<1>10. GrownBy(T, U, n, fa, name, kind)
  BY <1>1, <1>4, <1>6, <1>8, <1>9 DEF GrownBy
<1> QED BY <1>10 DEF n, U

(* A child of a node is none of its own, so the first child of a node is   *)
(* another node.                                                           *)
LEMMA ChildApart ==
    ASSUME NEW T, Shaped(T), NEW n \in DOMAIN T
    PROVE  T[n].child # n /\ \A m \in DOMAIN T : T[m].fa = n => m # n
<1>1. \A m \in DOMAIN T : T[m].fa # m
  BY FatherApart, FatherIs, VFSAssumption DEF Shaped, Rooted, TreeTyped
<1>2. IsChildList(T, n, Children(T, n)) /\ n # Null
  BY VFSAssumption DEF Shaped, Linked, Rooted, TreeTyped
<1>3. T[n].child = n => T[n].fa = n
  BY <1>2 DEF IsChildList
<1> QED BY <1>1, <1>3

(* SetFa of a new node keeps the shape of the tree, when no other child of *)
(* its father has its name.                                                *)
LEMMA AddedShaped ==
    ASSUME NEW T, Shaped(T), NEW fa \in DOMAIN T, NEW name \in Words, NEW kind \in Kinds,
           \A m \in DOMAIN T : T[m].fa = fa => T[m].name # name
    PROVE  Shaped(Added(T, New(name, kind), fa))
<1> DEFINE n == Fresh(T)
           U == Added(T, New(name, kind), fa)
<1>1. TreeTyped(T) /\ FathersThere(T) /\ Acyclic(T) /\ Linked(T) /\ NamesApart(T)
  BY DEF Shaped, Rooted
<1>2. GrownBy(T, U, n, fa, name, kind)
  BY <1>1, AddedIs, ChildApart
<1> HIDE DEF n, U
<1> USE DEF GrownBy
<1>3. FathersThere(U)
  BY <1>1, <1>2 DEF FathersThere
<1>4. Null \notin DOMAIN U
  BY <1>2, VFSAssumption DEF TreeTyped
<1>5. Acyclic(U)
  <2> SUFFICES ASSUME NEW S \in SUBSET (DOMAIN U \ {root}), S # {}
               PROVE  \E m \in S : U[m].fa \notin S
    BY DEF Acyclic
  <2>1. CASE S \ {n} = {}
    BY <1>2, <2>1
  <2>2. CASE S \ {n} # {}
    <3>1. S \ {n} \in SUBSET (DOMAIN T \ {root})
      BY <1>2
    <3>2. PICK m \in S \ {n} : T[m].fa \notin S \ {n}
      BY <1>1, <2>2, <3>1 DEF Acyclic
    <3>3. m \in DOMAIN T /\ T[m].fa \in DOMAIN T
      BY <1>1, <3>1, <3>2 DEF FathersThere
    <3> QED BY <1>2, <3>2, <3>3
  <2> QED BY <2>1, <2>2
<1>6. \A x \in DOMAIN T : T[x].fa # n
  BY <1>1, <1>2, <1>4 DEF FathersThere
<1>7. ASSUME NEW m \in DOMAIN U
      PROVE  \E s : IsChildList(U, m, s)
  <2>1. CASE m = n
    <3>1. \A x \in DOMAIN U : U[x].fa # n
      BY <1>2, <1>6
    <3>2. IsChildList(U, n, <<>>)
      BY <1>2, <3>1 DEF IsChildList
    <3> QED BY <2>1, <3>2
  <2>2. CASE m # n /\ m # fa
    <3> DEFINE s == Children(T, m)
    <3>1. IsChildList(T, m, s) /\ m \in DOMAIN T
      BY <1>1, <1>2, <2>2 DEF Linked
    <3>2. T[fa].child # Null => T[T[fa].child].fa = fa
      <4>1. IsChildList(T, fa, Children(T, fa))
        BY <1>1 DEF Linked
      <4> QED BY <4>1 DEF IsChildList
    <3> HIDE DEF s
    <3>3. s \in Seq(DOMAIN U) /\ Len(s) \in Nat
      BY <1>2, <3>1 DEF IsChildList
    <3>4. ASSUME NEW i \in 1 .. Len(s)
          PROVE  /\ s[i] \in DOMAIN U /\ U[s[i]].fa = m
                 /\ U[s[i]].pre = IF i = 1 THEN Null ELSE s[i - 1]
                 /\ U[s[i]].nxt = IF i = Len(s) THEN Null ELSE s[i + 1]
      <4>1. s[i] \in DOMAIN T /\ T[s[i]].fa = m
        BY <3>1 DEF IsChildList
      <4>2. s[i] # T[fa].child
        BY <1>2, <1>4, <2>2, <3>2, <4>1
      <4> QED BY <1>2, <3>1, <4>1, <4>2 DEF IsChildList
    <3>5. \A x \in DOMAIN U : U[x].fa = m => \E i \in 1 .. Len(s) : s[i] = x
      BY <1>2, <2>2, <3>1 DEF IsChildList
    <3>6. IsChildList(U, m, s)
      BY <1>2, <2>2, <3>1, <3>3, <3>4, <3>5 DEF IsChildList
    <3> QED BY <3>6
  <2>3. CASE m = fa
    <3> DEFINE s == Children(T, fa)
               t == [i \in 1 .. Len(s) + 1 |-> IF i = 1 THEN n ELSE s[i - 1]]
    <3>1. IsChildList(T, fa, s)
      BY <1>1, <1>2 DEF Linked
    <3> HIDE DEF s
    <3>2. s \in Seq(DOMAIN T) /\ Len(s) \in Nat /\ \A i \in 1 .. Len(s) : s[i] \in DOMAIN T /\ s[i] # n
      BY <1>2, <3>1 DEF IsChildList
    <3>3. /\ t \in Seq(DOMAIN U) /\ Len(t) = Len(s) + 1 /\ t[1] = n
          /\ \A i \in 2 .. Len(t) : t[i] = s[i - 1] /\ i - 1 \in 1 .. Len(s) /\ i \in 1 .. Len(t)
      <4>1. Len(s) + 1 \in Nat /\ n \in DOMAIN U
        BY <1>2, <3>2
      <4>2. \A i \in 1 .. Len(s) + 1 : t[i] \in DOMAIN U
        BY <1>2, <3>2, <4>1
      <4>3. t \in Seq(DOMAIN U) /\ Len(t) = Len(s) + 1
        BY <4>1, <4>2
      <4> QED BY <3>2, <4>1, <4>3
    <3>4. t # <<>>
      BY <3>2, <3>3
    <3> HIDE DEF t
    <3>5. T[fa].child = IF Len(s) = 0 THEN Null ELSE s[1]
      BY <3>1, <3>2 DEF IsChildList
    <3>6. ASSUME NEW i \in 1 .. Len(t)
          PROVE  /\ t[i] \in DOMAIN U /\ U[t[i]].fa = fa
                 /\ U[t[i]].pre = IF i = 1 THEN Null ELSE t[i - 1]
                 /\ U[t[i]].nxt = IF i = Len(t) THEN Null ELSE t[i + 1]
      <4>1. CASE i = 1
        <5>1. Len(s) # 0 => t[2] = s[1]
          BY <3>2, <3>3
        <5> QED BY <1>2, <3>2, <3>3, <3>5, <4>1, <5>1
      <4>2. CASE i # 1
        <5> DEFINE j == i - 1
        <5>1. j \in 1 .. Len(s) /\ t[i] = s[j] /\ i \in 2 .. Len(t) /\ i = j + 1
          BY <3>2, <3>3, <4>2
        <5>2. t[i - 1] = IF j = 1 THEN n ELSE s[j - 1]
          <6>1. j # 1 => j \in 2 .. Len(t)
            BY <3>3, <5>1
          <6> QED BY <3>3, <5>1, <6>1
        <5>3. i # Len(t) => t[i + 1] = s[j + 1]
          <6>1. i # Len(t) => i + 1 \in 2 .. Len(t) /\ (i + 1) - 1 = j + 1
            BY <3>2, <3>3, <5>1
          <6> QED BY <3>3, <6>1
        <5>4. i = Len(t) <=> j = Len(s)
          BY <3>2, <3>3, <5>1
        <5> HIDE DEF j
        <5>5. /\ s[j] \in DOMAIN T /\ T[s[j]].fa = fa
              /\ T[s[j]].pre = IF j = 1 THEN Null ELSE s[j - 1]
              /\ T[s[j]].nxt = IF j = Len(s) THEN Null ELSE s[j + 1]
          BY <3>1, <5>1 DEF IsChildList
        <5>6. s[j] = T[fa].child <=> j = 1
          <6>1. 1 \in 1 .. Len(s) /\ T[fa].child = s[1]
            BY <3>2, <3>5, <5>1
          <6> QED BY <3>1, <5>1, <6>1 DEF IsChildList
        <5> QED BY <1>2, <4>2, <5>1, <5>2, <5>3, <5>4, <5>5, <5>6
      <4> QED BY <4>1, <4>2
    <3>7. \A i, j \in 1 .. Len(t) : t[i] = t[j] => i = j
      <4> SUFFICES ASSUME NEW i \in 1 .. Len(t), NEW j \in 1 .. Len(t), t[i] = t[j]
                   PROVE  i = j
        OBVIOUS
      <4>1. i = 1 \/ i \in 2 .. Len(t)
        BY <3>2, <3>3
      <4>2. j = 1 \/ j \in 2 .. Len(t)
        BY <3>2, <3>3
      <4>3. CASE i \in 2 .. Len(t) /\ j \in 2 .. Len(t)
        <5>1. s[i - 1] = s[j - 1] /\ i - 1 \in 1 .. Len(s) /\ j - 1 \in 1 .. Len(s)
          BY <3>3, <4>3
        <5>2. i - 1 = j - 1
          BY <3>1, <5>1 DEF IsChildList
        <5> QED BY <5>2
      <4> QED BY <3>2, <3>3, <4>1, <4>2, <4>3
    <3>8. ASSUME NEW x \in DOMAIN U, U[x].fa = fa
          PROVE  \E i \in 1 .. Len(t) : t[i] = x
      <4>1. CASE x = n
        BY <3>2, <3>3, <4>1
      <4>2. CASE x # n
        <5>1. PICK j \in 1 .. Len(s) : s[j] = x
          BY <1>2, <3>1, <3>8, <4>2 DEF IsChildList
        <5>2. j + 1 \in 2 .. Len(t) /\ (j + 1) - 1 = j
          BY <3>2, <3>3
        <5> QED BY <3>3, <5>1, <5>2
      <4> QED BY <4>1, <4>2
    <3>9. IsChildList(U, fa, t)
      BY <1>2, <3>3, <3>4, <3>6, <3>7, <3>8 DEF IsChildList
    <3> QED BY <2>3, <3>9
  <2> QED BY <2>1, <2>2, <2>3
<1>8. Linked(U)
  BY <1>2, <1>7, LinkedBy
<1>9. NamesApart(U)
  BY <1>1, <1>2 DEF NamesApart
<1> QED BY <1>2, <1>3, <1>5, <1>8, <1>9 DEF Shaped, Rooted, U

(* What is in a node that is added fits, when the volume's files are put   *)
(* into the volume and all else into plain directories.                    *)
LEMMA AddedSound ==
    ASSUME NEW T, Shaped(T), KindsFit(T), NEW fa \in DOMAIN T, NEW name \in Words, NEW kind \in Kinds,
           \A m \in DOMAIN T : T[m].fa = fa => T[m].name # name,
           IF kind \in {"folder", "file"} THEN BelongVFS(T[fa]) ELSE T[fa].kind = "dir",
           kind = "mount" => AtMount(T, name, fa) /\ \A m \in DOMAIN T : T[m].kind # "mount"
    PROVE  LET U == Added(T, New(name, kind), fa)
           IN  Shaped(U) /\ KindsFit(U) /\ (TmpThere(T) => TmpThere(U))
<1> DEFINE n == Fresh(T)
           U == Added(T, New(name, kind), fa)
<1>1. Shaped(U)
  BY AddedShaped
<1>2. GrownBy(T, U, n, fa, name, kind)
  BY AddedIs, ChildApart DEF Shaped, Rooted
<1>3. root \in DOMAIN T /\ \A m \in DOMAIN T \ {root} : T[m].fa \in DOMAIN T
  BY DEF Shaped, Rooted, FathersThere
<1> HIDE DEF n, U
<1> USE DEF GrownBy
<1>4. KindsFit(U)
  <2>1. U[root].kind = "dir"
    BY <1>2, <1>3 DEF KindsFit
  <2>2. ASSUME NEW m \in DOMAIN U \ {root}
        PROVE  IF U[m].kind \in {"folder", "file"} THEN BelongVFS(U[U[m].fa])
               ELSE U[U[m].fa].kind = "dir"
    BY <1>2, <1>3 DEF KindsFit, BelongVFS
  <2>3. \A m \in DOMAIN U : U[m].auto => U[m].kind = "temp"
    BY <1>2 DEF KindsFit
  <2>4. \A m, k \in DOMAIN U : U[m].kind = "mount" /\ U[k].kind = "mount" => m = k
    BY <1>2 DEF KindsFit
  <2>5. ASSUME NEW m \in DOMAIN U, U[m].kind = "mount"
        PROVE  AtMount(U, U[m].name, U[m].fa)
    <3>1. CASE m = n
      BY <1>2, <2>5, <3>1 DEF AtMount
    <3>2. CASE m # n
      <4>1. /\ m \in DOMAIN T \ {root} /\ AtMount(T, T[m].name, T[m].fa)
            /\ U[m].name = T[m].name /\ U[m].fa = T[m].fa
        BY <1>2, <2>1, <2>5, <3>2 DEF KindsFit
      <4> QED BY <1>2, <1>3, <4>1 DEF AtMount
    <3> QED BY <3>1, <3>2
  <2> QED BY <2>1, <2>2, <2>3, <2>4, <2>5 DEF KindsFit
<1>5. TmpThere(T) => TmpThere(U)
  BY <1>2 DEF TmpThere
<1> QED BY <1>1, <1>4, <1>5 DEF U

(* A file of the volume that gets a node.                                  *)
LEMMA AddedStands ==
    ASSUME NEW T, Shaped(T), NEW V, NodesIn(T, V), NEW fa \in DOMAIN T, NEW name \in Words, NEW kind \in Kinds,
           \A m \in DOMAIN T : T[m].fa = fa => T[m].name # name,
           kind \in {"file", "folder"} =>
               Append(PathInVFS(T, fa), name) \in DOMAIN V /\ V[Append(PathInVFS(T, fa), name)] = kind
    PROVE  NodesIn(Added(T, New(name, kind), fa), V)
<1> DEFINE n == Fresh(T)
           U == Added(T, New(name, kind), fa)
<1>1. Rooted(T) /\ Rooted(U)
  BY AddedShaped DEF Shaped
<1>2. GrownBy(T, U, n, fa, name, kind)
  BY AddedIs, ChildApart DEF Shaped, Rooted
<1>3. \A m \in DOMAIN T \ {root} : T[m].fa \in DOMAIN T
  BY <1>1 DEF Rooted, FathersThere
<1> HIDE DEF n, U
<1> USE DEF GrownBy
<1>4. \A m \in DOMAIN T : PathInVFS(U, m) = PathInVFS(T, m)
  <2>1. DOMAIN T \in SUBSET (DOMAIN T \cap DOMAIN U)
    BY <1>2
  <2>2. \A m \in DOMAIN T : PathUpTo(T, m, "mount") = PathUpTo(U, m, "mount")
    BY <1>1, <1>2, <1>3, <2>1, PathKept
  <2> QED BY <2>2 DEF PathInVFS
<1>5. kind \in {"file", "folder"} => PathInVFS(U, n) = Append(PathInVFS(T, fa), name)
  <2> SUFFICES ASSUME kind \in {"file", "folder"}
               PROVE  PathInVFS(U, n) = Append(PathInVFS(T, fa), name)
    OBVIOUS
  <2>1. n # root /\ fa # Null /\ n \in DOMAIN U
    BY <1>1, <1>2, VFSAssumption DEF Rooted, FathersThere, TreeTyped
  <2>2. ~AtTop(U, n, "mount")
    BY <1>2, <2>1 DEF AtTop
  <2>3. PathInVFS(U, n) = Append(PathInVFS(U, fa), name)
    BY <1>1, <1>2, <2>1, <2>2, PathIs DEF PathInVFS
  <2> QED BY <1>4, <2>3
<1>6. Standing(U, V)
  <2> SUFFICES ASSUME NEW m \in DOMAIN U, U[m].kind \in {"file", "folder"}
               PROVE  PathInVFS(U, m) \in DOMAIN V /\ V[PathInVFS(U, m)] = U[m].kind
    BY DEF Standing
  <2>1. CASE m = n
    BY <1>2, <1>5, <2>1
  <2>2. CASE m # n
    <3>1. m \in DOMAIN T /\ U[m].kind = T[m].kind /\ PathInVFS(U, m) = PathInVFS(T, m)
      BY <1>2, <1>4, <2>2
    <3> QED BY <3>1 DEF NodesIn, Standing
  <2> QED BY <2>1, <2>2
<1>7. MountedFor(U, V)
  BY <1>2 DEF NodesIn, MountedFor
<1> QED BY <1>6, <1>7 DEF NodesIn, U
-----------------------------------------------------------------------------
(* What is deleted from the tree.                                          *)

(* The father of a node is not under it, nor is the root.                  *)
LEMMA FatherStays ==
    ASSUME NEW T, Rooted(T), NEW n \in DOMAIN T \ {root}
    PROVE  T[n].fa \notin Under(T, n) /\ root \notin Under(T, n)
<1> DEFINE G == Under(T, n)
<1>1. /\ G \in SUBSET DOMAIN T
      /\ \A m \in DOMAIN T : m \in G <=> m = n \/ (m # root /\ T[m].fa \in G)
  BY UnderIs
<1> HIDE DEF G
<1>2. root \notin G
  BY <1>1 DEF Rooted, FathersThere
<1>3. G \in SUBSET (DOMAIN T \ {root}) /\ G # {}
  BY <1>1, <1>2
<1>4. PICK m \in G : T[m].fa \notin G
  BY <1>3 DEF Rooted, Acyclic
<1>5. m = n
  BY <1>1, <1>4
<1> QED BY <1>2, <1>4, <1>5 DEF G

(* The place of a node among the children of its father, and who is next   *)
(* to it.                                                                  *)
LEMMA PlaceIs ==
    ASSUME NEW T, Shaped(T), NEW n \in DOMAIN T \ {root}, NEW s, IsChildList(T, T[n].fa, s)
    PROVE  /\ s \in Seq(DOMAIN T) /\ Len(s) \in Nat
           /\ \E i \in 1 .. Len(s) :
                 /\ s[i] = n
                 /\ T[n].pre = IF i = 1 THEN Null ELSE s[i - 1]
                 /\ T[n].nxt = IF i = Len(s) THEN Null ELSE s[i + 1]
<1>1. s \in Seq(DOMAIN T)
  BY DEF IsChildList
<1>2. PICK i \in 1 .. Len(s) : s[i] = n
  BY DEF IsChildList
<1> QED BY <1>1, <1>2 DEF IsChildList

(* The neighbours of a node are children of its father, each another one.  *)
LEMMA Neighbours ==
    ASSUME NEW T, Shaped(T), NEW n \in DOMAIN T \ {root}
    PROVE  /\ T[n].fa \in DOMAIN T /\ T[n].fa # T[n].pre /\ T[n].fa # T[n].nxt
           /\ T[n].pre # Null => T[n].pre \in DOMAIN T /\ T[T[n].pre].fa = T[n].fa /\ T[n].pre # T[n].nxt
           /\ T[n].nxt # Null => T[n].nxt \in DOMAIN T /\ T[T[n].nxt].fa = T[n].fa
<1> DEFINE s == Children(T, T[n].fa)
<1>1. T[n].fa \in DOMAIN T /\ Null \notin DOMAIN T
  BY FatherIs, VFSAssumption DEF Shaped, Rooted, TreeTyped
<1>2. IsChildList(T, T[n].fa, s)
  BY <1>1 DEF Shaped, Linked
<1> HIDE DEF s
<1>3. s \in Seq(DOMAIN T) /\ Len(s) \in Nat
  BY <1>2, PlaceIs
<1>4. PICK i \in 1 .. Len(s) : /\ s[i] = n
                               /\ T[n].pre = IF i = 1 THEN Null ELSE s[i - 1]
                               /\ T[n].nxt = IF i = Len(s) THEN Null ELSE s[i + 1]
  BY <1>2, PlaceIs
<1>5. \A j \in 1 .. Len(s) : s[j] \in DOMAIN T /\ T[s[j]].fa = T[n].fa
  BY <1>2 DEF IsChildList
<1>6. \A m \in DOMAIN T : T[m].fa = T[n].fa => m # T[n].fa
  BY <1>1, ChildApart
<1>7. i # 1 => i - 1 \in 1 .. Len(s)
  BY <1>3
<1>8. i # Len(s) => i + 1 \in 1 .. Len(s)
  BY <1>3
<1>9. T[n].pre # Null => T[n].pre \in DOMAIN T /\ T[T[n].pre].fa = T[n].fa
  BY <1>4, <1>5, <1>7
<1>10. T[n].nxt # Null => T[n].nxt \in DOMAIN T /\ T[T[n].nxt].fa = T[n].fa
  BY <1>4, <1>5, <1>8
<1>11. T[n].pre # Null => T[n].pre # T[n].nxt
  <2>1. CASE i # 1 /\ i # Len(s)
    <3>1. i - 1 # i + 1 /\ i - 1 \in 1 .. Len(s) /\ i + 1 \in 1 .. Len(s)
      BY <1>3, <2>1
    <3>2. s[i - 1] # s[i + 1]
      BY <1>2, <3>1 DEF IsChildList
    <3> QED BY <1>4, <2>1, <3>2
  <2> QED BY <1>4, <2>1
<1> QED BY <1>1, <1>6, <1>9, <1>10, <1>11

\* U has the nodes of T but those under n, which n's neighbours no longer know.
ShrunkBy(T, U, n) ==
    /\ DOMAIN U = DOMAIN T \ Under(T, n) /\ TreeTyped(U)
    /\ \A m \in DOMAIN U :
          /\ U[m].name = T[m].name /\ U[m].kind = T[m].kind /\ U[m].fa = T[m].fa
          /\ U[m].refs = T[m].refs /\ U[m].auto = T[m].auto
          /\ U[m].child = IF m = T[n].fa /\ T[m].child = n THEN T[n].nxt ELSE T[m].child
          /\ U[m].nxt = IF m = T[n].pre THEN T[n].nxt ELSE T[m].nxt
          /\ U[m].pre = IF m = T[n].nxt THEN T[n].pre ELSE T[m].pre

(* The fields of the nodes that the destructor leaves.                     *)
LEMMA DeletedIs ==
    ASSUME NEW T, Shaped(T), NEW n \in DOMAIN T \ {root}
    PROVE  ShrunkBy(T, Deleted(T, n), n)
<1> DEFINE G == Under(T, n)
           D == Detached(T, n)
           U == Deleted(T, n)
<1>1. n \in G /\ G \in SUBSET DOMAIN T
  BY UnderIs DEF Shaped
<1>2. U = [m \in DOMAIN T \ G |-> D[m]]
  BY DEF Deleted, With
<1>3. D = [m \in DOMAIN T |->
              IF m = n THEN [T[n] EXCEPT !.fa = Null, !.pre = Null, !.nxt = Null]
              ELSE IF m = T[n].fa /\ T[m].child = n THEN [T[m] EXCEPT !.child = T[n].nxt]
              ELSE IF m = T[n].pre THEN [T[m] EXCEPT !.nxt = T[n].nxt]
              ELSE IF m = T[n].nxt THEN [T[m] EXCEPT !.pre = T[n].pre]
              ELSE T[m]]
  BY DEF Detached
<1>4. TreeTyped(T) /\ \A m \in DOMAIN T : T[m] \in FileNode
  BY DEF Shaped, Rooted, TreeTyped
<1> HIDE DEF G, D, U
<1>5. \A m \in DOMAIN T : /\ [T[m] EXCEPT !.child = T[n].nxt] \in FileNode
                          /\ [T[m] EXCEPT !.nxt = T[n].nxt] \in FileNode
                          /\ [T[m] EXCEPT !.pre = T[n].pre] \in FileNode
  BY <1>4 DEF FileNode
<1>6. DOMAIN U = DOMAIN T \ G
  BY <1>2
<1>7. ASSUME NEW m \in DOMAIN U
      PROVE  /\ U[m] \in FileNode
             /\ U[m].name = T[m].name /\ U[m].kind = T[m].kind /\ U[m].fa = T[m].fa
             /\ U[m].refs = T[m].refs /\ U[m].auto = T[m].auto
             /\ U[m].child = IF m = T[n].fa /\ T[m].child = n THEN T[n].nxt ELSE T[m].child
             /\ U[m].nxt = IF m = T[n].pre THEN T[n].nxt ELSE T[m].nxt
             /\ U[m].pre = IF m = T[n].nxt THEN T[n].pre ELSE T[m].pre
  <2>1. m \in DOMAIN T /\ m # n /\ T[m] \in FileNode
    BY <1>1, <1>4, <1>6
  <2>2. U[m] = IF m = T[n].fa /\ T[m].child = n THEN [T[m] EXCEPT !.child = T[n].nxt]
               ELSE IF m = T[n].pre THEN [T[m] EXCEPT !.nxt = T[n].nxt]
               ELSE IF m = T[n].nxt THEN [T[m] EXCEPT !.pre = T[n].pre]
               ELSE T[m]
    BY <1>2, <1>3, <1>6, <2>1
  <2>3. T[n].fa # T[n].pre /\ T[n].fa # T[n].nxt
        /\ (T[n].pre # Null => T[n].pre # T[n].nxt) /\ m # Null
    BY <2>1, Neighbours, VFSAssumption DEF Shaped, Rooted, TreeTyped
  <2>4. CASE m = T[n].fa /\ T[m].child = n
    <3>1. U[m] = [T[m] EXCEPT !.child = T[n].nxt] /\ m # T[n].pre /\ m # T[n].nxt
      BY <2>2, <2>3, <2>4
    <3>2. /\ U[m].name = T[m].name /\ U[m].kind = T[m].kind /\ U[m].fa = T[m].fa
          /\ U[m].refs = T[m].refs /\ U[m].auto = T[m].auto /\ U[m].child = T[n].nxt
          /\ U[m].nxt = T[m].nxt /\ U[m].pre = T[m].pre
      BY <2>1, <3>1 DEF FileNode
    <3> QED BY <1>5, <2>1, <2>4, <3>1, <3>2
  <2>5. CASE m = T[n].pre
    <3>1. U[m] = [T[m] EXCEPT !.nxt = T[n].nxt] /\ m # T[n].fa /\ m # T[n].nxt
      BY <2>2, <2>3, <2>5
    <3>2. /\ U[m].name = T[m].name /\ U[m].kind = T[m].kind /\ U[m].fa = T[m].fa
          /\ U[m].refs = T[m].refs /\ U[m].auto = T[m].auto /\ U[m].child = T[m].child
          /\ U[m].nxt = T[n].nxt /\ U[m].pre = T[m].pre
      BY <2>1, <3>1 DEF FileNode
    <3> QED BY <1>5, <2>1, <2>5, <3>1, <3>2
  <2>6. CASE m = T[n].nxt
    <3>1. U[m] = [T[m] EXCEPT !.pre = T[n].pre] /\ m # T[n].fa /\ m # T[n].pre
      BY <2>2, <2>3, <2>6
    <3>2. /\ U[m].name = T[m].name /\ U[m].kind = T[m].kind /\ U[m].fa = T[m].fa
          /\ U[m].refs = T[m].refs /\ U[m].auto = T[m].auto /\ U[m].child = T[m].child
          /\ U[m].nxt = T[m].nxt /\ U[m].pre = T[n].pre
      BY <2>1, <3>1 DEF FileNode
    <3> QED BY <1>5, <2>1, <2>6, <3>1, <3>2
  <2>7. CASE ~ (m = T[n].fa /\ T[m].child = n) /\ m # T[n].pre /\ m # T[n].nxt
    <3>1. U[m] = T[m]
      BY <2>2, <2>7
    <3> QED BY <2>1, <2>7, <3>1
  <2> QED BY <2>4, <2>5, <2>6, <2>7
<1>8. TreeTyped(U)
  <2>1. U = [m \in DOMAIN U |-> U[m]]
    BY <1>2
  <2>2. U \in [DOMAIN U -> FileNode]
    BY <1>7, <2>1
  <2>3. DOMAIN U \in SUBSET (Nat \ {0}) /\ IsFiniteSet(DOMAIN U)
    BY <1>4, <1>6, FS_Subset DEF TreeTyped
  <2> QED BY <2>2, <2>3 DEF TreeTyped
<1>9. ShrunkBy(T, U, n)
  BY <1>6, <1>7, <1>8 DEF ShrunkBy, G
<1> QED BY <1>9 DEF U

(* The list of the father's children without n.                            *)
LEMMA WithoutOne ==
    ASSUME NEW S, NEW s \in Seq(S), NEW i \in 1 .. Len(s)
    PROVE  LET t == [j \in 1 .. Len(s) - 1 |-> IF j < i THEN s[j] ELSE s[j + 1]]
           IN  /\ t \in Seq(S) /\ Len(t) = Len(s) - 1
               /\ \A j \in 1 .. Len(t) : t[j] = IF j < i THEN s[j] ELSE s[j + 1]
<1>1. Len(s) \in Nat /\ Len(s) - 1 \in Nat /\ \A j \in 1 .. Len(s) : s[j] \in S
  OBVIOUS
<1> DEFINE t == [j \in 1 .. Len(s) - 1 |-> IF j < i THEN s[j] ELSE s[j + 1]]
<1>2. \A j \in 1 .. Len(s) - 1 : j \in 1 .. Len(s) /\ j + 1 \in 1 .. Len(s)
  BY <1>1
<1>3. t \in [1 .. Len(s) - 1 -> S]
  BY <1>1, <1>2
<1>4. t \in Seq(S) /\ Len(t) = Len(s) - 1
  BY <1>1, <1>3
<1> QED BY <1>4

(* The children of the father of a node that is deleted.                   *)
LEMMA ShrunkList ==
    ASSUME NEW T, Shaped(T), NEW n \in DOMAIN T \ {root}, NEW U, ShrunkBy(T, U, n)
    PROVE  \E t : IsChildList(U, T[n].fa, t)
<1> DEFINE fa == T[n].fa
           s == Children(T, fa)
<1>1. fa \in DOMAIN T /\ Null \notin DOMAIN T
  BY Neighbours, VFSAssumption DEF Shaped, Rooted, TreeTyped
<1>2. IsChildList(T, fa, s)
  BY <1>1 DEF Shaped, Linked
<1>3. \A m \in DOMAIN T : m \in Under(T, n) <=> m = n \/ (m # root /\ T[m].fa \in Under(T, n))
  BY UnderIs DEF Shaped
<1>4. fa \in DOMAIN U
  BY <1>1, FatherStays DEF ShrunkBy, Shaped
<1>5. \A m \in DOMAIN T : T[m].fa = fa /\ m # n => m \in DOMAIN U
  BY <1>1, <1>3, FatherStays DEF ShrunkBy, Shaped
<1> HIDE DEF fa, s
<1>6. PICK i \in 1 .. Len(s) : /\ s[i] = n
                               /\ T[n].pre = IF i = 1 THEN Null ELSE s[i - 1]
                               /\ T[n].nxt = IF i = Len(s) THEN Null ELSE s[i + 1]
  BY <1>2, PlaceIs DEF fa
<1>7. /\ s \in Seq(DOMAIN T) /\ Len(s) \in Nat
      /\ T[fa].child = IF s = <<>> THEN Null ELSE s[1]
  BY <1>2 DEF IsChildList
<1>8. \A j \in 1 .. Len(s) :
         /\ s[j] \in DOMAIN T /\ T[s[j]].fa = fa
         /\ T[s[j]].pre = IF j = 1 THEN Null ELSE s[j - 1]
         /\ T[s[j]].nxt = IF j = Len(s) THEN Null ELSE s[j + 1]
  BY <1>2 DEF IsChildList
<1>9. \A j, k \in 1 .. Len(s) : s[j] = s[k] => j = k
  BY <1>2 DEF IsChildList
<1> DEFINE t == [j \in 1 .. Len(s) - 1 |-> IF j < i THEN s[j] ELSE s[j + 1]]
           at(j) == IF j < i THEN j ELSE j + 1
<1>10. /\ Len(t) = Len(s) - 1 /\ Len(t) \in Nat
       /\ \A j \in 1 .. Len(t) : t[j] = s[at(j)] /\ at(j) \in 1 .. Len(s) /\ at(j) # i
  BY <1>7, WithoutOne
<1> HIDE DEF t
<1>11. ASSUME NEW j \in 1 .. Len(t)
       PROVE  t[j] \in DOMAIN U /\ t[j] # n /\ t[j] \in DOMAIN T /\ t[j] # Null
  <2> DEFINE k == at(j)
  <2>1. t[j] = s[k] /\ k \in 1 .. Len(s) /\ k # i
    BY <1>10
  <2> HIDE DEF k
  <2>2. s[k] # n /\ s[k] \in DOMAIN T /\ T[s[k]].fa = fa
    BY <1>6, <1>8, <1>9, <2>1
  <2> QED BY <1>1, <1>5, <2>1, <2>2
<1>12. t \in Seq(DOMAIN U)
  <2>1. t \in [1 .. Len(s) - 1 -> DOMAIN U]
    BY <1>10, <1>11 DEF t
  <2> QED BY <1>10, <2>1
<1>13. U[fa].child = IF t = <<>> THEN Null ELSE t[1]
  <2>1. 1 \in 1 .. Len(s) /\ T[fa].child = s[1]
    BY <1>6, <1>7
  <2>2. t = <<>> <=> Len(s) = 1
    BY <1>7, <1>10, <1>12
  <2>3. U[fa].child = IF s[1] = n THEN T[n].nxt ELSE s[1]
    BY <1>4, <2>1 DEF ShrunkBy, fa
  <2>4. CASE i = 1
    <3>1. U[fa].child = IF Len(s) = 1 THEN Null ELSE s[2]
      BY <1>6, <2>3, <2>4
    <3>2. Len(s) # 1 => 1 \in 1 .. Len(t) /\ at(1) = 2
      BY <1>7, <1>10, <2>1, <2>4
    <3> QED BY <1>10, <2>2, <3>1, <3>2
  <2>5. CASE i # 1
    <3>1. s[1] # n /\ 1 \in 1 .. Len(t) /\ at(1) = 1 /\ Len(s) # 1
      BY <1>6, <1>7, <1>9, <1>10, <2>1, <2>5
    <3> QED BY <1>10, <2>2, <2>3, <3>1
  <2> QED BY <2>4, <2>5
<1>14. ASSUME NEW j \in 1 .. Len(t)
       PROVE  /\ t[j] \in DOMAIN U /\ U[t[j]].fa = fa
              /\ U[t[j]].pre = IF j = 1 THEN Null ELSE t[j - 1]
              /\ U[t[j]].nxt = IF j = Len(t) THEN Null ELSE t[j + 1]
  <2> DEFINE k == at(j)
  <2>1. t[j] = s[k] /\ k \in 1 .. Len(s) /\ k # i /\ t[j] \in DOMAIN U
    BY <1>10, <1>11
  <2>2. U[t[j]].fa = fa
    <3>1. \A m \in DOMAIN U : U[m].fa = T[m].fa
      BY DEF ShrunkBy
    <3> HIDE DEF k
    <3> QED BY <1>8, <2>1, <3>1
  <2>3. s[k] = T[n].nxt <=> k = i + 1
    <3>1. i # Len(s) => i + 1 \in 1 .. Len(s)
      BY <1>7
    <3> HIDE DEF k
    <3>2. s[k] # Null
      BY <1>1, <1>8, <2>1
    <3>3. CASE i = Len(s)
      BY <1>6, <2>1, <3>2, <3>3
    <3>4. CASE i # Len(s)
      BY <1>6, <1>9, <2>1, <3>1, <3>4
    <3> QED BY <3>3, <3>4
  <2>4. s[k] = T[n].pre <=> k = i - 1
    <3>1. i # 1 => i - 1 \in 1 .. Len(s)
      BY <1>7
    <3> HIDE DEF k
    <3>2. s[k] # Null
      BY <1>1, <1>8, <2>1
    <3>3. CASE i = 1
      BY <1>6, <2>1, <3>2, <3>3
    <3>4. CASE i # 1
      BY <1>6, <1>9, <2>1, <3>1, <3>4
    <3> QED BY <3>3, <3>4
  <2>5. U[t[j]].pre = IF j = 1 THEN Null ELSE t[j - 1]
    <3>1. U[t[j]].pre = IF k = i + 1 THEN T[n].pre ELSE T[s[k]].pre
      BY <2>1, <2>3 DEF ShrunkBy
    <3>2. CASE j < i
      <4>1. k = j /\ k # i + 1
        BY <3>2
      <4>2. j # 1 => j - 1 \in 1 .. Len(t) /\ at(j - 1) = j - 1
        BY <1>10, <3>2
      <4> QED BY <1>8, <1>10, <2>1, <3>1, <4>1, <4>2
    <3>3. CASE j = i
      <4>1. k = i + 1
        BY <3>3
      <4>2. j # 1 => j - 1 \in 1 .. Len(t) /\ at(j - 1) = i - 1
        BY <1>10, <3>3
      <4> QED BY <1>6, <1>10, <3>1, <3>3, <4>1, <4>2
    <3>4. CASE j > i
      <4>1. k = j + 1 /\ k # i + 1 /\ k # 1 /\ k - 1 = j /\ j # 1
        BY <3>4
      <4>2. j - 1 \in 1 .. Len(t) /\ at(j - 1) = j
        BY <1>10, <3>4
      <4> HIDE DEF k, at
      <4> QED BY <1>8, <1>10, <2>1, <3>1, <4>1, <4>2
    <3> QED BY <3>2, <3>3, <3>4
  <2>6. U[t[j]].nxt = IF j = Len(t) THEN Null ELSE t[j + 1]
    <3>1. U[t[j]].nxt = IF k = i - 1 THEN T[n].nxt ELSE T[s[k]].nxt
      BY <2>1, <2>4 DEF ShrunkBy
    <3>2. CASE j < i - 1
      <4>1. k = j /\ k # i - 1 /\ j # Len(s)
        BY <3>2
      <4>2. j # Len(t) /\ j + 1 \in 1 .. Len(t) /\ at(j + 1) = j + 1
        BY <1>10, <3>2
      <4> HIDE DEF k, at
      <4>3. U[t[j]].nxt = T[s[k]].nxt
        BY <3>1, <4>1
      <4>4. T[s[k]].nxt = s[j + 1]
        BY <1>8, <2>1, <4>1
      <4>5. t[j + 1] = s[j + 1]
        BY <1>10, <4>2
      <4> QED BY <4>2, <4>3, <4>4, <4>5
    <3>3. CASE j = i - 1
      <4>1. k = i - 1
        BY <3>3
      <4>2. (j = Len(t) <=> i = Len(s)) /\ (j # Len(t) => j + 1 \in 1 .. Len(t) /\ at(j + 1) = i + 1)
        BY <1>10, <3>3
      <4>3. U[t[j]].nxt = T[n].nxt
        BY <3>1, <4>1
      <4> HIDE DEF k, at
      <4>4. CASE j = Len(t)
        BY <1>6, <4>2, <4>3, <4>4
      <4>5. CASE j # Len(t)
        <5>1. i # Len(s) /\ t[j + 1] = s[i + 1]
          BY <1>10, <4>2, <4>5
        <5> QED BY <1>6, <4>3, <4>5, <5>1
      <4> QED BY <4>4, <4>5
    <3>4. CASE j >= i
      <4>1. k = j + 1 /\ k # i - 1
        BY <3>4
      <4>2. (j = Len(t) <=> k = Len(s)) /\ (j # Len(t) => j + 1 \in 1 .. Len(t) /\ at(j + 1) = k + 1)
        BY <1>10, <3>4
      <4> HIDE DEF k, at
      <4>3. U[t[j]].nxt = T[s[k]].nxt
        BY <3>1, <4>1
      <4>4. T[s[k]].nxt = IF k = Len(s) THEN Null ELSE s[k + 1]
        BY <1>8, <2>1
      <4>5. j # Len(t) => t[j + 1] = s[k + 1]
        BY <1>10, <4>2
      <4> QED BY <4>2, <4>3, <4>4, <4>5
    <3> QED BY <3>2, <3>3, <3>4
  <2> QED BY <2>1, <2>2, <2>5, <2>6
<1>15. \A j, k \in 1 .. Len(t) : t[j] = t[k] => j = k
  <2> SUFFICES ASSUME NEW j \in 1 .. Len(t), NEW k \in 1 .. Len(t), t[j] = t[k]
               PROVE  j = k
    OBVIOUS
  <2>1. at(j) = at(k)
    <3>1. t[j] = s[at(j)] /\ t[k] = s[at(k)] /\ at(j) \in 1 .. Len(s) /\ at(k) \in 1 .. Len(s)
      BY <1>10
    <3> HIDE DEF at
    <3> QED BY <1>9, <3>1
  <2> QED BY <2>1
<1>16. ASSUME NEW m \in DOMAIN U, U[m].fa = fa
       PROVE  \E j \in 1 .. Len(t) : t[j] = m
  <2>1. m \in DOMAIN T /\ m # n /\ T[m].fa = fa
    BY <1>3, <1>16 DEF ShrunkBy
  <2>2. PICK k \in 1 .. Len(s) : s[k] = m
    BY <1>2, <2>1 DEF IsChildList
  <2>3. k # i
    BY <1>6, <2>1, <2>2
  <2>4. CASE k < i
    <3>1. k \in 1 .. Len(t) /\ at(k) = k
      BY <1>10, <2>4
    <3> QED BY <1>10, <2>2, <3>1
  <2>5. CASE k > i
    <3>1. k - 1 \in 1 .. Len(t) /\ at(k - 1) = k
      BY <1>10, <2>5
    <3> QED BY <1>10, <2>2, <3>1
  <2> QED BY <2>3, <2>4, <2>5
<1>17. IsChildList(U, fa, t)
  BY <1>12, <1>13, <1>14, <1>15, <1>16 DEF IsChildList
<1> QED BY <1>17 DEF fa

(* The destructor keeps the shape of the tree.                             *)
LEMMA DeletedShaped ==
    ASSUME NEW T, Shaped(T), NEW n \in DOMAIN T \ {root}
    PROVE  Shaped(Deleted(T, n))
<1> DEFINE U == Deleted(T, n)
           G == Under(T, n)
<1>1. ShrunkBy(T, U, n)
  BY DeletedIs
<1>2. /\ G \in SUBSET DOMAIN T /\ root \notin G /\ n \in G
      /\ \A m \in DOMAIN T : m \in G <=> m = n \/ (m # root /\ T[m].fa \in G)
  BY UnderIs, FatherStays DEF Shaped
<1>3. /\ DOMAIN U = DOMAIN T \ G /\ TreeTyped(U)
      /\ \A m \in DOMAIN U :
            /\ U[m].name = T[m].name /\ U[m].fa = T[m].fa
            /\ U[m].child = IF m = T[n].fa /\ T[m].child = n THEN T[n].nxt ELSE T[m].child
            /\ U[m].nxt = IF m = T[n].pre THEN T[n].nxt ELSE T[m].nxt
            /\ U[m].pre = IF m = T[n].nxt THEN T[n].pre ELSE T[m].pre
  BY <1>1 DEF ShrunkBy
<1>4. TreeTyped(T) /\ FathersThere(T) /\ Acyclic(T) /\ Linked(T) /\ NamesApart(T) /\ Null \notin DOMAIN T
  BY VFSAssumption DEF Shaped, Rooted, TreeTyped
<1> HIDE DEF U, G
<1>5. FathersThere(U)
  BY <1>2, <1>3, <1>4 DEF FathersThere
<1>6. Acyclic(U)
  <2> SUFFICES ASSUME NEW S \in SUBSET (DOMAIN U \ {root}), S # {}
               PROVE  \E m \in S : U[m].fa \notin S
    BY DEF Acyclic
  <2>1. S \in SUBSET (DOMAIN T \ {root})
    BY <1>3
  <2> QED BY <1>3, <1>4, <2>1 DEF Acyclic
<1>7. ASSUME NEW m \in DOMAIN U
      PROVE  \E s : IsChildList(U, m, s)
  <2>1. CASE m = T[n].fa
    BY <1>1, <2>1, ShrunkList
  <2>2. CASE m # T[n].fa
    <3> DEFINE s == Children(T, m)
    <3>1. IsChildList(T, m, s) /\ m \in DOMAIN T
      BY <1>3, <1>4 DEF Linked
    <3>2. /\ T[n].pre # Null => T[T[n].pre].fa = T[n].fa
          /\ T[n].nxt # Null => T[T[n].nxt].fa = T[n].fa
      BY Neighbours
    <3> HIDE DEF s
    <3>3. ASSUME NEW i \in 1 .. Len(s)
          PROVE  /\ s[i] \in DOMAIN U /\ U[s[i]].fa = m
                 /\ U[s[i]].pre = IF i = 1 THEN Null ELSE s[i - 1]
                 /\ U[s[i]].nxt = IF i = Len(s) THEN Null ELSE s[i + 1]
      <4>1. /\ s[i] \in DOMAIN T /\ T[s[i]].fa = m
            /\ T[s[i]].pre = IF i = 1 THEN Null ELSE s[i - 1]
            /\ T[s[i]].nxt = IF i = Len(s) THEN Null ELSE s[i + 1]
        BY <3>1 DEF IsChildList
      <4>2. s[i] \in DOMAIN U /\ s[i] # T[n].pre /\ s[i] # T[n].nxt
        BY <1>2, <1>3, <1>4, <2>2, <3>2, <4>1
      <4> QED BY <1>3, <4>1, <4>2
    <3>4. s \in Seq(DOMAIN U)
      <4>1. s \in Seq(DOMAIN T)
        BY <3>1 DEF IsChildList
      <4> QED BY <3>3, <4>1
    <3>5. U[m].child = IF s = <<>> THEN Null ELSE s[1]
      BY <1>3, <2>2, <3>1 DEF IsChildList
    <3>6. \A i, j \in 1 .. Len(s) : s[i] = s[j] => i = j
      BY <3>1 DEF IsChildList
    <3>7. \A x \in DOMAIN U : U[x].fa = m => \E i \in 1 .. Len(s) : s[i] = x
      BY <1>3, <3>1 DEF IsChildList
    <3>8. IsChildList(U, m, s)
      BY <3>3, <3>4, <3>5, <3>6, <3>7 DEF IsChildList
    <3> QED BY <3>8
  <2> QED BY <2>1, <2>2
<1>8. Linked(U)
  BY <1>3, <1>7, LinkedBy
<1>9. NamesApart(U)
  BY <1>3, <1>4 DEF NamesApart
<1> QED BY <1>3, <1>5, <1>6, <1>8, <1>9 DEF Shaped, Rooted, U

(* Under what is no plain directory there are files of the volume only.    *)
LEMMA FilesUnder ==
    ASSUME NEW T, TreeSound(T), NEW n \in DOMAIN T, T[n].kind # "dir"
    PROVE  \A m \in Under(T, n) : m = n \/ T[m].kind \in {"folder", "file"}
<1> DEFINE S == {m \in DOMAIN T : m \in Under(T, n) => m = n \/ T[m].kind \in {"folder", "file"}}
<1>1. Shaped(T) /\ Rooted(T) /\ KindsFit(T) /\ n # root /\ root \in DOMAIN T
  BY DEF TreeSound, Shaped, Rooted, FathersThere, KindsFit
<1>2. /\ Under(T, n) \in SUBSET DOMAIN T /\ root \notin Under(T, n)
      /\ \A m \in DOMAIN T : m \in Under(T, n) <=> m = n \/ (m # root /\ T[m].fa \in Under(T, n))
  BY <1>1, UnderIs, FatherStays
<1>3. root \in S
  BY <1>1, <1>2
<1>4. ASSUME NEW m \in DOMAIN T \ {root}, T[m].fa \in S
      PROVE  m \in S
  <2> SUFFICES ASSUME m \in Under(T, n), m # n
               PROVE  T[m].kind \in {"folder", "file"}
    OBVIOUS
  <2>1. T[m].fa \in Under(T, n)
    BY <1>2
  <2>2. T[T[m].fa].kind # "dir"
    BY <1>4, <2>1
  <2> QED BY <1>1, <2>2 DEF KindsFit
<1>5. DOMAIN T \subseteq S
  <2> HIDE DEF S
  <2> QED BY <1>1, <1>3, <1>4, ByFathers DEF Rooted
<1> QED BY <1>2, <1>5

(* It keeps what the nodes are, when the node is no plain directory.       *)
LEMMA DeletedSound ==
    ASSUME NEW T, TreeSound(T), NEW n \in DOMAIN T, T[n].kind # "dir"
    PROVE  /\ TreeSound(Deleted(T, n))
           /\ \A V : Standing(T, V) => Standing(Deleted(T, n), V)
           /\ T[n].kind # "mount" => \A V : MountedFor(T, V) => MountedFor(Deleted(T, n), V)
<1> DEFINE U == Deleted(T, n)
<1>1. Shaped(T) /\ Rooted(T) /\ KindsFit(T) /\ TmpThere(T) /\ n # root
  BY DEF TreeSound, Shaped, KindsFit
<1>2. ShrunkBy(T, U, n) /\ Shaped(U) /\ Rooted(U)
  BY <1>1, DeletedIs, DeletedShaped DEF Shaped
<1>3. /\ root \notin Under(T, n)
      /\ \A m \in DOMAIN T : m \in Under(T, n) <=> m = n \/ (m # root /\ T[m].fa \in Under(T, n))
  BY <1>1, UnderIs, FatherStays
<1>4. /\ DOMAIN U = DOMAIN T \ Under(T, n)
      /\ \A m \in DOMAIN U : /\ U[m].name = T[m].name /\ U[m].kind = T[m].kind
                             /\ U[m].fa = T[m].fa /\ U[m].auto = T[m].auto
  BY <1>2 DEF ShrunkBy
<1>5. \A m \in DOMAIN T \ {root} : T[m].fa \in DOMAIN T
  BY <1>1 DEF Rooted, FathersThere
<1>6. root \in DOMAIN U /\ \A m \in DOMAIN U \ {root} : U[m].fa \in DOMAIN U
  BY <1>2 DEF Rooted, FathersThere
<1> HIDE DEF U
<1>7. KindsFit(U)
  <2>1. U[root].kind = "dir"
    BY <1>1, <1>4, <1>6 DEF KindsFit
  <2>2. ASSUME NEW m \in DOMAIN U \ {root}
        PROVE  IF U[m].kind \in {"folder", "file"} THEN BelongVFS(U[U[m].fa])
               ELSE U[U[m].fa].kind = "dir"
    <3>1. /\ m \in DOMAIN T \ {root} /\ T[m].fa \in DOMAIN U
          /\ U[m].kind = T[m].kind /\ U[m].fa = T[m].fa /\ U[T[m].fa].kind = T[T[m].fa].kind
      BY <1>4, <1>6
    <3> QED BY <1>1, <3>1 DEF KindsFit, BelongVFS
  <2>3. \A m \in DOMAIN U : U[m].auto => U[m].kind = "temp"
    BY <1>1, <1>4 DEF KindsFit
  <2>4. \A m, k \in DOMAIN U : U[m].kind = "mount" /\ U[k].kind = "mount" => m = k
    BY <1>1, <1>4 DEF KindsFit
  <2>5. ASSUME NEW m \in DOMAIN U, U[m].kind = "mount"
        PROVE  AtMount(U, U[m].name, U[m].fa)
    <3>1. m \in DOMAIN U \ {root} /\ AtMount(T, T[m].name, T[m].fa)
      BY <1>1, <1>4, <2>1, <2>5 DEF KindsFit
    <3> QED BY <1>4, <1>6, <3>1 DEF AtMount
  <2> QED BY <2>1, <2>2, <2>3, <2>4, <2>5 DEF KindsFit
<1>8. TmpThere(U)
  <2>1. PICK t \in DOMAIN T : T[t].fa = root /\ T[t].name = "tmp" /\ T[t].kind = "dir"
    BY <1>1 DEF TmpThere
  <2>2. t \in DOMAIN U
    BY <1>3, <1>4, <2>1
  <2> QED BY <1>4, <2>1, <2>2 DEF TmpThere
<1>9. ASSUME NEW V, Standing(T, V)
      PROVE  Standing(U, V)
  <2>1. DOMAIN U \in SUBSET (DOMAIN T \cap DOMAIN U)
    BY <1>4
  <2>2. \A m \in DOMAIN U : PathUpTo(T, m, "mount") = PathUpTo(U, m, "mount")
    <3>1. \A m \in DOMAIN U \ {root} : T[m].fa \in DOMAIN U
      BY <1>4, <1>6
    <3>2. \A m \in DOMAIN U : T[m].fa = U[m].fa /\ T[m].name = U[m].name /\ T[m].kind = U[m].kind
      BY <1>4
    <3>3. Rooted(T) /\ Rooted(U)
      BY <1>1, <1>2
    <3> QED BY <2>1, <3>1, <3>2, <3>3, PathKept
  <2> QED BY <1>4, <1>9, <2>2 DEF Standing, PathInVFS
<1>10. ASSUME NEW V, MountedFor(T, V), T[n].kind # "mount"
       PROVE  MountedFor(U, V)
  <2> SUFFICES ASSUME NEW m \in DOMAIN T, T[m].kind = "mount"
               PROVE  m \in DOMAIN U
    BY <1>4, <1>10 DEF MountedFor
  <2>1. m \notin Under(T, n)
    BY <1>10, FilesUnder
  <2> QED BY <1>4, <2>1
<1> QED BY <1>2, <1>7, <1>8, <1>9, <1>10 DEF TreeSound, U
-----------------------------------------------------------------------------
(* Handles.                                                                *)

(* Handles opened and closed, and what is to go with the last one, change  *)
(* nothing of the tree.                                                    *)
LEMMA HandlesSound ==
    ASSUME NEW T, TreeSound(T), NEW U, DOMAIN U = DOMAIN T, TreeTyped(U),
           \A m \in DOMAIN T :
               /\ U[m].name = T[m].name /\ U[m].kind = T[m].kind /\ U[m].fa = T[m].fa
               /\ U[m].child = T[m].child /\ U[m].pre = T[m].pre /\ U[m].nxt = T[m].nxt
               /\ U[m].auto => T[m].kind = "temp"
    PROVE  TreeSound(U) /\ \A V : NodesIn(T, V) => NodesIn(U, V)
<1>1. TreeTyped(T) /\ FathersThere(T) /\ Acyclic(T) /\ Linked(T) /\ NamesApart(T) /\ KindsFit(T) /\ TmpThere(T)
  BY DEF TreeSound, Shaped, Rooted
<1>2. FathersThere(U)
  BY <1>1 DEF FathersThere
<1>3. Acyclic(U)
  <2> SUFFICES ASSUME NEW S \in SUBSET (DOMAIN T \ {root}), S # {}
               PROVE  \E m \in S : U[m].fa \notin S
    BY DEF Acyclic
  <2>1. PICK m \in S : T[m].fa \notin S
    BY <1>1 DEF Acyclic
  <2> QED BY <2>1
<1>4. Linked(U)
  <2>1. ASSUME NEW n \in DOMAIN U
        PROVE  IsChildList(U, n, Children(T, n))
    <3> DEFINE s == Children(T, n)
    <3>1. IsChildList(T, n, s)
      BY <1>1 DEF Linked
    <3> HIDE DEF s
    <3>2. s \in Seq(DOMAIN U) /\ U[n].child = IF s = <<>> THEN Null ELSE s[1]
      BY <3>1 DEF IsChildList
    <3>3. ASSUME NEW i \in 1 .. Len(s)
          PROVE  /\ s[i] \in DOMAIN U /\ U[s[i]].fa = n
                 /\ U[s[i]].pre = IF i = 1 THEN Null ELSE s[i - 1]
                 /\ U[s[i]].nxt = IF i = Len(s) THEN Null ELSE s[i + 1]
      <4>1. /\ s[i] \in DOMAIN T /\ T[s[i]].fa = n
            /\ T[s[i]].pre = IF i = 1 THEN Null ELSE s[i - 1]
            /\ T[s[i]].nxt = IF i = Len(s) THEN Null ELSE s[i + 1]
        BY <3>1 DEF IsChildList
      <4> QED BY <4>1
    <3>4. \A i, j \in 1 .. Len(s) : s[i] = s[j] => i = j
      BY <3>1 DEF IsChildList
    <3>5. \A m \in DOMAIN U : U[m].fa = n => \E i \in 1 .. Len(s) : s[i] = m
      BY <3>1 DEF IsChildList
    <3> QED BY <3>2, <3>3, <3>4, <3>5 DEF IsChildList, s
  <2> QED BY <2>1, LinkedBy
<1>5. NamesApart(U)
  BY <1>1 DEF NamesApart
<1>6. KindsFit(U)
  <2>1. U[root].kind = "dir"
    BY <1>1 DEF KindsFit, FathersThere
  <2>2. ASSUME NEW m \in DOMAIN U \ {root}
        PROVE  IF U[m].kind \in {"folder", "file"} THEN BelongVFS(U[U[m].fa])
               ELSE U[U[m].fa].kind = "dir"
    <3>1. T[m].fa \in DOMAIN T
      BY <1>1 DEF FathersThere
    <3>2. IF T[m].kind \in {"folder", "file"} THEN BelongVFS(T[T[m].fa]) ELSE T[T[m].fa].kind = "dir"
      BY <1>1 DEF KindsFit
    <3> QED BY <3>1, <3>2 DEF BelongVFS
  <2>3. \A m, k \in DOMAIN U : U[m].kind = "mount" /\ U[k].kind = "mount" => m = k
    BY <1>1 DEF KindsFit
  <2>4. ASSUME NEW m \in DOMAIN U, U[m].kind = "mount"
        PROVE  AtMount(U, U[m].name, U[m].fa)
    <3>1. m \in DOMAIN T \ {root} /\ AtMount(T, T[m].name, T[m].fa)
      BY <1>1, <2>4 DEF KindsFit
    <3>2. T[m].fa \in DOMAIN T
      BY <1>1, <3>1 DEF FathersThere
    <3> QED BY <3>1, <3>2 DEF AtMount
  <2> QED BY <2>1, <2>2, <2>3, <2>4 DEF KindsFit
<1>7. TmpThere(U)
  BY <1>1 DEF TmpThere
<1>8. TreeSound(U)
  BY <1>2, <1>3, <1>4, <1>5, <1>6, <1>7 DEF TreeSound, Shaped, Rooted
<1>9. \A m \in DOMAIN T : PathUpTo(T, m, "mount") = PathUpTo(U, m, "mount")
  <2>1. Rooted(T) /\ Rooted(U)
    BY <1>8 DEF TreeSound, Shaped
  <2>2. DOMAIN T \in SUBSET (DOMAIN T \cap DOMAIN U)
    OBVIOUS
  <2>3. \A m \in DOMAIN T \ {root} : T[m].fa \in DOMAIN T
    BY <1>1 DEF FathersThere
  <2>4. \A m \in DOMAIN T : T[m].fa = U[m].fa /\ T[m].name = U[m].name /\ T[m].kind = U[m].kind
    OBVIOUS
  <2> QED BY <2>1, <2>2, <2>3, <2>4, PathKept
<1>10. ASSUME NEW V, NodesIn(T, V)
       PROVE  NodesIn(U, V)
  <2>1. Standing(U, V)
    BY <1>9, <1>10 DEF NodesIn, Standing, PathInVFS
  <2>2. MountedFor(U, V)
    BY <1>10 DEF NodesIn, MountedFor
  <2> QED BY <2>1, <2>2 DEF NodesIn
<1> QED BY <1>8, <1>10

(* FileNode::Ref and Unref.                                                *)
LEMMA CountedSound ==
    ASSUME NEW T, TreeSound(T), NEW n \in DOMAIN T, NEW k \in Nat
    PROVE  LET U == [T EXCEPT ![n].refs = k]
           IN  TreeSound(U) /\ \A V : NodesIn(T, V) => NodesIn(U, V)
<1> DEFINE x == [T[n] EXCEPT !.refs = k]
           U == [T EXCEPT ![n] = x]
<1>1. \A m \in DOMAIN T : T[m] \in FileNode
  BY DEF TreeSound, Shaped, Rooted, TreeTyped
<1>2. /\ x \in FileNode
      /\ x.name = T[n].name /\ x.kind = T[n].kind /\ x.fa = T[n].fa /\ x.auto = T[n].auto
      /\ x.child = T[n].child /\ x.pre = T[n].pre /\ x.nxt = T[n].nxt
  BY <1>1 DEF FileNode
<1> HIDE DEF x
<1>3. DOMAIN U = DOMAIN T /\ U[n] = x /\ \A m \in DOMAIN T : m # n => U[m] = T[m]
  OBVIOUS
<1>4. TreeTyped(U)
  BY <1>1, <1>2 DEF TreeSound, Shaped, Rooted, TreeTyped
<1> HIDE DEF U
<1>5. ASSUME NEW m \in DOMAIN T
      PROVE  /\ U[m].name = T[m].name /\ U[m].kind = T[m].kind /\ U[m].fa = T[m].fa
             /\ U[m].child = T[m].child /\ U[m].pre = T[m].pre /\ U[m].nxt = T[m].nxt
             /\ U[m].auto => T[m].kind = "temp"
  <2>1. T[m].auto => T[m].kind = "temp"
    BY DEF TreeSound, KindsFit
  <2> QED BY <1>2, <1>3, <2>1
<1>6. TreeSound(U) /\ \A V : NodesIn(T, V) => NodesIn(U, V)
  BY <1>3, <1>4, <1>5, HandlesSound
<1> QED BY <1>6 DEF U, x

(* A temporary file that goes with its last handle.                        *)
LEMMA MarkedSound ==
    ASSUME NEW T, TreeSound(T), NEW n \in DOMAIN T, T[n].kind = "temp", NEW v \in BOOLEAN
    PROVE  LET U == [T EXCEPT ![n].auto = v]
           IN  TreeSound(U) /\ \A V : NodesIn(T, V) => NodesIn(U, V)
<1> DEFINE x == [T[n] EXCEPT !.auto = v]
           U == [T EXCEPT ![n] = x]
<1>1. \A m \in DOMAIN T : T[m] \in FileNode
  BY DEF TreeSound, Shaped, Rooted, TreeTyped
<1>2. /\ x \in FileNode
      /\ x.name = T[n].name /\ x.kind = T[n].kind /\ x.fa = T[n].fa
      /\ x.child = T[n].child /\ x.pre = T[n].pre /\ x.nxt = T[n].nxt
  BY <1>1 DEF FileNode
<1> HIDE DEF x
<1>3. DOMAIN U = DOMAIN T /\ U[n] = x /\ \A m \in DOMAIN T : m # n => U[m] = T[m]
  OBVIOUS
<1>4. TreeTyped(U)
  BY <1>1, <1>2 DEF TreeSound, Shaped, Rooted, TreeTyped
<1> HIDE DEF U
<1>5. ASSUME NEW m \in DOMAIN T
      PROVE  /\ U[m].name = T[m].name /\ U[m].kind = T[m].kind /\ U[m].fa = T[m].fa
             /\ U[m].child = T[m].child /\ U[m].pre = T[m].pre /\ U[m].nxt = T[m].nxt
             /\ U[m].auto => T[m].kind = "temp"
  <2>1. T[m].auto => T[m].kind = "temp"
    BY DEF TreeSound, KindsFit
  <2> QED BY <1>2, <1>3, <2>1
<1>6. TreeSound(U) /\ \A V : NodesIn(T, V) => NodesIn(U, V)
  BY <1>3, <1>4, <1>5, HandlesSound
<1> QED BY <1>6 DEF U, x
-----------------------------------------------------------------------------
(* The volume.                                                             *)

(* A prefix of a sequence is that of all but its last, or all of it.       *)
LEMMA PrefixOfLonger ==
    ASSUME NEW S, NEW p \in Seq(S), NEW q \in Seq(S), NEW x \in S, IsPrefix(p, Append(q, x))
    PROVE  p = Append(q, x) \/ IsPrefix(p, q)
<1> DEFINE r == Append(q, x)
<1>1. /\ Len(p) \in Nat /\ Len(q) \in Nat /\ r \in Seq(S) /\ Len(r) = Len(q) + 1
      /\ \A i \in 1 .. Len(q) : r[i] = q[i]
  BY AppendTyped DEF LongerBy
<1> HIDE DEF r
<1>2. Len(p) <= Len(r) /\ SubSeq(p, 1, Len(p)) = SubSeq(r, 1, Len(p))
  BY DEF IsPrefix, r
<1>3. \A i \in 1 .. Len(p) : p[i] = r[i]
  <2> TAKE i \in 1 .. Len(p)
  <2>1. SubSeq(p, 1, Len(p))[i] = p[i] /\ SubSeq(r, 1, Len(p))[i] = r[i]
    BY <1>1, <1>2
  <2> QED BY <1>2, <2>1
<1>4. CASE Len(p) = Len(r)
  <2>1. p = r
    BY <1>1, <1>3, <1>4
  <2> QED BY <2>1 DEF r
<1>5. CASE Len(p) # Len(r)
  <2>1. Len(p) <= Len(q)
    BY <1>1, <1>2, <1>5
  <2>2. \A i \in 1 .. Len(p) : p[i] = q[i]
    BY <1>1, <1>3, <2>1
  <2>3. SubSeq(p, 1, Len(p)) = SubSeq(q, 1, Len(p))
    BY <1>1, <2>1, <2>2
  <2> QED BY <2>1, <2>3 DEF IsPrefix
<1> QED BY <1>4, <1>5

(* A sequence that begins with what all but its last begin with. *)
LEMMA PrefixOfFront ==
    ASSUME NEW S, NEW p \in Seq(S), NEW q \in Seq(S), q # <<>>, IsPrefix(p, Front(q))
    PROVE  IsPrefix(p, q)
<1> DEFINE r == Front(q)
<1>1. /\ Len(p) \in Nat /\ Len(q) \in Nat /\ Len(q) # 0 /\ r \in Seq(S) /\ Len(r) = Len(q) - 1
      /\ \A i \in 1 .. Len(r) : r[i] = q[i]
  <2>1. r = SubSeq(q, 1, Len(q) - 1)
    BY DEF Front
  <2>2. Len(p) \in Nat /\ Len(q) \in Nat /\ Len(q) # 0
    OBVIOUS
  <2> DEFINE k == Len(q) - 1
  <2>3. k \in Nat /\ k <= Len(q) /\ r = SubSeq(q, 1, k)
    BY <2>1, <2>2
  <2> HIDE DEF r, k
  <2>4. Len(r) = k /\ \A i \in 1 .. k : r[i] = q[i]
    BY <2>3
  <2>5. r \in Seq(S)
    BY <2>2, <2>3
  <2> QED BY <2>2, <2>4, <2>5 DEF k
<1> HIDE DEF r
<1>2. Len(p) <= Len(r) /\ SubSeq(p, 1, Len(p)) = SubSeq(r, 1, Len(p))
  BY DEF IsPrefix, r
<1>3. SubSeq(r, 1, Len(p)) = SubSeq(q, 1, Len(p))
  <2>1. \A i \in 1 .. Len(p) : r[i] = q[i]
    BY <1>1, <1>2
  <2> QED BY <1>1, <1>2, <2>1
<1>4. Len(p) <= Len(q)
  BY <1>1, <1>2
<1> QED BY <1>2, <1>3, <1>4 DEF IsPrefix

(* Every sequence begins with nothing. *)
LEMMA NothingIsPrefix ==
    ASSUME NEW S, NEW q \in Seq(S)
    PROVE  IsPrefix(<<>>, q)
<1>1. Len(<<>>) = 0 /\ Len(q) \in Nat /\ SubSeq(<<>>, 1, 0) = SubSeq(q, 1, 0)
  OBVIOUS
<1> QED BY <1>1 DEF IsPrefix

(* Nodes of the volume, by their paths in it. *)
LEMMA VolumePath ==
    ASSUME NEW T, TreeSound(T), NEW n \in DOMAIN T, BelongVFS(T[n])
    PROVE  /\ PathInVFS(T, n) \in Seq(Words) /\ n # root
           /\ T[n].kind = "mount" => PathInVFS(T, n) = <<>>
           /\ T[n].kind # "mount" =>
                 /\ T[n].fa \in DOMAIN T /\ BelongVFS(T[T[n].fa]) /\ T[n].name \in Words
                 /\ PathInVFS(T, n) = Append(PathInVFS(T, T[n].fa), T[n].name)
<1>1. Rooted(T) /\ KindsFit(T)
  BY DEF TreeSound, Shaped
<1>2. n # root
  BY <1>1 DEF KindsFit, BelongVFS
<1>3. T[n].fa \in DOMAIN T /\ T[n].fa # Null
  BY <1>1, <1>2, FatherIs
<1>4. T[n].kind # "mount" => ~AtTop(T, n, "mount")
  BY <1>2, <1>3 DEF AtTop
<1>5. T[n].kind = "mount" => AtTop(T, n, "mount")
  BY DEF AtTop
<1>6. PathInVFS(T, n) = IF AtTop(T, n, "mount") THEN <<>> ELSE Append(PathInVFS(T, T[n].fa), T[n].name)
  BY <1>1, PathIs DEF PathInVFS
<1>7. PathInVFS(T, n) \in Seq(Words)
  BY <1>1, PathTyped DEF PathInVFS
<1>8. T[n].name \in Words
  BY <1>1 DEF Rooted, TreeTyped, FileNode
<1>9. T[n].kind # "mount" => BelongVFS(T[T[n].fa])
  BY <1>1, <1>2 DEF KindsFit, BelongVFS
<1> QED BY <1>2, <1>3, <1>4, <1>5, <1>6, <1>7, <1>8, <1>9

(* Two nodes of the volume have two paths.                                 *)
LEMMA VolumePathsApart ==
    ASSUME NEW T, TreeSound(T), NEW m \in DOMAIN T, NEW n \in DOMAIN T, BelongVFS(T[m]), BelongVFS(T[n]),
           PathInVFS(T, m) = PathInVFS(T, n)
    PROVE  m = n
<1> DEFINE S == {x \in DOMAIN T : BelongVFS(T[x]) =>
                    \A y \in DOMAIN T : BelongVFS(T[y]) /\ PathInVFS(T, x) = PathInVFS(T, y) => x = y}
<1>1. FathersThere(T) /\ Acyclic(T) /\ NamesApart(T) /\ KindsFit(T)
  BY DEF TreeSound, Shaped, Rooted
<1>2. root \in S
  BY <1>1 DEF KindsFit, BelongVFS, FathersThere
<1>3. ASSUME NEW x \in DOMAIN T \ {root}, T[x].fa \in S
      PROVE  x \in S
  <2> SUFFICES ASSUME BelongVFS(T[x]), NEW y \in DOMAIN T, BelongVFS(T[y]),
                      PathInVFS(T, x) = PathInVFS(T, y)
               PROVE  x = y
    OBVIOUS
  <2> DEFINE p == PathInVFS(T, x)
             q == PathInVFS(T, T[x].fa)
             r == PathInVFS(T, T[y].fa)
  <2>1. /\ T[x].kind = "mount" => p = <<>>
        /\ T[x].kind # "mount" => T[x].fa \in DOMAIN T /\ BelongVFS(T[T[x].fa])
                                  /\ T[x].name \in Words /\ p = Append(q, T[x].name)
    BY VolumePath
  <2>2. /\ T[y].kind = "mount" => p = <<>>
        /\ T[y].kind # "mount" => T[y].fa \in DOMAIN T /\ BelongVFS(T[T[y].fa])
                                  /\ T[y].name \in Words /\ p = Append(r, T[y].name)
    BY VolumePath
  <2>3. T[x].kind # "mount" => q \in Seq(Words)
    BY <2>1, VolumePath
  <2>4. T[y].kind # "mount" => r \in Seq(Words)
    BY <2>2, VolumePath
  <2> HIDE DEF p, q, r
  <2>5. T[x].kind = "mount" <=> T[y].kind = "mount"
    BY <2>1, <2>2, <2>3, <2>4, AppendTyped, EmptyTyped DEF LongerBy
  <2>6. CASE T[x].kind = "mount"
    BY <1>1, <2>5, <2>6 DEF KindsFit
  <2>7. CASE T[x].kind # "mount"
    <3>1. q = r /\ T[x].name = T[y].name
      <4>1. /\ q \in Seq(Words) /\ r \in Seq(Words) /\ T[x].name \in Words /\ T[y].name \in Words
            /\ Append(q, T[x].name) = Append(r, T[y].name)
        BY <2>1, <2>2, <2>3, <2>4, <2>5, <2>7
      <4> QED BY <4>1
    <3>2. T[x].fa = T[y].fa
      BY <1>3, <2>1, <2>2, <2>5, <2>7, <3>1 DEF q, r
    <3> QED BY <1>1, <3>1, <3>2 DEF NamesApart
  <2> QED BY <2>6, <2>7
<1>4. DOMAIN T \subseteq S
  <2> HIDE DEF S
  <2> QED BY <1>1, <1>2, <1>3, ByFathers
<1> QED BY <1>4

(* What the volume's Delete takes along has no nodes but those that go.    *)
LEMMA GoneFromVolume ==
    ASSUME NEW T, TreeSound(T), NEW n \in DOMAIN T, BelongVFS(T[n]),
           NEW m \in DOMAIN T, BelongVFS(T[m]), IsPrefix(PathInVFS(T, n), PathInVFS(T, m))
    PROVE  m \in Under(T, n)
<1> DEFINE p == PathInVFS(T, n)
           S == {x \in DOMAIN T : BelongVFS(T[x]) /\ IsPrefix(p, PathInVFS(T, x)) => x \in Under(T, n)}
<1>1. Rooted(T) /\ FathersThere(T) /\ Acyclic(T) /\ KindsFit(T)
  BY DEF TreeSound, Shaped, Rooted
<1>2. /\ n \in Under(T, n)
      /\ \A x \in DOMAIN T : x \in Under(T, n) <=> x = n \/ (x # root /\ T[x].fa \in Under(T, n))
  BY <1>1, UnderIs
<1>3. p \in Seq(Words)
  BY VolumePath
<1>4. root \in S
  BY <1>1 DEF KindsFit, BelongVFS, FathersThere
<1>5. ASSUME NEW x \in DOMAIN T \ {root}, T[x].fa \in S
      PROVE  x \in S
  <2> SUFFICES ASSUME BelongVFS(T[x]), IsPrefix(p, PathInVFS(T, x))
               PROVE  x \in Under(T, n)
    OBVIOUS
  <2> DEFINE q == PathInVFS(T, T[x].fa)
  <2>1. p = PathInVFS(T, x) => x = n
    BY VolumePathsApart
  <2>2. CASE T[x].kind = "mount"
    <3>1. PathInVFS(T, x) = <<>>
      BY <2>2, VolumePath
    <3> HIDE DEF p
    <3>2. p = <<>>
      BY <1>3, <3>1 DEF IsPrefix
    <3> QED BY <1>2, <2>1, <3>1, <3>2
  <2>3. CASE T[x].kind # "mount"
    <3>1. /\ T[x].fa \in DOMAIN T /\ BelongVFS(T[T[x].fa]) /\ T[x].name \in Words
          /\ PathInVFS(T, x) = Append(q, T[x].name)
      BY <2>3, VolumePath
    <3>2. q \in Seq(Words)
      BY <3>1, VolumePath
    <3> HIDE DEF p, q
    <3>3. p = PathInVFS(T, x) \/ IsPrefix(p, q)
      <4>1. IsPrefix(p, Append(q, T[x].name))
        BY <3>1
      <4> QED BY <1>3, <3>1, <3>2, <4>1, PrefixOfLonger
    <3> QED BY <1>2, <1>5, <2>1, <3>1, <3>3 DEF q
  <2> QED BY <2>2, <2>3
<1>6. DOMAIN T \subseteq S
  <2> HIDE DEF S
  <2> QED BY <1>1, <1>4, <1>5, ByFathers
<1> QED BY <1>6

(* unlinkat in the volume.                                                 *)
LEMMA ClosedSound ==
    ASSUME NEW T, TreeSound(T), NEW V, VolumeTyped(V), NodesIn(T, V), NEW n \in DOMAIN T, BelongVFS(T[n])
    PROVE  LET U == Close(T, n)
               W == VolumeWithout(V, PathInVFS(T, n))
           IN  TreeSound(U) /\ VolumeTyped(W) /\ NodesIn(U, W)
<1> DEFINE U == Deleted(T, n)
           p == PathInVFS(T, n)
           W == VolumeWithout(V, p)
<1>1. T[n].kind # "dir" /\ n # root /\ Shaped(T) /\ Rooted(T)
  BY VolumePath DEF BelongVFS, TreeSound, Shaped
<1>2. TreeSound(U) /\ Standing(U, V) /\ (T[n].kind # "mount" => MountedFor(U, V))
  BY <1>1, DeletedSound DEF NodesIn
<1>3. DOMAIN W = {r \in DOMAIN V : ~IsPrefix(p, r)} /\ \A q \in DOMAIN W : W[q] = V[q] /\ q \in DOMAIN V
  BY DEF VolumeWithout
<1>4. W = [q \in DOMAIN W |-> W[q]]
  BY DEF VolumeWithout
<1> HIDE DEF W
<1>5. VolumeTyped(W)
  <2>1. W \in [DOMAIN W -> {"file", "folder"}] /\ DOMAIN W \in SUBSET Seq(Words)
    BY <1>3, <1>4 DEF VolumeTyped
  <2>2. ASSUME NEW q \in DOMAIN W
        PROVE  q # <<>> /\ (Len(q) # 1 => Front(q) \in DOMAIN W)
    <3>1. q \in DOMAIN V /\ ~IsPrefix(p, q) /\ q \in Seq(Words) /\ q # <<>>
      BY <1>3 DEF VolumeTyped
    <3>2. p \in Seq(Words)
      BY VolumePath
    <3> HIDE DEF p
    <3>3. ~IsPrefix(p, Front(q))
      BY <3>1, <3>2, PrefixOfFront
    <3>4. Len(q) # 1 => Front(q) \in DOMAIN V
      BY <3>1 DEF VolumeTyped
    <3> QED BY <1>3, <3>1, <3>3, <3>4
  <2> QED BY <2>1, <2>2 DEF VolumeTyped
<1>6. ShrunkBy(T, U, n)
  BY <1>1, DeletedIs
<1>7. Rooted(U)
  BY <1>2 DEF TreeSound, Shaped
<1> HIDE DEF U
<1>8. \A m \in DOMAIN U : m \in DOMAIN T /\ m \notin Under(T, n)
                          /\ T[m].fa = U[m].fa /\ T[m].name = U[m].name /\ T[m].kind = U[m].kind
  BY <1>6 DEF ShrunkBy
<1>9. \A m \in DOMAIN U : PathInVFS(T, m) = PathInVFS(U, m)
  <2>1. DOMAIN U \in SUBSET (DOMAIN T \cap DOMAIN U)
    BY <1>8
  <2>2. \A m \in DOMAIN U \ {root} : T[m].fa \in DOMAIN U
    BY <1>7, <1>8 DEF Rooted, FathersThere
  <2>3. \A m \in DOMAIN U : T[m].fa = U[m].fa /\ T[m].name = U[m].name /\ T[m].kind = U[m].kind
    BY <1>8
  <2>4. \A m \in DOMAIN U : PathUpTo(T, m, "mount") = PathUpTo(U, m, "mount")
    BY <1>1, <1>7, <2>1, <2>2, <2>3, PathKept
  <2> QED BY <2>4 DEF PathInVFS
<1>10. Standing(U, W)
  <2> SUFFICES ASSUME NEW m \in DOMAIN U, U[m].kind \in {"file", "folder"}
               PROVE  PathInVFS(U, m) \in DOMAIN W /\ W[PathInVFS(U, m)] = U[m].kind
    BY DEF Standing
  <2>1. PathInVFS(U, m) \in DOMAIN V /\ V[PathInVFS(U, m)] = U[m].kind
    BY <1>2 DEF Standing
  <2>2. BelongVFS(T[m]) /\ m \in DOMAIN T /\ m \notin Under(T, n)
    BY <1>8 DEF BelongVFS
  <2>3. ~IsPrefix(p, PathInVFS(U, m))
    BY <1>9, <2>2, GoneFromVolume
  <2> QED BY <1>3, <2>1, <2>3
<1>11. MountedFor(U, W)
  <2>1. CASE T[n].kind = "mount"
    <3>1. p = <<>>
      BY <2>1, VolumePath
    <3>2. \A r \in DOMAIN V : r \in Seq(Words)
      BY DEF VolumeTyped
    <3>3. \A r \in DOMAIN V : IsPrefix(p, r)
      BY <3>1, <3>2, NothingIsPrefix
    <3> QED BY <1>3, <3>3 DEF MountedFor
  <2>2. CASE T[n].kind # "mount"
    BY <1>2, <1>3, <2>2 DEF MountedFor
  <2> QED BY <2>1, <2>2
<1> QED BY <1>2, <1>5, <1>10, <1>11 DEF Close, NodesIn, U, W

(* The volume's CreateFile and CreateDirectory.                            *)
LEMMA VolumeGrows ==
    ASSUME NEW T, NEW V, VolumeTyped(V), NodesIn(T, V), \E n \in DOMAIN T : T[n].kind = "mount",
           NEW path \in Seq(Words), NEW kind \in {"file", "folder"}
    PROVE  VolumeTyped(VolumeWith(V, path, kind)) /\ NodesIn(T, VolumeWith(V, path, kind))
<1> DEFINE W == [q \in DOMAIN V \union {path} |-> IF q = path THEN kind ELSE V[q]]
<1>1. \/ VolumeWith(V, path, kind) = V
      \/ /\ path \notin DOMAIN V /\ VolumeWith(V, path, kind) = W
         /\ path # <<>> /\ (Len(path) # 1 => Front(path) \in DOMAIN V)
  BY DEF VolumeWith
<1>2. path # <<>> /\ (Len(path) # 1 => Front(path) \in DOMAIN V) => VolumeTyped(W)
  BY DEF VolumeTyped
<1>3. path \notin DOMAIN V => NodesIn(T, W)
  <2>1. DOMAIN W = DOMAIN V \union {path} /\ \A q \in DOMAIN V : q # path => W[q] = V[q]
    OBVIOUS
  <2> HIDE DEF W
  <2> QED BY <2>1 DEF NodesIn, Standing, MountedFor
<1> QED BY <1>1, <1>2, <1>3
-----------------------------------------------------------------------------
(* Looking up.                                                             *)

\* A tree, and a node of it or Null.
Places == [tree : UNION {[D -> FileNode] : D \in SUBSET Nat}, node : Nat \union {Null}]

\* What FindRecursive may come to, when the volume holds V.
Founds(V) == {at \in Places : /\ TreeSound(at.tree) /\ NodesIn(at.tree, V)
                              /\ at.node = Null \/ at.node \in DOMAIN at.tree}

(* A sound tree and one of its nodes. *)
LEMMA FoundIs ==
    ASSUME NEW T, NEW V, TreeSound(T), NodesIn(T, V), NEW n, n = Null \/ n \in DOMAIN T
    PROVE  [tree |-> T, node |-> n] \in Founds(V)
<1>1. T \in [DOMAIN T -> FileNode] /\ DOMAIN T \in SUBSET Nat
  BY DEF TreeSound, Shaped, Rooted, TreeTyped
<1>2. n \in Nat \union {Null}
  BY <1>1
<1>3. T \in UNION {[D -> FileNode] : D \in SUBSET Nat}
  BY <1>1
<1>4. [tree |-> T, node |-> n] \in Places
  BY <1>2, <1>3 DEF Places
<1> QED BY <1>4 DEF Founds

(* FindRecursive for one section, in a sound tree.                         *)
LEMMA DownSound ==
    ASSUME NEW V, NEW at \in Founds(V), VolumeTyped(V), NEW name \in Words
    PROVE  /\ Down(at, V, name) \in Founds(V)
           /\ \A m \in DOMAIN at.tree : at.node # Null /\ at.tree[m].fa = at.node /\ at.tree[m].name = name
                  => Down(at, V, name) = [tree |-> at.tree, node |-> m]
           /\ Down(at, V, name).node = Null => Down(at, V, name).tree = at.tree
           /\ Down(at, V, name).node = Null /\ at.node # Null =>
                  \A m \in DOMAIN at.tree : at.tree[m].fa = at.node => at.tree[m].name # name
<1> DEFINE T == at.tree
           n == at.node
           c == ChildAtHand(T, n, name)
           d == Down(at, V, name)
<1>1. /\ TreeSound(T) /\ NodesIn(T, V) /\ (n = Null \/ n \in DOMAIN T)
      /\ at = [tree |-> T, node |-> n]
  BY DEF Founds, Places
<1>2. Shaped(T) /\ KindsFit(T) /\ TmpThere(T) /\ Null \notin DOMAIN T
  BY <1>1, VFSAssumption DEF TreeSound, Shaped, Rooted, TreeTyped
<1> HIDE DEF T, n
<1>3. \A m \in DOMAIN T \union {Null} : [at EXCEPT !.node = m] = [tree |-> T, node |-> m]
  BY <1>1
<1>4. CASE n = Null
  <2>1. d = at
    BY <1>4 DEF Down, n
  <2> QED BY <1>1, <1>4, <2>1 DEF T, n
<1>5. CASE n # Null
  <2>1. n \in DOMAIN T
    BY <1>1, <1>5
  <2>2. /\ c \in DOMAIN T \union {Null}
        /\ c # Null => T[c].fa = n /\ T[c].name = name
        /\ \A m \in DOMAIN T : T[m].fa = n /\ T[m].name = name => c = m
    BY <1>2, <2>1, FindChildNameIs DEF ChildAtHand
  <2>3. d = IF c # Null THEN [at EXCEPT !.node = c] ELSE AddFileInVFS(at, V, name)
    BY <1>5 DEF Down, With, T, n
  <2> HIDE DEF c, d
  <2>4. CASE c # Null
    <3>1. d = [tree |-> T, node |-> c] /\ c \in DOMAIN T
      BY <1>3, <2>2, <2>3, <2>4
    <3>2. d \in Founds(V)
      BY <1>1, <3>1, FoundIs
    <3>3. d.node # Null /\ \A m \in DOMAIN T : T[m].fa = n /\ T[m].name = name => d = [tree |-> T, node |-> m]
      BY <2>2, <2>4, <3>1
    <3> QED BY <3>2, <3>3 DEF T, n, d
  <2>5. CASE c = Null
    <3>1. \A m \in DOMAIN T : T[m].fa = n => T[m].name # name
      BY <1>2, <2>2, <2>5
    <3> DEFINE p == PathInVFS(T, n)
               q == Append(p, name)
    <3>2. d = AddFileInVFS(at, V, name)
      BY <2>3, <2>5
    <3>3. d = IF ~BelongVFS(T[n]) \/ q \notin DOMAIN V THEN [tree |-> T, node |-> Null]
              ELSE [tree |-> Added(T, New(name, V[q]), n), node |-> Fresh(T)]
      <4>1. [at EXCEPT !.node = Null] = [tree |-> T, node |-> Null]
        BY <1>3
      <4>2. AddFileInVFS(at, V, name) =
                IF ~BelongVFS(T[n]) THEN [tree |-> T, node |-> Null]
                ELSE IF q \notin DOMAIN V THEN [tree |-> T, node |-> Null]
                ELSE [tree |-> Added(T, New(name, V[q]), n), node |-> Fresh(T)]
        BY <4>1 DEF AddFileInVFS, With, T, n
      <4> QED BY <3>2, <4>2
    <3> HIDE DEF q
    <3>4. CASE ~BelongVFS(T[n]) \/ q \notin DOMAIN V
      <4>1. d = [tree |-> T, node |-> Null]
        BY <3>3, <3>4
      <4>2. d \in Founds(V)
        BY <1>1, <4>1, FoundIs
      <4> QED BY <3>1, <4>1, <4>2 DEF T, n, d
    <3>5. CASE BelongVFS(T[n]) /\ q \in DOMAIN V
      <4> DEFINE kind == V[q]
                 U == Added(T, New(name, kind), n)
      <4>1. kind \in {"file", "folder"}
        BY <3>5 DEF VolumeTyped
      <4> HIDE DEF kind
      <4>2. kind \in Kinds
        BY <4>1 DEF Kinds
      <4>3. IF kind \in {"folder", "file"} THEN BelongVFS(T[n]) ELSE T[n].kind = "dir"
        BY <3>5, <4>1
      <4>4. kind # "mount"
        BY <4>1
      <4>5. Shaped(U) /\ KindsFit(U) /\ TmpThere(U)
        BY <1>2, <2>1, <3>1, <4>2, <4>3, <4>4, AddedSound
      <4>6. NodesIn(U, V)
        <5>1. Append(p, name) \in DOMAIN V /\ V[Append(p, name)] = kind
          BY <3>5 DEF q, kind
        <5> HIDE DEF p
        <5> QED BY <1>1, <1>2, <2>1, <3>1, <4>2, <5>1, AddedStands DEF p
      <4>7. Fresh(T) \in DOMAIN U /\ Fresh(T) \notin DOMAIN T
        <5>1. GrownBy(T, U, Fresh(T), n, name, kind)
          BY <1>2, <2>1, <4>2, AddedIs, ChildApart DEF Shaped, Rooted
        <5> QED BY <5>1 DEF GrownBy
      <4>8. Fresh(T) # Null
        BY <4>5, <4>7, VFSAssumption DEF Shaped, Rooted, TreeTyped
      <4>9. d = [tree |-> U, node |-> Fresh(T)]
        BY <3>3, <3>5 DEF kind
      <4>10. d \in Founds(V)
        BY <4>5, <4>6, <4>7, <4>9, FoundIs DEF TreeSound
      <4> QED BY <3>1, <4>8, <4>9, <4>10 DEF T, n, d
    <3> QED BY <3>4, <3>5
  <2> QED BY <2>4, <2>5
<1> QED BY <1>4, <1>5

FollowsFind(T, V, path, at) ==
    at = [i \in 0 .. Len(path) |->
             IF i = 0 THEN [tree |-> T, node |-> root]
             ELSE With(at[i - 1], LAMBDA found : Down(found, V, path[i]))]

\* What FindRecursive has come to after each section.
Finds(T, V, path, at) ==
    /\ at[0] = [tree |-> T, node |-> root]
    /\ \A i \in 1 .. Len(path) : at[i] = Down(at[i - 1], V, path[i])
    /\ \A i \in 0 .. Len(path) : at[i] \in Founds(V)

(* The way of FindRecursive. *)
LEMMA FindIs ==
    ASSUME NEW T, NEW V, TreeSound(T), VolumeTyped(V), NodesIn(T, V), NEW path \in Seq(Words)
    PROVE  \E at : Finds(T, V, path, at) /\ Find(T, V, path) = at[Len(path)]
<1> DEFINE N == Len(path)
           start == [tree |-> T, node |-> root]
           step == [i \in 1 .. N |-> [v \in Founds(V) |-> Down(v, V, path[i])]]
           sets == [i \in 0 .. N |-> Founds(V)]
           h == CHOOSE f : FollowsFind(T, V, path, f)
<1>1. N \in Nat /\ \A i \in 1 .. N : path[i] \in Words
  OBVIOUS
<1>2. start \in Founds(V)
  <2>1. root \in DOMAIN T
    BY DEF TreeSound, Shaped, Rooted, FathersThere
  <2> QED BY <2>1, FoundIs
<1>3. \A i \in 1 .. N : \A v \in Founds(V) : step[i][v] = Down(v, V, path[i])
  OBVIOUS
<1>4. \A i \in 1 .. N : i - 1 \in 0 .. N /\ i \in 0 .. N
  BY <1>1
<1>5. \A i \in 0 .. N : sets[i] = Founds(V)
  OBVIOUS
<1> HIDE DEF step, sets, start
<1>6. LoopWithin(N, sets, start, step)
  <2>1. \A i \in 1 .. N : \A v \in Founds(V) : step[i][v] \in Founds(V)
    BY <1>1, <1>3, DownSound
  <2>2. 0 \in 0 .. N
    BY <1>1
  <2> HIDE DEF N
  <2> QED BY <1>2, <1>4, <1>5, <2>1, <2>2 DEF LoopWithin
<1>7. PICK f : LoopValues(f, N, sets, start, step)
  <2> HIDE DEF N
  <2> QED BY <1>1, <1>6, Rounds
<1>8. /\ f[0] = start /\ f = [i \in 0 .. N |-> f[i]]
      /\ \A i \in 0 .. N : f[i] \in Founds(V)
      /\ \A i \in 1 .. N : f[i] = step[i][f[i - 1]]
  <2> HIDE DEF N
  <2> QED BY <1>5, <1>7 DEF LoopValues
<1>9. \A i \in 1 .. N : f[i] = Down(f[i - 1], V, path[i])
  <2> HIDE DEF N
  <2> QED BY <1>3, <1>4, <1>8
<1>10. FollowsFind(T, V, path, f)
  <2>1. \A i \in 0 .. N : i = 0 \/ i \in 1 .. N
    BY <1>1
  <2>2. \A i \in 0 .. N : f[i] = IF i = 0 THEN start ELSE Down(f[i - 1], V, path[i])
    <3> HIDE DEF N
    <3> QED BY <1>8, <1>9, <2>1
  <2>3. \A i \in 0 .. N :
           f[i] = IF i = 0 THEN start ELSE With(f[i - 1], LAMBDA found : Down(found, V, path[i]))
    BY <2>2 DEF With
  <2> QED BY <1>8, <2>3 DEF FollowsFind, With, start
<1>11. FollowsFind(T, V, path, h)
  BY <1>10
<1>12. Find(T, V, path) = h[N]
  BY DEF Find, FollowsFind, With
<1> HIDE DEF h
<1>13. h[0] = start /\ \A i \in 1 .. N : h[i] = Down(h[i - 1], V, path[i])
  BY <1>1, <1>11 DEF FollowsFind, With, start
<1>14. h[N] = f[N]
  <2>1. \A i \in 1 .. N : h[i - 1] = f[i - 1] => h[i] = f[i]
    BY <1>9, <1>13
  <2>2. h[0] = f[0] /\ N \in Nat
    BY <1>1, <1>8, <1>13
  <2> HIDE DEF N, start
  <2> QED BY <2>1, <2>2, OneLoop
<1>15. Finds(T, V, path, f)
  BY <1>8, <1>9 DEF Finds, start
<1> QED BY <1>12, <1>14, <1>15

(* FindRecursive keeps the tree sound, and gives a node of it or none.     *)
LEMMA FindSound ==
    ASSUME NEW T, NEW V, TreeSound(T), VolumeTyped(V), NodesIn(T, V), NEW path \in Seq(Words)
    PROVE  Find(T, V, path) \in Founds(V)
<1>1. PICK at : Finds(T, V, path, at) /\ Find(T, V, path) = at[Len(path)]
  BY FindIs
<1>2. Len(path) \in 0 .. Len(path)
  OBVIOUS
<1> QED BY <1>1, <1>2 DEF Finds

(* No section is the root. *)
LEMMA FindNothing ==
    ASSUME NEW T, NEW V, TreeSound(T), VolumeTyped(V), NodesIn(T, V)
    PROVE  Find(T, V, <<>>) = [tree |-> T, node |-> root]
<1>1. <<>> \in Seq(Words) /\ Len(<<>>) = 0
  BY EmptyTyped
<1>2. PICK at : Finds(T, V, <<>>, at) /\ Find(T, V, <<>>) = at[Len(<<>>)]
  BY <1>1, FindIs
<1> QED BY <1>1, <1>2 DEF Finds

(* The last section is looked up where the ones before it lead.            *)
LEMMA FindLast ==
    ASSUME NEW T, NEW V, TreeSound(T), VolumeTyped(V), NodesIn(T, V),
           NEW path \in Seq(Words), NEW name \in Words
    PROVE  Find(T, V, Append(path, name)) = Down(Find(T, V, path), V, name)
<1> DEFINE N == Len(path)
           longer == Append(path, name)
<1>1. /\ longer \in Seq(Words) /\ Len(longer) = N + 1 /\ longer[N + 1] = name
      /\ N \in Nat /\ \A i \in 1 .. N : longer[i] = path[i]
  <2>1. longer \in Seq(Words) /\ LongerBy(longer, path, name)
    BY AppendTyped
  <2> HIDE DEF longer
  <2> QED BY <2>1 DEF LongerBy
<1> HIDE DEF longer
<1>2. PICK f : Finds(T, V, path, f) /\ Find(T, V, path) = f[N]
  BY FindIs
<1>3. PICK h : Finds(T, V, longer, h) /\ Find(T, V, longer) = h[N + 1]
  BY <1>1, FindIs
<1> HIDE DEF N
<1>4. h[0] = f[0]
  BY <1>2, <1>3 DEF Finds
<1>5. \A i \in 1 .. N : f[i] = Down(f[i - 1], V, path[i])
  BY <1>2 DEF Finds, N
<1>6. \A i \in 1 .. N + 1 : h[i] = Down(h[i - 1], V, longer[i])
  BY <1>1, <1>3 DEF Finds
<1>7. \A i \in 1 .. N : h[i] = Down(h[i - 1], V, path[i])
  <2>1. \A i \in 1 .. N : i \in 1 .. N + 1
    BY <1>1
  <2> QED BY <1>1, <1>6, <2>1
<1>8. h[N] = f[N]
  <2>1. \A i \in 1 .. N : h[i - 1] = f[i - 1] => h[i] = f[i]
    BY <1>5, <1>7
  <2> QED BY <1>1, <1>4, <2>1, OneLoop
<1>9. N + 1 \in 1 .. N + 1 /\ (N + 1) - 1 = N
  BY <1>1
<1>10. h[N + 1] = Down(h[N], V, name)
  BY <1>1, <1>6, <1>9
<1> QED BY <1>2, <1>3, <1>8, <1>10 DEF longer

(* The path of a node leads to it.                                         *)
LEMMA PathLeadsBack ==
    ASSUME NEW T, NEW V, TreeSound(T), VolumeTyped(V), NodesIn(T, V), NEW n \in DOMAIN T
    PROVE  Find(T, V, GetPath(T, n)) = [tree |-> T, node |-> n]
<1> DEFINE S == {m \in DOMAIN T : Find(T, V, GetPath(T, m)) = [tree |-> T, node |-> m]}
<1>1. Rooted(T) /\ FathersThere(T) /\ Acyclic(T) /\ Null \notin DOMAIN T
  BY VFSAssumption DEF TreeSound, Shaped, Rooted, TreeTyped
<1>2. \A m \in DOMAIN T : T[m].name \in Words /\ ~ (T[m].kind = "none")
  BY <1>1 DEF Rooted, TreeTyped, FileNode, Kinds
<1>3. root \in S
  <2>1. AtTop(T, root, "none") /\ root \in DOMAIN T
    BY <1>1 DEF AtTop, FathersThere
  <2>2. GetPath(T, root) = <<>>
    BY <1>1, <2>1, PathIs DEF GetPath
  <2> QED BY <2>1, <2>2, FindNothing
<1>4. ASSUME NEW m \in DOMAIN T \ {root}, T[m].fa \in S
      PROVE  m \in S
  <2> DEFINE fa == T[m].fa
             p == GetPath(T, fa)
  <2>1. fa \in DOMAIN T /\ fa # Null
    BY <1>1, <1>4
  <2>2. ~AtTop(T, m, "none")
    BY <1>2, <2>1 DEF AtTop
  <2>3. GetPath(T, m) = Append(p, T[m].name)
    BY <1>1, <2>2, PathIs DEF GetPath
  <2>4. p \in Seq(Words)
    BY <1>1, <2>1, PathTyped DEF GetPath
  <2>5. Find(T, V, p) = [tree |-> T, node |-> fa]
    BY <1>4
  <2> HIDE DEF p, fa
  <2>6. Find(T, V, Append(p, T[m].name)) = Down([tree |-> T, node |-> fa], V, T[m].name)
    <3>1. T[m].name \in Words
      BY <1>2
    <3>2. Find(T, V, Append(p, T[m].name)) = Down(Find(T, V, p), V, T[m].name)
      BY <2>4, <3>1, FindLast
    <3> QED BY <2>5, <3>2
  <2>7. Down([tree |-> T, node |-> fa], V, T[m].name) = [tree |-> T, node |-> m]
    <3> DEFINE at == [tree |-> T, node |-> fa]
    <3>1. at.tree = T /\ at.node = fa
      OBVIOUS
    <3>2. at \in Founds(V)
      BY <2>1, FoundIs
    <3> HIDE DEF at
    <3>3. at.node # Null /\ at.tree[m].fa = at.node /\ at.tree[m].name = T[m].name /\ m \in DOMAIN at.tree
      BY <2>1, <3>1 DEF fa
    <3>4. Down(at, V, T[m].name) = [tree |-> at.tree, node |-> m]
      BY <1>2, <3>2, <3>3, DownSound
    <3> QED BY <3>1, <3>4 DEF at
  <2> QED BY <2>3, <2>6, <2>7
<1>5. DOMAIN T \subseteq S
  <2> HIDE DEF S
  <2> QED BY <1>1, <1>3, <1>4, ByFathers
<1> QED BY <1>5
-----------------------------------------------------------------------------
(* Paths.                                                                  *)

(* Parts of sequences, and sequences behind each other. *)
LEMMA PartTyped ==
    ASSUME NEW S, NEW s \in Seq(S), NEW m \in Nat \ {0}
    PROVE  SubSeq(s, m, Len(s)) \in Seq(S)
OBVIOUS

LEMMA FrontTyped ==
    ASSUME NEW S, NEW s \in Seq(S), s # <<>>
    PROVE  Front(s) \in Seq(S)
BY DEF Front

LEMMA JoinTyped ==
    ASSUME NEW S, NEW s \in Seq(S), NEW t \in Seq(S)
    PROVE  s \o t \in Seq(S)
OBVIOUS

\* The path after one section more.
After(done, x) == CASE x \in {"", "."} -> done
                    [] x = ".." -> Left(done)
                    [] OTHER -> Append(done, x)

FollowsSections(names, upTo) ==
    upTo = [i \in 0 .. Len(names) |->
               IF i = 0 THEN <<>>
               ELSE With(upTo[i - 1], LAMBDA done : CASE names[i] \in {"", "."} -> done
                                                      [] names[i] = ".." -> Left(done)
                                                      [] OTHER -> Append(done, names[i]))]

\* What NormalizePath has written after each section.
Normalizes(names, upTo) ==
    /\ upTo[0] = <<>>
    /\ \A i \in 1 .. Len(names) : upTo[i] = After(upTo[i - 1], names[i])
    /\ \A i \in 0 .. Len(names) : upTo[i] \in Seq(Words)

(* The way of NormalizePath.                                               *)
LEMMA NormalizedIs ==
    ASSUME NEW names \in Seq(Words)
    PROVE  \E upTo : Normalizes(names, upTo) /\ Normalized(names) = upTo[Len(names)]
<1> DEFINE N == Len(names)
           P == Seq(Words)
           step == [i \in 1 .. N |-> [done \in P |-> After(done, names[i])]]
           sets == [i \in 0 .. N |-> P]
           h == CHOOSE f : FollowsSections(names, f)
<1>1. N \in Nat /\ \A i \in 1 .. N : names[i] \in Words
  OBVIOUS
<1>2. \A done \in P, x \in Words : After(done, x) \in P
  <2> SUFFICES ASSUME NEW done \in P, NEW x \in Words
               PROVE  After(done, x) \in P
    OBVIOUS
  <2>1. After(done, x) = done \/ After(done, x) = Left(done) \/ After(done, x) = Append(done, x)
    BY DEF After
  <2>2. Left(done) \in P
    <3>1. done # <<>> => Front(done) \in P
      BY FrontTyped
    <3> QED BY <3>1 DEF Left
  <2>3. Append(done, x) \in P
    BY AppendTyped
  <2> QED BY <2>1, <2>2, <2>3
<1>3. <<>> \in P
  BY EmptyTyped
<1>4. \A i \in 1 .. N : \A v \in P : step[i][v] = After(v, names[i])
  OBVIOUS
<1>5. \A i \in 1 .. N : i - 1 \in 0 .. N /\ i \in 0 .. N
  BY <1>1
<1>6. \A i \in 0 .. N : sets[i] = P
  OBVIOUS
<1> HIDE DEF step, sets, P
<1>7. LoopWithin(N, sets, <<>>, step)
  <2>1. \A i \in 1 .. N : \A v \in P : step[i][v] \in P
    BY <1>1, <1>2, <1>4
  <2>2. 0 \in 0 .. N
    BY <1>1
  <2> HIDE DEF N
  <2> QED BY <1>3, <1>5, <1>6, <2>1, <2>2 DEF LoopWithin
<1>8. PICK f : LoopValues(f, N, sets, <<>>, step)
  <2> HIDE DEF N
  <2> QED BY <1>1, <1>7, Rounds
<1>9. /\ f[0] = <<>> /\ f = [i \in 0 .. N |-> f[i]]
      /\ \A i \in 0 .. N : f[i] \in P
      /\ \A i \in 1 .. N : f[i] = step[i][f[i - 1]]
  <2> HIDE DEF N
  <2> QED BY <1>6, <1>8 DEF LoopValues
<1>10. \A i \in 1 .. N : f[i] = After(f[i - 1], names[i])
  <2> HIDE DEF N
  <2> QED BY <1>4, <1>5, <1>9
<1>11. FollowsSections(names, f)
  <2>1. \A i \in 0 .. N : i = 0 \/ i \in 1 .. N
    BY <1>1
  <2>2. \A i \in 0 .. N : f[i] = IF i = 0 THEN <<>> ELSE After(f[i - 1], names[i])
    <3> HIDE DEF N
    <3> QED BY <1>9, <1>10, <2>1
  <2>3. \A i \in 0 .. N :
           f[i] = IF i = 0 THEN <<>>
                  ELSE With(f[i - 1], LAMBDA done : CASE names[i] \in {"", "."} -> done
                                                      [] names[i] = ".." -> Left(done)
                                                      [] OTHER -> Append(done, names[i]))
    BY <2>2 DEF With, After
  <2> QED BY <1>9, <2>3 DEF FollowsSections, With
<1>12. FollowsSections(names, h)
  BY <1>11
<1>13. Normalized(names) = h[N]
  BY DEF Normalized, FollowsSections, With
<1> HIDE DEF h
<1>14. h[0] = <<>> /\ \A i \in 1 .. N : h[i] = After(h[i - 1], names[i])
  <2>1. \A i \in 0 .. N :
           h[i] = IF i = 0 THEN <<>>
                  ELSE With(h[i - 1], LAMBDA done : CASE names[i] \in {"", "."} -> done
                                                      [] names[i] = ".." -> Left(done)
                                                      [] OTHER -> Append(done, names[i]))
    BY <1>12 DEF FollowsSections
  <2>2. \A i \in 0 .. N : h[i] = IF i = 0 THEN <<>> ELSE After(h[i - 1], names[i])
    BY <2>1 DEF With, After
  <2>3. 0 \in 0 .. N /\ \A i \in 1 .. N : i \in 0 .. N /\ i # 0
    BY <1>1
  <2> QED BY <2>2, <2>3
<1>15. h[N] = f[N]
  <2>1. \A i \in 1 .. N : h[i - 1] = f[i - 1] => h[i] = f[i]
    BY <1>10, <1>14
  <2>2. h[0] = f[0] /\ N \in Nat
    BY <1>1, <1>9, <1>14
  <2> HIDE DEF N
  <2> QED BY <2>1, <2>2, OneLoop
<1>16. Normalizes(names, f)
  BY <1>9, <1>10 DEF Normalizes, P
<1> QED BY <1>13, <1>15, <1>16

(* NormalizePath gives a path.                                             *)
LEMMA NormalizedTyped ==
    ASSUME NEW names \in Seq(Words)
    PROVE  Normalized(names) \in Seq(Words)
<1>1. PICK upTo : Normalizes(names, upTo) /\ Normalized(names) = upTo[Len(names)]
  BY NormalizedIs
<1>2. Len(names) \in 0 .. Len(names)
  OBVIOUS
<1> QED BY <1>1, <1>2 DEF Normalizes

(* What SelectInSeq finds is a place in the sequence. *)
LEMMA SelectedIs ==
    ASSUME NEW S, NEW s \in Seq(S), NEW I \in SUBSET (1 .. Len(s))
    PROVE  (IF I # {} THEN Min(I) ELSE 0) \in 0 .. Len(s)
<1>1. I \in SUBSET Nat /\ Len(s) \in Nat
  OBVIOUS
<1>2. CASE I = {}
  BY <1>1, <1>2
<1>3. CASE I # {}
  <2>1. Min(I) \in I
    BY <1>1, <1>3, LeastNumber
  <2>2. Min(I) \in 0 .. Len(s)
    <3>1. \A x \in 1 .. Len(s) : x \in 0 .. Len(s)
      BY <1>1
    <3> QED BY <2>1, <3>1
  <2> QED BY <1>3, <2>2
<1> QED BY <1>2, <1>3

(* A sequence of two. *)
LEMMA PairIs ==
    ASSUME NEW S, NEW s \in Seq(S), Len(s) = 2
    PROVE  s[2] \in S /\ s = Append(<<s[1]>>, s[2])
<1>1. 1 \in 1 .. Len(s) /\ 2 \in 1 .. Len(s) /\ \A i \in 1 .. Len(s) : s[i] \in S
  <2>1. \A i \in 1 .. Len(s) : s[i] \in S
    OBVIOUS
  <2>2. 1 \in 1 .. Len(s) /\ 2 \in 1 .. Len(s)
    OBVIOUS
  <2> QED BY <2>1, <2>2
<1> DEFINE one == <<s[1]>>
           t == Append(one, s[2])
<1>2. one \in Seq(S) /\ Len(one) = 1 /\ one[1] = s[1]
  BY <1>1
<1> HIDE DEF one
<1>3. t \in Seq(S) /\ LongerBy(t, one, s[2])
  BY <1>1, <1>2, AppendTyped
<1> HIDE DEF t
<1>4. Len(t) = 2 /\ t[2] = s[2] /\ t[1] = s[1]
  <2>1. 1 \in 1 .. Len(one)
    BY <1>2
  <2> QED BY <1>2, <1>3, <2>1 DEF LongerBy
<1>5. \A i \in 1 .. 2 : i = 1 \/ i = 2
  OBVIOUS
<1>6. t = s
  BY <1>3, <1>4, <1>5
<1> QED BY <1>1, <1>6 DEF t, one

(* GetSymbolLinkedPath gives a path.                                       *)
LEMMA FollowedTyped ==
    ASSUME LinksTyped, NEW path \in Seq(Words)
    PROVE  Followed(path) \in Seq(Words)
<1> DEFINE I == {i \in 1 .. Len(links) : Matches(path, links[i][1])}
           i == SelectInSeq(links, LAMBDA l : Matches(path, l[1]))
           to(j) == IF j = 0 THEN path
                    ELSE links[j][2] \o SubSeq(path, Len(links[j][1]) + 1, Len(path))
<1>1. i = IF I # {} THEN Min(I) ELSE 0
  BY DEF SelectInSeq
<1>2. Followed(path) = IF i = 0 THEN path
                       ELSE links[i][2] \o SubSeq(path, Len(links[i][1]) + 1, Len(path))
  <2>1. Followed(path) = With(i, to)
    BY DEF Followed
  <2>2. With(i, to) = to(i)
    <3> HIDE DEF to, i
    <3> QED BY DEF With
  <2> QED BY <2>1, <2>2
<1>3. I \in SUBSET (1 .. Len(links))
  OBVIOUS
<1> HIDE DEF i, I
<1>4. i \in 0 .. Len(links) /\ Len(links) \in Nat
  BY <1>1, <1>3, SelectedIs DEF LinksTyped
<1>5. CASE i = 0
  BY <1>2, <1>5
<1>6. CASE i # 0
  <2>1. links[i] \in Seq(Words) \X Seq(Words)
    BY <1>4, <1>6 DEF LinksTyped
  <2>2. links[i][2] \in Seq(Words) /\ links[i][1] \in Seq(Words)
    BY <2>1
  <2>3. Len(links[i][1]) + 1 \in Nat \ {0}
    BY <2>2
  <2>4. SubSeq(path, Len(links[i][1]) + 1, Len(path)) \in Seq(Words)
    BY <2>3, PartTyped
  <2> QED BY <1>2, <1>6, <2>2, <2>4, JoinTyped
<1> QED BY <1>5, <1>6

FollowsMounts(T, path, at) ==
    at = [i \in 0 .. Len(path) |-> IF i = 0 THEN root
                                   ELSE With(at[i - 1], LAMBDA n :
                                       IF n = Null THEN Null ELSE FindChildName(T, n, path[i]))]

(* FindPathOfVFS gives a number of sections of the path, and none when     *)
(* there is no volume.                                                     *)
LEMMA DepthIs ==
    ASSUME NEW T, Shaped(T), NEW path \in Seq(Words)
    PROVE  /\ MountDepth(T, path) \in 0 .. Len(path)
           /\ MountDepth(T, path) # 0 => \E n \in DOMAIN T : T[n].kind = "mount"
<1> DEFINE N == Len(path)
           D == DOMAIN T \union {Null}
           next(n, i) == IF n = Null THEN Null ELSE FindChildName(T, n, path[i])
           step == [i \in 1 .. N |-> [n \in D |-> next(n, i)]]
           sets == [i \in 0 .. N |-> D]
           h == CHOOSE f : FollowsMounts(T, path, f)
           good(M) == IF M = {} THEN 0 ELSE CHOOSE i \in M : \A j \in M : i <= j
           M == {i \in 1 .. N : h[i] # Null /\ T[h[i]].kind = "mount"}
<1>1. N \in Nat /\ root \in D /\ \A i \in 1 .. N : path[i] \in Words
  BY DEF Shaped, Rooted, FathersThere
<1>2. \A n \in D, i \in 1 .. N : next(n, i) \in D
  <2> SUFFICES ASSUME NEW n \in D, NEW i \in 1 .. N
               PROVE  next(n, i) \in D
    OBVIOUS
  <2>1. CASE n = Null
    BY <2>1
  <2>2. CASE n # Null
    <3>1. n \in DOMAIN T /\ path[i] \in Words
      BY <1>1, <2>2
    <3>2. FindChildName(T, n, path[i]) \in D
      BY <3>1, FindChildNameIs
    <3> QED BY <2>2, <3>2
  <2> QED BY <2>1, <2>2
<1>3. \A i \in 1 .. N : \A n \in D : step[i][n] = next(n, i)
  OBVIOUS
<1>4. \A i \in 1 .. N : i - 1 \in 0 .. N /\ i \in 0 .. N
  BY <1>1
<1>5. (\A i \in 0 .. N : sets[i] = D) /\ 0 \in 0 .. N
  BY <1>1
<1>6. FollowsMounts(T, path, h) => /\ h[0] = root
                                   /\ \A i \in 1 .. N : h[i] = next(h[i - 1], i)
  <2> SUFFICES ASSUME FollowsMounts(T, path, h)
               PROVE  h[0] = root /\ \A i \in 1 .. N : h[i] = next(h[i - 1], i)
    OBVIOUS
  <2> HIDE DEF h
  <2>1. \A i \in 0 .. N : h[i] = IF i = 0 THEN root
                                 ELSE With(h[i - 1], LAMBDA n :
                                     IF n = Null THEN Null ELSE FindChildName(T, n, path[i]))
    BY DEF FollowsMounts
  <2>2. \A i \in 0 .. N : h[i] = IF i = 0 THEN root ELSE next(h[i - 1], i)
    BY <2>1 DEF With
  <2> HIDE DEF next
  <2>3. \A i \in 1 .. N : i # 0
    BY <1>1
  <2> QED BY <1>4, <1>5, <2>2, <2>3
<1>7. MountDepth(T, path) = good(M)
  BY DEF MountDepth, FollowsMounts
<1> HIDE DEF next, step, sets, h, D
<1>8. LoopWithin(N, sets, root, step)
  <2> HIDE DEF N
  <2> QED BY <1>1, <1>2, <1>3, <1>4, <1>5 DEF LoopWithin
<1>9. PICK f : LoopValues(f, N, sets, root, step)
  <2> HIDE DEF N
  <2> QED BY <1>1, <1>8, Rounds
<1>10. /\ f[0] = root /\ f = [i \in 0 .. N |-> f[i]]
       /\ \A i \in 0 .. N : f[i] \in D
       /\ \A i \in 1 .. N : f[i] = next(f[i - 1], i)
  <2> HIDE DEF N
  <2> QED BY <1>3, <1>4, <1>5, <1>9 DEF LoopValues
<1>11. FollowsMounts(T, path, f)
  <2>1. \A i \in 0 .. N : i = 0 \/ i \in 1 .. N
    BY <1>1
  <2>2. \A i \in 0 .. N : f[i] = IF i = 0 THEN root ELSE next(f[i - 1], i)
    <3> HIDE DEF N
    <3> QED BY <1>10, <2>1
  <2>3. \A i \in 0 .. N : f[i] = IF i = 0 THEN root
                                 ELSE With(f[i - 1], LAMBDA n :
                                     IF n = Null THEN Null ELSE FindChildName(T, n, path[i]))
    BY <2>2 DEF With, next
  <2> QED BY <1>10, <2>3 DEF FollowsMounts, With
<1>12. h[0] = root /\ \A i \in 1 .. N : h[i] = next(h[i - 1], i)
  <2>1. FollowsMounts(T, path, h)
    BY <1>11 DEF h
  <2> QED BY <1>6, <2>1
<1>13. \A i \in 1 .. N : h[i] \in D
  <2>1. ASSUME NEW k \in 0 .. N
        PROVE  h[k] = f[k]
    <3>1. \A i \in 1 .. k : i \in 1 .. N
      BY <1>1
    <3>2. \A i \in 1 .. k : h[i - 1] = f[i - 1] => h[i] = f[i]
      BY <1>10, <1>12, <3>1
    <3>3. h[0] = f[0] /\ k \in Nat
      BY <1>1, <1>10, <1>12
    <3> HIDE DEF N
    <3> QED BY <3>2, <3>3, OneLoop
  <2> HIDE DEF N
  <2> QED BY <1>4, <1>10, <2>1
<1>14. M \in SUBSET (1 .. N) /\ (M # {} => \E n \in DOMAIN T : T[n].kind = "mount")
  BY <1>13 DEF D
<1>15. CASE M = {}
  BY <1>1, <1>7, <1>15
<1>16. CASE M # {}
  <2>1. M \in SUBSET Nat
    BY <1>1, <1>14
  <2>2. Min(M) \in M /\ \A j \in M : Min(M) <= j
    BY <1>16, <2>1, LeastNumber
  <2> HIDE DEF M
  <2>3. good(M) \in M
    BY <1>16, <2>2
  <2>4. \A x \in 1 .. N : x \in 0 .. N
    BY <1>1
  <2> HIDE DEF good
  <2> QED BY <1>7, <1>14, <1>16, <2>3, <2>4
<1> QED BY <1>15, <1>16

(* The directory of temporary files is found where it is, and what is not  *)
(* found in it is not there.                                               *)
LEMMA TempMissed ==
    ASSUME NEW T, NEW V, Agree(T, V), NEW path \in Seq(Words), Len(path) = 2, path[1] = "tmp",
           Find(T, V, path).node = Null
    PROVE  LET t == Find(T, V, <<"tmp">>).node
           IN  /\ Find(T, V, path).tree = T
               /\ t \in DOMAIN T /\ T[t].kind = "dir"
               /\ \A m \in DOMAIN T : T[m].fa = t => T[m].name # path[2]
<1>1. TreeSound(T) /\ VolumeTyped(V) /\ NodesIn(T, V) /\ Null \notin DOMAIN T
  BY VFSAssumption DEF Agree, TreeSound, Shaped, Rooted, TreeTyped
<1>2. PICK t \in DOMAIN T : T[t].fa = root /\ T[t].name = "tmp" /\ T[t].kind = "dir"
  BY <1>1 DEF TreeSound, TmpThere
<1>3. root \in DOMAIN T
  BY <1>1 DEF TreeSound, Shaped, Rooted, FathersThere
<1>4. <<>> \in Seq(Words) /\ "tmp" \in Words /\ <<"tmp">> = Append(<<>>, "tmp")
  <2>1. "tmp" \in Words /\ <<>> \in Seq(Words)
    BY EmptyTyped, KernelWords
  <2>2. <<"tmp">> = Append(<<>>, "tmp")
    OBVIOUS
  <2> QED BY <2>1, <2>2
<1>5. <<"tmp">> \in Seq(Words)
  BY <1>4, AppendTyped
<1>6. path[2] \in Words /\ path = Append(<<"tmp">>, path[2])
  BY PairIs
<1>7. Find(T, V, <<"tmp">>) = [tree |-> T, node |-> t]
  <2> DEFINE at == [tree |-> T, node |-> root]
  <2>1. Find(T, V, <<"tmp">>) = Down(at, V, "tmp")
    <3>1. Find(T, V, Append(<<>>, "tmp")) = Down(Find(T, V, <<>>), V, "tmp")
      <4>1. \A p \in Seq(Words), x \in Words : Find(T, V, Append(p, x)) = Down(Find(T, V, p), V, x)
        BY <1>1, FindLast
      <4> QED BY Zenon, <1>4, <4>1
    <3>2. Find(T, V, <<>>) = at
      BY <1>1, FindNothing
    <3> QED BY <1>4, <3>1, <3>2
  <2>2. at \in Founds(V) /\ at.tree = T /\ at.node = root
    BY <1>1, <1>3, FoundIs
  <2> HIDE DEF at
  <2>3. Down(at, V, "tmp") = [tree |-> at.tree, node |-> t]
    BY <1>1, <1>2, <1>3, <1>4, <2>2, DownSound
  <2> QED BY <2>1, <2>2, <2>3
<1> DEFINE at == [tree |-> T, node |-> t]
<1>8. Find(T, V, path) = Down(at, V, path[2])
  <2>1. Find(T, V, Append(<<"tmp">>, path[2])) = Down(Find(T, V, <<"tmp">>), V, path[2])
    BY <1>1, <1>5, <1>6, FindLast
  <2> QED BY <1>6, <1>7, <2>1
<1>9. at \in Founds(V) /\ at.tree = T /\ at.node = t /\ t # Null
  BY <1>1, <1>2, FoundIs
<1> HIDE DEF at
<1>10. /\ Down(at, V, path[2]).tree = T
       /\ \A m \in DOMAIN T : T[m].fa = t => T[m].name # path[2]
  BY <1>1, <1>6, <1>8, <1>9, DownSound
<1> QED BY <1>2, <1>7, <1>8, <1>10

(* CreateFile and CreateDirectory of the manager.                          *)
LEMMA MadeSound ==
    ASSUME NEW T, Agree(T, volume), NEW path \in Seq(Words), NEW kind \in {"file", "folder"},
           kind = "file" /\ Len(path) = 2 /\ path[1] = "tmp" => Find(T, volume, path).node = Null
    PROVE  Agree(MadeAt(T, path, kind).tree, MadeAt(T, path, kind).volume)
<1> DEFINE d == MountDepth(T, path)
           made == MadeAt(T, path, kind)
           temp == d = 0 /\ kind = "file" /\ Len(path) = 2 /\ path[1] = "tmp"
           t == Find(T, volume, <<"tmp">>).node
           U == Added(T, New(path[2], "temp"), t)
           rest == SubSeq(path, d + 1, Len(path))
           W == VolumeWith(volume, rest, kind)
<1>1. /\ made.tree = IF temp THEN U ELSE T
      /\ made.volume = IF d = 0 THEN volume ELSE W
  <2> DEFINE to(i) ==
          [tree |-> IF i = 0 /\ kind = "file" /\ Len(path) = 2 /\ path[1] = "tmp"
                    THEN Added(T, New(path[2], "temp"), Find(T, volume, <<"tmp">>).node) ELSE T,
           volume |-> IF i = 0 THEN volume ELSE VolumeWith(volume, SubSeq(path, i + 1, Len(path)), kind),
           stopped |-> IF i = 0 THEN kind = "folder" ELSE i = Len(path)]
  <2>1. made = With(d, to)
    BY DEF MadeAt
  <2>2. With(d, to) = to(d)
    <3> HIDE DEF to, d
    <3> QED BY DEF With
  <2>3. made = to(d)
    BY <2>1, <2>2
  <2> HIDE DEF made, d
  <2> QED BY <2>3
<1>2. TreeSound(T) /\ VolumeTyped(volume) /\ NodesIn(T, volume)
  BY DEF Agree
<1>3. d \in Nat /\ (d # 0 => \E n \in DOMAIN T : T[n].kind = "mount")
  <2>1. Shaped(T)
    BY <1>2 DEF TreeSound
  <2>2. d \in 0 .. Len(path) /\ Len(path) \in Nat /\ (d # 0 => \E n \in DOMAIN T : T[n].kind = "mount")
    BY <2>1, DepthIs
  <2> HIDE DEF d
  <2> QED BY <2>2
<1>4. ASSUME d # 0
      PROVE  VolumeTyped(W) /\ NodesIn(T, W)
  <2> HIDE DEF d
  <2>1. d + 1 \in Nat \ {0}
    BY <1>3
  <2>2. rest \in Seq(Words)
    BY <2>1, PartTyped
  <2> HIDE DEF rest
  <2> QED BY <1>2, <1>3, <1>4, <2>2, VolumeGrows
<1>5. temp => TreeSound(U) /\ NodesIn(U, volume)
  <2> SUFFICES ASSUME temp
               PROVE  TreeSound(U) /\ NodesIn(U, volume)
    OBVIOUS
  <2>1. /\ t \in DOMAIN T /\ T[t].kind = "dir"
        /\ \A m \in DOMAIN T : T[m].fa = t => T[m].name # path[2]
    <3>1. Find(T, volume, path).node = Null
      OBVIOUS
    <3> QED BY <3>1, TempMissed
  <2>2. path[2] \in Words /\ "temp" \in Kinds
    <3>1. path[2] \in Words
      BY PairIs
    <3> QED BY <3>1 DEF Kinds
  <2>3. Shaped(T) /\ KindsFit(T) /\ TmpThere(T)
    BY <1>2 DEF TreeSound
  <2> DEFINE name == path[2]
             kd == "temp"
  <2>4. /\ kd \notin {"folder", "file"} /\ kd # "mount" /\ kd \in Kinds /\ name \in Words
        /\ \A m \in DOMAIN T : T[m].fa = t => T[m].name # name
    BY <2>1, <2>2
  <2> HIDE DEF t, name, kd
  <2>5. LET X == Added(T, New(name, kd), t) IN Shaped(X) /\ KindsFit(X) /\ (TmpThere(T) => TmpThere(X))
    BY <2>1, <2>3, <2>4, AddedSound
  <2>6. NodesIn(Added(T, New(name, kd), t), volume)
    BY <1>2, <2>1, <2>3, <2>4, AddedStands
  <2> QED BY <2>3, <2>5, <2>6 DEF TreeSound, name, kd
<1> HIDE DEF made, U, W, d, temp
<1>6. Agree(made.tree, made.volume)
  <2>1. CASE temp
    <3>1. made.tree = U /\ made.volume = volume
      BY <1>1, <2>1 DEF temp
    <3> QED BY <1>2, <1>5, <2>1, <3>1 DEF Agree
  <2>2. CASE ~temp /\ d = 0
    <3>1. made.tree = T /\ made.volume = volume
      BY <1>1, <2>2
    <3> QED BY <1>2, <3>1 DEF Agree
  <2>3. CASE ~temp /\ d # 0
    <3>1. made.tree = T /\ made.volume = W
      BY <1>1, <2>3
    <3> QED BY <1>2, <1>4, <2>3, <3>1 DEF Agree
  <2> QED BY <2>1, <2>2, <2>3
<1> QED BY <1>6 DEF made
-----------------------------------------------------------------------------
(* The initial state.                                                      *)

\* What Base says of the first i nodes after the root.
Made(T, i) ==
    /\ Shaped(T) /\ KindsFit(T) /\ DOMAIN T = 1 .. i + 1
    /\ T[root].fa = Null /\ T[root].kind = "dir"
    /\ \A j \in 1 .. i : T[j + 1].name = Base[j][1] /\ T[j + 1].kind = Base[j][2] /\ T[j + 1].fa = Base[j][3]

\* The first k places.
Trees == UNION {[D -> FileNode] : D \in SUBSET Nat}

(* The directories and devices of Base have names that are not taken and   *)
(* fathers that are there.                                                 *)
LEMMA BaseIs ==
    /\ Len(Base) = 6
    /\ \A i \in 1 .. 6 :
          /\ Base[i][1] \in Words /\ Base[i][2] \in {"dir", "device", "mount"}
          /\ Base[i][3] \in 1 .. i
          /\ Base[i][3] = 1 \/ (Base[i][3] # 1 /\ Base[Base[i][3] - 1][2] = "dir")
          /\ Base[i][2] = "mount" <=> i = 6
          /\ \A j \in 1 .. i - 1 : Base[j][3] = Base[i][3] => Base[j][1] # Base[i][1]
    /\ Base[5][1] = "tmp" /\ Base[5][2] = "dir" /\ Base[5][3] = root
    /\ Base[6][1] = "FAT32" /\ Base[6][3] = 2 /\ Base[1][1] = "VFS" /\ Base[1][3] = root
<1> DEFINE b == Base
<1>1. /\ Len(b) = 6
      /\ b[1][1] = "VFS" /\ b[1][2] = "dir" /\ b[1][3] = 1
      /\ b[2][1] = "dev" /\ b[2][2] = "dir" /\ b[2][3] = 1
      /\ b[3][1] = "stdIO" /\ b[3][2] = "device" /\ b[3][3] = 3
      /\ b[4][1] = "Zero" /\ b[4][2] = "device" /\ b[4][3] = 3
      /\ b[5][1] = "tmp" /\ b[5][2] = "dir" /\ b[5][3] = 1
      /\ b[6][1] = "FAT32" /\ b[6][2] = "mount" /\ b[6][3] = 2
  BY DEF Base
<1> HIDE DEF b
<1>2. \A i \in 1 .. 6 : i = 1 \/ i = 2 \/ i = 3 \/ i = 4 \/ i = 5 \/ i = 6
  OBVIOUS
<1>3. ASSUME NEW i \in 1 .. 6
      PROVE  /\ b[i][1] \in Words /\ b[i][2] \in {"dir", "device", "mount"}
             /\ b[i][3] \in 1 .. i
             /\ b[i][3] = 1 \/ (b[i][3] # 1 /\ b[b[i][3] - 1][2] = "dir")
             /\ b[i][2] = "mount" <=> i = 6
  <2>1. b[i][1] \in Words
    BY <1>1, <1>2, KernelWords
  <2>2. b[i][2] \in {"dir", "device", "mount"} /\ (b[i][2] = "mount" <=> i = 6)
    BY <1>1, <1>2
  <2>3. CASE b[i][3] = 1
    BY <2>1, <2>2, <2>3
  <2>4. CASE b[i][3] # 1
    <3>1. i = 3 \/ i = 4 \/ i = 6
      BY <1>1, <1>2, <2>4
    <3>2. (b[i][3] = 3 /\ i \in {3, 4}) \/ (b[i][3] = 2 /\ i = 6)
      BY <1>1, <3>1
    <3>3. b[i][3] \in 1 .. i /\ (b[i][3] - 1 = 1 \/ b[i][3] - 1 = 2)
      BY <3>2
    <3>4. b[b[i][3] - 1][2] = "dir"
      BY <1>1, <3>3
    <3> QED BY <2>1, <2>2, <2>4, <3>3, <3>4
  <2> QED BY <2>3, <2>4
<1>4. ASSUME NEW i \in 1 .. 6, NEW j \in 1 .. i - 1, b[j][3] = b[i][3]
      PROVE  b[j][1] # b[i][1]
  <2>1. j \in 1 .. 6 /\ j # i
    OBVIOUS
  <2>2. b[i][1] = b[j][1] => i = j
    BY <1>1, <1>2, <2>1
  <2> QED BY <2>1, <2>2
<1> QED BY <1>1, <1>3, <1>4 DEF b, root

(* The number of a new node when the numbers up to k are taken. *)
LEMMA FreshNext ==
    ASSUME NEW T, TreeTyped(T), NEW k \in Nat, DOMAIN T = 1 .. k
    PROVE  Fresh(T) = k + 1
<1>1. Cardinality(DOMAIN T) = k
  <2>1. Cardinality(1 .. k) = IF 1 > k THEN 0 ELSE k - 1 + 1
    BY FS_Interval
  <2> QED BY <2>1
<1> DEFINE good(n) == n \in 1 .. k + 1 /\ n \notin 1 .. k /\ 1 .. n - 1 \subseteq 1 .. k
<1>2. good(k + 1) /\ \A n : good(n) => n = k + 1
  OBVIOUS
<1>3. Fresh(T) = CHOOSE n \in 1 .. k + 1 : n \notin 1 .. k /\ 1 .. n - 1 \subseteq 1 .. k
  BY <1>1 DEF Fresh
<1>4. Fresh(T) = CHOOSE n : good(n)
  BY <1>3
<1> HIDE DEF good
<1> QED BY <1>2, <1>4

(* The root alone.                                                         *)
LEMMA RootMade ==
    Made([n \in {root} |-> New("", "dir")], 0)
<1> DEFINE T == [n \in {root} |-> New("", "dir")]
<1> DEFINE x == New("", "dir")
<1>1. x \in FileNode /\ x.fa = Null /\ x.kind = "dir" /\ x.child = Null /\ ~x.auto
  BY KernelWords DEF New, FileNode, Kinds
<1>2. DOMAIN T = {1} /\ T[1] = x /\ T = [n \in {1} |-> x]
  BY DEF root
<1> HIDE DEF T, x
<1>3. TreeTyped(T)
  <2>1. T \in [DOMAIN T -> FileNode]
    BY <1>1, <1>2
  <2>2. IsFiniteSet(DOMAIN T)
    BY <1>2, FS_Singleton
  <2> QED BY <1>2, <2>1, <2>2 DEF TreeTyped
<1>4. Rooted(T)
  BY <1>1, <1>2, <1>3 DEF Rooted, FathersThere, Acyclic, root
<1>5. Linked(T)
  <2>1. IsChildList(T, 1, <<>>)
    <3>1. Null # 1
      BY VFSAssumption
    <3> QED BY <1>1, <1>2, <3>1 DEF IsChildList
  <2> QED BY <1>2, <1>3, <2>1, LinkedBy
<1>6. NamesApart(T) /\ KindsFit(T)
  BY <1>1, <1>2 DEF NamesApart, KindsFit, root
<1>7. DOMAIN T = 1 .. 0 + 1 /\ 1 .. 0 = {}
  BY <1>2
<1>8. Made(T, 0)
  BY <1>1, <1>2, <1>4, <1>5, <1>6, <1>7 DEF Made, Shaped, root
<1> QED BY <1>8 DEF T, x

(* One node more.                                                          *)
LEMMA OneMoreMade ==
    ASSUME NEW T, NEW i \in 1 .. 6, Made(T, i - 1)
    PROVE  Made(Added(T, New(Base[i][1], Base[i][2]), Base[i][3]), i)
<1> DEFINE name == Base[i][1]
           kind == Base[i][2]
           fa == Base[i][3]
           U == Added(T, New(name, kind), fa)
<1>1. /\ name \in Words /\ kind \in {"dir", "device", "mount"} /\ fa \in 1 .. i
      /\ fa = 1 \/ (fa # 1 /\ Base[fa - 1][2] = "dir")
      /\ kind = "mount" <=> i = 6
      /\ \A j \in 1 .. i - 1 : Base[j][3] = fa => Base[j][1] # name
  BY BaseIs
<1>2. \A j \in 1 .. i - 1 : Base[j][2] = "mount" <=> j = 6
  BY BaseIs
<1> HIDE DEF name, kind, fa
<1>3. kind \in Kinds /\ kind \notin {"folder", "file"}
  BY <1>1 DEF Kinds
<1>4. /\ Shaped(T) /\ KindsFit(T) /\ DOMAIN T = 1 .. i /\ T[1].fa = Null /\ T[1].kind = "dir"
      /\ \A j \in 1 .. i - 1 : /\ T[j + 1].name = Base[j][1] /\ T[j + 1].kind = Base[j][2]
                               /\ T[j + 1].fa = Base[j][3]
  <2>1. (i - 1) + 1 = i
    OBVIOUS
  <2> QED BY <2>1 DEF Made, root
<1>5. \A m \in DOMAIN T : m = 1 \/ (m - 1 \in 1 .. i - 1 /\ (m - 1) + 1 = m)
  BY <1>4
<1>6. \A m \in DOMAIN T : T[m].fa = fa => T[m].name # name
  <2> SUFFICES ASSUME NEW m \in DOMAIN T, T[m].fa = fa
               PROVE  T[m].name # name
    OBVIOUS
  <2>1. fa # Null
    BY <1>1, VFSAssumption
  <2>2. m # 1
    BY <1>4, <2>1
  <2> QED BY <1>1, <1>4, <1>5, <2>2
<1>7. fa \in DOMAIN T /\ T[fa].kind = "dir"
  BY <1>1, <1>4, <1>5
<1>8. kind = "mount" => \A m \in DOMAIN T : T[m].kind # "mount"
  <2> SUFFICES ASSUME kind = "mount", NEW m \in DOMAIN T
               PROVE  T[m].kind # "mount"
    OBVIOUS
  <2>1. CASE m = 1
    BY <1>4, <2>1
  <2>2. CASE m # 1
    <3>1. m - 1 \in 1 .. i - 1 /\ T[m].kind = Base[m - 1][2]
      BY <1>4, <1>5, <2>2
    <3> QED BY <1>1, <1>2, <3>1
  <2> QED BY <2>1, <2>2
<1>9. Shaped(U) /\ KindsFit(U)
  <2>1. ASSUME kind = "mount"
        PROVE  AtMount(T, name, fa)
    <3>1. i = 6 /\ 1 \in 1 .. i - 1 /\ 1 + 1 = 2
      BY <1>1, <2>1
    <3>2. name = "FAT32" /\ fa = 2 /\ Base[1][1] = "VFS" /\ Base[1][3] = root
      BY <3>1, BaseIs DEF name, fa
    <3> QED BY <1>4, <3>1, <3>2 DEF AtMount
  <2> QED BY <1>1, <1>3, <1>4, <1>6, <1>7, <1>8, <2>1, AddedSound
<1>10. Fresh(T) = i + 1
  BY <1>4, FreshNext DEF Shaped, Rooted
<1>11. GrownBy(T, U, i + 1, fa, name, kind)
  <2>1. T[fa].child # fa
    BY <1>4, <1>7, ChildApart
  <2>2. GrownBy(T, U, Fresh(T), fa, name, kind)
    BY <1>1, <1>3, <1>4, <1>7, <2>1, AddedIs DEF Shaped, Rooted
  <2> QED BY <1>10, <2>2
<1> HIDE DEF U
<1>12. DOMAIN U = 1 .. i + 1
  BY <1>4, <1>11 DEF GrownBy
<1>13. U[1].fa = Null /\ U[1].kind = "dir"
  BY <1>4, <1>11 DEF GrownBy
<1>14. ASSUME NEW j \in 1 .. i
       PROVE  U[j + 1].name = Base[j][1] /\ U[j + 1].kind = Base[j][2] /\ U[j + 1].fa = Base[j][3]
  <2>1. CASE j = i
    BY <1>11, <2>1 DEF GrownBy, name, kind, fa
  <2>2. CASE j # i
    <3>1. j + 1 \in DOMAIN T /\ j \in 1 .. i - 1
      BY <1>4, <2>2
    <3>2. T[j + 1].name = Base[j][1] /\ T[j + 1].kind = Base[j][2] /\ T[j + 1].fa = Base[j][3]
      BY <1>4, <3>1
    <3> QED BY <1>11, <3>1, <3>2 DEF GrownBy
  <2> QED BY <2>1, <2>2
<1>15. Made(U, i)
  BY <1>9, <1>12, <1>13, <1>14 DEF Made, root
<1> QED BY <1>15 DEF U, name, kind, fa

FollowsBase(made) ==
    made = [i \in 0 .. Len(Base) |->
               IF i = 0 THEN [n \in {root} |-> New("", "dir")]
               ELSE With(made[i - 1], LAMBDA T :
                        Added(T, New(Base[i][1], Base[i][2]), Base[i][3]))]

(* The nodes that VirtualFileSystemManager::Init and LoadVFS make.         *)
LEMMA BaseMade == Made(BaseTree, 6)
<1> DEFINE start == [n \in {root} |-> New("", "dir")]
           add(T, i) == Added(T, New(Base[i][1], Base[i][2]), Base[i][3])
           step == [i \in 1 .. 6 |-> [T \in Trees |-> add(T, i)]]
           sets == [i \in 0 .. 6 |-> {T \in Trees : Made(T, i)}]
           h == CHOOSE f : FollowsBase(f)
<1>1. \A T, i : Made(T, i) => T \in Trees
  <2> SUFFICES ASSUME NEW T, NEW i, Made(T, i)
               PROVE  T \in Trees
    OBVIOUS
  <2>1. T \in [DOMAIN T -> FileNode] /\ DOMAIN T \in SUBSET Nat
    BY DEF Made, Shaped, Rooted, TreeTyped
  <2> QED BY <2>1 DEF Trees
<1>2. Made(start, 0) /\ \A i \in 1 .. 6, T \in Trees : Made(T, i - 1) => Made(add(T, i), i)
  BY RootMade, OneMoreMade
<1>3. \A i \in 1 .. 6 : \A T \in Trees : step[i][T] = add(T, i)
  OBVIOUS
<1>4. \A i \in 0 .. 6 : sets[i] = {T \in Trees : Made(T, i)}
  OBVIOUS
<1>5. \A i \in 1 .. 6 : i - 1 \in 0 .. 6 /\ i \in 0 .. 6
  OBVIOUS
<1> HIDE DEF start, add, step, sets
<1>6. LoopWithin(6, sets, start, step)
  BY <1>1, <1>2, <1>3, <1>4, <1>5 DEF LoopWithin
<1>7. PICK f : LoopValues(f, 6, sets, start, step)
  BY <1>6, Rounds
<1>8. /\ f[0] = start /\ f = [i \in 0 .. 6 |-> f[i]]
      /\ \A i \in 0 .. 6 : f[i] \in Trees /\ Made(f[i], i)
      /\ \A i \in 1 .. 6 : f[i] = step[i][f[i - 1]]
  BY <1>4, <1>7 DEF LoopValues
<1>9. \A i \in 1 .. 6 : f[i] = add(f[i - 1], i)
  BY <1>3, <1>5, <1>8
<1>10. Len(Base) = 6
  BY BaseIs
<1>11. FollowsBase(f)
  <2>1. \A i \in 0 .. 6 : i = 0 \/ i \in 1 .. 6
    OBVIOUS
  <2>2. \A i \in 0 .. 6 : f[i] = IF i = 0 THEN start ELSE add(f[i - 1], i)
    BY <1>8, <1>9, <2>1
  <2>3. \A i \in 0 .. 6 :
           f[i] = IF i = 0 THEN start
                  ELSE With(f[i - 1], LAMBDA T : Added(T, New(Base[i][1], Base[i][2]), Base[i][3]))
    BY <2>2 DEF With, add
  <2> QED BY <1>8, <1>10, <2>3 DEF FollowsBase, With, start
<1>12. FollowsBase(h)
  BY <1>11
<1>13. BaseTree = h[6]
  BY <1>10 DEF BaseTree, FollowsBase, With
<1> HIDE DEF h
<1>14. h[0] = start /\ \A i \in 1 .. 6 : h[i] = add(h[i - 1], i)
  <2>1. \A i \in 0 .. 6 :
           h[i] = IF i = 0 THEN start
                  ELSE With(h[i - 1], LAMBDA T : Added(T, New(Base[i][1], Base[i][2]), Base[i][3]))
    BY <1>10, <1>12 DEF FollowsBase, start
  <2>2. \A i \in 0 .. 6 : h[i] = IF i = 0 THEN start ELSE add(h[i - 1], i)
    BY <2>1 DEF With, add
  <2>3. 0 \in 0 .. 6 /\ \A i \in 1 .. 6 : i \in 0 .. 6 /\ i # 0
    OBVIOUS
  <2> QED BY <2>2, <2>3
<1>15. h[6] = f[6]
  <2>1. \A i \in 1 .. 6 : h[i - 1] = f[i - 1] => h[i] = f[i]
    BY <1>9, <1>14
  <2> QED BY <1>8, <1>14, <2>1, OneLoop
<1> QED BY <1>8, <1>13, <1>15

(* CreateSymbolLink keeps a list of pairs of paths.                        *)
LEMMA LinkTyped ==
    ASSUME NEW P, NEW ls \in Seq(P \X P), NEW src \in P, NEW dst \in P
    PROVE  LinkAdded(ls, src, dst) \in Seq(P \X P)
<1> DEFINE I == {i \in 1 .. Len(ls) : ls[i][1] = src}
           i == SelectInSeq(ls, LAMBDA l : l[1] = src)
<1>1. i = IF I # {} THEN Min(I) ELSE 0
  BY DEF SelectInSeq
<1>2. LinkAdded(ls, src, dst) = IF i = 0 THEN <<<<src, dst>>>> \o ls ELSE [ls EXCEPT ![i] = <<src, dst>>]
  BY DEF LinkAdded
<1>3. I \in SUBSET (1 .. Len(ls)) /\ <<src, dst>> \in P \X P
  OBVIOUS
<1> HIDE DEF i, I
<1>4. i \in 0 .. Len(ls)
  BY <1>1, <1>3, SelectedIs
<1> DEFINE x == <<src, dst>>
           Q == P \X P
<1> HIDE DEF x, Q
<1>5. x \in Q /\ ls \in Seq(Q)
  BY <1>3 DEF x, Q
<1>6. <<x>> \in Seq(Q)
  BY <1>5
<1>7. <<x>> \o ls \in Seq(Q)
  BY <1>5, <1>6, JoinTyped
<1>8. i # 0 => [ls EXCEPT ![i] = x] \in Seq(Q)
  BY <1>4, <1>5
<1> QED BY <1>2, <1>7, <1>8 DEF x, Q

(* Paths of one section and of two. *)
LEMMA ShortPaths ==
    ASSUME NEW S, NEW a \in S, NEW b \in S
    PROVE  <<a>> \in Seq(S) /\ <<a, b>> \in Seq(S)
OBVIOUS

(* The initial state is sound.                                             *)
LEMMA VFSStarts == VFSInit => VFSInv
<1> SUFFICES ASSUME VFSInit
             PROVE  VFSInv
  OBVIOUS
<1>1. Made(tree, 6)
  BY BaseMade DEF VFSInit
<1>2. \A n \in DOMAIN tree : tree[n].kind \notin {"file", "folder"}
  <2>1. \A n \in DOMAIN tree : n = 1 \/ (n - 1 \in 1 .. 6 /\ (n - 1) + 1 = n)
    BY <1>1 DEF Made
  <2> QED BY <1>1, <2>1, BaseIs DEF Made, root
<1>3. TmpThere(tree)
  <2>1. 5 + 1 \in DOMAIN tree /\ 5 \in 1 .. 6
    BY <1>1 DEF Made
  <2>2. tree[5 + 1].name = "tmp" /\ tree[5 + 1].kind = "dir" /\ tree[5 + 1].fa = root
    BY <1>1, <2>1, BaseIs DEF Made
  <2> QED BY <2>1, <2>2 DEF TmpThere
<1>4. TreeSound(tree)
  BY <1>1, <1>3 DEF TreeSound, Made
<1>5. NodesIn(tree, volume)
  <2>1. 6 + 1 \in DOMAIN tree /\ tree[6 + 1].kind = "mount"
    <3>1. 6 + 1 \in DOMAIN tree /\ 6 \in 1 .. 6
      BY <1>1 DEF Made
    <3> QED BY <1>1, <3>1, BaseIs DEF Made
  <2> QED BY <1>2, <2>1 DEF NodesIn, Standing, MountedFor
<1>6. VolumeTyped(volume)
  <2>1. <<"a">> \in Seq(Words)
    <3> QED BY KernelWords, ShortPaths
  <2>2. volume = [q \in {<<"a">>} |-> "file"]
    BY DEF VFSInit
  <2> QED BY <2>1, <2>2 DEF VolumeTyped
<1>7. LinksTyped
  <2> DEFINE P == Seq(Words)
             first == LinkAdded(<<>>, <<"dev", "zero">>, <<"dev", "Zero">>)
  <2>1. <<"dev", "zero">> \in P /\ <<"dev", "Zero">> \in P /\ <<"dev", "null">> \in P
    <3> QED BY KernelWords, ShortPaths
  <2>2. links = LinkAdded(first, <<"dev", "null">>, <<"dev", "Zero">>)
    BY DEF VFSInit
  <2>3. <<>> \in Seq(P \X P)
    BY EmptyTyped
  <2> HIDE DEF P
  <2>4. first \in Seq(P \X P)
    BY <2>1, <2>3, LinkTyped
  <2> HIDE DEF first
  <2>5. links \in Seq(P \X P)
    BY <2>1, <2>2, <2>4, LinkTyped
  <2> QED BY <2>5 DEF LinksTyped, P
<1>8. cwd.names \in Seq(Words)
  <2>1. cwd.names = <<"VFS", "FAT32">>
    BY DEF VFSInit
  <2> QED BY <2>1, KernelWords, ShortPaths
<1> QED BY <1>4, <1>5, <1>6, <1>7, <1>8 DEF VFSInv, Agree
-----------------------------------------------------------------------------
(* The system calls.                                                       *)

(* The sections of a path, from where it starts.                           *)
LEMMA SectionsTyped ==
    ASSUME VFSInv, NEW in, in.names \in Seq(Words), NEW base \in Bases
    PROVE  Sections(in, base) \in Seq(Words)
<1> DEFINE from == IF base = Null THEN cwd.names ELSE GetPath(tree, base)
<1>1. from \in Seq(Words)
  <2>1. base # Null => base \in DOMAIN tree
    BY DEF Bases
  <2>2. base # Null => GetPath(tree, base) \in Seq(Words)
    BY <2>1, PathTyped DEF VFSInv, Agree, TreeSound, Shaped, GetPath
  <2>3. cwd.names \in Seq(Words)
    BY DEF VFSInv
  <2> QED BY <2>2, <2>3
<1>2. Sections(in, base) = IF in.abs THEN in.names ELSE from \o in.names
  BY DEF Sections
<1> HIDE DEF from
<1>3. from \o in.names \in Seq(Words)
  BY <1>1, JoinTyped
<1> QED BY <1>2, <1>3

(* What a system call looks up is a path.                                  *)
LEMMA PathOfTyped ==
    ASSUME VFSInv, NEW in, in.names \in Seq(Words), NEW base \in Bases
    PROVE  PathOf(in, base) \in Seq(Words)
<1> DEFINE s == Sections(in, base)
<1>1. PathOf(in, base) = Followed(Normalized(s))
  BY DEF PathOf, With
<1>2. s \in Seq(Words)
  BY SectionsTyped
<1> HIDE DEF s
<1>3. Normalized(s) \in Seq(Words)
  BY <1>2, NormalizedTyped
<1>4. Followed(Normalized(s)) \in Seq(Words)
  BY <1>3, FollowedTyped DEF VFSInv
<1> QED BY <1>1, <1>4

(* What it finds.                                                          *)
LEMMA FoundAgrees ==
    ASSUME NEW T, NEW V, Agree(T, V), NEW path \in Seq(Words), NEW at, at = Find(T, V, path)
    PROVE  Agree(at.tree, V) /\ (at.node = Null \/ at.node \in DOMAIN at.tree)
<1>1. at \in Founds(V)
  BY FindSound DEF Agree
<1> QED BY <1>1 DEF Founds, Agree

(* A handle more. *)
LEMMA OpenedAgrees ==
    ASSUME NEW T, NEW V, Agree(T, V), NEW n \in DOMAIN T
    PROVE  Agree([T EXCEPT ![n].refs = @ + 1], V)
<1>1. T[n].refs \in Nat
  BY DEF Agree, TreeSound, Shaped, Rooted, TreeTyped, FileNode
<1> DEFINE k == T[n].refs + 1
<1>2. k \in Nat
  BY <1>1
<1>3. [T EXCEPT ![n].refs = @ + 1] = [T EXCEPT ![n].refs = k]
  OBVIOUS
<1> HIDE DEF k
<1>4. Agree([T EXCEPT ![n].refs = k], V)
  BY <1>2, CountedSound DEF Agree
<1> QED BY <1>3, <1>4

(* openat without O_CREAT.                                                 *)
LEMMA OpenatKeeps ==
    ASSUME VFSInv, NEW in \in Inputs, NEW base \in Bases, Openat(in, base)
    PROVE  VFSInv'
<1>1. PICK path \in {PathOf(in, base)} : \E at \in {Find(tree, volume, path)} :
           tree' = IF at.node = Null THEN at.tree ELSE [at.tree EXCEPT ![at.node].refs = @ + 1]
  BY DEF Openat
<1>2. PICK at \in {Find(tree, volume, path)} :
           tree' = IF at.node = Null THEN at.tree ELSE [at.tree EXCEPT ![at.node].refs = @ + 1]
  BY <1>1
<1>3. path \in Seq(Words)
  BY <1>1, InputTyped, PathOfTyped
<1>4. Agree(at.tree, volume) /\ (at.node = Null \/ at.node \in DOMAIN at.tree)
  BY <1>2, <1>3, FoundAgrees DEF VFSInv
<1>5. at.node # Null => Agree([at.tree EXCEPT ![at.node].refs = @ + 1], volume)
  BY <1>4, OpenedAgrees
<1>6. Agree(tree', volume)
  <2>1. CASE at.node = Null
    BY <1>2, <1>4, <2>1
  <2>2. CASE at.node # Null
    <3>1. tree' = [at.tree EXCEPT ![at.node].refs = @ + 1]
      BY <1>2, <2>2
    <3> QED BY <1>5, <2>2, <3>1
  <2> QED BY <2>1, <2>2
<1>7. UNCHANGED <<volume, links, cwd>>
  BY DEF Openat
<1> QED BY <1>6, <1>7 DEF VFSInv, LinksTyped

(* openat with O_CREAT: what is not found is made, and looked up again.    *)
LEMMA OpenatCreateKeeps ==
    ASSUME VFSInv, NEW in \in Inputs, NEW base \in Bases, NEW kind \in {"file", "folder"},
           OpenatCreate(in, base, kind)
    PROVE  VFSInv'
<1> DEFINE none(at) == [tree |-> at.tree, volume |-> volume, stopped |-> FALSE]
           opened(got) == IF got.node = Null \/ (kind = "folder" /\ ~IsDir(got.tree[got.node])) THEN got.tree
                          ELSE [got.tree EXCEPT ![got.node].refs = @ + 1]
           path == PathOf(in, base)
           at == Find(tree, volume, path)
           made == IF at.node = Null THEN MadeAt(at.tree, path, kind) ELSE none(at)
           got == Find(made.tree, made.volume, path)
<1>1. volume' = made.volume /\ tree' = opened(got) /\ UNCHANGED <<links, cwd>>
  <2> DEFINE then(m, g) == /\ volume' = m.volume /\ stopped' = m.stopped
                           /\ tree' = opened(g)
                           /\ Room(tree')
  <2>1. \E p \in {PathOf(in, base)} : \E a \in {Find(tree, volume, p)} :
        \E m \in {IF a.node = Null THEN MadeAt(a.tree, p, kind) ELSE none(a)} :
        \E g \in {Find(m.tree, m.volume, p)} : then(m, g)
    BY Zenon DEF OpenatCreate
  <2> HIDE DEF then, none
  <2>2. then(made, got)
    BY <2>1
  <2>3. volume' = made.volume /\ tree' = opened(got)
    BY <2>2 DEF then
  <2> QED BY <2>3 DEF OpenatCreate
<1>2. path \in Seq(Words)
  BY InputTyped, PathOfTyped
<1>3. /\ at.node # Null => made.tree = at.tree /\ made.volume = volume
      /\ at.node = Null => made = MadeAt(at.tree, path, kind)
  OBVIOUS
<1> HIDE DEF made, path
<1>4. Agree(tree, volume)
  BY DEF VFSInv
<1>5. Agree(at.tree, volume) /\ (at.node = Null \/ at.node \in DOMAIN at.tree)
  <2> DEFINE a == at
  <2>1. a = Find(tree, volume, path)
    OBVIOUS
  <2> HIDE DEF a
  <2>2. Agree(a.tree, volume) /\ (a.node = Null \/ a.node \in DOMAIN a.tree)
    BY <1>2, <1>4, <2>1, FoundAgrees
  <2> QED BY <2>2 DEF a
<1>6. Agree(made.tree, made.volume)
  <2>1. CASE at.node # Null
    BY <1>3, <1>5, <2>1
  <2>2. CASE at.node = Null
    <3>1. Len(path) = 2 /\ path[1] = "tmp" => Find(at.tree, volume, path).node = Null
      <4> SUFFICES ASSUME Len(path) = 2, path[1] = "tmp"
                   PROVE  Find(at.tree, volume, path).node = Null
        OBVIOUS
      <4>1. at.tree = tree
        BY <1>2, <1>4, <2>2, TempMissed
      <4> QED BY <2>2, <4>1
    <3> DEFINE T == at.tree
    <3>2. made = MadeAt(T, path, kind) /\ Agree(T, volume)
      BY <1>3, <1>5, <2>2
    <3>3. Len(path) = 2 /\ path[1] = "tmp" => Find(T, volume, path).node = Null
      BY <3>1
    <3> HIDE DEF T
    <3>4. Agree(MadeAt(T, path, kind).tree, MadeAt(T, path, kind).volume)
      BY <1>2, <3>2, <3>3, MadeSound
    <3> QED BY <3>2, <3>4
  <2> QED BY <2>1, <2>2
<1> HIDE DEF at
<1> DEFINE V == made.volume
<1>7. Agree(got.tree, V) /\ (got.node = Null \/ got.node \in DOMAIN got.tree)
  <2> DEFINE g == got
             T == made.tree
  <2>1. g = Find(T, V, path) /\ Agree(T, V)
    BY <1>6
  <2> HIDE DEF g, T, V
  <2>2. Agree(g.tree, V) /\ (g.node = Null \/ g.node \in DOMAIN g.tree)
    BY <1>2, <2>1, FoundAgrees
  <2> QED BY <2>2 DEF g
<1> HIDE DEF got, V
<1>8. Agree(opened(got), V)
  <2>1. CASE opened(got) = got.tree
    BY <1>7, <2>1
  <2>2. CASE opened(got) # got.tree
    <3>1. got.node # Null /\ opened(got) = [got.tree EXCEPT ![got.node].refs = @ + 1]
      BY <2>2
    <3> HIDE DEF opened
    <3>2. Agree([got.tree EXCEPT ![got.node].refs = @ + 1], V)
      BY <1>7, <3>1, OpenedAgrees
    <3> QED BY <3>1, <3>2
  <2> QED BY <2>1, <2>2
<1> HIDE DEF opened
<1> QED BY <1>1, <1>8 DEF VFSInv, LinksTyped, V

(* getdents64.                                                             *)
LEMMA GetdentsKeeps ==
    ASSUME VFSInv, NEW base \in Bases, Getdents(base)
    PROVE  VFSInv'
<1> DEFINE dot == [abs |-> FALSE, names |-> <<".">>]
           path == PathOf(dot, base)
<1>1. tree' = Find(tree, volume, path).tree /\ UNCHANGED <<volume, links, cwd>>
  <2>1. \E at \in {Find(tree, volume, PathOf(dot, base))} : tree' = at.tree
    BY DEF Getdents
  <2> QED BY <2>1 DEF Getdents
<1>2. dot.names \in Seq(Words)
  BY KernelWords, ShortPaths
<1> HIDE DEF dot
<1>3. path \in Seq(Words)
  BY <1>2, PathOfTyped
<1> HIDE DEF path
<1>4. Agree(Find(tree, volume, path).tree, volume)
  BY <1>3, FoundAgrees DEF VFSInv
<1> QED BY <1>1, <1>4 DEF VFSInv, LinksTyped

(* mkdirat.                                                                *)
LEMMA MkdiratKeeps ==
    ASSUME VFSInv, NEW in \in Inputs, NEW base \in Bases, Mkdirat(in, base)
    PROVE  VFSInv'
<1> DEFINE path == PathOf(in, base)
           made == MadeAt(tree, path, "folder")
<1>1. tree' = made.tree /\ volume' = made.volume /\ UNCHANGED <<links, cwd>>
  BY DEF Mkdirat
<1>2. path \in Seq(Words)
  BY InputTyped, PathOfTyped
<1> HIDE DEF path
<1> DEFINE kind == "folder"
<1>3. kind \in {"file", "folder"} /\ kind # "file"
  OBVIOUS
<1> HIDE DEF kind
<1>4. Agree(MadeAt(tree, path, kind).tree, MadeAt(tree, path, kind).volume)
  BY <1>2, <1>3, MadeSound DEF VFSInv
<1>5. Agree(made.tree, made.volume)
  BY <1>4 DEF kind
<1> HIDE DEF made
<1> QED BY <1>1, <1>5 DEF VFSInv, LinksTyped

(* unlinkat.                                                               *)
LEMMA UnlinkatKeeps ==
    ASSUME VFSInv, NEW in \in Inputs, NEW base \in Bases, Unlinkat(in, base)
    PROVE  VFSInv'
<1> DEFINE path == PathOf(in, base)
           at == Find(tree, volume, path)
           T == at.tree
           n == at.node
<1>1. /\ n # Null
      /\ BelongVFS(T[n]) => volume' = VolumeWithout(volume, PathInVFS(T, n)) /\ tree' = Close(T, n)
      /\ ~BelongVFS(T[n]) /\ T[n].kind = "temp" =>
             /\ tree' = IF T[n].refs = 0 THEN Deleted(T, n) ELSE [T EXCEPT ![n].auto = TRUE]
             /\ volume' = volume
      /\ ~BelongVFS(T[n]) /\ T[n].kind # "temp" => tree' = T /\ volume' = volume
      /\ UNCHANGED <<links, cwd>>
  <2> DEFINE gone(a, m) ==
          CASE BelongVFS(a.tree[m]) ->
                  /\ volume' = VolumeWithout(volume, PathInVFS(a.tree, m))
                  /\ tree' = Close(a.tree, m)
                  /\ stopped' = (a.tree[m].kind = "mount" \/ HeldUnder(a.tree, m))
                  /\ Orderly => ~stopped'
            [] a.tree[m].kind = "temp" ->
                  /\ tree' = IF a.tree[m].refs = 0 THEN Deleted(a.tree, m)
                             ELSE [a.tree EXCEPT ![m].auto = TRUE]
                  /\ UNCHANGED <<volume, stopped>>
            [] OTHER -> tree' = a.tree /\ UNCHANGED <<volume, stopped>>
  <2>1. /\ \E p \in {PathOf(in, base)} : \E a \in {Find(tree, volume, p)} :
              /\ a.node # Null /\ Room(a.tree)
              /\ \E m \in {a.node} : gone(a, m)
        /\ UNCHANGED <<links, cwd>>
    BY Zenon DEF Unlinkat
  <2> HIDE DEF gone
  <2>2. n # Null /\ gone(at, n)
    BY <2>1
  <2> HIDE DEF at
  <2>3. BelongVFS(T[n]) => volume' = VolumeWithout(volume, PathInVFS(T, n)) /\ tree' = Close(T, n)
    <3> DEFINE smaller == volume' = VolumeWithout(volume, PathInVFS(T, n))
               closed == tree' = Close(T, n)
    <3> SUFFICES ASSUME BelongVFS(T[n])
                 PROVE  smaller /\ closed
      OBVIOUS
    <3>1. BelongVFS(T[n]) => smaller /\ closed
      <4>1. T[n].kind # "temp"
        BY DEF BelongVFS
      <4> HIDE DEF smaller, closed
      <4> QED BY <2>2, <4>1 DEF gone, smaller, closed
    <3> HIDE DEF smaller, closed
    <3> QED BY <3>1
  <2>4. ~BelongVFS(T[n]) /\ T[n].kind = "temp" =>
             /\ tree' = IF T[n].refs = 0 THEN Deleted(T, n) ELSE [T EXCEPT ![n].auto = TRUE]
             /\ volume' = volume
    BY <2>2 DEF gone
  <2>5. ~BelongVFS(T[n]) /\ T[n].kind # "temp" => tree' = T /\ volume' = volume
    BY <2>2 DEF gone
  <2> QED BY <2>1, <2>2, <2>3, <2>4, <2>5
<1>2. path \in Seq(Words)
  BY InputTyped, PathOfTyped
<1> HIDE DEF path
<1>3. Agree(T, volume) /\ n \in DOMAIN T
  <2> DEFINE a == at
  <2>1. a = Find(tree, volume, path) /\ a.node # Null
    BY <1>1
  <2> HIDE DEF a
  <2>2. Agree(a.tree, volume) /\ a.node \in DOMAIN a.tree
    BY <1>2, <2>1, FoundAgrees DEF VFSInv
  <2> QED BY <2>2 DEF a
<1> HIDE DEF T, n
<1>4. TreeSound(T) /\ VolumeTyped(volume) /\ NodesIn(T, volume)
  BY <1>3 DEF Agree
<1>5. Agree(tree', volume')
  <2>1. CASE BelongVFS(T[n])
    <3>1. Agree(Close(T, n), VolumeWithout(volume, PathInVFS(T, n)))
      BY <1>3, <1>4, <2>1, ClosedSound DEF Agree
    <3> QED BY <1>1, <2>1, <3>1
  <2>2. CASE ~BelongVFS(T[n]) /\ T[n].kind = "temp" /\ T[n].refs = 0
    <3>1. T[n].kind # "dir"
      BY <2>2
    <3>2. Agree(Deleted(T, n), volume)
      BY <1>3, <1>4, <2>2, <3>1, DeletedSound DEF Agree, NodesIn, BelongVFS
    <3> QED BY <1>1, <2>2, <3>2
  <2>3. CASE ~BelongVFS(T[n]) /\ T[n].kind = "temp" /\ T[n].refs # 0
    <3> DEFINE v == TRUE
    <3>1. v \in BOOLEAN
      OBVIOUS
    <3> HIDE DEF v
    <3>2. Agree([T EXCEPT ![n].auto = v], volume)
      BY <1>3, <1>4, <2>3, <3>1, MarkedSound DEF Agree
    <3>3. tree' = [T EXCEPT ![n].auto = v] /\ volume' = volume
      BY <1>1, <2>3 DEF v
    <3> QED BY <3>2, <3>3
  <2>4. CASE ~BelongVFS(T[n]) /\ T[n].kind # "temp"
    BY <1>1, <1>3, <2>4
  <2> QED BY <2>1, <2>2, <2>3, <2>4
<1> QED BY <1>1, <1>5 DEF VFSInv, LinksTyped

(* close.                                                                  *)
LEMMA CloseHandleKeeps ==
    ASSUME VFSInv, NEW n \in DOMAIN tree, CloseHandle(n)
    PROVE  VFSInv'
<1> DEFINE k == tree[n].refs - 1
<1>1. /\ tree' = IF tree[n].refs = 1 /\ tree[n].auto THEN Deleted(tree, n)
                 ELSE [tree EXCEPT ![n].refs = @ - 1]
      /\ tree[n].refs > 0 /\ UNCHANGED <<volume, links, cwd>>
  BY DEF CloseHandle
<1>2. TreeSound(tree) /\ VolumeTyped(volume) /\ NodesIn(tree, volume)
  BY DEF VFSInv, Agree
<1>3. tree[n].refs \in Nat /\ (tree[n].auto => tree[n].kind # "dir" /\ tree[n].kind # "mount")
  <2>1. tree[n].refs \in Nat
    BY <1>2 DEF TreeSound, Shaped, Rooted, TreeTyped, FileNode
  <2>2. tree[n].auto => tree[n].kind # "dir" /\ tree[n].kind # "mount"
    BY <1>2 DEF TreeSound, KindsFit
  <2> QED BY <2>1, <2>2
<1>4. k \in Nat
  BY <1>1, <1>3
<1>5. [tree EXCEPT ![n].refs = @ - 1] = [tree EXCEPT ![n].refs = k]
  OBVIOUS
<1> HIDE DEF k
<1>6. Agree([tree EXCEPT ![n].refs = k], volume)
  BY <1>2, <1>4, CountedSound DEF Agree
<1>7. tree[n].auto => Agree(Deleted(tree, n), volume)
  BY <1>2, <1>3, DeletedSound DEF Agree, NodesIn
<1>8. Agree(tree', volume)
  <2>1. CASE tree[n].refs = 1 /\ tree[n].auto
    BY <1>1, <1>7, <2>1
  <2>2. CASE ~ (tree[n].refs = 1 /\ tree[n].auto)
    <3>1. tree' = [tree EXCEPT ![n].refs = @ - 1]
      BY <1>1, <2>2
    <3> QED BY <1>5, <1>6, <3>1
  <2> QED BY <2>1, <2>2
<1> QED BY <1>1, <1>8 DEF VFSInv, LinksTyped

(* chdir.                                                                  *)
LEMMA ChdirKeeps ==
    ASSUME VFSInv, NEW in \in Dirs, Chdir(in)
    PROVE  VFSInv'
<1>1. in \in Inputs
  BY VFSAssumption
<1>2. in.names \in Seq(Words)
  BY <1>1, InputTyped
<1>3. cwd' = in /\ UNCHANGED <<tree, volume, links>>
  BY DEF Chdir
<1> QED BY <1>2, <1>3 DEF VFSInv, LinksTyped

(* Every step keeps the tree and the volume sound.                         *)
LEMMA VFSStepKeeps == VFSInv /\ [VFSNext]_vfsVars => VFSInv'
<1> SUFFICES ASSUME VFSInv, [VFSNext]_vfsVars
             PROVE  VFSInv'
  OBVIOUS
<1>1. ASSUME NEW in \in Inputs, NEW base \in Bases, Openat(in, base)
      PROVE  VFSInv'
  BY <1>1, OpenatKeeps
<1>2. ASSUME NEW in \in Inputs, NEW base \in Bases, Mkdirat(in, base)
      PROVE  VFSInv'
  BY <1>2, MkdiratKeeps
<1>3. ASSUME NEW in \in Inputs, NEW base \in Bases, Unlinkat(in, base)
      PROVE  VFSInv'
  BY <1>3, UnlinkatKeeps
<1>4. ASSUME NEW in \in Inputs, NEW base \in Bases, NEW kind \in {"file", "folder"},
             OpenatCreate(in, base, kind)
      PROVE  VFSInv'
  BY <1>4, OpenatCreateKeeps
<1>5. ASSUME NEW base \in Bases, Getdents(base)
      PROVE  VFSInv'
  BY <1>5, GetdentsKeeps
<1>6. ASSUME NEW in \in Dirs, Chdir(in)
      PROVE  VFSInv'
  BY <1>6, ChdirKeeps
<1>7. ASSUME NEW n \in DOMAIN tree, CloseHandle(n)
      PROVE  VFSInv'
  BY <1>7, CloseHandleKeeps
<1>8. CASE Irregular
  BY <1>8 DEF Irregular, VFSInv, LinksTyped
<1>9. CASE UNCHANGED vfsVars
  BY <1>9 DEF vfsVars, VFSInv, LinksTyped
<1> QED BY <1>1, <1>2, <1>3, <1>4, <1>5, <1>6, <1>7, <1>8, <1>9 DEF VFSNext

(* A sound tree is linked.                                                 *)
LEMMA SoundIsLinked == VFSInv => TreeLinked
<1> SUFFICES ASSUME VFSInv
             PROVE  TreeLinked
  OBVIOUS
<1>1. Rooted(tree) /\ Linked(tree) /\ FathersThere(tree) /\ Acyclic(tree)
  BY DEF VFSInv, Agree, TreeSound, Shaped, Rooted
<1>2. ASSUME NEW n \in DOMAIN tree
      PROVE  LET all == Children(tree, n)
             IN  /\ IsInjective(all)
                 /\ Range(all) = {m \in DOMAIN tree : tree[m].fa = n}
                 /\ \A i \in DOMAIN all : tree[all[i]].pre = IF i = 1 THEN Null ELSE all[i - 1]
  <2> DEFINE all == Children(tree, n)
  <2>1. IsChildList(tree, n, all)
    BY <1>1 DEF Linked
  <2> HIDE DEF all
  <2>2. DOMAIN all = 1 .. Len(all)
    BY <2>1 DEF IsChildList
  <2>3. IsInjective(all)
    BY <2>1, <2>2 DEF IsChildList, IsInjective
  <2>4. Range(all) = {m \in DOMAIN tree : tree[m].fa = n}
    <3>1. Range(all) = {all[i] : i \in 1 .. Len(all)}
      BY <2>2 DEF Range
    <3> QED BY <2>1, <3>1 DEF IsChildList
  <2>5. \A i \in DOMAIN all : tree[all[i]].pre = IF i = 1 THEN Null ELSE all[i - 1]
    BY <2>1, <2>2 DEF IsChildList
  <2> QED BY <2>3, <2>4, <2>5 DEF all
<1>3. \A n \in DOMAIN tree : n # root => tree[n].fa \in DOMAIN tree
  BY <1>1 DEF FathersThere
<1>4. DOMAIN tree = Under(tree, root)
  <2>1. root \in DOMAIN tree
    BY <1>1 DEF FathersThere
  <2>2. /\ Under(tree, root) \in SUBSET DOMAIN tree
        /\ \A m \in DOMAIN tree :
              m \in Under(tree, root) <=> m = root \/ (m # root /\ tree[m].fa \in Under(tree, root))
    BY <1>1, <2>1, UnderIs
  <2>3. DOMAIN tree \subseteq Under(tree, root)
    BY <1>1, <2>1, <2>2, ByFathers
  <2> QED BY <2>2, <2>3
<1>5. \A n \in DOMAIN tree : With(Children(tree, n), LAMBDA all :
           /\ IsInjective(all)
           /\ Range(all) = {m \in DOMAIN tree : tree[m].fa = n}
           /\ \A i \in DOMAIN all :
                  tree[all[i]].pre = IF i = 1 THEN Null ELSE all[i - 1])
  <2> TAKE n \in DOMAIN tree
  <2> DEFINE ok(all) == /\ IsInjective(all)
                        /\ Range(all) = {m \in DOMAIN tree : tree[m].fa = n}
                        /\ \A i \in DOMAIN all :
                               tree[all[i]].pre = IF i = 1 THEN Null ELSE all[i - 1]
  <2>1. ok(Children(tree, n))
    BY <1>2
  <2> HIDE DEF ok
  <2>2. With(Children(tree, n), ok)
    BY <2>1 DEF With
  <2> QED BY <2>2 DEF ok
<1> QED BY <1>3, <1>4, <1>5 DEF TreeLinked

-----------------------------------------------------------------------------
(* Found is what is named.                                                 *)

(* A sequence and its last element. *)
LEMMA EndIs ==
    ASSUME NEW S, NEW s \in Seq(S), s # <<>>
    PROVE  /\ Front(s) \in Seq(S) /\ Len(Front(s)) = Len(s) - 1 /\ Len(s) \in Nat \ {0}
           /\ s[Len(s)] \in S /\ s = Append(Front(s), s[Len(s)])
<1> DEFINE r == Front(s)
           n == Len(s)
           e == s[n]
           t == Append(r, e)
<1>1. /\ n \in Nat \ {0} /\ n - 1 \in Nat /\ n - 1 <= n /\ n \in 1 .. n /\ (n - 1) + 1 = n
  OBVIOUS
<1>2. e \in S
  OBVIOUS
<1>3. r = SubSeq(s, 1, n - 1)
  BY DEF Front
<1> DEFINE k == n - 1
<1>4. k \in Nat /\ k <= n /\ r = SubSeq(s, 1, k)
  BY <1>1, <1>3
<1> HIDE DEF r, k
<1>5. r \in Seq(S) /\ Len(r) = k /\ \A i \in 1 .. k : r[i] = s[i]
  <2>1. r \in Seq(S)
    BY <1>1, <1>4
  <2> QED BY <1>4, <2>1
<1> HIDE DEF e, t
<1>6. t \in Seq(S) /\ LongerBy(t, r, e)
  BY <1>2, <1>5, AppendTyped DEF t
<1>7. Len(t) = n /\ t[n] = e /\ \A i \in 1 .. k : t[i] = s[i]
  BY <1>1, <1>5, <1>6 DEF LongerBy, k
<1>8. \A i \in 1 .. n : t[i] = s[i]
  <2>1. \A i \in 1 .. n : i = n \/ i \in 1 .. k
    <3> HIDE DEF n
    <3> QED BY <1>1 DEF k
  <2> QED BY <1>7, <2>1 DEF e
<1>9. t = s
  BY <1>6, <1>7, <1>8
<1> QED BY <1>1, <1>2, <1>5, <1>9 DEF r, e, t, k

\* U has the nodes of T in their places, and besides them files of the volume
\* only.
MoreFiles(T, U) ==
    /\ DOMAIN T \in SUBSET DOMAIN U
    /\ \A m \in DOMAIN T : U[m].kind = T[m].kind /\ U[m].fa = T[m].fa /\ U[m].name = T[m].name
    /\ \A m \in DOMAIN U \ DOMAIN T : U[m].kind \in {"file", "folder"}

(* Nodes in their places keep their paths. *)
LEMMA MoreFilesKeep ==
    ASSUME NEW T, NEW U, Rooted(T), Rooted(U), MoreFiles(T, U), NEW top
    PROVE  \A m \in DOMAIN T : PathUpTo(U, m, top) = PathUpTo(T, m, top)
<1>1. DOMAIN T \in SUBSET (DOMAIN T \cap DOMAIN U)
  BY DEF MoreFiles
<1>2. \A m \in DOMAIN T \ {root} : T[m].fa \in DOMAIN T
  BY DEF Rooted, FathersThere
<1>3. \A m \in DOMAIN T : PathUpTo(T, m, top) = PathUpTo(U, m, top)
  BY <1>1, <1>2, PathKept DEF MoreFiles
<1> QED BY <1>3

(* What FindRecursive does for one section from a node there is.           *)
LEMMA DownIs ==
    ASSUME NEW V, NEW at \in Founds(V), at.node # Null, NEW name \in Words
    PROVE  LET T == at.tree
               n == at.node
               c == FindChildName(T, n, name)
               q == Append(PathInVFS(T, n), name)
           IN  Down(at, V, name) =
                   IF c # Null THEN [tree |-> T, node |-> c]
                   ELSE IF ~BelongVFS(T[n]) \/ q \notin DOMAIN V THEN [tree |-> T, node |-> Null]
                   ELSE [tree |-> Added(T, New(name, V[q]), n), node |-> Fresh(T)]
<1> DEFINE T == at.tree
           n == at.node
           c == FindChildName(T, n, name)
           q == Append(PathInVFS(T, n), name)
           d == Down(at, V, name)
           last == IF ~BelongVFS(T[n]) \/ q \notin DOMAIN V THEN [tree |-> T, node |-> Null]
                   ELSE [tree |-> Added(T, New(name, V[q]), n), node |-> Fresh(T)]
<1>1. at = [tree |-> T, node |-> n]
  BY DEF Founds, Places
<1>2. \A m : [at EXCEPT !.node = m] = [tree |-> T, node |-> m]
  BY <1>1
<1>3. AddFileInVFS(at, V, name) =
          IF ~BelongVFS(T[n]) THEN [at EXCEPT !.node = Null]
          ELSE IF q \notin DOMAIN V THEN [at EXCEPT !.node = Null]
          ELSE [tree |-> Added(T, New(name, V[q]), n), node |-> Fresh(T)]
  BY DEF AddFileInVFS, With
<1>4. AddFileInVFS(at, V, name) = last
  BY <1>2, <1>3
<1>5. d = IF c # Null THEN [at EXCEPT !.node = c] ELSE AddFileInVFS(at, V, name)
  BY DEF Down, With, ChildAtHand
<1> HIDE DEF d, c, T, n, last
<1>6. d = IF c # Null THEN [tree |-> T, node |-> c] ELSE last
  BY <1>2, <1>4, <1>5
<1> QED BY <1>6 DEF d, c, T, n, last

(* Where FindRecursive gets for one section.                               *)
LEMMA DownNames ==
    ASSUME NEW V, NEW at \in Founds(V), VolumeTyped(V), NEW name \in Words, NEW d, d = Down(at, V, name)
    PROVE  /\ d.node # Null => /\ at.node # Null /\ MoreFiles(at.tree, d.tree)
                               /\ d.tree[d.node].fa = at.node /\ d.tree[d.node].name = name
           /\ at.node # Null /\ BelongVFS(at.tree[at.node])
                  /\ Append(PathInVFS(at.tree, at.node), name) \in DOMAIN V => d.node # Null
<1> DEFINE T == at.tree
           n == at.node
           c == FindChildName(T, n, name)
           q == Append(PathInVFS(T, n), name)
<1>1. CASE n = Null
  BY <1>1 DEF Down
<1>2. CASE n # Null
  <2>1. /\ TreeSound(T) /\ NodesIn(T, V) /\ n \in DOMAIN T
    BY <1>2 DEF Founds, Places
  <2>2. Shaped(T) /\ TreeTyped(T) /\ Null \notin DOMAIN T
    BY <2>1, VFSAssumption DEF TreeSound, Shaped, Rooted, TreeTyped
  <2>3. d = IF c # Null THEN [tree |-> T, node |-> c]
            ELSE IF ~BelongVFS(T[n]) \/ q \notin DOMAIN V THEN [tree |-> T, node |-> Null]
            ELSE [tree |-> Added(T, New(name, V[q]), n), node |-> Fresh(T)]
    BY <1>2, DownIs
  <2>4. c # Null => c \in DOMAIN T /\ T[c].fa = n /\ T[c].name = name
    BY <2>1, <2>2, FindChildNameIs
  <2> HIDE DEF c, q
  <2>5. CASE c # Null
    <3>1. d.tree = T /\ d.node = c
      BY <2>3, <2>5
    <3>2. MoreFiles(T, T)
      BY DEF MoreFiles
    <3> HIDE DEF T, n
    <3> QED BY <1>2, <2>4, <2>5, <3>1, <3>2 DEF T, n
  <2>6. CASE c = Null /\ (~BelongVFS(T[n]) \/ q \notin DOMAIN V)
    <3>1. d.node = Null
      BY <2>3, <2>6
    <3> QED BY <2>6, <3>1 DEF q
  <2>7. CASE c = Null /\ BelongVFS(T[n]) /\ q \in DOMAIN V
    <3> DEFINE kind == V[q]
               U == Added(T, New(name, kind), n)
    <3>1. d.tree = U /\ d.node = Fresh(T)
      BY <2>3, <2>7
    <3>2. kind \in {"file", "folder"}
      BY <2>7 DEF VolumeTyped
    <3>3. kind \in Kinds
      BY <3>2 DEF Kinds
    <3> HIDE DEF kind, T, n
    <3>4. GrownBy(T, U, Fresh(T), n, name, kind)
      BY <2>1, <2>2, <3>3, AddedIs, ChildApart
    <3> HIDE DEF U
    <3>5. MoreFiles(T, U) /\ U[Fresh(T)].fa = n /\ U[Fresh(T)].name = name
      BY <3>2, <3>4 DEF MoreFiles, GrownBy
    <3>6. Fresh(T) # Null
      BY <2>2, FreshIs, VFSAssumption
    <3> QED BY <1>2, <3>1, <3>5, <3>6 DEF T, n
  <2> QED BY <2>5, <2>6, <2>7
<1> QED BY <1>1, <1>2

(* A node that FindRecursive gives has the path that was looked up.        *)
LEMMA FindNames ==
    ASSUME NEW T, NEW V, TreeSound(T), VolumeTyped(V), NodesIn(T, V)
    PROVE  \A path \in Seq(Words) : Find(T, V, path).node # Null =>
               /\ MoreFiles(T, Find(T, V, path).tree)
               /\ GetPath(Find(T, V, path).tree, Find(T, V, path).node) = path
<1> DEFINE ok(p, at) == at.node # Null => MoreFiles(T, at.tree) /\ GetPath(at.tree, at.node) = p
           I == {n \in Nat : \A p \in Seq(Words) : Len(p) = n => ok(p, Find(T, V, p))}
<1>1. 0 \in I
  <2> SUFFICES ASSUME NEW p \in Seq(Words), Len(p) = 0
               PROVE  ok(p, Find(T, V, p))
    OBVIOUS
  <2>1. p = <<>>
    OBVIOUS
  <2>2. Find(T, V, p) = [tree |-> T, node |-> root]
    BY <2>1, FindNothing
  <2>3. Rooted(T) /\ root \in DOMAIN T /\ AtTop(T, root, "none")
    BY DEF TreeSound, Shaped, Rooted, FathersThere, AtTop
  <2>4. GetPath(T, root) = <<>>
    BY <2>3, PathIs DEF GetPath
  <2>5. MoreFiles(T, T)
    BY DEF MoreFiles
  <2> QED BY <2>1, <2>2, <2>4, <2>5
<1>2. ASSUME NEW n \in I
      PROVE  n + 1 \in I
  <2> SUFFICES ASSUME NEW p \in Seq(Words), Len(p) = n + 1
               PROVE  ok(p, Find(T, V, p))
    OBVIOUS
  <2> DEFINE r == Front(p)
             x == p[Len(p)]
             a == Find(T, V, r)
             d == Find(T, V, p)
  <2>1. n \in Nat /\ p # <<>>
    OBVIOUS
  <2>2. r \in Seq(Words) /\ Len(r) = n /\ x \in Words /\ p = Append(r, x)
    <3>1. r \in Seq(Words) /\ Len(r) = Len(p) - 1 /\ x \in Words /\ p = Append(r, x)
      BY <2>1, EndIs
    <3> HIDE DEF r, x
    <3> QED BY <2>1, <3>1
  <2>3. ok(r, a)
    <3> HIDE DEF r, ok
    <3> QED BY <2>2
  <2> HIDE DEF r, x
  <2>4. d = Down(a, V, x) /\ a \in Founds(V) /\ d \in Founds(V)
    BY <2>2, FindLast, FindSound
  <2> HIDE DEF a, d
  <2> SUFFICES ASSUME d.node # Null
               PROVE  MoreFiles(T, d.tree) /\ GetPath(d.tree, d.node) = p
    BY DEF d
  <2>5. /\ a.node # Null /\ MoreFiles(a.tree, d.tree)
        /\ d.tree[d.node].fa = a.node /\ d.tree[d.node].name = x
    BY <2>2, <2>4, DownNames
  <2>6. MoreFiles(T, a.tree) /\ GetPath(a.tree, a.node) = r
    BY <2>3, <2>5 DEF a
  <2>7. Rooted(T) /\ Rooted(a.tree) /\ Rooted(d.tree) /\ a.node \in DOMAIN a.tree /\ d.node \in DOMAIN d.tree
    BY <2>4, <2>5 DEF Founds, TreeSound, Shaped
  <2>8. MoreFiles(T, d.tree)
    <3>1. \A m \in DOMAIN d.tree \ DOMAIN T : m \in DOMAIN a.tree => d.tree[m].kind = a.tree[m].kind
      BY <2>5 DEF MoreFiles
    <3> QED BY <2>5, <2>6, <3>1 DEF MoreFiles
  <2>9. GetPath(d.tree, a.node) = r
    BY <2>5, <2>6, <2>7, MoreFilesKeep DEF GetPath
  <2>10. ~AtTop(d.tree, d.node, "none")
    <3>1. d.tree[d.node].kind # "none"
      BY <2>7 DEF Rooted, TreeTyped, FileNode, Kinds
    <3>2. d.node # root
      BY <2>5, <2>7 DEF Rooted, FathersThere
    <3> QED BY <2>5, <3>1, <3>2 DEF AtTop
  <2>11. GetPath(d.tree, d.node) = Append(GetPath(d.tree, a.node), x)
    BY <2>5, <2>7, <2>10, PathIs DEF GetPath
  <2> QED BY <2>2, <2>8, <2>9, <2>11
<1>3. I = Nat
  <2> HIDE DEF I
  <2> QED BY <1>1, <1>2, AllNumbers DEF I
<1> SUFFICES ASSUME NEW path \in Seq(Words)
             PROVE  ok(path, Find(T, V, path))
  OBVIOUS
<1>4. Len(path) \in I
  <2> HIDE DEF I
  <2> QED BY <1>3
<1> HIDE DEF ok
<1> QED BY <1>4

(* Sequences behind each other, one of them one longer.                    *)
LEMMA JoinLonger ==
    ASSUME NEW S, NEW s \in Seq(S), NEW t \in Seq(S), NEW e \in S
    PROVE  s \o Append(t, e) = Append(s \o t, e)
<1> DEFINE u == Append(t, e)
           v == s \o t
           w == Append(v, e)
           x == s \o u
<1>1. u \in Seq(S) /\ LongerBy(u, t, e) /\ v \in Seq(S)
  BY AppendTyped, JoinTyped
<1>2. Len(s) \in Nat /\ Len(t) \in Nat
  OBVIOUS
<1>3. /\ Len(v) = Len(s) + Len(t) /\ \A i \in 1 .. Len(s) : v[i] = s[i]
      /\ \A i \in Len(s) + 1 .. Len(s) + Len(t) : v[i] = t[i - Len(s)]
  OBVIOUS
<1> HIDE DEF u, v
<1>4. /\ x \in Seq(S) /\ Len(x) = Len(s) + Len(u) /\ \A i \in 1 .. Len(s) : x[i] = s[i]
      /\ \A i \in Len(s) + 1 .. Len(s) + Len(u) : x[i] = u[i - Len(s)]
  BY <1>1
<1>5. w \in Seq(S) /\ LongerBy(w, v, e)
  BY <1>1, AppendTyped
<1> HIDE DEF w, x
<1>6. Len(u) = Len(t) + 1 /\ u[Len(t) + 1] = e /\ \A i \in 1 .. Len(t) : u[i] = t[i]
  BY <1>1 DEF LongerBy
<1>7. Len(w) = Len(s) + Len(t) + 1 /\ w[Len(s) + Len(t) + 1] = e /\ \A i \in 1 .. Len(s) + Len(t) : w[i] = v[i]
  BY <1>3, <1>5 DEF LongerBy
<1>8. Len(x) = Len(s) + Len(t) + 1
  BY <1>2, <1>4, <1>6
<1>9. ASSUME NEW i \in 1 .. Len(x)
      PROVE  x[i] = w[i]
  <2>1. CASE i \in 1 .. Len(s)
    <3>1. i \in 1 .. Len(s) + Len(t)
      BY <1>2, <2>1
    <3> QED BY <1>3, <1>4, <1>7, <2>1, <3>1
  <2>2. CASE i \in Len(s) + 1 .. Len(s) + Len(t)
    <3>1. i - Len(s) \in 1 .. Len(t) /\ i \in 1 .. Len(s) + Len(t) /\ i \in Len(s) + 1 .. Len(s) + Len(u)
      BY <1>2, <1>6, <2>2
    <3> QED BY <1>3, <1>4, <1>6, <1>7, <2>2, <3>1
  <2>3. CASE i = Len(s) + Len(t) + 1
    <3>1. i - Len(s) = Len(t) + 1 /\ i \in Len(s) + 1 .. Len(s) + Len(u)
      BY <1>2, <1>6, <2>3
    <3> QED BY <1>4, <1>6, <1>7, <2>3, <3>1
  <2> QED BY <1>2, <1>8, <2>1, <2>2, <2>3
<1>10. x = w
  BY <1>4, <1>5, <1>7, <1>8, <1>9
<1> QED BY <1>10 DEF u, v, w, x

\* The path of the volume.
VolumeRoot == <<"VFS", "FAT32">>

(* That path, and how it is put together. *)
LEMMA VolumeRootIs ==
    VolumeRoot \in Seq(Words) /\ VolumeRoot = Append(Append(<<>>, "VFS"), "FAT32")
<1>1. "VFS" \in Words /\ "FAT32" \in Words
  BY KernelWords
<1>2. VolumeRoot \in Seq(Words)
  BY <1>1, ShortPaths DEF VolumeRoot
<1>3. Append(<<>>, "VFS") = <<"VFS">>
  OBVIOUS
<1>4. VolumeRoot = Append(<<"VFS">>, "FAT32")
  <2>1. Len(VolumeRoot) = 2 /\ VolumeRoot[1] = "VFS" /\ VolumeRoot[2] = "FAT32"
    BY DEF VolumeRoot
  <2> QED BY <1>2, <2>1, PairIs
<1> QED BY <1>2, <1>3, <1>4

(* The path of a node of the volume is the volume's and that in it.        *)
LEMMA WholePath ==
    ASSUME NEW T, TreeSound(T), NEW n \in DOMAIN T, BelongVFS(T[n])
    PROVE  GetPath(T, n) = VolumeRoot \o PathInVFS(T, n)
<1> DEFINE S == {m \in DOMAIN T : BelongVFS(T[m]) => GetPath(T, m) = VolumeRoot \o PathInVFS(T, m)}
<1>1. Rooted(T) /\ KindsFit(T) /\ FathersThere(T) /\ Acyclic(T)
  BY DEF TreeSound, Shaped, Rooted
<1>2. \A m \in DOMAIN T : T[m].kind # "none" /\ (m # root => T[m].fa \in DOMAIN T /\ T[m].fa # Null)
  BY <1>1, VFSAssumption DEF Rooted, TreeTyped, FathersThere, FileNode, Kinds
<1>3. \A m \in DOMAIN T \ {root} : GetPath(T, m) = Append(GetPath(T, T[m].fa), T[m].name)
  BY <1>1, <1>2, PathIs DEF GetPath, AtTop
<1>4. root \in S
  BY <1>1 DEF KindsFit, BelongVFS, FathersThere
<1>5. VolumeRoot \in Seq(Words) /\ VolumeRoot = Append(Append(<<>>, "VFS"), "FAT32")
  BY VolumeRootIs
<1>6. ASSUME NEW m \in DOMAIN T \ {root}, T[m].fa \in S
      PROVE  m \in S
  <2> SUFFICES ASSUME BelongVFS(T[m])
               PROVE  GetPath(T, m) = VolumeRoot \o PathInVFS(T, m)
    OBVIOUS
  <2>1. CASE T[m].kind = "mount"
    <3> DEFINE fa == T[m].fa
    <3>1. T[m].name = "FAT32" /\ T[fa].name = "VFS" /\ T[fa].fa = root
      BY <1>1, <2>1 DEF KindsFit, AtMount
    <3>2. fa \in DOMAIN T \ {root}
      BY <1>1, <1>2, <3>1, VFSAssumption DEF FathersThere, root
    <3>3. GetPath(T, root) = <<>>
      BY <1>1, PathIs DEF GetPath, AtTop, FathersThere
    <3>4. GetPath(T, m) = VolumeRoot
      BY <1>3, <1>5, <3>1, <3>2, <3>3
    <3>5. PathInVFS(T, m) = <<>>
      BY <2>1, VolumePath
    <3>6. VolumeRoot \o <<>> = VolumeRoot
      BY <1>5
    <3> QED BY <3>4, <3>5, <3>6
  <2>2. CASE T[m].kind # "mount"
    <3> DEFINE p == PathInVFS(T, T[m].fa)
    <3>1. /\ BelongVFS(T[T[m].fa]) /\ T[m].name \in Words /\ T[m].fa \in DOMAIN T
          /\ PathInVFS(T, m) = Append(p, T[m].name)
      BY <2>2, VolumePath
    <3>2. p \in Seq(Words)
      BY <3>1, VolumePath
    <3>3. GetPath(T, T[m].fa) = VolumeRoot \o p
      BY <1>6, <3>1
    <3>4. GetPath(T, m) = Append(GetPath(T, T[m].fa), T[m].name)
      BY <1>3
    <3> HIDE DEF p
    <3>5. VolumeRoot \o Append(p, T[m].name) = Append(VolumeRoot \o p, T[m].name)
      BY <1>5, <3>1, <3>2, JoinLonger
    <3> QED BY <3>1, <3>3, <3>4, <3>5
  <2> QED BY <2>1, <2>2
<1>7. DOMAIN T \subseteq S
  <2> HIDE DEF S
  <2> QED BY <1>1, <1>4, <1>6, ByFathers
<1> QED BY <1>7

(* FindRecursive gives a node to every file of the volume.                 *)
LEMMA VolumeFound ==
    ASSUME NEW T, NEW V, TreeSound(T), VolumeTyped(V), NodesIn(T, V), \E n \in DOMAIN T : T[n].kind = "mount"
    PROVE  \A q \in DOMAIN V : Find(T, V, VolumeRoot \o q).node # Null
<1> DEFINE ok(q, at) == at.node # Null /\ BelongVFS(at.tree[at.node]) /\ PathInVFS(at.tree, at.node) = q
           I == {n \in Nat : \A q \in Seq(Words) :
                     Len(q) = n /\ (q = <<>> \/ q \in DOMAIN V) => ok(q, Find(T, V, VolumeRoot \o q))}
<1>1. VolumeRoot \in Seq(Words)
  BY VolumeRootIs
<1>2. 0 \in I
  <2> SUFFICES ASSUME NEW q \in Seq(Words), Len(q) = 0
               PROVE  ok(q, Find(T, V, VolumeRoot \o q))
    OBVIOUS
  <2>1. q = <<>>
    OBVIOUS
  <2>2. PICK n \in DOMAIN T : T[n].kind = "mount"
    OBVIOUS
  <2>3. BelongVFS(T[n])
    BY <2>2 DEF BelongVFS
  <2>4. PathInVFS(T, n) = <<>> /\ GetPath(T, n) = VolumeRoot \o PathInVFS(T, n)
    BY <2>2, <2>3, VolumePath, WholePath
  <2>5. Find(T, V, GetPath(T, n)) = [tree |-> T, node |-> n]
    BY PathLeadsBack
  <2>6. n # Null
    BY VFSAssumption DEF TreeSound, Shaped, Rooted, TreeTyped
  <2> QED BY <2>1, <2>3, <2>4, <2>5, <2>6
<1>3. ASSUME NEW n \in I
      PROVE  n + 1 \in I
  <2> SUFFICES ASSUME NEW q \in Seq(Words), Len(q) = n + 1, q \in DOMAIN V
               PROVE  ok(q, Find(T, V, VolumeRoot \o q))
    OBVIOUS
  <2> DEFINE r == Front(q)
             x == q[Len(q)]
             a == Find(T, V, VolumeRoot \o r)
             d == Find(T, V, VolumeRoot \o q)
  <2>1. n \in Nat /\ q # <<>>
    OBVIOUS
  <2>2. r \in Seq(Words) /\ Len(r) = n /\ x \in Words /\ q = Append(r, x) /\ (r = <<>> \/ r \in DOMAIN V)
    <3>1. r \in Seq(Words) /\ Len(r) = Len(q) - 1 /\ x \in Words /\ q = Append(r, x)
      BY <2>1, EndIs
    <3>2. Len(q) # 1 => r \in DOMAIN V
      BY DEF VolumeTyped
    <3> HIDE DEF r, x
    <3>3. Len(r) = n /\ (n = 0 => r = <<>>)
      BY <2>1, <3>1
    <3> QED BY <2>1, <3>1, <3>2, <3>3
  <2>3. ok(r, a)
    <3> HIDE DEF r, ok
    <3> QED BY <2>2
  <2> HIDE DEF r, x
  <2>4. d = Down(a, V, x) /\ a \in Founds(V) /\ d \in Founds(V)
    <3>1. VolumeRoot \o q = Append(VolumeRoot \o r, x) /\ VolumeRoot \o r \in Seq(Words) /\ VolumeRoot \o q \in Seq(Words)
      BY <1>1, <2>2, JoinLonger, JoinTyped
    <3> DEFINE s == VolumeRoot \o r
               t == VolumeRoot \o q
    <3>2. a = Find(T, V, s) /\ d = Find(T, V, t) /\ t = Append(s, x)
      BY <3>1
    <3> HIDE DEF s, t, a, d
    <3>3. s \in Seq(Words) /\ t \in Seq(Words)
      BY <3>1 DEF s, t
    <3> QED BY <2>2, <3>2, <3>3, FindLast, FindSound
  <2>5. a.node # Null /\ BelongVFS(a.tree[a.node]) /\ PathInVFS(a.tree, a.node) = r
    BY <2>3
  <2> HIDE DEF a, d
  <2>6. /\ d.node # Null /\ MoreFiles(a.tree, d.tree)
        /\ d.tree[d.node].fa = a.node /\ d.tree[d.node].name = x
    BY <2>2, <2>4, <2>5, DownNames
  <2>7. /\ Rooted(a.tree) /\ Rooted(d.tree) /\ KindsFit(d.tree) /\ TreeSound(d.tree)
        /\ a.node \in DOMAIN a.tree /\ d.node \in DOMAIN d.tree
    BY <2>4, <2>5, <2>6 DEF Founds, TreeSound, Shaped
  <2>8. PathInVFS(d.tree, a.node) = r /\ d.tree[a.node].kind = a.tree[a.node].kind
    BY <2>5, <2>6, <2>7, MoreFilesKeep DEF PathInVFS, MoreFiles
  <2>9. d.node # root
    BY <2>6, <2>7, VFSAssumption DEF Rooted, FathersThere, TreeTyped
  <2>10. d.tree[d.node].kind \in {"folder", "file"}
    BY <2>5, <2>6, <2>7, <2>8, <2>9 DEF KindsFit, BelongVFS
  <2>11. BelongVFS(d.tree[d.node])
    BY <2>10 DEF BelongVFS
  <2>12. PathInVFS(d.tree, d.node) = Append(PathInVFS(d.tree, a.node), x)
    BY <2>6, <2>7, <2>10, <2>11, VolumePath
  <2> QED BY <2>2, <2>6, <2>8, <2>11, <2>12 DEF d
<1>4. I = Nat
  <2> HIDE DEF I
  <2> QED BY <1>2, <1>3, AllNumbers DEF I
<1> SUFFICES ASSUME NEW q \in DOMAIN V
             PROVE  ok(q, Find(T, V, VolumeRoot \o q))
  OBVIOUS
<1>5. q \in Seq(Words)
  BY DEF VolumeTyped
<1>6. Len(q) \in I
  <2> HIDE DEF I
  <2> QED BY <1>4, <1>5
<1> HIDE DEF ok
<1> QED BY <1>5, <1>6

(* What there is is found, and what is found is there.                     *)
LEMMA FoundIsNamed ==
    ASSUME NEW T, NEW V, Agree(T, V), NEW path \in Seq(Words), NEW at, at = Find(T, V, path)
    PROVE  LET names == {GetPath(T, n) : n \in DOMAIN T} \union {VolumeRoot \o q : q \in DOMAIN V}
           IN  IF path \in names THEN at.node # Null /\ GetPath(at.tree, at.node) = path
               ELSE at.node = Null
<1> DEFINE names == {GetPath(T, n) : n \in DOMAIN T} \union {VolumeRoot \o q : q \in DOMAIN V}
<1>1. TreeSound(T) /\ VolumeTyped(V) /\ NodesIn(T, V) /\ Null \notin DOMAIN T
  BY VFSAssumption DEF Agree, TreeSound, Shaped, Rooted, TreeTyped
<1>2. at.node # Null => MoreFiles(T, at.tree) /\ GetPath(at.tree, at.node) = path
  BY <1>1, FindNames
<1>3. at \in Founds(V)
  BY <1>1, FindSound
<1>4. path \in names => at.node # Null
  <2>1. ASSUME NEW n \in DOMAIN T, path = GetPath(T, n)
        PROVE  at.node # Null
    <3>1. at = [tree |-> T, node |-> n]
      BY <1>1, <2>1, PathLeadsBack
    <3> QED BY <1>1, <3>1
  <2>2. ASSUME NEW q \in DOMAIN V, path = VolumeRoot \o q
        PROVE  at.node # Null
    <3>1. \E n \in DOMAIN T : T[n].kind = "mount"
      BY <1>1 DEF NodesIn, MountedFor
    <3> QED BY <1>1, <2>2, <3>1, VolumeFound
  <2> QED BY <2>1, <2>2
<1>5. at.node # Null => path \in names
  <2> SUFFICES ASSUME at.node # Null
               PROVE  path \in names
    OBVIOUS
  <2>1. /\ TreeSound(at.tree) /\ NodesIn(at.tree, V) /\ at.node \in DOMAIN at.tree
        /\ MoreFiles(T, at.tree) /\ GetPath(at.tree, at.node) = path
    BY <1>2, <1>3 DEF Founds
  <2>2. CASE at.node \in DOMAIN T
    <3>1. GetPath(at.tree, at.node) = GetPath(T, at.node)
      BY <1>1, <2>1, <2>2, MoreFilesKeep DEF GetPath, TreeSound, Shaped
    <3> QED BY <2>1, <2>2, <3>1
  <2>3. CASE at.node \notin DOMAIN T
    <3>1. at.tree[at.node].kind \in {"file", "folder"}
      BY <2>1, <2>3 DEF MoreFiles
    <3>2. PathInVFS(at.tree, at.node) \in DOMAIN V
      BY <2>1, <3>1 DEF NodesIn, Standing
    <3>3. path = VolumeRoot \o PathInVFS(at.tree, at.node)
      BY <2>1, <3>1, WholePath DEF BelongVFS
    <3> QED BY <3>2, <3>3
  <2> QED BY <2>2, <2>3
<1> QED BY <1>2, <1>4, <1>5

-----------------------------------------------------------------------------
(* What NormalizePath leaves.                                              *)

\* A section names something, or leads up, or neither.
Naming(x) == x \notin {"", ".", ".."}
Upward(x) == x = ".."

\* How many of the sections from i to j do.
NamedIn(names, i, j) == Cardinality({k \in i .. j : Naming(names[k])})
UpIn(names, i, j) == Cardinality({k \in i .. j : Upward(names[k])})

\* The sections that stay of the first n.
KeptOf(names, n) ==
    {k \in 1 .. n : /\ Naming(names[k])
                    /\ \A j \in k + 1 .. n : UpIn(names, k + 1, j) <= NamedIn(names, k + 1, j)}

(* One section more. *)
LEMMA CountsGrow ==
    ASSUME NEW names, NEW i \in Nat, NEW j \in Nat, i <= j + 1
    PROVE  /\ NamedIn(names, i, j) \in Nat /\ UpIn(names, i, j) \in Nat
           /\ i = j + 1 => NamedIn(names, i, j) = 0 /\ UpIn(names, i, j) = 0
           /\ NamedIn(names, i, j + 1) = IF Naming(names[j + 1]) THEN NamedIn(names, i, j) + 1
                                         ELSE NamedIn(names, i, j)
           /\ UpIn(names, i, j + 1) = IF Upward(names[j + 1]) THEN UpIn(names, i, j) + 1 ELSE UpIn(names, i, j)
<1> DEFINE A == {k \in i .. j : Naming(names[k])}
           B == {k \in i .. j : Upward(names[k])}
           C == {k \in i .. j + 1 : Naming(names[k])}
           D == {k \in i .. j + 1 : Upward(names[k])}
           x == j + 1
<1>1. IsFiniteSet(i .. j)
  BY FS_Interval
<1>2. IsFiniteSet(A) /\ IsFiniteSet(B)
  <2>1. A \in SUBSET (i .. j) /\ B \in SUBSET (i .. j)
    OBVIOUS
  <2> HIDE DEF A, B
  <2> QED BY <1>1, <2>1, FS_Subset
<1>3. i .. x = (i .. j) \union {x} /\ x \notin i .. j /\ (i = x => i .. j = {})
  OBVIOUS
<1>4. /\ C = IF Naming(names[x]) THEN A \union {x} ELSE A
      /\ D = IF Upward(names[x]) THEN B \union {x} ELSE B
      /\ x \notin A /\ x \notin B /\ (i = x => A = {} /\ B = {})
  <2> HIDE DEF x
  <2>1. x \notin A /\ x \notin B /\ (i = x => A = {} /\ B = {})
    BY <1>3
  <2>2. C = IF Naming(names[x]) THEN A \union {x} ELSE A
    BY <1>3 DEF x
  <2>3. D = IF Upward(names[x]) THEN B \union {x} ELSE B
    BY <1>3 DEF x
  <2> QED BY <2>1, <2>2, <2>3
<1> HIDE DEF A, B, C, D
<1>5. /\ Cardinality(A) \in Nat /\ Cardinality(B) \in Nat
      /\ Cardinality(A \union {x}) = Cardinality(A) + 1
      /\ Cardinality(B \union {x}) = Cardinality(B) + 1
      /\ (i = x => Cardinality(A) = 0 /\ Cardinality(B) = 0)
  BY <1>2, <1>4, FS_CardinalityType, FS_AddElement, FS_EmptySet
<1>6. /\ NamedIn(names, i, j) = Cardinality(A) /\ UpIn(names, i, j) = Cardinality(B)
      /\ NamedIn(names, i, x) = Cardinality(C) /\ UpIn(names, i, x) = Cardinality(D)
  BY DEF NamedIn, UpIn, A, B, C, D
<1> QED BY <1>4, <1>5, <1>6

(* One section more behind one of the first n, and none behind the last.   *)
LEMMA CountsBehind ==
    ASSUME NEW names, NEW n \in Nat
    PROVE  /\ \A k \in 1 .. n :
                /\ NamedIn(names, k + 1, n) \in Nat /\ UpIn(names, k + 1, n) \in Nat
                /\ NamedIn(names, k + 1, n + 1) = IF Naming(names[n + 1]) THEN NamedIn(names, k + 1, n) + 1
                                                  ELSE NamedIn(names, k + 1, n)
                /\ UpIn(names, k + 1, n + 1) = IF Upward(names[n + 1]) THEN UpIn(names, k + 1, n) + 1
                                               ELSE UpIn(names, k + 1, n)
           /\ NamedIn(names, n + 1, n) = 0 /\ UpIn(names, n + 1, n) = 0
<1>1. ASSUME NEW k \in 1 .. n
      PROVE  k + 1 \in Nat /\ k + 1 <= n + 1
  OBVIOUS
<1>2. n + 1 \in Nat /\ n + 1 <= n + 1
  OBVIOUS
<1>3. NamedIn(names, n + 1, n) = 0 /\ UpIn(names, n + 1, n) = 0
  BY <1>2, CountsGrow
<1> QED BY <1>1, <1>3, CountsGrow

(* A section that stays is not taken by those behind it.                   *)
LEMMA KeptBalance ==
    ASSUME NEW names, NEW n \in Nat, NEW k \in KeptOf(names, n)
    PROVE  UpIn(names, k + 1, n) <= NamedIn(names, k + 1, n)
<1>1. k \in Nat /\ k + 1 \in Nat /\ k <= n
  BY DEF KeptOf
<1>2. CASE k = n
  <2>1. NamedIn(names, k + 1, n) = 0 /\ UpIn(names, k + 1, n) = 0
    BY <1>1, <1>2, CountsGrow
  <2> QED BY <2>1
<1>3. CASE k # n
  <2>1. n \in k + 1 .. n
    BY <1>1, <1>3
  <2> QED BY <2>1 DEF KeptOf
<1> QED BY <1>2, <1>3

(* What stays with one section more. *)
LEMMA KeptGrows ==
    ASSUME NEW names, NEW n \in Nat, NEW k \in 1 .. n + 1
    PROVE  k \in KeptOf(names, n + 1) <=>
               IF k = n + 1 THEN Naming(names[k])
               ELSE k \in KeptOf(names, n) /\ UpIn(names, k + 1, n + 1) <= NamedIn(names, k + 1, n + 1)
<1> DEFINE m == n + 1
           fits(j) == UpIn(names, k + 1, j) <= NamedIn(names, k + 1, j)
           plain == Naming(names[k])
<1>1. k \in KeptOf(names, m) <=> plain /\ \A j \in k + 1 .. m : fits(j)
  BY DEF KeptOf
<1>2. CASE k = m
  <2>1. k + 1 .. m = {}
    BY <1>2
  <2> HIDE DEF fits, plain
  <2>2. k \in KeptOf(names, m) <=> plain
    BY <1>1, <2>1
  <2> QED BY <1>2, <2>2 DEF plain
<1>3. CASE k # m
  <2>1. k \in 1 .. n /\ k + 1 .. m = (k + 1 .. n) \union {m}
    BY <1>3
  <2>2. k \in KeptOf(names, n) <=> plain /\ \A j \in k + 1 .. n : fits(j)
    BY <2>1 DEF KeptOf
  <2> HIDE DEF fits, plain
  <2>3. k \in KeptOf(names, m) <=> k \in KeptOf(names, n) /\ fits(m)
    BY <1>1, <2>1, <2>2
  <2> QED BY <1>3, <2>3 DEF fits
<1> QED BY <1>2, <1>3

\* The sections s are those of names at e, which are those that stay of the
\* first n, in their order; as many of them come after each as name something
\* behind it and are not taken.
Stays(names, n, s, e) ==
    /\ e \in Seq(1 .. n) /\ Len(e) = Len(s)
    /\ \A i \in 1 .. Len(e) : /\ e[i] \in KeptOf(names, n) /\ s[i] = names[e[i]]
                              /\ NamedIn(names, e[i] + 1, n) - UpIn(names, e[i] + 1, n) = Len(e) - i
    /\ \A i, j \in 1 .. Len(e) : i < j => e[i] < e[j]
    /\ \A k \in KeptOf(names, n) : \E i \in 1 .. Len(e) : e[i] = k

(* A section that does not count. *)
LEMMA StaysStill ==
    ASSUME NEW names, NEW n \in Nat, NEW s \in Seq(Words), NEW e, Stays(names, n, s, e),
           ~Naming(names[n + 1]), ~Upward(names[n + 1])
    PROVE  Stays(names, n + 1, s, e)
<1>1. e \in Seq(1 .. n) /\ Len(e) \in Nat /\ \A i \in 1 .. Len(e) : e[i] \in 1 .. n
  <2>1. e \in Seq(1 .. n)
    BY DEF Stays
  <2> QED BY <2>1
<1>2. \A k \in 1 .. n : /\ UpIn(names, k + 1, n + 1) = UpIn(names, k + 1, n)
                        /\ NamedIn(names, k + 1, n + 1) = NamedIn(names, k + 1, n)
  BY CountsBehind
<1>3. KeptOf(names, n + 1) = KeptOf(names, n)
  <2>1. \A m \in Nat : KeptOf(names, m) \in SUBSET (1 .. m)
    BY DEF KeptOf
  <2>2. ASSUME NEW k \in 1 .. n + 1
        PROVE  k \in KeptOf(names, n + 1) <=> k \in KeptOf(names, n)
    <3>1. CASE k = n + 1
      BY <2>1, <3>1, KeptGrows
    <3>2. CASE k # n + 1
      <4>1. k \in 1 .. n
        BY <3>2
      <4> QED BY <1>2, <3>2, <4>1, KeptGrows, KeptBalance
    <3> QED BY <3>1, <3>2
  <2>3. KeptOf(names, n + 1) \in SUBSET (1 .. n + 1) /\ KeptOf(names, n) \in SUBSET (1 .. n + 1)
    <3>1. 1 .. n \in SUBSET (1 .. n + 1)
      OBVIOUS
    <3> QED BY <2>1, <3>1
  <2> QED BY <2>2, <2>3
<1>4. e \in Seq(1 .. n + 1)
  BY <1>1
<1> QED BY <1>1, <1>2, <1>3, <1>4 DEF Stays

(* A section that names something. *)
LEMMA StaysNamed ==
    ASSUME NEW names, NEW n \in Nat, NEW s \in Seq(Words), NEW e, Stays(names, n, s, e),
           Naming(names[n + 1]), names[n + 1] \in Words
    PROVE  Stays(names, n + 1, Append(s, names[n + 1]), Append(e, n + 1))
<1> DEFINE m == n + 1
           x == names[n + 1]
           t == Append(s, x)
           f == Append(e, m)
<1>1. e \in Seq(1 .. n) /\ Len(e) \in Nat /\ \A i \in 1 .. Len(e) : e[i] \in 1 .. n
  <2>1. e \in Seq(1 .. n)
    BY DEF Stays
  <2> QED BY <2>1
<1>2. \A k \in 1 .. n : /\ UpIn(names, k + 1, m) = UpIn(names, k + 1, n)
                        /\ NamedIn(names, k + 1, m) = NamedIn(names, k + 1, n) + 1
                        /\ UpIn(names, k + 1, n) \in Nat /\ NamedIn(names, k + 1, n) \in Nat
  <2>1. \A y : Naming(y) => ~Upward(y)
    BY DEF Naming, Upward
  <2> QED BY <2>1, CountsBehind
<1>3. /\ m \in KeptOf(names, m) /\ \A k \in 1 .. n : k \in KeptOf(names, m) <=> k \in KeptOf(names, n)
      /\ KeptOf(names, m) \in SUBSET (1 .. m)
  <2>1. m \in KeptOf(names, m)
    <3>1. n + 1 \in 1 .. n + 1
      OBVIOUS
    <3> QED BY <3>1, KeptGrows
  <2>2. ASSUME NEW k \in 1 .. n
        PROVE  k \in KeptOf(names, m) <=> k \in KeptOf(names, n)
    <3>1. k \in 1 .. n + 1 /\ k # n + 1
      OBVIOUS
    <3>2. k \in KeptOf(names, n) => UpIn(names, k + 1, n) <= NamedIn(names, k + 1, n)
      BY KeptBalance
    <3> QED BY <1>2, <3>1, <3>2, KeptGrows
  <2> QED BY <2>1, <2>2 DEF KeptOf
<1>4. NamedIn(names, m + 1, m) = 0 /\ UpIn(names, m + 1, m) = 0
  <2>1. m \in Nat
    OBVIOUS
  <2> HIDE DEF m
  <2> QED BY <2>1, CountsBehind
<1>5. t \in Seq(Words) /\ LongerBy(t, s, x)
  BY AppendTyped
<1>6. f \in Seq(1 .. m) /\ LongerBy(f, e, m)
  <2>1. e \in Seq(1 .. m) /\ m \in 1 .. m
    BY <1>1
  <2> HIDE DEF m
  <2> QED BY <2>1, AppendTyped
<1>7. m \in Nat /\ n < m /\ \A k \in 1 .. m : k = m \/ k \in 1 .. n
  OBVIOUS
<1> HIDE DEF t, f, x
<1>8. /\ Len(f) = Len(e) + 1 /\ f[Len(e) + 1] = m /\ \A i \in 1 .. Len(e) : f[i] = e[i]
      /\ Len(t) = Len(e) + 1 /\ t[Len(e) + 1] = x /\ \A i \in 1 .. Len(e) : t[i] = s[i]
  BY <1>5, <1>6 DEF LongerBy, Stays
<1>9. \A i \in 1 .. Len(f) : i = Len(e) + 1 \/ i \in 1 .. Len(e)
  BY <1>1, <1>8
<1>10. ASSUME NEW i \in 1 .. Len(f)
       PROVE  /\ f[i] \in KeptOf(names, m) /\ t[i] = names[f[i]]
              /\ NamedIn(names, f[i] + 1, m) - UpIn(names, f[i] + 1, m) = Len(f) - i
  <2>1. CASE i = Len(e) + 1
    <3>1. f[i] = m /\ t[i] = names[m] /\ Len(f) - i = 0
      BY <1>1, <1>8, <2>1 DEF x
    <3> HIDE DEF m
    <3> QED BY <1>3, <1>4, <3>1
  <2>2. CASE i \in 1 .. Len(e)
    <3>1. f[i] = e[i] /\ t[i] = s[i] /\ e[i] \in 1 .. n
      BY <1>1, <1>8, <2>2
    <3>2. /\ e[i] \in KeptOf(names, n) /\ s[i] = names[e[i]]
          /\ NamedIn(names, e[i] + 1, n) - UpIn(names, e[i] + 1, n) = Len(e) - i
      BY <2>2 DEF Stays
    <3>3. e[i] \in KeptOf(names, m)
      BY <1>3, <3>1, <3>2
    <3>4. NamedIn(names, e[i] + 1, m) - UpIn(names, e[i] + 1, m) = Len(f) - i
      <4> DEFINE a == NamedIn(names, e[i] + 1, n)
                 b == UpIn(names, e[i] + 1, n)
      <4>1. /\ a \in Nat /\ b \in Nat /\ a - b = Len(e) - i
            /\ NamedIn(names, e[i] + 1, m) = a + 1 /\ UpIn(names, e[i] + 1, m) = b
        BY <1>2, <3>1, <3>2
      <4>2. i \in Nat
        OBVIOUS
      <4> DEFINE l == Len(e)
      <4>3. l \in Nat /\ Len(f) = l + 1 /\ a - b = l - i
        BY <1>1, <1>8, <4>1
      <4> HIDE DEF m, a, b, l
      <4>4. (a + 1) - b = (l + 1) - i
        BY <4>1, <4>2, <4>3
      <4> QED BY <4>1, <4>3, <4>4
    <3> QED BY <3>1, <3>2, <3>3, <3>4
  <2> QED BY <1>9, <2>1, <2>2
<1>11. \A i, j \in 1 .. Len(f) : i < j => f[i] < f[j]
  <2> TAKE i, j \in 1 .. Len(f)
  <2>1. CASE j = Len(e) + 1
    <3>1. i < j => i \in 1 .. Len(e)
      BY <1>1, <1>9, <2>1
    <3> QED BY <1>1, <1>7, <1>8, <2>1, <3>1
  <2>2. CASE j \in 1 .. Len(e)
    <3>1. i < j => i \in 1 .. Len(e)
      BY <1>1, <1>9, <2>2
    <3> QED BY <1>8, <2>2, <3>1 DEF Stays
  <2> QED BY <1>9, <2>1, <2>2
<1>12. \A k \in KeptOf(names, m) : \E i \in 1 .. Len(f) : f[i] = k
  <2> SUFFICES ASSUME NEW k \in KeptOf(names, m)
               PROVE  \E i \in 1 .. Len(f) : f[i] = k
    OBVIOUS
  <2>1. k \in 1 .. m
    BY <1>3
  <2>2. CASE k = m
    <3>1. Len(e) + 1 \in 1 .. Len(f)
      BY <1>1, <1>8
    <3> QED BY <1>8, <2>2, <3>1
  <2>3. CASE k \in 1 .. n
    <3>1. k \in KeptOf(names, n)
      BY <1>3, <2>3
    <3>2. PICK i \in 1 .. Len(e) : e[i] = k
      BY <3>1 DEF Stays
    <3>3. i \in 1 .. Len(f)
      BY <1>1, <1>8
    <3> QED BY <1>8, <3>2, <3>3
  <2> QED BY <1>7, <2>1, <2>2, <2>3
<1>13. Stays(names, m, t, f)
  BY <1>6, <1>8, <1>10, <1>11, <1>12 DEF Stays
<1> QED BY <1>13 DEF t, f, x, m

(* A section that leads up. *)
LEMMA StaysLeft ==
    ASSUME NEW names, NEW n \in Nat, NEW s \in Seq(Words), NEW e, Stays(names, n, s, e),
           Upward(names[n + 1])
    PROVE  \E f : Stays(names, n + 1, Left(s), f)
<1> DEFINE m == n + 1
           f == IF e = <<>> THEN e ELSE Front(e)
<1>1. /\ e \in Seq(1 .. n) /\ Len(e) \in Nat /\ Len(e) = Len(s)
      /\ \A i \in 1 .. Len(e) : e[i] \in 1 .. n
  <2>1. e \in Seq(1 .. n) /\ Len(e) = Len(s)
    BY DEF Stays
  <2> QED BY <2>1
<1>2. \A k \in 1 .. n : /\ UpIn(names, k + 1, m) = UpIn(names, k + 1, n) + 1
                        /\ NamedIn(names, k + 1, m) = NamedIn(names, k + 1, n)
                        /\ UpIn(names, k + 1, n) \in Nat /\ NamedIn(names, k + 1, n) \in Nat
  <2>1. \A y : Naming(y) => ~Upward(y)
    BY DEF Naming, Upward
  <2> QED BY <2>1, CountsBehind
<1>3. /\ \A k \in 1 .. n : k \in KeptOf(names, m) <=> /\ k \in KeptOf(names, n)
                                                      /\ UpIn(names, k + 1, n) + 1 <= NamedIn(names, k + 1, n)
      /\ KeptOf(names, m) \in SUBSET (1 .. n)
  <2>1. ~Naming(names[m])
    BY DEF Naming, Upward
  <2>2. ASSUME NEW k \in 1 .. n
        PROVE  k \in KeptOf(names, m) <=> /\ k \in KeptOf(names, n)
                                          /\ UpIn(names, k + 1, n) + 1 <= NamedIn(names, k + 1, n)
    <3>1. k \in 1 .. n + 1 /\ k # n + 1
      OBVIOUS
    <3> QED BY <1>2, <3>1, KeptGrows
  <2>3. KeptOf(names, m) \in SUBSET (1 .. n)
    <3>1. \A k \in 1 .. m : k = m \/ k \in 1 .. n
      OBVIOUS
    <3>2. \A k \in KeptOf(names, m) : k \in 1 .. m /\ Naming(names[k])
      BY DEF KeptOf
    <3> HIDE DEF m
    <3> QED BY <2>1, <3>1, <3>2
  <2> QED BY <2>2, <2>3
<1>4. CASE e = <<>>
  <2>1. Len(e) = 0 /\ s = <<>> /\ e \in Seq(1 .. m)
    BY <1>1, <1>4
  <2>2. Left(s) = <<>>
    BY <2>1 DEF Left
  <2>3. \A k : k \notin KeptOf(names, m)
    <3>1. \A k \in 1 .. n : k \notin KeptOf(names, n)
      BY <2>1 DEF Stays
    <3> QED BY <1>3, <3>1
  <2>4. Stays(names, m, Left(s), e)
    BY <2>1, <2>2, <2>3 DEF Stays
  <2> QED BY <2>4
<1>5. CASE e # <<>>
  <2>1. s # <<>> /\ Left(s) = Front(s)
    <3>1. s # <<>>
      BY <1>1, <1>5
    <3> QED BY <3>1 DEF Left
  <2> DEFINE g == Front(e)
             t == Front(s)
             l == Len(e) - 1
             last == e[Len(e)]
  <2>2. /\ g \in Seq(1 .. n) /\ Len(g) = l /\ Len(e) \in Nat \ {0} /\ e = Append(g, last)
        /\ last \in 1 .. n
    <3> DEFINE S == 1 .. n
    <3>1. e \in Seq(S)
      BY <1>1
    <3> HIDE DEF S
    <3>2. g \in Seq(S) /\ Len(g) = l /\ Len(e) \in Nat \ {0} /\ e = Append(g, last) /\ last \in S
      BY <1>5, <3>1, EndIs
    <3> QED BY <3>2 DEF S
  <2>3. t \in Seq(Words) /\ Len(t) = l /\ s = Append(t, s[Len(s)]) /\ s[Len(s)] \in Words
    BY <1>1, <2>1, EndIs
  <2>4. l \in Nat /\ Len(e) = l + 1 /\ (\A i \in 1 .. l : i \in 1 .. Len(e)) /\ l + 1 \in 1 .. Len(e)
    BY <1>1, <2>2
  <2> HIDE DEF g, t, l, last
  <2>5. \A i \in 1 .. l : g[i] = e[i]
    <3> DEFINE S == 1 .. n
    <3>1. g \in Seq(S) /\ last \in S
      BY <2>2
    <3> HIDE DEF S
    <3> QED BY <2>2, <3>1, AppendTyped DEF LongerBy
  <2>6. \A i \in 1 .. l : t[i] = s[i]
    BY <2>3, AppendTyped DEF LongerBy
  <2>7. \A i \in 1 .. Len(e) : /\ e[i] \in KeptOf(names, n) /\ s[i] = names[e[i]]
                               /\ NamedIn(names, e[i] + 1, n) - UpIn(names, e[i] + 1, n) = Len(e) - i
    BY DEF Stays
  <2>8. ASSUME NEW i \in 1 .. Len(e)
        PROVE  /\ NamedIn(names, e[i] + 1, m) - UpIn(names, e[i] + 1, m) = l - i
               /\ e[i] \in KeptOf(names, m) <=> i \in 1 .. l
    <3> DEFINE a == NamedIn(names, e[i] + 1, n)
               b == UpIn(names, e[i] + 1, n)
    <3>1. /\ a \in Nat /\ b \in Nat /\ a - b = Len(e) - i
          /\ NamedIn(names, e[i] + 1, m) = a /\ UpIn(names, e[i] + 1, m) = b + 1
      BY <1>1, <1>2, <2>7
    <3>2. e[i] \in KeptOf(names, m) <=> b + 1 <= a
      BY <1>1, <1>3, <2>7
    <3>3. i \in Nat \ {0} /\ i <= Len(e) /\ (i \in 1 .. l <=> i <= l)
      BY <1>1, <2>4
    <3> HIDE DEF a, b, m
    <3>4. a - (b + 1) = l - i /\ (b + 1 <= a <=> i <= l)
      BY <2>4, <3>1, <3>3
    <3> QED BY <3>1, <3>2, <3>3, <3>4
  <2>9. g \in Seq(1 .. m)
    <3>1. \A k \in 1 .. n : k \in 1 .. m
      OBVIOUS
    <3> QED BY <2>2, <3>1
  <2>10. \A i \in 1 .. l : /\ g[i] \in KeptOf(names, m) /\ t[i] = names[g[i]]
                           /\ NamedIn(names, g[i] + 1, m) - UpIn(names, g[i] + 1, m) = l - i
    <3> HIDE DEF m
    <3> QED BY <2>4, <2>5, <2>6, <2>7, <2>8
  <2>11. \A i, j \in 1 .. l : i < j => g[i] < g[j]
    BY <2>4, <2>5 DEF Stays
  <2>12. \A k \in KeptOf(names, m) : \E i \in 1 .. l : g[i] = k
    <3> SUFFICES ASSUME NEW k \in KeptOf(names, m)
                 PROVE  \E i \in 1 .. l : g[i] = k
      OBVIOUS
    <3>1. k \in KeptOf(names, n)
      BY <1>3
    <3>2. PICK i \in 1 .. Len(e) : e[i] = k
      BY <3>1 DEF Stays
    <3>3. i \in 1 .. l
      BY <2>8, <3>2
    <3> QED BY <2>5, <3>2, <3>3
  <2> HIDE DEF m
  <2>13. Stays(names, m, t, g)
    BY <2>2, <2>3, <2>9, <2>10, <2>11, <2>12 DEF Stays
  <2> QED BY <2>1, <2>13 DEF t, m
<1> QED BY <1>4, <1>5

(* What NormalizePath leaves are the sections that stay, in their order.   *)
LEMMA NormalizedStays ==
    ASSUME NEW names \in Seq(Words)
    PROVE  \E e : Stays(names, Len(names), Normalized(names), e)
<1> DEFINE N == Len(names)
<1>1. PICK s : Normalizes(names, s) /\ Normalized(names) = s[N]
  BY NormalizedIs
<1>2. N \in Nat /\ \A i \in 1 .. N : names[i] \in Words
  OBVIOUS
<1> DEFINE I == {n \in Nat : n <= N => \E e : Stays(names, n, s[n], e)}
<1>3. 0 \in I
  <2>1. s[0] = <<>>
    BY <1>1 DEF Normalizes
  <2>2. KeptOf(names, 0) = {}
    BY DEF KeptOf
  <2>3. <<>> \in Seq(1 .. 0) /\ Len(<<>>) = 0
    OBVIOUS
  <2>4. Stays(names, 0, <<>>, <<>>)
    BY <2>2, <2>3 DEF Stays
  <2> QED BY <2>1, <2>4
<1>4. ASSUME NEW n \in I
      PROVE  n + 1 \in I
  <2> SUFFICES ASSUME n + 1 <= N
               PROVE  \E e : Stays(names, n + 1, s[n + 1], e)
    OBVIOUS
  <2> DEFINE x == names[n + 1]
  <2>1. n \in Nat /\ n <= N /\ n + 1 \in 1 .. N /\ n \in 0 .. N /\ (n + 1) - 1 = n
    BY <1>2
  <2>2. PICK e : Stays(names, n, s[n], e)
    BY <2>1
  <2>3. s[n] \in Seq(Words) /\ s[n + 1] = After(s[n], x) /\ x \in Words
    BY <1>1, <1>2, <2>1 DEF Normalizes
  <2> HIDE DEF I
  <2>4. CASE Naming(x)
    <3>1. After(s[n], x) = Append(s[n], x)
      BY <2>4 DEF After, Naming
    <3>2. Stays(names, n + 1, Append(s[n], x), Append(e, n + 1))
      BY <2>1, <2>2, <2>3, <2>4, StaysNamed
    <3> QED BY <2>3, <3>1, <3>2
  <2>5. CASE Upward(x)
    <3>1. After(s[n], x) = Left(s[n])
      BY <2>5 DEF After, Upward
    <3>2. \E f : Stays(names, n + 1, Left(s[n]), f)
      BY <2>1, <2>2, <2>3, <2>5, StaysLeft
    <3> QED BY <2>3, <3>1, <3>2
  <2>6. CASE ~Naming(x) /\ ~Upward(x)
    <3>1. After(s[n], x) = s[n]
      BY <2>6 DEF After, Naming, Upward
    <3>2. Stays(names, n + 1, s[n], e)
      BY <2>1, <2>2, <2>3, <2>6, StaysStill
    <3> QED BY <2>3, <3>1, <3>2
  <2> QED BY <2>4, <2>5, <2>6
<1>5. I = Nat
  <2> HIDE DEF I
  <2> QED BY <1>3, <1>4, AllNumbers DEF I
<1> HIDE DEF N
<1>6. N \in I
  <2> HIDE DEF I
  <2> QED BY <1>2, <1>5
<1>7. \E e : Stays(names, N, s[N], e)
  BY <1>2, <1>6
<1> QED BY <1>1, <1>7 DEF N

-----------------------------------------------------------------------------
(* What a path means.                                                      *)

(* The first m numbers of an increasing sequence are m numbers. *)
LEMMA Ranks ==
    ASSUME NEW e \in Seq(Nat), \A i, j \in 1 .. Len(e) : i < j => e[i] < e[j], NEW m \in 0 .. Len(e)
    PROVE  Cardinality({e[i] : i \in 1 .. m}) = m
<1> DEFINE F(l) == {e[i] : i \in 1 .. l}
           I == {l \in Nat : l <= Len(e) => IsFiniteSet(F(l)) /\ Cardinality(F(l)) = l}
<1>1. 0 \in I
  <2>1. F(0) = {}
    OBVIOUS
  <2> HIDE DEF F
  <2> QED BY <2>1, FS_EmptySet
<1>2. ASSUME NEW l \in I
      PROVE  l + 1 \in I
  <2> SUFFICES ASSUME l + 1 <= Len(e)
               PROVE  IsFiniteSet(F(l + 1)) /\ Cardinality(F(l + 1)) = l + 1
    OBVIOUS
  <2>1. /\ l \in Nat /\ l <= Len(e) /\ Len(e) \in Nat /\ l + 1 \in 1 .. Len(e)
        /\ \A i \in 1 .. l : i \in 1 .. Len(e) /\ i < l + 1
    OBVIOUS
  <2>2. IsFiniteSet(F(l)) /\ Cardinality(F(l)) = l
    BY <2>1
  <2>3. F(l + 1) = F(l) \union {e[l + 1]}
    <3>1. \A i \in 1 .. l + 1 : i \in 1 .. l \/ i = l + 1
      BY <2>1
    <3>2. \A i \in 1 .. l : i \in 1 .. l + 1
      BY <2>1
    <3>3. l + 1 \in 1 .. l + 1
      BY <2>1
    <3> QED BY <3>1, <3>2, <3>3
  <2>4. e[l + 1] \notin F(l)
    <3>1. \A i \in 1 .. l : e[i] < e[l + 1] /\ e[i] \in Nat /\ e[l + 1] \in Nat
      BY <2>1
    <3> QED BY <3>1
  <2> HIDE DEF F, I
  <2> DEFINE A == F(l)
             x == e[l + 1]
  <2>5. IsFiniteSet(A) /\ Cardinality(A) = l /\ x \notin A /\ F(l + 1) = A \union {x}
    BY <2>2, <2>3, <2>4
  <2> HIDE DEF A, x
  <2>6. IsFiniteSet(A \union {x}) /\ Cardinality(A \union {x}) = Cardinality(A) + 1
    BY <2>5, FS_AddElement
  <2> QED BY <2>5, <2>6
<1>3. I = Nat
  <2> HIDE DEF I
  <2> QED BY <1>1, <1>2, AllNumbers DEF I
<1>4. m \in I /\ m <= Len(e)
  <2> HIDE DEF I
  <2> QED BY <1>3
<1> QED BY <1>4

\* The number in a set that i - 1 others are less than.
Ranked(kept, i) == CHOOSE k \in kept : Cardinality({j \in kept : j < k}) = i - 1

(* The i-th number of an increasing sequence is the one that i - 1 others  *)
(* are less than.                                                          *)
LEMMA RankedIs ==
    ASSUME NEW e \in Seq(Nat), \A i, j \in 1 .. Len(e) : i < j => e[i] < e[j],
           NEW kept, kept = {e[i] : i \in 1 .. Len(e)}
    PROVE  /\ Cardinality(kept) = Len(e)
           /\ \A i \in 1 .. Len(e) : Ranked(kept, i) = e[i]
<1>1. Len(e) \in Nat /\ Len(e) \in 0 .. Len(e) /\ \A i \in 1 .. Len(e) : e[i] \in Nat
  OBVIOUS
<1>2. Cardinality(kept) = Len(e)
  BY <1>1, Ranks
<1>3. ASSUME NEW i \in 1 .. Len(e)
      PROVE  Cardinality({j \in kept : j < e[i]}) = i - 1
  <2> DEFINE m == i - 1
  <2>1. m \in 0 .. Len(e) /\ \A l \in 1 .. Len(e) : l \in 1 .. m <=> l < i
    BY <1>1
  <2>2. \A l \in 1 .. Len(e) : e[l] < e[i] <=> l < i
    <3> TAKE l \in 1 .. Len(e)
    <3>1. l < i \/ l = i \/ i < l
      OBVIOUS
    <3>2. l < i => e[l] < e[i]
      OBVIOUS
    <3>3. i < l => e[i] < e[l] /\ ~ (e[l] < e[i])
      BY <1>1
    <3>4. l = i => ~ (e[l] < e[i])
      BY <1>1
    <3> QED BY <3>1, <3>2, <3>3, <3>4
  <2>3. \A l \in 1 .. m : l \in 1 .. Len(e)
    BY <1>1
  <2> HIDE DEF m
  <2>4. {j \in kept : j < e[i]} = {e[l] : l \in 1 .. m}
    BY <2>1, <2>2, <2>3
  <2>5. Cardinality({e[l] : l \in 1 .. m}) = m
    BY <2>1, Ranks
  <2> QED BY <2>4, <2>5 DEF m
<1>4. ASSUME NEW i \in 1 .. Len(e)
      PROVE  Ranked(kept, i) = e[i]
  <2> DEFINE good(k) == k \in kept /\ Cardinality({j \in kept : j < k}) = i - 1
  <2>1. good(e[i])
    BY <1>3
  <2>2. ASSUME NEW k, good(k)
        PROVE  k = e[i]
    <3>1. PICK l \in 1 .. Len(e) : e[l] = k
      BY <2>2
    <3>2. l - 1 = i - 1
      BY <1>3, <2>2, <3>1
    <3> QED BY <3>1, <3>2
  <2>3. Ranked(kept, i) = CHOOSE k : good(k)
    BY DEF Ranked
  <2> HIDE DEF good
  <2> QED BY <2>1, <2>2, <2>3
<1> QED BY <1>2, <1>4

\* The sections that stay, in their order.
KeptRow(names, kept) ==
    [i \in 1 .. Cardinality(kept) |-> names[Ranked(kept, i)]]

(* NormalizePath leaves the sections that stay.                            *)
LEMMA NormalizedIsKept ==
    ASSUME NEW names \in Seq(Words)
    PROVE  Normalized(names) = KeptRow(names, Kept(names))
<1> DEFINE N == Len(names)
           s == Normalized(names)
           kept == Kept(names)
<1>1. kept = KeptOf(names, N)
  <2> DEFINE named(i, j) == Cardinality({k \in i .. j : names[k] \notin {"", ".", ".."}})
             up(i, j) == Cardinality({k \in i .. j : names[k] = ".."})
  <2>1. kept = {i \in DOMAIN names : /\ names[i] \notin {"", ".", ".."}
                                     /\ \A j \in i + 1 .. Len(names) : up(i + 1, j) <= named(i + 1, j)}
    BY DEF Kept
  <2>2. \A i, j : NamedIn(names, i, j) = named(i, j) /\ UpIn(names, i, j) = up(i, j)
    BY DEF NamedIn, UpIn, Naming, Upward
  <2>3. DOMAIN names = 1 .. N
    OBVIOUS
  <2> HIDE DEF named, up, kept
  <2>4. \A i : names[i] \notin {"", ".", ".."} <=> Naming(names[i])
    BY DEF Naming
  <2>5. kept = {i \in 1 .. N : /\ Naming(names[i])
                               /\ \A j \in i + 1 .. N : up(i + 1, j) <= named(i + 1, j)}
    <3>1. N = Len(names)
      OBVIOUS
    <3> HIDE DEF N
    <3> QED BY <2>1, <2>3, <2>4, <3>1
  <2>6. KeptOf(names, N) = {i \in 1 .. N : /\ Naming(names[i])
                                          /\ \A j \in i + 1 .. N : up(i + 1, j) <= named(i + 1, j)}
    <3> HIDE DEF N
    <3> QED BY <2>2 DEF KeptOf
  <2> QED BY <2>5, <2>6
<1>2. PICK e : Stays(names, N, s, e)
  BY NormalizedStays
<1>3. s \in Seq(Words) /\ N \in Nat
  BY NormalizedTyped
<1> HIDE DEF N, s, kept
<1>4. e \in Seq(Nat) /\ Len(e) \in Nat /\ Len(s) = Len(e)
  <2>1. e \in Seq(1 .. N) /\ Len(s) = Len(e)
    BY <1>2 DEF Stays
  <2>2. \A i \in 1 .. Len(e) : e[i] \in Nat
    <3>1. \A i \in 1 .. Len(e) : e[i] \in 1 .. N
      <4> DEFINE S == 1 .. N
      <4>1. e \in Seq(S)
        BY <2>1
      <4> HIDE DEF S
      <4>2. \A i \in 1 .. Len(e) : e[i] \in S
        BY <4>1
      <4> QED BY <4>2 DEF S
    <3> QED BY <1>3, <3>1
  <2> QED BY <2>1, <2>2
<1>5. \A i, j \in 1 .. Len(e) : i < j => e[i] < e[j]
  BY <1>2 DEF Stays
<1>6. kept = {e[i] : i \in 1 .. Len(e)}
  BY <1>1, <1>2 DEF Stays
<1>7. /\ Cardinality(kept) = Len(e)
      /\ \A i \in 1 .. Len(e) : Ranked(kept, i) = e[i]
  BY <1>4, <1>5, <1>6, RankedIs
<1>8. KeptRow(names, kept) = [i \in 1 .. Len(e) |-> names[e[i]]]
  BY <1>7 DEF KeptRow
<1>9. \A i \in 1 .. Len(e) : s[i] = names[e[i]]
  BY <1>2 DEF Stays
<1>10. s = [i \in 1 .. Len(e) |-> s[i]]
  BY <1>3, <1>4
<1>11. s = [i \in 1 .. Len(e) |-> names[e[i]]]
  BY <1>9, <1>10
<1> QED BY <1>8, <1>11 DEF s, kept

\* The links that VirtualFileSystemManager::Init makes.
KernelLinks == <<<<<<"dev", "null">>, <<"dev", "Zero">>>>, <<<<"dev", "zero">>, <<"dev", "Zero">>>>>>

\* No section that is used is taken for the last one of a link's source.
NoneMistaken == \A x \in Words : <<x, "zero">> \notin Mistaken /\ <<x, "null">> \notin Mistaken

(* One thing and another. *)
LEMMA OneAndOne ==
    ASSUME NEW x, NEW y
    PROVE  <<y>> \o <<x>> = <<y, x>>
<1> DEFINE S == {x, y}
           s == <<y>>
           e == <<>>
           u == <<y, x>>
<1>1. x \in S /\ y \in S
  OBVIOUS
<1> HIDE DEF S
<1>2. /\ s \in Seq(S) /\ e \in Seq(S)
      /\ u \in Seq(S) /\ Len(u) = 2 /\ u[1] = y /\ u[2] = x
  BY <1>1
<1>3. s \o e = s /\ Append(e, x) = <<x>>
  OBVIOUS
<1> HIDE DEF u, e
<1>4. u = Append(<<y>>, x)
  BY <1>2, PairIs
<1>5. s \o Append(e, x) = Append(s \o e, x)
  <2> HIDE DEF s
  <2> QED BY <1>1, <1>2, JoinLonger
<1> QED BY <1>3, <1>4, <1>5 DEF s, u

(* The links at the start. *)
LEMMA LinksStart == VFSInit => links = KernelLinks
<1> DEFINE zero == <<"dev", "zero">>
           null == <<"dev", "null">>
           Zero == <<"dev", "Zero">>
<1> SUFFICES ASSUME VFSInit
             PROVE  links = KernelLinks
  OBVIOUS
<1>1. links = LinkAdded(LinkAdded(<<>>, zero, Zero), null, Zero)
  BY DEF VFSInit
<1>2. zero # null
  <2>1. zero[2] # null[2]
    OBVIOUS
  <2> QED BY <2>1
<1>3. KernelLinks = <<<<null, Zero>>, <<zero, Zero>>>>
  BY DEF KernelLinks
<1> HIDE DEF zero, null, Zero
<1>4. ASSUME NEW ls, NEW src, NEW dst, {i \in 1 .. Len(ls) : ls[i][1] = src} = {}
      PROVE  LinkAdded(ls, src, dst) = <<<<src, dst>>>> \o ls
  <2>1. SelectInSeq(ls, LAMBDA l : l[1] = src) = 0
    BY <1>4 DEF SelectInSeq
  <2> QED BY <2>1 DEF LinkAdded
<1>5. LinkAdded(<<>>, zero, Zero) = <<<<zero, Zero>>>>
  <2>1. {i \in 1 .. Len(<<>>) : <<>>[i][1] = zero} = {}
    OBVIOUS
  <2>2. LinkAdded(<<>>, zero, Zero) = <<<<zero, Zero>>>> \o <<>>
    BY <1>4, <2>1
  <2> DEFINE x == <<zero, Zero>>
  <2>3. <<x>> \o <<>> = <<x>>
    <3> HIDE DEF x
    <3> QED OBVIOUS
  <2> QED BY <2>2, <2>3
<1> DEFINE x == <<zero, Zero>>
           y == <<null, Zero>>
<1>6. {i \in 1 .. Len(<<x>>) : <<x>>[i][1] = null} = {}
  <2>1. x[1] # null
    BY <1>2
  <2> HIDE DEF x
  <2>2. Len(<<x>>) = 1 /\ <<x>>[1] = x
    OBVIOUS
  <2> QED BY <2>1, <2>2
<1>7. LinkAdded(<<x>>, null, Zero) = <<y>> \o <<x>>
  BY <1>4, <1>6
<1>8. <<y>> \o <<x>> = <<y, x>>
  <2> HIDE DEF x, y
  <2> QED BY OneAndOne
<1> QED BY <1>1, <1>3, <1>5, <1>7, <1>8

(* No step changes them. *)
LEMMA LinksStay == [VFSNext]_vfsVars => UNCHANGED links
BY DEF VFSNext, vfsVars, Irregular, Openat, OpenatCreate, Getdents, Mkdirat, Unlinkat, CloseHandle, Chdir

-----------------------------------------------------------------------------
(* The link that is followed.                                              *)

\* The path has these two sections first.
Starts(path, a, b) == Len(path) >= 2 /\ path[1] = a /\ path[2] = b

(* The beginning of a path of at least two sections. *)
LEMMA FirstTwo ==
    ASSUME NEW S, NEW path \in Seq(S), Len(path) >= 2
    PROVE  /\ SubSeq(path, 1, 1) \in Seq(S) /\ Len(SubSeq(path, 1, 1)) = 1
           /\ SubSeq(path, 1, 1)[1] = path[1]
           /\ SubSeq(path, 1, 2) \in Seq(S) /\ Len(SubSeq(path, 1, 2)) = 2
           /\ SubSeq(path, 1, 2)[1] = path[1] /\ SubSeq(path, 1, 2)[2] = path[2]
<1>1. Len(path) \in Nat
  OBVIOUS
<1>2. \A k \in 1 .. 2 : SubSeq(path, 1, k) \in Seq(S) /\ Len(SubSeq(path, 1, k)) = k
  BY <1>1
<1>3. \A k \in 1 .. 2 : \A i \in 1 .. k : SubSeq(path, 1, k)[i] = path[i]
  <2> TAKE k \in 1 .. 2
  <2> TAKE i \in 1 .. k
  <2>1. SubSeq(path, 1, k)[i] = path[1 + i - 1] /\ 1 + i - 1 = i
    BY <1>1
  <2> QED BY <2>1
<1>4. 1 \in 1 .. 2 /\ 2 \in 1 .. 2 /\ 1 \in 1 .. 1
  OBVIOUS
<1> QED BY <1>2, <1>3, <1>4

(* A path starts with a pair when it does with its two sections.           *)
LEMMA StartsIs ==
    ASSUME NEW S, NEW path \in Seq(S), NEW pair \in Seq(S), Len(pair) = 2
    PROVE  IsPrefix(pair, path) <=> Starts(path, pair[1], pair[2])
<1>1. CASE Len(path) >= 2
  <2> DEFINE s == SubSeq(path, 1, 2)
             t == SubSeq(pair, 1, 2)
  <2>1. /\ s \in Seq(S) /\ Len(s) = 2 /\ s[1] = path[1] /\ s[2] = path[2]
        /\ t \in Seq(S) /\ Len(t) = 2 /\ t[1] = pair[1] /\ t[2] = pair[2]
    <3>1. s \in Seq(S) /\ Len(s) = 2 /\ s[1] = path[1] /\ s[2] = path[2]
      BY <1>1, FirstTwo
    <3>2. t \in Seq(S) /\ Len(t) = 2 /\ t[1] = pair[1] /\ t[2] = pair[2]
      <4>1. Len(pair) >= 2
        OBVIOUS
      <4> QED BY <4>1, FirstTwo
    <3> QED BY <3>1, <3>2
  <2>2. IsPrefix(pair, path) <=> t = s
    BY <1>1 DEF IsPrefix
  <2> HIDE DEF s, t
  <2>3. t = s <=> (t[1] = s[1] /\ t[2] = s[2])
    <3>1. s = Append(<<s[1]>>, s[2]) /\ t = Append(<<t[1]>>, t[2])
      BY <2>1, PairIs
    <3> QED BY <3>1
  <2> QED BY <1>1, <2>1, <2>2, <2>3 DEF Starts
<1>2. CASE ~ (Len(path) >= 2)
  <2>1. ~ IsPrefix(pair, path)
    <3>1. Len(path) \in Nat /\ ~ (Len(pair) <= Len(path))
      BY <1>2
    <3> QED BY <3>1 DEF IsPrefix
  <2> QED BY <1>2, <2>1 DEF Starts
<1> QED BY <1>1, <1>2

(* MatchPrefix, for a pair whose second section no other is taken for.     *)
LEMMA MatchesIs ==
    ASSUME NEW S, NEW path \in Seq(S), NEW pair \in Seq(S), Len(pair) = 2,
           \A x \in S : <<x, pair[2]>> \notin Mistaken
    PROVE  Matches(path, pair) <=> Starts(path, pair[1], pair[2])
<1>1. CASE Len(path) >= 2
  <2> DEFINE s == SubSeq(path, 1, 1)
             t == SubSeq(pair, 1, 1)
  <2>1. /\ s \in Seq(S) /\ Len(s) = 1 /\ s[1] = path[1]
        /\ t \in Seq(S) /\ Len(t) = 1 /\ t[1] = pair[1]
    <3>1. s \in Seq(S) /\ Len(s) = 1 /\ s[1] = path[1]
      BY <1>1, FirstTwo
    <3>2. t \in Seq(S) /\ Len(t) = 1 /\ t[1] = pair[1]
      <4>1. Len(pair) >= 2
        OBVIOUS
      <4> QED BY <4>1, FirstTwo
    <3> QED BY <3>1, <3>2
  <2>2. path[2] \in S
    <3>1. \A i \in 1 .. Len(path) : path[i] \in S
      OBVIOUS
    <3>2. 2 \in 1 .. Len(path)
      BY <1>1
    <3> QED BY <3>1, <3>2
  <2>3. Matches(path, pair) <=> s = t /\ path[2] = pair[2]
    <3>1. <<path[2], pair[2]>> \notin Mistaken
      BY <2>2
    <3>2. 2 - 1 = 1
      OBVIOUS
    <3>3. Matches(path, pair) <=> /\ Len(path) >= 2
                                  /\ SubSeq(path, 1, 2 - 1) = SubSeq(pair, 1, 2 - 1)
                                  /\ path[2] = pair[2] \/ <<path[2], pair[2]>> \in Mistaken
      BY DEF Matches
    <3> QED BY <1>1, <3>1, <3>2, <3>3
  <2> HIDE DEF s, t
  <2>4. s = t <=> s[1] = t[1]
    <3>1. \A i \in 1 .. 1 : i = 1
      OBVIOUS
    <3>2. s[1] = t[1] => s = t
      BY <2>1, <3>1
    <3> QED BY <3>2
  <2> QED BY <1>1, <2>1, <2>3, <2>4 DEF Starts
<1>2. CASE ~ (Len(path) >= 2)
  BY <1>2 DEF Matches, Starts
<1> QED BY <1>1, <1>2

\* The path with a source of a link that it starts with replaced.
Relinked(path) ==
    LET hits == {l \in Range(links) : IsPrefix(l[1], path)}
    IN  IF hits = {} THEN path
        ELSE With(CHOOSE l \in hits : TRUE, LAMBDA l : l[2] \o SubSeq(path, Len(l[1]) + 1, Len(path)))

(* What a path means is what stays of it, with a link followed.            *)
LEMMA MeantIs ==
    ASSUME NEW names
    PROVE  Meant(names) = Relinked(KeptRow(names, Kept(names)))
<1> DEFINE row(kept) == [i \in 1 .. Cardinality(kept) |->
                            names[CHOOSE k \in kept : Cardinality({j \in kept : j < k}) = i - 1]]
           meant(kept) ==
               LET path == [i \in 1 .. Cardinality(kept) |->
                               names[CHOOSE k \in kept : Cardinality({j \in kept : j < k}) = i - 1]]
                   hits == {l \in Range(links) : IsPrefix(l[1], path)}
               IN  IF hits = {} THEN path
                   ELSE With(CHOOSE l \in hits : TRUE, LAMBDA l : l[2] \o SubSeq(path, Len(l[1]) + 1, Len(path)))
<1>1. Meant(names) = With(Kept(names), meant)
  BY DEF Meant
<1>2. With(Kept(names), meant) = meant(Kept(names))
  <2> HIDE DEF meant
  <2> QED BY DEF With
<1>3. meant(Kept(names)) = Relinked(row(Kept(names)))
  BY DEF Relinked
<1>4. row(Kept(names)) = KeptRow(names, Kept(names))
  BY DEF KeptRow, Ranked
<1> HIDE DEF meant, row
<1> QED BY <1>1, <1>2, <1>3, <1>4

(* GetSymbolLinkedPath follows the link that the path starts with, when    *)
(* the links are those of the kernel.                                      *)
LEMMA FollowedIs ==
    ASSUME links = KernelLinks, NoneMistaken, NEW path \in Seq(Words)
    PROVE  Followed(path) = Relinked(path)
<1> DEFINE null == <<"dev", "null">>
           zero == <<"dev", "zero">>
           Zero == <<"dev", "Zero">>
           first == <<null, Zero>>
           second == <<zero, Zero>>
           to(l) == l[2] \o SubSeq(path, Len(l[1]) + 1, Len(path))
           I == {i \in 1 .. Len(links) : Matches(path, links[i][1])}
           i == SelectInSeq(links, LAMBDA l : Matches(path, l[1]))
           follow(j) == IF j = 0 THEN path
                        ELSE links[j][2] \o SubSeq(path, Len(links[j][1]) + 1, Len(path))
           hits == {l \in Range(links) : IsPrefix(l[1], path)}
<1>1. /\ null \in Seq(Words) /\ zero \in Seq(Words) /\ Len(null) = 2 /\ Len(zero) = 2
      /\ null[1] = "dev" /\ null[2] = "null" /\ zero[1] = "dev" /\ zero[2] = "zero"
  BY KernelWords, ShortPaths
<1>2. "null" # "zero"
  OBVIOUS
<1>3. Matches(path, null) <=> IsPrefix(null, path)
  BY <1>1, MatchesIs, StartsIs DEF NoneMistaken
<1>4. Matches(path, zero) <=> IsPrefix(zero, path)
  BY <1>1, MatchesIs, StartsIs DEF NoneMistaken
<1>5. ~ (IsPrefix(null, path) /\ IsPrefix(zero, path))
  BY <1>1, <1>2, StartsIs DEF Starts
<1>6. i = IF I # {} THEN Min(I) ELSE 0
  BY DEF SelectInSeq
<1>7. Followed(path) = follow(i)
  <2>1. Followed(path) = With(i, follow)
    BY DEF Followed
  <2>2. With(i, follow) = follow(i)
    <3> HIDE DEF follow, i
    <3> QED BY DEF With
  <2> QED BY <2>1, <2>2
<1>8. Relinked(path) = IF hits = {} THEN path ELSE to(CHOOSE l \in hits : TRUE)
  <2>1. Relinked(path) = IF hits = {} THEN path ELSE With(CHOOSE l \in hits : TRUE, to)
    BY DEF Relinked
  <2>2. With(CHOOSE l \in hits : TRUE, to) = to(CHOOSE l \in hits : TRUE)
    <3> HIDE DEF to, hits
    <3> QED BY DEF With
  <2> QED BY <2>1, <2>2
<1>9. /\ Len(links) = 2 /\ DOMAIN links = 1 .. 2 /\ links[1] = first /\ links[2] = second
      /\ first[1] = null /\ second[1] = zero
  <2>1. links = <<first, second>>
    BY DEF KernelLinks
  <2>2. first[1] = null /\ second[1] = zero
    OBVIOUS
  <2> HIDE DEF first, second
  <2> QED BY <2>1, <2>2
<1>10. follow(0) = path /\ follow(1) = to(first) /\ follow(2) = to(second)
  BY <1>9
<1> HIDE DEF null, zero, Zero, i, follow, to
<1>11. /\ I = {j \in 1 .. 2 : (j = 1 /\ IsPrefix(null, path)) \/ (j = 2 /\ IsPrefix(zero, path))}
       /\ hits = {l \in {first, second} : (l = first /\ IsPrefix(null, path)) \/ (l = second /\ IsPrefix(zero, path))}
  <2>1. \A j \in 1 .. 2 : j = 1 \/ j = 2
    OBVIOUS
  <2>2. Range(links) = {first, second}
    <3>1. 1 \in 1 .. 2 /\ 2 \in 1 .. 2
      OBVIOUS
    <3> HIDE DEF first, second
    <3> QED BY <1>9, <2>1, <3>1 DEF Range
  <2>3. null # zero
    BY <1>1, <1>2
  <2>4. first # second
    BY <1>9, <2>3
  <2> HIDE DEF first, second
  <2>5. I = {j \in 1 .. 2 : (j = 1 /\ IsPrefix(null, path)) \/ (j = 2 /\ IsPrefix(zero, path))}
    <3>1. \A j \in 1 .. 2 : Matches(path, links[j][1]) <=>
              (j = 1 /\ IsPrefix(null, path)) \/ (j = 2 /\ IsPrefix(zero, path))
      BY <1>3, <1>4, <1>9, <2>1
    <3> QED BY <1>9, <3>1
  <2>6. hits = {l \in {first, second} : (l = first /\ IsPrefix(null, path)) \/ (l = second /\ IsPrefix(zero, path))}
    BY <1>9, <2>2, <2>4
  <2> QED BY <2>5, <2>6
<1> HIDE DEF first, second, I, hits
<1>12. CASE ~ IsPrefix(null, path) /\ ~ IsPrefix(zero, path)
  <2>1. I = {} /\ hits = {}
    BY <1>11, <1>12
  <2> QED BY <1>6, <1>7, <1>8, <1>10, <2>1
<1>13. CASE IsPrefix(null, path)
  <2>1. I = {1} /\ hits = {first}
    BY <1>5, <1>11, <1>13
  <2>2. Min(I) = 1
    BY <2>1 DEF Min
  <2> QED BY <1>6, <1>7, <1>8, <1>10, <2>1, <2>2
<1>14. CASE IsPrefix(zero, path)
  <2>1. I = {2} /\ hits = {second}
    BY <1>5, <1>11, <1>14
  <2>2. Min(I) = 2
    BY <2>1 DEF Min
  <2> QED BY <1>6, <1>7, <1>8, <1>10, <2>1, <2>2
<1> QED BY <1>12, <1>13, <1>14

(* In a sound state with the kernel's links a path finds what it means.    *)
LEMMA SoundFindsWhatIsMeant ==
    ASSUME VFSInv, links = KernelLinks, NoneMistaken
    PROVE  FindsWhatIsMeant
<1>1. ASSUME NEW in \in Inputs, NEW base \in Bases
      PROVE  With(Meant(Sections(in, base)), LAMBDA path :
                 With(PathOf(in, base), LAMBDA found : With(Find(tree, volume, found), LAMBDA at :
                     IF path \in Names THEN at.node # Null /\ GetPath(at.tree, at.node) = path
                     ELSE at.node = Null)))
  <2> DEFINE s == Sections(in, base)
             p == PathOf(in, base)
             right(path, at) == IF path \in Names THEN at.node # Null /\ GetPath(at.tree, at.node) = path
                                ELSE at.node = Null
  <2>1. in.names \in Seq(Words)
    BY InputTyped
  <2>2. s \in Seq(Words)
    BY <2>1, SectionsTyped
  <2>3. p = Followed(Normalized(s))
    BY DEF PathOf, With
  <2> HIDE DEF s
  <2>4. Normalized(s) \in Seq(Words) /\ Normalized(s) = KeptRow(s, Kept(s))
    BY <2>2, NormalizedTyped, NormalizedIsKept
  <2>5. Followed(Normalized(s)) = Relinked(Normalized(s))
    BY <2>4, FollowedIs
  <2>6. Meant(s) = Relinked(KeptRow(s, Kept(s)))
    BY MeantIs
  <2>7. Meant(s) = p
    BY <2>3, <2>4, <2>5, <2>6
  <2>8. p \in Seq(Words)
    BY <2>3, <2>4, FollowedTyped DEF VFSInv
  <2> HIDE DEF p
  <2>9. right(p, Find(tree, volume, p))
    <3>1. Agree(tree, volume)
      BY DEF VFSInv
    <3>2. Names = {GetPath(tree, n) : n \in DOMAIN tree} \union {VolumeRoot \o q : q \in DOMAIN volume}
      BY DEF Names, VolumeRoot
    <3> QED BY <2>8, <3>1, <3>2, FoundIsNamed
  <2> HIDE DEF right
  <2> DEFINE at(path, found) == With(Find(tree, volume, found), LAMBDA x : right(path, x))
             found(path) == With(p, LAMBDA q : at(path, q))
  <2>10. at(p, p) = right(p, Find(tree, volume, p))
    <3> DEFINE ok(x) == right(p, x)
               f == Find(tree, volume, p)
    <3>1. at(p, p) = With(f, ok)
      OBVIOUS
    <3> HIDE DEF ok, f, at
    <3>2. With(f, ok) = ok(f)
      BY DEF With
    <3> QED BY <3>1, <3>2 DEF ok, f
  <2>11. found(p) = at(p, p)
    <3> DEFINE ok(q) == at(p, q)
    <3>1. found(p) = With(p, ok)
      OBVIOUS
    <3> HIDE DEF ok, found, at
    <3>2. With(p, ok) = ok(p)
      BY DEF With
    <3> QED BY <3>1, <3>2 DEF ok
  <2>12. With(Meant(s), found) = found(Meant(s))
    <3> HIDE DEF found
    <3> QED BY DEF With
  <2>13. With(Meant(s), found)
    <3> HIDE DEF found, at
    <3> QED BY <2>7, <2>9, <2>10, <2>11, <2>12
  <2> QED BY <2>13 DEF right, p, s
<1> QED BY <1>1 DEF FindsWhatIsMeant

-----------------------------------------------------------------------------
(* The theorems about VFS.                                                 *)

\* In every reachable state of programs that keep to Orderly (no open file, nor
\* the root of the volume, is unlinked) the nodes are a tree whose lists of
\* children agree with its fathers, whatever was opened, made, unlinked and
\* closed.
THEOREM TreeStaysLinked == Orderly => (VFSSpec => []TreeLinked)
<1>1. VFSSpec => []VFSInv
  BY VFSStarts, VFSStepKeeps, PTL DEF VFSSpec
<1>2. VFSSpec => []TreeLinked
  BY <1>1, SoundIsLinked, PTL
<1> QED BY <1>2

\* With Orderly, a node is found at the path it gives in every reachable state,
\* so that two nodes never stand for one file.
THEOREM PathsAlwaysLeadBack == Orderly => (VFSSpec => []PathsLeadBack)
<1>1. VFSSpec => []VFSInv
  BY VFSStarts, VFSStepKeeps, PTL DEF VFSSpec
<1>2. VFSInv => PathsLeadBack
  BY PathLeadsBack DEF VFSInv, Agree, PathsLeadBack
<1>3. VFSSpec => []PathsLeadBack
  BY <1>1, <1>2, PTL
<1> QED BY <1>3

\* With Orderly, a node of the volume stands for a file or folder that the volume
\* holds in every reachable state.
THEOREM NodesAlwaysMatchVolume == Orderly => (VFSSpec => []NodesMatchVolume)
<1>1. VFSSpec => []VFSInv
  BY VFSStarts, VFSStepKeeps, PTL DEF VFSSpec
<1>2. VFSInv => NodesMatchVolume
  BY DEF VFSInv, Agree, NodesIn, Standing, NodesMatchVolume, With
<1>3. VFSSpec => []NodesMatchVolume
  BY <1>1, <1>2, PTL
<1> QED BY <1>3

\* In every reachable state openat finds, from the root, the working directory
\* and any directory, the file that the path means, when there is one and only
\* then: what NormalizePath and GetSymbolLinkedPath leave of a path is what its
\* sections mean.  The hypotheses are that programs keep to Orderly, and one
\* about MatchPrefix, which passes over the last character of a link's source:
\* no section that is used differs there, and there only, from zero or null.
THEOREM PathsFindWhatTheyMean == Orderly /\ NoneMistaken => (VFSSpec => []FindsWhatIsMeant)
<1> SUFFICES ASSUME NoneMistaken
             PROVE  VFSSpec => []FindsWhatIsMeant
  OBVIOUS
<1>1. VFSSpec => [](VFSInv /\ links = KernelLinks)
  <2>1. VFSInit => VFSInv /\ links = KernelLinks
    BY VFSStarts, LinksStart
  <2>2. VFSInv /\ links = KernelLinks /\ [VFSNext]_vfsVars => (VFSInv /\ links = KernelLinks)'
    BY VFSStepKeeps, LinksStay
  <2> QED BY <2>1, <2>2, PTL DEF VFSSpec
<1>2. VFSInv /\ links = KernelLinks => FindsWhatIsMeant
  BY SoundFindsWhatIsMeant
<1> QED BY <1>1, <1>2, PTL
=============================================================================
