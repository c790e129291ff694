-------------------------------- MODULE FAT32 --------------------------------
(***************************************************************************)
(* The FAT32 file system: allocation of clusters from the FSInfo hint, the *)
(* chains of the FAT, directories of long and short entries, reading and   *)
(* writing of files, and the file nodes that the file system manager keeps *)
(* for the paths it has looked up.  The volume is a row of slots of 32     *)
(* bytes, each a directory entry or a unit of file data.  A call runs      *)
(* without another process in between: the disk is polled.                 *)
(***************************************************************************)
EXTENDS Integers, Sequences, SequencesExt, FiniteSets, Evaluation

CONSTANTS
    SPC,            \* BPBSectorPerClus, sectors of a cluster
    EPS,            \* slots of a sector, 16 in the code
    LastCluster,    \* clusters are numbered from 2, the root's
    Paths,          \* paths used: sequences of names
    ShortNames,     \* names that need no long entries (IsShortContent), as
                    \* <<the first 8 letters before a dot, the letters behind
                    \* those (3 at most), the dot and what is behind it>>;
                    \* other names are sequences of parts of 13 letters
    Old, OldSize,   \* a file the volume is delivered with, and its units
    MaxSize,        \* bound: units of a file when it is written
    MaxWrite,       \* bound: units of one write
    Payloads,       \* bound: different contents that a write may carry
    Marked,         \* the units of a file in which contents are told apart
    Careful,        \* the discipline stated at Straight, Created and Write
    Dir, None

ASSUME FATAssumption ==
    /\ SPC \in Nat \ {0} /\ EPS \in Nat \ {0} /\ LastCluster \in Nat /\ LastCluster > 3
    /\ Paths \subseteq Seq(Seq(STRING))
    /\ \A p \in Paths : p # <<>> /\ (Len(p) > 1 => SubSeq(p, 1, Len(p) - 1) \in Paths)
    /\ Old \in Paths /\ Len(Old) = 1 /\ Old[1] \in ShortNames
    /\ OldSize \in 0 .. SPC * EPS /\ MaxSize \in Nat /\ MaxWrite \in Nat /\ Payloads \in Nat
    /\ Careful \in BOOLEAN

ASSUME NamesAssumption ==
    /\ {"", "~1"} \subseteq STRING      \* which the provers do not know
    /\ \A name \in ShortNames : Len(name) = 3 /\ (name[2] = "" \/ name[3] = "")
    /\ Old[1][2] = "" /\ Old[1][3] # "."

VARIABLES
    fat,        \* fat[c]: the entry of FAT1: Free, End, or the next cluster
    disk,       \* disk[x]: the slots of the data area
    hint,       \* the next free cluster, of FSInfo
    node,       \* node[p]: the FAT32FileNode in the tree of nodes, or None
    fault,      \* the volume was written outside its data area or FAT
    writes,     \* whether FAT32Device::Write writes.  The repository's reads
                \* the sector instead; both are checked.
    call        \* history, read by no call: the call made last, None at first

vars == <<fat, disk, hint, node, fault, writes, call>>

Root == 2
Clusters == Root .. LastCluster
Free == 0
End == LastCluster + 1      \* 0x0FFFFFFF, beyond every cluster
K == SPC * EPS
Slots == K * (LastCluster - 1)

ZeroSlot == [kind |-> "zero"]
\* Unit i of file p with payload v; the volume is delivered with payload 0.
Data(p, i, v) == [kind |-> "data", of |-> <<p, i, IF i \in Marked THEN v ELSE 0>>]
LongEntry(part) == [kind |-> "long", part |-> part]
ShortEntry(name, first, isDir, size) ==
    [kind |-> "short", name |-> name, first |-> first, dir |-> isDir, size |-> size]

-----------------------------------------------------------------------------
(* The operations work on D, the record of what is on the device.          *)

Device == [fat |-> fat, disk |-> disk, hint |-> hint, fault |-> fault]

Become(D) ==
    fat' = D.fat /\ disk' = D.disk /\ hint' = D.hint /\ fault' = D.fault

\* A Stored that never writes.
StoredNever(D, E) == D

\* FAT32Device::Write: E, what the device holds after it, or D as it was.
Stored(D, E) == IF writes THEN E ELSE D

\* GetLbaFromCluster, counted in slots, and WriteRawData of one slot.
SlotOf(c) == (c - 2) * K
Put(D, x, slot) == IF writes /\ x \notin 1 .. Slots THEN [D EXCEPT !.fault = TRUE]
                   ELSE Stored(D, [D EXCEPT !.disk[x] = slot])

\* One cluster more of a chain, if it goes on.
Longer(D, s) == IF s = <<>> \/ D.fat[Last(s)] \notin Clusters THEN s ELSE Append(s, D.fat[Last(s)])

\* The clusters from c on, following the FAT.
Chain(D, c) ==
    LET upTo[n \in 0 .. LastCluster] ==
            IF n = 0 THEN IF c \in Clusters THEN <<c>> ELSE <<>>
            ELSE With(upTo[n - 1], LAMBDA s : Longer(D, s))
    IN  upTo[LastCluster]

SetFATContent(D, c, next) == Stored(D, [D EXCEPT !.fat[c] = next])

\* A GetFreeClusterAndPlusOne that leaves the hint where it is.
AllocatedAgain(D) ==
    IF D.hint \notin Clusters THEN [D EXCEPT !.fault = TRUE]
    ELSE SetFATContent(D, D.hint, End)

\* GetFreeClusterAndPlusOne: the cluster D.hint, whatever the FAT says of it;
\* none is looked for and none comes back.
Allocated(D) ==
    IF D.hint \notin Clusters THEN [D EXCEPT !.fault = TRUE]
    ELSE Stored(D, [SetFATContent(D, D.hint, End) EXCEPT !.hint = @ + 1])

\* The cluster D.hint behind cluster c; what it holds stays.
Extended(D, c) ==
    LET A == Allocated(D)
    IN  IF A.fault THEN A ELSE SetFATContent(A, c, D.hint)

-----------------------------------------------------------------------------
(* Directories.                                                            *)

\* The slot of place i of what the clusters of a chain hold, beyond the data
\* area when the chain is shorter.
PlaceIn(chain, i) ==
    LET k == (i - 1) \div K + 1
    IN  IF k <= Len(chain) THEN SlotOf(chain[k]) + ((i - 1) % K) + 1 ELSE Slots + 1

Place(D, c, i) == PlaceIn(Chain(D, c), i)

\* What the clusters from c on hold, in the order it is read.
Stream(D, c) == With(Chain(D, c), LAMBDA chain :
    [i \in 1 .. K * Len(chain) |-> D.disk[PlaceIn(chain, i)]])

\* A MergeLongNameAndToUtf8 that keeps the last entry only.
MergedOne(longs) == <<longs[Len(longs)].part>>

\* MergeLongNameAndToUtf8: the long entries lie last part first; the offset of
\* every part but the first two is that of the second.
Merged(longs) ==
    IF Len(longs) = 1 THEN <<longs[1].part>> ELSE <<longs[Len(longs)].part, longs[1].part>>

\* The long entries right before entry i, which any other entry drops.
Longs(entries, i) ==
    LET k == CHOOSE k \in 0 .. i - 1 :
                 /\ \A j \in i - k .. i - 1 : entries[j].kind = "long"
                 /\ k = i - 1 \/ entries[i - k - 1].kind # "long"
    IN  SubSeq(entries, i - k, i - 1)

\* The name that LoadShortFileInfoFromBuffer makes of the 11 bytes of a short
\* entry; a directory's extension is passed over.
Loaded(e) == <<e.name[1], "", IF e.dir THEN "" ELSE e.name[2]>>

\* The name of the short entry i.
NameOf(entries, i) ==
    LET longs == Longs(entries, i)
    IN  IF longs = <<>> THEN Loaded(entries[i]) ELSE Merged(longs)

\* FindFileByNameFromCluster: the slot of the first entry of a name, or 0.  It
\* stops at the first zero slot.
FindName(D, c, name) == With(Stream(D, c), LAMBDA stream :
    LET hits == {i \in DOMAIN stream : /\ stream[i].kind = "short" /\ NameOf(stream, i) = name
                                      /\ \A j \in 1 .. i - 1 : stream[j].kind # "zero"}
    IN  IF hits = {} THEN 0 ELSE Place(D, c, Min(hits)))

\* What GetAllFileIn lists, each with its name and slot: deleted entries are
\* passed over, with the long ones before them still in hand.
Listed(D, c) ==
    LET stream == Stream(D, c)
        live == SelectSeq([i \in DOMAIN stream |-> i],
                          LAMBDA i : stream[i].kind \in {"long", "short"})
        entry == [j \in DOMAIN live |-> stream[live[j]]]
        shorts == SelectSeq([j \in DOMAIN live |-> j], LAMBDA j : entry[j].kind = "short")
    IN  [n \in DOMAIN shorts |-> [name |-> NameOf(entry, shorts[n]),
                                  at |-> Place(D, c, live[shorts[n]])]]

\* The GetAllFileIn that gives names.
NamesListed(D, c) == [i \in DOMAIN Listed(D, c) |-> Listed(D, c)[i].name]

NodeAt(D, x) == [first |-> D.disk[x].first, dir |-> D.disk[x].dir, size |-> D.disk[x].size, at |-> x]
RootNode == [first |-> Root, dir |-> TRUE, size |-> 0, at |-> 0]

\* The node of a name in the directory of node up.
Below(D, up, name) ==
    IF up = None \/ ~up.dir THEN None
    ELSE With(FindName(D, up.first, name), LAMBDA x : IF x = 0 THEN None ELSE NodeAt(D, x))

\* FindFileByPath: a new node for the path, or None.
FindPath(D, path) ==
    LET at[i \in 0 .. Len(path)] ==
            IF i = 0 THEN RootNode
            ELSE With(at[i - 1], LAMBDA up : Below(D, up, path[i]))
    IN  at[Len(path)]

\* The first free place of a directory, 0 for none.
FirstZero(D, c) == SelectInSeq(Stream(D, c), LAMBDA e : e.kind = "zero")

\* GetSectorOffsetFromlba of slot x: not the sector within its cluster, but the
\* number of the cluster.
SectorOffset(x) == x \div K

\* One round of AddContentToCluster.  The count that is to tell the end of the
\* cluster starts from SectorOffset and is not reset; where it says so, the next
\* cluster is taken, or made and written from there.
EntryAdded(st, e) ==
    LET P == Put(st.D, st.sector * EPS + st.offset + 1, e)
        full == st.offset + 1 = EPS
        count == IF full THEN st.count + 1 ELSE st.count
        next == [st EXCEPT !.D = P, !.offset = IF full THEN 0 ELSE @ + 1,
                           !.sector = IF full THEN @ + 1 ELSE @, !.count = count]
    IN  IF count # SPC \/ P.fault THEN next
        ELSE IF P.fat[st.cluster] \in Clusters
        THEN [next EXCEPT !.cluster = P.fat[st.cluster]]
        ELSE [next EXCEPT !.D = Extended(P, st.cluster), !.cluster = P.hint,
                          !.sector = (P.hint - 2) * SPC]

\* The entries are written from the first zero slot on, at the start of a new
\* cluster when there is none.
AddContent(D, c, entries) ==
    LET i == FirstZero(D, c)
        E == IF i = 0 THEN Extended(D, Last(Chain(D, c))) ELSE D
        x == IF i = 0 THEN SlotOf(D.hint) ELSE Place(D, c, i) - 1
        after[n \in 0 .. Len(entries)] ==
            IF n = 0 THEN [D |-> E, cluster |-> x \div K + 2, sector |-> x \div EPS,
                           offset |-> x % EPS, count |-> SectorOffset(x)]
            ELSE With(after[n - 1], LAMBDA st : EntryAdded(st, entries[n]))
    IN  IF E.fault THEN [D EXCEPT !.fault = TRUE] ELSE after[Len(entries)].D

\* Letters only, of one case on each side of the only dot, at most 8 before it
\* and 3 behind it.  Without a dot any number of letters will do; more than 11
\* overrun the buffer of GetShortName and are not used.
IsShortContent(name) == name \in ShortNames

\* GetShortName, with the first cluster that the caller writes into it: the 11
\* bytes have no room for letters behind the eighth, and nothing behind a dot
\* is as no dot.
GetShortName(name, first, isDir) ==
    <<ShortEntry(<<name[1], IF name[3] = "." THEN "" ELSE name[3]>>, first, isDir, 0)>>

\* GetLongName: the last part first, and a short entry behind, of six letters
\* and ~1.
GetLongName(name, first, isDir) ==
    Append([i \in 1 .. Len(name) |-> LongEntry(name[Len(name) + 1 - i])],
           ShortEntry(<<"~1", "">>, first, isDir, 0))

EntriesFor(name, first, isDir) ==
    IF IsShortContent(name) THEN GetShortName(name, first, isDir) ELSE GetLongName(name, first, isDir)

\* The path under which a file made as p is found: GetShortName does not keep
\* every name.
FoundAs(p, isDir) ==
    LET name == p[Len(p)]
    IN  IF IsShortContent(name)
        THEN [p EXCEPT ![Len(p)] = Loaded(GetShortName(name, Root, isDir)[1])] ELSE p
NameKept(p, isDir) == FoundAs(p, isDir) = p

\* What a read of the whole file of a node gives: fewer units when the chain is
\* shorter than the size.
Content(D, n) == With(Stream(D, n.first), LAMBDA stream :
    SubSeq(stream, 1, IF n.size < Len(stream) THEN n.size ELSE Len(stream)))

\* The clusters Write sees to for a file up to unit e: one more when e is the
\* last unit of a cluster.
ClustersFor(e) == e \div K + 1

\* Clusters added to a chain one by one.
Grown(D, first, clusters) ==
    LET after[n \in 0 .. clusters] ==
            IF n = 0 THEN D
            ELSE With(after[n - 1], LAMBDA F :
                     IF F.fault THEN F ELSE Extended(F, Last(Chain(F, first))))
    IN  after[clusters]

\* The units of a write, with the clusters it adds to the chain.  One that begins
\* behind the chain follows the end mark out of the device.
WriteUnits(D, p, first, pos, n, v) ==
    LET have == Len(Chain(D, first))
        more == IF pos \div K < have THEN ClustersFor(pos + n) - have ELSE 0
        after[j \in 0 .. n] ==
            IF j = 0 THEN Grown(D, first, IF more > 0 THEN more ELSE 0)
            ELSE With(after[j - 1], LAMBDA F : Put(F, Place(F, first, pos + j), Data(p, pos + j, v)))
    IN  after[n]

-----------------------------------------------------------------------------
Image == {<<Old, [i \in 1 .. OldSize |-> Data(Old, i, 0)]>>}

\* A volume with a root directory of one file.
Init ==
    /\ fat = [c \in Clusters |-> IF c \in {Root, Root + 1} THEN End ELSE Free]
    /\ disk = [x \in 1 .. Slots |->
                  IF x = 1 THEN ShortEntry(<<Old[1][1], Old[1][3]>>, Root + 1, FALSE, OldSize)
                  ELSE IF x \in K + 1 .. K + OldSize THEN Data(Old, x - K, 0) ELSE ZeroSlot]
    /\ hint = Root + 2
    /\ node = [p \in Paths |-> None]
    /\ fault = FALSE
    /\ writes \in BOOLEAN
    /\ call = None

\* Open, by FindRecursive: the nodes of the path that are not in the tree yet
\* are looked up and put there.
Open(p) ==
    /\ ~fault
    /\ node' = [q \in Paths |-> IF IsPrefix(q, p) /\ node[q] = None THEN FindPath(Device, q)
                                ELSE node[q]]
    /\ UNCHANGED <<fat, disk, hint, fault>>

\* The entries for a directory whose first cluster is c land one behind the
\* other, and the name can be put together again: what Careful asks of a creation.
Straight(D, c, entries) ==
    LET i == FirstZero(D, c)
        x == IF i = 0 THEN SlotOf(D.hint) ELSE Place(D, c, i) - 1
        n == Len(entries)
    IN  /\ n <= 3
        /\ (x % K) + n <= K
        /\ \A j \in 1 .. n - 1 : x \div K + ((x % EPS) + j) \div EPS # SPC

\* A cluster is taken and marked, then the entries are added to the directory.
\* With Careful, a name that is not kept does not become another path's.
Created(p, isDir) ==
    /\ ~fault /\ FindPath(Device, p) = None
    /\ Careful => NameKept(p, isDir) \/ FoundAs(p, isDir) \notin Paths
    /\ \E up \in {FindPath(Device, SubSeq(p, 1, Len(p) - 1))} :
           /\ up # None /\ up.dir
           /\ \E entries \in {EntriesFor(p[Len(p)], hint, isDir)}, A \in {Allocated(Device)} :
                  /\ Careful => Straight(A, up.first, entries)
                  /\ Become(IF A.fault THEN A ELSE AddContent(A, up.first, entries))
    /\ UNCHANGED node

CreateFile(p) == Created(p, FALSE)

\* The size field, which the code leaves as it is for a directory with a short
\* name, is never read.
CreateDirectory(p) == Created(p, TRUE)

\* FAT32FileNode::Write of n units of payload v at pos.  With Careful, a file of the
\* delivered volume that fills its last cluster is not written at its end.
Write(p, pos, n, v) ==
    /\ ~fault /\ node[p] # None
    /\ ~node[p].dir /\ pos <= node[p].size /\ pos + n <= MaxSize
    /\ Careful => pos \div K + 1 <= Len(Chain(Device, node[p].first))
    /\ \E D \in {WriteUnits(Device, p, node[p].first, pos, n, v)} :
           IF D.fault THEN Become([Device EXCEPT !.fault = TRUE]) /\ UNCHANGED node
           ELSE IF pos + n > node[p].size
           THEN /\ node' = [node EXCEPT ![p].size = pos + n]
                /\ Become(Put(D, node[p].at, [D.disk[node[p].at] EXCEPT !.size = pos + n]))
           ELSE Become(D) /\ UNCHANGED node

\* An Unlink that keeps the nodes of the tree.
ForgottenNone(p) == {}

\* The nodes deleted with that of p.
Forgotten(p) == {q \in Paths : IsPrefix(p, q)}

\* Unlink: the short entry is marked; its long entries, the clusters and what
\* is in a directory stay.  The node goes with those below it.
Delete(p) ==
    /\ ~fault
    /\ \E n \in {FindPath(Device, p)} :
           /\ n # None
           /\ Become(Put(Device, n.at, [Device.disk[n.at] EXCEPT !.kind = "deleted"]))
    /\ node' = [q \in Paths |-> IF q \in Forgotten(p) THEN None ELSE node[q]]

Next ==
    /\ \E p \in Paths :
           \/ Open(p) /\ call' = [op |-> "open", path |-> p]
           \/ Delete(p) /\ call' = [op |-> "delete", path |-> p]
           \/ CreateFile(p) /\ call' = [op |-> "create", path |-> p, dir |-> FALSE]
           \/ CreateDirectory(p) /\ call' = [op |-> "create", path |-> p, dir |-> TRUE]
           \/ \E pos \in 0 .. MaxSize, n \in 1 .. MaxWrite, v \in 1 .. Payloads :
                  /\ Write(p, pos, n, v)
                  /\ call' = [op |-> "write", path |-> p, pos |-> pos, n |-> n, v |-> v]
    /\ UNCHANGED writes

Spec == Init /\ [][Next]_vars

-----------------------------------------------------------------------------
Entries == {x \in 1 .. Slots : disk[x].kind \in {"short", "deleted"}}

Name == Seq(STRING)

Slot == {ZeroSlot}
        \union [kind : {"data"}, of : Paths \X Nat \X Nat]
        \union [kind : {"long"}, part : STRING]
        \union [kind : {"short", "deleted"}, name : Name, first : Clusters,
                dir : BOOLEAN, size : Nat]

DeviceType == [fat : [Clusters -> 0 .. End], disk : [1 .. Slots -> Slot],
               hint : Clusters \union {End}, fault : BOOLEAN]

Node == [first : Clusters, dir : BOOLEAN, size : Nat, at : 0 .. Slots]

ASSUME NoneAssumption == None \notin Node

\* The volume holds entries and data, also where entries were written over what
\* was there; the nodes of the tree are of clusters and slots of the volume.
TypeOK ==
    /\ Device \in DeviceType
    /\ node \in [Paths -> Node \union {None}]
    /\ writes \in BOOLEAN

\* No cluster belongs to two files or directories, deleted ones included, or
\* twice to one, and none that the hint is still to hand out belongs to any:
\* GetFreeClusterAndPlusOne, which does not look, never gives out one in use.
ChainsApart ==
    LET owned == [c \in {Root} \union {disk[x].first : x \in Entries} |-> Chain(Device, c)]
    IN  /\ \A x, y \in Entries : x # y => disk[x].first # disk[y].first
        /\ \A c \in hint .. LastCluster : fat[c] = Free
        /\ \A c \in DOMAIN owned : IsInjective(owned[c]) /\ Range(owned[c]) \subseteq Root .. hint - 1
        /\ \A c, d \in DOMAIN owned : c < d => Range(owned[c]) \cap Range(owned[d]) = {}

\* The node of a path in the tree has the cluster and the size of the entry that
\* a lookup of the path finds, after any writes through it, deletions and new
\* files of that name: a cached node is never stale, if the device writes.
NodesMatchDisk == ~fault /\ writes => \A p \in Paths : node[p] # None => node[p] = FindPath(Device, p)

\* Names that GetShortName makes of other names.
Shortened ==
    {FoundAs(r[1], r[2])[Len(r[1])] : r \in {q \in Paths \X BOOLEAN : ~NameKept(q[1], q[2])}}

\* Where no deleted entry left long entries behind, FindFileByNameFromCluster
\* finds the first entry that GetAllFileIn lists of a name, and only a name that
\* GetShortName makes of another is listed twice.
ListingMatchesLookup == ~fault => \A p \in Paths \union {<<>>} : \E n \in {FindPath(Device, p)} :
    (n # None /\ n.dir) => \E stream \in {Stream(Device, n.first)}, listed \in {Listed(Device, n.first)} :
        LET clean == \A i \in DOMAIN stream : i > 1 /\ stream[i].kind = "deleted" =>
                                              stream[i - 1].kind # "long"
            alike(i) == {j \in DOMAIN listed : listed[j].name = listed[i].name}
        IN  clean => \A i \in DOMAIN listed :
                /\ FindName(Device, n.first, listed[i].name) = listed[Min(alike(i))].at
                /\ alike(i) # {i} => listed[i].name \in Shortened

\* What lookups of the paths, and reads of the files, give on D.
FileOn(D, p) == With(FindPath(D, p), LAMBDA n :
    IF n = None THEN {} ELSE {<<p, IF n.dir THEN <<Dir>> ELSE Content(D, n)>>})
ShownOn(D) == UNION {FileOn(D, p) : p \in Paths}
Shown == UNION {ShownOn(D) : D \in {Device}}

Store == INSTANCE FileStore WITH store <- Shown, works <- writes, failed <- fault,
                                Unit <- Data

\* On a device that writes, the volume is a store of files: every call has on
\* what lookups and reads give just the effect its arguments ask for, in the
\* file it names and in no other; one that the volume has no cluster left for
\* has that effect or none.  On a device that does not write no call has any.
ImplementsFileStore == Store!Spec

\* States that differ in what is noted of the last call have the same future.
WithoutCall == <<fat, disk, hint, node, fault, writes>>
=============================================================================
