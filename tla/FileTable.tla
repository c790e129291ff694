------------------------------ MODULE FileTable ------------------------------
(***************************************************************************)
(* The descriptors of processes: file handles on a linked list, the array  *)
(* of the first few, and the reference counts of the nodes they name.      *)
(* System calls run with interrupts disabled, so each is one step.         *)
(***************************************************************************)
EXTENDS Integers, Sequences, SequencesExt, FiniteSetsExt

CONSTANTS
    Processes,      \* slots of processes
    MaxHandles,     \* bound: FileHandle objects alive at a time
    Direct,         \* length of Process::FileTable, 8 in the code
    MaxFD,          \* bound of descriptors a program asks for by number
    StdIO,          \* the node of the serial port
    TempNodes,      \* nodes of temporary files
    PipeNodes,      \* nodes of pipes
    VfsNodes,       \* nodes of a mounted file system
    Careful,        \* programs keep 0 open and unlink mounted files once closed
    Null

ASSUME FileTableAssumption ==
    /\ Direct \in Nat /\ Direct >= 3 /\ MaxFD \in Nat
    /\ MaxHandles \in Nat /\ Careful \in BOOLEAN
    /\ PipeNodes \intersect (TempNodes \union VfsNodes) = {}
    /\ StdIO \notin TempNodes \union PipeNodes \union VfsNodes
    /\ Null \notin Processes \X Nat \X Nat

VARIABLES
    handle,         \* the FileHandle objects
    table,          \* table[p]: Process::FileTable
    node,           \* the FileNode objects
    live,           \* the processes in existence
    fault           \* a null pointer was followed

vars == <<handle, table, node, live, fault>>

Nodes == {StdIO} \union TempNodes \union PipeNodes \union VfsNodes
Indices == 0 .. Direct - 1

\* A handle bound to process p with number fd; k tells apart those that share
\* a number, the older being the smaller.
Id(p, fd, k) == <<p, fd, k>>
ProcOf(h) == h[1]
FD(h) == h[2]

NoNode == [exists |-> FALSE, refs |-> 0, writers |-> 0, autoClose |-> FALSE]
FreshNode == [NoNode EXCEPT !.exists = TRUE]
FreshPipe == [FreshNode EXCEPT !.autoClose = TRUE]

\* Of a handle's flags only F_Write on a pipe is kept: the handle is a writer.
Handles == [file : Nodes, writer : BOOLEAN]
Plain(n) == [file |-> n, writer |-> FALSE]
Every(n) == [file |-> n, writer |-> n \in PipeNodes]

-----------------------------------------------------------------------------
(* The operations work on F, a record of all variables but live.           *)

Now == [handle |-> handle, table |-> table, node |-> node, fault |-> fault]

Become(F) == /\ handle' = F.handle
             /\ table' = F.table
             /\ node' = F.node
             /\ fault' = F.fault

\* The constructor of a handle with file and flag of w, and Dump.  A mapping of a
\* file has no handle: it calls Ref and Unref with none, which is left out, so
\* counts are those of the handles of a node that is not mapped.
Ref(F, w) ==
    LET x == [F.node[w.file] EXCEPT !.refs = @ + 1,
                                    !.writers = IF w.writer THEN @ + 1 ELSE @]
    IN  [F EXCEPT !.node[w.file] = x]

\* An Unref that does not look at the flags of the handle.
UnrefAnyWriter(F, w) ==
    LET x == [F.node[w.file] EXCEPT
                !.refs = @ - 1,
                !.writers = IF w.file \in PipeNodes THEN @ - 1 ELSE @]
    IN  [F EXCEPT !.node[w.file] = IF x.refs <= 0 /\ x.autoClose THEN NoNode ELSE x]

Unref(F, w) ==
    LET x == [F.node[w.file] EXCEPT !.refs = @ - 1,
                                    !.writers = IF w.writer THEN @ - 1 ELSE @]
    IN  [F EXCEPT !.node[w.file] = IF x.refs <= 0 /\ x.autoClose THEN NoNode ELSE x]

\* Link h behind a and before b, either of which may be null.
Link(F, h, a, b) ==
    [F EXCEPT !.handle = [x \in DOMAIN @ |->
         CASE x = h -> [@[x] EXCEPT !.pre = a, !.nxt = b]
           [] x = a -> [@[x] EXCEPT !.nxt = h]
           [] x = b -> [@[x] EXCEPT !.pre = h]
           [] OTHER -> @[x]]]

NxtInsert(F, p, h) == Link(F, h, p, F.handle[p].nxt)
PreInsert(F, p, h) == Link(F, h, F.handle[p].pre, p)

\* The handles without h, which is taken off its list.
Unlinked(F, h) ==
    [x \in DOMAIN F.handle \ {h} |->
       IF x = F.handle[h].pre THEN [F.handle[x] EXCEPT !.nxt = F.handle[h].nxt]
       ELSE IF x = F.handle[h].nxt THEN [F.handle[x] EXCEPT !.pre = F.handle[h].pre]
       ELSE F.handle[x]]

\* delete: the destructor calls Close.
Delete(F, h) ==
    [Unref(F, F.handle[h].is) EXCEPT
       !.handle = Unlinked(F, h),
       !.table[ProcOf(h)] = IF FD(h) \in Indices THEN [@ EXCEPT ![FD(h)] = Null]
                            ELSE @]

\* The handle that follows, where there is one.
Following(F, h) == IF h = Null THEN Null ELSE F.handle[h].nxt

\* The handles from h on, along nxt.
From(F, h) ==
    LET step[i \in Nat] == IF i = 0 THEN h ELSE Following(F, step[i - 1])
        len == CHOOSE n \in 0 .. Cardinality(DOMAIN F.handle) :
                  step[n] = Null /\ \A i \in 0 .. n - 1 : step[i] # Null
    IN  [i \in 1 .. len |-> step[i - 1]]

\* The walk of BindToProcess begins at 1 if it is open, else at 0.
Walk(F, p) ==
    From(F, IF F.table[p][1] # Null THEN F.table[p][1] ELSE F.table[p][0])

\* The new handle of process p with number fd, not on a list yet.
NewId(F, p, fd) ==
    Id(p, fd, CHOOSE k \in 1 .. Cardinality(DOMAIN F.handle) + 1 :
                /\ Id(p, fd, k) \notin DOMAIN F.handle
                /\ \A j \in 1 .. k - 1 : Id(p, fd, j) \in DOMAIN F.handle)

Placed(F, p, fd, w) ==
    LET h == NewId(F, p, fd)
        new == [is |-> w, pre |-> Null, nxt |-> Null]
    IN  [F EXCEPT !.handle = [x \in DOMAIN @ \union {h} |->
                                IF x = h THEN new ELSE @[x]],
                  !.table[p] = IF fd \in Indices THEN [@ EXCEPT ![fd] = h] ELSE @]

\* Descriptor 0 or 1, not on the list unless its neighbour is open.
BindLow(F, p, fd, w) ==
    LET placed == Placed(F, p, fd, w)
        h == NewId(F, p, fd)
    IN  CASE fd = 0 /\ F.table[p][1] # Null -> PreInsert(placed, F.table[p][1], h)
          [] fd = 1 /\ F.table[p][0] # Null -> NxtInsert(placed, F.table[p][0], h)
          [] OTHER -> placed

\* A BindAuto that goes to the end of the list.
BindLast(F, p, w) ==
    LET a == Last(Walk(F, p))
    IN  NxtInsert(Placed(F, p, FD(a) + 1, w), a, NewId(F, p, FD(a) + 1))

\* The first gap behind a handle of the walk.
BindAuto(F, p, w) ==
    LET walk == Walk(F, p)
        Gap(x) == LET y == F.handle[x].nxt IN y = Null \/ FD(y) > FD(x) + 1
        a == walk[SelectInSeq(walk, Gap)]
    IN  NxtInsert(Placed(F, p, FD(a) + 1, w), a, NewId(F, p, FD(a) + 1))

\* A number from 2 on, in its place on the list.
BindAt(F, p, fd, w) ==
    LET walk == Walk(F, p)
        a == walk[SelectLastInSeq(walk, LAMBDA x : FD(x) < fd)]
    IN  NxtInsert(Placed(F, p, fd, w), a, NewId(F, p, fd))

\* BindToProcess (fd = -1 asks for a free number) of a handle that refers to its
\* file already; when the number is taken (ERR_TargetExist) the handle is deleted.
Bind(F, p, fd, w) ==
    CASE fd \in {0, 1} -> BindLow(F, p, fd, w)
      [] fd = -1 /\ F.table[p][0] = Null -> BindLow(F, p, 0, w)
      [] fd = -1 /\ F.table[p][0] # Null -> BindAuto(F, p, w)
      [] fd > 1 /\ Walk(F, p) = <<>> -> [F EXCEPT !.fault = TRUE]
      [] fd > 1 /\ \E x \in Range(Walk(F, p)) : FD(x) = fd -> Unref(F, w)
      [] OTHER -> BindAt(F, p, fd, w)

Open(F, p, w, fd) == Bind(Ref(F, w), p, fd, w)

\* A DestroyFileTable that deletes the handles of the array only.
DestroyArray(F, p) ==
    FoldLeft(Delete, F, SelectSeq([i \in 1 .. Direct |-> F.table[p][i - 1]],
                                  LAMBDA h : h # Null))

\* A round of DestroyFileTable's loop: st is the table and where it stands.
DestroyRound(st) ==
    IF st.h = Null THEN st
    ELSE [F |-> Delete(st.F, st.h), h |-> Following(st.F, st.h)]

\* DestroyFileTable goes along the list from descriptor 0.
DestroyTable(F, p) ==
    LET after[k \in Nat] == IF k = 0 THEN [F |-> F, h |-> F.table[p][0]]
                            ELSE DestroyRound(after[k - 1])
    IN  after[Cardinality(DOMAIN F.handle)].F

\* InitFileTable: 0 to read from, 1 and 2 to write to the serial port.
InitTable(F, p) ==
    LET std == [fd \in 0 .. 2 |-> Id(p, fd, 1)]
        At(fd) == IF fd \in 0 .. 2 THEN std[fd] ELSE Null
    IN  [F EXCEPT
           !.handle = [h \in DOMAIN @ \union Range(std) |->
                         IF h \notin Range(std) THEN @[h]
                         ELSE [is |-> Plain(StdIO),
                               pre |-> At(FD(h) - 1), nxt |-> At(FD(h) + 1)]],
           !.table[p] = [i \in Indices |-> At(i)],
           !.node[StdIO].refs = @ + 3]

\* A round of CopyFileTable's loop dumps a handle into p, with its number.
CopyRound(st, p) ==
    IF st.h = Null THEN st
    ELSE LET G == Open(st.F, p, st.F.handle[st.h].is, FD(st.h))
         IN  [F |-> G, h |-> Following(G, st.h)]

\* CopyFileTable goes along the list of src from descriptor 0.  (What InitTable
\* gave the child is destroyed first.)
CopyTable(F, src, p) ==
    LET after[k \in Nat] == IF k = 0 THEN [F |-> F, h |-> F.table[src][0]]
                            ELSE CopyRound(after[k - 1], p)
    IN  after[Cardinality(DOMAIN F.handle)].F

\* GetFileHandleFromFD
Lookup(F, p, fd) ==
    IF fd \in Indices THEN F.table[p][fd]
    ELSE LET list == From(F, F.table[p][0])
             i == SelectInSeq(list, LAMBDA h : FD(h) = fd)
         IN  IF i = 0 THEN Null ELSE list[i]

-----------------------------------------------------------------------------
NoTables ==
    [handle |-> [h \in {} |-> Null],
     table |-> [p \in Processes |-> [i \in Indices |-> Null]],
     node |-> [n \in Nodes |-> IF n \in PipeNodes THEN NoNode ELSE FreshNode],
     fault |-> FALSE]

\* One process, with the table InitFileTable makes.
Init ==
    \E p \in Processes : \E F \in {InitTable(NoTables, p)} :
        /\ handle = F.handle /\ table = F.table
        /\ node = F.node /\ fault = F.fault
        /\ live = {p}

Live(p) == p \in live /\ ~ fault
Room(k) == Cardinality(DOMAIN handle) + k <= MaxHandles
FDs == 0 .. MaxFD
IsOpen(p, fd) == Lookup(Now, p, fd) # Null

\* The discipline of a careful program.
MayClose(p, fd) == Careful => fd # 0
MayReplace(p, fd) == Careful /\ fd = 0 => table[p][1] # Null

\* openat of what exists; a file unlinked while open can still be found.
OpenFile(p, n) ==
    /\ Live(p) /\ Room(1) /\ node[n].exists /\ n \notin PipeNodes
    /\ Become(Open(Now, p, Plain(n), -1))
    /\ UNCHANGED live

\* openat with O_CREAT.
CreateFile(p, n) ==
    /\ Live(p) /\ Room(1) /\ ~ node[n].exists /\ n \in TempNodes \union VfsNodes
    /\ Become(Open([Now EXCEPT !.node[n] = FreshNode], p, Plain(n), -1))
    /\ UNCHANGED live

Pipe(p, n) ==
    /\ Live(p) /\ Room(2) /\ ~ node[n].exists
    /\ LET made == [Now EXCEPT !.node[n] = FreshPipe]
           both == Ref(Ref(made, Plain(n)), Every(n))
       IN  Become(Bind(Bind(both, p, -1, Plain(n)), p, -1, Every(n)))
    /\ UNCHANGED live

Dup(p, fd) ==
    /\ Live(p) /\ Room(1) /\ IsOpen(p, fd)
    /\ Become(Open(Now, p, handle[Lookup(Now, p, fd)].is, -1))
    /\ UNCHANGED live

\* fcntl with 0x406: a handle with every permission.
DupAll(p, fd) ==
    /\ Live(p) /\ Room(1) /\ IsOpen(p, fd)
    /\ Become(Open(Now, p, Every(handle[Lookup(Now, p, fd)].is.file), -1))
    /\ UNCHANGED live

\* Dump, then delete what nfd names, then bind.  nfd is a number a descriptor may
\* have: with -1 the call binds the smallest free one, as Dup does, and with less
\* the walk of BindToProcess never ends.
Dup3ed(F, p, w, nfd) ==
    LET old == Lookup(F, p, nfd)
        dumped == Ref(F, w)
    IN  Bind(IF old = Null THEN dumped ELSE Delete(dumped, old), p, nfd, w)

Dup3(p, fd, nfd) ==
    /\ Live(p) /\ Room(1) /\ IsOpen(p, fd) /\ fd # nfd /\ MayReplace(p, nfd)
    /\ Become(Dup3ed(Now, p, handle[Lookup(Now, p, fd)].is, nfd))
    /\ UNCHANGED live

Close(p, fd) ==
    /\ Live(p) /\ IsOpen(p, fd) /\ MayClose(p, fd)
    /\ Become(Delete(Now, Lookup(Now, p, fd)))
    /\ UNCHANGED live

\* An Unlink that deletes at once.
UnlinkAtOnce(p, n) ==
    /\ Live(p) /\ n \in TempNodes /\ node[n].exists
    /\ node' = [node EXCEPT ![n] = NoNode]
    /\ UNCHANGED <<handle, table, live, fault>>

\* VFSM.Unlink of a temporary file.
UnlinkTemp(p, n) ==
    /\ Live(p) /\ n \in TempNodes /\ node[n].exists
    /\ node' = [node EXCEPT ![n] = IF @.refs # 0 THEN [@ EXCEPT !.autoClose = TRUE]
                                   ELSE NoNode]
    /\ UNCHANGED <<handle, table, live, fault>>

\* VFSM.Unlink of a file of a mounted file system deletes the node, open or not.
UnlinkMounted(p, n) ==
    /\ Live(p) /\ n \in VfsNodes /\ node[n].exists
    /\ Careful => node[n].refs = 0
    /\ node' = [node EXCEPT ![n] = NoNode]
    /\ UNCHANGED <<handle, table, live, fault>>

\* Clone: CopyOthers of a new process.
Fork(p, q) ==
    /\ Live(p) /\ q \notin live /\ Room(Len(From(Now, table[p][0])))
    /\ Become(CopyTable(Now, p, q))
    /\ live' = live \union {q}

\* A program loaded for exec, or started by the kernel, has a table of its own.
Start(q) ==
    /\ q \notin live /\ Room(3) /\ ~ fault
    /\ Become(InitTable(Now, q))
    /\ live' = live \union {q}

\* Process::Destroy, after an exit, a kill or a fault, none of which changes
\* the table; the array is cleared when the slot is used again.
Destroy(p) ==
    /\ Live(p)
    /\ LET F == DestroyTable(Now, p)
       IN  Become([F EXCEPT !.table[p] = [i \in Indices |-> Null]])
    /\ live' = live \ {p}

Next ==
    \E p \in Processes :
        \/ \E n \in Nodes : \/ OpenFile(p, n) \/ CreateFile(p, n)
                            \/ UnlinkTemp(p, n) \/ UnlinkMounted(p, n)
        \/ \E n \in PipeNodes : Pipe(p, n)
        \/ \E fd \in FDs : Dup(p, fd) \/ DupAll(p, fd) \/ Close(p, fd)
        \/ \E fd, nfd \in FDs : Dup3(p, fd, nfd)
        \/ \E q \in Processes : Fork(p, q)
        \/ Start(p) \/ Destroy(p)

Spec == Init /\ [][Next]_vars

-----------------------------------------------------------------------------
HandlesOf(p) == {h \in DOMAIN handle : ProcOf(h) = p}
NamersOf(n) == {h \in DOMAIN handle : handle[h].is.file = n}

TypeOK ==
    /\ \A h \in DOMAIN handle :
          /\ ProcOf(h) \in Processes /\ FD(h) \in Nat
          /\ handle[h] \in [is : Handles,
                            pre : DOMAIN handle \union {Null},
                            nxt : DOMAIN handle \union {Null}]
    /\ table \in [Processes -> [Indices -> DOMAIN handle \union {Null}]]
    /\ node \in [Nodes -> [exists : BOOLEAN, refs : Int, writers : Int,
                           autoClose : BOOLEAN]]
    /\ live \in SUBSET Processes
    /\ fault \in BOOLEAN

(* The counts of a node are what its handles say, after any closing order, *)
(* failing dup3 or destroyed process (FileNode::Ref, PipeFileNode::Ref).   *)
CountsExact ==
    \A n \in Nodes :
        /\ node[n].refs = Cardinality(NamersOf(n))
        /\ node[n].writers = IF n \in PipeNodes
                             THEN Cardinality({h \in NamersOf(n) :
                                                 handle[h].is.writer})
                             ELSE 0

(* No handle names a node that has been deleted, and a pipe or an unlinked *)
(* temporary file goes with its last handle (FileNode::Unref).             *)
NodeLivesWhileNamed ==
    \A n \in Nodes :
        /\ NamersOf(n) # {} => node[n].exists
        /\ node[n].exists /\ (n \in PipeNodes \/ node[n].autoClose)
             => NamersOf(n) # {}

(* The list from descriptor 0, the array and the numbers of the handles    *)
(* tell the same: every handle is on the list of its process, in order,    *)
(* and only a process that has not been destroyed has handles.             *)
ListAndArrayAgree ==
    \A p \in Processes :
        LET list == From(Now, table[p][0])
        IN  /\ Range(list) = HandlesOf(p)
            /\ \A i, j \in DOMAIN list : i < j => FD(list[i]) < FD(list[j])
            /\ \A h \in HandlesOf(p), fd \in Indices :
                  FD(h) = fd <=> table[p][fd] = h
            /\ p \notin live => list = <<>>

Numbers(p) == {FD(h) : h \in HandlesOf(p)}

OpenMap ==
    [p \in Processes |->
       [fd \in Numbers(p) |->
          handle[CHOOSE h \in HandlesOf(p) : FD(h) = fd].is.file]]

Promised == INSTANCE Descriptors WITH
                Std <- StdIO, StdFDs <- 0 .. 2,
                FDs <- 0 .. MaxFD + MaxHandles, open <- OpenMap

(* The descriptors keep what Descriptors promises: a number the kernel     *)
(* chooses is the smallest free one, dup3 replaces the one it is given and *)
(* no other, and neither a father's nor a child's step moves the other's   *)
(* (BindToProcess, CopyFileTable, DestroyFileTable).  A program that       *)
(* closes both 0 and 1 loses it: Careful rules that out.                   *)
ImplementsDescriptors == Promised!Spec
==============================================================================
