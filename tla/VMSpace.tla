------------------------------- MODULE VMSpace -------------------------------
(***************************************************************************)
(* Address spaces: lists of regions, the pages and page tables faulted in  *)
(* under them, brk, mmap, munmap, fork and threads that share a space.     *)
(* Addresses are page numbers.  System calls and page faults run with      *)
(* interrupts disabled, so each is one step.                               *)
(***************************************************************************)
EXTENDS Integers, Sequences, SequencesExt, FiniteSets

CONSTANTS
    Processes,          \* slots, which also name the spaces there can be
    Frames,             \* physical pages for user pages and page tables
    FirstPage,          \* no region is placed lower, page 4 in the code
    Bin, Stack, Kernel, \* where the program, its stack and the kernel lie
    MapHint, MapEnd,    \* the window of mmap, 0x60000000 and 0x70000000
    Callers,            \* bound: spaces in which brk, mmap and munmap are called
    MaxLen,             \* bound: pages asked for in one mmap
    MaxRegions,         \* bound: regions of a space when it maps one more
    MaxPages,           \* bound: pages of a space when it touches one more
    Careful,            \* the discipline stated below
    None

ASSUME VMAssumption ==
    /\ {Frames, FirstPage, Bin, Stack, Kernel, MapHint, MapEnd, MaxLen, MaxRegions, MaxPages} \subseteq Nat
    /\ 0 < FirstPage /\ FirstPage <= Bin /\ Bin < MapHint /\ MapHint < MapEnd
    /\ MapEnd <= Stack /\ Stack < Kernel /\ Careful \in BOOLEAN /\ Callers \subseteq Processes
    /\ IsFiniteSet(Processes) /\ None \notin Processes \union Nat

VARIABLES
    regions,    \* regions[s]: the list from VmrHead
    cache,      \* cache[s]: VmrCache, by the start of the region
    heap,       \* heap[s]: BreakPointLength, or None without a heap region
    page,       \* page[s]: the user pages present
    tables,     \* tables[s]: the page tables below the PDT
    free,       \* physical pages left
    running,    \* processes that have not exited
    spaces,     \* spaces that have not been destroyed
    VMS,        \* VMS[p]: the space of a process, or None
    Heap,       \* processes whose Heap points to the heap's region; others, as
                \* forked children and threads, have no heap
    SharedCount,
    fault       \* "none", or why the kernel stopped: kout[Fault], a failed
                \* assertion or undefined behaviour

memory == <<regions, cache, heap, page, tables, free>>
vars == <<memory, running, spaces, VMS, Heap, SharedCount, fault>>

Pages == 0 .. Kernel

\* A region; its class may differ from its flag VM_File in a forked child.
Region(kind, start, end) == [kind |-> kind, start |-> start, end |-> end]
Kinds == {"plain", "heap", "file", "fileCopy", "kernel"}
Faults == {"none", "memory", "overlap", "empty", "cast", "null", "freed"}
Within(v, r) == r.start <= v /\ v < r.end

-----------------------------------------------------------------------------
(* The operations work on S, the record of a space, with the pages left    *)
(* and the fault flag.                                                     *)

Space(s) == [list |-> regions[s], cache |-> cache[s], heap |-> heap[s],
             page |-> page[s], tables |-> tables[s], free |-> free, fault |-> fault]

Become(s, S) ==
    /\ regions' = [regions EXCEPT ![s] = S.list]
    /\ cache' = [cache EXCEPT ![s] = S.cache]
    /\ heap' = [heap EXCEPT ![s] = S.heap]
    /\ page' = [page EXCEPT ![s] = S.page]
    /\ tables' = [tables EXCEPT ![s] = S.tables]
    /\ free' = S.free
    /\ fault' = S.fault

\* Nothing that lives in physical pages.
NoSpace == [list |-> <<>>, cache |-> None, heap |-> None, page |-> {},
            tables |-> {}, free |-> free, fault |-> fault]

\* Whether VmrCache points to a region with page v.
Cached(S, v) == \E i \in DOMAIN S.list : S.list[i].start = S.cache /\ Within(v, S.list[i])

\* FindVMR: the start of the region of v, or None.
Find(S, v) ==
    LET i == SelectInSeq(S.list, LAMBDA r : v < r.end)
    IN  IF Cached(S, v) THEN S.cache
        ELSE IF i # 0 /\ Within(v, S.list[i]) THEN S.list[i].start ELSE None

Looked(S, v) == IF Find(S, v) = None THEN S ELSE [S EXCEPT !.cache = Find(S, v)]

\* InsertVMR; what overlaps stops the kernel.
Insert(S, r) ==
    LET i == SelectInSeq(S.list, LAMBDA x : r.start < x.end)
        cached == [S EXCEPT !.cache = r.start]
    IN  CASE i = 0 -> [cached EXCEPT !.list = Append(@, r)]
          [] i # 0 /\ r.end <= S.list[i].start -> [cached EXCEPT !.list = InsertAt(@, i, r)]
          [] OTHER -> [S EXCEPT !.fault = "overlap"]

\* A RemoveVMR that leaves the region in VmrCache.
RemovedKeepsCache(S, k) == [S EXCEPT !.list = RemoveAt(@, k)]

\* RemoveVMR of region k of the list; its pages stay mapped.
Removed(S, k) ==
    [S EXCEPT !.list = RemoveAt(@, k),
              !.cache = IF @ = S.list[k].start THEN None ELSE @]

Greater(a, b) == IF a > b THEN a ELSE b
Less(a, b) == IF a < b THEN a ELSE b

\* GetUsableVMR: the first gap that holds len pages between start and end; 0
\* for none.  Behind the last region, the kernel's, nothing is looked for.
Usable(S, start, end, len) ==
    LET n == Len(S.list)
        Gap(i) == IF i = 0 THEN <<Greater(FirstPage, start), Less(S.list[1].start, end)>>
                  ELSE <<Greater(S.list[i].end, start), Less(S.list[i + 1].start, end)>>
        fits == {i \in 0 .. n - 1 : Gap(i)[1] + len <= Gap(i)[2]}
    IN  IF start >= end \/ len = 0 \/ end - start < len \/ fits = {} THEN 0
        ELSE Gap(CHOOSE i \in fits : \A j \in fits : i <= j)[1]

\* The tables a page needs below the PDT, in the order they are made: of 512
\* entries in the code, here one of all pages over some of four.
TablesOf(v) == <<<<"top", 0>>, <<"low", v \div 4>>>>

\* SolvePageFault for a page in a region: the missing tables and the page are
\* allocated one after the other, as far as there are physical pages.
Missing(S, v) ==
    LET Absent(t) == IF t \in S.tables THEN <<>> ELSE <<t>>
    IN  Absent(TablesOf(v)[1]) \o Absent(TablesOf(v)[2])

FaultIn(S, v) ==
    LET missing == Missing(S, v)
        got == Less(S.free, Len(missing))
    IN  [S EXCEPT
           !.tables = @ \union Range(SubSeq(missing, 1, got)),
           !.page = IF S.free > Len(missing) THEN @ \union {v} ELSE @,
           !.free = Greater(@ - Len(missing) - 1, 0)]

\* A page the kernel writes for the user, faulted in when it is absent; a kernel
\* that runs out of memory there stops.
Written(S, v) ==
    LET T == IF v \in S.page THEN S ELSE FaultIn(Looked(S, v), v)
    IN  IF v \in T.page THEN T ELSE [T EXCEPT !.fault = "memory"]

\* What a space holds in physical pages: its PDT, tables and user pages.
Held(S) == IF S.list = <<>> THEN 0
           ELSE 1 + Cardinality(S.tables) + Cardinality(S.page)

-----------------------------------------------------------------------------
Init ==
    /\ regions = [s \in Processes |-> <<>>]
    /\ cache = [s \in Processes |-> None]
    /\ heap = [s \in Processes |-> None]
    /\ page = [s \in Processes |-> {}]
    /\ tables = [s \in Processes |-> {}]
    /\ free = Frames
    /\ running = {}
    /\ spaces = {}
    /\ VMS = [p \in Processes |-> None]
    /\ Heap = {}
    /\ SharedCount = [s \in Processes |-> 0]
    /\ fault = "none"

MayMap(s) == s \in Callers /\ Len(regions[s]) < MaxRegions

\* Some process runs in space s, and can be the one that makes a call there.
Live(s) == fault = "none" /\ \E p \in running : VMS[p] = s

\* SetVMS of a new process p, which then starts: Ref.
Uses(p, s) ==
    /\ VMS' = [VMS EXCEPT ![p] = s]
    /\ SharedCount' = [SharedCount EXCEPT ![s] = @ + 1]
    /\ running' = running \union {p}

\* Create: a PDT and the kernel's region, of its two.
Create(S) ==
    Insert([S EXCEPT !.free = Greater(@ - 1, 0)], Region("kernel", Kernel, Kernel + 1))

\* execve: Create, the segment, the stack, the heap behind the segment and a
\* page of strings at the first usable place; all but the heap are written.
Start(p, s) ==
    /\ fault = "none" /\ s \notin spaces /\ VMS[p] = None
    /\ LET B == Written(Insert(Create(Space(s)), Region("plain", Bin, Bin + 1)), Bin)
           T == Insert(B, Region("plain", Stack, Stack + 1))
           H == [Insert(T, Region("heap", Bin + 1, Bin + 2)) EXCEPT !.heap = 1]
           u == Usable(H, MapHint, MapEnd, 1)
       IN  Become(s, Written(Written(Insert(H, Region("plain", u, u + 1)), Stack), u))
    /\ Uses(p, s)
    /\ Heap' = Heap \union {p}
    /\ spaces' = spaces \union {s}

\* A fork that copies the whole of the parent's page table.
CopiedAll(S) == S.page

\* CopyMemory: the pages and tables copied are those a user region reaches.
Copied(S) ==
    {v \in S.page : \E i \in DOMAIN S.list :
        S.list[i].kind # "kernel" /\ Within(v, S.list[i])}

CopiedTables(S) ==
    {t \in S.tables : \E i \in DOMAIN S.list : \E v \in Pages :
        S.list[i].kind # "kernel" /\ Within(v, S.list[i]) /\ t \in Range(TablesOf(v))}

\* The region Init makes of a parent's region.
Inherited(r) == [r EXCEPT !.kind = CASE r.kind = "heap" -> "plain"
                                     [] r.kind = "file" -> "fileCopy"
                                     [] OTHER -> r.kind]

\* CreateFrom: the space t of the child p gets regions like those of s, with a
\* copy of each page in them, and no heap.
Fork(s, p, t) ==
    /\ Live(s) /\ t \notin spaces /\ VMS[p] = None
    /\ LET S == Space(s)
           need == 1 + Cardinality(CopiedTables(S)) + Cardinality(Copied(S))
           C == [S EXCEPT !.list = [i \in DOMAIN @ |-> Inherited(@[i])],
                          !.cache = Kernel, !.heap = None,
                          !.page = Copied(S),
                          !.tables = CopiedTables(S), !.free = @ - need]
       IN  IF \E i \in DOMAIN S.list : S.list[i].start = S.list[i].end
           THEN fault' = "empty" /\ UNCHANGED <<memory, running, spaces, VMS, SharedCount>>
           ELSE IF need > free
           THEN fault' = "memory" /\ UNCHANGED <<memory, running, spaces, VMS, SharedCount>>
           ELSE Become(t, C) /\ Uses(p, t) /\ spaces' = spaces \union {t}
    /\ UNCHANGED Heap

\* Clone with a stack: a thread in the space of its creator.
Thread(s, p) ==
    /\ Live(s) /\ VMS[p] = None
    /\ Uses(p, s)
    /\ UNCHANGED <<memory, spaces, Heap, fault>>

\* Exit leaves the space; the one who waits for the process destroys it.
Exit(p) ==
    /\ fault = "none" /\ p \in running
    /\ running' = running \ {p}
    /\ UNCHANGED <<memory, spaces, VMS, Heap, SharedCount, fault>>

\* A PageTable::Destroy that only finds the pages that lie in a region.
ReleasedMapped(S) == 1 + Cardinality(S.tables) + Cardinality(Copied(S))

\* PageTable::Destroy: everything under the PDT, and the PDT.
Released(S) == Held(S)

\* A TryDeleteSelf that does not ask for other users.
AnyUser(s) == TRUE

\* TryDeleteSelf after Unref: nobody else has the space.
LastUser(s) == SharedCount[s] = 1

\* Destroy of a process: Unref and TryDeleteSelf.  The space goes with its last
\* process: ClearVMR, which writes nothing back to files, then the tables.
Destroy(p) ==
    /\ fault = "none" /\ p \notin running /\ VMS[p] # None
    /\ \E s \in {VMS[p]} :
           /\ SharedCount' = [SharedCount EXCEPT ![s] = @ - 1]
           /\ IF LastUser(s)
              THEN /\ Become(s, [NoSpace EXCEPT !.free = @ + Released(Space(s))])
                   /\ spaces' = spaces \ {s}
              ELSE UNCHANGED <<memory, spaces, fault>>
    /\ VMS' = [VMS EXCEPT ![p] = None]
    /\ Heap' = Heap \ {p}
    /\ UNCHANGED running

-----------------------------------------------------------------------------
\* A Resize that does not look at the next region.
RoomAlways(S, k, end) == TRUE

\* Whether the heap, region k of the list, may end at a page.
RoomForHeap(S, k, end) == k = Len(S.list) \/ end <= S.list[k + 1].start

\* Resize: the break moves first and stays where it is when the heap is refused.
Resize(S, to) ==
    LET k == SelectInSeq(S.list, LAMBDA r : r.kind = "heap")
        start == S.list[k].start
        len == to - start
        Ends(end) == [S EXCEPT !.heap = Greater(len, 0), !.list[k].end = end]
    IN  IF len >= S.heap
        THEN IF to <= S.list[k].end \/ ~RoomForHeap(S, k, to)
             THEN [S EXCEPT !.heap = len]
             ELSE Ends(to)
        ELSE IF len < 0 THEN Ends(start + 1) ELSE Ends(to)

\* brk(pos) for a page; the heap is freed memory when munmap took it.  With
\* Careful, none after a refusal and none that leaves less than a page.
Brk(p, to) ==
    /\ fault = "none" /\ p \in running \intersect Heap /\ to # 0
    /\ \E s \in {VMS[p]} :
           /\ s \in Callers /\ heap[s] # None
           /\ Careful => \A r \in Range(regions[s]) : r.kind = "heap" =>
                             r.start < to /\ r.start + heap[s] <= r.end
           /\ Become(s, IF \E r \in Range(regions[s]) : r.kind = "heap" THEN Resize(Space(s), to)
                        ELSE [Space(s) EXCEPT !.fault = "freed"])
    /\ UNCHANGED <<running, spaces, VMS, Heap, SharedCount>>

\* The place mmap finds: the one asked for, or any when hint is 0; else 0.
Place(S, hint, len) ==
    LET u == Usable(S, IF hint = 0 THEN MapHint ELSE hint, MapEnd, len)
    IN  IF hint # 0 /\ u # hint THEN 0 ELSE u

MmapPlain(s, hint, len) ==
    /\ Live(s) /\ MayMap(s) /\ Place(Space(s), hint, len) # 0
    /\ \E u \in {Place(Space(s), hint, len)} :
           Become(s, Insert(Space(s), Region("plain", u, u + len)))
    /\ UNCHANGED <<running, spaces, VMS, Heap, SharedCount>>

\* A mapping of one page of a file is read in at once; when it is refused, the
\* node of the open file is deleted.
MmapFile(s, hint) ==
    /\ Live(s) /\ MayMap(s)
    /\ \E u \in {Place(Space(s), hint, 1)} :
           IF u = 0
           THEN /\ ~Careful
                /\ Become(s, [Space(s) EXCEPT !.fault = "freed"])
           ELSE Become(s, Written(Insert(Space(s), Region("file", u, u + 1)), u))
    /\ UNCHANGED <<running, spaces, VMS, Heap, SharedCount>>

\* mmap with MAP_FIXED: a region around the address that ends by the end of the
\* mapping is cut off there first, also when the mapping is then refused.
MmapFixed(s, at, len) ==
    /\ Live(s) /\ MayMap(s)
    /\ LET S == Looked(Space(s), at)
           in == SelectInSeq(S.list, LAMBDA r : Within(at, r))
           cut == in # 0 /\ S.list[in].end <= at + len
           T == IF cut THEN [S EXCEPT !.list[in].end = at] ELSE S
           u == Place(T, at, len)
       IN  /\ Careful => in # 0 /\ S.list[in].kind = "plain" /\ S.list[in].start < at
           /\ Become(s, IF cut /\ S.list[in].kind = "fileCopy" THEN [S EXCEPT !.fault = "cast"]
                        ELSE IF u = 0 THEN T
                        ELSE Insert(T, Region("plain", u, u + len)))
    /\ UNCHANGED <<running, spaces, VMS, Heap, SharedCount>>

\* munmap takes the whole region of an address, and saves that of a file first,
\* which the region a child inherited is not.  The pages stay mapped.
Munmap(s, at) ==
    /\ Live(s) /\ s \in Callers
    /\ \E S \in {Looked(Space(s), at)} : \E in \in {SelectInSeq(S.list, LAMBDA r : Within(at, r))} :
           /\ Careful => in # 0 /\ S.list[in].kind \in {"plain", "file"}
                                /\ S.list[in].start = at /\ MapHint <= at /\ at < MapEnd
           /\ Become(s, IF in = 0 THEN [S EXCEPT !.fault = "null"]
                        ELSE IF S.list[in].kind = "fileCopy" THEN [S EXCEPT !.fault = "cast"]
                        ELSE Removed(S, in))
    /\ UNCHANGED <<running, spaces, VMS, Heap, SharedCount>>

\* A user access to a page that is not present, SolvePageFault; a process it
\* fails for exits.  A present page is used whether or not a region has it.
Touch(p, v) ==
    /\ fault = "none" /\ p \in running
    /\ \E s \in {VMS[p]} :
           /\ v < Kernel /\ v \notin page[s] /\ Cardinality(page[s]) < MaxPages
           /\ \E S \in {Space(s)} : \E F \in {FaultIn(Looked(S, v), v)} :
                  IF Find(S, v) = None
                  THEN running' = running \ {p} /\ Become(s, S)
                  ELSE /\ Become(s, F)
                       /\ running' = IF v \in F.page THEN running ELSE running \ {p}
    /\ UNCHANGED <<spaces, VMS, Heap, SharedCount>>

Next ==
    \/ \E s, p \in Processes :
           Start(p, s) \/ Thread(s, p) \/ \E t \in Processes : Fork(s, p, t)
    \/ \E p \in Processes : Exit(p) \/ Destroy(p) \/ \E v \in Pages : Touch(p, v) \/ Brk(p, v)
    \/ \E s \in Processes, v \in Pages :
           \/ Munmap(s, v) \/ MmapFile(s, v)
           \/ \E len \in 1 .. MaxLen : MmapPlain(s, v, len) \/ MmapFixed(s, v, len)

Spec == Init /\ [][Next]_vars

-----------------------------------------------------------------------------
\* The spaces are lists of regions over physical pages, and the kernel does not
\* stop but for want of memory.
TypeOK ==
    /\ \A s \in Processes :
           /\ Range(regions[s]) \subseteq [kind : Kinds, start : Pages, end : Nat]
           /\ cache[s] \in Pages \union {None} /\ heap[s] \in 0 .. Kernel \union {None}
           /\ page[s] \subseteq Pages
           /\ (s \in spaces) = (regions[s] # <<>>)
    /\ free \in 0 .. Frames
    /\ running \subseteq Processes /\ spaces \subseteq Processes
    /\ VMS \in [Processes -> Processes \union {None}] /\ Heap \subseteq Processes
    /\ SharedCount \in [Processes -> 0 .. Cardinality(Processes)]
    /\ fault \in Faults /\ (Careful => fault \in {"none", "memory"})

\* The regions of a space lie in order and apart, whatever calls of brk, mmap,
\* munmap and fork built the list, so no address has two owners.
RegionsDisjoint == \A s \in Processes :
    \A i, j \in DOMAIN regions[s] : i < j => regions[s][i].end <= regions[s][j].start

\* VmrCache points to no freed region, and FindVMR, which trusts it, gives for
\* every address the region the list has there or that there is none, also
\* after regions moved, shrank or went.
CacheTellsTheList == \A s \in Processes : \A v \in Pages :
    /\ cache[s] \in {None} \union {r.start : r \in Range(regions[s])}
    /\ IF \E r \in Range(regions[s]) : Within(v, r)
       THEN \E r \in Range(regions[s]) : Within(v, r) /\ Find(Space(s), v) = r.start
       ELSE Find(Space(s), v) = None

\* The page tables, or the user pages, of all spaces.
OfAll(held) == UNION {{s} \X held[s] : s \in Processes}

\* Physical pages are neither lost nor used twice: those left, one PDT for each
\* space, the tables and the user pages add up, also when a page fault, which
\* adds tables one by one, or a fork ran out of memory, and after munmap left
\* pages mapped that no region has.
FramesAccounted ==
    \/ free + Cardinality(spaces) + Cardinality(OfAll(tables)) + Cardinality(OfAll(page)) = Frames
    \/ fault # "none"

\* Users of a space are counted right, so a space exists exactly as long as a
\* process has it: the page tables of a process that runs are never freed by the
\* end of a thread or of its creator, and none are left over.
SpaceOutlivesItsUsers ==
    /\ \A s \in Processes : LET users == {p \in Processes : VMS[p] = s}
                            IN  SharedCount[s] = Cardinality(users) /\ (s \in spaces) = (users # {})
    /\ \A p \in running : VMS[p] \in spaces

\* A forked child may use the addresses its parent may, has a copy of each page
\* the parent has there, and none of a page the parent unmapped.
ForkCopies == [][\A t \in spaces' \ spaces :
    cache'[t] = Kernel => \E s \in {VMS[p] : p \in running} :
        \A v \in 0 .. Kernel - 1 :
            LET mapped == \E r \in Range(regions[s]) : Within(v, r)
            IN  /\ mapped = (\E r \in Range(regions'[t]) : Within(v, r))
                /\ (v \in page'[t]) = (mapped /\ v \in page[s])]_vars
=============================================================================
