------------------------------- MODULE Zone -------------------------------
(***************************************************************************)
(* The buddy allocator of physical pages (Kernel/Memory/PhysicalMemory.cpp *)
(* Zone): a complete binary tree of Page records, node 1 the root, nodes   *)
(* 2 i and 2 i + 1 the sons of i, and one list of free blocks per order.   *)
(* AllocPage and FreePage run with interrupts off, each in one step.       *)
(*                                                                         *)
(* A node stands for its Page; its address is the number of its first      *)
(* page, counted from free_memory_start_addr.  The tree has more leaves    *)
(* than there are pages (Zone::Init takes height from the memory before    *)
(* the tree itself is cut off), so the root is never a free block.         *)
(***************************************************************************)
EXTENDS PowersOfTwo, Sequences, SequencesExt, FiniteSets, FiniteSetsExt

CONSTANTS
    max_order,      \* order of the root
    valid_page_num, \* pages that exist
    Requests        \* the numbers of pages asked for

ASSUME ZoneAssumption ==
    /\ max_order \in Nat \ {0}
    /\ valid_page_num \in 1 .. Pow2[max_order] - 1
    /\ Requests \subseteq 0 .. Pow2[max_order]

VARIABLES
    flags,          \* Page::flags of each node
    free_area,      \* for each order the list of free nodes, head first
    free_page_num,
    held,           \* the nodes the callers of AllocPage hold
    refused         \* the order the last AllocPage returned nullptr for, or -1

vars == <<flags, free_area, free_page_num, held, refused>>

Unusable == -1
Free == 0
Used == 1
Divided == 2

Node == 1 .. Pow2[max_order + 1] - 1
Order == 0 .. max_order

order == [i \in Node |-> max_order - Log2(i)]

\* The pages below node i; with the first one's address as the node's.
FirstPage == [i \in Node |-> i * Pow2[order[i]] - Pow2[max_order]]
Pages == [i \in Node |-> FirstPage[i] .. FirstPage[i] + Pow2[order[i]] - 1]

GetPartner(i) == IF i % 2 = 1 THEN i - 1 ELSE i + 1
GetParent(i) == i \div 2

\* The node k levels above node i.
Above(i, k) == i \div Pow2[k]

ValidPages == 0 .. valid_page_num - 1

-----------------------------------------------------------------------------
\* InitTree, then BuildTree: every node below which all pages exist is free.
BuiltFlags ==
    [i \in Node |-> IF Pages[i] \subseteq ValidPages THEN Free ELSE Unusable]

\* The range InitArea is called with at node i.  It is cut in halves from
\* 1 .. valid_page_num, not from the leaves of the tree.
AreaRange[i \in Node] ==
    IF i = 1 THEN <<1, valid_page_num>>
    ELSE LET above == AreaRange[GetParent(i)]
             mid == (above[1] + above[2]) \div 2
         IN IF i % 2 = 0 THEN <<above[1], mid>> ELSE <<mid + 1, above[2]>>

\* InitArea goes below a node only if it is not free and its range not one page.
Visited(i) ==
    \A k \in 1 .. Log2(i) :
        /\ BuiltFlags[Above(i, k)] # Free
        /\ AreaRange[Above(i, k)][1] # AreaRange[Above(i, k)][2]

\* InitArea overwrites the head of the list; its visits go from left to right.
ListedAtInit(o) ==
    {i \in Node : order[i] = o /\ Visited(i) /\ BuiltFlags[i] = Free}

InitFreeArea ==
    [o \in Order |-> IF ListedAtInit(o) = {} THEN <<>>
                     ELSE <<Max(ListedAtInit(o))>>]

Init ==
    /\ flags = BuiltFlags
    /\ free_area = InitFreeArea
    /\ free_page_num = valid_page_num
    /\ held = {}
    /\ refused = -1

-----------------------------------------------------------------------------
\* The order of a request that is not rounded up.
OrderBelow(n) == Log2(n)

\* The order that serves a request of n pages; a request for none gets two.
OrderFor(n) == IF Pow2[Log2(n)] = n THEN Log2(n) ELSE Log2(n) + 1

\* A search that does not go on to larger blocks.
SourceExact(o) == {c \in Order : c = o /\ free_area[c] # <<>>}

\* The orders with a free block that serves order o; the smallest is used.
Source(o) == {c \in Order : c >= o /\ free_area[c] # <<>>}

\* Split takes the head of a list and puts its right son before its left son
\* on the list below, so the next node split, and in the end the node handed
\* out, is the rightmost one of its order below b.
Rightmost(b, o) == (b + 1) * Pow2[order[b] - o] - 1

\* The nodes that are split on the way from b down to p, b first.
SplitNodes(b, p) == {Rightmost(b, c) : c \in order[p] + 1 .. order[b]}

\* The flags once b has been split down to p and p is used.
FlagsSplit(b, p) ==
    LET split == SplitNodes(b, p)
    IN  [i \in Node |-> IF i = p THEN Used ELSE IF i \in split THEN Divided ELSE flags[i]]

AllocPage(n) ==
    IF Source(OrderFor(n)) = {}
    THEN /\ refused' = OrderFor(n)
         /\ UNCHANGED <<flags, free_area, free_page_num, held>>
    ELSE LET o == OrderFor(n)
             b == Head(free_area[Min(Source(o))])
             p == Rightmost(b, o)
         IN /\ flags' = FlagsSplit(b, p)
            /\ free_area' =
                  [c \in Order |->
                     IF c = order[b] THEN Tail(free_area[c])
                     ELSE IF c \in o .. order[b] - 1
                          THEN <<GetPartner(Rightmost(b, c))>> \o free_area[c]
                     ELSE free_area[c]]
            /\ free_page_num' = free_page_num - Pow2[o]
            /\ held' = held \union {p}
            /\ refused' = -1

\* A FreePage without Merge.
NotMerged(p) == p

\* The node Merge ends with: the first one, from p up, whose partner is not free.
\* There is one below the root, as not all pages below the root exist.
Merge(p) ==
    LET Stays(k) == flags[GetPartner(Above(p, k))] # Free
    IN  Above(p, CHOOSE k \in 0 .. max_order - order[p] - 1 :
                     Stays(k) /\ \A j \in 0 .. k - 1 : ~ Stays(j))

\* p and the nodes above it up to and including top.
UpTo(p, top) == {Above(p, k) : k \in 0 .. order[top] - order[p]}

\* A Dismantle that leaves the node on its list.
LeftLinked(list, i) == list

\* The list without node i.
Dismantle(list, i) == RemoveAt(list, CHOOSE k \in DOMAIN list : list[k] = i)

\* FreePage, with the Merge at its end: the partners met on the way leave
\* their lists and the last node merged becomes the head of its own.
FreePage(p) ==
    LET top == Merge(p)
        merged == UpTo(p, top)
    IN /\ flags' = [i \in Node |-> IF i \in merged THEN Free ELSE flags[i]]
       /\ free_area' =
             [c \in Order |->
                IF c = order[top] THEN <<top>> \o free_area[c]
                ELSE IF c \in order[p] .. order[top] - 1
                     THEN Dismantle(free_area[c], GetPartner(Above(p, c - order[p])))
                ELSE free_area[c]]
       /\ free_page_num' = free_page_num + Pow2[order[p]]
       /\ held' = held \ {p}
       /\ refused' = -1

\* QueryPage goes from the root down to the leaf at address a: the first used
\* node on its way that starts there, or 0.
QueryPage(a) ==
    LET way == {Above(Pow2[max_order] + a, k) : k \in Order}
        hits == {i \in way : flags[i] = Used /\ FirstPage[i] = a}
    IN IF hits = {} THEN 0 ELSE Min(hits)

\* PhysicalMemoryManager::Free of the address of p; an address that is not
\* found is reported and nothing is freed.
FreeAddress(p) ==
    LET q == QueryPage(FirstPage[p])
    IN IF q = 0 THEN UNCHANGED vars ELSE FreePage(q)

Next ==
    \/ \E n \in Requests : AllocPage(n)
    \/ \E p \in held : FreePage(p) \/ FreeAddress(p)

Spec == Init /\ [][Next]_vars

-----------------------------------------------------------------------------
Listed == UNION {ToSet(free_area[o]) : o \in Order}

PagesIn(blocks) == UNION {Pages[i] : i \in blocks}

\* The blocks on the lists after Init.
Base == UNION {ToSet(InitFreeArea[o]) : o \in Order}

\* InitArea reaches all pages: it depends on max_order and valid_page_num.
InitListsAll == PagesIn(Base) = ValidPages

TypeOK ==
    /\ flags \in [Node -> {Unusable, Free, Used, Divided}]
    /\ \A o \in Order : \A k \in DOMAIN free_area[o] :
          free_area[o][k] \in Node /\ order[free_area[o][k]] = o
    /\ DOMAIN free_area = Order
    /\ free_page_num \in 0 .. valid_page_num
    /\ held \subseteq Node
    /\ refused \in Order \union {-1}

(* Every page that free_page_num counts is in a block on a list, so that   *)
(* it can be allocated.                                                    *)
CountedPagesAreListed ==
    free_page_num = Cardinality(PagesIn(Listed))

(* However blocks were split and freed, when all are free again Merge has  *)
(* put the blocks of Zone::Init together.                                  *)
FreedMemoryMergesBack ==
    held = {} =>
       \A o \in Order : ToSet(free_area[o]) = ToSet(InitFreeArea[o])

(* A request that is answered gets enough pages, and less than twice as    *)
(* many.                                                                   *)
RequestServed ==
    [][\A n \in Requests \ {0} :
          AllocPage(n) /\ refused' = -1
             => \E p \in held' \ held :
                   n <= Pow2[order[p]] /\ Pow2[order[p]] < 2 * n]_vars

(* Zone implements the abstract allocator; in particular AllocPage fails   *)
(* only when no aligned run of free pages is left.                         *)
Abstract == INSTANCE PageAllocator
    WITH MaxOrder <- max_order, PageCount <- valid_page_num,
         held <- {[first |-> FirstPage[p], order |-> order[p]] : p \in held}

ImplementsPageAllocator == Abstract!Spec
=============================================================================
