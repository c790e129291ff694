--------------------------- MODULE PageAllocator ---------------------------
(***************************************************************************)
(* What a buddy allocator promises: a request for n pages is answered with *)
(* an aligned run of 2^k >= n free pages if there is one, and refused only *)
(* if there is none; a run that is freed can be handed out again.          *)
(***************************************************************************)
EXTENDS PowersOfTwo

CONSTANTS
    MaxOrder,       \* the largest power of two a request can ask for
    PageCount       \* pages 0 .. PageCount - 1 can be handed out

VARIABLES
    held,       \* the runs handed out
    refused     \* the order the last request asked for in vain, or -1

allocVars == <<held, refused>>

\* The aligned runs of 2 ^ order pages.
Runs(order) ==
    {[first |-> k * Pow2[order], order |-> order] :
        k \in 0 .. (PageCount \div Pow2[order]) - 1}

PagesOf(b) == b.first .. b.first + Pow2[b.order] - 1

HeldPages == UNION {PagesOf(b) : b \in held}

Available(order) ==
    LET taken == HeldPages
    IN  {b \in Runs(order) : PagesOf(b) \cap taken = {}}

Init == held = {} /\ refused = -1

Allocate(order) ==
    /\ refused' = -1
    /\ \E b \in Available(order) : held' = held \union {b}

Refuse(order) ==
    /\ refused' = order
    /\ Available(order) = {}
    /\ UNCHANGED held

Release(b) ==
    /\ held' = held \ {b}
    /\ refused' = -1

Next ==
    \/ \E order \in 0 .. MaxOrder : Allocate(order) \/ Refuse(order)
    \/ \E b \in held : Release(b)

Spec == Init /\ [][Next]_allocVars
=============================================================================
