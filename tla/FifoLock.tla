------------------------------ MODULE FifoLock ------------------------------
(***************************************************************************)
(* What a Mutex promises its users: processes enter one at a time, in the  *)
(* order in which they asked.                                              *)
(***************************************************************************)
EXTENDS Sequences, SequencesExt

CONSTANT Users

VARIABLES
    line,       \* who holds or waits for the lock, in order
    inside      \* who is between Lock and Unlock

lockVars == <<line, inside>>

Init == line = <<>> /\ inside = {}

\* Lock or TryLock of a free lock.
Acquire(p) ==
    /\ line = <<>>
    /\ line' = <<p>>
    /\ inside' = {p}

\* Lock that has to wait.
Request(p) ==
    /\ line # <<>>
    /\ ~ Contains(line, p)
    /\ line' = Append(line, p)
    /\ UNCHANGED inside

\* The wait of the process at the head of the line is over.
Enter(p) ==
    /\ inside = {}
    /\ line # <<>>
    /\ p = Head(line)
    /\ inside' = {p}
    /\ UNCHANGED line

\* Unlock: the next in line inherits the lock.
Release(p) ==
    /\ inside = {p}
    /\ line' = Tail(line)
    /\ inside' = {}

Next == \E p \in Users : Acquire(p) \/ Request(p) \/ Enter(p) \/ Release(p)

Spec == Init /\ [][Next]_lockVars
=============================================================================
