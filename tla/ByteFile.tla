------------------------------ MODULE ByteFile ------------------------------
(***************************************************************************)
(* What a file promises the handles to it: a row of bytes, read and        *)
(* written at the position of a handle or at one that is given.            *)
(***************************************************************************)
EXTENDS Integers, Sequences

CONSTANTS
    Handles, Bytes,
    MaxIO,          \* bound: bytes of one call
    Own             \* stands for the position of the handle

VARIABLES
    bytes,          \* what the file holds
    pos,            \* pos[h]: where handle h stands
    got             \* what the last read gave

vars == <<bytes, pos, got>>

Init == bytes = <<>> /\ pos = [h \in Handles |-> 0] /\ got = <<>>

Least(a, b) == IF a < b THEN a ELSE b
Where(h, at) == IF at = Own THEN pos[h] ELSE at
Moved(h, at, n) == IF at = Own THEN [pos EXCEPT ![h] = @ + n] ELSE pos

\* b with new from place p + 1 on.
Over(b, p, new) == SubSeq(b, 1, p) \o new \o SubSeq(b, p + Len(new) + 1, Len(b))

\* A read gives what is there, fewer bytes than asked for only at the end.
Read(h, at, n) ==
    /\ got' = SubSeq(bytes, Where(h, at) + 1, Least(Where(h, at) + n, Len(bytes)))
    /\ pos' = Moved(h, at, Len(got'))
    /\ UNCHANGED bytes

\* A write puts all its bytes, from a place inside the file or at its end on.
Write(h, at, new) ==
    /\ pos' = Moved(h, at, Len(new))
    /\ bytes' = Over(bytes, Where(h, at), new)
    /\ UNCHANGED got

\* What a read of n bytes with one handle gives is written with another.
Copy(h, g, n) ==
    /\ pos[h] + n <= Len(bytes)
    /\ LET there == IF g = h THEN pos[h] + n ELSE pos[g]
       IN  bytes' = Over(bytes, there, SubSeq(bytes, pos[h] + 1, pos[h] + n))
    /\ pos' = [[pos EXCEPT ![h] = @ + n] EXCEPT ![g] = @ + n]
    /\ UNCHANGED got

\* A handle goes to another place, or takes the place of another handle.
Seek(h) == /\ \E p \in 0 .. Len(bytes) : pos' = [pos EXCEPT ![h] = p]
           /\ UNCHANGED <<bytes, got>>

Next == \E h \in Handles :
    \/ Seek(h)
    \/ \E n \in 1 .. MaxIO :
           \/ \E g \in Handles : Copy(h, g, n)
           \/ \E at \in {Own} \union 0 .. Len(bytes) :
                  Read(h, at, n) \/ \E new \in [1 .. n -> Bytes] : Write(h, at, new)

Spec == Init /\ [][Next]_vars
=============================================================================
