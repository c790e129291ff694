----------------------------- MODULE Descriptors -----------------------------
(***************************************************************************)
(* What a table of file descriptors promises a program: each process has a *)
(* partial map from numbers to open files; a new descriptor is the         *)
(* smallest number not in use; a child begins with the map of its father,  *)
(* and the maps of two processes change independently.                     *)
(***************************************************************************)
EXTENDS Naturals, Functions

CONSTANTS Processes, FDs, StdFDs, Std
VARIABLE open      \* open[p]: a function from descriptors in use to files

Empty == [d \in {} |-> Std]
StdMap == [d \in StdFDs |-> Std]

Init == open \in [Processes -> {Empty, StdMap}]

With(m, d, f) == [e \in DOMAIN m \union {d} |-> IF e = d THEN f ELSE m[e]]
Without(m, d) == Restrict(m, DOMAIN m \ {d})

\* m with one more descriptor, the smallest free one.
Opened(m, f) ==
    With(m, CHOOSE d \in FDs \ DOMAIN m : \A e \in FDs \ DOMAIN m : d <= e, f)

\* The map of a process may become n from m: by open, dup or pipe; by dup3; by
\* close; by its end; when it has nothing open, by a start or a fork of one of
\* the maps s.
Becomes(s, m, n) ==
    \/ \E f \in Range(n) : n \in {Opened(m, f), Opened(Opened(m, f), f)}
    \/ \E d \in DOMAIN n : n[d] \in Range(m) /\ n = With(m, d, n[d])
    \/ \E d \in DOMAIN m : n = Without(m, d)
    \/ n = Empty
    \/ m = Empty /\ n \in {StdMap} \union Range(s)

\* A step takes the maps from s to t.
Step(s, t) ==
    \E p \in Processes :
        /\ \A q \in Processes \ {p} : t[q] = s[q]
        /\ Becomes(s, s[p], t[p])

Next == \E s \in {open}, t \in {open'} : Step(s, t)

Spec == Init /\ [][Next]_open
==============================================================================
