------------------------------ MODULE FileStore ------------------------------
(***************************************************************************)
(* What a file system promises: a tree of named files that keep what was   *)
(* written to them.  Every call has the one effect its arguments ask for.  *)
(***************************************************************************)
EXTENDS Integers, Sequences, SequencesExt

CONSTANTS
    Paths,          \* sequences of names
    Image,          \* what a fresh volume holds
    Unit(_, _, _),  \* Unit(p, i, v): unit i of file p, written with payload v
    NameKept(_, _), \* whether a file, or a directory, made under a path is
                    \* found under it
    Dir, None

VARIABLES
    store,      \* <<path, what it holds>> of every file and directory, the
                \* latter <<Dir>>
    call,       \* the call made last, or None
    works,      \* whether what is written is kept
    failed      \* the last call found no room

Init == store = Image /\ call = None /\ ~failed

\* A call c takes the store from s to t.
Opened(c, s, t) == c.op = "open" /\ t = s

\* A file or directory is made where none is, in a directory that exists.
Created(c, s, t) ==
    /\ c.op = "create"
    /\ \A f \in s : f[1] # c.path
    /\ Len(c.path) > 1 => <<SubSeq(c.path, 1, Len(c.path) - 1), <<Dir>>>> \in s
    /\ t = s \union (IF NameKept(c.path, c.dir)
                     THEN {<<c.path, IF c.dir THEN <<Dir>> ELSE <<>>>>} ELSE {})

\* A write begins inside the file or at its end, and never leaves a gap.
Written(c, s, t) ==
    /\ c.op = "write"
    /\ \E f \in s :
           /\ f[1] = c.path /\ f[2] # <<Dir>> /\ c.pos <= Len(f[2])
           /\ \E size \in {IF c.pos + c.n > Len(f[2]) THEN c.pos + c.n ELSE Len(f[2])} :
                  t = (s \ {f}) \union
                      {<<f[1], [i \in 1 .. size |-> IF i \in c.pos + 1 .. c.pos + c.n
                                                    THEN Unit(f[1], i, c.v) ELSE f[2][i]]>>}

\* A directory goes with all below it.
Deleted(c, s, t) ==
    /\ c.op = "delete"
    /\ \E f \in s : f[1] = c.path
    /\ t = {f \in s : ~IsPrefix(c.path, f[1])}

\* One that finds no room has its effect or none.
Effect(c, s, t) ==
    \/ works /\ (Opened(c, s, t) \/ Created(c, s, t) \/ Written(c, s, t) \/ Deleted(c, s, t))
    \/ (works => failed') /\ t = s

Next ==
    /\ \E s \in {store}, t \in {store'} : Effect(call', s, t)
    /\ works' = works /\ ~failed

Spec == Init /\ [][Next]_<<store, call, works, failed>>
=============================================================================
