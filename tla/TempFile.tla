------------------------------ MODULE TempFile ------------------------------
(***************************************************************************)
(* A file in /tmp (TempFileNode): fragments of a fixed capacity, found     *)
(* through the one used last, and the handles that read, write and move in *)
(* it (FileHandle), with lseek, read, write, their vectors, and sendfile.  *)
(* The calls take the file's lock, and run with interrupts off.            *)
(***************************************************************************)
EXTENDS Integers, Sequences, SequencesExt

CONSTANTS
    Handles, Bytes,
    FragmentSize,   \* capacity of a fragment, PageSize in the code
    BufferSize,     \* of sendfile, 102400 in the code
    MaxSize,        \* bound: bytes of the file
    MaxIO,          \* bound: bytes of one call, and of one move
    Careful,        \* the discipline stated at Lseek
    Garbage,        \* what fresh memory holds
    Own, None

ASSUME TempFileAssumption ==
    /\ FragmentSize \in Nat \ {0} /\ BufferSize \in Nat \ {0}
    /\ MaxSize \in Nat /\ MaxIO \in Nat /\ Careful \in BOOLEAN
    /\ Garbage \notin Bytes /\ Own \notin Nat

VARIABLES
    frags,      \* the list of DataFragments: size and data; number i begins at
                \* byte (i - 1) * FragmentSize
    cache,      \* DataCache: the number of a fragment, 0 for none
    FileSize,
    pos,        \* FileHandle::Pos
    got,        \* the bytes the last read gave
    sending     \* a sendfile between two rounds of its loop, or None

vars == <<frags, cache, FileSize, pos, got, sending>>

Least(a, b) == IF a < b THEN a ELSE b
Greatest(a, b) == IF a > b THEN a ELSE b

-----------------------------------------------------------------------------
(* The operations work on S, the record of the file.                       *)

File == [frags |-> frags, cache |-> cache, FileSize |-> FileSize]

NewFragment == [size |-> 0, data |-> [k \in 0 .. FragmentSize - 1 |-> Garbage]]
Begin(i) == (i - 1) * FragmentSize

\* A Find that trusts the fragment used last whenever the position is behind
\* its beginning.
FoundNear(S, p) ==
    IF S.cache # 0 /\ p >= Begin(S.cache) THEN S.cache
    ELSE IF p \div FragmentSize < Len(S.frags) THEN p \div FragmentSize + 1 ELSE 0

\* Find: the fragment of position p, searched for from the one used last or
\* from the head; 0 when there is none.  It is the one used last from then on.
Found(S, p) ==
    LET from == IF S.cache # 0 /\ p > Begin(S.cache) THEN S.cache ELSE 1
    IN  IF \E i \in from .. Len(S.frags) : p \in Begin(i) .. Begin(i + 1) - 1
        THEN CHOOSE i \in from .. Len(S.frags) : p \in Begin(i) .. Begin(i + 1) - 1
        ELSE 0
Used(S, i) == IF i = 0 THEN S ELSE [S EXCEPT !.cache = i]

\* How many of n bytes from p on a round of Read takes from fragment i: the
\* count is unsigned, so that a position behind its last byte leaves them all.
RoundOfRead(S, i, p, n) ==
    LET rest == Begin(i) + S.frags[i].size - p
    IN  IF rest < 0 THEN Least(n, Begin(i + 1) - p) ELSE Least(n, rest)

\* A round of Read's loop: it stops where there is no fragment, or no byte left.
\* What a loop works on is S, where it stands, what is left, and what it read.
ReadRound(st) ==
    LET i == Found(st.S, st.p)
        len == RoundOfRead(st.S, i, st.p, st.n)
    IN  IF st.n = 0 THEN st
        ELSE IF i = 0 THEN [S |-> st.S, p |-> st.p, n |-> 0, out |-> st.out]
        ELSE IF len = 0 THEN [S |-> Used(st.S, i), p |-> st.p, n |-> 0, out |-> st.out]
        ELSE [S |-> Used(st.S, i), p |-> st.p + len, n |-> st.n - len,
              out |-> st.out \o [k \in 1 .. len |->
                          st.S.frags[i].data[st.p + k - 1 - Begin(i)]]]

\* TempFileNode::Read: the file after it and the bytes.
ReadFrom(S, p, n) ==
    LET after[k \in Nat] == IF k = 0 THEN [S |-> S, p |-> p, n |-> n, out |-> <<>>]
                            ELSE ReadRound(after[k - 1])
    IN  after[n]

\* A Write that takes the end of what it wrote for the end of the fragment.
FilledShort(f, at, b) ==
    [size |-> at + Len(b),
     data |-> [k \in DOMAIN f.data |-> IF k \in at .. at + Len(b) - 1 THEN b[k - at + 1] ELSE f.data[k]]]

\* Bytes b in a fragment, from its byte at on.
Filled(f, at, b) ==
    [size |-> Greatest(f.size, at + Len(b)),
     data |-> [k \in DOMAIN f.data |-> IF k \in at .. at + Len(b) - 1 THEN b[k - at + 1] ELSE f.data[k]]]

\* A round of Write's loop fills a fragment, or makes the first one, or extends
\* the list by one and takes it for the one used last.
WriteRound(st) ==
    LET i == Found(st.S, st.p)
        len == Least(Len(st.b), Begin(i + 1) - st.p)
    IN  IF st.b = <<>> THEN st
        ELSE IF i # 0
        THEN [S |-> [frags |-> [st.S.frags EXCEPT ![i] =
                                   Filled(@, st.p - Begin(i), SubSeq(st.b, 1, len))],
                     cache |-> i, FileSize |-> Greatest(st.S.FileSize, st.p + len)],
              p |-> st.p + len, b |-> SubSeq(st.b, len + 1, Len(st.b))]
        ELSE [S |-> [frags |-> Append(st.S.frags, NewFragment),
                     cache |-> IF st.S.frags = <<>> THEN st.S.cache ELSE Len(st.S.frags) + 1,
                     FileSize |-> st.S.FileSize],
              p |-> st.p, b |-> st.b]

\* TempFileNode::Write: the file after it.
WriteTo(S, p, b) ==
    LET after[k \in Nat] == IF k = 0 THEN [S |-> S, p |-> p, b |-> b]
                            ELSE WriteRound(after[k - 1])
    IN  IF p > S.FileSize THEN S ELSE after[2 * Len(b) + 1].S

Become(S) == frags' = S.frags /\ cache' = S.cache /\ FileSize' = S.FileSize

-----------------------------------------------------------------------------
Init ==
    /\ frags = <<>> /\ cache = 0 /\ FileSize = 0
    /\ pos = [h \in Handles |-> 0] /\ got = <<>> /\ sending = None

\* What a call works on: the file, the positions, and the bytes read so far.
Started == [S |-> File, pos |-> pos, out |-> <<>>]
Done(st) == Become(st.S) /\ pos' = st.pos

Where(P, h, at) == IF at = Own THEN P[h] ELSE at
Moved(P, h, at, n) == IF at = Own THEN [P EXCEPT ![h] = @ + n] ELSE P

\* FileHandle::Read, at the handle's position or at one given.
HandleRead(st, h, at, n) ==
    LET r == ReadFrom(st.S, Where(st.pos, h, at), n)
    IN  [S |-> r.S, pos |-> Moved(st.pos, h, at, Len(r.out)), out |-> st.out \o r.out]

\* FileHandle::Write; one that begins behind the end is refused.
HandleWrite(st, h, at, b) ==
    IF Where(st.pos, h, at) > st.S.FileSize THEN st
    ELSE [S |-> WriteTo(st.S, Where(st.pos, h, at), b),
          pos |-> Moved(st.pos, h, at, Len(b)), out |-> st.out]

\* read and pread.
Read(h, at, n) ==
    /\ sending = None
    /\ \E st \in {HandleRead(Started, h, at, n)} : Done(st) /\ got' = st.out
    /\ UNCHANGED sending

\* write and pwrite.
Write(h, at, n, b) ==
    /\ sending = None /\ Where(pos, h, at) + n <= MaxSize
    /\ \E st \in {HandleWrite(Started, h, at, [i \in 1 .. n |-> b])} : Done(st)
    /\ UNCHANGED <<got, sending>>

\* Where the second part of a vector goes.
Behind(at, n) == IF at = Own THEN Own ELSE at + n

\* readv and preadv of two parts: a short first part is the last.
ReadVector(h, at, n, m) ==
    /\ sending = None
    /\ \E first \in {HandleRead(Started, h, at, n)} :
       \E st \in {IF Len(first.out) = n THEN HandleRead(first, h, Behind(at, n), m) ELSE first} :
           Done(st) /\ got' = st.out
    /\ UNCHANGED sending

\* writev and pwritev of two parts; they are refused together.
WriteVector(h, at, n, b, m, c) ==
    /\ sending = None /\ Where(pos, h, at) + n + m <= MaxSize
    /\ \E first \in {HandleWrite(Started, h, at, [i \in 1 .. n |-> b])} :
       \E st \in {IF Where(pos, h, at) > FileSize THEN first
                  ELSE HandleWrite(first, h, Behind(at, n), [i \in 1 .. m |-> c])} : Done(st)
    /\ UNCHANGED <<got, sending>>

\* FileHandle::Seek: from the beginning, where the handle stands, or the end.
Seek(h, base, off) == off + CASE base = "begin" -> 0
                              [] base = "current" -> pos[h]
                              [] base = "end" -> FileSize

\* lseek moves the handle wherever it is told.  With Careful, a program does not
\* go behind the end, where a read gives what the fragment's memory held.
Lseek(h, base, off) ==
    /\ sending = None
    /\ Seek(h, base, off) \in 0 .. MaxSize
    /\ Careful => Seek(h, base, off) <= FileSize
    /\ pos' = [pos EXCEPT ![h] = Seek(h, base, off)]
    /\ UNCHANGED <<frags, cache, FileSize, got, sending>>

\* Dump: a handle made by dup stands where the other does, and moves alone.
Dump(h, g) ==
    /\ sending = None
    /\ pos' = [pos EXCEPT ![g] = pos[h]]
    /\ UNCHANGED <<frags, cache, FileSize, got, sending>>

\* sendfile, from an offset or from where the handle stands: nothing is sent
\* from an offset behind the end; otherwise as many bytes as are left, at most.
\* With Careful, not to the handle it reads from, nor from behind the end.
Sendfile(in, out, offset, count) ==
    /\ sending = None
    /\ Careful => in # out
    /\ offset # Own => offset < FileSize
    /\ Where(pos, in, offset) # FileSize
    /\ \E p \in {Where(pos, in, offset)} : \E left \in {Least(count, FileSize - p)} :
           /\ pos[out] + left <= MaxSize
           /\ pos' = [pos EXCEPT ![in] = p]
           /\ sending' = [in |-> in, out |-> out, left |-> left]
    /\ UNCHANGED <<frags, cache, FileSize, got>>

\* A round of sendfile: as many bytes are written as were asked for, those that
\* the read did not give from what is in the buffer.
SendRound ==
    /\ sending # None
    /\ \E n \in {Least(BufferSize, sending.left)} :
       \E r \in {HandleRead(Started, sending.in, Own, n)} :
       \E garbage \in {[k \in 1 .. n - Len(r.out) |-> Garbage]} :
           /\ Done(HandleWrite(r, sending.out, Own, r.out \o garbage))
           /\ sending' = IF sending.left = n THEN None ELSE [sending EXCEPT !.left = @ - n]
    /\ UNCHANGED got

Next ==
    \/ \E h \in Handles, n \in 1 .. MaxIO, at \in {Own} \union 0 .. FileSize :
           \/ Read(h, at, n)
           \/ \E b \in Bytes : Write(h, at, n, b)
           \/ \E m \in 1 .. MaxIO - n :
                  ReadVector(h, at, n, m) \/ \E b, c \in Bytes : WriteVector(h, at, n, b, m, c)
           \/ \E g \in Handles : Sendfile(h, g, at, n)
    \/ \E h \in Handles, base \in {"begin", "current", "end"}, off \in -MaxIO .. MaxIO :
           Lseek(h, base, off)
    \/ \E h, g \in Handles : Dump(h, g)
    \/ SendRound

Spec == Init /\ [][Next]_vars

-----------------------------------------------------------------------------
\* Every fragment but the last is full, so that Extend always finds room to go
\* on (it gives none, and the kernel stops, behind one that is not), and what
\* is full up to the size has been written.
FragmentsTile ==
    /\ FileSize \in 0 .. MaxSize /\ cache \in 0 .. Len(frags)
    /\ \A i \in DOMAIN frags :
           /\ frags[i].size = Least(FragmentSize, FileSize - Begin(i))
           /\ \A k \in 0 .. frags[i].size - 1 : frags[i].data[k] \in Bytes
    /\ FileSize <= Begin(Len(frags) + 1)

Content == [i \in 1 .. FileSize |->
               frags[(i - 1) \div FragmentSize + 1].data[(i - 1) % FragmentSize]]

Promised == INSTANCE ByteFile WITH bytes <- Content

\* Through fragments, the one used last and the loops over them, the file is a
\* row of bytes: a read gives what was written last at each place and stops at
\* the end, a write changes what it covers, and handles move apart.
ImplementsByteFile == Promised!Spec
=============================================================================
