--------------------------------- MODULE VFS ---------------------------------
(***************************************************************************)
(* The virtual file system manager: the tree of file nodes, paths and how  *)
(* they are brought into normal form, symbol links, the mounted volume     *)
(* whose files get nodes as they are looked up, files in /tmp, and the     *)
(* system calls that name files.  A path is a sequence of the sections     *)
(* between its slashes.                                                    *)
(***************************************************************************)
EXTENDS Integers, Sequences, SequencesExt, FiniteSets, Evaluation

CONSTANTS
    Inputs,         \* paths programs use: [abs |-> from the root, names |-> ...]
    Dirs,           \* those of them given to chdir
    Mistaken,       \* <<x, y>>: names as long as each other that differ in the
                    \* last character only; one that lacks it is never used
    MaxNodes,       \* bound: file nodes alive at a time
    MaxHandles,     \* bound: handles open at a time
    Orderly,        \* the discipline stated at Unlinkat, Mkdirat and Getdents
    Null

ASSUME VFSAssumption ==
    /\ \A in \in Inputs : in.abs \in BOOLEAN /\ in.names \in Seq(STRING)
    /\ MaxNodes \in Nat /\ MaxNodes > 8 /\ Dirs \subseteq Inputs /\ MaxHandles \in Nat /\ Orderly \in BOOLEAN
    /\ Null \notin Nat

VARIABLES
    tree,       \* tree[n]: the file nodes, by number
    volume,     \* what the mounted volume holds: "file" or "folder" by path
    links,      \* SymbolLinks: <<source, target>>, the newest first
    cwd,        \* Process::CurrentWorkDirectory, as it was given
    stopped     \* the kernel has stopped (kout[Fault]), or goes on with memory
                \* that is no node any more or was never written: nothing is
                \* said of what follows

vfsVars == <<tree, volume, links, cwd, stopped>>

-----------------------------------------------------------------------------
(* The tree of nodes.                                                      *)

root == 1

Fresh(T) == CHOOSE n \in 1 .. Cardinality(DOMAIN T) + 1 : n \notin DOMAIN T /\ 1 .. n - 1 \subseteq DOMAIN T

New(name, kind) == [name |-> name, kind |-> kind, fa |-> Null, pre |-> Null,
                    nxt |-> Null, child |-> Null, refs |-> 0, auto |-> FALSE]

IsDir(x) == x.kind \in {"dir", "mount", "folder"}
BelongVFS(x) == x.kind \in {"mount", "folder", "file"}

\* A SetFa that does not tell the next node of the one before it.
DetachedOneWay(T, n) ==
    [m \in DOMAIN T |->
        IF m = n THEN [T[n] EXCEPT !.fa = Null, !.pre = Null, !.nxt = Null]
        ELSE IF m = T[n].fa /\ T[m].child = n THEN [T[m] EXCEPT !.child = T[n].nxt]
        ELSE IF m = T[n].pre THEN [T[m] EXCEPT !.nxt = T[n].nxt]
        ELSE T[m]]

\* SetFa(nullptr).
Detached(T, n) ==
    [m \in DOMAIN T |->
        IF m = n THEN [T[n] EXCEPT !.fa = Null, !.pre = Null, !.nxt = Null]
        ELSE IF m = T[n].fa /\ T[m].child = n THEN [T[m] EXCEPT !.child = T[n].nxt]
        ELSE IF m = T[n].pre THEN [T[m] EXCEPT !.nxt = T[n].nxt]
        ELSE IF m = T[n].nxt THEN [T[m] EXCEPT !.pre = T[n].pre]
        ELSE T[m]]

\* AddNewNode of a new node: SetFa(fa), at the head of the children.
Added(T, x, fa) ==
    LET n == Fresh(T)
        old == T[fa].child
    IN  [m \in DOMAIN T \union {n} |->
            IF m = n THEN [x EXCEPT !.fa = fa, !.nxt = old]
            ELSE IF m = fa THEN [T[m] EXCEPT !.child = n]
            ELSE IF m = old THEN [T[m] EXCEPT !.pre = n]
            ELSE T[m]]

\* A node and the nodes under it.
Under(T, n) == LET within[m \in DOMAIN T] == m = n \/ (T[m].fa # Null /\ within[T[m].fa])
               IN  {m \in DOMAIN T : within[m]}

\* The destructor of FileNode deletes the children first.
Deleted(T, n) == With(Under(T, n), LAMBDA gone :
                     With(Detached(T, n), LAMBDA D : [m \in DOMAIN T \ gone |-> D[m]]))

\* One node more of a list of children, if it goes on.
Further(T, s) == IF s = <<>> \/ T[Last(s)].nxt = Null THEN s ELSE Append(s, T[Last(s)].nxt)

\* The children of a node from first to last.
Children(T, n) ==
    LET upTo[k \in 0 .. Cardinality(DOMAIN T)] ==
            IF k = 0 THEN IF T[n].child = Null THEN <<>> ELSE <<T[n].child>>
            ELSE With(upTo[k - 1], LAMBDA s : Further(T, s))
    IN  upTo[Cardinality(DOMAIN T)]

\* FindChildName: the first child of that name, or Null.
FindChildName(T, n, name) == With(Children(T, n), LAMBDA all :
    With(SelectInSeq(all, LAMBDA m : T[m].name = name), LAMBDA i : IF i = 0 THEN Null ELSE all[i]))

\* GetPath, of the whole tree or, in the mounted volume, up to its root.
PathUpTo(T, n, top) ==
    LET path[m \in DOMAIN T] ==
            IF m = root \/ T[m].kind = top \/ T[m].fa = Null THEN <<>>
            ELSE Append(path[T[m].fa], T[m].name)
    IN  path[n]
GetPath(T, n) == PathUpTo(T, n, "none")
PathInVFS(T, n) == PathUpTo(T, n, "mount")

-----------------------------------------------------------------------------
(* Paths.                                                                  *)

\* A .. that leaves the last section there is.
LeftUp(done) == IF Len(done) > 1 THEN Front(done) ELSE done

\* What .. leaves of the path before it.
Left(done) == IF done = <<>> THEN done ELSE Front(done)

\* NormalizePath, but for the links: empty sections and . go, .. takes the
\* section before it, if any, along.
Normalized(names) ==
    LET upTo[i \in 0 .. Len(names)] ==
            IF i = 0 THEN <<>>
            ELSE With(upTo[i - 1], LAMBDA done : CASE names[i] \in {"", "."} -> done
                                                   [] names[i] = ".." -> Left(done)
                                                   [] OTHER -> Append(done, names[i]))
    IN  upTo[Len(names)]

\* MatchPrefix up to the end of a section: the last character of the prefix is
\* passed over whether it agrees or not.  (Of a path that ends one character
\* before the prefix the end mark is passed over, and what lies behind it in
\* memory is matched: no such path is used.)
Matches(path, prefix) ==
    LET n == Len(prefix)
    IN  /\ Len(path) >= n
        /\ SubSeq(path, 1, n - 1) = SubSeq(prefix, 1, n - 1)
        /\ path[n] = prefix[n] \/ <<path[n], prefix[n]>> \in Mistaken

\* GetSymbolLinkedPath: the first link that matches is followed, once.
Followed(path) ==
    With(SelectInSeq(links, LAMBDA l : Matches(path, l[1])), LAMBDA i :
        IF i = 0 THEN path ELSE links[i][2] \o SubSeq(path, Len(links[i][1]) + 1, Len(path)))

\* CreateSymbolLink: the target of a source is replaced, a new link goes first.
LinkAdded(ls, src, dst) ==
    LET i == SelectInSeq(ls, LAMBDA l : l[1] = src)
    IN  IF i = 0 THEN <<<<src, dst>>>> \o ls ELSE [ls EXCEPT ![i] = <<src, dst>>]

\* CurrentPathFromFileNameAndFD: from the root, from the working directory
\* (base = Null), or from the directory of an open handle.
Sections(in, base) ==
    IF in.abs THEN in.names ELSE (IF base = Null THEN cwd.names ELSE GetPath(tree, base)) \o in.names
Regular(in, base) == in.abs \/ base # Null \/ cwd.abs      \* the assertion of NormalizePath
PathOf(in, base) == With(Normalized(Sections(in, base)), Followed)

-----------------------------------------------------------------------------
(* Looking up.                                                             *)

\* A FindRecursive that asks the volume whether a file has a node or not.
ChildAnew(T, n, name) == IF BelongVFS(T[n]) THEN Null ELSE FindChildName(T, n, name)

\* FindRecursive looks among the nodes there are first.
ChildAtHand(T, n, name) == FindChildName(T, n, name)

\* AddFileInVFS: a file of the volume that has no node gets one.
AddFileInVFS(at, V, name) ==
    IF ~BelongVFS(at.tree[at.node]) THEN [at EXCEPT !.node = Null]
    ELSE With(Append(PathInVFS(at.tree, at.node), name), LAMBDA q :
        IF q \notin DOMAIN V THEN [at EXCEPT !.node = Null]
        ELSE [tree |-> Added(at.tree, New(name, V[q]), at.node), node |-> Fresh(at.tree)])

\* FindRecursive for one section: the nodes afterwards and the node, or Null.
Down(at, V, name) ==
    IF at.node = Null THEN at
    ELSE With(ChildAtHand(at.tree, at.node, name), LAMBDA c :
        IF c # Null THEN [at EXCEPT !.node = c] ELSE AddFileInVFS(at, V, name))

\* FindRecursive, from the root.
Find(T, V, path) ==
    LET at[i \in 0 .. Len(path)] ==
            IF i = 0 THEN [tree |-> T, node |-> root]
            ELSE With(at[i - 1], LAMBDA found : Down(found, V, path[i]))
    IN  at[Len(path)]

\* FindPathOfVFS: how many sections lead to the root of a volume, 0 when none do.
MountDepth(T, path) ==
    LET at[i \in 0 .. Len(path)] == IF i = 0 THEN root
                                    ELSE With(at[i - 1], LAMBDA n :
                                        IF n = Null THEN Null ELSE FindChildName(T, n, path[i]))
        mounts == {i \in 1 .. Len(path) : at[i] # Null /\ T[at[i]].kind = "mount"}
    IN  IF mounts = {} THEN 0 ELSE CHOOSE i \in mounts : \A j \in mounts : i <= j

\* The volume's CreateFile and CreateDirectory.
VolumeWith(V, path, kind) ==
    IF path # <<>> /\ path \notin DOMAIN V
       /\ (Len(path) = 1 \/ (Front(path) \in DOMAIN V /\ V[Front(path)] = "folder"))
    THEN [q \in DOMAIN V \union {path} |-> IF q = path THEN kind ELSE V[q]]
    ELSE V

\* The volume's Delete; what is in a directory is lost with it.
VolumeWithout(V, path) == [q \in {r \in DOMAIN V : ~IsPrefix(path, r)} |-> V[q]]

\* CreateFile and CreateDirectory of the manager, on the nodes T and the volume.
\* For the root of a volume the path left is empty: CutLastSection writes in
\* front of a name of no bytes, and an entry of that name is added.
MadeAt(T, path, kind) == With(MountDepth(T, path), LAMBDA d :
    [tree |-> IF d = 0 /\ kind = "file" /\ Len(path) = 2 /\ path[1] = "tmp"
              THEN Added(T, New(path[2], "temp"), Find(T, volume, <<"tmp">>).node) ELSE T,
     volume |-> IF d = 0 THEN volume ELSE VolumeWith(volume, SubSeq(path, d + 1, Len(path)), kind),
     stopped |-> IF d = 0 THEN kind = "folder" ELSE d = Len(path)])

-----------------------------------------------------------------------------
\* The state after VirtualFileSystemManager::Init and LoadVFS: each name, the
\* kind of the node and the node it is put under.
Base == <<<<"VFS", "dir", 1>>, <<"dev", "dir", 1>>, <<"stdIO", "device", 3>>,
          <<"Zero", "device", 3>>, <<"tmp", "dir", 1>>, <<"FAT32", "mount", 2>>>>

BaseTree ==
    LET made[i \in 0 .. Len(Base)] ==
            IF i = 0 THEN [n \in {root} |-> New("", "dir")]
            ELSE With(made[i - 1], LAMBDA T :
                     Added(T, New(Base[i][1], Base[i][2]), Base[i][3]))
    IN  made[Len(Base)]

VFSInit ==
    /\ tree = BaseTree
    /\ volume = [q \in {<<"a">>} |-> "file"]
    /\ links = LinkAdded(LinkAdded(<<>>, <<"dev", "zero">>, <<"dev", "Zero">>),
                         <<"dev", "null">>, <<"dev", "Zero">>)
    /\ cwd = [abs |-> TRUE, names |-> <<"VFS", "FAT32">>]
    /\ stopped = FALSE

Bases == {Null} \union {n \in DOMAIN tree : tree[n].refs > 0}
Room(T) == /\ Cardinality(DOMAIN T) <= MaxNodes
           /\ FoldFunction(LAMBDA x, sum : x.refs + sum, 0, T) <= MaxHandles

\* A path and a working directory that both do not start at the root stop the
\* kernel (the assertion of NormalizePath).
Irregular == \E in \in Inputs :
    /\ ~stopped /\ ~Regular(in, Null)
    /\ stopped' = TRUE /\ UNCHANGED <<tree, volume, links, cwd>>

\* openat without O_CREAT, by a process that keeps the handle.
Openat(in, base) ==
    /\ ~stopped /\ Regular(in, base)
    /\ \E path \in {PathOf(in, base)} : \E at \in {Find(tree, volume, path)} :
           /\ tree' = IF at.node = Null THEN at.tree
                      ELSE [at.tree EXCEPT ![at.node].refs = @ + 1]
           /\ Room(tree')
    /\ UNCHANGED <<volume, links, cwd, stopped>>

\* openat with O_CREAT, and with O_DIRECTORY for a folder.
OpenatCreate(in, base, kind) ==
    /\ ~stopped /\ Regular(in, base)
    /\ \E path \in {PathOf(in, base)} :
       \E at \in {Find(tree, volume, path)} :
       \E made \in {IF at.node = Null THEN MadeAt(at.tree, path, kind)
                    ELSE [tree |-> at.tree, volume |-> volume, stopped |-> FALSE]} :
       \E got \in {Find(made.tree, made.volume, path)} :
           /\ volume' = made.volume /\ stopped' = made.stopped
           /\ tree' = IF got.node = Null \/ (kind = "folder" /\ ~IsDir(got.tree[got.node])) THEN got.tree
                      ELSE [got.tree EXCEPT ![got.node].refs = @ + 1]
           /\ Room(tree')
    /\ UNCHANGED <<links, cwd>>

\* getdents64, which names the directory of a handle or the working directory
\* with a dot: GetAllFileIn looks it up, which may give it a node, and leaves the
\* entries to the volume (FAT32); the files listed get no nodes in the tree.  For
\* a file the volume gives -1, and the first of no entries is used: with Orderly
\* it is not called.
Getdents(base) == LET dot == [abs |-> FALSE, names |-> <<".">>] IN
    /\ ~stopped /\ Regular(dot, base)
    /\ \E at \in {Find(tree, volume, PathOf(dot, base))} :
           /\ tree' = at.tree /\ Room(tree')
           /\ stopped' = (at.node # Null /\ at.tree[at.node].kind = "file")
           /\ Orderly => ~stopped'
    /\ UNCHANGED <<volume, links, cwd>>

\* mkdirat: outside the volume it stops the kernel.  With Orderly, it is not
\* called for the root of the volume.
Mkdirat(in, base) ==
    /\ ~stopped /\ Regular(in, base)
    /\ \E path \in {PathOf(in, base)} : \E made \in {MadeAt(tree, path, "folder")} :
           /\ Orderly => path = <<>> \/ MountDepth(tree, path) # Len(path)
           /\ tree' = made.tree /\ volume' = made.volume /\ stopped' = made.stopped
    /\ UNCHANGED <<links, cwd>>

\* An Unlinkat that leaves the node of the file.
CloseNothing(T, n) == T

\* VirtualFileSystemManager::Close after the volume's Delete.
Close(T, n) == Deleted(T, n)

\* Handles of a node or of one under it, which would point to what is deleted.
HeldUnder(T, n) == \E m \in Under(T, n) : T[m].refs > 0

\* unlinkat.  A file in /tmp that is open goes with its last handle; what is not
\* in the volume and not temporary stays.  Close deletes a node of the volume
\* and those under it whether they are open or not, and Delete of the volume's
\* root writes to a place never set: with Orderly, neither happens.
Unlinkat(in, base) ==
    /\ ~stopped /\ Regular(in, base)
    /\ \E path \in {PathOf(in, base)} : \E at \in {Find(tree, volume, path)} :
           /\ at.node # Null /\ Room(at.tree)
           /\ \E n \in {at.node} :
                CASE BelongVFS(at.tree[n]) ->
                        /\ volume' = VolumeWithout(volume, PathInVFS(at.tree, n))
                        /\ tree' = Close(at.tree, n)
                        /\ stopped' = (at.tree[n].kind = "mount" \/ HeldUnder(at.tree, n))
                        /\ Orderly => ~stopped'
                  [] at.tree[n].kind = "temp" ->
                        /\ tree' = IF at.tree[n].refs = 0 THEN Deleted(at.tree, n)
                                   ELSE [at.tree EXCEPT ![n].auto = TRUE]
                        /\ UNCHANGED <<volume, stopped>>
                  [] OTHER -> tree' = at.tree /\ UNCHANGED <<volume, stopped>>
    /\ UNCHANGED <<links, cwd>>

\* close: FileNode::Unref.
CloseHandle(n) ==
    /\ ~stopped /\ tree[n].refs > 0
    /\ tree' = IF tree[n].refs = 1 /\ tree[n].auto THEN Deleted(tree, n)
               ELSE [tree EXCEPT ![n].refs = @ - 1]
    /\ UNCHANGED <<volume, links, cwd, stopped>>

\* chdir keeps the path as it is given, whether there is such a directory or
\* not.
Chdir(in) ==
    /\ ~stopped
    /\ cwd' = in
    /\ UNCHANGED <<tree, volume, links, stopped>>

VFSNext ==
    \/ \E in \in Inputs, base \in Bases :
           \/ Openat(in, base) \/ Mkdirat(in, base) \/ Unlinkat(in, base)
           \/ \E kind \in {"file", "folder"} : OpenatCreate(in, base, kind)
    \/ \E base \in Bases : Getdents(base)
    \/ \E in \in Dirs : Chdir(in)
    \/ \E n \in DOMAIN tree : CloseHandle(n)
    \/ Irregular

VFSSpec == VFSInit /\ [][VFSNext]_vfsVars

-----------------------------------------------------------------------------
\* The links of the tree agree: the children of a node are a doubly linked list
\* that starts at child, each has the node as its father, and every node but the
\* root is on one list, whatever was added to it and deleted from it (SetFa and
\* the destructor).
TreeLinked ==
    /\ \A n \in DOMAIN tree : With(Children(tree, n), LAMBDA all :
           /\ IsInjective(all)
           /\ Range(all) = {m \in DOMAIN tree : tree[m].fa = n}
           /\ \A i \in DOMAIN all :
                  tree[all[i]].pre = IF i = 1 THEN Null ELSE all[i - 1])
    /\ \A n \in DOMAIN tree : n # root => tree[n].fa \in DOMAIN tree
    /\ DOMAIN tree = Under(tree, root)

\* The path a node gives leads back to the node and to no other, so that two
\* nodes never stand for one file: what openat starts from a directory's handle
\* is what it finds from the root (GetPath, FindRecursive).
PathsLeadBack ==
    \A n \in DOMAIN tree : Find(tree, volume, GetPath(tree, n)) = [tree |-> tree, node |-> n]

\* Every node of the volume stands for what the volume holds there: a file made
\* again after unlinkat never meets the node of the old one.
NodesMatchVolume ==
    \A n \in DOMAIN tree : tree[n].kind \in {"file", "folder"} =>
        With(PathInVFS(tree, n), LAMBDA q : q \in DOMAIN volume /\ volume[q] = tree[n].kind)

\* A section stays in the path when it names something and no .. behind it
\* takes it: with each .. taking the nearest one left.
Kept(names) ==
    LET Named(i, j) == Cardinality({k \in i .. j : names[k] \notin {"", ".", ".."}})
        Up(i, j) == Cardinality({k \in i .. j : names[k] = ".."})
    IN  {i \in DOMAIN names : /\ names[i] \notin {"", ".", ".."}
                              /\ \A j \in i + 1 .. Len(names) : Up(i + 1, j) <= Named(i + 1, j)}

\* The file a path means: what is left of it, with a source of a link that it
\* starts with replaced.
Meant(names) == With(Kept(names), LAMBDA kept :
    LET path == [i \in 1 .. Cardinality(kept) |->
                    names[CHOOSE k \in kept : Cardinality({j \in kept : j < k}) = i - 1]]
        hits == {l \in Range(links) : IsPrefix(l[1], path)}
    IN  IF hits = {} THEN path
        ELSE With(CHOOSE l \in hits : TRUE, LAMBDA l : l[2] \o SubSeq(path, Len(l[1]) + 1, Len(path))))

Names == {GetPath(tree, n) : n \in DOMAIN tree}
         \union {<<"VFS", "FAT32">> \o q : q \in DOMAIN volume}

\* openat finds the file that the path means, from the root, the working
\* directory and any directory, when there is one and only then.
FindsWhatIsMeant == ~stopped =>
    \A in \in Inputs, base \in Bases : Regular(in, base) =>
        With(Meant(Sections(in, base)), LAMBDA path :
            With(PathOf(in, base), LAMBDA found : With(Find(tree, volume, found), LAMBDA at :
                IF path \in Names THEN at.node # Null /\ GetPath(at.tree, at.node) = path
                ELSE at.node = Null)))
=============================================================================
