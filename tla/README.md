# A TLA+ model of PAL_OperatingSystem

PAL_OperatingSystem is a teaching kernel for one RISC-V hart, written in C++.
This directory holds TLA+ modules translated from its source, the TLC
configurations that check them on small instances, and TLAPS proofs of theorems
about them for every size. All paths below are relative to the repository.

`PROJECT.json` maps every definition to the source lines it stands for, lists
the runs, and lists the hazards of the code with the properties that cover them.

    tlc -workers 2 -config MCMutex.cfg MCMutex     one run
    tlapm MutexProofs.tla                          the proofs of one module

## 1. The system

### Components

The last column says what has to hold for the component to be correct; the
parts that are modelled are named in section 2.

| Component | State | Operations | Correct when |
|---|---|---|---|
| Scheduler (`Kernel/Process/Process.cpp` 20-208) | table of process slots, `stat` of each, `CurrentProcess`, deadlines | `Schedule`, `Run`, `Rest`, the timer interrupt | one process runs, no ready process starves, there is always one to run |
| Semaphore, Mutex (`Include/Process/Synchronize.hpp`) | `value`, linked list of waiters | `Wait`, `Signal`, `Lock`, `TryLock`, `Unlock` | permits balance, no wakeup is lost, waiters are served in order |
| Process lifecycle (`Kernel/Process/Process.cpp`, `Trap/Syscall.cpp` Exit, Clone, execve, Wait4) | father and child links, `F_AutoDestroy`, `WaitSem`, slots | `Init`, `Start`, `CopyOthers`, `SetFa`, `Exit`, `Destroy`, `GetQuitingChild` | the tree is a tree, every process that quits is reaped once, waiting fathers come back |
| Trap and system calls (`Kernel/Trap`) | trap frame, user/kernel status of the process | dispatch, timer, page fault, about 40 calls | a call leaves the process in the status it had |
| Buddy zone (`Kernel/Memory/PhysicalMemory.cpp`) | tree of `Page` records with flags, free list per order, `free_page_num` | `Init`, `AllocPage`, `FreePage`, `QueryPage` | no page is handed out twice, freed blocks merge |
| Virtual memory (`Kernel/Memory/VirtualMemory.cpp`) | sorted list of regions, the region found last, page table, heap region | `InsertVMR`, `RemoveVMR`, `FindVMR`, `GetUsableVMR`, `Resize`, `SolvePageFault`, `CreateFrom`, `Destroy` | regions are disjoint, look-up agrees with the list, no physical page is lost or used twice |
| File handles and tables (`Include/File/FileSystem.hpp`, Process.cpp file table) | list of handles per process and array of the first eight, reference counts of nodes, positions | `openat`, `dup`, `dup3`, `close`, `BindToProcess`, `Ref`, `Unref` | a descriptor names one handle, a node lives while it is referred to |
| Pipes, temporary files, mapped files (`Include/File/FileNodeEX.hpp`) | ring buffer, two semaphores and a lock; list of fragments and the one used last | `Read`, `Write`, `Close` | bytes come out in order, writers block when they must, a file is a row of bytes |
| VFS manager (`Kernel/File/FileSystem.cpp`) | tree of nodes, mounted volume, symbol links | `FindRecursive`, `NormalizePath`, `LoadVFS`, `Unlink`, `CreateFile` | a path names at most one node and that node is what the path means |
| FAT32 (`Kernel/File/FAT32.cpp`, `FAT32FileNode.cpp`) | FAT, hint of the next free cluster, directory entries, data | `GetFreeCluster...`, `AddContentToCluster`, `FindFile...`, `Read`, `Write`, `Delete` | chains are disjoint and end, nodes agree with the entries, what is written is read |
| StupidFileSystem | none that changes | read-only look-up | superseded by FAT32 |
| ELF loading (`Include/Process/ELF.hpp`) | `d->sem` shared by loader and creator, the regions of the program | `CreateProcessFromELF`, `Thread_CreateProcessFromELF` | the creator goes on exactly when the loader is done |
| Disk drivers (`Kernel/HAL`) | RAM image; virtio descriptor ring (not built by default) | read and write of a sector | a request gets its own answer |
| K210 drivers | device registers | vendored SDK | - |
| Boot and tests (`Kernel/Boot`) | none of its own | initialisation, `TestFuncs`, `Rest` loop | process 0 can always be scheduled |
| Monitor, output, library | console | formatting, `kout[Fault]` | - |
| User programs | their own | any system call in any order | the environment of the models |

### How they interact

* The only processor is given away in `ProcessManager::Schedule`. It is called
  by the timer interrupt, by `Process::Rest`, by `Exit`, and by
  `Semaphore::Wait` of a process that has just set itself to `S_Sleeping`.
* A timer interrupt reaches user mode and process 0. Kernel threads and system
  calls run with interrupts disabled, so what they do between two calls of
  `Schedule` is atomic; process 0 calls the kernel without a trap and is
  preempted even inside `Wait`, before and after its `Schedule`. This is why
  most system calls are one action each in the models, and the calls that can
  sleep (`nanosleep`, `wait4`, `execve`, `write` to a pipe) are several.
* `Semaphore::Wait` writes `stat` and the deadline of the process and leaves it
  to the scan of `Schedule` to notice the deadline. `Signal` writes `S_Ready`
  and leaves the link in the list: the waiter takes itself off when it runs.
* `Exit` signals the `WaitSem` of the father, `Wait4` and `execve` sleep on it.
  `Schedule` itself destroys the `F_AutoDestroy` processes it meets, and with
  them their file tables, address spaces and links in the queues of semaphores.
* Handles name nodes and count themselves in them. A node goes when it is
  deleted (`Unlink`, `Close` of the manager) or, with `F_AutoClose` (pipes, and
  temporary files unlinked while open), with its last handle.
* The manager asks the mounted volume for what has no node yet, and the nodes
  it gets cache the cluster and size of the directory entry.
* A mutex guards each temporary file, a semaphore with one permit each pipe;
  `nanosleep` is a timed `Wait` on a semaphore nobody signals.

### What is hard

Preemption of process 0 in the middle of `Wait`; timeouts that race signals;
one link per process for all semaphores; a scan that destroys processes while
it looks for one to run; slots (which are PIDs) reused at once; permits left in
`WaitSem` by exits long dealt with; flags and lists of the buddy tree that must
agree after any sequence of splits and merges; a break that moves before it is
refused; page faults that run out of memory half way; a cached region, a cached
fragment, cached file nodes that must not be stale; descriptors kept both on a
list and in an array; a sleeper destroyed together with the pipe it sleeps in;
clusters handed out from a hint nobody checks. The full list, line by line, is
under `hazards` in `PROJECT.json`.

## 2. The modules

    FifoLock <--implements-- Mutex --EXTENDS--> Semaphore --EXTENDS--> Scheduler
                               ^                 ^     ^
                          MutexProofs     SemaphoreUse  Pipe
                                                 ^       ^
                                              SemaphoreProofs
    PageAllocator <--implements-- Zone <--EXTENDS-- ZoneProofs
          both EXTEND PowersOfTwo
    Descriptors   <--implements-- FileTable <--EXTENDS-- FileTableProofs
    FileStore     <--implements-- FAT32 <--EXTENDS-- FileSystemProofs --EXTENDS--> VFS
          FAT32 and VFS EXTEND Evaluation
    ByteFile      <--implements-- TempFile <--EXTENDS-- TempFileProofs
    ProcessTree <--EXTENDS-- ProcessTreeProofs
    VMSpace     <--EXTENDS-- VMSpaceProofs

| Module | What it is | Source |
|---|---|---|
| `Scheduler` | states of processes, the ring scan, deadlines, the clock | Process.cpp 20-66, 171-208 |
| `Semaphore` | `Wait` in three steps (enqueue, schedule, resume), `Signal`, the timer | Synchronize.hpp 15-115, LinkTable.hpp 107-161 |
| `Mutex` | clients that lock, sleep in `nanosleep`, yield, unlock | Synchronize.hpp 118-140, Syscall.cpp 802-820 |
| `FifoLock` | abstract: one holder, served in the order of asking | - |
| `SemaphoreUse` | clients that wait and signal freely, with ledgers of permits | main.cpp's semaphore tests |
| `Zone` | the buddy tree | PhysicalMemory.cpp 60-330 |
| `PowersOfTwo` | `kpow2` and `klog2` | Math.hpp 5-17 |
| `PageAllocator` | abstract: aligned runs of pages, refused only if there is none | - |
| `ProcessTree` | creation, exec, exit, reaping, waiting | Process.cpp, Syscall.cpp 482-580, ELF.hpp 154-410 |
| `FileTable` | handles, descriptors, reference counts | FileSystem.hpp 161-380, Process.cpp 313-343, 406-444, Syscall.cpp 75-231, 457-474 |
| `Descriptors` | abstract: a map from numbers to open files per process, the smallest free number first | - |
| `Pipe` | a pipe on the semaphores and the scheduler, with `Destroy` | FileNodeEX.hpp 55-156, Process.cpp 484-512 |
| `VMSpace` | regions, heap, mappings, page faults, fork | VirtualMemory.cpp, VirtualMemory.hpp 250-420, Syscall.cpp 594-709 |
| `FAT32` | clusters, chains, directories, files, their nodes | FAT32.cpp, FAT32FileNode.cpp, FAT32.hpp |
| `FileStore` | abstract: a tree of named files that keep what was written; each call has its one effect | - |
| `VFS` | the tree of nodes, paths, links, the calls that name files | FileSystem.cpp, FileSystem.hpp 60-198, Syscall.cpp 136-221, 326-336, 821-883 |
| `Evaluation` | `With`, which computes a value once | - |
| `TempFile` | fragments, `Find`, handles with positions, `sendfile` | FileNodeEX.hpp 158-270, FileSystem.hpp 232-269, Syscall.cpp 233-319, 961-1007 |
| `ByteFile` | abstract: a row of bytes with handles | - |
| `MutexProofs` | theorems about `Mutex`, and its refinement of `FifoLock` | - |
| `SemaphoreProofs` | lemmas about queues; theorems about `SemaphoreUse` and `Pipe` | - |
| `ZoneProofs` | theorems about `Zone`, and its refinement of `PageAllocator` | - |
| `ProcessTreeProofs` | theorems about `ProcessTree` | - |
| `VMSpaceProofs` | theorems about `VMSpace`: its regions, users and copies; its physical pages | - |
| `FileTableProofs` | theorems about `FileTable`, and its refinement of `Descriptors` | - |
| `TempFileProofs` | theorems about `TempFile`, and its refinement of `ByteFile` | - |
| `FileSystemProofs` | theorems about the clusters of `FAT32` and the nodes of `VFS` | - |
| `MC*` | values of constants for TLC | - |

Next to some operators stands a variant with a plausible mistake
(`UnlinkNothing`, `NextFromZero`, `BindLast`, ...). No specification uses
these; `mutants` in `PROJECT.json` pairs each with the property that fails when
it replaces the operator it varies.

Several models have a constant `Careful` (`Orderly` in `VFS`). With `TRUE` the
programs keep the discipline stated at the actions it guards; without it the
code fails in the ways section 6 lists. The checks then say what holds for
programs that keep it, and `heap_overlap` runs without it.

### Scheduler, Semaphore, Mutex, SemaphoreUse

| TLA+ | Code |
|---|---|
| `stat`, `CurrentProcess`, `SemWaitingTargetTime` | the members of the same names |
| `value[s]`, `queue[s]` | `Semaphore::value`; the list from `Head` to `Tail`, a link being its process |
| `at[p]` | where `p` is in `Wait`: outside (`"code"`), past its first section with interrupts off but not yet in `Schedule` (`"enqueued"`), or in `Schedule` or past it, before its second such section (`"woken"`) |
| `clock` | `GetClockTime()`, in units of the shortest timeout |
| `fault` | `kout[Fault]` was reached; its monitor does not give the processor back |
| `inside` | callers between the return of `Lock` and the call of `Unlock` |
| `signalled`, `granted` | history: permits made by `Signal`, `Wait`s that returned true |

`S_UserRunning` and `S_Running` are one state `"Running"`: the trap handler
changes the first to the second before any scheduling. A scan that is tried
again because a sleeper has a deadline is no step: `Schedule` is disabled until
the clock gets there. The waiter's return value is decided by `Late`, that is
by the clock when it runs again, as in the code, and not by who woke it.
In `Mutex` process 0 only idles, as after boot, and a client may be preempted,
yield or sleep inside the section. That is more than the sections of today's
kernel do (they copy memory), and what the class has to stand: it describes
`Mutex` for any code that uses it. There is a semaphore per process that stands
for the local one of `nanosleep`.

### Zone

A node `i` of the tree is its `Page`; sons `2 i` and `2 i + 1` as in the code.
`flags` and `free_area` are the code's, a free list being a sequence with the
head first. `held` (what callers have) and `refused` (the order of a request
just answered by null) are observations, used to state properties and to map
to `PageAllocator`. The loops of `Split` and `Merge` are written as the set of
nodes on the path between two levels (`SplitNodes`, `UpTo`), where `Above(i, k)`
is `GetParent` applied `k` times; `Dismantle` takes one node off a list.
`InitArea` keeps the code's ranges, which are cut from the number of pages and
not from the leaves of the tree, and its overwriting of list heads.
`InitListsAll` says of the two constants that the heads it leaves cover all
pages; `MCZone` assumes it, so that TLC evaluates it for the run.

### ProcessTree

`Processes[p]` holds the state, father, children (first child first),
`F_AutoDestroy`, the value of `WaitSem` and where the process is (`pc`). One
step is everything the kernel does between two places where another process can
run, so `Exit` is mark, signal and schedule in one, and `Wait4` is the loop up
to a return or a sleep; `Continue` is the loop resumed. `Destroy`'s recursion
is the set of `Descendants`, the least that contains the process and, with each
of its members, its children; what the scan destroys before it stops is `Gone`,
and where it stops `ScanEnd`. `Clone` keeps both calls of `SetFa` and the copy
of the flags between them. Process 0 creates threads and images (`Spawn`) and,
when it is in `Waiters`, loads programs and waits as the tests in `main.cpp`
do. `ProcessCount` is left out: with one process the scan finds nothing, which
has the effect of its test. `fault` tells the reported faults apart: scan finds
nothing (`"switch"`), the current process is freed (`"current"`), no slot left
(`"slots"`); after any of these nothing moves.

### FileTable

A handle is named by its process, its number and a counter that tells apart
handles sharing a number (`BindToProcess` checks nothing for 0 and 1). `pre`
and `nxt` are the links of `LinkTableT`, `table[p]` the array `FileTable`.
`Walk` is the loop of `BindToProcess`, which begins at descriptor 1, or at 0
when 1 is closed. Of a handle's flags only `F_Write` on a pipe is kept, which
`Ref` and `Unref` look at. A node has its `RefCount`, `WriterCount` and
`F_AutoClose`. Each system call is one action that does all it does to handles
and nodes: `dup3` dumps, deletes what it replaces, binds, and deletes the new
handle if that fails. Mounted files keep their nodes until `Unlink`, temporary
ones until the last handle, pipes likewise. The loops of `DestroyFileTable` and
`CopyFileTable` are functions of the number of rounds (`DestroyRound`,
`CopyRound`) that stop after as many as there are handles. With `Careful`, programs do not
close descriptor 0, replace it only with 1 open, and do not unlink a mounted
file that is open.

### Pipe

`EXTENDS Semaphore`, so the writer's `Wait` is the kernel's, in its three
steps. A process has the ends in `ends[p]`; `left[p]` is what its `Write` has
still to put. Bytes are numbered in the order in which they were put, which is
what the ring is checked against. The pipe's `Lock` is left out: it is taken
and given back with interrupts off and no wait in between, so it is always
free. Nobody waits for `SemR`, because `Read` returns as soon as the pipe is
empty. `Destroy` removes a sleeper from its queue and closes its ends.

### VMSpace

Addresses are page numbers. `regions[s]` is the list, `cache[s]` is `VmrCache`
(the start of the region, or a start nobody has when it dangles), `page[s]` and
`tables[s]` what hangs under the PDT. A page needs two tables; the lower covers
four pages where the code has 512. The kernel's two regions are one. `Start`
is what the loader builds, `Fork` is `CreateFrom`, after which the regions of a
child are of the plain class although their flags still say file (`"fileCopy"`).
`Written` is a fault while the kernel writes for the user, `Touch` one in user
mode. `FaultIn` gives what the three allocations leave behind when memory runs
out after any of them.

`VMS[p]` is the space of process `p` from `SetVMS` (`Uses`) to its destruction.
A process made by `Thread` shares the space of its creator, and `SharedCount[s]`
is the count that `Ref` and `Unref` keep; `Destroy` frees the space when it gets
to zero (`LastUser`). `Heap` are the processes whose `Heap` pointer is set: only
those the loader started, so a thread cannot call `brk`, and a child of a fork
has no heap. The calls of a space are made by any process that runs in it.

With `Careful`, programs stop calling `brk` once refused and keep a page of
heap, unmap whole mappings they made, use `MAP_FIXED` only to cut a mapping,
and do not map a file where it is refused.

### FAT32

The volume is a row of slots of 32 bytes: directory entries and units of data.
`fat`, `disk` and `hint` are FAT1, the data area and the FSInfo hint; the second
FAT, which the code never touches, is left out. `node[p]` is the `FAT32FileNode`
the manager keeps for path `p`. A long name is a sequence of parts, each the 13
letters of an entry, and `Merged` keeps the code's way to put more than two
together. A short name is a triple, cut where the code cuts it: the first eight
letters before a dot, the letters behind those, and the dot with what is behind
it (`ShortNames` are the names that `IsShortContent` lets pass). `GetShortName`
drops the letters behind the eighth and a dot with nothing behind it, `Loaded`
drops the extension of a directory, and `FoundAs` is the name under which a file
is found that was made with another. `AddContent` keeps the count of sectors
that starts from the number of the cluster (`SectorOffset`). `CreateFile` and
`CreateDirectory` share `Created`, which takes a cluster and adds the entries;
which entries a name needs is decided by `IsShortContent`. `writes` says whether
`FAT32Device::Write` writes: in the repository it reads the sector instead, so
nothing reaches the disk. Both values are checked; `NodesMatchDisk` is stated
for a device that writes, because with the other the size in a node and that on
the disk differ after the first write that extends a file. A unit of data says
which file it is of, where in it, and, for the units in `Marked`, with which of
the `Payloads` it was written. `call` is history: the call made last, with its
arguments, which `FileStore` needs to say what the call should have done. No
action reads it, and the run's `VIEW` leaves it out. With `Careful`, entries of
a new name lie in one cluster and have at most two parts, a file whose name is
not kept does not become another path of the run, and the delivered file, if it
fills its cluster, is not written at its end.

`FileStore` has the volume as a set of files with what they hold. A call that is
made takes the set it finds to the one its arguments say (`Opened`, `Created`,
`Written`, `Deleted`), all at once and in no other file; one that fails for want of
a cluster may do that or nothing. On a device that does not write (`works`), every
call leaves the set as it was: what is shown to programs then never changes, and
the refinement says no more.

### VFS

`tree` is the tree of nodes with their four links, `volume` what the mounted
file system holds, as `FAT32` promises it. A path is the sequence of sections
between its slashes. `Find` looks among the nodes first and then asks the
volume (`AddFileInVFS`), which adds nodes; so does `openat` that fails. The
links made by `Init` are followed after normalisation. `cwd` is kept as it was
given to `chdir`. `Openat`, `OpenatCreate`, `Getdents`, `Mkdirat`, `Unlinkat`,
`CloseHandle` and `Chdir` are the system calls, each with the look-ups it makes;
`stopped` says that the kernel has stopped, as at the assertion on a path, or has gone
on with memory that is no node any more or was never written, after which nothing
is said. With `Orderly`, programs bring none of the latter about: they unlink no
node that is open, or has an open one below it, nor the root of the volume, make
no directory in its place and ask `getdents64` for the entries of directories only.

### TempFile

`frags` is the list of `DataFragment`s, `cache` is `DataCache`. `ReadRound` and
`WriteRound` are one time round the loops of `Read` and `Write`, each with its
`Find`, and `ReadFrom` and `WriteTo` go round as often as the loops can: a round
of `Read` takes a byte or is the last, one of `Write` puts a byte or finds a
fragment for the next. `FileHandle`'s position is moved by what the call returned
(`HandleRead`, `HandleWrite`), from part to part of a `readv` or `writev`, which
`ByteFile` promises to be one read or write. `sendfile` is a step for its tests
and one for each round, all with interrupts off, so nothing else is enabled in
between. `Garbage` is what fresh memory holds, and
what is in the buffer of `sendfile` behind a short read. With `Careful`,
programs do not seek behind the end and do not send a file to the same handle.

## 3. The runs

| Run | Question | States |
|---|---|---|
| `mutex` | Three clients around one mutex, with preemption, `Rest` and `nanosleep` inside the section: at most one inside (`MutualExclusion`), no waiter left asleep with the mutex free (`NoLostWakeup`), service in order (`ImplementsFifoLock`), and every waiter gets in (`LockGranted`). `IInv` is the inductive invariant of the proofs. | 6 981 |
| `semaphore` | Three clients, two semaphores, every kind of wait and signal: `value` and queue account for every permit (`PermitAccounting`), a process is in one queue once and only during `Wait` (`OneQueueEach`), sleepers are granted in order (`GrantsInOrder`), a timed wait ends (`TimedWaitEnds`). | 97 354 |
| `zone` | Every order of requests (0, 1 and 5 pages) and frees on ten pages under sixteen leaves: counted pages are on lists (`CountedPagesAreListed`), everything merges back (`FreedMemoryMergesBack`), an answer has the right size (`RequestServed`), and `PageAllocator` is implemented (`ImplementsPageAllocator`), so no page is handed out twice. | 47 621 |
| `process_tree` | Four slots reused by fork, thread creation, exec, exit, wait and preemption in every order: the tree is consistent, nobody sleeps for an exit that is over, a child waited for keeps its slot, in the end processes without a reaper are destroyed and waiting fathers return. | 125 737 |
| `file_table` | Two processes open, duplicate, replace, close, unlink, fork and die: reference counts are the numbers of handles (`CountsExact`), no handle names a deleted node (`NodeLivesWhileNamed`), the list and the array of a process hold the same (`ListAndArrayAgree`), and a table is a map from numbers to open files whose new entry is the smallest free one (`ImplementsDescriptors`). | 149 158 |
| `pipe` | Three processes with the ends of a pipe, any of which may be destroyed while it sleeps in `Write`: the ring holds exactly what was written and not read, in order (`RingHoldsUnread`), nobody is asleep in a deleted pipe (`NobodyInDeletedPipe`), and with a reader that goes on every write returns (`WriteReturns`). | 105 333 |
| `vm` | Two spaces over few physical pages, with mapping, unmapping, `brk`, page faults that run out of memory, fork, threads and destruction: regions are sorted and apart, a look-up through `VmrCache` gives what a walk of the list gives (`CacheTellsTheList`), every physical page is free or in one place (`FramesAccounted`), a space exists exactly as long as a process has it (`SpaceOutlivesItsUsers`), and fork gives a child the same regions and contents (`ForkCopies`). | 143 391 |
| `fat32` | Files and directories with a long name, short names, and names the short form cuts, until the clusters run out, with a device that writes and one that does not: chains end and share no cluster, nodes say what the entries say (`NodesMatchDisk`), a look-up of a name finds the first entry a listing has of it, and only names that were cut are listed twice (`ListingMatchesLookup`), and every call does what its arguments ask for, and nothing else (`ImplementsFileStore`). | 50 862 |
| `vfs` | `openat`, `getdents64`, `mkdirat`, `unlinkat`, `chdir`, `close` over paths that climb, repeat slashes and go through links: links of the tree fit together, the path of a node leads back to it, nodes are those of the volume, and what a path finds is what it means. | 17 304 |
| `temp_file` | Two handles on a temporary file of fragments of two bytes, read, written, in one part or two, moved, duplicated and sent: the fragments tile the file (`FragmentsTile`) and `ByteFile` is implemented. | 28 002 |
| `tree_freed`, `heap_overlap` | Two statements that the code does not keep; see section 6. | |

### Type invariants

Most modules of a component have a `TypeOK`. Those of `Mutex`, `Zone`,
`FileTable` and `FAT32` are proved as theorems, that of `SemaphoreUse` as a part
of `UInv`; what has the role of one in `VFS` is a part of `VFSInv`. But for the
mutex's, in `IInv`, they are not among the properties of the runs, which are
kept for what could go wrong in the code; the structural invariants of `VFS`
(`TreeLinked`) and `TempFile` (`FragmentsTile`) do the work of one.

### Bounds

* Processes: process 0 and three others. Three clients give a holder, a head
  and a second waiter, which is what order and lost wakeups need; the proofs
  cover every number. In the tree four slots give a father, a child and a
  grandchild beside process 0, or two brothers; slots are reused without bound.
* `MaxClock` (2 or 3) and `Timeouts`: a deadline can be before, at and after
  the time the waiter runs again; two sleepers can have different deadlines.
  When the clock has stopped, a wait that could not end in time is not begun.
  Nobody waits with a timeout in `Pipe`, so its clock stands still.
* `MaxSignals`, `MaxGrants` bound only the ledgers of `SemaphoreUse`: more than
  one permit and more than one waiter at a time.
* `MaxPermits` (2) bounds how often a father may be told of exits he has not
  waited for: `MayAdopt` refuses a creation that could go beyond it. Two are
  enough for a permit left over from an earlier child.
* `Zone`: order 4 with ten pages has blocks of four orders, two of them without
  a partner; requests of 0, 1 and 5 pages get runs of two, one and eight, so they
  are exact and rounded up. The proofs cover every size.
* `FileTable`: an array of three direct entries where the code has eight, and
  numbers up to 3, so a descriptor can be in the array, on the list only, and
  behind a gap; five handles in two processes are shared nodes, duplicates and
  a fork of a table with something in it. One node of each kind that is deleted
  differently.
* `Pipe`: a ring of two bytes and writes of up to three, so that a write wraps,
  fills the ring and sleeps in the middle; six bytes in all go round it three
  times. Two writers can sleep at the same time.
* `VMSpace`: 14 physical pages are fewer than two spaces can ask for, and a
  fault can run out at each of its three allocations. Five regions are the
  program, the stack, the kernel, the heap and one mapping, or two mappings
  without heap; with few pages between the heap and the stack, a mapping has a
  gap on either side or meets the heap.
  Two processes are one space each, or a space and the thread that shares it,
  which either of them can leave first.
* `FAT32`: two sectors in a cluster, two slots in a sector and clusters up to 6:
  a directory and a file can each take a second cluster, and the volume can be
  full. Sizes up to 5 are one more than a cluster. The names are a file with an
  extension, on which the delivered volume's entry rests, a long name of two parts,
  a directory with a file in it, and nine letters without a dot. The file with the
  extension may be deleted and made again as a directory, which loses it; the nine
  letters may be made twice, and both are listed as the first eight. A written unit
  differs from a delivered one in place 2 (`Marked`): one place inside the file
  and one payload show a write that is lost or goes astray.
* `VFS`: ten nodes are the fixed ones and what the volume can add; one open
  handle suffices, as its properties are about nodes; inputs are in `MCInputs`.
* `TempFile`: sizes up to 5 are three fragments, the last one half full; calls
  of two bytes, or of two parts of one, start in one fragment and end in the
  next; a buffer of one byte makes `sendfile` go round. Two handles move apart
  and disturb `DataCache`.
* Deadlock is checked in `mutex`, `semaphore`, `zone`, `file_table` and `pipe`.
  It is not where the kernel may stop after a fault (`process_tree`,
  `tree_freed`), nor where the bounds leave a program without a next call
  (`vm`, `heap_overlap`, `fat32`, `vfs`, `temp_file`): these are sequential.

### Fairness, and why the code justifies it

* `WF` of `Block` and the resuming half of `Wait`: nothing but the end of
  that code can take the processor from a process inside it, as interrupts are
  off (process 0 is preempted there, and then resumed by the ring).
* `SF` of `Yield \/ Timer`, for each process: the timer interrupt is periodic,
  and a kernel thread, which it cannot reach, must call `Rest` now and then;
  the kernel's threads do. It is strong because the process is not always the
  current one.
* `SF` of `Unlock` (`Mutex` only): a section ends once its process has run
  often enough. This is an assumption about the users of the mutex;
  `TempFileNode`'s `Lock`s have their `Unlock` at the end of the same function.
* `WF` of the clock.
* `ProcessTree`: `WF` of "somebody yields, finishes loading or continues".
  Nothing is assumed of `Exit`: a program may run for ever. Nothing makes a
  process wait for its children either.
* `Pipe`: `WF` of the timer and of each step of a `Write` that is under way, as
  the hart goes on running whatever is current. `SF` of `Read` by the reader is
  an assumption about the program: who holds the reading end goes on reading
  whenever it gets the processor often enough.

## 4. What is proved

### The mutex

For any number of processes and clients, any timeouts and any choice of
interruptible processes, under the assumptions `SchedulerAssumption`,
`SemaphoreAssumption`, `MutexAssumption` and `MutexSemaphores` (two or more
slots; clients other than process 0; timeouts positive; one mutex with one
permit and an empty private semaphore per process):

| Theorem | Statement |
|---|---|
| `Invariance` | `Spec => []IInv` |
| `TypeCorrect` | `Spec => []TypeOK` |
| `MutexExcludes` | `Spec => []MutualExclusion` |
| `UnlockNeverLost` | `Spec => []NoLostWakeup` |
| `SchedulerLives` | `Spec => []SchedulerNeverFails` |
| `StatesAgree` | `Spec => []SchedulerConsistent` |
| `FifoLockImplemented` | `Spec => ImplementsFifoLock` |

Mutual exclusion is not inductive: a `Signal` adds to `value` and makes the
head of the queue ready, but leaves the link, and the permit is only taken over
when the waiter runs. The invariant has to follow the permit through that gap.
`OnePermit` says `value + length of the queue` is 1 with nobody inside and 0
otherwise; `OnlyHeadAwake` says that exactly the head of the queue is awake, and
only with nobody inside. So a resuming waiter is the head and the section is
empty, and a `Lock` that finds a permit finds an empty queue. `OnlyHeadAwake`
needs that no deadline wakes a waiter of the mutex (`LockUntimed`: a deadline of
0, which every resume restores and no `Wait` outside a queue changes), that a
process has one link (`LinksUnique`), and that `stat` agrees with the place in
the code (`StatAgrees`). `BootIdle` (process 0 is in no wait) means there
is always somebody the scheduler can switch to.

`StatesAgree` needs one thing more, `WaitersQueued`: who is inside `Wait` is
linked in a queue. It is proved inductive on top of `IInv`. `SchedulerNeverFails`
and `SchedulerConsistent` are proved only; the first needs `IInv`, which the run
checks.

The proof has a lemma per action. `ScheduleStep` serves `Rest`, the timer and
the `Schedule` inside `Wait`; `EnqueueStep` and `ResumeStep` serve both `Lock`
and `nanosleep`. `UnlinkFacts` says what `LinkTable::Remove` does to a queue.
The refinement maps the abstract line to the holder followed by the queue; its
lemmas `ConsFacts`, `TailOfCons`, `AppendToCons` and `UnlinkHead` are about
sequences, and then each of `Acquire`, `Request`, `Enter` and `Release` has a
lemma, all other steps being stutters.

### Semaphores in general

`SemaphoreProofs` begins with what the proofs about `SemaphoreUse` and `Pipe`
share: `QueueInv` (links are unique, and a process is linked exactly while it is inside
`Wait`), that appending a link and taking one out keep it, and where the other
links are afterwards.

| Theorem of `SemaphoreProofs` | Statement |
|---|---|
| `PermitsBalance` | `Spec => []PermitAccounting` |
| `OneLinkSuffices` | `Spec => []OneQueueEach` |
| `GrantedInOrder` | `0 \notin Clients` implies `Spec => GrantsInOrder` |

The first two need `UInv` (types, `QueueInv`, the books) and nothing of the
scheduler, so they hold with process 0 among the clients as well. The order of
grants needs `OrderInv`: of the processes in a queue only the first, or one past
its deadline, is awake (`AwakeFirst`), and a waiter that runs again was woken
(`CurrentAwake`). The latter is what fails for process 0, whose `Schedule`
returns when there is nobody else to run; hence the hypothesis.

### Pipes

| Theorem of `SemaphoreProofs` | Statement |
|---|---|
| `BytesInOrder` | `PipeSpec => []RingHoldsUnread` |
| `DeletedPipeIsEmpty` | `PipeSpec => []NobodyInDeletedPipe` |

For any length of the ring and number of processes. `RingInv` says that `PosR`
and `PosW` are the counts of bytes modulo the length and that the place of each
unread byte holds it; `ModAdd` moves a position on, `ModApart` says that bytes
less than a round apart have different places, so a write overwrites nothing
unread. `InsideInv` says that who is inside `Wait` is in a `Write`, who is in a
`Write` has the writing end, and who was destroyed has no end; with `QueueInv`
that leaves the queues of a deleted pipe empty.

### The buddy zone

| Theorem of `ZoneProofs` | Statement |
|---|---|
| `ZoneInvariant` | `Spec => []ZoneInv` |
| `TypeCorrect` | `Spec => []TypeOK` |
| `HandedOutOnce` | always: blocks in use share no page with each other or with a block on a list, and their pages exist |
| `NoPageIsLost` | always: the pages counted free and not on a list are as many as after `Zone::Init` |
| `MergesBack` | `Spec => []FreedMemoryMergesBack` |
| `Served` | `Spec => RequestServed` |
| `CountedPages` | `InitListsAll` implies `Spec => []CountedPagesAreListed` |
| `Implements` | `InitListsAll` implies `Spec => ImplementsPageAllocator` |

For any order of the root, any number of pages less than the leaves, and any
requests. The last two need `InitListsAll`, a statement about the two constants:
where `Zone::Init` lists fewer pages than it counts they are false from the start
(section 6). `NoPageIsLost` is what is true of all sizes.

`ZoneInv` says that `held` are the nodes flagged used, that the lists hold the
free blocks, each once and by its order (`ListsHold`), and that the count is that
of their pages, all of the flags at once (`Shape`). A free node is a block only if
its parent is divided, or if `Init` listed it (`Live`): below a free or used
block all nodes are free too and on no list, which is what `Split` relies on.
`Shape` further says that a divided node has two sons not both free; without it
merging back could not be shown, as `DividedHoldsUsed` follows it down to a block
in use. `BlocksApart` and `BlocksCover` are what the other results come to: free
and used blocks share out the pages of the blocks of `Init` (`Base`).

The tree is numbers, so the proof starts with powers of two and the nodes of an
order (`PlaceFacts`, `PartnerFacts`, `PagesFacts`). `SplitShape` and `MergeShape`
say what a whole `Split` and a whole `Merge` do to the flags, wherever the loop
stops, and `AllocLists` and `FreeLists` what they do to the lists; `FreeAddressIs`
is `QueryPage`'s search by address. For the refinement an available run is a node
with only free pages, all of which lie in blocks on lists; one of these contains
the run, so a refusal is right (`RefusedRightly`).

### Address spaces

| Theorem of `VMSpaceProofs` | Statement |
|---|---|
| `SpaceInvariant` | `Careful` implies `Spec => []SpaceInv` |
| `RegionsStayDisjoint` | `Careful` implies `Spec => []RegionsDisjoint` |
| `CacheStaysTrue` | `Careful` implies `Spec => []CacheTellsTheList` |
| `ForksCopy` | `Careful` implies `Spec => ForkCopies` |
| `SpacesOutliveUsers` | `Spec => []SpaceOutlivesItsUsers` |
| `PagesAddUp` | `Careful` implies `Spec => []FramesAccounted` |

For any number of processes, any layout that `VMAssumption` allows and any
amount of physical memory. `Careful` is needed for all but one:
`heap_overlap` shows regions overlap without it. `SpacesOutliveUsers` rests on `UsersInv`
alone, which says that `SharedCount[s]` is the cardinality of the set of processes
with space `s`, that `s` exists when this set is not empty, and that who runs has
a space; `UsesKeeps` and `DestroyUsers` are the steps that add a process to the
set and take one away. `SpaceInv` says that in each space the regions are
not empty, sorted and apart, that the cache is nothing or the start of one of
them (`ListsApart`), and that the kernel's region is among those of a space that
exists, and one that does not has none (`KernelMapped`): `GetUsableVMR` looks at
the gaps between regions only, and the kernel's is what bounds the last.
Disjointness alone is not
inductive: an empty region may lie at the start of another, after which the
cache cannot tell them apart and an insertion stops in the wrong place.
`InsertAtFacts`, `RemoveAtFacts` and `EndedApart` say what adding, removing and
moving the end of a region do to a list, `FindTells` that a true cache gives
what the list has; then there is a lemma for each system call. `ForksCopy`
follows from it: the lists of father and child are equal region by region, and a
page the father has outside its regions is one the child does not get.

`PagesAddUp` is a balance, so its invariant (`FramesInv`) says only that what is
counted is finite and that a space that does not exist holds nothing. The work
is in `Paid`: a change of a space takes from the free pages exactly what it adds
to the space and its tables. It is shown for a page fault with each of its
three allocations failing, for a fork, which copies a part of what the father
has or is refused whole, and for `Destroy`, which gives everything back.

### The process tree

| Theorem of `ProcessTreeProofs` | Statement |
|---|---|
| `TreeInvariant` | `Spec => []TreeInv` |
| `TreeStaysConsistent` | `Spec => []TreeConsistent` |
| `ExitsAreNoticed` | `Spec => []NoLostExit` |
| `ChildrenStay` | `Spec => WaitedForStays` |

For any number of slots. `TreeInv` says that lists of children have no
repetition and agree with the fathers (`Listed`), that every set of processes
has one whose father is outside it (`NoCycle`), that a free slot is as
`Process::Init` leaves it (`FreeIsFresh`), and three things the properties do
not speak of. Only an orphan has `F_AutoDestroy` (`OrphansOnly`): so what the
scan destroys is always a whole tree from its root, and no father loses a child
behind his back; this is what `ChildrenStay` comes to. A process in the loader
is ready or running (`LoadersLive`), so no scan meets it as a zombie. Who
sleeps in `execve` or in `wait4` sleeps for something that has not happened
(`SleepersAwait`), which every `Exit` and every end of a loader has to restore
by its `Signal`. What the scan of `Schedule` does before it stops is a
set (`Gone`), closed under children since `Descendants` is the least closed
set; `SetFa` and `Destroy` take a process out of a list and leave the order of
the others.

### File tables

| Theorem of `FileTableProofs` | Statement |
|---|---|
| `FileTableInvariant` | `Careful` implies `Spec => []FInv` |
| `FileTableTypes` | `Careful` implies `Spec => []TypeOK` |
| `CountsStayExact` | `Careful` implies `Spec => []CountsExact` |
| `NodesLiveWhileNamed` | `Careful` implies `Spec => []NodeLivesWhileNamed` |
| `ListAndArrayStayEqual` | `Careful` implies `Spec => []ListAndArrayAgree` |
| `DescriptorsImplemented` | `Careful` implies `Spec => ImplementsDescriptors` |

For any sets of processes and nodes, any length of the array from 3 on and any
bound on handles. `FileTableAssumption` asks besides that pipes, files and the
serial port are different nodes and that the null handle is no handle.
`FInv` speaks of the tables between two system calls. Each number of a process
has one handle, which is linked to those of the next numbers on either side
(`Linked`), the arrays are a function of the handles (`TableOf`), the counts of
a node are of its handles, and a node with `F_AutoClose` has one (`Books`); who
lives has descriptor 0, and who does not has none. The last is what lets a walk
that begins at descriptor 0 find everything, and it is what a program loses that
closes 0: hence `Careful`.

Inside a call the books do not balance, as a handle is counted before it is bound
and `dup3` deletes one in between. So `Books` has a parameter for what is counted
and not bound yet (`Dues`): `RefBooks` adds to it, `BoundBooks` takes from it,
and `Deleted` holds for any. `FromFacts` says that a walk gives the
handles of a process by number and ends; `LinkedIn` and `TakenOff` that a list
stays one when a handle comes between its neighbours or goes; `BindFree` that
the search for a gap ends at the smallest free number, `BindNumber` that a
number asked for gets its place, wherever the walk begins. `Destroyed` and
`Copied` are about the loops over a list: what holds at each round (`Destroying`,
`Copying`), and a count that shows the loop is done after as many rounds as there
are handles. For the refinement the map of a process is the function from its
numbers to the files of its handles (`MapOf`), and each call has a lemma that
says what it does to the maps and to `FInv`.

### Temporary files

| Theorem of `TempFileProofs` | Statement |
|---|---|
| `TempFileInvariant` | `Careful` implies `Spec => []TInv` |
| `FragmentsStayTiled` | `Careful` implies `Spec => []FragmentsTile` |
| `ByteFileImplemented` | `Careful` implies `Spec => ImplementsByteFile` |

For any set of handles and bytes, any sizes of fragments and of the buffer of
`sendfile`, and calls and files of any length. `TempFileAssumption` asks only
for sizes that are not zero, for `Garbage` that is no byte, and for the mark
`Own` to be no offset. `TInv` says that the fragments tile the file (`Tiled`),
that no handle stands behind its end, and that between two rounds of a
`sendfile` there are as many bytes to read, and as much room within the bound,
as it has still to send. Without `Careful` a handle goes behind the end, where
a read gives what memory held, and the refinement fails.

`FoundIs` says that in a tiled file `Find` gives the fragment of the position,
whichever was used last, or none just at the end. The loops are functions
of the number of rounds over a set of states in which what has been read, or
written, is right so far (`ReadStates`, `WriteStates`); a round stays in the set
and lowers a count (`ReadRoundFacts`, `WriteRoundFacts`), so that after as many
rounds as the count there is nothing left to do (`RoundsEnd`). Rounds are
counted with a least number at which the claim fails (`AllNumbers`), the
form of induction the prover can use. `ReadGivesPart` and `OverwrittenRow` turn
bytes in fragments into parts of a row; `OverwrittenTwice` and `SubSeqSplit` join
the two parts of a vector.

### FAT32

| Theorem of `FileSystemProofs` | Statement |
|---|---|
| `VolumeSound` | `Spec => []FInv` |
| `TypeCorrect` | `Spec => []TypeOK` |
| `ClustersOwnedOnce` | `Spec => []ChainsApart` |

For any sizes of sectors, clusters and volume, any set of paths and any bounds,
with `Careful` or without it, and for a device that writes or only reads. Without
`Careful` entries land in other directories' clusters, between the data of files
or beside the data area; the theorems say that even then no cluster changes hands.
`FATAssumption` asks for sizes that are not zero, room for the clusters of the
root and of the file the volume is delivered with, a short name for that file,
and a set of paths that has with each the paths above it; `NamesAssumption` for
short names as they are described in section 2.

Disjoint chains are not inductive: that two chains are apart says nothing about
links that no chain has reached yet. `Sound` speaks of single links instead.
Everything from the hint on is free (`AboveHintFree`), a link leads to a cluster
taken later than its own (`LinksAscend`), no two clusters have the same next one
(`LinksApart`), and the first cluster of an entry, deleted ones included, has no
cluster before it and no other entry (`EntriesApart`). `NodesSound` says that a
node of the tree has a cluster that was taken. An allocation takes a cluster that
nothing leads to, `Extended` links it behind the last cluster of a chain, and an
entry for a fresh cluster may be written into any slot: it can only cover an
entry, which takes a head away (`PutSound`, `PutFresh`).

`ChainIs` says that `Chain` gives a whole chain, since it ascends and so ends
within as many rounds as there are clusters; `ChainsMeet` that of two chains
with a cluster in common, going back link by link, one contains the head of the
other, and heads have nothing before them. `FindPathIs` says that a lookup ends
at the root or at the node of a short entry whatever names the path has.
Loops are functions of the number of rounds; `Rounds` and `OneLoop` say that
such a function exists, is unique and stays in the sets that each round keeps.

### The virtual file system

| Theorem of `FileSystemProofs` | Statement |
|---|---|
| `TreeStaysLinked` | `Orderly` implies `VFSSpec => []TreeLinked` |
| `PathsAlwaysLeadBack` | `Orderly` implies `VFSSpec => []PathsLeadBack` |
| `NodesAlwaysMatchVolume` | `Orderly` implies `VFSSpec => []NodesMatchVolume` |
| `PathsFindWhatTheyMean` | `Orderly` and `NoneMistaken` imply `VFSSpec => []FindsWhatIsMeant` |

For any set of paths, of any sections, and any number of nodes and handles. A
program that unlinks what it has open leaves handles that point to freed memory;
nothing is claimed of what follows (section 6), so all four have `Orderly`.
`VFSAssumption` asks for `Null` to be no number, for inputs that are paths, and
for room for the fixed nodes. `NoneMistaken`, of the last theorem only, says
that no section of an input differs from `zero` or `null` in its last letter and
nowhere else: `MatchPrefix` passes over that letter (section 6), so with such a
section a path does find what it does not mean. The run has inputs for which it
holds. Paths one letter shorter than the source of a link are not inputs at all:
what they match is what lies behind them in memory.

`VFSInv` says that the tree is sound and agrees with the volume. The
properties need each other: that a path leads back to its node needs the lists of
children to be complete and the names in them to differ; that names differ after
a look-up needs a node to be made only if a search of the list found none; that
nodes match the volume needs their paths to differ, or else a deletion at one
path would leave a node elsewhere with nothing to stand for. So `TreeSound` has
all of it: every node but the root has a father (`FathersThere`), the list that
`child` and `nxt` give has every child once and agrees with `pre` (`Linked`),
no two children of a node share a name (`NamesApart`), files of the volume lie
below its only mount, which is at `/VFS/FAT32` (`KindsFit`, `AtMount`), and `/tmp`
is there (`TmpThere`), since a temporary file is put into what a look-up of it
finds. `NodesIn` is the agreement with the volume: nodes stand for what it holds
(`Standing`), and when it holds anything it is mounted (`MountedFor`). A volume holds
with a file the folder it is in (`VolumeTyped`), or else a look-up would end
before it gets there.

That the tree has no cycle is `Acyclic`: any set of nodes without the root has a
node whose father is not in the set. In this form it is kept by a step with a
look at one set, and it gives induction along fathers without a count of steps
(`ByFathers`). With it `UnderIs` and `PathIs` say what the recursive `Under` and
`PathUpTo` compute, and `PathsUnique` that they are functions at all; `ChildrenIs`
says that walking `nxt` for as many rounds as there are nodes gives the whole
list. `AddedSound` and `DeletedSound` are the two ways a tree changes, from
`GrownBy` and `ShrunkBy`, which say what `SetFa` and the destructor of a node
write; `ClosedSound` and `VolumePathsApart` are about a node of the volume that
goes with its file. `DownSound` is one section of a look-up, which may add a
node, and `FindSound` all of it; `FindLast` lets a path be followed from its
end, as `PathLeadsBack` needs. `NormalizedTyped` and `FollowedTyped` say that
normal forms are paths again, and each call has a lemma of its own
(`OpenatKeeps` to `ChdirKeeps`).

`PathsFindWhatTheyMean` compares two definitions of what a path means. The code
goes through its sections from the left and lets each `..` take the last section
there is; `Meant` counts, from each section to the right, the `..` and the names
behind it, and keeps the sections that no `..` takes. `NormalizedStays` goes along
the code's way: after i sections, what there is are exactly the sections that
stay among the first i, in their order (`Stays`). A name stays itself and takes
nothing away (`StaysNamed`); a `..` takes the last that stays, and no other, since
between that one and the `..` there are as many names as `..` (`KeptBalance`,
`StaysLeft`). `RankedIs` then says that the k-th of them is the one `Meant` puts in
place k, and `FollowedIs` that the link followed is the one whose source the path
starts with. `FoundIsNamed` is the other half: a look-up of any path finds the
node of that path, or makes it, exactly if a node or a file of the volume has it
(`FindNames` and `PathLeadsBack` for the nodes, `VolumeFound` along a path in the
volume).

Names are taken from `Words`, the sections of the inputs with the literals the
kernel uses: the provers do not know a literal for a string, and `NoneMistaken`
is to be about names that occur.

### Only model-checked

* The liveness properties of `Mutex`, `SemaphoreUse`, `ProcessTree` and `Pipe`:
  fairness is beyond the prover.
* `NodesMatchDisk`, `ListingMatchesLookup` and `ImplementsFileStore` of `FAT32`.
  They depend on what a scan of a directory finds in any row of entries, with
  `SelectSeq` and names put together from several of them: induction over data.

## 5. What is not modelled, and why

* The vendored K210 drivers, about half the lines of the kernel: register
  layouts and accessors that keep no state of their own.
* The virtio driver, which the default build leaves out, and the RAM image.
* `ProcessManager::Destroy` (called by nobody) and the fork server (disabled).
* `sstatus.SUM`, which a switch of processes neither saves nor restores.
* Copying of accounts and names at `Clone`: data.
* The contents of executables; the loader always succeeds in `ProcessTree`, and
  in `VMSpace` it has put in its regions what `Start` says.
* `Save` and `Load` of mapped files move bytes between a region and a node;
  `VMSpace` has the regions, not the bytes.
* In FAT32: the second FAT, the case and encoding of letters, time stamps, and the
  bytes of a partial sector.
* A mapping of a file counts in the file's node without a handle
  (`Ref(nullptr)`, `Unref(nullptr)`, `FileNodeEX.hpp` 358, 367): `FileTable` has no
  mappings and `VMSpace` no counts, so `CountsExact` is about handles.
* Process 0 as a client of semaphores: the models allow it (`Clients`), no run
  has it since it stops the kernel (section 6).
* Calls that only report (`getpid`, `uname`, `times`, `fstat`).
* What follows `kout[Fault]` (an interactive monitor), formatting, console
  output, `StupidFileSystem` (superseded by FAT32), user programs.

## 6. Where code and documents differ

Two runs show a disagreement:

1. `tree_freed`: the scan destroys a zombie with `F_AutoDestroy` together with
   its children, one of which may be the process that called `Schedule`; it
   takes a child in a lower slot than its father (`Process.cpp` 55, 109-110).
2. `heap_overlap`: a `brk` that is refused has moved the break already, and a
   later one below it moves the end of the heap without a test
   (`VirtualMemory.hpp` 372; `Doc/0x42` line 83 promises that regions never
   overlap).

The rest was met while the code was modelled. The models contain it, or a
discipline (`Careful`) that avoids it; no run is kept for it.

Processes and semaphores:

* `Signal(SignalAll)` looks at the first link each time round its loop and
  unlinks nothing, so it wakes one process (`Synchronize.hpp` 87; `Doc/0x33`
  line 25 says all).
* A `KeepWait` of process 0 returns true without a permit when no other process
  can run, as `Schedule` then just returns (`Process.cpp` 58; `Doc/0x33` line
  24). If process 0 waits for a child which is all that can run, as tests in
  `main.cpp` do, the child's next scan leaves out its caller, finds nobody and
  the kernel stops. In the runs process 0 only idles, or waits where somebody else
  can run.
* A process destroyed after a `Signal` and before it runs takes the wakeup with
  it.

Memory:

* `InitArea` halves the number of pages while the tree halves its leaves, so for
  many numbers of pages (7, 9 or 11 under sixteen leaves, not 10 or 13) it visits
  no block for some pages at the end, yet `free_page_num` counts them
  (`PhysicalMemory.cpp` 118-134, 161). The run and two theorems have such numbers
  excluded by `InitListsAll`.
* `brk` back to the start leaves an empty region, and so does a `MAP_FIXED`
  exactly over a mapping; the next fork meets `Init`'s assertion. `munmap` of
  the heap leaves `Heap` pointing at it; of nothing, goes on with a null region
  (`Syscall.cpp` 612); of a file mapping inherited through fork, casts a plain
  region to a file region.
* A refused mapping of a file deletes the node of the open file (`Syscall.cpp`
  706). Pages stay mapped after `munmap` (`VirtualMemory.cpp` 147). Mappings
  are not written back at exit, as `Doc/0x52` has it.

Files:

* Closing descriptors 0 and 1 and opening three files gives out a number twice
  (`FileSystem.hpp` 310-359; `Doc/0x53` line 38).
* A read of a pipe that comes up short says nothing about the writers, and
  `WriterCount` is read by nobody (`FileNodeEX.hpp` 64-98; `Doc/0x52` lines 13,
  23, 34). `SemR` and `SemW` collect permits without bound.
* An `lseek` behind the end of a temporary file is let through, and reading
  there inside the last fragment gives what memory held (an unsigned difference,
  `FileNodeEX.hpp` 214). `sendfile` from behind the end, or to the same handle,
  writes what its buffer held before, and returns the number asked for. Handles
  made by `dup` have positions of their own.
* `FAT32Device::Write` reads the sector instead of writing it (`FAT32.hpp` 48;
  `Doc/0x12` line 43, `Doc/0x51` line 69).
* Names of three and more long parts are merged in the wrong order. The count of
  sectors in `AddContentToCluster` starts from the number of the cluster.
  Entries that cross the end of a cluster go on in the cluster behind it. A write
  that begins just past a chain that is full, as the delivered one may be, follows
  the end mark to a place outside the device (`FAT32FileNode.cpp` 86-99, 140). A new
  directory's cluster is not cleared. Deleting a file with a long name leaves
  the parts of the name, which the next listing gives to somebody else. Clusters
  of deleted files are not taken back, and the hint runs past the end of the FAT.
* `Doc/0x54` line 41 says that a name of more than 8 letters is a long one.
  `IsShortContent` looks at lengths only where there is a dot (`FAT32.cpp` 399-457),
  so `abcdefghi` is short; `GetShortName` keeps eight of its letters (458-539). From
  the twelfth letter on it writes past its buffer of 11 bytes: nothing is said of
  such names, and the run has none. `abcdefghi` and `abcdefghj` become one name, listed twice,
  and neither is found under the name it was made with, so each `O_CREAT` makes
  another. A directory loses what is behind its dot (`FAT32.cpp` 823). The models
  contain this; `ListingMatchesLookup` and `FileStore` say what is left to rely on.
* `MatchPrefix` passes over the last letter of a prefix (`FilePathTools.hpp`
  79-87). A path one letter shorter is matched as well, its end mark in place of
  that letter, and what lies behind it in memory is taken for the rest
  (`/dev/zer`). `chdir` does not ask whether its target exists; after one to a
  relative path, a relative name stops the kernel, as does `mkdir` outside the
  volume. An unlinked temporary file that is open stays findable. `unlinkat` of
  what is neither temporary nor on the volume reports success, and of the
  volume's root deletes the mount, after a write to a place on the device that
  was never set. `unlinkat` of a file of the volume deletes its node even while
  it is open: `FileHandle::file` then points to freed memory, which `close` and
  `openat` use (`FileSystem.cpp` 293, 317-321). `mkdirat` of the volume's root
  cuts a last section from an empty path, writes in front of a buffer of no
  bytes, and adds an entry of that name (`FilePathTools.hpp` 51-77). A failed
  `openat` asks a null handle for its number (`Syscall.cpp` 219). `getdents64`
  gives the first entry of a directory each time (`Syscall.cpp` 833-849), and
  for a file, whose listing has -1 entries (`FAT32.cpp` 208-211), an entry that
  was never written (843-855).
* `dup3` does not look at the sign of the number asked for (`Syscall.cpp` 114-133):
  -1 binds the smallest free one, as `dup` does, and with a smaller one the walk of
  `BindToProcess` finds neither a place before it nor an end and goes round for ever
  with interrupts off (`FileSystem.hpp` 334-349).

## 7. Plan

Done: scheduler, semaphores, mutex, pipe, buddy zone, process tree, file table,
address spaces and temporary files with their proofs; FAT32 with the proofs of
its clusters; VFS with the proofs of its properties.

Next:

1. Proofs: the directories of `FAT32`. Loops that are proved about are written as
   a function of the number of rounds.
2. `VMSpace` composed with `ProcessTree`: `Start`, `Fork`, `Thread`, `Exit` and
   `Destroy` of the one are calls made by the other.
3. `VirtioDisk`: the pool of descriptors and the completion interrupt.
4. The status switches of the trap handler.

The number of runs stays near a dozen: a component has one passing run, and a
violation run is kept only for a disagreement no other statement shows.
