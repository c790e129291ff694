-------------------------------- MODULE Pipe --------------------------------
(***************************************************************************)
(* A pipe shared by processes (class PipeFileNode), on the semaphores and  *)
(* the scheduler.  Read and Write are system calls: interrupts are off, so *)
(* a process is switched away in them only where it waits for SemW, and    *)
(* the pipe's Lock, taken and given back in between, is always free.       *)
(* Process 0 idles; the others read, write, close and may be destroyed.    *)
(***************************************************************************)
EXTENDS Semaphore, FiniteSets

CONSTANTS
    SemR, SemW,     \* the two semaphores, both constructed with 0
    BufferSize,     \* length of the ring buffer, 4096 in the code
    MaxSize,        \* bound: bytes asked for in one call
    MaxBytes,       \* bound: bytes put into the pipe
    Reader          \* the process that is assumed to go on reading

ASSUME PipeAssumption ==
    /\ Sems = {SemR, SemW} /\ SemR # SemW
    /\ InitValue = [s \in Sems |-> 0]
    /\ BufferSize \in Nat \ {0} /\ MaxSize \in Nat /\ MaxBytes \in Nat
    /\ Reader \in 1 .. MaxProcessCount - 1

VARIABLES
    buffer,             \* bytes, by the order in which they were put; 0 unused
    PosR, PosW, FileSize,
    put, got,           \* bytes put into the pipe and taken out of it
    left,               \* left[p]: what a Write of p has still to put; 0 outside
    ends,               \* ends[p]: the ends of the pipe p has open
    gone                \* processes that were destroyed

pipeVars == <<buffer, PosR, PosW, FileSize, put, got, left, ends, gone>>
allVars == <<kernelVars, pipeVars>>

Users == Proc \ {0}
Exists == \E p \in Users : ends[p] # {}
Pending == FoldFunction(+, 0, left)
Least(a, b) == IF a < b THEN a ELSE b

\* Where p is neither in a Write nor destroyed.
Free(p) == InCode(p) /\ left[p] = 0

\* A Read that wakes a writer only when the pipe was full.
SignalsWriterIfFull(k) == FileSize = BufferSize

SignalsWriter(k) == k > 0

\* PosR set back to the start when the pipe is empty, PosW not.
NextPosRReset(k) == IF k = FileSize THEN 0 ELSE (PosR + k) % BufferSize

NextPosR(k) == (PosR + k) % BufferSize

\* The loop returns short as soon as the pipe is empty, whether or not there
\* are writers.  Nobody ever waits for SemR, so its SignalAll adds nothing.
Read(p, size) ==
    /\ Free(p) /\ "r" \in ends[p]
    /\ LET k == Least(size, FileSize)
       IN  /\ got' = got + k
           /\ PosR' = NextPosR(k)
           /\ FileSize' = FileSize - k
           /\ IF SignalsWriter(k) THEN Signal(p, SemW, SignalOne)
                                  ELSE Signal(p, SemR, SignalAll)
    /\ UNCHANGED <<buffer, PosW, put, left, ends, gone>>

WriteCall(p, size) ==
    /\ Free(p) /\ "w" \in ends[p] /\ put + Pending + size <= MaxBytes
    /\ left' = [left EXCEPT ![p] = size]
    /\ UNCHANGED <<kernelVars, buffer, PosR, PosW, FileSize, put, got, ends, gone>>

NextPosW(k) == (PosW + k) % BufferSize

\* One round of the loop that finds room; the last one is the return.
WriteChunk(p) ==
    /\ InCode(p) /\ left[p] > 0 /\ FileSize < BufferSize
    /\ LET k == Least(left[p], BufferSize - FileSize)
           At(i) == (PosW + i - 1) % BufferSize
       IN  /\ buffer' = [x \in DOMAIN buffer |->
                           IF \E i \in 1 .. k : At(i) = x
                           THEN put + (CHOOSE i \in 1 .. k : At(i) = x)
                           ELSE buffer[x]]
           /\ put' = put + k
           /\ PosW' = NextPosW(k)
           /\ FileSize' = FileSize + k
           /\ left' = [left EXCEPT ![p] = @ - k]
    /\ Signal(p, SemR, SignalOne)
    /\ UNCHANGED <<PosR, got, ends, gone>>

\* A round that finds the pipe full: a permit left by an earlier Read is used
\* up, or the writer goes to sleep.
WriteFull(p) ==
    /\ InCode(p) /\ left[p] > 0 /\ FileSize = BufferSize
    /\ WaitTake(p, SemW) \/ WaitEnqueue(p, SemW, KeepWait)
    /\ UNCHANGED pipeVars

WriteSleep(p) == WaitSchedule(p) /\ UNCHANGED pipeVars
WriteResume(p) == WaitResume(p, SemW) /\ UNCHANGED pipeVars

\* close: the node goes with the last handle (F_AutoClose).
Close(p, e) ==
    /\ Free(p) /\ e \in ends[p]
    /\ ends' = [ends EXCEPT ![p] = @ \ {e}]
    /\ UNCHANGED <<kernelVars, buffer, PosR, PosW, FileSize, put, got, left, gone>>

\* A Destroy that forgets SemWaitingLink.
StaysLinked(p) == queue

\* SemWaitingLink.Remove() takes a sleeper off the queue; what it has taken
\* from the value is not given back.
Unlinked(p) ==
    [s \in Sems |-> IF InQueue(p, s) THEN Unlink(queue[s], p) ELSE queue[s]]

\* Process::Destroy of another process, by its father or by the scan.  Its
\* slot is left as a sleeper that nobody wakes.
Destroy(p) ==
    /\ CurrentProcess # p /\ p \notin gone /\ ~ fault
    /\ queue' = Unlinked(p)
    /\ stat' = [stat EXCEPT ![p] = "Sleeping"]
    /\ at' = [at EXCEPT ![p] = "code"]
    /\ left' = [left EXCEPT ![p] = 0]
    /\ ends' = [ends EXCEPT ![p] = {}]
    /\ gone' = gone \union {p}
    /\ UNCHANGED <<CurrentProcess, SemWaitingTargetTime, clock, fault, value,
                   buffer, PosR, PosW, FileSize, put, got>>

\* The timer interrupt, in user mode or in process 0.
PipeTimer(p) == left[p] = 0 /\ TimerSchedule(p, TRUE) /\ UNCHANGED pipeVars

PipeNext ==
    \E p \in Proc :
        \/ PipeTimer(p)
        \/ /\ p # 0
           /\ \/ \E size \in 1 .. MaxSize :
                    \/ Read(p, size)
                    \/ WriteCall(p, size)
              \/ WriteChunk(p) \/ WriteFull(p) \/ WriteSleep(p) \/ WriteResume(p)
              \/ \E e \in ends[p] : Close(p, e)
              \/ Destroy(p)

PipeInit ==
    /\ SemInit
    /\ buffer = [x \in 0 .. BufferSize - 1 |-> 0]
    /\ PosR = 0 /\ PosW = 0 /\ FileSize = 0 /\ put = 0 /\ got = 0
    /\ left = [p \in Proc |-> 0]
    /\ ends = [p \in Proc |-> CASE p = 0 -> {} [] p = Reader -> {"r"}
                                [] OTHER -> {"r", "w"}]
    /\ gone = {}

\* The hart goes on running whatever is current, the timer interrupts it,
\* and Reader goes on reading: that much is asked of the program.
Fairness ==
    /\ \A p \in Proc : /\ WF_allVars(PipeTimer(p))
                       /\ WF_allVars(WriteChunk(p) \/ WriteFull(p))
                       /\ WF_allVars(WriteSleep(p) \/ WriteResume(p))
    /\ SF_allVars(\E size \in 1 .. MaxSize : Read(Reader, size))

PipeSpec == PipeInit /\ [][PipeNext]_allVars
PipeFairSpec == PipeSpec /\ Fairness

-----------------------------------------------------------------------------
PipeTypeOK ==
    /\ SemTypeOK
    /\ buffer \in [0 .. BufferSize - 1 -> 0 .. MaxBytes]
    /\ PosR \in 0 .. BufferSize - 1 /\ PosW \in 0 .. BufferSize - 1
    /\ FileSize \in 0 .. BufferSize
    /\ put \in Nat /\ got \in Nat
    /\ left \in [Proc -> Nat]
    /\ ends \in [Proc -> SUBSET {"r", "w"}]
    /\ gone \in SUBSET Users

(* The ring holds just the bytes put and not yet read, oldest at PosR,     *)
(* whoever wrote and read, and wherever a writer slept or was destroyed in *)
(* the middle of its call (Read and Write of PipeFileNode).                *)
RingHoldsUnread ==
    /\ put = got + FileSize
    /\ PosW = (PosR + FileSize) % BufferSize
    /\ \A i \in 0 .. FileSize - 1 : buffer[(PosR + i) % BufferSize] = got + i + 1

(* When the last handle deletes the pipe nobody is inside it, and no link  *)
(* of a process, alive or destroyed, is left in the queue of a semaphore   *)
(* that is freed with it (Process::Destroy, ~PipeFileNode).                *)
NobodyInDeletedPipe ==
    /\ ~ Exists => \A s \in Sems : queue[s] = <<>>
    /\ \A p \in gone, s \in Sems : ~ InQueue(p, s)

(* While there is a reader that goes on, every Write returns, however many *)
(* writers share the pipe, and although a Signal wakes only the first.     *)
WriteReturns ==
    \A p \in Users :
        left[p] > 0 ~> (left[p] = 0 \/ gone # {} \/ ends[Reader] = {})
=============================================================================
