------------------------------- MODULE Mutex -------------------------------
(***************************************************************************)
(* A Mutex (a Semaphore that starts with one permit) used by several       *)
(* processes the way the kernel uses it: Lock, work, Unlock, where the     *)
(* work may give up the processor, be preempted, or sleep with nanosleep   *)
(* (a timed Wait on a semaphore of its own).  TempFileNode::lock and       *)
(* PipeFileNode::Lock are used so.  Process 0 idles in main's Rest loop.   *)
(***************************************************************************)
EXTENDS Semaphore

CONSTANTS
    Clients,        \* the processes that use the mutex
    Interruptible,  \* those that run in user mode between kernel calls
    Timeouts        \* the lengths of nanosleep

ASSUME MutexAssumption ==
    /\ Clients \subseteq Proc \ {0}
    /\ Interruptible \subseteq Proc
    /\ Timeouts \subseteq Nat \ {0}

VARIABLE inside     \* the processes between Lock's return and Unlock

vars == <<stat, CurrentProcess, SemWaitingTargetTime, clock, fault,
          value, queue, at, inside>>

\* Semaphore p < MaxProcessCount is the one nanosleep of p creates.
Lk == MaxProcessCount
MutexSems == 0 .. MaxProcessCount
MutexInit == [s \in MutexSems |-> IF s = Lk THEN 1 ELSE 0]

ASSUME MutexSemaphores == Sems = MutexSems /\ InitValue = MutexInit

Init == SemInit /\ inside = {}

\* Lock with a permit to be had, and TryLock that succeeds.
LockTake(p) ==
    /\ p \notin inside
    /\ WaitTake(p, Lk)
    /\ inside' = inside \union {p}

LockEnqueue(p) ==
    /\ p \notin inside
    /\ WaitEnqueue(p, Lk, KeepWait)
    /\ UNCHANGED inside

\* Lock ignores what Wait returns.
LockResume(p) ==
    /\ WaitResume(p, Lk)
    /\ inside' = inside \union {p}

Unlock(p) ==
    /\ p \in inside
    /\ Signal(p, Lk, SignalOne)
    /\ inside' = inside \ {p}

SleepEnqueue(p) ==
    /\ \E t \in Timeouts :
          clock + t <= MaxClock /\ WaitEnqueue(p, p, t)
    /\ UNCHANGED inside

SleepResume(p) == WaitResume(p, p) /\ UNCHANGED inside

Block(p) == WaitSchedule(p) /\ UNCHANGED inside

Yield(p) == Rest(p) /\ UNCHANGED inside

Timer(p) == TimerSchedule(p, p \in Interruptible) /\ UNCHANGED inside

PassTime == ClockTick /\ UNCHANGED inside

ClientStep(p) ==
    \/ LockTake(p) \/ LockEnqueue(p) \/ LockResume(p) \/ Unlock(p)
    \/ SleepEnqueue(p) \/ SleepResume(p)

Next ==
    \/ \E p \in Clients : ClientStep(p)
    \/ \E p \in Proc : Block(p) \/ Yield(p) \/ Timer(p)
    \/ PassTime

Spec == Init /\ [][Next]_vars

-----------------------------------------------------------------------------
(* Fairness.  A process that runs goes on running, so a Wait under way     *)
(* goes on and a section is left in the end; a pending timer interrupt is  *)
(* taken when interrupts are next enabled; the clock runs; and a process   *)
(* whose code is never interrupted has to call Rest or Wait now and then.  *)
Fairness ==
    /\ \A p \in Proc :
          /\ WF_vars(Block(p) \/ LockResume(p) \/ SleepResume(p))
          /\ SF_vars(Yield(p) \/ Timer(p))
          /\ SF_vars(Unlock(p))
    /\ WF_vars(PassTime)

FairSpec == Spec /\ Fairness

-----------------------------------------------------------------------------
TypeOK == SemTypeOK /\ inside \subseteq Clients

(* Two processes are never both between Lock and Unlock, however the       *)
(* section is preempted or sleeps (Semaphore::Wait, Signal).               *)
MutualExclusion == \A p, q \in inside : p = q

(* The lost wakeup Semaphore::Signal must avoid: while somebody sleeps on  *)
(* the mutex, somebody holds it or is already on the way to taking it.     *)
Awake(p) == InQueue(p, Lk) /\ stat[p] # "Sleeping"

NoLostWakeup ==
    queue[Lk] # <<>> => inside # {} \/ \E p \in Proc : Awake(p)

(* The state the scheduler sees and the place where a process is agree:    *)
(* exactly the current process runs, except that it may sleep between      *)
(* WaitEnqueue and WaitSchedule; and who sleeps waits on a semaphore, so   *)
(* somebody can wake it.                                                   *)
SchedulerConsistent ==
    /\ \A p \in Proc : stat[p] = "Running" => p = CurrentProcess
    /\ stat[CurrentProcess] # "Running" => at[CurrentProcess] = "enqueued"
    /\ \A p \in Proc :
          stat[p] = "Sleeping" => \E s \in Sems : InQueue(p, s)

(* ProcessManager::Schedule never fails ("Scheduler failed to switch!")    *)
(* while process 0 keeps off semaphores.                                   *)
SchedulerNeverFails == ~ fault

(* Mutex implements the abstract lock: the holder, then the waiters, are   *)
(* the line.                                                               *)
Line == IF inside = {} THEN queue[Lk]
        ELSE <<CHOOSE p \in inside : TRUE>> \o queue[Lk]

Abstract == INSTANCE FifoLock WITH Users <- Clients, line <- Line

ImplementsFifoLock == Abstract!Spec

(* Everybody who waits for the mutex gets it.                              *)
LockGranted == \A p \in Clients : InQueue(p, Lk) ~> p \in inside
-----------------------------------------------------------------------------
(***************************************************************************)
(* The inductive invariant.  The mutex holds one permit, or a process is   *)
(* inside, or the head of its queue has been woken and takes over: never   *)
(* two of these, never none.                                               *)
(***************************************************************************)
LkQueue == queue[Lk]

\* Process 0 blocks nowhere, so it can always be scheduled.
BootIdle == at[0] = "code" /\ stat[0] # "Sleeping"

\* What the scheduler believes of a process, and where the process is.
StatAgrees ==
    /\ \A p \in Proc : stat[p] = "Running" => p = CurrentProcess
    /\ stat[CurrentProcess] =
          IF at[CurrentProcess] = "enqueued" THEN "Sleeping" ELSE "Running"
    /\ \A p \in Proc : at[p] = "enqueued" => p = CurrentProcess
    /\ \A p \in Proc :
          at[p] = "code" => stat[p] # "Sleeping" /\ SemWaitingTargetTime[p] = 0

\* A link is in one queue at one place, and only during a Wait.
LinksUnique ==
    \A s, t \in Sems : \A i \in DOMAIN queue[s], j \in DOMAIN queue[t] :
       /\ at[queue[s][i]] # "code"
       /\ queue[s][i] = queue[t][j] => s = t /\ i = j

\* Who waits in Lock waits for ever, so only Unlock wakes it.
LockUntimed ==
    \A i \in DOMAIN LkQueue : SemWaitingTargetTime[LkQueue[i]] = 0

OnePermit == value[Lk] + Len(LkQueue) = IF inside = {} THEN 1 ELSE 0

OnlyHeadAwake ==
    \A i \in DOMAIN LkQueue :
       stat[LkQueue[i]] # "Sleeping" <=> i = 1 /\ inside = {}

IInv ==
    /\ TypeOK
    /\ BootIdle
    /\ StatAgrees
    /\ LinksUnique
    /\ LockUntimed
    /\ OnePermit
    /\ OnlyHeadAwake
    /\ MutualExclusion
    /\ ~ fault
=============================================================================
