----------------------------- MODULE Semaphore -----------------------------
(***************************************************************************)
(* Semaphores (Include/Process/Synchronize.hpp) on top of the scheduler.   *)
(* Every section between InterruptStackSaver::Save and Restore is one      *)
(* step: there is one hart, so nothing runs inside it, and the spin lock   *)
(* taken with it is always free.  A Wait that blocks is three steps, one   *)
(* for each place where another process can run in between:                *)
(*   WaitEnqueue   up to UnlockProcess and Restore,                        *)
(*   WaitSchedule  the call of Schedule (directly or by ebreak SYS_Rest),  *)
(*   WaitResume    from the second Save to the return.                     *)
(***************************************************************************)
EXTENDS Scheduler, Sequences, SequencesExt

CONSTANTS
    Sems,       \* the semaphores
    InitValue   \* the argument of each one's constructor

ASSUME SemaphoreAssumption == InitValue \in [Sems -> Int]

VARIABLES
    value,      \* Semaphore::value
    queue,      \* the links between Head and Tail, oldest first
    at          \* where in Wait a process is; "code" when in no Wait

semVars == <<value, queue, at>>
kernelVars == <<stat, CurrentProcess, SemWaitingTargetTime, clock, fault,
                value, queue, at>>

TryWait == 0
KeepWait == -1
SignalAll == 0
SignalOne == 1

InQueue(p, s) == \E i \in DOMAIN queue[s] : queue[s][i] = p

\* The process runs code of its own, outside every Wait.
InCode(p) == CurrentProcess = p /\ at[p] = "code" /\ ~ fault

\* A link inserted after Head.
LinkFirst(q, p) == <<p>> \o q

\* Tail.PreInsert of p's link.
Link(q, p) == Append(q, p)

\* A Remove left out.
UnlinkNothing(q, p) == q

\* LinkTable::Remove of p's own link.
Unlink(q, p) == RemoveAt(q, CHOOSE i \in DOMAIN q : q[i] = p)

\* A test of the value before its decrement that is off by one.
HasPermitOrNone(s) == value[s] >= 0

\* --value leaves the value at least 0.
HasPermit(s) == value[s] > 0

\* Wait that finds a permit.
WaitTake(p, s) ==
    /\ InCode(p)
    /\ HasPermit(s)
    /\ value' = [value EXCEPT ![s] = @ - 1]
    /\ UNCHANGED <<stat, CurrentProcess, SemWaitingTargetTime, clock, fault,
                   queue, at>>

\* Wait(TryWait) that finds none: the decrement is taken back, false returned.
WaitRefused(p, s) ==
    /\ InCode(p)
    /\ ~ HasPermit(s)
    /\ UNCHANGED kernelVars

\* The deadline of a Wait; one that waits for ever has none.
Deadline(p, timeOut) ==
    IF timeOut = KeepWait THEN SemWaitingTargetTime[p] ELSE clock + timeOut

\* Wait that finds none and goes to sleep, for timeOut ticks unless KeepWait.
WaitEnqueue(p, s, timeOut) ==
    /\ InCode(p)
    /\ ~ HasPermit(s)
    /\ timeOut # TryWait
    /\ value' = [value EXCEPT ![s] = @ - 1]
    /\ queue' = [queue EXCEPT ![s] = Link(@, p)]
    /\ SemWaitingTargetTime' =
          [SemWaitingTargetTime EXCEPT ![p] = Deadline(p, timeOut)]
    /\ stat' = [stat EXCEPT ![p] = "Sleeping"]
    /\ at' = [at EXCEPT ![p] = "enqueued"]
    /\ UNCHANGED <<CurrentProcess, clock, fault>>

WaitSchedule(p) ==
    /\ at[p] = "enqueued"
    /\ ~ fault
    /\ Schedule(p)
    /\ at' = [at EXCEPT ![p] = "woken"]
    /\ UNCHANGED <<value, queue>>

\* The waiter is past its deadline: Wait returns false, whoever woke it.
Late(p) ==
    SemWaitingTargetTime[p] # 0 /\ clock >= SemWaitingTargetTime[p]

\* A late waiter that keeps the permit it has paid for.
PermitKept(p) == 0

\* What a late waiter puts back: ++value.
PermitBack(p) == IF Late(p) THEN 1 ELSE 0

WaitResume(p, s) ==
    /\ CurrentProcess = p
    /\ at[p] = "woken"
    /\ ~ fault
    /\ InQueue(p, s)
    /\ value' = [value EXCEPT ![s] = @ + PermitBack(p)]
    /\ queue' = [queue EXCEPT ![s] = Unlink(@, p)]
    /\ SemWaitingTargetTime' = [SemWaitingTargetTime EXCEPT ![p] = 0]
    /\ at' = [at EXCEPT ![p] = "code"]
    /\ UNCHANGED <<stat, CurrentProcess, clock, fault>>

\* The number of permits a Signal(n) releases.
SignalCount(s, n) ==
    IF n # SignalAll THEN n ELSE IF value[s] < 0 THEN - value[s] ELSE 0

\* A Signal that leaves the sleepers alone.
WakesNobody(s, n, q) == FALSE

\* A Signal that looks at the newest waiter.
WakesLast(s, n, q) ==
    /\ SignalCount(s, n) > 0
    /\ queue[s] # <<>>
    /\ q = Last(queue[s])
    /\ stat[q] = "Sleeping"

\* The loop looks at the first link each time round and never unlinks it, so
\* at most the first waiter is made S_Ready, however large n is.
Wakes(s, n, q) ==
    /\ SignalCount(s, n) > 0
    /\ queue[s] # <<>>
    /\ q = Head(queue[s])
    /\ stat[q] = "Sleeping"

Signal(p, s, n) ==
    /\ InCode(p)
    /\ value' = [value EXCEPT ![s] = @ + SignalCount(s, n)]
    /\ stat' = [q \in Proc |-> IF Wakes(s, n, q) THEN "Ready" ELSE stat[q]]
    /\ UNCHANGED <<CurrentProcess, SemWaitingTargetTime, clock, fault,
                   queue, at>>

\* Process::Rest, which only a running process may ask for.
Rest(p) ==
    /\ InCode(p)
    /\ stat[p] = "Running"
    /\ Schedule(p)
    /\ UNCHANGED semVars

\* The timer interrupt that calls Schedule.  It comes where interrupts are
\* enabled: in the code of an interruptible process, and for process 0, which
\* calls the kernel without a trap, also before and after Schedule in a Wait.
TimerSchedule(p, interruptible) ==
    /\ ~ fault
    /\ IF at[p] = "code" THEN p = 0 \/ interruptible ELSE p = 0
    /\ Schedule(p)
    /\ UNCHANGED semVars

ClockTick == Tick /\ UNCHANGED semVars

SemInit ==
    /\ SchedInit
    /\ value = InitValue
    /\ queue = [s \in Sems |-> <<>>]
    /\ at = [p \in Proc |-> "code"]

SemTypeOK ==
    /\ SchedTypeOK
    /\ value \in [Sems -> Int]
    /\ queue \in [Sems -> Seq(Proc)]
    /\ at \in [Proc -> {"code", "enqueued", "woken"}]
=============================================================================
