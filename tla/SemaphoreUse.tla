---------------------------- MODULE SemaphoreUse ----------------------------
(***************************************************************************)
(* Semaphores used freely: any client waits (for ever, for a time, or not  *)
(* at all) and signals any number of permits, as the threads SemaphoreTest *)
(* and SemaphoreTest2 of main.cpp, Process::WaitSem and the pipe's SemR    *)
(* and SemW do.  Two history variables count permits.                      *)
(***************************************************************************)
EXTENDS Semaphore

CONSTANTS
    Clients,        \* the processes that use the semaphores
    Interruptible,  \* those that run in user mode between kernel calls
    Timeouts,       \* arguments of Wait: ticks, TryWait or KeepWait
    SignalCounts,   \* arguments of Signal: a number or SignalAll
    MaxSignals,     \* bound of the permits ever signalled
    MaxGrants       \* bound of the permits ever granted, past which no Wait begins

ASSUME UseAssumption ==
    /\ Clients \subseteq Proc
    /\ Interruptible \subseteq Proc
    /\ Timeouts \subseteq Nat \union {KeepWait}
    /\ SignalCounts \subseteq Nat
    /\ MaxSignals \in Nat
    /\ MaxGrants \in Nat

VARIABLES
    signalled,  \* permits released by Signal so far
    granted     \* Waits that returned true so far

vars == <<stat, CurrentProcess, SemWaitingTargetTime, clock, fault,
          value, queue, at, signalled, granted>>

Init ==
    /\ SemInit
    /\ signalled = [s \in Sems |-> 0]
    /\ granted = [s \in Sems |-> 0]

WaitNow(p, s) ==
    /\ WaitTake(p, s)
    /\ granted' = [granted EXCEPT ![s] = @ + 1]
    /\ UNCHANGED signalled

WaitTried(p, s) ==
    /\ TryWait \in Timeouts
    /\ WaitRefused(p, s)
    /\ UNCHANGED <<signalled, granted>>

WaitBegin(p, s) ==
    /\ granted[s] < MaxGrants
    /\ \E t \in Timeouts : clock + t <= MaxClock /\ WaitEnqueue(p, s, t)
    /\ UNCHANGED <<signalled, granted>>

WaitEnd(p, s) ==
    /\ WaitResume(p, s)
    /\ granted' = [granted EXCEPT ![s] = IF Late(p) THEN @ ELSE @ + 1]
    /\ UNCHANGED signalled

SignalN(p, s, n) ==
    /\ signalled[s] + SignalCount(s, n) <= MaxSignals
    /\ Signal(p, s, n)
    /\ signalled' = [signalled EXCEPT ![s] = @ + SignalCount(s, n)]
    /\ UNCHANGED granted

Block(p) == WaitSchedule(p) /\ UNCHANGED <<signalled, granted>>

Yield(p) == Rest(p) /\ UNCHANGED <<signalled, granted>>

Timer(p) ==
    TimerSchedule(p, p \in Interruptible) /\ UNCHANGED <<signalled, granted>>

PassTime == ClockTick /\ UNCHANGED <<signalled, granted>>

Next ==
    \/ \E p \in Clients, s \in Sems :
          \/ WaitNow(p, s) \/ WaitTried(p, s)
          \/ WaitBegin(p, s) \/ WaitEnd(p, s)
          \/ \E n \in SignalCounts : SignalN(p, s, n)
    \/ \E p \in Proc : Block(p) \/ Yield(p) \/ Timer(p)
    \/ PassTime

Spec == Init /\ [][Next]_vars

(* A Wait under way goes on when its process runs, the clock and the timer *)
(* interrupts come, and a process that is never interrupted yields.        *)
FairSpec ==
    /\ Spec
    /\ \A p \in Proc :
          /\ WF_vars(Block(p) \/ \E s \in Sems : WaitEnd(p, s))
          /\ SF_vars(Yield(p) \/ Timer(p))
    /\ WF_vars(PassTime)

-----------------------------------------------------------------------------
TypeOK ==
    /\ SemTypeOK
    /\ signalled \in [Sems -> Nat]
    /\ granted \in [Sems -> Nat]

(* The books balance: the value, and the waiters that have already paid    *)
(* for a permit by decrementing it, account for every permit ever made or  *)
(* used, through timeouts, failed tries and wakeups (Wait's ++value).      *)
PermitAccounting ==
    \A s \in Sems :
       value[s] + Len(queue[s]) = InitValue[s] + signalled[s] - granted[s]

(* Blocked waiters are granted first in, first out: a waiter that resumes  *)
(* with a permit is the oldest in the queue.                               *)
GrantsInOrder ==
    [][\A p \in Proc, s \in Sems :
          InQueue(p, s) /\ ~ InQueue(p, s)' /\ granted'[s] > granted[s]
             => p = Head(queue[s])]_vars

(* A process is in one semaphore's queue at a time, once, and only while   *)
(* it is inside Wait, so its single SemWaitingLink is enough.              *)
OneQueueEach ==
    \A p \in Proc :
       /\ at[p] # "code" <=> \E s \in Sems : InQueue(p, s)
       /\ \A s, t \in Sems : InQueue(p, s) /\ InQueue(p, t) => s = t
       /\ \A s \in Sems, i, j \in 1 .. MaxProcessCount :
             /\ i \in DOMAIN queue[s] /\ j \in DOMAIN queue[s]
             /\ queue[s][i] = p /\ queue[s][j] = p
             => i = j

(* A wait with a timeout always comes back, signalled or not.              *)
TimedWaitEnds ==
    \A p \in Proc :
       at[p] # "code" /\ SemWaitingTargetTime[p] # 0 ~> at[p] = "code"
=============================================================================
