----------------------------- MODULE Scheduler -----------------------------
(***************************************************************************)
(* Process states and the round-robin scheduler of ProcessManager          *)
(* (Kernel/Process/Process.cpp): one hart, one CurrentProcess, a fixed      *)
(* table of process slots that is scanned as a ring.                       *)
(*                                                                         *)
(* The processes of this module are all created and never exit, so the     *)
(* scan's reaping of quitting processes has nothing to do.  Kernel mode    *)
(* and user mode are one state "Running": the trap handler switches        *)
(* S_UserRunning back to S_Running before any scheduling can happen.       *)
(***************************************************************************)
EXTENDS Integers

CONSTANTS
    MaxProcessCount,    \* slots in the process table
    MaxClock            \* bound of the clock, for model checking

ASSUME SchedulerAssumption ==
    /\ MaxProcessCount \in Nat \ {0, 1}
    /\ MaxClock \in Nat

VARIABLES
    stat,                   \* Process::stat
    CurrentProcess,         \* ProcessManager::CurrentProcess
    SemWaitingTargetTime,   \* deadline of a timed wait; 0 when there is none
    clock,                  \* GetClockTime()
    fault                   \* kout[Fault] reached: the kernel has stopped

schedVars == <<stat, CurrentProcess, SemWaitingTargetTime, clock, fault>>

Proc == 0 .. MaxProcessCount - 1
Stat == {"Ready", "Running", "Sleeping"}

\* How many slots after p the scan reaches q.
RingDistance(p, q) == IF q > p THEN q - p ELSE q - p + MaxProcessCount

\* A sleeper whose deadline has passed: the scan makes it S_Ready.
TimedOut(q) ==
    /\ stat[q] = "Sleeping"
    /\ SemWaitingTargetTime[q] # 0
    /\ clock >= SemWaitingTargetTime[q]

Runnable(q) == stat[q] = "Ready" \/ TimedOut(q)

\* A scan that always starts at slot 0.
NextFromZero(p, q) ==
    /\ q # p
    /\ Runnable(q)
    /\ \A r \in Proc \ {p} : Runnable(r) => q <= r

\* The first process after p that the scan can run; p itself is not scanned.
NextInRing(p, q) ==
    /\ q # p
    /\ Runnable(q)
    /\ \A r \in Proc \ {p} :
          Runnable(r) => RingDistance(p, q) <= RingDistance(p, r)

NothingToRun(p) == \A q \in Proc \ {p} : ~ Runnable(q)

\* Some other process sleeps with a deadline: the scan is retried until it passes.
DeadlinePending(p) ==
    \E q \in Proc \ {p} : stat[q] = "Sleeping" /\ SemWaitingTargetTime[q] # 0

\* Process::Run of q: the switch leaves p wherever it called from.
Run(p, q) ==
    /\ stat' = [stat EXCEPT ![p] = IF @ = "Running" THEN "Ready" ELSE @,
                            ![q] = "Running"]
    /\ CurrentProcess' = q

\* ProcessManager::Schedule called by p.  A retried scan is no step: the
\* action is disabled until the clock reaches a deadline.  With nothing to
\* run, process 0 just returns and any other process stops the kernel.
Schedule(p) ==
    /\ p = CurrentProcess
    /\ \/ /\ \E q \in Proc : NextInRing(p, q) /\ Run(p, q)
          /\ UNCHANGED fault
       \/ /\ NothingToRun(p)
          /\ p = 0
          /\ UNCHANGED <<stat, CurrentProcess, fault>>
       \/ /\ NothingToRun(p)
          /\ p # 0
          /\ ~ DeadlinePending(p)
          /\ fault' = TRUE
          /\ UNCHANGED <<stat, CurrentProcess>>
    /\ UNCHANGED <<SemWaitingTargetTime, clock>>

\* The hardware clock, which runs whatever the processes do.
Tick ==
    /\ clock < MaxClock
    /\ clock' = clock + 1
    /\ UNCHANGED <<stat, CurrentProcess, SemWaitingTargetTime, fault>>

SchedInit ==
    /\ stat = [p \in Proc |-> IF p = 0 THEN "Running" ELSE "Ready"]
    /\ CurrentProcess = 0
    /\ SemWaitingTargetTime = [p \in Proc |-> 0]
    /\ clock = 0
    /\ fault = FALSE

SchedTypeOK ==
    /\ stat \in [Proc -> Stat]
    /\ CurrentProcess \in Proc
    /\ SemWaitingTargetTime \in [Proc -> Nat]
    /\ clock \in Nat
    /\ fault \in BOOLEAN
=============================================================================
