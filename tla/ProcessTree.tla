---------------------------- MODULE ProcessTree ----------------------------
(***************************************************************************)
(* The life of a process: creation, the tree of fathers and children,      *)
(* exit, and the two ways a process that has quit is destroyed, by the     *)
(* father that waits for it or by the scan of the scheduler.               *)
(*                                                                         *)
(* Everything the kernel does between two places where another process     *)
(* can run is one step: system calls and kernel threads run with           *)
(* interrupts disabled.  A wait on a semaphore therefore ends a step, and  *)
(* the next step of that process, Continue, begins where Wait returns.     *)
(* Process 0, which may be interrupted inside Wait as well, is followed    *)
(* there by module Semaphore.                                              *)
(***************************************************************************)
EXTENDS Integers, Sequences, SequencesExt, FiniteSets

CONSTANTS
    MaxProcessCount,    \* slots in the process table
    MaxPermits,         \* bound of the permits one WaitSem can collect
    Waiters             \* processes that wait for children

ASSUME TreeAssumption ==
    /\ MaxProcessCount \in Nat \ {0, 1}
    /\ MaxPermits \in Nat \ {0}
    /\ Waiters \subseteq 0 .. MaxProcessCount - 1

VARIABLES
    Processes,          \* ProcessManager::Processes
    CurrentProcess,     \* ProcessManager::CurrentProcess
    fault               \* "none", or the kout[Fault] that stopped the kernel

vars == <<Processes, CurrentProcess, fault>>

Proc == 0 .. MaxProcessCount - 1
Nobody == -1            \* nullptr
AnyPID == -3
Stat == {"None", "Ready", "Running", "Sleeping", "Quiting"}

\* A Process: its children are the list child, child->nxt, ...; permits is the
\* value of WaitSem, where nobody but the owner waits; pc tells where it is:
\*   "code"     in code of its own,
\*   "loader"   in the ELF loader, its creator not yet signalled,
\*   "loading"  waiting for the loader of want,
\*   "waiting"  waiting for want to exit; if exec, it exits then itself.
FreshProcess ==
    [stat |-> "None", fa |-> Nobody, children |-> <<>>, autoDestroy |-> FALSE,
     permits |-> 0, pc |-> "code", want |-> Nobody, exec |-> FALSE]

Init ==
    /\ Processes = [p \in Proc |->
                      IF p = 0 THEN [FreshProcess EXCEPT !.stat = "Running"]
                               ELSE FreshProcess]
    /\ CurrentProcess = 0
    /\ fault = "none"

-----------------------------------------------------------------------------
(* The operations on the table; P is the table they work on.               *)

Smallest(S) == CHOOSE x \in S : \A y \in S : x <= y

\* An AllocProcess that takes the slot of a process that has quit.
FreeOrQuitSlots(P) == {p \in Proc : P[p].stat \in {"None", "Quiting"}}

FreeSlots(P) == {p \in Proc : P[p].stat = "None"}

\* A Destroy without its while (child).
ItselfOnly(P, p) == {p}

\* With every process, D holds its children.
ClosedBelow(P, D) ==
    \A f \in D : \A i \in DOMAIN P[f].children : P[f].children[i] \in D

\* A process and all it would take with it: the least set that holds p and
\* the children of its members.
Descendants(P, p) ==
    CHOOSE D \in SUBSET Proc :
       /\ p \in D /\ ClosedBelow(P, D)
       /\ \A E \in SUBSET Proc : p \in E /\ ClosedBelow(P, E) => D \subseteq E

\* The members of list s that are in S, in the order of the list.
Those(s, S) ==
    LET places == {i \in DOMAIN s : s[i] \in S}
        place(k) == CHOOSE i \in places :
                       Cardinality({j \in places : j <= i}) = k
    IN  [k \in 1 .. Cardinality(places) |-> s[place(k)]]

\* A SetFa that forgets the list of the father it had.
SetFaNotUnlinked(P, p, f) ==
    IF f = Nobody THEN [P EXCEPT ![p].fa = Nobody]
    ELSE [P EXCEPT ![f].children = <<p>> \o @,
                   ![p].fa = f, ![p].autoDestroy = FALSE]

\* Leave the father's list, then become the first child of f.
SetFa(P, p, f) ==
    LET g == P[p].fa
        alone == IF g = Nobody THEN P
                 ELSE [P EXCEPT ![g].children = Those(@, Proc \ {p})]
    IN  IF f = Nobody THEN [alone EXCEPT ![p].fa = Nobody]
        ELSE [alone EXCEPT ![f].children = <<p>> \o @,
                           ![p].fa = f, ![p].autoDestroy = FALSE]

\* AllocProcess, Init, Start: a process in slot q without a family.
Started(P, q, auto, pc) ==
    [P EXCEPT ![q] = [FreshProcess EXCEPT !.stat = "Ready",
                                          !.autoDestroy = auto, !.pc = pc]]

\* CreateKernelThread, CreateInnerUserImgProcess, CreateProcessFromELF.
Created(P, q, cur, auto, pc) ==
    IF auto THEN Started(P, q, auto, pc)
    ELSE SetFa(Started(P, q, auto, pc), q, cur)

\* Clone: CopyOthers takes the father and the flags of cur, and a fork then
\* makes cur the father.
Cloned(P, q, cur, sigchld) ==
    LET sibling == SetFa(Started(P, q, ~ sigchld, "code"), q, P[cur].fa)
        copied == [sibling EXCEPT ![q].autoDestroy = P[cur].autoDestroy]
    IN  IF sigchld THEN SetFa(copied, q, cur) ELSE copied

\* The effect of Destroy on all of D, a set that holds the descendants of its
\* members; those still alive Exit on the way, and what they signal dies too.
Destroyed(P, D) ==
    [p \in Proc |->
       IF p \in D THEN FreshProcess
       ELSE [P[p] EXCEPT !.children = Those(@, Proc \ D)]]

\* Exit that marks the process without telling its father.
ExitedSilently(P, p) == [P EXCEPT ![p].stat = "Quiting"]

\* Exit: WaitSem->Signal() of the father, and S_Quiting.
Exited(P, p) ==
    LET f == P[p].fa
        tells == ~ P[p].autoDestroy /\ f # Nobody
        told == [P EXCEPT
                   ![f].permits = @ + 1,
                   ![f].stat = IF @ = "Sleeping" /\ P[f].pc = "waiting"
                               THEN "Ready" ELSE @]
    IN  [IF tells THEN told ELSE P EXCEPT ![p].stat = "Quiting"]

\* The children GetQuitingChild looks for, in the order of the list.
QuitingChildren(P, p, want) ==
    Those(P[p].children,
          {c \in Proc : P[c].stat = "Quiting" /\ want \in {AnyPID, c}})

-----------------------------------------------------------------------------
(* Schedule, called by p when the table is P.                              *)

InRing(p, d) == (p + d) % MaxProcessCount

\* A scan that destroys nothing.
NeverGone(P, p, d) == {}

\* What the scan has destroyed when it looks d slots after p.
Gone(P, p, d) ==
    UNION {Descendants(P, InRing(p, i)) :
             i \in {i \in 1 .. d - 1 : /\ P[InRing(p, i)].stat = "Quiting"
                                       /\ P[InRing(p, i)].autoDestroy}}

\* Where it stops: at a process that is ready, or at the end of the ring.
ScanEnd(P, p) ==
    Smallest({d \in 1 .. MaxProcessCount - 1 :
                /\ P[InRing(p, d)].stat = "Ready"
                /\ InRing(p, d) \notin Gone(P, p, d)}
             \union {MaxProcessCount})

\* Process::Run of q by p.
Switched(P, p, q) ==
    [P EXCEPT ![p].stat = IF @ = "Running" THEN "Ready" ELSE @,
              ![q].stat = "Running"]

\* FreeProcess of the current process, and a scan that finds nothing for a
\* process other than 0, are faults.
Schedule(P, p) ==
    \E T \in {P} : \E d \in {ScanEnd(T, p)} : \E gone \in {Gone(T, p, d)} :
       \/ /\ p \in gone
          /\ fault' = "current"
          /\ UNCHANGED <<Processes, CurrentProcess>>
       \/ /\ p \notin gone
          /\ d < MaxProcessCount
          /\ Processes' = Switched(Destroyed(T, gone), p, InRing(p, d))
          /\ CurrentProcess' = InRing(p, d)
          /\ UNCHANGED fault
       \/ /\ p \notin gone
          /\ d = MaxProcessCount
          /\ Processes' = Destroyed(T, gone)
          /\ fault' = IF p = 0 THEN fault ELSE "switch"
          /\ UNCHANGED CurrentProcess

-----------------------------------------------------------------------------
(* The steps of a process.                                                 *)

Runs(p) == CurrentProcess = p /\ fault = "none"
InCode(p) == Runs(p) /\ Processes[p].pc = "code"

\* No slot is left: Clone's ASSERTEX, or the use of a null Process.
NoSlot == FreeSlots(Processes) = {} /\ fault' = "slots"
          /\ UNCHANGED <<Processes, CurrentProcess>>

\* The bound: father f has taken on no more children than it may be told of.
MayAdopt(f) ==
    f # Nobody =>
       Processes[f].permits
         + Cardinality({c \in Proc : /\ Processes[c].fa = f
                                     /\ Processes[c].stat # "Quiting"})
       < MaxPermits

\* AllocProcess takes the first free slot.
NewSlot == Smallest(FreeSlots(Processes))

\* Table P, with a process in the new slot, is the new table.
Becomes(P) ==
    \/ NoSlot
    \/ /\ FreeSlots(Processes) # {}
       /\ Processes' = P
       /\ UNCHANGED <<CurrentProcess, fault>>

\* Process 0 creates kernel threads and the user images linked to the kernel.
Spawn(auto) ==
    /\ InCode(0)
    /\ auto \/ MayAdopt(0)
    /\ Becomes(Created(Processes, NewSlot, 0, auto, "code"))

Clone(p, sigchld) ==
    /\ p # 0
    /\ InCode(p)
    /\ MayAdopt(IF sigchld THEN p ELSE Processes[p].fa)
    /\ Becomes(Cloned(Processes, NewSlot, p, sigchld))

\* CreateProcessFromELF for a program to be waited for, by process 0 as the
\* test suits do or by execve: the creator sleeps until the loader signals.
Load(p) ==
    LET created == Created(Processes, NewSlot, p, FALSE, "loader")
    IN  /\ InCode(p)
        /\ p \in Waiters
        /\ MayAdopt(p)
        /\ \/ NoSlot
           \/ /\ FreeSlots(Processes) # {}
              /\ Schedule([created EXCEPT ![p].stat = "Sleeping",
                                          ![p].pc = "loading",
                                          ![p].want = NewSlot,
                                          ![p].exec = (p # 0)],
                          p)

\* The end of Thread_CreateProcessFromELF, in the new process.
Loaded(p) ==
    LET f == Processes[p].fa
    IN  /\ Runs(p)
        /\ Processes[p].pc = "loader"
        /\ Processes' = [Processes EXCEPT ![p].pc = "code", ![f].stat = "Ready"]
        /\ UNCHANGED <<CurrentProcess, fault>>

\* WaitSem->Wait(): the permits of exits already dealt with are taken first.
Sleeps(P, p) ==
    [P EXCEPT ![p].permits = Smallest({@, 0}) - 1, ![p].stat = "Sleeping",
              ![p].pc = "waiting"]

\* The loop of Wait4, execve and the tests, up to a return or a sleep.
WaitLoop(p, want, exec) ==
    LET found == QuitingChildren(Processes, p, want)
        Back(P) == [P EXCEPT ![p].pc = "code", ![p].want = Nobody,
                             ![p].exec = FALSE]
        asleep == [Sleeps(Processes, p) EXCEPT ![p].want = want,
                                               ![p].exec = exec]
    IN  \/ /\ found # <<>>
           /\ \E D \in {Descendants(Processes, Head(found))} :
                 \/ /\ ~ exec
                    /\ Processes' = Back(Destroyed(Processes, D))
                    /\ UNCHANGED <<CurrentProcess, fault>>
                 \/ /\ exec
                    /\ Schedule(Exited(Back(Destroyed(Processes, D)), p), p)
        \/ /\ found = <<>>
           /\ Schedule(asleep, p)

\* A program may wait for a child it does not have, the kernel's own code in
\* process 0 waits for the one it has just created.
Wait4(p, want) ==
    /\ InCode(p)
    /\ p \in Waiters
    /\ p = 0 => Contains(Processes[0].children, want)
    /\ WaitLoop(p, want, FALSE)

\* Wait4 with WNOHANG; one that finds no child changes nothing.
Wait4NoHang(p, want) ==
    /\ InCode(p)
    /\ p \in Waiters
    /\ QuitingChildren(Processes, p, want) # <<>>
    /\ WaitLoop(p, want, FALSE)

\* A woken process goes on where it slept.
Continue(p) ==
    /\ Runs(p)
    /\ Processes[p].pc \in {"loading", "waiting"}
    /\ WaitLoop(p, Processes[p].want, Processes[p].exec)

\* The call of exit, the return of a kernel thread and a failed page fault.
Exit(p) ==
    /\ p # 0
    /\ InCode(p)
    /\ Schedule(Exited(Processes, p), p)

\* The timer interrupt and Rest.
Yield(p) == InCode(p) /\ Schedule(Processes, p)

Next ==
    \/ \E auto \in BOOLEAN : Spawn(auto)
    \/ \E p \in Proc :
          \/ \E sigchld \in BOOLEAN : Clone(p, sigchld)
          \/ Load(p) \/ Loaded(p)
          \/ \E want \in (Proc \ {0, p}) \union {AnyPID} :
                Wait4(p, want) \/ Wait4NoHang(p, want)
          \/ Continue(p) \/ Exit(p) \/ Yield(p)

Spec == Init /\ [][Next]_vars

(* Timer interrupts come to whatever process runs its own code, and the    *)
(* kernel's own sections end.                                              *)
FairSpec ==
    /\ Spec
    /\ WF_vars(\E p \in Proc : Yield(p) \/ Loaded(p) \/ Continue(p))

-----------------------------------------------------------------------------
ProcessRecord ==
    [stat : Stat, fa : Proc \union {Nobody}, children : Seq(Proc),
     autoDestroy : BOOLEAN, permits : -1 .. MaxPermits,
     pc : {"code", "loader", "loading", "waiting"},
     want : Proc \union {Nobody, AnyPID}, exec : BOOLEAN]

TypeOK ==
    /\ Processes \in [Proc -> ProcessRecord]
    /\ CurrentProcess \in Proc
    /\ fault \in {"none", "current", "switch", "slots"}

(* Fathers and lists of children agree, nobody is listed twice, a free     *)
(* slot has no family, and nobody is below himself: in any set of          *)
(* processes one has a father outside it (SetFa, Destroy's cascade).       *)
TreeConsistent ==
    /\ \A p \in Proc :
       /\ IsInjective(Processes[p].children)
       /\ \A q \in Proc :
             Contains(Processes[p].children, q) <=> Processes[q].fa = p
       /\ Processes[p].stat = "None" => Processes[p] = FreshProcess
    /\ \A D \in (SUBSET Proc) \ {{}} : \E q \in D : Processes[q].fa \notin D

(* Nobody sleeps for a child that has already quit, or for a loader that   *)
(* has finished (the check of GetQuitingChild, Wait and Exit's Signal).    *)
NoLostExit ==
    \A p \in Proc :
       Processes[p].stat = "Sleeping" =>
          IF Processes[p].pc = "loading"
          THEN Processes[Processes[p].want].pc = "loader"
          ELSE QuitingChildren(Processes, p, Processes[p].want) = <<>>

(* A child waited for by its number remains the waiter's child until it is *)
(* waited for: its slot is not given to another process meanwhile.         *)
WaitedForStays ==
    [][\A p, c \in Proc :
          Processes[p].want = c /\ Processes'[p].want = c
             => (Processes[c].fa = p => Processes'[c].fa = p)]_vars

(* A process that has quit and that nobody can wait for gives its slot     *)
(* back, unless the kernel stops: F_AutoDestroy follows the father through *)
(* SetFa, and the scan of Schedule passes every slot.                      *)
AutoDestroyed ==
    \A p \in Proc \ {0} :
       Processes[p].stat = "Quiting" /\ Processes[p].fa = Nobody
          ~> Processes[p].stat = "None" \/ fault # "none"

(* A father that waits for a child that quits comes back.                  *)
WaitReturns ==
    \A p \in Waiters :
       /\ Processes[p].pc = "waiting"
       /\ QuitingChildren(Processes, p, Processes[p].want) # <<>>
       ~> Processes[p].pc = "code" \/ fault # "none"

(* FreeProcess reports a fault when it is given the current process.       *)
NeverFreesCurrent == fault # "current"
=============================================================================
