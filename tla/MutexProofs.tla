---------------------------- MODULE MutexProofs ----------------------------
(***************************************************************************)
(* Proofs about Mutex, for any number of processes, clients and timeouts.  *)
(* IInv holds at the start and every action keeps it: the calls of         *)
(* Schedule share ScheduleStep, the two sleeping Waits share EnqueueStep   *)
(* and ResumeStep.  The theorems at the end follow from IInv.              *)
(***************************************************************************)
EXTENDS Mutex, TLAPS

(* LinkTable::Remove of the one link of a process: the links before it     *)
(* stay where they are, those after it move up by one.                     *)
LEMMA UnlinkFacts ==
    ASSUME NEW S, NEW q \in Seq(S), NEW k \in DOMAIN q,
           \A j \in DOMAIN q : q[j] = q[k] => j = k
    PROVE  /\ Unlink(q, q[k]) \in Seq(S)
           /\ Len(Unlink(q, q[k])) = Len(q) - 1
           /\ \A i \in 1 .. Len(q) - 1 :
                 Unlink(q, q[k])[i] = IF i < k THEN q[i] ELSE q[i + 1]
<1> DEFINE r == SubSeq(q, 1, k - 1)
           t == SubSeq(q, k + 1, Len(q))
<1>1. k \in 1 .. Len(q) /\ Len(q) \in Nat
  OBVIOUS
<1>2. (CHOOSE i \in DOMAIN q : q[i] = q[k]) = k
  OBVIOUS
<1>3. Unlink(q, q[k]) = r \o t
  BY <1>2 DEF Unlink, RemoveAt
<1>4. /\ r \in Seq(S) /\ Len(r) = k - 1
      /\ \A i \in 1 .. k - 1 : r[i] = q[i]
  BY <1>1
<1>5. /\ t \in Seq(S) /\ Len(t) = Len(q) - k
      /\ \A i \in 1 .. Len(q) - k : t[i] = q[i + k]
  BY <1>1
<1>6. /\ r \o t \in Seq(S) /\ Len(r \o t) = Len(q) - 1
      /\ \A i \in 1 .. Len(q) - 1 :
            (r \o t)[i] = IF i <= k - 1 THEN r[i] ELSE t[i - (k - 1)]
  <2> HIDE DEF r, t
  <2>1. r \in Seq(S) /\ t \in Seq(S)
    BY <1>4, <1>5
  <2>2. Len(r) = k - 1 /\ Len(t) = Len(q) - k /\ k \in Nat /\ Len(q) \in Nat
    BY <1>1, <1>4, <1>5
  <2>3. r \o t \in Seq(S) /\ Len(r \o t) = Len(r) + Len(t)
    BY <2>1
  <2>4. ASSUME NEW i \in 1 .. Len(r) + Len(t)
        PROVE  (r \o t)[i] = IF i <= Len(r) THEN r[i] ELSE t[i - Len(r)]
    BY <2>1
  <2>5. (k - 1) + (Len(q) - k) = Len(q) - 1
    BY <2>2
  <2> QED BY <2>2, <2>3, <2>4, <2>5
<1>7. ASSUME NEW i \in 1 .. Len(q) - 1
      PROVE  (r \o t)[i] = IF i < k THEN q[i] ELSE q[i + 1]
  <2>1. CASE i < k
    BY <2>1, <1>1, <1>4, <1>6
  <2>2. CASE ~ (i < k)
    <3>1. i - (k - 1) \in 1 .. Len(q) - k
      BY <2>2, <1>1
    <3>2. t[i - (k - 1)] = q[(i - (k - 1)) + k]
      BY <3>1, <1>5
    <3>3. (i - (k - 1)) + k = i + 1 /\ ~ (i <= k - 1)
      BY <2>2, <1>1
    <3> HIDE DEF r, t
    <3> QED BY <2>2, <3>2, <3>3, <1>6
  <2> QED BY <2>1, <2>2
<1> QED BY <1>3, <1>6, <1>7

(* The boot state: one permit, no waiter, process 0 running.               *)
LEMMA Initially == Init => IInv
<1> SUFFICES ASSUME Init PROVE IInv
  OBVIOUS
<1> USE SchedulerAssumption, MutexSemaphores DEF Init, SemInit, SchedInit
<1>1. 0 \in Proc /\ Lk \in Sems /\ InitValue[Lk] = 1
  BY DEF Proc, MutexSems, MutexInit, Lk
<1>2. TypeOK
  BY SemaphoreAssumption, <1>1
  DEF TypeOK, SemTypeOK, SchedTypeOK, Stat
<1>3. BootIdle /\ StatAgrees
  BY <1>1 DEF BootIdle, StatAgrees
<1>4. LinksUnique /\ LockUntimed /\ OnePermit /\ OnlyHeadAwake
  BY <1>1 DEF LinksUnique, LockUntimed, OnePermit, OnlyHeadAwake, LkQueue
<1> QED BY <1>2, <1>3, <1>4 DEF IInv, MutualExclusion

(* Facts of the constants that every step uses. *)
LEMMA Constants ==
    /\ 0 \in Proc
    /\ Lk \in Sems
    /\ \A p \in Proc : p \in Sems /\ p # Lk /\ p \in Int
    /\ Clients \subseteq Proc /\ 0 \notin Clients
BY SchedulerAssumption, MutexAssumption, MutexSemaphores
DEF Proc, MutexSems, Lk

(* A call of Schedule, from a process's own code or from inside its Wait.  *)
LEMMA ScheduleStep ==
    ASSUME IInv, NEW p \in Proc, Schedule(p),
           UNCHANGED <<value, queue, inside>>,
           \/ at[p] = "code" /\ UNCHANGED at
           \/ at[p] = "enqueued" /\ at' = [at EXCEPT ![p] = "woken"]
    PROVE  IInv'
<1> USE Constants DEF IInv
<1>1. p = CurrentProcess /\ UNCHANGED <<SemWaitingTargetTime, clock>>
  BY DEF Schedule
<1>2. CASE UNCHANGED <<stat, CurrentProcess, fault>> /\ p = 0
  <2>1. UNCHANGED at
    BY <1>2 DEF BootIdle
  <2>2. TypeOK' /\ BootIdle' /\ StatAgrees'
    BY <1>1, <1>2, <2>1
    DEF TypeOK, SemTypeOK, SchedTypeOK, BootIdle, StatAgrees
  <2>3. LinksUnique' /\ LockUntimed' /\ OnePermit' /\ OnlyHeadAwake'
    BY <1>1, <1>2, <2>1
    DEF LinksUnique, LockUntimed, OnePermit, OnlyHeadAwake, LkQueue
  <2> QED BY <1>2, <2>2, <2>3 DEF MutualExclusion
<1>3. CASE NothingToRun(p) /\ p # 0
  BY <1>1, <1>3 DEF NothingToRun, Runnable, BootIdle, StatAgrees,
     TypeOK, SemTypeOK, SchedTypeOK, Stat
<1>4. CASE UNCHANGED fault /\ \E q \in Proc : NextInRing(p, q) /\ Run(p, q)
  <2>1. PICK q \in Proc : NextInRing(p, q) /\ Run(p, q)
    BY <1>4
  <2>2. q # p /\ Runnable(q)
    BY <2>1 DEF NextInRing
  <2>3. /\ CurrentProcess' = q
        /\ stat' = [stat EXCEPT ![p] = IF @ = "Running" THEN "Ready" ELSE @,
                                ![q] = "Running"]
    BY <2>1 DEF Run
  <2>4. /\ stat \in [Proc -> Stat] /\ at \in [Proc -> {"code", "enqueued", "woken"}]
        /\ queue \in [Sems -> Seq(Proc)]
    BY DEF TypeOK, SemTypeOK, SchedTypeOK
  <2>5. TypeOK'
    BY <1>1, <1>4, <2>3, <2>4 DEF TypeOK, SemTypeOK, SchedTypeOK, Stat
  <2>6. BootIdle'
    BY <1>1, <2>2, <2>3, <2>4 DEF BootIdle, StatAgrees, Stat
  <2>7. StatAgrees'
    BY <1>1, <2>2, <2>3, <2>4 DEF StatAgrees, Stat
  <2>8. LinksUnique' /\ LockUntimed' /\ OnePermit' /\ MutualExclusion'
    BY <1>1, <2>4 DEF LinksUnique, LockUntimed, OnePermit, MutualExclusion,
       LkQueue
  <2>9. ASSUME NEW i \in DOMAIN LkQueue
        PROVE  (stat[LkQueue[i]] # "Sleeping")' <=> stat[LkQueue[i]] # "Sleeping"
    <3>1. LkQueue' = LkQueue /\ LkQueue[i] \in Proc
      BY <2>4 DEF LkQueue
    <3>2. ~ TimedOut(LkQueue[i])
      BY DEF LockUntimed, TimedOut
    <3>3. LkQueue[i] # q \/ stat[q] = "Ready"
      BY <2>2, <3>2 DEF Runnable
    <3> QED BY <2>2, <2>3, <2>4, <3>1, <3>3 DEF Stat
  <2>10. OnlyHeadAwake'
    BY <2>9 DEF OnlyHeadAwake, LkQueue
  <2> QED BY <1>4, <2>5, <2>6, <2>7, <2>8, <2>10
<1> QED BY <1>2, <1>3, <1>4 DEF Schedule

(* A Lock that finds the permit: nobody was inside, nobody waited.         *)
LEMMA LockTakeStep ==
    ASSUME IInv, NEW p \in Clients, LockTake(p)
    PROVE  IInv'
<1> USE Constants DEF IInv, LockTake, WaitTake, HasPermit, InCode
<1>1. value \in [Sems -> Int] /\ LkQueue \in Seq(Proc)
  BY DEF TypeOK, SemTypeOK, LkQueue
<1>2. value[Lk] > 0 /\ value'[Lk] = value[Lk] - 1 /\ Len(LkQueue) \in Nat
  BY <1>1
<1>3. inside = {} /\ value[Lk] = 1 /\ LkQueue = <<>>
  BY <1>1, <1>2 DEF OnePermit
<1>4. TypeOK'
  <2>1. value' \in [Sems -> Int]
    BY <1>1
  <2> QED BY <2>1 DEF TypeOK, SemTypeOK, SchedTypeOK
<1>5. BootIdle' /\ StatAgrees'
  BY DEF BootIdle, StatAgrees
<1>8. LinksUnique' /\ LockUntimed'
  BY DEF LinksUnique, LockUntimed, LkQueue
<1>6. inside' = {p} /\ LkQueue' = <<>>
  BY <1>3 DEF LkQueue
<1>7. OnePermit' /\ OnlyHeadAwake' /\ MutualExclusion'
  BY <1>2, <1>3, <1>6 DEF OnePermit, OnlyHeadAwake, MutualExclusion
<1> QED BY <1>4, <1>5, <1>7, <1>8

(* An Unlock either leaves the permit or wakes the head of the queue.      *)
LEMMA UnlockStep ==
    ASSUME IInv, NEW p \in Clients, Unlock(p)
    PROVE  IInv'
<1> USE Constants DEF IInv, Unlock, Signal, Wakes, InCode
<1>1. /\ value \in [Sems -> Int] /\ LkQueue \in Seq(Proc)
      /\ stat \in [Proc -> Stat] /\ p \in Proc /\ p = CurrentProcess
  BY DEF TypeOK, SemTypeOK, SchedTypeOK, LkQueue
<1>2. inside = {p} /\ inside' = {}
  BY DEF MutualExclusion
<1>3. SignalCount(Lk, SignalOne) = 1
  BY DEF SignalCount, SignalOne, SignalAll
<1>4. value'[Lk] = value[Lk] + 1 /\ LkQueue' = LkQueue
  BY <1>1, <1>3 DEF LkQueue
<1>5. ASSUME NEW q \in Proc
      PROVE  stat'[q] = IF LkQueue # <<>> /\ q = LkQueue[1] /\ stat[q] = "Sleeping"
                        THEN "Ready" ELSE stat[q]
  BY <1>1, <1>3 DEF LkQueue
<1>6. TypeOK'
  <2>1. value' \in [Sems -> Int]
    BY <1>1, <1>3
  <2>2. stat' \in [Proc -> Stat]
    BY <1>1 DEF Stat
  <2>3. inside' \subseteq Clients
    BY DEF TypeOK
  <2> QED BY <2>1, <2>2, <2>3 DEF TypeOK, SemTypeOK, SchedTypeOK
<1>7. BootIdle'
  BY <1>5 DEF BootIdle
<1>8. StatAgrees'
  BY <1>1, <1>5 DEF StatAgrees
<1>9. LinksUnique' /\ LockUntimed' /\ MutualExclusion'
  BY <1>2 DEF LinksUnique, LockUntimed, LkQueue, MutualExclusion
<1>10. OnePermit'
  <2>1. value[Lk] \in Int /\ Len(LkQueue) \in Nat
    BY <1>1
  <2>2. value[Lk] + Len(LkQueue) = 0
    BY <1>2 DEF OnePermit
  <2> QED BY <1>2, <1>4, <2>1, <2>2 DEF OnePermit
<1>11. OnlyHeadAwake'
  <2> SUFFICES ASSUME NEW i \in DOMAIN LkQueue
               PROVE  stat'[LkQueue[i]] # "Sleeping" <=> i = 1
    BY <1>2, <1>4 DEF OnlyHeadAwake
  <2>1. LkQueue # <<>> /\ 1 \in DOMAIN LkQueue /\ LkQueue[i] \in Proc
    BY <1>1
  <2>2. LkQueue[i] = LkQueue[1] => i = 1
    BY <2>1 DEF LinksUnique, LkQueue
  <2>3. stat[LkQueue[i]] = "Sleeping"
    BY <1>2 DEF OnlyHeadAwake
  <2> QED BY <1>5, <2>1, <2>2, <2>3
<1> QED BY <1>6, <1>7, <1>8, <1>9, <1>10, <1>11

(* The clock moves and nothing else does. *)
LEMMA PassTimeStep ==
    ASSUME IInv, PassTime
    PROVE  IInv'
<1> USE DEF IInv, PassTime, ClockTick, Tick, semVars
<1>1. TypeOK'
  BY DEF TypeOK, SemTypeOK, SchedTypeOK
<1>2. BootIdle' /\ StatAgrees' /\ LinksUnique' /\ LockUntimed'
  BY DEF BootIdle, StatAgrees, LinksUnique, LockUntimed, LkQueue
<1>3. OnePermit' /\ OnlyHeadAwake' /\ MutualExclusion'
  BY DEF OnePermit, OnlyHeadAwake, LkQueue, MutualExclusion
<1> QED BY <1>1, <1>2, <1>3

(* A Wait that goes to sleep: on the mutex for ever, or in nanosleep.      *)
LEMMA EnqueueStep ==
    ASSUME IInv, NEW p \in Clients, NEW s \in Sems, NEW t,
           t = KeepWait \/ (s # Lk /\ t \in Nat \ {0}),
           WaitEnqueue(p, s, t), UNCHANGED inside
    PROVE  IInv'
<1> USE Constants DEF IInv, InCode
<1>1. /\ value \in [Sems -> Int] /\ queue \in [Sems -> Seq(Proc)]
      /\ stat \in [Proc -> Stat] /\ SemWaitingTargetTime \in [Proc -> Nat]
      /\ at \in [Proc -> {"code", "enqueued", "woken"}]
      /\ clock \in Nat /\ p \in Proc
  BY DEF TypeOK, SemTypeOK, SchedTypeOK
<1>2. /\ p = CurrentProcess /\ at[p] = "code" /\ value[s] <= 0
      /\ value' = [value EXCEPT ![s] = @ - 1]
      /\ queue' = [queue EXCEPT ![s] = Append(@, p)]
      /\ stat' = [stat EXCEPT ![p] = "Sleeping"]
      /\ at' = [at EXCEPT ![p] = "enqueued"]
      /\ UNCHANGED <<CurrentProcess, clock, fault>>
  <2>1. value[s] \in Int
    BY <1>1
  <2> QED BY <2>1 DEF WaitEnqueue, HasPermit, Link
<1>3. /\ t = KeepWait => UNCHANGED SemWaitingTargetTime
      /\ t # KeepWait => SemWaitingTargetTime' =
                            [SemWaitingTargetTime EXCEPT ![p] = clock + t]
  BY <1>1 DEF WaitEnqueue, Deadline
<1>4. SemWaitingTargetTime' \in [Proc -> Nat]
  <2>1. CASE t = KeepWait
    BY <1>1, <1>3, <2>1
  <2>2. CASE t # KeepWait /\ t \in Nat
    <3>1. clock + t \in Nat
      BY <1>1, <2>2
    <3> QED BY <1>1, <1>3, <2>2, <3>1
  <2> QED BY <2>1, <2>2
<1>5. ASSUME NEW u \in Sems, NEW i \in DOMAIN queue[u]
      PROVE  queue[u][i] \in Proc /\ queue[u][i] # p
  BY SMTT(30), <1>1, <1>2 DEF LinksUnique
<1>6. ASSUME NEW u \in Sems, u # s
      PROVE  queue'[u] = queue[u] /\ value'[u] = value[u]
  <2>1. queue'[u] = queue[u]
    BY <1>1, <1>2, <1>6
  <2>2. value'[u] = value[u]
    BY <1>1, <1>2, <1>6
  <2> QED BY <2>1, <2>2
<1>7. /\ queue[s] \in Seq(Proc) /\ Len(queue[s]) \in Nat /\ value[s] \in Int
      /\ queue'[s] \in Seq(Proc) /\ value'[s] = value[s] - 1
      /\ Len(queue'[s]) = Len(queue[s]) + 1
      /\ queue'[s][Len(queue[s]) + 1] = p
      /\ \A i \in DOMAIN queue[s] : queue'[s][i] = queue[s][i]
      /\ DOMAIN queue'[s] = DOMAIN queue[s] \union {Len(queue[s]) + 1}
  <2>1. queue[s] \in Seq(Proc) /\ value[s] \in Int /\ p \in Proc
    BY <1>1
  <2>2. queue'[s] = Append(queue[s], p) /\ value'[s] = value[s] - 1
    BY <1>1, <1>2
  <2> QED BY <2>1, <2>2
<1>8. TypeOK'
  <2>1. value' \in [Sems -> Int] /\ queue' \in [Sems -> Seq(Proc)]
    BY <1>1, <1>2
  <2>2. stat' \in [Proc -> Stat] /\ at' \in [Proc -> {"code", "enqueued", "woken"}]
    BY <1>1, <1>2 DEF Stat
  <2> QED BY <1>2, <1>4, <2>1, <2>2 DEF TypeOK, SemTypeOK, SchedTypeOK
<1>9. BootIdle'
  BY <1>1, <1>2 DEF BootIdle
<1>10. StatAgrees'
  BY <1>1, <1>2, <1>3 DEF StatAgrees
<1>11. LinksUnique'
  <2> SUFFICES ASSUME NEW u \in Sems, NEW w \in Sems,
                      NEW i \in DOMAIN queue'[u], NEW j \in DOMAIN queue'[w]
               PROVE  /\ at'[queue'[u][i]] # "code"
                      /\ queue'[u][i] = queue'[w][j] => u = w /\ i = j
    BY DEF LinksUnique
  <2>1. \/ i \in DOMAIN queue[u] /\ queue'[u][i] = queue[u][i]
        \/ u = s /\ i = Len(queue[s]) + 1 /\ queue'[u][i] = p
    BY <1>6, <1>7
  <2>2. \/ j \in DOMAIN queue[w] /\ queue'[w][j] = queue[w][j]
        \/ w = s /\ j = Len(queue[s]) + 1 /\ queue'[w][j] = p
    BY <1>6, <1>7
  <2>3. at'[queue'[u][i]] # "code"
    <3>1. CASE i \in DOMAIN queue[u] /\ queue'[u][i] = queue[u][i]
      <4>1. at[queue[u][i]] # "code"
        BY <3>1 DEF LinksUnique
      <4> QED BY <1>1, <1>2, <1>5, <3>1, <4>1
    <3>2. CASE queue'[u][i] = p
      BY <1>1, <1>2, <3>2
    <3> QED BY <2>1, <3>1, <3>2
  <2>4. ASSUME queue'[u][i] = queue'[w][j]
        PROVE  u = w /\ i = j
    <3>1. CASE queue'[u][i] = p
      BY <1>5, <2>1, <2>2, <2>4, <3>1
    <3>2. CASE queue'[u][i] # p
      BY <2>1, <2>2, <2>4, <3>2 DEF LinksUnique
    <3> QED BY <3>1, <3>2
  <2> QED BY <2>3, <2>4
<1>12. ASSUME NEW i \in DOMAIN LkQueue'
       PROVE  \/ /\ i \in DOMAIN LkQueue /\ LkQueue'[i] = LkQueue[i]
                 /\ LkQueue[i] \in Proc \ {p}
              \/ s = Lk /\ i = Len(LkQueue) + 1 /\ LkQueue'[i] = p
  BY <1>5, <1>6, <1>7 DEF LkQueue
<1>13. LockUntimed'
  <2> SUFFICES ASSUME NEW i \in DOMAIN LkQueue'
               PROVE  SemWaitingTargetTime'[LkQueue'[i]] = 0
    BY DEF LockUntimed
  <2>1. CASE i \in DOMAIN LkQueue /\ LkQueue'[i] = LkQueue[i]
             /\ LkQueue[i] \in Proc \ {p}
    BY <1>1, <1>3, <2>1 DEF LockUntimed
  <2>2. CASE s = Lk /\ LkQueue'[i] = p
    BY <1>1, <1>2, <1>3, <2>2 DEF StatAgrees
  <2> QED BY <1>12, <2>1, <2>2
<1>14. OnePermit'
  <2>1. CASE s = Lk
    <3>1. /\ value[Lk] \in Int /\ Len(LkQueue) \in Nat
          /\ value'[Lk] = value[Lk] - 1
          /\ Len(LkQueue') = Len(LkQueue) + 1
      BY <1>7, <2>1 DEF LkQueue
    <3>2. value[Lk] + Len(LkQueue) = IF inside = {} THEN 1 ELSE 0
      BY DEF OnePermit
    <3>3. value'[Lk] + Len(LkQueue') = value[Lk] + Len(LkQueue)
      <4> HIDE DEF LkQueue
      <4> QED BY <3>1
    <3> QED BY <3>2, <3>3 DEF OnePermit
  <2>2. CASE s # Lk
    BY <1>6, <2>2 DEF OnePermit, LkQueue
  <2> QED BY <2>1, <2>2
<1>15. OnlyHeadAwake'
  <2> SUFFICES ASSUME NEW i \in DOMAIN LkQueue'
               PROVE  stat'[LkQueue'[i]] # "Sleeping" <=> i = 1 /\ inside = {}
    BY DEF OnlyHeadAwake
  <2>1. CASE i \in DOMAIN LkQueue /\ LkQueue'[i] = LkQueue[i]
             /\ LkQueue[i] \in Proc \ {p}
    BY <1>1, <1>2, <2>1 DEF OnlyHeadAwake
  <2>2. CASE s = Lk /\ i = Len(LkQueue) + 1 /\ LkQueue'[i] = p
    <3>1. inside = {} => Len(LkQueue) >= 1
      BY <1>2, <1>7, <2>2 DEF OnePermit, LkQueue
    <3>2. inside = {} => i # 1
      BY <1>7, <2>2, <3>1 DEF LkQueue
    <3> QED BY <1>1, <1>2, <2>2, <3>2
  <2> QED BY <1>12, <2>1, <2>2
<1> QED
  BY <1>2, <1>8, <1>9, <1>10, <1>11, <1>13, <1>14, <1>15 DEF MutualExclusion

(* A Wait that comes back.  Only the head of the mutex's queue can, and    *)
(* only when nobody is inside.                                             *)
LEMMA ResumeStep ==
    ASSUME IInv, NEW p \in Clients, NEW s \in Sems, WaitResume(p, s),
           inside' = IF s = Lk THEN inside \union {p} ELSE inside
    PROVE  IInv'
<1> USE Constants DEF IInv
<1>1. /\ value \in [Sems -> Int] /\ queue \in [Sems -> Seq(Proc)]
      /\ stat \in [Proc -> Stat] /\ SemWaitingTargetTime \in [Proc -> Nat]
      /\ at \in [Proc -> {"code", "enqueued", "woken"}]
      /\ p \in Proc
  BY DEF TypeOK, SemTypeOK, SchedTypeOK
<1>2. /\ p = CurrentProcess /\ at[p] = "woken" /\ InQueue(p, s)
      /\ value' = [value EXCEPT ![s] = @ + PermitBack(p)]
      /\ queue' = [queue EXCEPT ![s] = Unlink(@, p)]
      /\ SemWaitingTargetTime' = [SemWaitingTargetTime EXCEPT ![p] = 0]
      /\ at' = [at EXCEPT ![p] = "code"]
      /\ UNCHANGED <<stat, CurrentProcess, clock, fault>>
      /\ PermitBack(p) \in {0, 1}
      /\ ~ Late(p) => PermitBack(p) = 0
  BY DEF WaitResume, PermitBack
<1>3. PICK k \in DOMAIN queue[s] : queue[s][k] = p
  BY <1>2 DEF InQueue
<1>4. \A j \in DOMAIN queue[s] : queue[s][j] = queue[s][k] => j = k
  BY DEF LinksUnique
<1>19. k \in Nat
  <2>1. queue[s] \in Seq(Proc)
    BY <1>1
  <2> QED BY <1>3, <2>1
<1>5. /\ queue'[s] \in Seq(Proc)
      /\ Len(queue'[s]) = Len(queue[s]) - 1
      /\ \A i \in 1 .. Len(queue[s]) - 1 :
            queue'[s][i] = IF i < k THEN queue[s][i] ELSE queue[s][i + 1]
  <2>1. queue[s] \in Seq(Proc)
    BY <1>1
  <2>2. queue'[s] = Unlink(queue[s], queue[s][k])
    BY <1>1, <1>2, <1>3
  <2> DEFINE q == queue[s]
  <2>3. q \in Seq(Proc) /\ k \in DOMAIN q /\ \A j \in DOMAIN q : q[j] = q[k] => j = k
    BY <1>4, <2>1
  <2>4. queue'[s] = Unlink(q, q[k])
    BY <2>2
  <2> HIDE DEF q
  <2>5. /\ queue'[s] \in Seq(Proc)
        /\ Len(queue'[s]) = Len(q) - 1
        /\ \A i \in 1 .. Len(q) - 1 :
              queue'[s][i] = IF i < k THEN q[i] ELSE q[i + 1]
    BY <2>3, <2>4, UnlinkFacts
  <2> QED BY <2>5 DEF q
<1>6. ASSUME NEW u \in Sems, u # s
      PROVE  queue'[u] = queue[u] /\ value'[u] = value[u]
  <2>1. queue'[u] = queue[u]
    BY <1>1, <1>2, <1>6
  <2>2. value'[u] = value[u]
    BY <1>1, <1>2, <1>6
  <2> QED BY <2>1, <2>2
<1> DEFINE Old(u, i) == IF u = s /\ ~ (i < k) THEN i + 1 ELSE i
<1>7. ASSUME NEW u \in Sems, NEW i \in DOMAIN queue'[u]
      PROVE  /\ i \in Nat /\ Old(u, i) \in DOMAIN queue[u]
             /\ queue'[u][i] = queue[u][Old(u, i)]
             /\ queue'[u][i] \in Proc \ {p}
  <2>1. queue[u] \in Seq(Proc)
    BY <1>1
  <2>2. i \in Nat /\ Old(u, i) \in DOMAIN queue[u]
        /\ queue'[u][i] = queue[u][Old(u, i)]
    <3>1. CASE u = s
      <4>1. i \in 1 .. Len(queue[s]) - 1 /\ Len(queue[s]) \in Nat
        <5>1. Len(queue[s]) \in Nat
          BY <2>1, <3>1
        <5>2. queue'[s] \in Seq(Proc) /\ i \in DOMAIN queue'[s]
          BY <1>5, <3>1
        <5>3. i \in 1 .. Len(queue'[s])
          BY <5>2
        <5> QED BY <1>5, <5>1, <5>3
      <4>2. Old(u, i) = IF i < k THEN i ELSE i + 1
        BY <3>1
      <4>3. Old(u, i) \in 1 .. Len(queue[s])
        BY <1>19, <4>1, <4>2
      <4>4. queue'[s][i] = queue[s][Old(u, i)]
        BY <1>5, <4>1, <4>2
      <4> QED BY <2>1, <3>1, <4>1, <4>3, <4>4
    <3>2. CASE u # s
      <4>1. queue'[u] = queue[u] /\ Old(u, i) = i
        BY <1>6, <3>2
      <4>2. i \in 1 .. Len(queue[u])
        BY <2>1, <4>1
      <4> QED BY <2>1, <4>1, <4>2
    <3> QED BY <3>1, <3>2
  <2>3. u = s => Old(u, i) # k
    BY <1>19, <2>2
  <2>4. queue[u][Old(u, i)] # p
    BY <1>3, <2>2, <2>3 DEF LinksUnique
  <2> QED BY <2>1, <2>2, <2>4
<1>8. TypeOK'
  <2>1. value' \in [Sems -> Int]
    <3>1. value[s] \in Int /\ PermitBack(p) \in Int
      <4>1. PermitBack(p) \in {0, 1}
        BY <1>2
      <4> QED BY <1>1, <4>1
    <3>2. value[s] + PermitBack(p) \in Int
      BY <3>1
    <3> QED BY <1>1, <1>2, <3>2
  <2>2. queue' \in [Sems -> Seq(Proc)]
    BY <1>1, <1>2, <1>5
  <2>3. /\ SemWaitingTargetTime' \in [Proc -> Nat]
        /\ at' \in [Proc -> {"code", "enqueued", "woken"}]
    BY <1>1, <1>2
  <2>4. inside' \subseteq Clients
    BY DEF TypeOK
  <2> QED
    BY <1>2, <2>1, <2>2, <2>3, <2>4 DEF TypeOK, SemTypeOK, SchedTypeOK
<1>9. stat[p] = "Running"
  BY <1>2 DEF StatAgrees
<1>10. BootIdle' /\ StatAgrees'
  BY <1>1, <1>2, <1>9 DEF BootIdle, StatAgrees
<1>11. LinksUnique'
  <2> SUFFICES ASSUME NEW u \in Sems, NEW w \in Sems,
                      NEW i \in DOMAIN queue'[u], NEW j \in DOMAIN queue'[w]
               PROVE  /\ at'[queue'[u][i]] # "code"
                      /\ queue'[u][i] = queue'[w][j] => u = w /\ i = j
    BY DEF LinksUnique
  <2>1. at'[queue'[u][i]] # "code"
    <3>1. at[queue[u][Old(u, i)]] # "code"
      BY <1>7 DEF LinksUnique
    <3>2. at[queue'[u][i]] # "code"
      BY <1>7, <3>1
    <3>3. \A q \in Proc \ {p} : at'[q] = at[q]
      BY <1>1, <1>2
    <3> QED BY <1>7, <3>2, <3>3
  <2>2. ASSUME queue'[u][i] = queue'[w][j]
        PROVE  u = w /\ i = j
    <3>1. u = w /\ Old(u, i) = Old(w, j)
      BY <1>7, <2>2 DEF LinksUnique
    <3>2. i \in Nat /\ j \in Nat
      BY <1>7
    <3> QED BY <1>19, <3>1, <3>2
  <2> QED BY <2>1, <2>2
<1>12. ASSUME NEW i \in DOMAIN LkQueue'
       PROVE  /\ i \in Nat /\ Old(Lk, i) \in DOMAIN LkQueue
              /\ LkQueue'[i] = LkQueue[Old(Lk, i)]
              /\ LkQueue'[i] \in Proc \ {p}
  BY <1>7 DEF LkQueue
<1>13. LockUntimed'
  <2> SUFFICES ASSUME NEW i \in DOMAIN LkQueue'
               PROVE  SemWaitingTargetTime'[LkQueue'[i]] = 0
    BY DEF LockUntimed
  <2>1. SemWaitingTargetTime[LkQueue[Old(Lk, i)]] = 0
    BY <1>12 DEF LockUntimed
  <2>2. SemWaitingTargetTime[LkQueue'[i]] = 0
    BY <1>12, <2>1
  <2>3. \A q \in Proc \ {p} :
           SemWaitingTargetTime'[q] = SemWaitingTargetTime[q]
    BY <1>1, <1>2
  <2> QED BY <1>12, <2>2, <2>3
<1>14. s = Lk => k = 1 /\ inside = {} /\ ~ Late(p)
  BY <1>3, <1>9 DEF OnlyHeadAwake, LockUntimed, LkQueue, Late
<1>15. OnePermit'
  <2>1. CASE s = Lk
    <3>1. value[Lk] \in Int /\ Len(LkQueue) \in Nat
      BY <1>1 DEF LkQueue
    <3>2. value'[Lk] = value[Lk] /\ Len(LkQueue') = Len(LkQueue) - 1
      BY <1>1, <1>2, <1>5, <1>14, <2>1 DEF LkQueue
    <3> QED BY <1>14, <2>1, <3>1, <3>2 DEF OnePermit
  <2>2. CASE s # Lk
    BY <1>6, <2>2 DEF OnePermit, LkQueue
  <2> QED BY <2>1, <2>2
<1>16. OnlyHeadAwake'
  <2> SUFFICES ASSUME NEW i \in DOMAIN LkQueue'
               PROVE  stat[LkQueue'[i]] # "Sleeping" <=> i = 1 /\ inside' = {}
    BY <1>2 DEF OnlyHeadAwake
  <2>1. CASE s = Lk
    <3>1. inside' # {} /\ Old(Lk, i) # 1
      BY <1>12, <1>14, <2>1
    <3> QED BY <1>12, <3>1 DEF OnlyHeadAwake
  <2>2. CASE s # Lk
    <3>1. Old(Lk, i) = i /\ inside' = inside
      BY <2>2
    <3> QED BY <1>12, <3>1 DEF OnlyHeadAwake
  <2> QED BY <2>1, <2>2
<1>17. MutualExclusion'
  BY <1>14 DEF MutualExclusion
<1> QED
  BY <1>2, <1>8, <1>10, <1>11, <1>13, <1>15, <1>16, <1>17

-----------------------------------------------------------------------------
(* Every action of Next keeps the inductive invariant.                     *)
LEMMA Inductive == IInv /\ [Next]_vars => IInv'
<1> SUFFICES ASSUME IInv, [Next]_vars PROVE IInv'
  OBVIOUS
<1> USE Constants
<1>1. ASSUME NEW p \in Clients, ClientStep(p)
      PROVE  IInv'
  <2>1. CASE LockTake(p)
    BY <2>1, LockTakeStep
  <2>2. CASE LockEnqueue(p)
    <3>1. Lk \in Sems
      OBVIOUS
    <3>2. WaitEnqueue(p, Lk, KeepWait) /\ UNCHANGED inside
      BY <2>2 DEF LockEnqueue
    <3> QED BY <3>1, <3>2, EnqueueStep
  <2>3. CASE LockResume(p)
    <3>1. Lk \in Sems /\ inside' = IF Lk = Lk THEN inside \union {p} ELSE inside
      BY <2>3 DEF LockResume
    <3>2. WaitResume(p, Lk)
      BY <2>3 DEF LockResume
    <3> QED BY <1>1, <3>1, <3>2, ResumeStep
  <2>4. CASE Unlock(p)
    BY <2>4, UnlockStep
  <2>5. CASE SleepEnqueue(p)
    <3>1. PICK t \in Timeouts : WaitEnqueue(p, p, t)
      BY <2>5 DEF SleepEnqueue
    <3>2. p \in Sems /\ p # Lk /\ t \in Nat \ {0} /\ UNCHANGED inside
      BY <2>5, MutexAssumption DEF SleepEnqueue
    <3> HIDE DEF Lk
    <3> QED BY <3>1, <3>2, EnqueueStep
  <2>6. CASE SleepResume(p)
    <3>1. p \in Sems /\ p # Lk
      OBVIOUS
    <3>2. inside' = IF p = Lk THEN inside \union {p} ELSE inside
      BY <2>6, <3>1 DEF SleepResume
    <3> QED BY <2>6, <3>1, <3>2, ResumeStep DEF SleepResume
  <2> QED BY <1>1, <2>1, <2>2, <2>3, <2>4, <2>5, <2>6 DEF ClientStep
<1>2. ASSUME NEW p \in Proc, Block(p)
      PROVE  IInv'
  BY <1>2, ScheduleStep DEF Block, WaitSchedule
<1>3. ASSUME NEW p \in Proc, Yield(p)
      PROVE  IInv'
  BY <1>3, ScheduleStep DEF Yield, Rest, InCode, semVars
<1>4. ASSUME NEW p \in Proc, Timer(p)
      PROVE  IInv'
  <2>1. at[p] = "code"
    BY <1>4 DEF Timer, TimerSchedule, IInv, BootIdle
  <2> QED BY <1>4, <2>1, ScheduleStep DEF Timer, TimerSchedule, semVars
<1>5. CASE PassTime
  BY <1>5, PassTimeStep
<1>6. CASE UNCHANGED vars
  <2> USE <1>6 DEF vars, IInv
  <2>1. TypeOK' /\ BootIdle' /\ StatAgrees'
    BY DEF TypeOK, SemTypeOK, SchedTypeOK, BootIdle, StatAgrees
  <2>2. LinksUnique' /\ LockUntimed' /\ OnePermit' /\ OnlyHeadAwake'
    BY DEF LinksUnique, LockUntimed, OnePermit, OnlyHeadAwake, LkQueue
  <2> QED BY <2>1, <2>2 DEF MutualExclusion
<1> QED BY <1>1, <1>2, <1>3, <1>4, <1>5, <1>6 DEF Next

(* The inductive invariant of Wait and Signal on the mutex holds in every  *)
(* reachable state.                                                        *)
THEOREM Invariance == Spec => []IInv
BY Initially, Inductive, PTL DEF Spec

(* Every variable keeps its type, for any number of processes.             *)
THEOREM TypeCorrect == Spec => []TypeOK
<1>1. IInv => TypeOK
  BY DEF IInv
<1> QED BY <1>1, Invariance, PTL

(* No two processes are inside Lock .. Unlock at once, for any number of   *)
(* clients, any nanosleep inside the section and any preemption.           *)
THEOREM MutexExcludes == Spec => []MutualExclusion
<1>1. IInv => MutualExclusion
  BY DEF IInv
<1> QED BY <1>1, Invariance, PTL

(* An Unlock is never lost: somebody holds the mutex or is awake to take   *)
(* it whenever somebody waits.                                             *)
THEOREM UnlockNeverLost == Spec => []NoLostWakeup
<1>1. IInv => NoLostWakeup
  <2> SUFFICES ASSUME IInv, queue[Lk] # <<>>, inside = {}
               PROVE  \E p \in Proc : Awake(p)
    BY DEF NoLostWakeup
  <2>1. queue[Lk] \in Seq(Proc)
    BY Constants DEF IInv, TypeOK, SemTypeOK
  <2>2. 1 \in DOMAIN queue[Lk] /\ queue[Lk][1] \in Proc
    BY <2>1
  <2>3. Awake(queue[Lk][1])
    BY <2>2 DEF Awake, InQueue, IInv, OnlyHeadAwake, LkQueue
  <2> QED BY <2>2, <2>3
<1> QED BY <1>1, Invariance, PTL

(* Schedule always finds a process to run while process 0 keeps off        *)
(* semaphores, so "Scheduler failed to switch!" is not reached.            *)
THEOREM SchedulerLives == Spec => []SchedulerNeverFails
<1>1. IInv => SchedulerNeverFails
  BY DEF IInv, SchedulerNeverFails
<1> QED BY <1>1, Invariance, PTL

-----------------------------------------------------------------------------
(* Who is inside Wait is in a queue, so a Signal can reach whoever sleeps. *)
WaitersQueued ==
    \A p \in Proc : at[p] # "code" => \E s \in Sems : InQueue(p, s)

(* The first half of Wait queues the process, and moves nobody else.       *)
LEMMA QueuedByEnqueue ==
    ASSUME IInv, WaitersQueued, NEW p \in Clients, NEW s \in Sems, NEW t,
           WaitEnqueue(p, s, t)
    PROVE  WaitersQueued'
<1>1. /\ queue \in [Sems -> Seq(Proc)] /\ p \in Proc
      /\ at \in [Proc -> {"code", "enqueued", "woken"}]
      /\ queue' = [queue EXCEPT ![s] = Append(@, p)]
      /\ at' = [at EXCEPT ![p] = "enqueued"]
  BY Constants DEF IInv, TypeOK, SemTypeOK, WaitEnqueue, Link
<1>2. /\ queue[s] \in Seq(Proc)
      /\ queue'[s] = Append(queue[s], p)
      /\ \A u \in Sems \ {s} : queue'[u] = queue[u]
  BY <1>1
<1>3. /\ DOMAIN queue'[s] = DOMAIN queue[s] \union {Len(queue[s]) + 1}
      /\ queue'[s][Len(queue[s]) + 1] = p
      /\ \A i \in DOMAIN queue[s] : queue'[s][i] = queue[s][i]
  BY <1>1, <1>2
<1> SUFFICES ASSUME NEW q \in Proc, at'[q] # "code"
             PROVE  \E u \in Sems : \E i \in DOMAIN queue'[u] : queue'[u][i] = q
  BY DEF WaitersQueued, InQueue
<1>4. CASE q = p
  BY <1>3, <1>4
<1>5. CASE q # p
  <2>1. at[q] # "code"
    BY <1>1, <1>5
  <2>2. PICK u \in Sems : \E i \in DOMAIN queue[u] : queue[u][i] = q
    BY <2>1 DEF WaitersQueued, InQueue
  <2>3. PICK i \in DOMAIN queue[u] : queue[u][i] = q
    BY <2>2
  <2> QED BY <1>2, <1>3, <2>3
<1> QED BY <1>4, <1>5

(* The second half takes its own link out, and nobody else's.              *)
LEMMA QueuedByResume ==
    ASSUME IInv, WaitersQueued, NEW p \in Clients, NEW s \in Sems,
           WaitResume(p, s)
    PROVE  WaitersQueued'
<1>1. /\ queue \in [Sems -> Seq(Proc)] /\ p \in Proc
      /\ at \in [Proc -> {"code", "enqueued", "woken"}]
      /\ queue' = [queue EXCEPT ![s] = Unlink(@, p)]
      /\ at' = [at EXCEPT ![p] = "code"]
      /\ InQueue(p, s)
  BY Constants DEF IInv, TypeOK, SemTypeOK, WaitResume
<1>2. PICK k \in DOMAIN queue[s] : queue[s][k] = p
  BY <1>1 DEF InQueue
<1> DEFINE w == queue[s]
<1>3. /\ w \in Seq(Proc) /\ k \in DOMAIN w /\ w[k] = p
      /\ \A j \in DOMAIN w : w[j] = w[k] => j = k
      /\ queue'[s] = Unlink(w, w[k])
      /\ \A u \in Sems \ {s} : queue'[u] = queue[u]
  BY <1>1, <1>2 DEF IInv, LinksUnique
<1>4. w = queue[s]
  OBVIOUS
<1> HIDE DEF w
<1>5. /\ queue'[s] \in Seq(Proc)
      /\ Len(queue'[s]) = Len(w) - 1
      /\ \A i \in 1 .. Len(w) - 1 :
            queue'[s][i] = IF i < k THEN w[i] ELSE w[i + 1]
  BY <1>3, UnlinkFacts
<1>6. DOMAIN queue'[s] = 1 .. Len(w) - 1 /\ DOMAIN w = 1 .. Len(w)
      /\ Len(w) \in Nat /\ k \in 1 .. Len(w)
  BY <1>3, <1>5
<1> SUFFICES ASSUME NEW q \in Proc, at'[q] # "code"
             PROVE  \E u \in Sems : \E i \in DOMAIN queue'[u] : queue'[u][i] = q
  BY DEF WaitersQueued, InQueue
<1>7. q # p /\ at[q] # "code"
  BY <1>1
<1>8. PICK u \in Sems : \E i \in DOMAIN queue[u] : queue[u][i] = q
  BY <1>7 DEF WaitersQueued, InQueue
<1>9. PICK i \in DOMAIN queue[u] : queue[u][i] = q
  BY <1>8
<1>10. CASE u # s
  BY <1>3, <1>9, <1>10
<1>11. CASE u = s
  <2>1. i \in 1 .. Len(w) /\ w[i] = q /\ i # k
    BY <1>3, <1>4, <1>6, <1>7, <1>9, <1>11
  <2>2. CASE i < k
    <3>1. i \in 1 .. Len(w) - 1
      BY <1>6, <2>1, <2>2
    <3> QED BY <1>5, <1>6, <2>1, <2>2, <3>1
  <2>3. CASE i > k
    <3>1. i - 1 \in 1 .. Len(w) - 1 /\ ~ (i - 1 < k) /\ (i - 1) + 1 = i
      BY <1>6, <2>1, <2>3
    <3>2. queue'[s][i - 1] = q
      BY <1>5, <2>1, <3>1
    <3> QED BY <1>6, <3>1, <3>2
  <2> QED BY <1>6, <2>1, <2>2, <2>3
<1> QED BY <1>10, <1>11

LEMMA QueuedInductive == IInv /\ WaitersQueued /\ [Next]_vars => WaitersQueued'
<1> SUFFICES ASSUME IInv, WaitersQueued, [Next]_vars PROVE WaitersQueued'
  OBVIOUS
<1>1. CASE UNCHANGED <<queue, at>>
  BY <1>1 DEF WaitersQueued, InQueue
<1>2. ASSUME NEW p \in Clients, ClientStep(p)
      PROVE  WaitersQueued'
  <2>1. CASE LockTake(p) \/ Unlock(p)
    BY <1>1, <2>1 DEF LockTake, WaitTake, Unlock, Signal
  <2>2. CASE LockEnqueue(p)
    <3>1. Lk \in Sems /\ WaitEnqueue(p, Lk, KeepWait)
      BY <2>2, Constants DEF LockEnqueue
    <3> QED BY <3>1, QueuedByEnqueue
  <2>3. CASE SleepEnqueue(p)
    <3>1. p \in Sems /\ \E t \in Timeouts : WaitEnqueue(p, p, t)
      BY <2>3, Constants DEF SleepEnqueue
    <3> QED BY <3>1, QueuedByEnqueue
  <2>4. CASE LockResume(p)
    <3>1. Lk \in Sems /\ WaitResume(p, Lk)
      BY <2>4, Constants DEF LockResume
    <3> QED BY <3>1, QueuedByResume
  <2>5. CASE SleepResume(p)
    <3>1. p \in Sems /\ WaitResume(p, p)
      BY <2>5, Constants DEF SleepResume
    <3> QED BY <3>1, QueuedByResume
  <2> QED BY <1>2, <2>1, <2>2, <2>3, <2>4, <2>5 DEF ClientStep
<1>3. ASSUME NEW p \in Proc, Block(p)
      PROVE  WaitersQueued'
  <2>1. /\ at[p] = "enqueued" /\ at' = [at EXCEPT ![p] = "woken"]
        /\ queue' = queue
    BY <1>3 DEF Block, WaitSchedule
  <2>2. at \in [Proc -> {"code", "enqueued", "woken"}]
    BY DEF IInv, TypeOK, SemTypeOK
  <2> QED BY <2>1, <2>2 DEF WaitersQueued, InQueue
<1>4. ASSUME NEW p \in Proc, Yield(p) \/ Timer(p)
      PROVE  WaitersQueued'
  BY <1>1, <1>4 DEF Yield, Rest, Timer, TimerSchedule, semVars
<1>5. CASE PassTime \/ UNCHANGED vars
  BY <1>1, <1>5 DEF PassTime, ClockTick, semVars, vars
<1> QED BY <1>2, <1>3, <1>4, <1>5 DEF Next

(* What the scheduler believes of the processes is true: only the current  *)
(* one runs, and whoever sleeps waits in a queue where a Signal finds it.  *)
THEOREM StatesAgree == Spec => []SchedulerConsistent
<1>1. Init => WaitersQueued
  BY DEF Init, SemInit, WaitersQueued
<1>2. IInv /\ WaitersQueued => SchedulerConsistent
  BY DEF IInv, StatAgrees, WaitersQueued, SchedulerConsistent
<1> QED BY <1>1, <1>2, Invariance, QueuedInductive, PTL DEF Spec

-----------------------------------------------------------------------------
(***************************************************************************)
(* The proof that Mutex implements FifoLock: the holder followed by the    *)
(* semaphore's queue is the abstract line.  Lock and Unlock map to the     *)
(* abstract actions, everything else the kernel does maps to a stutter.    *)
(***************************************************************************)

(* A sequence with one more element in front. *)
LEMMA ConsFacts ==
    ASSUME NEW S, NEW h \in S, NEW q \in Seq(S)
    PROVE  /\ <<h>> \o q \in Seq(S)
           /\ Len(<<h>> \o q) = Len(q) + 1
           /\ (<<h>> \o q)[1] = h
           /\ \A i \in 1 .. Len(q) : (<<h>> \o q)[i + 1] = q[i]
<1>1. <<h>> \in Seq(S) /\ Len(<<h>>) = 1 /\ <<h>>[1] = h /\ Len(q) \in Nat
  OBVIOUS
<1> DEFINE s == <<h>>
<1>2. s \in Seq(S) /\ Len(s) = 1 /\ s[1] = h
  BY <1>1
<1> HIDE DEF s
<1>3. /\ s \o q \in Seq(S)
      /\ Len(s \o q) = Len(s) + Len(q)
      /\ \A i \in 1 .. Len(s) + Len(q) :
            (s \o q)[i] = IF i <= Len(s) THEN s[i] ELSE q[i - Len(s)]
  <2>1. s \in Seq(S) /\ q \in Seq(S)
    BY <1>2
  <2>2. s \o q \in Seq(S) /\ Len(s \o q) = Len(s) + Len(q)
    BY <2>1
  <2>3. ASSUME NEW i \in 1 .. Len(s) + Len(q)
        PROVE  (s \o q)[i] = IF i <= Len(s) THEN s[i] ELSE q[i - Len(s)]
    BY <2>1
  <2> QED BY <2>2, <2>3
<1>4. ASSUME NEW i \in 1 .. Len(q)
      PROVE  (s \o q)[i + 1] = q[i]
  <2>1. i + 1 \in 1 .. Len(s) + Len(q) /\ ~ (i + 1 <= Len(s))
    BY <1>1, <1>2
  <2>2. (i + 1) - Len(s) = i
    BY <1>2
  <2> QED BY <1>3, <2>1, <2>2
<1>5. s \o q \in Seq(S) /\ Len(s \o q) = Len(q) + 1 /\ (s \o q)[1] = h
  BY <1>1, <1>2, <1>3
<1> QED BY <1>4, <1>5 DEF s

(* Two sequences of the same elements are the same. *)
LEMMA SameSeq ==
    ASSUME NEW S, NEW s \in Seq(S), NEW t \in Seq(S), Len(s) = Len(t),
           \A i \in 1 .. Len(s) : s[i] = t[i]
    PROVE  s = t
OBVIOUS

LEMMA TailOfCons ==
    ASSUME NEW S, NEW h \in S, NEW q \in Seq(S)
    PROVE  Tail(<<h>> \o q) = q
<1> DEFINE c == <<h>> \o q
<1>1. /\ c \in Seq(S) /\ Len(c) = Len(q) + 1 /\ Len(q) \in Nat
      /\ \A i \in 1 .. Len(q) : c[i + 1] = q[i]
  BY ConsFacts
<1> HIDE DEF c
<1>2. /\ Tail(c) \in Seq(S) /\ Len(Tail(c)) = Len(q)
      /\ \A i \in 1 .. Len(q) : Tail(c)[i] = c[i + 1]
  BY <1>1
<1>3. Tail(c) = q
  BY <1>1, <1>2, SameSeq
<1> QED BY <1>3 DEF c

LEMMA AppendToCons ==
    ASSUME NEW S, NEW h \in S, NEW q \in Seq(S), NEW p \in S
    PROVE  <<h>> \o Append(q, p) = Append(<<h>> \o q, p)
<1> DEFINE c == <<h>> \o q
           a == Append(q, p)
           d == <<h>> \o a
<1>1. /\ c \in Seq(S) /\ Len(c) = Len(q) + 1 /\ Len(q) \in Nat /\ c[1] = h
      /\ \A i \in 1 .. Len(q) : c[i + 1] = q[i]
  BY ConsFacts
<1>2. /\ a \in Seq(S) /\ Len(a) = Len(q) + 1
      /\ \A i \in 1 .. Len(q) : a[i] = q[i]
      /\ a[Len(q) + 1] = p
  OBVIOUS
<1> HIDE DEF c, a
<1>3. /\ d \in Seq(S) /\ Len(d) = Len(a) + 1 /\ d[1] = h
      /\ \A i \in 1 .. Len(a) : d[i + 1] = a[i]
  BY <1>2, ConsFacts
<1> HIDE DEF d
<1>4. /\ Append(c, p) \in Seq(S) /\ Len(Append(c, p)) = Len(q) + 2
      /\ \A i \in 1 .. Len(q) + 1 : Append(c, p)[i] = c[i]
      /\ Append(c, p)[Len(q) + 2] = p
  BY <1>1
<1>5. ASSUME NEW i \in 1 .. Len(q) + 2
      PROVE  d[i] = Append(c, p)[i]
  <2>1. CASE i = 1
    BY <1>1, <1>3, <1>4, <2>1
  <2>2. CASE i \in 2 .. Len(q) + 1
    <3>1. i - 1 \in 1 .. Len(q) /\ (i - 1) + 1 = i
      BY <1>1, <2>2
    <3>2. c[i] = q[i - 1] /\ a[i - 1] = q[i - 1]
      BY <1>1, <1>2, <3>1
    <3>3. d[i] = a[i - 1]
      BY <1>1, <1>2, <1>3, <3>1
    <3> QED BY <1>1, <1>4, <2>2, <3>2, <3>3
  <2>3. CASE i = Len(q) + 2
    <3>1. d[(Len(q) + 1) + 1] = a[Len(q) + 1]
      BY <1>1, <1>2, <1>3
    <3> QED BY <1>1, <1>2, <1>4, <2>3, <3>1
  <2> QED BY <1>1, <2>1, <2>2, <2>3
<1>6. d = Append(c, p)
  BY <1>1, <1>2, <1>3, <1>4, <1>5, SameSeq
<1> QED BY <1>6 DEF a, c, d

(* Removing the first link leaves the rest of the queue. *)
LEMMA UnlinkHead ==
    ASSUME NEW S, NEW q \in Seq(S), 1 \in DOMAIN q,
           \A j \in DOMAIN q : q[j] = q[1] => j = 1
    PROVE  Unlink(q, q[1]) \in Seq(S) /\ <<q[1]>> \o Unlink(q, q[1]) = q
<1> DEFINE h == q[1]
           r == Unlink(q, q[1])
           c == <<h>> \o r
<1>1. Len(q) \in Nat /\ Len(q) >= 1 /\ h \in S /\ h = q[1]
  OBVIOUS
<1>2. /\ r \in Seq(S) /\ Len(r) = Len(q) - 1
      /\ \A i \in 1 .. Len(q) - 1 :
            r[i] = IF i < 1 THEN q[i] ELSE q[i + 1]
  BY UnlinkFacts
<1> HIDE DEF h, r
<1>3. /\ c \in Seq(S) /\ Len(c) = Len(r) + 1 /\ c[1] = h
      /\ \A i \in 1 .. Len(r) : c[i + 1] = r[i]
  BY <1>1, <1>2, ConsFacts
<1> HIDE DEF c
<1>4. ASSUME NEW i \in 1 .. Len(q)
      PROVE  c[i] = q[i]
  <2>1. CASE i = 1
    BY <1>1, <1>3, <2>1
  <2>2. CASE i # 1
    <3>1. i - 1 \in 1 .. Len(q) - 1 /\ (i - 1) + 1 = i /\ ~ (i - 1 < 1)
      BY <1>1, <2>2
    <3>2. r[i - 1] = q[i] /\ c[i] = r[i - 1]
      BY <1>2, <1>3, <3>1
    <3> QED BY <3>2
  <2> QED BY <2>1, <2>2
<1>5. c = q
  BY <1>1, <1>2, <1>3, <1>4, SameSeq
<1> QED BY <1>2, <1>5 DEF h, r, c

-----------------------------------------------------------------------------
(* The line, with nobody inside and with one process inside. *)
LEMMA LineFacts ==
    /\ inside = {} => Line = LkQueue
    /\ \A h : inside = {h} => Line = <<h>> \o LkQueue
    /\ inside' = {} => Line' = LkQueue'
    /\ \A h : inside' = {h} => Line' = <<h>> \o LkQueue'
<1>1. \A h : (CHOOSE p \in {h} : TRUE) = h /\ {h} # {}
  OBVIOUS
<1> QED BY <1>1 DEF Line, LkQueue

LEMMA QueueFacts ==
    ASSUME IInv
    PROVE  /\ LkQueue \in Seq(Proc) /\ Len(LkQueue) \in Nat
           /\ queue \in [Sems -> Seq(Proc)]
           /\ value[Lk] \in Int
<1>1. queue \in [Sems -> Seq(Proc)] /\ value \in [Sems -> Int] /\ Lk \in Sems
  BY Constants DEF IInv, TypeOK, SemTypeOK
<1> QED BY <1>1 DEF LkQueue

(* Lock or TryLock with a permit takes a free lock. *)
LEMMA AcquireStep ==
    ASSUME IInv, NEW p \in Clients, LockTake(p)
    PROVE  Abstract!Acquire(p)
<1>1. value[Lk] > 0 /\ inside' = inside \union {p} /\ LkQueue' = LkQueue
  BY DEF LockTake, WaitTake, HasPermit, LkQueue
<1>2. inside = {} /\ LkQueue = <<>>
  BY <1>1, QueueFacts DEF IInv, OnePermit
<1>3. Line = <<>> /\ inside' = {p}
  BY <1>1, <1>2, LineFacts
<1>4. Line' = <<p>> \o <<>>
  BY <1>1, <1>2, <1>3, LineFacts
<1>5. <<p>> \o <<>> = <<p>>
  OBVIOUS
<1> QED BY <1>3, <1>4, <1>5 DEF Abstract!Acquire

(* A Lock that has to wait joins the line at its end. *)
LEMMA RequestStep ==
    ASSUME IInv, NEW p \in Clients, LockEnqueue(p)
    PROVE  Abstract!Request(p)
<1>1. /\ ~ (value[Lk] > 0) /\ p \notin inside /\ at[p] = "code"
      /\ inside' = inside
      /\ queue' = [queue EXCEPT ![Lk] = Append(@, p)]
  BY DEF LockEnqueue, WaitEnqueue, HasPermit, Link, InCode
<1>2. p \in Proc /\ LkQueue \in Seq(Proc) /\ LkQueue' = Append(LkQueue, p)
  BY <1>1, QueueFacts, Constants DEF LkQueue
<1>3. ASSUME NEW i \in DOMAIN LkQueue
      PROVE  LkQueue[i] # p
  BY <1>1, Constants DEF IInv, LinksUnique, LkQueue
<1>4. CASE inside = {}
  <2>1. Line = LkQueue /\ Line' = Append(LkQueue, p)
    BY <1>1, <1>2, <1>4, LineFacts
  <2>2. LkQueue # <<>>
    BY <1>1, <1>4, QueueFacts DEF IInv, OnePermit
  <2>3. ~ Abstract!Contains(Line, p)
    BY <1>2, <1>3, <2>1 DEF Abstract!Contains
  <2> QED BY <1>1, <2>1, <2>2, <2>3 DEF Abstract!Request
<1>5. CASE inside # {}
  <2>1. PICK h \in inside : inside = {h}
    BY <1>5 DEF IInv, MutualExclusion
  <2>2. h \in Proc /\ h # p
    BY <1>1, <2>1, Constants DEF IInv, TypeOK
  <2>3. Line = <<h>> \o LkQueue /\ Line' = <<h>> \o Append(LkQueue, p)
    BY <1>1, <1>2, <2>1, LineFacts
  <2>4. Line' = Append(Line, p)
    BY <1>2, <2>2, <2>3, AppendToCons
  <2>5. /\ Line \in Seq(Proc) /\ Len(Line) = Len(LkQueue) + 1 /\ Line[1] = h
        /\ \A i \in 1 .. Len(LkQueue) : Line[i + 1] = LkQueue[i]
    BY <1>2, <2>2, <2>3, ConsFacts
  <2>6. Line # <<>>
    BY <1>2, <2>5
  <2>7. ASSUME NEW i \in 1 .. Len(Line)
        PROVE  Line[i] # p
    <3>1. CASE i = 1
      BY <2>2, <2>5, <3>1
    <3>2. CASE i # 1
      <4>1. i - 1 \in 1 .. Len(LkQueue) /\ (i - 1) + 1 = i
        BY <1>2, <2>5, <3>2
      <4>2. Line[i] = LkQueue[i - 1] /\ i - 1 \in DOMAIN LkQueue
        BY <1>2, <2>5, <4>1
      <4> QED BY <1>3, <4>2
    <3> QED BY <3>1, <3>2
  <2>8. ~ Abstract!Contains(Line, p)
    BY <2>7 DEF Abstract!Contains
  <2> QED BY <1>1, <2>4, <2>6, <2>8 DEF Abstract!Request
<1> QED BY <1>4, <1>5

(* The wait that ends is that of the head of the line, with nobody inside. *)
LEMMA EnterStep ==
    ASSUME IInv, NEW p \in Clients, LockResume(p)
    PROVE  Abstract!Enter(p)
<1>1. /\ CurrentProcess = p /\ at[p] = "woken" /\ InQueue(p, Lk)
      /\ queue' = [queue EXCEPT ![Lk] = Unlink(@, p)]
      /\ inside' = inside \union {p}
  BY DEF LockResume, WaitResume
<1>2. PICK k \in DOMAIN LkQueue : LkQueue[k] = p
  BY <1>1 DEF InQueue, LkQueue
<1>3. stat[p] # "Sleeping"
  BY <1>1 DEF IInv, StatAgrees
<1>4. k = 1 /\ inside = {}
  BY <1>2, <1>3 DEF IInv, OnlyHeadAwake
<1>5. LkQueue \in Seq(Proc) /\ LkQueue' = Unlink(LkQueue, LkQueue[1])
  BY <1>1, <1>2, <1>4, QueueFacts, Constants DEF LkQueue
<1>6. \A j \in DOMAIN LkQueue : LkQueue[j] = LkQueue[1] => j = 1
  BY <1>2, <1>4, Constants DEF IInv, LinksUnique, LkQueue
<1>7. <<p>> \o LkQueue' = LkQueue
  <2> DEFINE q == LkQueue
  <2>1. /\ q \in Seq(Proc) /\ 1 \in DOMAIN q /\ q[1] = p
        /\ \A j \in DOMAIN q : q[j] = q[1] => j = 1
        /\ LkQueue' = Unlink(q, q[1])
    BY <1>2, <1>4, <1>5, <1>6
  <2> HIDE DEF q
  <2>2. <<q[1]>> \o Unlink(q, q[1]) = q
    BY <2>1, UnlinkHead
  <2>3. <<p>> \o LkQueue' = q
    BY <2>1, <2>2
  <2> QED BY <2>3 DEF q
<1>8. inside' = {p} /\ Line = LkQueue /\ Line' = <<p>> \o LkQueue'
  BY <1>1, <1>4, LineFacts
<1>9. LkQueue # <<>> /\ p = Head(LkQueue)
  BY <1>2, <1>4, <1>5
<1> QED BY <1>4, <1>7, <1>8, <1>9 DEF Abstract!Enter

(* Unlock takes the holder off the line. *)
LEMMA ReleaseStep ==
    ASSUME IInv, NEW p \in Clients, Unlock(p)
    PROVE  Abstract!Release(p)
<1>1. p \in inside /\ inside' = inside \ {p} /\ LkQueue' = LkQueue
  BY DEF Unlock, Signal, LkQueue
<1>2. inside = {p} /\ inside' = {}
  BY <1>1 DEF IInv, MutualExclusion
<1>3. Line = <<p>> \o LkQueue /\ Line' = LkQueue
  BY <1>1, <1>2, LineFacts
<1>4. p \in Proc /\ LkQueue \in Seq(Proc)
  BY QueueFacts, Constants
<1>5. Tail(Line) = LkQueue
  BY <1>3, <1>4, TailOfCons
<1> QED BY <1>2, <1>3, <1>5 DEF Abstract!Release

(* Whatever leaves the queue and the section alone leaves the line alone.  *)
LEMMA StutterStep ==
    ASSUME LkQueue' = LkQueue, inside' = inside
    PROVE  UNCHANGED Abstract!lockVars
BY DEF Abstract!lockVars, Line, LkQueue

LEMMA StepSimulates ==
    ASSUME IInv, [Next]_vars
    PROVE  [Abstract!Next]_(Abstract!lockVars)
<1>1. ASSUME NEW p \in Clients, ClientStep(p)
      PROVE  Abstract!Next \/ UNCHANGED Abstract!lockVars
  <2>1. CASE LockTake(p)
    BY <2>1, AcquireStep DEF Abstract!Next
  <2>2. CASE LockEnqueue(p)
    BY <2>2, RequestStep DEF Abstract!Next
  <2>3. CASE LockResume(p)
    BY <2>3, EnterStep DEF Abstract!Next
  <2>4. CASE Unlock(p)
    BY <2>4, ReleaseStep DEF Abstract!Next
  <2>5. CASE SleepEnqueue(p) \/ SleepResume(p)
    <3>1. p # Lk /\ Lk \in Sems
      BY Constants
    <3>2. /\ inside' = inside
          /\ \E q : queue' = [queue EXCEPT ![p] = q]
      BY <2>5 DEF SleepEnqueue, WaitEnqueue, SleepResume, WaitResume
    <3>3. LkQueue' = LkQueue
      BY <3>1, <3>2, QueueFacts DEF LkQueue
    <3> QED BY <3>2, <3>3, StutterStep
  <2> QED BY <1>1, <2>1, <2>2, <2>3, <2>4, <2>5 DEF ClientStep
<1>2. ASSUME NEW p \in Proc, Block(p) \/ Yield(p) \/ Timer(p)
      PROVE  UNCHANGED Abstract!lockVars
  <2>1. UNCHANGED <<queue, inside>>
    BY <1>2 DEF Block, WaitSchedule, Yield, Rest, Timer, TimerSchedule, semVars
  <2> QED BY <2>1, StutterStep DEF LkQueue
<1>3. CASE PassTime \/ UNCHANGED vars
  <2>1. UNCHANGED <<queue, inside>>
    BY <1>3 DEF PassTime, ClockTick, semVars, vars
  <2> QED BY <2>1, StutterStep DEF LkQueue
<1> QED BY <1>1, <1>2, <1>3 DEF Next

(* Lock, Unlock and everything below them implement the abstract lock:     *)
(* processes enter one at a time in the order in which they asked, for any *)
(* number of clients, with preemption and nanosleep inside the section.    *)
THEOREM FifoLockImplemented == Spec => ImplementsFifoLock
<1>1. Init => Abstract!Init
  <2>1. Init => inside = {} /\ LkQueue = <<>>
    BY Constants DEF Init, SemInit, LkQueue
  <2> QED BY <2>1, LineFacts DEF Abstract!Init
<1>2. IInv /\ [Next]_vars => [Abstract!Next]_(Abstract!lockVars)
  BY StepSimulates
<1> QED BY <1>1, <1>2, Invariance, PTL
        DEF Spec, ImplementsFifoLock, Abstract!Spec
=============================================================================
