-------------------------- MODULE SemaphoreProofs --------------------------
(***************************************************************************)
(* Proofs about what is built on Semaphore.  First what Wait does to the   *)
(* queues: links are unique, and a process is linked exactly while it is   *)
(* inside Wait.  Then SemaphoreUse, for any number of processes, of        *)
(* semaphores and of permits: UInv (types, links, books) holds of any use; *)
(* OrderInv, which says who is awake in a queue, needs process 0 to keep   *)
(* off them, because its Wait may return without having been woken.  Then  *)
(* Pipe, for any buffer size and any number of readers and writers: its    *)
(* positions are the counts of bytes modulo the length of the ring, so     *)
(* that part begins with remainders, goes on with the ring and ends with   *)
(* who may be inside a pipe that is deleted.                               *)
(***************************************************************************)
EXTENDS SemaphoreUse, Pipe, TLAPS

(* LinkTable::Remove of the one link of a process: the links before it     *)
(* stay where they are, those after it move up by one.                     *)
LEMMA UnlinkFacts ==
    ASSUME NEW S, NEW q \in Seq(S), NEW k \in DOMAIN q,
           \A j \in DOMAIN q : q[j] = q[k] => j = k
    PROVE  /\ Unlink(q, q[k]) \in Seq(S)
           /\ Len(Unlink(q, q[k])) = Len(q) - 1
           /\ \A i \in 1 .. Len(q) - 1 :
                 Unlink(q, q[k])[i] = IF i < k THEN q[i] ELSE q[i + 1]
<1> DEFINE r == SubSeq(q, 1, k - 1)
           t == SubSeq(q, k + 1, Len(q))
<1>1. k \in 1 .. Len(q) /\ Len(q) \in Nat
  OBVIOUS
<1>2. (CHOOSE i \in DOMAIN q : q[i] = q[k]) = k
  OBVIOUS
<1>3. Unlink(q, q[k]) = r \o t
  BY <1>2 DEF Unlink, RemoveAt
<1>4. /\ r \in Seq(S) /\ Len(r) = k - 1
      /\ \A i \in 1 .. k - 1 : r[i] = q[i]
  BY <1>1
<1>5. /\ t \in Seq(S) /\ Len(t) = Len(q) - k
      /\ \A i \in 1 .. Len(q) - k : t[i] = q[i + k]
  BY <1>1
<1>6. /\ r \o t \in Seq(S) /\ Len(r \o t) = Len(q) - 1
      /\ \A i \in 1 .. Len(q) - 1 :
            (r \o t)[i] = IF i <= k - 1 THEN r[i] ELSE t[i - (k - 1)]
  <2> HIDE DEF r, t
  <2>1. r \in Seq(S) /\ t \in Seq(S)
    BY <1>4, <1>5
  <2>2. Len(r) = k - 1 /\ Len(t) = Len(q) - k /\ k \in Nat /\ Len(q) \in Nat
    BY <1>1, <1>4, <1>5
  <2>3. r \o t \in Seq(S) /\ Len(r \o t) = Len(r) + Len(t)
    BY <2>1
  <2>4. ASSUME NEW i \in 1 .. Len(r) + Len(t)
        PROVE  (r \o t)[i] = IF i <= Len(r) THEN r[i] ELSE t[i - Len(r)]
    BY <2>1
  <2>5. (k - 1) + (Len(q) - k) = Len(q) - 1
    BY <2>2
  <2> QED BY <2>2, <2>3, <2>4, <2>5
<1>7. ASSUME NEW i \in 1 .. Len(q) - 1
      PROVE  (r \o t)[i] = IF i < k THEN q[i] ELSE q[i + 1]
  <2>1. CASE i < k
    BY <2>1, <1>1, <1>4, <1>6
  <2>2. CASE ~ (i < k)
    <3>1. i - (k - 1) \in 1 .. Len(q) - k
      BY <2>2, <1>1
    <3>2. t[i - (k - 1)] = q[(i - (k - 1)) + k]
      BY <3>1, <1>5
    <3>3. (i - (k - 1)) + k = i + 1 /\ ~ (i <= k - 1)
      BY <2>2, <1>1
    <3> HIDE DEF r, t
    <3> QED BY <2>2, <3>2, <3>3, <1>6
  <2> QED BY <2>1, <2>2
<1> QED BY <1>3, <1>6, <1>7

-----------------------------------------------------------------------------
QueueTypeOK ==
    /\ value \in [Sems -> Int]
    /\ queue \in [Sems -> Seq(Proc)]
    /\ at \in [Proc -> {"code", "enqueued", "woken"}]

\* A process has one link: SemWaitingLink.
OneLink ==
    \A s, t \in Sems : \A i \in DOMAIN queue[s], j \in DOMAIN queue[t] :
        queue[s][i] = queue[t][j] => s = t /\ i = j

\* It is in a queue from the first half of Wait to the second.
LinkedInWait ==
    \A p \in Proc : at[p] # "code" <=> \E s \in Sems : InQueue(p, s)

QueueInv == QueueTypeOK /\ OneLink /\ LinkedInWait

(* The first half of Wait appends the link of a process that has none.     *)
LEMMA EnqueueKeepsLinks ==
    ASSUME QueueInv, NEW p \in Proc, NEW s \in Sems, NEW t,
           WaitEnqueue(p, s, t)
    PROVE  QueueInv'
<1> USE DEF QueueInv
<1>1. /\ value \in [Sems -> Int] /\ queue \in [Sems -> Seq(Proc)]
      /\ at \in [Proc -> {"code", "enqueued", "woken"}]
      /\ at[p] = "code"
      /\ value' = [value EXCEPT ![s] = @ - 1]
      /\ queue' = [queue EXCEPT ![s] = Append(@, p)]
      /\ at' = [at EXCEPT ![p] = "enqueued"]
  BY DEF QueueTypeOK, WaitEnqueue, InCode, Link
<1>2. /\ queue[s] \in Seq(Proc) /\ value[s] \in Int
      /\ queue'[s] = Append(queue[s], p)
      /\ \A u \in Sems \ {s} : queue'[u] = queue[u]
  BY <1>1
<1>3. /\ Len(queue[s]) \in Nat
      /\ DOMAIN queue'[s] = DOMAIN queue[s] \union {Len(queue[s]) + 1}
      /\ queue'[s][Len(queue[s]) + 1] = p
      /\ \A i \in DOMAIN queue[s] : queue'[s][i] = queue[s][i]
  BY <1>2
<1>4. \A u \in Sems : \A i \in DOMAIN queue[u] : queue[u][i] # p
  BY <1>1 DEF LinkedInWait, InQueue
<1>5. QueueTypeOK'
  <2>1. value' \in [Sems -> Int] /\ queue' \in [Sems -> Seq(Proc)]
    BY <1>1, <1>2
  <2> QED BY <1>1, <2>1 DEF QueueTypeOK
<1>6. ASSUME NEW u \in Sems, NEW i \in DOMAIN queue'[u]
      PROVE  \/ i \in DOMAIN queue[u] /\ queue'[u][i] = queue[u][i]
             \/ u = s /\ i = Len(queue[s]) + 1 /\ queue'[u][i] = p
  BY <1>2, <1>3
<1>7. OneLink'
  <2> SUFFICES ASSUME NEW u \in Sems, NEW w \in Sems,
                      NEW i \in DOMAIN queue'[u], NEW j \in DOMAIN queue'[w],
                      queue'[u][i] = queue'[w][j]
               PROVE  u = w /\ i = j
    BY DEF OneLink
  <2>1. \/ i \in DOMAIN queue[u] /\ queue'[u][i] = queue[u][i]
        \/ u = s /\ i = Len(queue[s]) + 1 /\ queue'[u][i] = p
    BY <1>6
  <2>2. \/ j \in DOMAIN queue[w] /\ queue'[w][j] = queue[w][j]
        \/ w = s /\ j = Len(queue[s]) + 1 /\ queue'[w][j] = p
    BY <1>6
  <2>3. CASE queue'[u][i] = p
    BY <1>4, <2>1, <2>2, <2>3
  <2>4. CASE queue'[u][i] # p
    BY <2>1, <2>2, <2>4 DEF OneLink
  <2> QED BY <2>3, <2>4
<1>8. ASSUME NEW q \in Proc
      PROVE  at'[q] # "code" <=> \E u \in Sems : \E i \in DOMAIN queue'[u] :
                                                   queue'[u][i] = q
  <2>1. CASE q = p
    BY <1>1, <1>3, <2>1
  <2>2. CASE q # p
    <3>1. at'[q] = at[q]
      BY <1>1, <2>2
    <3>2. ASSUME NEW u \in Sems
          PROVE  (\E i \in DOMAIN queue'[u] : queue'[u][i] = q)
                     <=> \E i \in DOMAIN queue[u] : queue[u][i] = q
      BY <1>2, <1>3, <1>6, <2>2
    <3> QED BY <3>1, <3>2 DEF LinkedInWait, InQueue
  <2> QED BY <2>1, <2>2
<1>9. LinkedInWait'
  BY <1>8 DEF LinkedInWait, InQueue
<1> QED BY <1>5, <1>7, <1>9

(* A link taken out by its own process, or with it (Process::Destroy):     *)
(* the others keep their order, and none comes before where it was.        *)
LEMMA RemoveKeepsLinks ==
    ASSUME QueueInv, NEW p \in Proc, NEW s \in Sems, InQueue(p, s),
           queue' = [queue EXCEPT ![s] = Unlink(@, p)],
           at' = [at EXCEPT ![p] = "code"],
           value' \in [Sems -> Int]
    PROVE  /\ QueueInv'
           /\ Len(queue'[s]) = Len(queue[s]) - 1
           /\ \A u \in Sems : ~ InQueue(p, u)'
           /\ \A q \in Proc \ {p}, u \in Sems : InQueue(q, u)' <=> InQueue(q, u)
           /\ \A u \in Sems : \A i \in DOMAIN queue'[u] :
                 \E j \in DOMAIN queue[u] : /\ i <= j /\ 1 <= i
                                           /\ queue'[u][i] = queue[u][j]
<1> USE DEF QueueInv
<1>1. /\ queue \in [Sems -> Seq(Proc)]
      /\ at \in [Proc -> {"code", "enqueued", "woken"}]
  BY DEF QueueTypeOK
<1>2. PICK k \in DOMAIN queue[s] : queue[s][k] = p
  BY DEF InQueue
<1> DEFINE w == queue[s]
<1>3. /\ w \in Seq(Proc) /\ k \in DOMAIN w /\ w[k] = p
      /\ \A j \in DOMAIN w : w[j] = w[k] => j = k
      /\ queue'[s] = Unlink(w, w[k])
      /\ \A u \in Sems \ {s} : queue'[u] = queue[u]
  BY <1>1, <1>2 DEF OneLink
<1>4. w = queue[s]
  OBVIOUS
<1> HIDE DEF w
<1>5. /\ queue'[s] \in Seq(Proc)
      /\ Len(queue'[s]) = Len(w) - 1
      /\ \A i \in 1 .. Len(w) - 1 :
            queue'[s][i] = IF i < k THEN w[i] ELSE w[i + 1]
  BY <1>3, UnlinkFacts
<1>6. DOMAIN queue'[s] = 1 .. Len(w) - 1 /\ DOMAIN w = 1 .. Len(w)
      /\ Len(w) \in Nat /\ k \in 1 .. Len(w)
  BY <1>3, <1>5
<1> DEFINE Old(u, i) == IF u = s /\ ~ (i < k) THEN i + 1 ELSE i
<1>7. ASSUME NEW u \in Sems, NEW i \in DOMAIN queue'[u]
      PROVE  /\ i \in Nat /\ 1 <= i /\ i <= Old(u, i)
             /\ Old(u, i) \in DOMAIN queue[u]
             /\ queue'[u][i] = queue[u][Old(u, i)]
             /\ queue'[u][i] # p
  <2>1. CASE u = s
    <3>1. i \in 1 .. Len(w) - 1
      BY <1>6, <2>1
    <3>2. Old(u, i) = (IF i < k THEN i ELSE i + 1)
      BY <2>1
    <3>3. /\ Old(u, i) \in 1 .. Len(w) /\ Old(u, i) # k
          /\ i <= Old(u, i) /\ i \in Nat /\ 1 <= i
      BY <1>6, <3>1, <3>2
    <3>4. queue'[s][i] = w[Old(u, i)]
      BY <1>5, <3>1, <3>2
    <3>5. w[Old(u, i)] # p
      BY <1>3, <1>6, <3>3
    <3> HIDE DEF Old
    <3> QED BY <1>4, <1>6, <2>1, <3>3, <3>4, <3>5
  <2>2. CASE u # s
    <3>1. queue[u] \in Seq(Proc) /\ queue'[u] = queue[u] /\ Old(u, i) = i
      BY <1>1, <1>3, <2>2
    <3>2. i \in 1 .. Len(queue[u]) /\ i \in Nat /\ 1 <= i
      BY <3>1
    <3>3. queue[u][i] # p
      BY <1>2, <2>2, <3>1 DEF OneLink
    <3> QED BY <3>1, <3>2, <3>3
  <2> QED BY <2>1, <2>2
<1>8. ASSUME NEW u \in Sems, NEW j \in DOMAIN queue[u], queue[u][j] # p
      PROVE  \E i \in DOMAIN queue'[u] : queue'[u][i] = queue[u][j]
  <2>1. CASE u # s
    BY <1>3, <2>1
  <2>2. CASE u = s
    <3>1. j \in 1 .. Len(w) /\ w[j] = queue[u][j] /\ j # k
      BY <1>3, <1>4, <1>6, <1>8, <2>2
    <3>2. CASE j < k
      <4>1. j \in 1 .. Len(w) - 1
        BY <1>6, <3>1, <3>2
      <4> QED BY <1>5, <1>6, <2>2, <3>1, <3>2, <4>1
    <3>3. CASE j > k
      <4>1. j - 1 \in 1 .. Len(w) - 1 /\ ~ (j - 1 < k) /\ (j - 1) + 1 = j
        BY <1>6, <3>1, <3>3
      <4>2. queue'[s][j - 1] = w[j]
        BY <1>5, <4>1
      <4> QED BY <1>6, <2>2, <3>1, <4>1, <4>2
    <3> QED BY <1>6, <3>1, <3>2, <3>3
  <2> QED BY <2>1, <2>2
<1>9. QueueTypeOK'
  <2>1. queue' \in [Sems -> Seq(Proc)]
    BY <1>1, <1>5
  <2> QED BY <1>1, <2>1 DEF QueueTypeOK
<1>10. OneLink'
  <2> SUFFICES ASSUME NEW u \in Sems, NEW v \in Sems,
                      NEW i \in DOMAIN queue'[u], NEW j \in DOMAIN queue'[v],
                      queue'[u][i] = queue'[v][j]
               PROVE  u = v /\ i = j
    BY DEF OneLink
  <2>1. u = v /\ Old(u, i) = Old(v, j)
    <3> HIDE DEF Old
    <3> QED BY <1>7 DEF OneLink
  <2>2. i \in Nat /\ j \in Nat /\ k \in Nat
    BY <1>6, <1>7
  <2> QED BY <2>1, <2>2
<1> HIDE DEF Old
<1>11. \A u \in Sems : ~ \E i \in DOMAIN queue'[u] : queue'[u][i] = p
  BY <1>7
<1>12. ASSUME NEW q \in Proc \ {p}, NEW u \in Sems
       PROVE  (\E i \in DOMAIN queue'[u] : queue'[u][i] = q)
                  <=> \E i \in DOMAIN queue[u] : queue[u][i] = q
  BY <1>7, <1>8
<1>13. LinkedInWait'
  <2> SUFFICES ASSUME NEW q \in Proc
               PROVE  at'[q] # "code" <=> \E u \in Sems :
                          \E i \in DOMAIN queue'[u] : queue'[u][i] = q
    BY DEF LinkedInWait, InQueue
  <2>1. CASE q = p
    BY <1>1, <1>11, <2>1
  <2>2. CASE q # p
    <3>1. at'[q] = at[q]
      BY <1>1, <2>2
    <3> QED BY <1>12, <2>2, <3>1 DEF LinkedInWait, InQueue
  <2> QED BY <2>1, <2>2
<1>14. Len(queue'[s]) = Len(queue[s]) - 1
  BY <1>4, <1>5
<1>15. ASSUME NEW u \in Sems, NEW i \in DOMAIN queue'[u]
       PROVE  \E j \in DOMAIN queue[u] : /\ i <= j /\ 1 <= i
                                        /\ queue'[u][i] = queue[u][j]
  BY <1>7
<1>16. \A u \in Sems : ~ InQueue(p, u)'
  BY <1>11 DEF InQueue
<1>17. \A q \in Proc \ {p}, u \in Sems : InQueue(q, u)' <=> InQueue(q, u)
  BY <1>12 DEF InQueue
<1> QED BY <1>9, <1>10, <1>13, <1>14, <1>15, <1>16, <1>17

-----------------------------------------------------------------------------
UInv == TypeOK /\ QueueInv /\ PermitAccounting

(* Nobody waits at the start. *)
LEMMA Initially == Init => UInv
<1> SUFFICES ASSUME Init PROVE UInv
  OBVIOUS
<1> USE DEF Init, SemInit, SchedInit
<1>1. 0 \in Proc
  BY SchedulerAssumption DEF Proc
<1>2. /\ stat \in [Proc -> Stat] /\ value \in [Sems -> Int]
      /\ queue \in [Sems -> Seq(Proc)]
      /\ at \in [Proc -> {"code", "enqueued", "woken"}]
  BY SemaphoreAssumption DEF Stat
<1>3. TypeOK
  BY <1>1, <1>2 DEF TypeOK, SemTypeOK, SchedTypeOK
<1>4. QueueInv
  BY <1>2 DEF QueueInv, QueueTypeOK, OneLink, LinkedInWait, InQueue
<1>5. PermitAccounting
  <2> SUFFICES ASSUME NEW s \in Sems
               PROVE  value[s] + Len(queue[s])
                         = InitValue[s] + signalled[s] - granted[s]
    BY DEF PermitAccounting
  <2>1. InitValue[s] \in Int /\ Len(queue[s]) = 0
    BY SemaphoreAssumption
  <2> QED BY <2>1
<1> QED BY <1>3, <1>4, <1>5 DEF UInv

(* Who runs is no concern of the queues and the books.                     *)
LEMMA ScheduleTypes ==
    ASSUME SchedTypeOK, NEW p \in Proc, Schedule(p)
    PROVE  SchedTypeOK'
<1> USE DEF SchedTypeOK
<1>1. UNCHANGED <<SemWaitingTargetTime, clock>>
  BY DEF Schedule
<1>2. CASE \E q \in Proc : NextInRing(p, q) /\ Run(p, q) /\ UNCHANGED fault
  <2>1. PICK q \in Proc : Run(p, q) /\ UNCHANGED fault
    BY <1>2
  <2> QED BY <1>1, <2>1 DEF Run, Stat
<1>3. CASE UNCHANGED <<stat, CurrentProcess>> /\ fault' \in BOOLEAN
  BY <1>1, <1>3
<1> QED BY <1>2, <1>3 DEF Schedule

(* A Wait that is granted at once pays with a permit that is there.        *)
LEMMA WaitNowStep ==
    ASSUME UInv, NEW p \in Proc, NEW s \in Sems, WaitNow(p, s)
    PROVE  UInv'
<1> USE DEF UInv, WaitNow, WaitTake
<1>1. /\ value \in [Sems -> Int] /\ queue \in [Sems -> Seq(Proc)]
      /\ granted \in [Sems -> Nat]
      /\ value[s] \in Int /\ granted[s] \in Nat
      /\ value[s] - 1 \in Int /\ granted[s] + 1 \in Nat
  BY DEF TypeOK, SemTypeOK
<1>2. value' \in [Sems -> Int] /\ granted' \in [Sems -> Nat]
  BY <1>1
<1>3. TypeOK'
  BY <1>2 DEF TypeOK, SemTypeOK, SchedTypeOK
<1>4. QueueInv'
  BY <1>2 DEF QueueInv, QueueTypeOK, OneLink, LinkedInWait, InQueue
<1>5. PermitAccounting'
  <2> SUFFICES ASSUME NEW u \in Sems
               PROVE  value'[u] + Len(queue[u])
                         = InitValue[u] + signalled[u] - granted'[u]
    BY DEF PermitAccounting
  <2>1. value[u] + Len(queue[u]) = InitValue[u] + signalled[u] - granted[u]
    BY DEF PermitAccounting
  <2>2. /\ value[u] \in Int /\ Len(queue[u]) \in Nat /\ InitValue[u] \in Int
        /\ signalled[u] \in Nat /\ granted[u] \in Nat
    BY <1>1, SemaphoreAssumption DEF TypeOK
  <2>3. IF u = s THEN value'[u] = value[u] - 1 /\ granted'[u] = granted[u] + 1
                 ELSE value'[u] = value[u] /\ granted'[u] = granted[u]
    BY <1>1
  <2>4. (value[u] - 1) + Len(queue[u]) = InitValue[u] + signalled[u] - (granted[u] + 1)
    <3> DEFINE v == value[u]  l == Len(queue[u])  b == InitValue[u]
               m == signalled[u]  g == granted[u]
    <3>1. /\ v \in Int /\ l \in Int /\ b \in Int /\ m \in Int /\ g \in Int
          /\ v + l = b + m - g
      BY <2>1, <2>2
    <3>2. (v - 1) + l = b + m - (g + 1)
      <4> HIDE DEF v, l, b, m, g
      <4> QED BY <3>1
    <3> QED BY <3>2
  <2> QED BY <2>1, <2>3, <2>4
<1> QED BY <1>3, <1>4, <1>5

(* A waiter pays before it sleeps, and its link says so.                   *)
LEMMA WaitBeginStep ==
    ASSUME UInv, NEW p \in Proc, NEW s \in Sems, WaitBegin(p, s)
    PROVE  UInv'
<1>1. PICK t \in Timeouts : WaitEnqueue(p, s, t)
  BY DEF WaitBegin
<1>2. QueueInv'
  BY <1>1, EnqueueKeepsLinks DEF UInv
<1> USE DEF UInv
<1>3. /\ value \in [Sems -> Int] /\ queue \in [Sems -> Seq(Proc)]
      /\ stat \in [Proc -> Stat] /\ SemWaitingTargetTime \in [Proc -> Nat]
      /\ clock \in Nat /\ UNCHANGED <<signalled, granted>>
  BY DEF TypeOK, SemTypeOK, SchedTypeOK, WaitBegin
<1>4. /\ value' = [value EXCEPT ![s] = @ - 1]
      /\ queue' = [queue EXCEPT ![s] = Append(@, p)]
      /\ stat' = [stat EXCEPT ![p] = "Sleeping"]
      /\ SemWaitingTargetTime' =
            [SemWaitingTargetTime EXCEPT ![p] = Deadline(p, t)]
      /\ UNCHANGED <<CurrentProcess, clock, fault>>
  BY <1>1 DEF WaitEnqueue, Link
<1>5. TypeOK'
  <2>1. Deadline(p, t) \in Nat
    <3>1. CASE t = KeepWait
      BY <1>3, <3>1 DEF Deadline
    <3>2. CASE t # KeepWait
      <4>1. t \in Nat
        BY <3>2, UseAssumption
      <4>2. clock + t \in Nat
        BY <1>3, <4>1
      <4> QED BY <3>2, <4>2 DEF Deadline
    <3> QED BY <3>1, <3>2
  <2>2. SemWaitingTargetTime' \in [Proc -> Nat]
    BY <1>3, <1>4, <2>1
  <2>3. stat' \in [Proc -> Stat]
    BY <1>3, <1>4 DEF Stat
  <2> QED BY <1>2, <1>3, <1>4, <2>2, <2>3
          DEF TypeOK, SemTypeOK, SchedTypeOK, QueueInv, QueueTypeOK
<1>6. PermitAccounting'
  <2> SUFFICES ASSUME NEW u \in Sems
               PROVE  value'[u] + Len(queue'[u])
                         = InitValue[u] + signalled[u] - granted[u]
    BY <1>3 DEF PermitAccounting
  <2>1. value[u] + Len(queue[u]) = InitValue[u] + signalled[u] - granted[u]
    BY DEF PermitAccounting
  <2>2. value[u] \in Int /\ Len(queue[u]) \in Nat
    BY <1>3
  <2>3. CASE u = s
    <3>1. value'[u] = value[u] - 1 /\ queue'[u] = Append(queue[u], p)
      BY <1>3, <1>4, <2>3
    <3>2. Len(queue'[u]) = Len(queue[u]) + 1
      BY <1>3, <3>1
    <3> QED BY <2>1, <2>2, <3>1, <3>2
  <2>4. CASE u # s
    <3>1. value'[u] = value[u] /\ queue'[u] = queue[u]
      BY <1>3, <1>4, <2>4
    <3> QED BY <2>1, <3>1
  <2> QED BY <2>3, <2>4
<1> QED BY <1>2, <1>5, <1>6

(* A waiter that comes back keeps what it paid for, or, late, is paid back.*)
LEMMA WaitEndStep ==
    ASSUME UInv, NEW p \in Proc, NEW s \in Sems, WaitEnd(p, s)
    PROVE  /\ UInv'
           /\ \A u \in Sems : \A i \in DOMAIN queue'[u] :
                 \E j \in DOMAIN queue[u] : /\ i <= j /\ 1 <= i
                                           /\ queue'[u][i] = queue[u][j]
           /\ \A u \in Sems : ~ InQueue(p, u)'
           /\ \A q \in Proc \ {p}, u \in Sems : InQueue(q, u)' <=> InQueue(q, u)
<1> USE DEF UInv
<1>1. /\ value \in [Sems -> Int] /\ queue \in [Sems -> Seq(Proc)]
      /\ SemWaitingTargetTime \in [Proc -> Nat]
      /\ granted \in [Sems -> Nat]
  BY DEF TypeOK, SemTypeOK, SchedTypeOK
<1>2. /\ InQueue(p, s)
      /\ value' = [value EXCEPT ![s] = @ + PermitBack(p)]
      /\ queue' = [queue EXCEPT ![s] = Unlink(@, p)]
      /\ at' = [at EXCEPT ![p] = "code"]
      /\ SemWaitingTargetTime' = [SemWaitingTargetTime EXCEPT ![p] = 0]
      /\ granted' = [granted EXCEPT ![s] = IF Late(p) THEN @ ELSE @ + 1]
      /\ UNCHANGED <<stat, CurrentProcess, clock, fault, signalled>>
  BY DEF WaitEnd, WaitResume
<1>3. /\ PermitBack(p) \in Int
      /\ PermitBack(p) = IF Late(p) THEN 1 ELSE 0
  BY DEF PermitBack
<1>4. value' \in [Sems -> Int]
  <2>1. value[s] + PermitBack(p) \in Int
    BY <1>1, <1>3
  <2> QED BY <1>1, <1>2, <2>1
<1>5. granted' \in [Sems -> Nat]
  BY <1>1, <1>2
<1>6. /\ QueueInv'
      /\ Len(queue'[s]) = Len(queue[s]) - 1
      /\ \A u \in Sems : ~ InQueue(p, u)'
      /\ \A q \in Proc \ {p}, u \in Sems : InQueue(q, u)' <=> InQueue(q, u)
      /\ \A u \in Sems : \A i \in DOMAIN queue'[u] :
            \E j \in DOMAIN queue[u] : /\ i <= j /\ 1 <= i
                                      /\ queue'[u][i] = queue[u][j]
  BY <1>2, <1>4, RemoveKeepsLinks
<1>7. TypeOK'
  <2>1. SemWaitingTargetTime' \in [Proc -> Nat]
    BY <1>1, <1>2
  <2> QED BY <1>2, <1>4, <1>5, <1>6, <2>1
          DEF TypeOK, SemTypeOK, SchedTypeOK, QueueInv, QueueTypeOK
<1>8. PermitAccounting'
  <2> SUFFICES ASSUME NEW u \in Sems
               PROVE  value'[u] + Len(queue'[u])
                         = InitValue[u] + signalled[u] - granted'[u]
    BY <1>2 DEF PermitAccounting
  <2>1. value[u] + Len(queue[u]) = InitValue[u] + signalled[u] - granted[u]
    BY DEF PermitAccounting
  <2>2. /\ value[u] \in Int /\ Len(queue[u]) \in Nat /\ InitValue[u] \in Int
        /\ signalled[u] \in Nat /\ granted[u] \in Nat
    BY <1>1, SemaphoreAssumption DEF TypeOK
  <2>3. CASE u = s
    <3>1. value'[u] = value[u] + (IF Late(p) THEN 1 ELSE 0)
      BY <1>1, <1>2, <1>3, <2>3
    <3>2. granted'[u] = IF Late(p) THEN granted[u] ELSE granted[u] + 1
      BY <1>1, <1>2, <2>3
    <3>3. Len(queue'[u]) = Len(queue[u]) - 1
      BY <1>6, <2>3
    <3>4. CASE Late(p)
      BY <2>1, <2>2, <3>1, <3>2, <3>3, <3>4
    <3>5. CASE ~ Late(p)
      <4>1. value'[u] = value[u] /\ granted'[u] = granted[u] + 1
        BY <2>2, <3>1, <3>2, <3>5
      <4>2. value[u] + (Len(queue[u]) - 1)
               = InitValue[u] + signalled[u] - (granted[u] + 1)
        <5> DEFINE v == value[u]  l == Len(queue[u])  b == InitValue[u]
                   m == signalled[u]  g == granted[u]
        <5>1. /\ v \in Int /\ l \in Int /\ b \in Int /\ m \in Int /\ g \in Int
              /\ v + l = b + m - g
          BY <2>1, <2>2
        <5>2. v + (l - 1) = b + m - (g + 1)
          <6> HIDE DEF v, l, b, m, g
          <6> QED BY <5>1
        <5> QED BY <5>2
      <4> QED BY <3>3, <4>1, <4>2
    <3> QED BY <3>4, <3>5
  <2>4. CASE u # s
    <3>1. value'[u] = value[u] /\ queue'[u] = queue[u] /\ granted'[u] = granted[u]
      BY <1>1, <1>2, <2>4
    <3> QED BY <2>1, <3>1
  <2> QED BY <2>3, <2>4
<1> QED BY <1>6, <1>7, <1>8

(* A Signal adds what it says it adds, and moves no link.                  *)
LEMMA SignalStep ==
    ASSUME UInv, NEW p \in Proc, NEW s \in Sems, NEW n \in SignalCounts,
           SignalN(p, s, n)
    PROVE  UInv'
<1> USE DEF UInv
<1>1. /\ value \in [Sems -> Int] /\ queue \in [Sems -> Seq(Proc)]
      /\ stat \in [Proc -> Stat] /\ signalled \in [Sems -> Nat]
  BY DEF TypeOK, SemTypeOK, SchedTypeOK
<1>2. SignalCount(s, n) \in Nat
  <2>1. n \in Nat /\ value[s] \in Int
    BY <1>1, UseAssumption
  <2> QED BY <2>1 DEF SignalCount
<1>3. /\ value' = [value EXCEPT ![s] = @ + SignalCount(s, n)]
      /\ signalled' = [signalled EXCEPT ![s] = @ + SignalCount(s, n)]
      /\ stat' = [q \in Proc |-> IF Wakes(s, n, q) THEN "Ready" ELSE stat[q]]
      /\ UNCHANGED <<CurrentProcess, SemWaitingTargetTime, clock, fault,
                     queue, at, granted>>
  BY DEF SignalN, Signal
<1> DEFINE k == SignalCount(s, n)
<1> HIDE DEF k
<1>4. /\ k \in Nat
      /\ value' = [value EXCEPT ![s] = @ + k]
      /\ signalled' = [signalled EXCEPT ![s] = @ + k]
  BY <1>2, <1>3 DEF k
<1>5. value' \in [Sems -> Int] /\ signalled' \in [Sems -> Nat]
  <2>1. value[s] + k \in Int /\ signalled[s] + k \in Nat
    BY <1>1, <1>4
  <2> QED BY <1>1, <1>4, <2>1
<1>6. TypeOK'
  <2>1. stat' \in [Proc -> Stat]
    BY <1>1, <1>3 DEF Stat
  <2> QED BY <1>3, <1>5, <2>1 DEF TypeOK, SemTypeOK, SchedTypeOK
<1>7. QueueInv'
  BY <1>3, <1>5 DEF QueueInv, QueueTypeOK, OneLink, LinkedInWait, InQueue
<1>8. PermitAccounting'
  <2> SUFFICES ASSUME NEW u \in Sems
               PROVE  value'[u] + Len(queue[u])
                         = InitValue[u] + signalled'[u] - granted[u]
    BY <1>3 DEF PermitAccounting
  <2>1. value[u] + Len(queue[u]) = InitValue[u] + signalled[u] - granted[u]
    BY DEF PermitAccounting
  <2>2. /\ value[u] \in Int /\ Len(queue[u]) \in Nat /\ InitValue[u] \in Int
        /\ signalled[u] \in Nat /\ granted[u] \in Nat
    BY <1>1, SemaphoreAssumption DEF TypeOK
  <2>3. IF u = s THEN value'[u] = value[u] + k /\ signalled'[u] = signalled[u] + k
                 ELSE value'[u] = value[u] /\ signalled'[u] = signalled[u]
    BY <1>1, <1>4
  <2>4. (value[u] + k) + Len(queue[u]) = InitValue[u] + (signalled[u] + k) - granted[u]
    <3> DEFINE v == value[u]  l == Len(queue[u])  b == InitValue[u]
               m == signalled[u]  g == granted[u]
    <3>1. /\ v \in Int /\ l \in Int /\ b \in Int /\ m \in Int /\ g \in Int
          /\ v + l = b + m - g
      BY <2>1, <2>2
    <3>2. (v + k) + l = b + (m + k) - g
      <4> HIDE DEF v, l, b, m, g
      <4> QED BY <1>4, <3>1
    <3> QED BY <3>2
  <2> QED BY <2>1, <2>3, <2>4
<1> QED BY <1>6, <1>7, <1>8

(* Schedule, the timer and the clock leave queues and books alone; the     *)
(* call of Schedule in Wait moves its process from one half to the other.  *)
LEMMA OtherStep ==
    ASSUME UInv, UNCHANGED <<value, queue, signalled, granted>>, SchedTypeOK',
           \/ UNCHANGED at
           \/ \E p \in Proc : at[p] = "enqueued" /\ at' = [at EXCEPT ![p] = "woken"]
    PROVE  UInv'
<1> USE DEF UInv
<1>1. at \in [Proc -> {"code", "enqueued", "woken"}]
  BY DEF TypeOK, SemTypeOK
<1>2. /\ at' \in [Proc -> {"code", "enqueued", "woken"}]
      /\ \A q \in Proc : at'[q] = "code" <=> at[q] = "code"
  BY <1>1
<1>3. TypeOK' /\ PermitAccounting'
  BY <1>2 DEF TypeOK, SemTypeOK, PermitAccounting
<1>4. QueueInv'
  BY <1>2 DEF QueueInv, QueueTypeOK, OneLink, LinkedInWait, InQueue
<1> QED BY <1>3, <1>4

LEMMA Inductive == UInv /\ [Next]_vars => UInv'
<1> SUFFICES ASSUME UInv, [Next]_vars PROVE UInv'
  OBVIOUS
<1>1. SchedTypeOK /\ \A p \in Clients : p \in Proc
  BY UseAssumption DEF UInv, TypeOK, SemTypeOK
<1>2. ASSUME NEW p \in Clients, NEW s \in Sems,
             \/ WaitNow(p, s) \/ WaitTried(p, s)
             \/ WaitBegin(p, s) \/ WaitEnd(p, s)
             \/ \E n \in SignalCounts : SignalN(p, s, n)
      PROVE  UInv'
  <2>1. CASE WaitTried(p, s)
    BY <1>1, <2>1, OtherStep DEF WaitTried, WaitRefused, kernelVars, SchedTypeOK
  <2> QED BY <1>1, <1>2, <2>1, WaitNowStep, WaitBeginStep, WaitEndStep, SignalStep
<1>3. ASSUME NEW p \in Proc, Block(p) \/ Yield(p) \/ Timer(p)
      PROVE  UInv'
  <2>1. /\ Schedule(p) /\ UNCHANGED <<value, queue, signalled, granted>>
        /\ \/ UNCHANGED at
           \/ at[p] = "enqueued" /\ at' = [at EXCEPT ![p] = "woken"]
    BY <1>3 DEF Block, WaitSchedule, Yield, Rest, Timer, TimerSchedule, semVars
  <2>2. SchedTypeOK'
    BY <1>1, <2>1, ScheduleTypes
  <2> QED BY <2>1, <2>2, OtherStep
<1>4. CASE PassTime
  <2>1. SchedTypeOK'
    BY <1>1, <1>4 DEF PassTime, ClockTick, Tick, SchedTypeOK
  <2> QED BY <1>4, <2>1, OtherStep DEF PassTime, ClockTick, semVars
<1>5. CASE UNCHANGED vars
  <2>1. SchedTypeOK'
    BY <1>1, <1>5 DEF vars, SchedTypeOK
  <2> QED BY <1>5, <2>1, OtherStep DEF vars
<1> QED BY <1>2, <1>3, <1>4, <1>5 DEF Next

(* Types, links and books are kept by any use of the semaphores.           *)
THEOREM Invariance == Spec => []UInv
BY Initially, Inductive, PTL DEF Spec

(* value and the queue account for every permit there ever was, whatever   *)
(* mixture of timeouts, tries and signals (Semaphore::Wait, Signal).       *)
THEOREM PermitsBalance == Spec => []PermitAccounting
<1>1. UInv => PermitAccounting
  BY DEF UInv
<1> QED BY <1>1, Invariance, PTL

(* One SemWaitingLink is enough for a process: it is in at most one queue, *)
(* once, and just while it is inside Wait.                                 *)
THEOREM OneLinkSuffices == Spec => []OneQueueEach
<1>1. UInv => OneQueueEach
  BY DEF UInv, QueueInv, OneLink, LinkedInWait, InQueue, OneQueueEach
<1> QED BY <1>1, Invariance, PTL

-----------------------------------------------------------------------------
\* Of the processes in a queue, only the first or a late one may be awake.
AwakeFirst ==
    \A s \in Sems : \A i \in DOMAIN queue[s] :
        stat[queue[s][i]] = "Sleeping" \/ Late(queue[s][i]) \/ i = 1

\* A waiter that runs again was woken.
CurrentAwake ==
    /\ at[0] = "code"
    /\ at[CurrentProcess] = "woken" /\ ~ fault => stat[CurrentProcess] # "Sleeping"

OrderInv == UInv /\ AwakeFirst /\ CurrentAwake

(* A scan wakes only who is late.                                          *)
LEMMA OrderSchedule ==
    ASSUME OrderInv, UInv', NEW p \in Proc, Schedule(p), UNCHANGED queue,
           \/ UNCHANGED at
           \/ at[p] = "enqueued" /\ at' = [at EXCEPT ![p] = "woken"]
    PROVE  OrderInv'
<1> USE DEF OrderInv
<1>1. /\ stat \in [Proc -> Stat] /\ queue \in [Sems -> Seq(Proc)]
      /\ at \in [Proc -> {"code", "enqueued", "woken"}]
      /\ 0 \in Proc /\ CurrentProcess \in Proc
  BY SchedulerAssumption DEF UInv, TypeOK, SemTypeOK, SchedTypeOK, Proc
<1>2. p = CurrentProcess /\ UNCHANGED <<SemWaitingTargetTime, clock>>
  BY DEF Schedule
<1>3. \A q \in Proc : Late(q)' <=> Late(q)
  BY <1>2 DEF Late
<1>4. at'[0] = "code"
  BY <1>1 DEF CurrentAwake
<1>5. ASSUME NEW s \in Sems, NEW i \in DOMAIN queue[s]
      PROVE  queue[s][i] \in Proc
  BY <1>1
<1>6. CASE \E q \in Proc : NextInRing(p, q) /\ Run(p, q)
  <2>1. PICK q \in Proc : /\ q # p /\ Runnable(q) /\ CurrentProcess' = q
                          /\ stat' = [stat EXCEPT
                                ![p] = IF @ = "Running" THEN "Ready" ELSE @,
                                ![q] = "Running"]
    BY <1>6 DEF NextInRing, Run
  <2>2. \A r \in Proc : stat[r] = "Sleeping" =>
                           stat'[r] = "Sleeping" \/ Late(r)
    BY <1>1, <2>1 DEF Runnable, TimedOut, Late
  <2>3. AwakeFirst'
    <3> SUFFICES ASSUME NEW s \in Sems, NEW i \in DOMAIN queue[s]
                 PROVE  \/ stat'[queue[s][i]] = "Sleeping"
                        \/ Late(queue[s][i])' \/ i = 1
      BY DEF AwakeFirst
    <3> QED BY <1>3, <1>5, <2>2 DEF AwakeFirst
  <2>4. stat'[CurrentProcess'] = "Running"
    BY <1>1, <2>1
  <2> QED BY <1>4, <2>3, <2>4 DEF CurrentAwake
<1>7. CASE UNCHANGED <<stat, CurrentProcess>>
  <2>1. AwakeFirst'
    BY <1>2, <1>7 DEF AwakeFirst, Late
  <2>2. p = 0 \/ fault' = TRUE \/ \E q \in Proc : NextInRing(p, q) /\ Run(p, q)
    BY DEF Schedule
  <2>3. CASE p = 0
    BY <1>1, <1>2, <1>4, <1>7, <2>1, <2>3 DEF CurrentAwake
  <2>4. CASE fault' = TRUE
    BY <1>4, <2>1, <2>4 DEF CurrentAwake
  <2> QED BY <1>6, <2>2, <2>3, <2>4
<1> QED BY <1>6, <1>7 DEF Schedule

(* A Signal wakes only the first.                                          *)
LEMMA OrderSignal ==
    ASSUME OrderInv, UInv', NEW p \in Proc, NEW s \in Sems, NEW n,
           Signal(p, s, n)
    PROVE  OrderInv'
<1> USE DEF OrderInv
<1>1. /\ stat \in [Proc -> Stat] /\ queue \in [Sems -> Seq(Proc)]
      /\ p = CurrentProcess /\ at[p] = "code"
      /\ stat' = [q \in Proc |-> IF Wakes(s, n, q) THEN "Ready" ELSE stat[q]]
      /\ UNCHANGED <<CurrentProcess, SemWaitingTargetTime, clock, fault,
                     queue, at>>
  BY DEF UInv, TypeOK, SemTypeOK, SchedTypeOK, Signal, InCode
<1>2. AwakeFirst'
  <2> SUFFICES ASSUME NEW u \in Sems, NEW i \in DOMAIN queue[u],
                      stat'[queue[u][i]] # stat[queue[u][i]]
               PROVE  i = 1
    BY <1>1 DEF AwakeFirst, Late
  <2>1. queue[u][i] \in Proc /\ queue[s] \in Seq(Proc)
    BY <1>1
  <2>2. queue[s] # <<>> /\ queue[u][i] = Head(queue[s])
    BY <1>1, <2>1 DEF Wakes
  <2>3. 1 \in DOMAIN queue[s] /\ Head(queue[s]) = queue[s][1]
    BY <2>1, <2>2
  <2> QED BY <2>2, <2>3 DEF UInv, QueueInv, OneLink
<1>3. CurrentAwake'
  BY <1>1 DEF CurrentAwake
<1> QED BY <1>2, <1>3

(* Who goes to sleep joins the sleepers.                                   *)
LEMMA OrderEnqueue ==
    ASSUME OrderInv, UInv', NEW p \in Proc, p # 0, NEW s \in Sems, NEW t,
           WaitEnqueue(p, s, t)
    PROVE  OrderInv'
<1> USE DEF OrderInv
<1>1. /\ stat \in [Proc -> Stat] /\ queue \in [Sems -> Seq(Proc)]
      /\ at \in [Proc -> {"code", "enqueued", "woken"}] /\ 0 \in Proc
      /\ SemWaitingTargetTime \in [Proc -> Nat]
      /\ p = CurrentProcess /\ at[p] = "code"
      /\ queue' = [queue EXCEPT ![s] = Append(@, p)]
      /\ stat' = [stat EXCEPT ![p] = "Sleeping"]
      /\ at' = [at EXCEPT ![p] = "enqueued"]
      /\ SemWaitingTargetTime' =
            [SemWaitingTargetTime EXCEPT ![p] = Deadline(p, t)]
      /\ UNCHANGED <<CurrentProcess, clock, fault>>
  BY SchedulerAssumption
  DEF UInv, TypeOK, SemTypeOK, SchedTypeOK, WaitEnqueue, InCode, Link, Proc
<1>2. /\ queue[s] \in Seq(Proc)
      /\ queue'[s] = Append(queue[s], p)
      /\ \A u \in Sems \ {s} : queue'[u] = queue[u]
  BY <1>1
<1>3. ASSUME NEW u \in Sems, NEW i \in DOMAIN queue'[u]
      PROVE  \/ queue'[u][i] = p
             \/ i \in DOMAIN queue[u] /\ queue'[u][i] = queue[u][i]
  BY <1>2
<1>4. AwakeFirst'
  <2> SUFFICES ASSUME NEW u \in Sems, NEW i \in DOMAIN queue'[u]
               PROVE  \/ stat'[queue'[u][i]] = "Sleeping"
                      \/ /\ SemWaitingTargetTime'[queue'[u][i]] # 0
                         /\ clock' >= SemWaitingTargetTime'[queue'[u][i]]
                      \/ i = 1
    BY DEF AwakeFirst, Late
  <2>1. CASE queue'[u][i] = p
    BY <1>1, <2>1
  <2>2. CASE i \in DOMAIN queue[u] /\ queue'[u][i] = queue[u][i] /\ queue[u][i] # p
    <3>1. queue[u][i] \in Proc
      BY <1>1, <2>2
    <3>2. /\ SemWaitingTargetTime'[queue[u][i]] = SemWaitingTargetTime[queue[u][i]]
          /\ stat'[queue[u][i]] = stat[queue[u][i]]
      BY <1>1, <2>2, <3>1
    <3> QED BY <1>1, <2>2, <3>2 DEF AwakeFirst, Late
  <2> QED BY <1>3, <2>1, <2>2
<1>5. CurrentAwake'
  BY <1>1 DEF CurrentAwake
<1> QED BY <1>4, <1>5

(* Who comes back leaves the others where they were, or one further up.    *)
LEMMA OrderResume ==
    ASSUME OrderInv, UInv', NEW p \in Proc, NEW s \in Sems, WaitEnd(p, s)
    PROVE  OrderInv'
<1> USE DEF OrderInv
<1>1. /\ stat \in [Proc -> Stat] /\ queue \in [Sems -> Seq(Proc)]
      /\ at \in [Proc -> {"code", "enqueued", "woken"}] /\ 0 \in Proc
      /\ SemWaitingTargetTime \in [Proc -> Nat]
      /\ p = CurrentProcess
      /\ at' = [at EXCEPT ![p] = "code"]
      /\ SemWaitingTargetTime' = [SemWaitingTargetTime EXCEPT ![p] = 0]
      /\ UNCHANGED <<stat, CurrentProcess, clock, fault>>
  BY SchedulerAssumption
  DEF UInv, TypeOK, SemTypeOK, SchedTypeOK, WaitEnd, WaitResume, Proc
<1>2. /\ \A u \in Sems : \A i \in DOMAIN queue'[u] :
             \E j \in DOMAIN queue[u] : /\ i <= j /\ 1 <= i
                                       /\ queue'[u][i] = queue[u][j]
      /\ \A u \in Sems : ~ InQueue(p, u)'
  BY WaitEndStep
<1>3. AwakeFirst'
  <2> SUFFICES ASSUME NEW u \in Sems, NEW i \in DOMAIN queue'[u]
               PROVE  \/ stat[queue'[u][i]] = "Sleeping"
                      \/ /\ SemWaitingTargetTime'[queue'[u][i]] # 0
                         /\ clock' >= SemWaitingTargetTime'[queue'[u][i]]
                      \/ i = 1
    BY <1>1 DEF AwakeFirst, Late
  <2>1. PICK j \in DOMAIN queue[u] : /\ i <= j /\ 1 <= i
                                    /\ queue'[u][i] = queue[u][j]
    BY <1>2
  <2>2. queue[u][j] \in Proc /\ j \in Nat /\ queue'[u] \in Seq(Proc) /\ i \in Nat
    BY SMTT(30), <1>1 DEF UInv, QueueInv, QueueTypeOK
  <2>3. queue'[u][i] # p
    BY <1>2 DEF InQueue
  <2>4. SemWaitingTargetTime'[queue[u][j]] = SemWaitingTargetTime[queue[u][j]]
    BY <1>1, <2>1, <2>2, <2>3
  <2>5. j = 1 => i = 1
    BY <2>1, <2>2
  <2> QED BY <1>1, <2>1, <2>4, <2>5 DEF AwakeFirst, Late
<1>4. CurrentAwake'
  BY <1>1 DEF CurrentAwake
<1> QED BY <1>3, <1>4

LEMMA OrderInductive ==
    ASSUME 0 \notin Clients, OrderInv, [Next]_vars
    PROVE  OrderInv'
<1>1. UInv'
  BY Inductive DEF OrderInv
<1>2. \A p \in Clients : p \in Proc /\ p # 0
  BY UseAssumption
<1>3. ASSUME UNCHANGED <<stat, CurrentProcess, SemWaitingTargetTime, fault,
                         queue, at>>,
             clock' >= clock, clock' \in Nat
      PROVE  OrderInv'
  <2>1. clock \in Nat /\ SemWaitingTargetTime \in [Proc -> Nat]
        /\ queue \in [Sems -> Seq(Proc)]
    BY DEF OrderInv, UInv, TypeOK, SemTypeOK, SchedTypeOK
  <2>2. ASSUME NEW s \in Sems, NEW i \in DOMAIN queue[s], Late(queue[s][i])
        PROVE  Late(queue[s][i])'
    <3>1. queue[s][i] \in Proc
      BY <2>1
    <3> QED BY <1>3, <2>1, <2>2, <3>1 DEF Late
  <2>3. AwakeFirst'
    BY <1>3, <2>2 DEF OrderInv, AwakeFirst
  <2>4. CurrentAwake'
    BY <1>3 DEF OrderInv, CurrentAwake
  <2> QED BY <1>1, <2>3, <2>4 DEF OrderInv
<1>4. clock \in Nat
  BY DEF OrderInv, UInv, TypeOK, SemTypeOK, SchedTypeOK
<1>5. ASSUME NEW p \in Clients, NEW s \in Sems,
             \/ WaitNow(p, s) \/ WaitTried(p, s)
             \/ WaitBegin(p, s) \/ WaitEnd(p, s)
             \/ \E n \in SignalCounts : SignalN(p, s, n)
      PROVE  OrderInv'
  <2>1. CASE WaitNow(p, s) \/ WaitTried(p, s)
    <3>1. UNCHANGED <<stat, CurrentProcess, SemWaitingTargetTime, clock, fault,
                      queue, at>>
      BY <2>1 DEF WaitNow, WaitTake, WaitTried, WaitRefused, kernelVars
    <3> QED BY <1>3, <1>4, <3>1
  <2>2. CASE WaitBegin(p, s)
    BY <1>1, <1>2, <2>2, OrderEnqueue DEF WaitBegin
  <2>3. CASE WaitEnd(p, s)
    BY <1>1, <1>2, <2>3, OrderResume
  <2>4. CASE \E n \in SignalCounts : SignalN(p, s, n)
    BY <1>1, <1>2, <2>4, OrderSignal DEF SignalN
  <2> QED BY <1>5, <2>1, <2>2, <2>3, <2>4
<1>6. ASSUME NEW p \in Proc, Block(p) \/ Yield(p) \/ Timer(p)
      PROVE  OrderInv'
  <2>1. /\ Schedule(p) /\ UNCHANGED queue
        /\ \/ UNCHANGED at
           \/ at[p] = "enqueued" /\ at' = [at EXCEPT ![p] = "woken"]
    BY <1>6 DEF Block, WaitSchedule, Yield, Rest, Timer, TimerSchedule, semVars
  <2> QED BY <1>1, <2>1, OrderSchedule
<1>7. CASE PassTime
  <2>1. /\ clock' = clock + 1
        /\ UNCHANGED <<stat, CurrentProcess, SemWaitingTargetTime, fault,
                       queue, at>>
    BY <1>7 DEF PassTime, ClockTick, Tick, semVars
  <2>2. clock' >= clock /\ clock' \in Nat
    BY <1>4, <2>1
  <2> QED BY <1>3, <2>1, <2>2
<1>8. CASE UNCHANGED vars
  <2>1. UNCHANGED <<stat, CurrentProcess, SemWaitingTargetTime, clock, fault,
                    queue, at>>
    BY <1>8 DEF vars
  <2> QED BY <1>3, <1>4, <2>1
<1> QED BY <1>5, <1>6, <1>7, <1>8 DEF Next

\* What GrantsInOrder says of a step.
GrantedToFirst ==
    \A p \in Proc, s \in Sems :
        InQueue(p, s) /\ ~ InQueue(p, s)' /\ granted'[s] > granted[s]
            => p = Head(queue[s])

(* The only step that takes a link out with a permit is the second half of *)
(* a Wait in time; who takes it is awake and not late, so the first.       *)
LEMMA OrderStep ==
    ASSUME OrderInv, [Next]_vars
    PROVE  GrantedToFirst
<1> SUFFICES ASSUME NEW p \in Proc, NEW s \in Sems,
                    InQueue(p, s), ~ InQueue(p, s)', granted'[s] > granted[s]
             PROVE  p = Head(queue[s])
  BY DEF GrantedToFirst
<1>1. \A q \in Clients : q \in Proc
  BY UseAssumption
<1>2. /\ UInv /\ queue \in [Sems -> Seq(Proc)] /\ granted \in [Sems -> Nat]
  BY DEF OrderInv, UInv, TypeOK, SemTypeOK
<1>3. queue' # queue
  BY DEF InQueue
<1>4. granted' # granted
  <2>1. granted[s] \in Nat
    BY <1>2
  <2> QED BY <2>1
<1>5. PICK q \in Clients, u \in Sems : WaitEnd(q, u)
  BY <1>3, <1>4
  DEF Next, WaitNow, WaitTake, WaitTried, WaitBegin, SignalN, Block, Yield,
      Timer, PassTime, vars
<1>6. q = p
  BY <1>1, <1>2, <1>5, WaitEndStep
<1>7. u = s
  <2>1. granted'[s] = IF s = u /\ ~ Late(q) THEN granted[s] + 1 ELSE granted[s]
    BY <1>2, <1>5 DEF WaitEnd
  <2> QED BY <1>2, <2>1
<1>8. ~ Late(p)
  <2>1. granted'[s] = IF Late(p) THEN granted[s] ELSE granted[s] + 1
    BY <1>2, <1>5, <1>6, <1>7 DEF WaitEnd
  <2> QED BY <1>2, <2>1
<1>9. stat[p] # "Sleeping"
  BY <1>5, <1>6 DEF WaitEnd, WaitResume, OrderInv, CurrentAwake
<1>10. PICK i \in DOMAIN queue[s] : queue[s][i] = p
  BY DEF InQueue
<1>11. i = 1
  BY <1>8, <1>9, <1>10 DEF OrderInv, AwakeFirst
<1>12. queue[s] \in Seq(Proc)
  BY <1>2
<1> QED BY <1>10, <1>11, <1>12

(* While process 0 keeps off semaphores, waiters are granted first in,     *)
(* first out, however timeouts and signals fall together (Semaphore::Wait, *)
(* Signal and the scan of Schedule).                                       *)
THEOREM GrantedInOrder ==
    ASSUME 0 \notin Clients
    PROVE  Spec => GrantsInOrder
<1>1. Init => OrderInv
  <2> SUFFICES ASSUME Init PROVE OrderInv
    OBVIOUS
  <2>1. UInv
    BY Initially
  <2>2. \A p \in Proc : at[p] = "code"
    BY DEF Init, SemInit
  <2>3. 0 \in Proc /\ CurrentProcess = 0
    BY SchedulerAssumption DEF Proc, Init, SemInit, SchedInit
  <2>4. AwakeFirst
    BY DEF Init, SemInit, AwakeFirst
  <2> QED BY <2>1, <2>2, <2>3, <2>4 DEF OrderInv, CurrentAwake
<1>2. OrderInv /\ [Next]_vars => OrderInv'
  BY OrderInductive
<1>3. OrderInv /\ [Next]_vars => [GrantedToFirst]_vars
  BY OrderStep
<1>4. [][GrantedToFirst]_vars => GrantsInOrder
  BY DEF GrantedToFirst, GrantsInOrder
<1> QED BY <1>1, <1>2, <1>3, <1>4, PTL DEF Spec

-----------------------------------------------------------------------------
(* Division with remainder. *)
LEMMA DivMod ==
    ASSUME NEW a \in Int, NEW b \in Nat \ {0}
    PROVE  /\ a % b \in 0 .. b - 1 /\ a \div b \in Int
           /\ a = b * (a \div b) + (a % b)
<1>1. a % b \in 0 .. b - 1 /\ a \div b \in Int
  OBVIOUS
<1>2. a = b * (a \div b) + (a % b)
  BY Z3
<1> QED BY <1>1, <1>2

LEMMA Distribute ==
    ASSUME NEW b \in Int, NEW c \in Int, NEW d \in Int
    PROVE  /\ b * (c - d) = b * c - b * d
           /\ b * (c + d) = b * c + b * d
OBVIOUS

LEMMA AtLeastOnce ==
    ASSUME NEW b \in Nat \ {0}, NEW d \in Int, d >= 1
    PROVE  b * d >= b
OBVIOUS

(* Two multiples of b that are less than b apart are one.                  *)
LEMMA SameQuotient ==
    ASSUME NEW b \in Nat \ {0}, NEW c \in Int, NEW d \in Int,
           b * c - b * d < b, b * d - b * c < b
    PROVE  c = d
<1>1. b * (c - d) = b * c - b * d /\ b * (d - c) = b * d - b * c
  BY Distribute
<1>2. CASE c - d >= 1
  <2>1. b * (c - d) >= b
    BY <1>2, AtLeastOnce
  <2>2. b * c \in Int /\ b * d \in Int
    OBVIOUS
  <2> QED BY <1>1, <2>1, <2>2
<1>3. CASE d - c >= 1
  <2>1. b * (d - c) >= b
    BY <1>3, AtLeastOnce
  <2>2. b * c \in Int /\ b * d \in Int
    OBVIOUS
  <2> QED BY <1>1, <2>1, <2>2
<1> QED BY <1>2, <1>3

LEMMA ZeroMod ==
    ASSUME NEW b \in Nat \ {0}
    PROVE  0 % b = 0
OBVIOUS

(* A position that moves on round the ring.                                *)
LEMMA ModAdd ==
    ASSUME NEW a \in Int, NEW k \in Int, NEW b \in Nat \ {0}
    PROVE  ((a % b) + k) % b = (a + k) % b
<1> DEFINE r == a % b
           x == r + k
           y == a + k
<1>1. r \in Int /\ a \div b \in Int /\ a = b * (a \div b) + r
  BY DivMod
<1>2. x \in Int /\ y \in Int
  BY <1>1
<1>3. PICK q \in Int, s \in 0 .. b - 1 : x = b * q + s /\ s = x % b
  <2> HIDE DEF x
  <2>1. /\ x % b \in 0 .. b - 1 /\ x \div b \in Int
        /\ x = b * (x \div b) + (x % b)
    BY <1>2, DivMod
  <2> QED BY <2>1
<1>4. PICK q2 \in Int, s2 \in 0 .. b - 1 : y = b * q2 + s2 /\ s2 = y % b
  <2> HIDE DEF y
  <2>1. /\ y % b \in 0 .. b - 1 /\ y \div b \in Int
        /\ y = b * (y \div b) + (y % b)
    BY <1>2, DivMod
  <2> QED BY <2>1
<1>5. PICK q1 \in Int : a = b * q1 + r
  BY <1>1
<1>6. b * (q1 + q) = b * q1 + b * q /\ b * q1 \in Int /\ b * q \in Int
      /\ b * q2 \in Int
  BY Distribute
<1>7. y = b * (q1 + q) + s
  <2>1. y = (b * q1 + r) + k
    BY <1>5
  <2>2. r + k = b * q + s
    BY <1>3
  <2> HIDE DEF r, y
  <2> QED BY <1>1, <1>2, <1>6, <2>1, <2>2
<1>8. q1 + q = q2
  <2>1. b * (q1 + q) - b * q2 = s2 - s /\ b * q2 - b * (q1 + q) = s - s2
    <3> HIDE DEF y
    <3> QED BY <1>2, <1>4, <1>6, <1>7
  <2>2. s2 - s < b /\ s - s2 < b
    OBVIOUS
  <2> QED BY <2>1, <2>2, SameQuotient
<1>9. s = s2
  <2> HIDE DEF y
  <2> QED BY <1>2, <1>4, <1>6, <1>7, <1>8
<1> QED BY <1>3, <1>4, <1>9

(* Counts less than one round apart are at different positions.            *)
LEMMA ModApart ==
    ASSUME NEW a \in Int, NEW c \in Int, NEW b \in Nat \ {0},
           a < c, c - a < b
    PROVE  a % b # c % b
<1> SUFFICES ASSUME a % b = c % b PROVE FALSE
  OBVIOUS
<1>1. PICK q \in Int, s \in 0 .. b - 1 : a = b * q + s /\ s = a % b
  BY DivMod
<1>2. PICK q2 \in Int, s2 \in 0 .. b - 1 : c = b * q2 + s2 /\ s2 = c % b
  BY DivMod
<1>3. b * q \in Int /\ b * q2 \in Int /\ s = s2
  BY <1>1, <1>2
<1>4. b * q2 - b * q = c - a /\ b * q - b * q2 = a - c
  BY <1>1, <1>2, <1>3
<1>5. b * q2 - b * q < b /\ b * q - b * q2 < b
  BY <1>4
<1>6. q = q2
  BY <1>5, SameQuotient
<1> QED BY <1>3, <1>4, <1>6

-----------------------------------------------------------------------------
RingTypeOK ==
    /\ buffer \in [0 .. BufferSize - 1 -> Nat]
    /\ FileSize \in 0 .. BufferSize
    /\ put \in Nat /\ got \in Nat
    /\ left \in [Proc -> Nat]

\* The positions are the counts, and what is between them is in the ring.
Positions ==
    /\ put = got + FileSize
    /\ PosR = got % BufferSize
    /\ PosW = put % BufferSize

Contents == \A n \in got .. put - 1 : buffer[n % BufferSize] = n + 1

RingInv == RingTypeOK /\ Positions /\ Contents

LEMMA SizeFacts == BufferSize \in Nat \ {0} /\ BufferSize \in Int
BY PipeAssumption

(* Reading moves the far end of what the ring holds.                       *)
LEMMA ReadKeepsRing ==
    ASSUME RingInv, NEW p \in Proc, NEW size \in Nat, Read(p, size)
    PROVE  RingInv'
<1> USE SizeFacts DEF RingInv
<1> DEFINE k == Least(size, FileSize)
<1>1. /\ got' = got + k /\ PosR' = (PosR + k) % BufferSize
      /\ FileSize' = FileSize - k
      /\ UNCHANGED <<buffer, PosW, put, left>>
  BY DEF Read, NextPosR
<1>2. /\ FileSize \in Nat /\ FileSize <= BufferSize /\ got \in Nat /\ put \in Nat
      /\ put = got + FileSize
  BY DEF RingTypeOK, Positions
<1>3. k \in Nat /\ k <= FileSize
  BY <1>2 DEF Least
<1> HIDE DEF k
<1>4. RingTypeOK'
  BY <1>1, <1>2, <1>3 DEF RingTypeOK
<1>5. Positions'
  <2>1. put = (got + k) + (FileSize - k)
    BY <1>2, <1>3
  <2>2. got \in Int /\ k \in Int
    BY <1>2, <1>3
  <2>3. ((got % BufferSize) + k) % BufferSize = (got + k) % BufferSize
    BY <2>2, ModAdd
  <2> QED BY <1>1, <2>1, <2>3 DEF Positions
<1>6. Contents'
  <2> SUFFICES ASSUME NEW n \in got + k .. put - 1
               PROVE  buffer[n % BufferSize] = n + 1
    BY <1>1 DEF Contents
  <2>1. n \in got .. put - 1
    BY <1>2, <1>3
  <2> QED BY <2>1 DEF Contents
<1> QED BY <1>4, <1>5, <1>6

(* Writing fills places that hold nothing unread.                          *)
LEMMA WriteKeepsRing ==
    ASSUME RingInv, NEW p \in Proc, WriteChunk(p)
    PROVE  RingInv'
<1> USE SizeFacts DEF RingInv
<1> DEFINE k == Least(left[p], BufferSize - FileSize)
           Place(i) == (PosW + i - 1) % BufferSize
<1>1. /\ buffer' = [x \in DOMAIN buffer |->
                       IF \E i \in 1 .. k : Place(i) = x
                       THEN put + (CHOOSE i \in 1 .. k : Place(i) = x)
                       ELSE buffer[x]]
      /\ put' = put + k /\ PosW' = (PosW + k) % BufferSize
      /\ FileSize' = FileSize + k
      /\ left' = [left EXCEPT ![p] = @ - k]
      /\ UNCHANGED <<PosR, got>>
  BY DEF WriteChunk, NextPosW
<1>2. /\ FileSize \in Nat /\ FileSize < BufferSize /\ got \in Nat /\ put \in Nat
      /\ put = got + FileSize /\ PosW = put % BufferSize
      /\ left \in [Proc -> Nat] /\ left[p] \in Nat
      /\ buffer \in [0 .. BufferSize - 1 -> Nat]
  BY DEF RingTypeOK, Positions, WriteChunk
<1>3. k \in Nat /\ k <= left[p] /\ k <= BufferSize - FileSize
  BY <1>2 DEF Least
<1> HIDE DEF k
<1>4. ASSUME NEW i \in 1 .. k
      PROVE  Place(i) = (put + i - 1) % BufferSize
  <2>0. put \in Int /\ i - 1 \in Int
    BY <1>2, <1>3
  <2>1. ((put % BufferSize) + (i - 1)) % BufferSize = (put + (i - 1)) % BufferSize
    BY <2>0, ModAdd
  <2>2. /\ put % BufferSize \in Int
        /\ (put % BufferSize) + i - 1 = (put % BufferSize) + (i - 1)
        /\ put + i - 1 = put + (i - 1)
    BY <1>2, <1>3, DivMod
  <2> QED BY <1>2, <2>1, <2>2
<1>5. ASSUME NEW i \in 1 .. k, NEW j \in 1 .. k, Place(i) = Place(j)
      PROVE  i = j
  <2>1. put + i - 1 \in Int /\ put + j - 1 \in Int
    BY <1>2, <1>3
  <2>2. CASE i < j
    <3>1. /\ put + i - 1 < put + j - 1
          /\ (put + j - 1) - (put + i - 1) < BufferSize
      BY <1>2, <1>3, <2>2
    <3>2. (put + i - 1) % BufferSize # (put + j - 1) % BufferSize
      BY <2>1, <3>1, ModApart
    <3> HIDE DEF Place
    <3> QED BY <1>4, <1>5, <3>2
  <2>3. CASE j < i
    <3>1. /\ put + j - 1 < put + i - 1
          /\ (put + i - 1) - (put + j - 1) < BufferSize
      BY <1>2, <1>3, <2>3
    <3>2. (put + j - 1) % BufferSize # (put + i - 1) % BufferSize
      BY <2>1, <3>1, ModApart
    <3> HIDE DEF Place
    <3> QED BY <1>4, <1>5, <3>2
  <2> QED BY <1>3, <2>2, <2>3
<1>6. \A n \in Nat : n % BufferSize \in DOMAIN buffer
  <2> SUFFICES ASSUME NEW n \in Nat PROVE n % BufferSize \in 0 .. BufferSize - 1
    BY <1>2
  <2> QED BY DivMod
<1>7. RingTypeOK'
  <2>1. buffer' \in [0 .. BufferSize - 1 -> Nat]
    <3> SUFFICES ASSUME NEW x \in 0 .. BufferSize - 1
                 PROVE  (IF \E i \in 1 .. k : Place(i) = x
                         THEN put + (CHOOSE i \in 1 .. k : Place(i) = x)
                         ELSE buffer[x]) \in Nat
      BY <1>1, <1>2
    <3> HIDE DEF Place
    <3>1. CASE \E i \in 1 .. k : Place(i) = x
      <4>1. (CHOOSE i \in 1 .. k : Place(i) = x) \in 1 .. k
        BY <3>1
      <4>2. put + (CHOOSE i \in 1 .. k : Place(i) = x) \in Nat
        BY SMTT(30), <1>2, <1>3, <4>1
      <4> QED BY <3>1, <4>2
    <3>2. CASE ~ \E i \in 1 .. k : Place(i) = x
      BY <1>2, <3>2
    <3> QED BY <3>1, <3>2
  <2>2. left' \in [Proc -> Nat]
    <3>1. left[p] - k \in Nat
      BY <1>2, <1>3
    <3> QED BY <1>1, <1>2, <3>1
  <2>3. FileSize' \in 0 .. BufferSize /\ put' \in Nat /\ got' \in Nat
    BY <1>1, <1>2, <1>3
  <2> QED BY <2>1, <2>2, <2>3 DEF RingTypeOK
<1>8. Positions'
  <2>1. put + k = got + (FileSize + k)
    BY <1>2, <1>3
  <2>2. put \in Int /\ k \in Int
    BY <1>2, <1>3
  <2>3. ((put % BufferSize) + k) % BufferSize = (put + k) % BufferSize
    BY <2>2, ModAdd
  <2> QED BY <1>1, <1>2, <2>1, <2>3 DEF Positions
<1>9. Contents'
  <2> SUFFICES ASSUME NEW n \in got' .. put' - 1
               PROVE  buffer'[n % BufferSize] = n + 1
    BY DEF Contents
  <2>0. n \in got .. put + k - 1
    <3>1. got' = got /\ put' = put + k
      BY <1>1
    <3> QED BY <1>2, <1>3, <3>1
  <2>1. n \in Nat /\ n % BufferSize \in DOMAIN buffer
    <3>1. n \in Nat
      BY <1>2, <1>3, <2>0
    <3> QED BY <1>6, <3>1
  <2>2. CASE n < put
    <3>1. ASSUME NEW i \in 1 .. k
          PROVE  Place(i) # n % BufferSize
      <4>1. /\ n < put + i - 1
            /\ (put + i - 1) - n < BufferSize /\ put + i - 1 \in Int
        BY <1>2, <1>3, <2>0, <2>1, <2>2
      <4>2. n % BufferSize # (put + i - 1) % BufferSize
        <5> DEFINE m == put + i - 1
        <5>1. m \in Int /\ n \in Int /\ n < m /\ m - n < BufferSize
          BY <2>1, <4>1
        <5> HIDE DEF m
        <5>2. n % BufferSize # m % BufferSize
          BY <5>1, ModApart
        <5> QED BY <5>2 DEF m
      <4> QED BY <1>4, <4>2
    <3>2. buffer'[n % BufferSize] = buffer[n % BufferSize]
      <4> HIDE DEF Place
      <4> QED BY <1>1, <2>1, <3>1
    <3>3. n \in got .. put - 1
      BY <1>2, <1>3, <2>0, <2>2
    <3> QED BY <3>2, <3>3 DEF Contents
  <2>3. CASE n >= put
    <3> DEFINE i == n - put + 1
    <3>1. i \in 1 .. k /\ put + i - 1 = n /\ put + i = n + 1
      BY <1>2, <1>3, <2>0, <2>1, <2>3
    <3> HIDE DEF i
    <3>2. Place(i) = n % BufferSize
      BY <1>4, <3>1
    <3> HIDE DEF Place
    <3>3. (CHOOSE j \in 1 .. k : Place(j) = n % BufferSize) = i
      BY <1>5, <3>1, <3>2
    <3>4. buffer'[n % BufferSize]
             = put + (CHOOSE j \in 1 .. k : Place(j) = n % BufferSize)
      BY <1>1, <2>1, <3>1, <3>2
    <3> QED BY <3>1, <3>3, <3>4
  <2> QED BY <1>2, <2>1, <2>2, <2>3
<1> QED BY <1>7, <1>8, <1>9

(* The other steps leave the ring alone.                                   *)
LEMMA RingInductive == RingInv /\ [PipeNext]_allVars => RingInv'
<1> SUFFICES ASSUME RingInv, [PipeNext]_allVars PROVE RingInv'
  OBVIOUS
<1> USE PipeAssumption
<1>1. ASSUME UNCHANGED <<buffer, PosR, PosW, FileSize, put, got>>,
             left' \in [Proc -> Nat]
      PROVE  RingInv'
  BY <1>1 DEF RingInv, RingTypeOK, Positions, Contents
<1>2. left \in [Proc -> Nat]
  BY DEF RingInv, RingTypeOK
<1>3. ASSUME NEW p \in Proc, NEW size \in 1 .. MaxSize,
             Read(p, size) \/ WriteCall(p, size)
      PROVE  RingInv'
  <2>1. size \in Nat
    OBVIOUS
  <2>2. CASE WriteCall(p, size)
    BY <1>1, <1>2, <2>1, <2>2 DEF WriteCall
  <2> QED BY <1>3, <2>1, <2>2, ReadKeepsRing
<1>4. ASSUME NEW p \in Proc, Destroy(p)
      PROVE  RingInv'
  <2>1. left' \in [Proc -> Nat]
    BY <1>2, <1>4 DEF Destroy
  <2> QED BY <1>1, <1>4, <2>1 DEF Destroy
<1>5. ASSUME UNCHANGED <<buffer, PosR, PosW, FileSize, put, got, left>>
      PROVE  RingInv'
  BY <1>1, <1>2, <1>5
<1>6. ASSUME NEW p \in Proc,
             \/ PipeTimer(p) \/ WriteFull(p) \/ WriteSleep(p) \/ WriteResume(p)
             \/ \E e \in ends[p] : Close(p, e)
      PROVE  RingInv'
  BY <1>5, <1>6
  DEF PipeTimer, WriteFull, WriteSleep, WriteResume, Close, pipeVars
<1>7. CASE UNCHANGED allVars
  BY <1>5, <1>7 DEF allVars, pipeVars
<1> QED BY <1>3, <1>4, <1>6, <1>7, WriteKeepsRing DEF PipeNext

LEMMA RingAtStart == PipeInit => RingInv
<1> SUFFICES ASSUME PipeInit PROVE RingInv
  OBVIOUS
<1> USE SizeFacts
<1>1. 0 % BufferSize = 0
  BY ZeroMod
<1> QED BY <1>1 DEF PipeInit, RingInv, RingTypeOK, Positions, Contents

(* Bytes come out of a pipe in the order in which they went in, whoever    *)
(* reads and writes, however the calls are cut up by sleeping, and for any *)
(* length of the ring (Read and Write of PipeFileNode).                    *)
THEOREM BytesInOrder == PipeSpec => []RingHoldsUnread
<1> USE SizeFacts
<1>1. PipeInit => RingInv
  BY RingAtStart
<1>2. RingInv => RingHoldsUnread
  <2> SUFFICES ASSUME RingInv PROVE RingHoldsUnread
    OBVIOUS
  <2>1. /\ FileSize \in Nat /\ got \in Nat /\ put = got + FileSize
        /\ PosR = got % BufferSize /\ PosW = put % BufferSize
    BY DEF RingInv, RingTypeOK, Positions
  <2>2. PosW = (PosR + FileSize) % BufferSize
    <3>1. got \in Int /\ FileSize \in Int
      BY <2>1
    <3>2. ((got % BufferSize) + FileSize) % BufferSize
             = (got + FileSize) % BufferSize
      BY <3>1, ModAdd
    <3> QED BY <2>1, <3>2
  <2>3. ASSUME NEW i \in 0 .. FileSize - 1
        PROVE  buffer[(PosR + i) % BufferSize] = got + i + 1
    <3>0. got \in Int /\ i \in Int
      BY <2>1
    <3>1. ((got % BufferSize) + i) % BufferSize = (got + i) % BufferSize
      BY <3>0, ModAdd
    <3>2. got + i \in got .. put - 1
      BY <2>1
    <3> QED BY <2>1, <3>1, <3>2 DEF RingInv, Contents
  <2> QED BY <2>1, <2>2, <2>3 DEF RingHoldsUnread
<1> QED BY <1>1, <1>2, RingInductive, PTL DEF PipeSpec

-----------------------------------------------------------------------------
\* Who sleeps in the pipe is in the middle of a Write, and has the writing end
\* open; a destroyed process has nothing open.
EndsInv ==
    /\ left \in [Proc -> Nat]
    /\ ends \in [Proc -> SUBSET {"r", "w"}]
    /\ \A p \in Proc : at[p] # "code" => left[p] > 0
    /\ \A p \in Proc : left[p] > 0 => p # 0 /\ "w" \in ends[p]
    /\ gone \subseteq Proc
    /\ \A p \in gone : ends[p] = {}

InsideInv == QueueInv /\ EndsInv

LEMMA QueueTypes ==
    ASSUME QueueInv
    PROVE  /\ value \in [Sems -> Int] /\ queue \in [Sems -> Seq(Proc)]
           /\ at \in [Proc -> {"code", "enqueued", "woken"}]
BY DEF QueueInv, QueueTypeOK

(* A step that leaves the links alone.                                     *)
LEMMA SameLinks ==
    ASSUME QueueInv, UNCHANGED queue, value' \in [Sems -> Int],
           \/ UNCHANGED at
           \/ \E p \in Proc : at[p] = "enqueued" /\ at' = [at EXCEPT ![p] = "woken"]
    PROVE  QueueInv'
<1>1. /\ at' \in [Proc -> {"code", "enqueued", "woken"}]
      /\ \A q \in Proc : at'[q] = "code" <=> at[q] = "code"
  BY QueueTypes
<1> QED BY <1>1, QueueTypes
        DEF QueueInv, QueueTypeOK, OneLink, LinkedInWait, InQueue

(* Signal, and a Wait that finds a permit, change a value only.            *)
LEMMA ValueStays ==
    ASSUME QueueInv, NEW p \in Proc, NEW s \in Sems,
           \/ WaitTake(p, s)
           \/ \E n \in {SignalAll, SignalOne} : Signal(p, s, n)
    PROVE  QueueInv'
<1>1. value \in [Sems -> Int] /\ value[s] \in Int
  BY QueueTypes
<1>2. CASE WaitTake(p, s)
  <2>1. value[s] - 1 \in Int
    BY <1>1
  <2> QED BY <1>1, <1>2, <2>1, SameLinks DEF WaitTake
<1>3. ASSUME NEW n \in {SignalAll, SignalOne}, Signal(p, s, n)
      PROVE  QueueInv'
  <2>1. SignalCount(s, n) \in Int
    BY <1>1 DEF SignalCount, SignalAll, SignalOne
  <2>2. value[s] + SignalCount(s, n) \in Int
    BY <1>1, <2>1
  <2> QED BY <1>1, <1>3, <2>2, SameLinks DEF Signal
<1> QED BY <1>2, <1>3

(* Destroy takes a sleeper off its queue and closes its ends.              *)
LEMMA DestroyStep ==
    ASSUME InsideInv, NEW p \in Proc, Destroy(p)
    PROVE  InsideInv'
<1> USE DEF InsideInv
<1>1. /\ queue' = Unlinked(p)
      /\ at' = [at EXCEPT ![p] = "code"]
      /\ left' = [left EXCEPT ![p] = 0]
      /\ ends' = [ends EXCEPT ![p] = {}]
      /\ gone' = gone \union {p}
      /\ UNCHANGED value
  BY DEF Destroy
<1>2. QueueInv'
  <2>1. CASE \E s \in Sems : InQueue(p, s)
    <3>1. PICK s \in Sems : InQueue(p, s)
      BY <2>1
    <3>2. \A u \in Sems : InQueue(p, u) => u = s
      BY <3>1 DEF QueueInv, OneLink, InQueue
    <3>3. queue' = [queue EXCEPT ![s] = Unlink(@, p)]
      BY <1>1, <3>1, <3>2, QueueTypes DEF Unlinked
    <3> QED BY <1>1, <3>1, <3>3, QueueTypes, RemoveKeepsLinks
  <2>2. CASE ~ \E s \in Sems : InQueue(p, s)
    <3>1. at[p] = "code"
      BY <2>2 DEF QueueInv, LinkedInWait
    <3>2. UNCHANGED <<queue, at>>
      BY <1>1, <2>2, <3>1, QueueTypes DEF Unlinked
    <3> QED BY <1>1, <3>2, QueueTypes, SameLinks
  <2> QED BY <2>1, <2>2
<1>3. EndsInv'
  BY <1>1, QueueTypes DEF EndsInv
<1> QED BY <1>2, <1>3

(* Every other step either leaves the links alone or is half of a Wait.    *)
LEMMA InsideInductive == RingInv /\ InsideInv /\ [PipeNext]_allVars => InsideInv'
<1> SUFFICES ASSUME RingInv, InsideInv, [PipeNext]_allVars PROVE InsideInv'
  OBVIOUS
<1> USE DEF InsideInv
<1>1. SemR \in Sems /\ SemW \in Sems /\ BufferSize \in Nat
  BY PipeAssumption
<1>2. at \in [Proc -> {"code", "enqueued", "woken"}] /\ left \in [Proc -> Nat]
  BY QueueTypes DEF EndsInv
<1>3. ASSUME NEW p \in Proc, p # 0, NEW size \in 1 .. MaxSize, Read(p, size)
      PROVE  InsideInv'
  <2>1. QueueInv'
    BY <1>1, <1>3, ValueStays DEF Read
  <2>2. UNCHANGED <<at, left, ends, gone>>
    BY <1>3 DEF Read, Signal
  <2> QED BY <2>1, <2>2 DEF EndsInv
<1>4. ASSUME NEW p \in Proc, p # 0, NEW size \in 1 .. MaxSize, WriteCall(p, size)
      PROVE  InsideInv'
  <2>1. UNCHANGED <<queue, value, at>>
    BY <1>4 DEF WriteCall, kernelVars
  <2>2. QueueInv'
    BY <2>1, QueueTypes, SameLinks
  <2>3. /\ left' = [left EXCEPT ![p] = size] /\ "w" \in ends[p]
        /\ UNCHANGED <<ends, gone>> /\ size \in Nat /\ size > 0
    BY <1>4 DEF WriteCall
  <2>4. EndsInv'
    BY <1>2, <1>4, <2>1, <2>3 DEF EndsInv
  <2> QED BY <2>2, <2>4
<1>5. ASSUME NEW p \in Proc, p # 0, WriteChunk(p)
      PROVE  InsideInv'
  <2>1. QueueInv'
    BY <1>1, <1>5, ValueStays DEF WriteChunk
  <2>2. left' \in [Proc -> Nat]
    BY RingInductive DEF RingInv, RingTypeOK
  <2>3. /\ at[p] = "code" /\ left[p] > 0 /\ UNCHANGED <<at, ends, gone>>
        /\ \A q \in Proc \ {p} : left'[q] = left[q]
    BY <1>2, <1>5 DEF WriteChunk, InCode, Signal
  <2>4. EndsInv'
    BY <1>5, <2>2, <2>3 DEF EndsInv
  <2> QED BY <2>1, <2>4
<1>6. ASSUME NEW p \in Proc, p # 0, WriteFull(p)
      PROVE  InsideInv'
  <2>1. left[p] > 0 /\ UNCHANGED <<left, ends, gone>>
    BY <1>6 DEF WriteFull, pipeVars
  <2>2. CASE WaitTake(p, SemW)
    <3>1. UNCHANGED at /\ QueueInv'
      BY <1>1, <2>2, ValueStays DEF WaitTake
    <3> QED BY <2>1, <3>1 DEF EndsInv
  <2>3. CASE WaitEnqueue(p, SemW, KeepWait)
    <3>1. QueueInv'
      BY <1>1, <2>3, EnqueueKeepsLinks
    <3>2. at' = [at EXCEPT ![p] = "enqueued"]
      BY <2>3 DEF WaitEnqueue
    <3> QED BY <1>2, <2>1, <3>1, <3>2 DEF EndsInv
  <2> QED BY <1>6, <2>2, <2>3 DEF WriteFull
<1>7. ASSUME NEW p \in Proc, WriteSleep(p) \/ PipeTimer(p)
      PROVE  InsideInv'
  <2>1. /\ UNCHANGED <<value, queue, left, ends, gone>>
        /\ \/ UNCHANGED at
           \/ at[p] = "enqueued" /\ at' = [at EXCEPT ![p] = "woken"]
    BY <1>7 DEF WriteSleep, WaitSchedule, PipeTimer, TimerSchedule, semVars, pipeVars
  <2>2. QueueInv'
    BY <2>1, QueueTypes, SameLinks
  <2>3. \A q \in Proc : at'[q] = "code" <=> at[q] = "code"
    BY <1>2, <2>1
  <2> QED BY <2>1, <2>2, <2>3 DEF EndsInv
<1>8. ASSUME NEW p \in Proc, WriteResume(p)
      PROVE  InsideInv'
  <2>1. /\ InQueue(p, SemW) /\ UNCHANGED <<left, ends, gone>>
        /\ value' = [value EXCEPT ![SemW] = @ + PermitBack(p)]
        /\ queue' = [queue EXCEPT ![SemW] = Unlink(@, p)]
        /\ at' = [at EXCEPT ![p] = "code"]
    BY <1>8 DEF WriteResume, WaitResume, pipeVars
  <2>2. value' \in [Sems -> Int]
    <3>1. value[SemW] \in Int /\ PermitBack(p) \in Int
      BY <1>1, QueueTypes DEF PermitBack
    <3>2. value[SemW] + PermitBack(p) \in Int
      BY <3>1
    <3> QED BY <2>1, <3>2, QueueTypes
  <2>3. QueueInv'
    BY <1>1, <2>1, <2>2, RemoveKeepsLinks
  <2> QED BY <1>2, <2>1, <2>3 DEF EndsInv
<1>9. ASSUME NEW p \in Proc, NEW e \in ends[p], Close(p, e)
      PROVE  InsideInv'
  <2>1. /\ UNCHANGED <<value, queue, at, left, gone>> /\ left[p] = 0
        /\ ends' = [ends EXCEPT ![p] = @ \ {e}]
    BY <1>9 DEF Close, Free, kernelVars
  <2>2. QueueInv'
    BY <2>1, QueueTypes, SameLinks
  <2>3. EndsInv'
    BY <2>1 DEF EndsInv
  <2> QED BY <2>2, <2>3
<1>10. CASE UNCHANGED allVars
  <2>1. UNCHANGED <<value, queue, at, left, ends, gone>>
    BY <1>10 DEF allVars, kernelVars, pipeVars
  <2>2. QueueInv'
    BY <2>1, QueueTypes, SameLinks
  <2> QED BY <2>1, <2>2 DEF EndsInv
<1> QED
  BY <1>3, <1>4, <1>5, <1>6, <1>7, <1>8, <1>9, <1>10, DestroyStep DEF PipeNext

(* A pipe that is deleted with its last handle has nobody inside: whoever  *)
(* sleeps in it has it open, and who is destroyed leaves no link behind    *)
(* (Process::Destroy, ~PipeFileNode).                                      *)
THEOREM DeletedPipeIsEmpty == PipeSpec => []NobodyInDeletedPipe
<1>1. PipeInit => InsideInv
  <2> SUFFICES ASSUME PipeInit PROVE InsideInv
    OBVIOUS
  <2> USE DEF PipeInit, SemInit
  <2>1. QueueInv
    <3>1. value \in [Sems -> Int] /\ queue \in [Sems -> Seq(Proc)]
      BY SemaphoreAssumption
    <3> QED BY <3>1 DEF QueueInv, QueueTypeOK, OneLink, LinkedInWait, InQueue
  <2>2. EndsInv
    BY DEF EndsInv
  <2> QED BY <2>1, <2>2 DEF InsideInv
<1>2. PipeInit => RingInv
  BY RingAtStart
<1>3. InsideInv => NobodyInDeletedPipe
  <2> SUFFICES ASSUME InsideInv PROVE NobodyInDeletedPipe
    OBVIOUS
  <2>1. ASSUME NEW p \in Proc, NEW s \in Sems, InQueue(p, s)
        PROVE  p # 0 /\ ends[p] # {}
    <3>1. at[p] # "code"
      BY <2>1 DEF InsideInv, QueueInv, LinkedInWait
    <3> QED BY <3>1 DEF InsideInv, EndsInv
  <2>2. ASSUME NEW s \in Sems, queue[s] # <<>>
        PROVE  Exists
    <3>1. queue[s] \in Seq(Proc)
      BY QueueTypes DEF InsideInv
    <3>2. 1 \in DOMAIN queue[s] /\ queue[s][1] \in Proc
      BY <2>2, <3>1
    <3>3. InQueue(queue[s][1], s)
      BY <3>2 DEF InQueue
    <3> QED BY <2>1, <3>2, <3>3 DEF Exists, Users
  <2>3. \A p \in gone, s \in Sems : ~ InQueue(p, s)
    BY <2>1 DEF InsideInv, EndsInv
  <2> QED BY <2>2, <2>3 DEF NobodyInDeletedPipe
<1> QED BY <1>1, <1>2, <1>3, RingInductive, InsideInductive, PTL DEF PipeSpec
=============================================================================
