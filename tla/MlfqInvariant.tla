---------------------------- MODULE MlfqInvariant ---------------------------
(***************************************************************************)
(* The inductive invariant behind the theorems about Mlfq, and the lemmas  *)
(* on queues and cpus that the proof of each action uses, and the proofs   *)
(* for fork, clone, sleep, exit, wait, join, kill and wakeup.              *)
(*                                                                         *)
(* RunnableQueuedOnce is not inductive alone.  That a process made         *)
(* runnable is not found by add_proc_to_q's search needs distinct pids;    *)
(* that it is on no queue yet needs to know what the process about to be   *)
(* queued is (a sleeper, an EMBRYO, the cpu's own process); and both need  *)
(* the relation between ptable.lock, the cpu's position and cpu->proc.     *)
(***************************************************************************)
EXTENDS Mlfq, TLAPS

\* Slots in use have distinct, nonzero pids.
PidsDistinct ==
  /\ \A p \in Procs : pid[p] < nextpid
  /\ \A p, r \in Procs : pid[p] = pid[r] /\ pid[p] # 0 => p = r
  /\ \A p \in Procs : state[p] # "UNUSED" => pid[p] # 0

\* The lock is held exactly in the locked sections, and a cpu has a current
\* process wherever it executes on behalf of one.
CpuConsistent ==
  \A c \in Cpus :
    /\ lock = c <=> pc[c] \in PcLocked
    /\ pc[c] \in {"run", "quantum", "yield", "exit"} => cproc[c] # NoProc
    /\ pc[c] \in {"sched", "age"} => cproc[c] = NoProc
    /\ pc[c] = "age" => ai >= 1

\* A slot being filled in is an EMBRYO and has one creator.
NpConsistent ==
  /\ \A p \in Procs : np[p] # NoProc => state[np[p]] = "EMBRYO"
  /\ \A p, r \in Procs : np[p] = np[r] /\ np[p] # NoProc => p = r

\* A slot in use is in a queue's range, and an EMBRYO has used no ticks.
SlotsReady ==
  \A p \in Procs :
    /\ state[p] # "UNUSED" => pqueue[p] \in Queues
    /\ state[p] = "EMBRYO" => curr_ticks[p] = 0

IInv ==
  /\ TypeOK /\ PidsDistinct /\ CpuConsistent /\ NpConsistent /\ SlotsReady
  /\ RunnableQueuedOnce /\ RunningOnOneCpu /\ FlagOnlyBeforeYield /\ WithinQuantum

-----------------------------------------------------------------------------
(* Queues *)

Runnable == {p \in Procs : state[p] = "RUNNABLE"}

\* The queues qs hold the processes of R, each once, where pq says.
Holds(qs, pq, R) ==
  /\ qs \in [Queues -> Seq(Procs)]
  /\ \A p \in Procs : p \in R <=> \E q \in Queues : \E i \in DOMAIN qs[q] : qs[q][i] = p
  /\ \A q \in Queues : \A i \in DOMAIN qs[q] :
       /\ pq[qs[q][i]] = q
       /\ \A j \in DOMAIN qs[q] : qs[q][i] = qs[q][j] => i = j

\* Leaves are proved by Zenon unless they name another prover.
USE Zenon

\* RunnableQueuedOnce in terms of Holds.
LEMMA HoldsIff ==
  ASSUME TypeOK
  PROVE  RunnableQueuedOnce <=> Holds(queue, pqueue, Runnable)
  BY DEF TypeOK, RunnableQueuedOnce, Holds, Runnable, OnQueue

\* The search of add_proc_to_q finds nothing for a process that is not queued.
LEMMA NotQueued ==
  ASSUME PidsDistinct, NEW qs, NEW pq, NEW R \in SUBSET Procs, Holds(qs, pq, R),
         NEW p \in Procs \ R, pid[p] # 0, NEW q \in Queues
  PROVE  ~Queued(qs, p, q)
<1> SUFFICES ASSUME NEW i \in 1 .. Len(qs[q]) - 1, pid[qs[q][i]] = pid[p]
             PROVE  FALSE
  BY DEF Queued
<1>1. qs[q] \in Seq(Procs)
  BY DEF Holds
<1>2. i \in DOMAIN qs[q] /\ qs[q][i] \in Procs
  BY SMT, <1>1
<1>3. qs[q][i] \in R
  BY <1>2 DEF Holds
<1>4. qs[q][i] = p
  BY <1>2 DEF PidsDistinct
<1> QED BY <1>3, <1>4

\* add_proc_to_q of a process that is on no queue.
LEMMA AddHolds ==
  ASSUME PidsDistinct, NEW qs, NEW pq \in [Procs -> Int], NEW R \in SUBSET Procs,
         Holds(qs, pq, R), NEW p \in Procs \ R, pid[p] # 0, NEW q \in Queues,
         add_proc_to_q(qs, pq, p, q)
  PROVE  /\ Holds(queue', pqueue', R \cup {p})
         /\ pqueue' = [pq EXCEPT ![p] = q]
         /\ age' = [age EXCEPT ![p] = 0]
<1>1. /\ queue' = [qs EXCEPT ![q] = Append(@, p)]
      /\ pqueue' = [pq EXCEPT ![p] = q]
      /\ age' = [age EXCEPT ![p] = 0]
  BY NotQueued DEF add_proc_to_q
<1>2. qs \in [Queues -> Seq(Procs)]
  BY DEF Holds
<1> DEFINE s == qs[q]
           t == Append(s, p)
<1>3. s \in Seq(Procs) /\ t \in Seq(Procs) /\ Len(s) \in Nat /\ Len(t) = Len(s) + 1
  BY SMT, <1>2
<1>4. /\ DOMAIN s = 1 .. Len(s) /\ DOMAIN t = 1 .. Len(s) + 1
      /\ t[Len(s) + 1] = p
      /\ \A i \in DOMAIN s : t[i] = s[i] /\ s[i] \in Procs
  BY SMT, <1>3
<1>5. queue' \in [Queues -> Seq(Procs)]
  BY <1>1, <1>2, <1>3
<1>6. queue'[q] = t /\ \A r \in Queues \ {q} : queue'[r] = qs[r]
  BY <1>1, <1>2
<1>7. \A i \in DOMAIN t : t[i] = p <=> i = Len(s) + 1
  <2> SUFFICES ASSUME NEW i \in DOMAIN s PROVE s[i] # p
    BY SMT, <1>3, <1>4
  <2> QED BY SMT DEF Holds
<1>8. \A r \in Queues \ {q} : \A i \in DOMAIN qs[r] : qs[r][i] # p
  BY SMT DEF Holds
<1>9. ASSUME NEW x \in Procs
      PROVE  x \in R \cup {p} <=> \E r \in Queues : \E i \in DOMAIN queue'[r] : queue'[r][i] = x
  <2>1. CASE x = p
    BY SMT, <2>1, <1>4, <1>3, <1>6
  <2>2. ASSUME x # p, x \in R
        PROVE  \E r \in Queues : \E i \in DOMAIN queue'[r] : queue'[r][i] = x
    <3>1. PICK r \in Queues : \E i \in DOMAIN qs[r] : qs[r][i] = x
      BY <2>2 DEF Holds
    <3>2. CASE r = q
      BY SMTT(30), <3>1, <3>2, <1>4, <1>3, <1>6
    <3>3. CASE r # q
      BY <3>1, <3>3, <1>6
    <3> QED BY <3>2, <3>3
  <2>3. ASSUME x # p, NEW r \in Queues, NEW i \in DOMAIN queue'[r], queue'[r][i] = x
        PROVE  x \in R
    <3>1. CASE r = q
      <4>1. i \in DOMAIN s /\ s[i] = x
        BY SMT, <3>1, <2>3, <1>6, <1>7, <1>4, <1>3
      <4> QED BY <4>1 DEF Holds
    <3>2. CASE r # q
      BY <3>2, <2>3, <1>6 DEF Holds
    <3> QED BY <3>1, <3>2
  <2> QED BY <2>1, <2>2, <2>3
<1>10. ASSUME NEW r \in Queues, NEW i \in DOMAIN queue'[r]
       PROVE  /\ pqueue'[queue'[r][i]] = r
              /\ \A j \in DOMAIN queue'[r] : queue'[r][i] = queue'[r][j] => i = j
  <2>1. CASE r = q
    <3>1. \A k \in DOMAIN s : pq[s[k]] = q /\ \A j \in DOMAIN s : s[k] = s[j] => k = j
      BY DEF Holds
    <3>2. CASE i = Len(s) + 1
      BY SMT, <3>2, <2>1, <1>1, <1>3, <1>4, <1>6, <1>7
    <3>3. CASE i # Len(s) + 1
      <4>1. i \in DOMAIN s
        BY SMT, <3>3, <2>1, <1>3, <1>4, <1>6
      <4> QED BY SMT, <4>1, <3>1, <2>1, <1>1, <1>3, <1>4, <1>6, <1>7
    <3> QED BY <3>2, <3>3
  <2>2. CASE r # q
    <3>1. queue'[r] = qs[r]
      BY <2>2, <1>6
    <3>2. qs[r][i] \in Procs \ {p}
      BY SMT, <2>2, <3>1, <1>2, <1>8
    <3>3. pqueue'[qs[r][i]] = pq[qs[r][i]]
      BY <3>2, <1>1
    <3> QED BY SMT, <3>1, <3>3 DEF Holds
  <2> QED BY <2>1, <2>2
<1> HIDE DEF s, t
<1> QED BY <1>1, <1>5, <1>9, <1>10 DEF Holds

\* remove_proc_from_q of a process that is on no queue changes nothing.
LEMMA RemoveAbsent ==
  ASSUME PidsDistinct, NEW R \in SUBSET Procs, Holds(queue, pqueue, R),
         NEW p \in Procs \ R, pid[p] # 0, NEW q \in Queues
  PROVE  remove_proc_from_q(p, q) = queue
<1> SUFFICES ASSUME NEW i \in DOMAIN queue[q], pid[queue[q][i]] = pid[p]
             PROVE  FALSE
  BY DEF remove_proc_from_q
<1>1. queue[q][i] \in Procs /\ queue[q][i] \in R
  BY SMT DEF Holds
<1>2. queue[q][i] = p
  BY <1>1 DEF PidsDistinct
<1> QED BY <1>1, <1>2

\* remove_proc_from_q of entry k of queue q takes out that process and no other.
LEMMA RemoveHolds ==
  ASSUME PidsDistinct, NEW R \in SUBSET Procs, Holds(queue, pqueue, R),
         \A x \in R : pid[x] # 0,
         NEW q \in Queues, NEW k \in DOMAIN queue[q], NEW p, p = queue[q][k]
  PROVE  /\ p \in R /\ p \in Procs
         /\ Holds(remove_proc_from_q(p, q), pqueue, R \ {p})
<1> DEFINE s == queue[q]
           t == Shift(s, k)
           qs == remove_proc_from_q(p, q)
<1>1. s \in Seq(Procs) /\ Len(s) \in Nat /\ DOMAIN s = 1 .. Len(s) /\ k \in DOMAIN s
  BY SMT DEF Holds
<1>2. \A i \in DOMAIN s : s[i] \in Procs /\ s[i] \in R
  BY SMTT(30), <1>1 DEF Holds
<1>3. \A i, j \in DOMAIN s : s[i] = s[j] => i = j
  BY DEF Holds
<1>4. \A i \in DOMAIN s : pid[s[i]] = pid[p] => i = k
  BY <1>1, <1>2, <1>3 DEF PidsDistinct
<1>5. FirstIn(s, pid[p]) = k
  <2>1. pid[s[k]] = pid[p] /\ \A j \in DOMAIN s : pid[s[j]] = pid[p] => k <= j
    BY SMT, <1>1, <1>4
  <2> QED BY <2>1, <1>1, <1>4 DEF FirstIn
<1>6. qs = [queue EXCEPT ![q] = t]
  BY <1>5, <1>1 DEF remove_proc_from_q
<1>7. /\ t \in Seq(Procs) /\ Len(t) = Len(s) - 1 /\ DOMAIN t = 1 .. Len(s) - 1
      /\ \A i \in 1 .. Len(s) - 1 : t[i] = IF i < k THEN s[i] ELSE s[i + 1]
  <2>1. Len(s) - 1 \in Nat
    BY SMT, <1>1
  <2>2. \A i \in 1 .. Len(s) - 1 : (IF i < k THEN s[i] ELSE s[i + 1]) \in Procs
    BY SMT, <1>1, <1>2
  <2> QED BY SMT, <2>1, <2>2 DEF Shift
<1>8. queue \in [Queues -> Seq(Procs)]
  BY DEF Holds
<1>9. qs \in [Queues -> Seq(Procs)] /\ qs[q] = t /\ \A r \in Queues \ {q} : qs[r] = queue[r]
  BY <1>6, <1>7, <1>8
<1> DEFINE src(i) == IF i < k THEN i ELSE i + 1
<1>a. \A i \in DOMAIN t : t[i] = s[src(i)] /\ src(i) \in DOMAIN s /\ src(i) # k
  BY SMT, <1>1, <1>7
<1>b. \A i, j \in DOMAIN t : src(i) = src(j) => i = j
  BY SMT, <1>1, <1>7
<1> HIDE DEF src
<1>c. \A i, j \in DOMAIN t : t[i] = t[j] => i = j
  BY <1>a, <1>b, <1>3
<1>10. \A i \in DOMAIN t : t[i] # p /\ t[i] \in R
  BY <1>a, <1>1, <1>2, <1>3
<1>11. \A i \in DOMAIN s : s[i] # p => \E j \in DOMAIN t : t[j] = s[i]
  <2> SUFFICES ASSUME NEW i \in DOMAIN s, s[i] # p
               PROVE  \E j \in DOMAIN t : t[j] = s[i]
    OBVIOUS
  <2>1. CASE i < k
    BY SMTT(30), <2>1, <1>1, <1>7
  <2>2. CASE i > k
    <3>1. i - 1 \in DOMAIN t /\ t[i - 1] = s[i]
      BY SMTT(30), <2>2, <1>1, <1>7
    <3> QED BY <3>1
  <2> QED BY SMT, <2>1, <2>2, <1>1
<1>12. \A r \in Queues \ {q} : \A i \in DOMAIN queue[r] : queue[r][i] # p
  BY SMT, <1>1 DEF Holds
<1> HIDE DEF qs, t, s
<1>13. ASSUME NEW x \in Procs
       PROVE  x \in R \ {p} <=> \E r \in Queues : \E i \in DOMAIN qs[r] : qs[r][i] = x
  <2>1. ASSUME x \in R \ {p}
        PROVE  \E r \in Queues : \E i \in DOMAIN qs[r] : qs[r][i] = x
    <3>1. PICK r \in Queues : \E i \in DOMAIN queue[r] : queue[r][i] = x
      BY <2>1 DEF Holds
    <3>2. CASE r = q
      BY SMT, <3>1, <3>2, <2>1, <1>9, <1>11 DEF s
    <3>3. CASE r # q
      BY <3>1, <3>3, <1>9
    <3> QED BY <3>2, <3>3
  <2>2. ASSUME NEW r \in Queues, NEW i \in DOMAIN qs[r], qs[r][i] = x
        PROVE  x \in R \ {p}
    <3>1. CASE r = q
      BY <3>1, <2>2, <1>9, <1>10
    <3>2. CASE r # q
      BY SMT, <3>2, <2>2, <1>9, <1>12 DEF Holds
    <3> QED BY <3>1, <3>2
  <2> QED BY <2>1, <2>2
<1>14. ASSUME NEW r \in Queues, NEW i \in DOMAIN qs[r]
       PROVE  /\ pqueue[qs[r][i]] = r
              /\ \A j \in DOMAIN qs[r] : qs[r][i] = qs[r][j] => i = j
  <2>1. CASE r = q
    <3>1. \A m \in DOMAIN s : pqueue[s[m]] = q
      BY DEF Holds, s
    <3>2. pqueue[t[i]] = q
      BY SMT, <2>1, <3>1, <1>a, <1>9
    <3> QED BY <2>1, <3>2, <1>9, <1>c
  <2>2. CASE r # q
    BY SMT, <2>2, <1>9 DEF Holds
  <2> QED BY <2>1, <2>2
<1>15. p \in R /\ p \in Procs
  BY <1>1, <1>2 DEF s
<1> QED BY <1>9, <1>13, <1>14, <1>15 DEF Holds, qs
-----------------------------------------------------------------------------
(* What the steps have in common *)

\* What IInv says of the process a cpu is executing.
LEMMA CurrentProc ==
  ASSUME IInv, NEW c \in Cpus, pc[c] \in {"run", "quantum", "yield", "exit"}
  PROVE  /\ cproc[c] \in Procs
         /\ state[cproc[c]] = "RUNNING"
         /\ pqueue[cproc[c]] \in Queues
  BY SMT DEF IInv, TypeOK, CpuConsistent, RunningOnOneCpu, SlotsReady

\* The null pointer is no slot, and queue 0 exists and has a quantum.
LEMMA Constants ==
  /\ NoProc \notin Procs /\ 0 \in Queues
  /\ QMax \in [Queues -> Nat] /\ Queues \subseteq Nat
  BY SMT, ConstAssumption DEF NoProc, Procs, Queues

\* Holds gives back the queue part of the invariant.
LEMMA HoldsNext ==
  ASSUME Holds(queue', pqueue', Runnable')
  PROVE  RunnableQueuedOnce' /\ queue' \in [Queues -> Seq(Procs)]
  BY DEF RunnableQueuedOnce, Holds, Runnable, OnQueue

\* A step that moves no process on or off a queue keeps Holds.
LEMMA SameQueues ==
  ASSUME IInv, queue' = queue, Runnable' = Runnable,
         \A p \in Runnable : pqueue'[p] = pqueue[p]
  PROVE  Holds(queue', pqueue', Runnable')
<1>1. Holds(queue, pqueue, Runnable)
  BY HoldsIff DEF IInv
<1> QED BY SMT, <1>1 DEF Holds

\* A step that starts and stops no process leaves each on its cpu.
LEMMA SameRunning ==
  ASSUME RunningOnOneCpu, cproc' = cproc,
         \A p \in Procs : state'[p] = "RUNNING" <=> state[p] = "RUNNING"
  PROVE  RunningOnOneCpu'
  BY DEF RunningOnOneCpu

\* A process that stops running leaves its cpu, and only that one.
LEMMA LeavesCpu ==
  ASSUME RunningOnOneCpu, cproc \in [Cpus -> Procs \cup {NoProc}],
         NEW c \in Cpus, cproc[c] \in Procs,
         cproc' = [cproc EXCEPT ![c] = NoProc],
         \A p \in Procs : state'[p] = "RUNNING" <=> state[p] = "RUNNING" /\ p # cproc[c]
  PROVE  RunningOnOneCpu'
<1>1. \A d \in Cpus : d # c => cproc'[d] = cproc[d] /\ cproc[d] # cproc[c]
  BY Constants DEF RunningOnOneCpu
<1>2. cproc'[c] = NoProc
  OBVIOUS
<1>3. \A p \in Procs : (\E d \in Cpus : cproc'[d] = p) <=> (p # cproc[c] /\ \E d \in Cpus : cproc[d] = p)
  BY <1>1, <1>2, Constants
<1>4. \A d, e \in Cpus : cproc'[d] = cproc'[e] /\ cproc'[d] # NoProc => d = e
  BY <1>1, <1>2 DEF RunningOnOneCpu
<1> QED BY <1>3, <1>4 DEF RunningOnOneCpu

\* A step that sets no flag and moves no cpu from its yield leaves none stale.
LEMMA FlagsKept ==
  ASSUME FlagOnlyBeforeYield, change_q' = change_q,
         \A d \in Cpus : pc[d] = "yield" => pc'[d] = "yield" /\ cproc'[d] = cproc[d]
  PROVE  FlagOnlyBeforeYield'
  BY DEF FlagOnlyBeforeYield

\* A step that turns no EMBRYO into anything else keeps the creators' slots.
LEMMA NpKept ==
  ASSUME NpConsistent, np \in [Procs -> Procs \cup {NoProc}], np' = np,
         \A r \in Procs : state[r] = "EMBRYO" => state'[r] = "EMBRYO"
  PROVE  NpConsistent'
  BY DEF NpConsistent

\* Freeing the slot z keeps the pids distinct.
LEMMA PidFreed ==
  ASSUME PidsDistinct, pid \in [Procs -> Nat], nextpid \in Nat, nextpid' = nextpid,
         NEW z \in Procs,
         \A r \in Procs : /\ state'[r] = IF r = z THEN "UNUSED" ELSE state[r]
                          /\ pid'[r] = IF r = z THEN 0 ELSE pid[r]
  PROVE  PidsDistinct'
<1>1. pid[z] \in Nat /\ pid[z] < nextpid
  BY DEF PidsDistinct
<1>2. 0 < nextpid
  BY SMT, <1>1
<1>3. \A p \in Procs : pid'[p] < nextpid'
  BY <1>2 DEF PidsDistinct
<1>4. \A p, r \in Procs : pid'[p] = pid'[r] /\ pid'[p] # 0 => p = r
  BY DEF PidsDistinct
<1>5. \A p \in Procs : state'[p] # "UNUSED" => pid'[p] # 0
  BY DEF PidsDistinct
<1> QED BY <1>3, <1>4, <1>5 DEF PidsDistinct

\* Cpu c goes to l with its process, taking the lock if l holds it.
LEMMA CpuMoves ==
  ASSUME CpuConsistent, pc \in [Cpus -> PcAll], NEW c \in Cpus, NEW l,
         pc' = [pc EXCEPT ![c] = l], cproc' = cproc,
         pc[c] \notin PcLocked, l \in PcLocked => lock = NoCpu,
         lock' = IF l \in PcLocked THEN c ELSE lock,
         ai' = ai \/ lock = NoCpu,
         l \in {"run", "quantum", "yield", "exit"} => cproc[c] # NoProc,
         l \in {"sched", "age"} => cproc[c] = NoProc,
         l = "age" => ai' >= 1
  PROVE  CpuConsistent'
<1>1. pc'[c] = l /\ \A d \in Cpus : d # c => pc'[d] = pc[d]
  OBVIOUS
<1>2. lock # c
  BY DEF CpuConsistent
<1>3. NoCpu \notin Cpus
  BY ConstAssumption
<1>4. ASSUME NEW d \in Cpus
      PROVE  lock' = d <=> pc'[d] \in PcLocked
  BY <1>1, <1>2, <1>3 DEF CpuConsistent
<1>5. ASSUME NEW d \in Cpus, d # c, pc[d] = "age"
      PROVE  ai' = ai
  BY <1>3, <1>5 DEF CpuConsistent, PcLocked
<1>6. \A d \in Cpus : pc'[d] = "age" => ai' >= 1
  BY <1>1, <1>5 DEF CpuConsistent
<1>7. \A d \in Cpus : pc'[d] \in {"run", "quantum", "yield", "exit"} => cproc'[d] # NoProc
  BY <1>1 DEF CpuConsistent
<1>8. \A d \in Cpus : pc'[d] \in {"sched", "age"} => cproc'[d] = NoProc
  BY <1>1 DEF CpuConsistent
<1> QED BY <1>4, <1>6, <1>7, <1>8 DEF CpuConsistent

\* A process made runnable starts its quantum afresh.
LEMMA FreshTicks ==
  ASSUME TypeOK, WithinQuantum, NEW t \in Procs, pqueue' = pqueue,
         state' = [state EXCEPT ![t] = "RUNNABLE"],
         curr_ticks' = [curr_ticks EXCEPT ![t] = 0]
  PROVE  WithinQuantum'
<1>1. /\ state'[t] = "RUNNABLE" /\ curr_ticks'[t] = 0
      /\ \A p \in Procs : p # t => state'[p] = state[p] /\ curr_ticks'[p] = curr_ticks[p]
  BY DEF TypeOK
<1> QED BY <1>1 DEF WithinQuantum

\* A sleeper made runnable keeps its queue.
LEMMA StillReady ==
  ASSUME TypeOK, SlotsReady, NEW t \in Procs, state[t] = "SLEEPING", pqueue' = pqueue,
         state' = [state EXCEPT ![t] = "RUNNABLE"],
         curr_ticks' = [curr_ticks EXCEPT ![t] = 0]
  PROVE  SlotsReady'
<1>1. /\ state'[t] = "RUNNABLE"
      /\ \A p \in Procs : p # t => state'[p] = state[p] /\ curr_ticks'[p] = curr_ticks[p]
  BY DEF TypeOK
<1> QED BY <1>1 DEF SlotsReady

\* A sleeper made runnable goes on its queue, and nothing else moves.
LEMMA WakeOne ==
  ASSUME IInv, NEW p \in Procs, state[p] = "SLEEPING",
         add_proc_to_q(queue, pqueue, p, pqueue[p])
  PROVE  /\ Holds(queue', pqueue', Runnable \cup {p})
         /\ pqueue' = pqueue
         /\ age' = [age EXCEPT ![p] = 0]
<1>1. Holds(queue, pqueue, Runnable)
  BY HoldsIff DEF IInv
<1>2. p \in Procs \ Runnable /\ pid[p] # 0 /\ pqueue[p] \in Queues
  BY DEF IInv, Runnable, PidsDistinct, SlotsReady
<1>3. Runnable \in SUBSET Procs /\ pqueue \in [Procs -> Int] /\ PidsDistinct
  BY SMT DEF Runnable, IInv, TypeOK, Queues
<1>4. /\ Holds(queue', pqueue', Runnable \cup {p})
      /\ pqueue' = [pqueue EXCEPT ![p] = pqueue[p]]
      /\ age' = [age EXCEPT ![p] = 0]
  <2>1. ASSUME NEW q \in Queues, q = pqueue[p]
        PROVE  /\ Holds(queue', pqueue', Runnable \cup {p})
               /\ pqueue' = [pqueue EXCEPT ![p] = q]
               /\ age' = [age EXCEPT ![p] = 0]
    <3>1. add_proc_to_q(queue, pqueue, p, q) /\ p \in Procs \ Runnable /\ pid[p] # 0
      BY <1>2, <2>1
    <3> QED BY SMTT(30), <1>1, <1>3, <3>1, AddHolds
  <2> QED BY <1>2, <2>1
<1> QED BY <1>3, <1>4

\* Setting an age to 0 keeps its type.
LEMMA AgeZero ==
  ASSUME TypeOK, NEW p, age' = [age EXCEPT ![p] = 0]
  PROVE  age' \in [Procs -> 0 .. AgeLimit + 1]
<1>1. 0 \in 0 .. AgeLimit + 1
  BY SMT, ConstAssumption
<1> QED BY <1>1 DEF TypeOK

\* The same with the whole of what wakeup1 and kill change.
LEMMA WokenUp ==
  ASSUME IInv, NEW p \in Procs, state[p] = "SLEEPING", MakeRunnable(p)
  PROVE  /\ Holds(queue', pqueue', Runnable') /\ pqueue' = pqueue
         /\ age' \in [Procs -> 0 .. AgeLimit + 1]
         /\ state[p] = "SLEEPING"
         /\ state' = [state EXCEPT ![p] = "RUNNABLE"]
         /\ curr_ticks' = [curr_ticks EXCEPT ![p] = 0]
<1>1. /\ Holds(queue', pqueue', Runnable \cup {p}) /\ pqueue' = pqueue
      /\ age' = [age EXCEPT ![p] = 0]
  BY WakeOne DEF MakeRunnable
<1>2. Runnable' = Runnable \cup {p}
  BY DEF MakeRunnable, Runnable, IInv, TypeOK
<1>3. age' \in [Procs -> 0 .. AgeLimit + 1]
  BY SMT, <1>1, ConstAssumption DEF IInv, TypeOK
<1> QED BY <1>1, <1>2, <1>3 DEF MakeRunnable

-----------------------------------------------------------------------------
(* The process operations *)

\* allocproc takes an UNUSED slot, which no queue holds.
LEMMA AllocInv ==
  ASSUME IInv, NEW c \in Cpus, allocproc(c)
  PROVE  IInv'
<1> USE DEF IInv
<1>p. cproc[c] \in Procs /\ state[cproc[c]] = "RUNNING" /\ pqueue[cproc[c]] \in Queues
  BY CurrentProc DEF allocproc, Running
<1>s. PICK s \in Procs :
            /\ state[s] = "UNUSED"
            /\ state' = [state EXCEPT ![s] = "EMBRYO"]
            /\ pid' = [pid EXCEPT ![s] = nextpid]
            /\ np' = [np EXCEPT ![cproc[c]] = s]
            /\ curr_ticks' = [curr_ticks EXCEPT ![s] = 0]
            /\ pqueue' = [pqueue EXCEPT ![s] = 0]
  BY DEF allocproc
<1>u. nextpid' = nextpid + 1 /\ UNCHANGED <<chan, queue, age, change_q, cpuVars, ai, aj>>
  BY DEF allocproc
<1>h. Holds(queue', pqueue', Runnable')
  BY <1>s, <1>u, SameQueues DEF Runnable, TypeOK
<1>1. TypeOK'
  <2>1. state' \in [Procs -> States]
    BY <1>s DEF TypeOK, States
  <2>2. pid' \in [Procs -> Nat]
    BY <1>s DEF TypeOK
  <2>3. nextpid' \in Nat
    BY SMT, <1>u DEF TypeOK
  <2>4. np' \in [Procs -> Procs \cup {NoProc}]
    BY <1>s DEF TypeOK
  <2>5. pqueue' \in [Procs -> Queues \cup {-1}]
    BY <1>s, Constants DEF TypeOK
  <2>6. curr_ticks' \in [Procs -> Nat]
    BY <1>s DEF TypeOK
  <2> QED BY <2>1, <2>2, <2>3, <2>4, <2>5, <2>6, <1>u DEF TypeOK, cpuVars
<1>2. PidsDistinct'
  <2>1. \A p \in Procs : pid[p] \in Nat /\ pid[p] < nextpid
    BY DEF TypeOK, PidsDistinct
  <2>2. nextpid \in Nat /\ nextpid' = nextpid + 1 /\ nextpid # 0
    BY SMT, <1>s, <1>u, <2>1 DEF TypeOK
  <2>3. /\ pid'[s] = nextpid /\ state'[s] = "EMBRYO"
        /\ \A p \in Procs : p # s => pid'[p] = pid[p] /\ state'[p] = state[p]
    BY <1>s DEF TypeOK
  <2>4. \A p \in Procs : pid'[p] < nextpid'
    BY SMT, <2>1, <2>2, <2>3
  <2>5. \A p, r \in Procs : pid'[p] = pid'[r] /\ pid'[p] # 0 => p = r
    BY SMT, <2>1, <2>2, <2>3 DEF PidsDistinct
  <2>6. \A p \in Procs : state'[p] # "UNUSED" => pid'[p] # 0
    BY <2>2, <2>3 DEF PidsDistinct
  <2> QED BY <2>4, <2>5, <2>6 DEF PidsDistinct
<1>3. CpuConsistent'
  BY ConstAssumption, <1>p, <1>s, <1>u DEF TypeOK, CpuConsistent, PcLocked, procVars, cpuVars
<1>4. NpConsistent'
  BY <1>p, <1>s, <1>u DEF TypeOK, NpConsistent, procVars, cpuVars
<1>5. SlotsReady'
  BY Constants, <1>p, <1>s, <1>u DEF TypeOK, SlotsReady, procVars, cpuVars
<1>6. RunnableQueuedOnce'
  BY <1>h, HoldsNext
<1>7. RunningOnOneCpu'
  BY Constants, <1>p, <1>s, <1>u DEF TypeOK, RunningOnOneCpu, CpuConsistent, procVars, cpuVars
<1>8. FlagOnlyBeforeYield'
  BY SMT, <1>p, <1>s, <1>u DEF TypeOK, FlagOnlyBeforeYield, CpuConsistent, procVars, cpuVars
<1>9. WithinQuantum'
  BY Constants, <1>p, <1>s, <1>u DEF TypeOK, WithinQuantum, SlotsReady, procVars, cpuVars
<1> QED BY <1>1, <1>2, <1>3, <1>4, <1>5, <1>6, <1>7, <1>8, <1>9

\* fork queues an EMBRYO, which is on no queue.
LEMMA ForkDoneInv ==
  ASSUME IInv, NEW c \in Cpus, ForkDone(c)
  PROVE  IInv'
<1> USE DEF IInv
<1>p. cproc[c] \in Procs /\ state[cproc[c]] = "RUNNING" /\ pqueue[cproc[c]] \in Queues
  BY CurrentProc DEF ForkDone, Running
<1>s. np[cproc[c]] \in Procs /\ state[np[cproc[c]]] = "EMBRYO"
  BY <1>p DEF TypeOK, NpConsistent, ForkDone
<1>hh. Holds(queue, pqueue, Runnable) /\ Runnable \in SUBSET Procs /\ pqueue \in [Procs -> Int]
  BY SMT, HoldsIff DEF TypeOK, Runnable, Queues
<1>a. /\ Holds(queue', pqueue', Runnable \cup {np[cproc[c]]})
      /\ pqueue' = [pqueue EXCEPT ![np[cproc[c]]] = 0]
      /\ age' = [age EXCEPT ![np[cproc[c]]] = 0]
  <2>1. np[cproc[c]] \in Procs \ Runnable /\ pid[np[cproc[c]]] # 0
    BY <1>s DEF Runnable, PidsDistinct
  <2> QED BY <2>1, <1>hh, Constants, AddHolds DEF ForkDone
<1>h. Holds(queue', pqueue', Runnable')
  <2>1. Runnable' = Runnable \cup {np[cproc[c]]}
    BY <1>s DEF Runnable, ForkDone, TypeOK
  <2> QED BY <2>1, <1>a
<1>q. queue' \in [Queues -> Seq(Procs)]
  BY <1>h, HoldsNext
<1>e. /\ state' = [state EXCEPT ![np[cproc[c]]] = "RUNNABLE"]
      /\ np' = [np EXCEPT ![cproc[c]] = NoProc]
      /\ pid' = pid /\ nextpid' = nextpid /\ chan' = chan /\ ai' = ai /\ aj' = aj
      /\ curr_ticks' = curr_ticks /\ change_q' = change_q
      /\ cproc' = cproc /\ pc' = pc /\ lock' = lock
  BY DEF ForkDone, tickVars, cpuVars
<1>f. \A r \in Procs :
        /\ state'[r] = IF r = np[cproc[c]] THEN "RUNNABLE" ELSE state[r]
        /\ np'[r] = IF r = cproc[c] THEN NoProc ELSE np[r]
        /\ pqueue'[r] = IF r = np[cproc[c]] THEN 0 ELSE pqueue[r]
  BY <1>e, <1>a DEF TypeOK
<1>1. TypeOK'
  <2>1. state' \in [Procs -> States]
    BY <1>e DEF TypeOK, States
  <2>2. np' \in [Procs -> Procs \cup {NoProc}]
    BY <1>e DEF TypeOK
  <2>3. pqueue' \in [Procs -> Queues \cup {-1}]
    BY <1>a, Constants DEF TypeOK
  <2>4. age' \in [Procs -> 0 .. AgeLimit + 1]
    BY <1>a, AgeZero DEF TypeOK
  <2> QED BY <2>1, <2>2, <2>3, <2>4, <1>e, <1>q DEF TypeOK
<1>2. PidsDistinct'
  BY <1>s, <1>e, <1>f DEF PidsDistinct
<1>3. CpuConsistent'
  BY <1>e DEF CpuConsistent
<1>4. NpConsistent'
  <2>1. \A r \in Procs : np'[r] # NoProc => np'[r] = np[r] /\ r # cproc[c]
    BY <1>f
  <2>2. \A r \in Procs : np'[r] # NoProc => np[r] # np[cproc[c]] /\ np[r] \in Procs
    BY SMT, <1>p, <1>s, Constants, <2>1 DEF NpConsistent, TypeOK
  <2> QED BY SMT, <1>f, <2>1, <2>2 DEF NpConsistent
<1>5. SlotsReady'
  BY SMT, Constants, <1>s, <1>e, <1>f DEF SlotsReady
<1>6. RunnableQueuedOnce'
  BY <1>h, HoldsNext
<1>7. RunningOnOneCpu'
  <2>1. \A r \in Procs : state'[r] = "RUNNING" <=> state[r] = "RUNNING"
    BY <1>s, <1>f
  <2> QED BY <1>e, <2>1, SameRunning
<1>8. FlagOnlyBeforeYield'
  BY <1>e, FlagsKept
<1>9. WithinQuantum'
  BY SMT, Constants, <1>s, <1>e, <1>f DEF WithinQuantum, SlotsReady
<1> QED BY <1>1, <1>2, <1>3, <1>4, <1>5, <1>6, <1>7, <1>8, <1>9

\* A slot given back was an EMBRYO.
LEMMA ForkFailInv ==
  ASSUME IInv, NEW c \in Cpus, ForkFail(c)
  PROVE  IInv'
<1> USE DEF IInv
<1>p. cproc[c] \in Procs /\ state[cproc[c]] = "RUNNING" /\ pqueue[cproc[c]] \in Queues
  BY CurrentProc DEF ForkFail
<1>s. np[cproc[c]] \in Procs /\ state[np[cproc[c]]] = "EMBRYO"
  BY <1>p DEF TypeOK, NpConsistent, ForkFail
<1>h. Holds(queue', pqueue', Runnable')
  BY <1>s, SameQueues DEF Runnable, TypeOK, ForkFail, queueVars, tickVars, cpuVars
<1>1. TypeOK'
  BY Constants, ConstAssumption, <1>p, <1>s DEF TypeOK, PcAll, PcLocked, States, Chans, ForkFail, queueVars, tickVars, cpuVars
<1>2. PidsDistinct'
  BY <1>p, <1>s DEF TypeOK, PidsDistinct, ForkFail, queueVars, tickVars, cpuVars
<1>3. CpuConsistent'
  BY ConstAssumption, <1>p, <1>s DEF TypeOK, CpuConsistent, PcLocked, ForkFail, queueVars, tickVars, cpuVars
<1>4. NpConsistent'
  BY <1>p, <1>s DEF TypeOK, NpConsistent, ForkFail, queueVars, tickVars, cpuVars
<1>5. SlotsReady'
  BY Constants, <1>p, <1>s DEF TypeOK, SlotsReady, ForkFail, queueVars, tickVars, cpuVars
<1>6. RunnableQueuedOnce'
  BY <1>h, HoldsNext
<1>7. RunningOnOneCpu'
  BY SMT, Constants, <1>p, <1>s DEF TypeOK, RunningOnOneCpu, CpuConsistent, ForkFail, queueVars, tickVars, cpuVars
<1>8. FlagOnlyBeforeYield'
  BY SMT, <1>p, <1>s DEF TypeOK, FlagOnlyBeforeYield, CpuConsistent, ForkFail, queueVars, tickVars, cpuVars
<1>9. WithinQuantum'
  BY Constants, <1>p, <1>s DEF TypeOK, WithinQuantum, SlotsReady, ForkFail, queueVars, tickVars, cpuVars
<1> QED BY <1>1, <1>2, <1>3, <1>4, <1>5, <1>6, <1>7, <1>8, <1>9

\* A process going to sleep is RUNNING, so on no queue.
LEMMA SleepInv ==
  ASSUME IInv, NEW c \in Cpus, NEW ch \in Chans, sleep(c, ch)
  PROVE  IInv'
<1> USE DEF IInv
<1>p. cproc[c] \in Procs /\ state[cproc[c]] = "RUNNING" /\ pqueue[cproc[c]] \in Queues
  BY CurrentProc DEF sleep, InKernel
<1>h. Holds(queue', pqueue', Runnable')
  <2>1. queue' = queue /\ pqueue' = pqueue /\ state' = [state EXCEPT ![cproc[c]] = "SLEEPING"]
    BY DEF sleep, queueVars
  <2>2. Runnable' = Runnable
    BY <1>p, <2>1 DEF Runnable, TypeOK
  <2> QED BY <2>1, <2>2, SameQueues
<1>1. TypeOK'
  BY Constants, ConstAssumption, <1>p DEF TypeOK, PcAll, PcLocked, States, Chans, sleep, InKernel, LeaveCpu, Goto, queueVars, tickVars, cpuVars
<1>2. PidsDistinct'
  BY <1>p DEF TypeOK, PidsDistinct, sleep, InKernel, LeaveCpu, Goto, queueVars, tickVars, cpuVars
<1>3. CpuConsistent'
  BY ConstAssumption, <1>p DEF TypeOK, CpuConsistent, PcLocked, sleep, InKernel, LeaveCpu, Goto, queueVars, tickVars, cpuVars
<1>4. NpConsistent'
  BY <1>p DEF TypeOK, NpConsistent, sleep, InKernel, LeaveCpu, Goto, queueVars, tickVars, cpuVars
<1>5. SlotsReady'
  BY Constants, <1>p DEF TypeOK, SlotsReady, sleep, InKernel, LeaveCpu, Goto, queueVars, tickVars, cpuVars
<1>6. RunnableQueuedOnce'
  BY <1>h, HoldsNext
<1>7. RunningOnOneCpu'
  BY SMT, Constants, <1>p DEF TypeOK, RunningOnOneCpu, CpuConsistent, sleep, InKernel, LeaveCpu, Goto, queueVars, tickVars, cpuVars
<1>8. FlagOnlyBeforeYield'
  BY <1>p DEF TypeOK, FlagOnlyBeforeYield, CpuConsistent, sleep, InKernel, LeaveCpu, Goto, queueVars, tickVars, cpuVars
<1>9. WithinQuantum'
  BY Constants, <1>p DEF TypeOK, WithinQuantum, SlotsReady, sleep, InKernel, LeaveCpu, Goto, queueVars, tickVars, cpuVars
<1> QED BY <1>1, <1>2, <1>3, <1>4, <1>5, <1>6, <1>7, <1>8, <1>9

\* An exiting process wakes its parent if that sleeps in wait.
LEMMA ExitWakeInv ==
  ASSUME IInv, NEW c \in Cpus, NEW q \in Procs, ExitWake(c, q)
  PROVE  IInv'
<1> USE DEF IInv
<1>p. cproc[c] \in Procs /\ state[cproc[c]] = "RUNNING" /\ pqueue[cproc[c]] \in Queues
  <2>1. pc[c] \in {"run", "quantum"}
    BY DEF ExitWake, InKernel
  <2> QED BY <2>1, CurrentProc
<1>w. /\ Holds(queue', pqueue', Runnable') /\ pqueue' = pqueue
      /\ age' \in [Procs -> 0 .. AgeLimit + 1]
      /\ \/ state' = state /\ curr_ticks' = curr_ticks
         \/ /\ state[q] = "SLEEPING"
            /\ state' = [state EXCEPT ![q] = "RUNNABLE"]
            /\ curr_ticks' = [curr_ticks EXCEPT ![q] = 0]
  <2>1. CASE state[q] = "SLEEPING" /\ chan[q] = "wait"
    BY <2>1, WokenUp DEF ExitWake
  <2>2. CASE ~(state[q] = "SLEEPING" /\ chan[q] = "wait")
    BY <2>2, SameQueues DEF ExitWake, queueVars, TypeOK, Runnable
  <2> QED BY <2>1, <2>2
<1>x. /\ pqueue' = pqueue
      /\ \/ state' = state /\ curr_ticks' = curr_ticks
         \/ /\ state[q] = "SLEEPING"
            /\ state' = [state EXCEPT ![q] = "RUNNABLE"]
            /\ curr_ticks' = [curr_ticks EXCEPT ![q] = 0]
  BY <1>w
<1>u. /\ pc[c] \in {"run", "quantum"} /\ lock = NoCpu /\ lock' = c /\ pc' = [pc EXCEPT ![c] = "exit"]
      /\ UNCHANGED <<pid, nextpid, chan, np, change_q, cproc, ai, aj>>
  BY DEF ExitWake, InKernel, Goto
<1>h. Holds(queue', pqueue', Runnable')
  BY <1>w
<1>q. queue' \in [Queues -> Seq(Procs)]
  BY <1>h, HoldsNext
<1>1. TypeOK'
  <2>1. state' \in [Procs -> States]
    BY <1>x DEF TypeOK, States
  <2>2. curr_ticks' \in [Procs -> Nat]
    BY SMT, <1>x DEF TypeOK
  <2>3. pc' \in [Cpus -> PcAll]
    BY <1>u DEF TypeOK, PcAll, PcLocked
  <2>4. lock' \in Cpus \cup {NoCpu}
    BY <1>u DEF TypeOK
  <2>5. /\ pid' \in [Procs -> Nat] /\ nextpid' \in Nat /\ ai' \in Nat /\ aj' \in Nat
        /\ chan' \in [Procs -> Chans \cup {NoChan}] /\ np' \in [Procs -> Procs \cup {NoProc}]
        /\ change_q' \in [Procs -> BOOLEAN] /\ cproc' \in [Cpus -> Procs \cup {NoProc}]
        /\ pqueue' \in [Procs -> Queues \cup {-1}]
    BY <1>x, <1>u DEF TypeOK
  <2> QED BY <2>1, <2>2, <2>3, <2>4, <2>5, <1>w, <1>q DEF TypeOK
<1>2. PidsDistinct'
  BY <1>p, <1>x, <1>u DEF TypeOK, PidsDistinct, Goto
<1>3. CpuConsistent'
  BY SMTT(30), ConstAssumption, <1>p, <1>u DEF TypeOK, CpuConsistent, PcLocked
<1>4. NpConsistent'
  BY SMT, <1>p, <1>x, <1>u DEF TypeOK, NpConsistent, Goto
<1>5. SlotsReady'
  BY Constants, <1>p, <1>x, <1>u DEF TypeOK, SlotsReady, Goto
<1>6. RunnableQueuedOnce'
  BY <1>h, HoldsNext
<1>7. RunningOnOneCpu'
  <2>1. \A p \in Procs : state'[p] = "RUNNING" <=> state[p] = "RUNNING"
    BY <1>x DEF TypeOK
  <2> QED BY <2>1, <1>u, SameRunning
<1>8. FlagOnlyBeforeYield'
  BY <1>p, <1>x, <1>u DEF TypeOK, FlagOnlyBeforeYield, CpuConsistent, Goto
<1>9. WithinQuantum'
  BY Constants, <1>p, <1>x, <1>u DEF TypeOK, WithinQuantum, SlotsReady, Goto
<1> QED BY <1>1, <1>2, <1>3, <1>4, <1>5, <1>6, <1>7, <1>8, <1>9

\* The exiting process itself is RUNNING; init may be woken.
LEMMA ExitZombieInv ==
  ASSUME IInv, NEW c \in Cpus, NEW orphan \in BOOLEAN, ExitZombie(c, orphan)
  PROVE  IInv'
<1> USE DEF IInv
<1>p. cproc[c] \in Procs /\ state[cproc[c]] = "RUNNING" /\ pqueue[cproc[c]] \in Queues
  BY CurrentProc DEF ExitZombie
<1>hh. Holds(queue, pqueue, Runnable) /\ Runnable \in SUBSET Procs /\ pqueue \in [Procs -> Int]
  BY SMT, HoldsIff DEF TypeOK, Runnable, Queues
<1>i. initproc \in Procs
  BY SMT, ConstAssumption DEF initproc, Procs
<1>w. /\ Holds(queue', pqueue', Runnable') /\ pqueue' = pqueue
      /\ age' \in [Procs -> 0 .. AgeLimit + 1]
      /\ \/ /\ state' = [state EXCEPT ![cproc[c]] = "ZOMBIE"]
            /\ curr_ticks' = curr_ticks
         \/ /\ state[initproc] = "SLEEPING"
            /\ state' = [state EXCEPT ![cproc[c]] = "ZOMBIE", ![initproc] = "RUNNABLE"]
            /\ curr_ticks' = [curr_ticks EXCEPT ![initproc] = 0]
  <2> DEFINE wake == orphan /\ state[initproc] = "SLEEPING" /\ chan[initproc] = "wait"
  <2>1. CASE wake
    <3>1. /\ state' = [state EXCEPT ![cproc[c]] = "ZOMBIE", ![initproc] = "RUNNABLE"]
          /\ curr_ticks' = [curr_ticks EXCEPT ![initproc] = 0]
          /\ add_proc_to_q(queue, pqueue, initproc, pqueue[initproc])
      BY <2>1 DEF ExitZombie
    <3>2. Runnable' = Runnable \cup {initproc}
      BY <3>1, <1>p, <1>i DEF Runnable, TypeOK
    <3>3. /\ Holds(queue', pqueue', Runnable \cup {initproc}) /\ pqueue' = pqueue
          /\ age' = [age EXCEPT ![initproc] = 0]
      BY <2>1, <3>1, <1>i, WakeOne
    <3>4. age' \in [Procs -> 0 .. AgeLimit + 1]
      BY <3>3, AgeZero
    <3> QED BY <2>1, <3>1, <3>2, <3>3, <3>4
  <2>2. CASE ~wake
    <3>1. state' = [state EXCEPT ![cproc[c]] = "ZOMBIE"] /\ UNCHANGED <<curr_ticks, queueVars>>
      BY <2>2 DEF ExitZombie
    <3>2. Runnable' = Runnable
      BY <3>1, <1>p DEF Runnable, TypeOK
    <3> QED BY <3>1, <3>2, SameQueues DEF queueVars, TypeOK
  <2> QED BY <2>1, <2>2
<1>x. /\ pqueue' = pqueue
      /\ \/ /\ state' = [state EXCEPT ![cproc[c]] = "ZOMBIE"]
            /\ curr_ticks' = curr_ticks
         \/ /\ state[initproc] = "SLEEPING"
            /\ state' = [state EXCEPT ![cproc[c]] = "ZOMBIE", ![initproc] = "RUNNABLE"]
            /\ curr_ticks' = [curr_ticks EXCEPT ![initproc] = 0]
  BY <1>w
<1>y. curr_ticks' = curr_ticks \/ curr_ticks' = [curr_ticks EXCEPT ![initproc] = 0]
  BY <1>w
<1>u. /\ pc[c] = "exit" /\ lock' = NoCpu /\ pc' = [pc EXCEPT ![c] = "sched"]
      /\ cproc' = [cproc EXCEPT ![c] = NoProc]
      /\ UNCHANGED <<pid, nextpid, chan, np, change_q, ai, aj>>
  BY DEF ExitZombie, LeaveCpu, Goto
<1>h. Holds(queue', pqueue', Runnable')
  BY <1>w
<1>q. queue' \in [Queues -> Seq(Procs)]
  BY <1>h, HoldsNext
<1>1. TypeOK'
  <2>1. state' \in [Procs -> States]
    BY <1>x DEF TypeOK, States
  <2>2. curr_ticks' \in [Procs -> Nat]
    <3>1. CASE curr_ticks' = curr_ticks
      BY <3>1 DEF TypeOK
    <3>2. CASE curr_ticks' = [curr_ticks EXCEPT ![initproc] = 0]
      <4>1. curr_ticks \in [Procs -> Nat] /\ 0 \in Nat
        BY DEF TypeOK
      <4> HIDE DEF IInv
      <4> QED BY <3>2, <4>1
    <3> QED BY <1>y, <3>1, <3>2
  <2>3. pc' \in [Cpus -> PcAll]
    BY <1>u DEF TypeOK, PcAll, PcLocked
  <2>4. cproc' \in [Cpus -> Procs \cup {NoProc}]
    BY <1>u DEF TypeOK
  <2>5. /\ pid' \in [Procs -> Nat] /\ nextpid' \in Nat /\ ai' \in Nat /\ aj' \in Nat
        /\ chan' \in [Procs -> Chans \cup {NoChan}] /\ np' \in [Procs -> Procs \cup {NoProc}]
        /\ change_q' \in [Procs -> BOOLEAN] /\ lock' \in Cpus \cup {NoCpu}
        /\ pqueue' \in [Procs -> Queues \cup {-1}]
    BY <1>x, <1>u DEF TypeOK
  <2> QED BY <2>1, <2>2, <2>3, <2>4, <2>5, <1>w, <1>q DEF TypeOK
<1>2. PidsDistinct'
  BY <1>p, <1>i, <1>x, <1>y, <1>u DEF TypeOK, PidsDistinct, Goto
<1>3. CpuConsistent'
  BY SMT, ConstAssumption, <1>p, <1>i, <1>x, <1>y, <1>u DEF TypeOK, CpuConsistent, PcLocked, Goto
<1>4. NpConsistent'
  BY SMTT(30), <1>p, <1>i, <1>x, <1>y, <1>u DEF TypeOK, NpConsistent, Goto
<1>5. SlotsReady'
  BY Constants, <1>p, <1>i, <1>x, <1>y, <1>u DEF TypeOK, SlotsReady, Goto
<1>6. RunnableQueuedOnce'
  BY <1>h, HoldsNext
<1>7. RunningOnOneCpu'
  <2>1. \A p \in Procs : state'[p] = "RUNNING" <=> state[p] = "RUNNING" /\ p # cproc[c]
    BY <1>p, <1>i, <1>x DEF TypeOK
  <2>2. cproc \in [Cpus -> Procs \cup {NoProc}] /\ cproc' = [cproc EXCEPT ![c] = NoProc]
    BY <1>u DEF TypeOK
  <2> QED BY <1>p, <2>1, <2>2, LeavesCpu
<1>8. FlagOnlyBeforeYield'
  BY <1>p, <1>i, <1>x, <1>y, <1>u DEF TypeOK, FlagOnlyBeforeYield, CpuConsistent, Goto
<1>9. WithinQuantum'
  <2>1. CASE state' = [state EXCEPT ![cproc[c]] = "ZOMBIE"] /\ curr_ticks' = curr_ticks
    BY <1>p, <1>x, <2>1 DEF TypeOK, WithinQuantum
  <2>2. CASE /\ state[initproc] = "SLEEPING"
             /\ state' = [state EXCEPT ![cproc[c]] = "ZOMBIE", ![initproc] = "RUNNABLE"]
             /\ curr_ticks' = [curr_ticks EXCEPT ![initproc] = 0]
    <3>1. state'[initproc] = "RUNNABLE" /\ curr_ticks'[initproc] = 0
      BY <1>i, <2>2 DEF TypeOK
    <3>2. \A p \in Procs : p # initproc =>
            /\ curr_ticks'[p] = curr_ticks[p]
            /\ state'[p] = state[p] \/ state'[p] = "ZOMBIE"
      BY <1>i, <1>p, <2>2 DEF TypeOK
    <3> QED BY <1>x, <3>1, <3>2 DEF WithinQuantum
  <2> QED BY <1>x, <2>1, <2>2
<1> QED BY <1>1, <1>2, <1>3, <1>4, <1>5, <1>6, <1>7, <1>8, <1>9

\* A zombie is on no queue, so remove_proc_from_q finds nothing.
LEMMA WaitInv ==
  ASSUME IInv, NEW c \in Cpus, NEW z \in Procs, wait(c, z)
  PROVE  IInv'
<1> USE DEF IInv
<1>hh. Holds(queue, pqueue, Runnable) /\ Runnable \in SUBSET Procs /\ pqueue \in [Procs -> Int]
  BY SMT, HoldsIff DEF TypeOK, Runnable, Queues
<1>z. state[z] = "ZOMBIE" /\ z \notin Runnable /\ pid[z] # 0 /\ pqueue[z] \in Queues
  BY DEF wait, Runnable, PidsDistinct, SlotsReady
<1>q. queue' = queue
  <2>1. queue' = remove_proc_from_q(z, pqueue[z]) /\ PidsDistinct
    BY DEF wait
  <2> HIDE DEF IInv
  <2> QED BY <1>hh, <1>z, <2>1, RemoveAbsent
<1>h. Holds(queue', pqueue', Runnable')
  <2>1. pqueue' = [pqueue EXCEPT ![z] = -1] /\ state' = [state EXCEPT ![z] = "UNUSED"]
    BY DEF wait
  <2>2. Runnable' = Runnable
    BY <1>z, <2>1 DEF Runnable, TypeOK
  <2>3. \A p \in Runnable : pqueue'[p] = pqueue[p]
    BY <1>hh, <1>z, <2>1
  <2> QED BY <1>q, <2>2, <2>3, SameQueues
<1>e. /\ state' = [state EXCEPT ![z] = "UNUSED"] /\ pid' = [pid EXCEPT ![z] = 0]
      /\ pqueue' = [pqueue EXCEPT ![z] = -1]
      /\ nextpid' = nextpid /\ chan' = chan /\ np' = np /\ age' = age /\ ai' = ai /\ aj' = aj
      /\ curr_ticks' = curr_ticks /\ change_q' = change_q
      /\ cproc' = cproc /\ pc' = pc /\ lock' = lock
  BY DEF wait, tickVars, cpuVars
<1>f. \A r \in Procs :
        /\ state'[r] = IF r = z THEN "UNUSED" ELSE state[r]
        /\ pid'[r] = IF r = z THEN 0 ELSE pid[r]
        /\ pqueue'[r] = IF r = z THEN -1 ELSE pqueue[r]
  BY <1>e DEF TypeOK
<1>1. TypeOK'
  <2>1. state' \in [Procs -> States] /\ pid' \in [Procs -> Nat]
    BY <1>e DEF TypeOK, States
  <2>2. pqueue' \in [Procs -> Queues \cup {-1}]
    BY <1>e DEF TypeOK
  <2> QED BY <2>1, <2>2, <1>e, <1>q DEF TypeOK
<1>2. PidsDistinct'
  <2>1. pid \in [Procs -> Nat] /\ nextpid \in Nat
    BY DEF TypeOK
  <2> QED BY <1>z, <1>e, <1>f, <2>1, PidFreed
<1>3. CpuConsistent'
  BY <1>e DEF CpuConsistent
<1>4. NpConsistent'
  <2>1. \A r \in Procs : state[r] = "EMBRYO" => state'[r] = "EMBRYO"
    BY <1>z, <1>f
  <2>2. np \in [Procs -> Procs \cup {NoProc}]
    BY DEF TypeOK
  <2> QED BY <1>e, <2>1, <2>2, NpKept
<1>5. SlotsReady'
  BY SMT, Constants, <1>z, <1>e, <1>f DEF SlotsReady
<1>6. RunnableQueuedOnce'
  BY <1>h, HoldsNext
<1>7. RunningOnOneCpu'
  <2>1. \A r \in Procs : state'[r] = "RUNNING" <=> state[r] = "RUNNING"
    BY <1>z, <1>f
  <2> QED BY <1>e, <2>1, SameRunning
<1>8. FlagOnlyBeforeYield'
  BY <1>e, FlagsKept
<1>9. WithinQuantum'
  BY SMT, Constants, <1>z, <1>e, <1>f DEF WithinQuantum, SlotsReady
<1> QED BY <1>1, <1>2, <1>3, <1>4, <1>5, <1>6, <1>7, <1>8, <1>9

\* join frees a zombie and touches no queue.
LEMMA JoinInv ==
  ASSUME IInv, NEW c \in Cpus, NEW z \in Procs, join(c, z)
  PROVE  IInv'
<1> USE DEF IInv
<1>z. state[z] = "ZOMBIE" /\ pid[z] # 0
  BY DEF join, PidsDistinct
<1>e. /\ state' = [state EXCEPT ![z] = "UNUSED"] /\ pid' = [pid EXCEPT ![z] = 0]
      /\ nextpid' = nextpid /\ chan' = chan /\ np' = np /\ ai' = ai /\ aj' = aj
      /\ queue' = queue /\ pqueue' = pqueue /\ age' = age
      /\ curr_ticks' = curr_ticks /\ change_q' = change_q
      /\ cproc' = cproc /\ pc' = pc /\ lock' = lock
  BY DEF join, queueVars, tickVars, cpuVars
<1>f. \A r \in Procs :
        /\ state'[r] = IF r = z THEN "UNUSED" ELSE state[r]
        /\ pid'[r] = IF r = z THEN 0 ELSE pid[r]
  BY <1>e DEF TypeOK
<1>h. Holds(queue', pqueue', Runnable')
  <2>1. Runnable' = Runnable
    BY <1>z, <1>f DEF Runnable
  <2> QED BY <1>e, <2>1, SameQueues
<1>1. TypeOK'
  <2>1. state' \in [Procs -> States] /\ pid' \in [Procs -> Nat]
    BY <1>e DEF TypeOK, States
  <2> QED BY <2>1, <1>e DEF TypeOK
<1>2. PidsDistinct'
  <2>1. pid \in [Procs -> Nat] /\ nextpid \in Nat
    BY DEF TypeOK
  <2> QED BY <1>z, <1>e, <1>f, <2>1, PidFreed
<1>3. CpuConsistent'
  BY <1>e DEF CpuConsistent
<1>4. NpConsistent'
  <2>1. \A r \in Procs : state[r] = "EMBRYO" => state'[r] = "EMBRYO"
    BY <1>z, <1>f
  <2>2. np \in [Procs -> Procs \cup {NoProc}]
    BY DEF TypeOK
  <2> QED BY <1>e, <2>1, <2>2, NpKept
<1>5. SlotsReady'
  BY SMT, Constants, <1>z, <1>e, <1>f DEF SlotsReady
<1>6. RunnableQueuedOnce'
  BY <1>h, HoldsNext
<1>7. RunningOnOneCpu'
  <2>1. \A r \in Procs : state'[r] = "RUNNING" <=> state[r] = "RUNNING"
    BY <1>z, <1>f
  <2> QED BY <1>e, <2>1, SameRunning
<1>8. FlagOnlyBeforeYield'
  BY <1>e, FlagsKept
<1>9. WithinQuantum'
  BY SMT, Constants, <1>z, <1>e, <1>f DEF WithinQuantum, SlotsReady
<1> QED BY <1>1, <1>2, <1>3, <1>4, <1>5, <1>6, <1>7, <1>8, <1>9

\* kill makes a sleeper runnable.
LEMMA KillInv ==
  ASSUME IInv, NEW c \in Cpus, NEW t \in Procs, kill(c, t)
  PROVE  IInv'
<1> USE DEF IInv
<1>x. /\ Holds(queue', pqueue', Runnable') /\ pqueue' = pqueue
      /\ age' \in [Procs -> 0 .. AgeLimit + 1]
      /\ state[t] = "SLEEPING"
      /\ state' = [state EXCEPT ![t] = "RUNNABLE"]
      /\ curr_ticks' = [curr_ticks EXCEPT ![t] = 0]
  <2>1. IInv /\ state[t] = "SLEEPING" /\ MakeRunnable(t)
    BY DEF kill
  <2> HIDE DEF IInv
  <2> QED BY <2>1, WokenUp
<1>h. Holds(queue', pqueue', Runnable')
  BY <1>x
<1>q. queue' \in [Queues -> Seq(Procs)]
  BY <1>h, HoldsNext
<1>e. /\ pid' = pid /\ nextpid' = nextpid /\ chan' = chan /\ np' = np /\ ai' = ai /\ aj' = aj
      /\ change_q' = change_q /\ cproc' = cproc /\ pc' = pc /\ lock' = lock
  BY DEF kill, cpuVars
<1>s. state[t] = "SLEEPING"
  BY <1>x
<1>f. \A r \in Procs :
        /\ state'[r] = IF r = t THEN "RUNNABLE" ELSE state[r]
        /\ curr_ticks'[r] = IF r = t THEN 0 ELSE curr_ticks[r]
        /\ pqueue'[r] = pqueue[r]
  BY <1>x DEF TypeOK
<1>1. TypeOK'
  <2>1. state' \in [Procs -> States] /\ curr_ticks' \in [Procs -> Nat]
    BY <1>x DEF TypeOK, States
  <2>2. pqueue' = pqueue /\ age' \in [Procs -> 0 .. AgeLimit + 1]
    BY <1>x
  <2> QED BY <2>1, <2>2, <1>e, <1>q DEF TypeOK
<1>2. PidsDistinct'
  BY <1>s, <1>e, <1>f DEF PidsDistinct
<1>3. CpuConsistent'
  BY <1>e DEF CpuConsistent
<1>4. NpConsistent'
  <2>1. \A r \in Procs : state[r] = "EMBRYO" => state'[r] = "EMBRYO"
    BY <1>s, <1>f
  <2>2. np \in [Procs -> Procs \cup {NoProc}]
    BY DEF TypeOK
  <2> QED BY <1>e, <2>1, <2>2, NpKept
<1>5. SlotsReady'
  BY <1>x, StillReady
<1>6. RunnableQueuedOnce'
  BY <1>h, HoldsNext
<1>7. RunningOnOneCpu'
  <2>1. \A r \in Procs : state'[r] = "RUNNING" <=> state[r] = "RUNNING"
    BY <1>s, <1>f
  <2> QED BY <1>e, <2>1, SameRunning
<1>8. FlagOnlyBeforeYield'
  BY <1>e, FlagsKept
<1>9. WithinQuantum'
  BY <1>x, FreshTicks
<1> QED BY <1>1, <1>2, <1>3, <1>4, <1>5, <1>6, <1>7, <1>8, <1>9

\* wakeup1 makes a sleeper runnable.
LEMMA Wakeup1Inv ==
  ASSUME IInv, NEW c \in Cpus, wakeup1(c)
  PROVE  IInv'
<1> USE DEF IInv
<1>t. PICK t \in Procs : state[t] = "SLEEPING" /\ MakeRunnable(t)
  BY DEF wakeup1, Sleepers
<1>u. UNCHANGED <<pid, nextpid, chan, np, change_q, cpuVars, ai, aj>>
  BY DEF wakeup1
<1>x. /\ Holds(queue', pqueue', Runnable') /\ pqueue' = pqueue
      /\ age' \in [Procs -> 0 .. AgeLimit + 1]
      /\ state[t] = "SLEEPING"
      /\ state' = [state EXCEPT ![t] = "RUNNABLE"]
      /\ curr_ticks' = [curr_ticks EXCEPT ![t] = 0]
  BY <1>t, WokenUp
<1>h. Holds(queue', pqueue', Runnable')
  BY <1>x
<1>q. queue' \in [Queues -> Seq(Procs)]
  BY <1>h, HoldsNext
<1>e. /\ pid' = pid /\ nextpid' = nextpid /\ chan' = chan /\ np' = np /\ ai' = ai /\ aj' = aj
      /\ change_q' = change_q /\ cproc' = cproc /\ pc' = pc /\ lock' = lock
  BY <1>u DEF cpuVars
<1>s. state[t] = "SLEEPING"
  BY <1>x
<1>f. \A r \in Procs :
        /\ state'[r] = IF r = t THEN "RUNNABLE" ELSE state[r]
        /\ curr_ticks'[r] = IF r = t THEN 0 ELSE curr_ticks[r]
        /\ pqueue'[r] = pqueue[r]
  BY <1>x DEF TypeOK
<1>1. TypeOK'
  <2>1. state' \in [Procs -> States] /\ curr_ticks' \in [Procs -> Nat]
    BY <1>x DEF TypeOK, States
  <2>2. pqueue' = pqueue /\ age' \in [Procs -> 0 .. AgeLimit + 1]
    BY <1>x
  <2> QED BY <2>1, <2>2, <1>e, <1>q DEF TypeOK
<1>2. PidsDistinct'
  BY <1>s, <1>e, <1>f DEF PidsDistinct
<1>3. CpuConsistent'
  BY <1>e DEF CpuConsistent
<1>4. NpConsistent'
  <2>1. \A r \in Procs : state[r] = "EMBRYO" => state'[r] = "EMBRYO"
    BY <1>s, <1>f
  <2>2. np \in [Procs -> Procs \cup {NoProc}]
    BY DEF TypeOK
  <2> QED BY <1>e, <2>1, <2>2, NpKept
<1>5. SlotsReady'
  BY <1>x, StillReady
<1>6. RunnableQueuedOnce'
  BY <1>h, HoldsNext
<1>7. RunningOnOneCpu'
  <2>1. \A r \in Procs : state'[r] = "RUNNING" <=> state[r] = "RUNNING"
    BY <1>s, <1>f
  <2> QED BY <1>e, <2>1, SameRunning
<1>8. FlagOnlyBeforeYield'
  BY <1>e, FlagsKept
<1>9. WithinQuantum'
  BY <1>x, FreshTicks
<1> QED BY <1>1, <1>2, <1>3, <1>4, <1>5, <1>6, <1>7, <1>8, <1>9

\* Entering wakeup() takes the lock.
LEMMA WakeupDevInv ==
  ASSUME IInv, NEW c \in Cpus, WakeupDev(c)
  PROVE  IInv'
<1> USE DEF IInv
<1>u. UNCHANGED <<procVars, queueVars, tickVars, cproc, ai, aj>>
  BY DEF WakeupDev
<1>h. Holds(queue', pqueue', Runnable')
  BY <1>u, SameQueues DEF Runnable, procVars, queueVars
<1>1. TypeOK'
  <2>1. pc' \in [Cpus -> PcAll] /\ lock' \in Cpus \cup {NoCpu}
    BY DEF WakeupDev, Goto, TypeOK, PcAll, PcLocked
  <2> QED BY <1>u, <2>1 DEF TypeOK, procVars, queueVars, tickVars
<1>2. PidsDistinct'
  BY DEF TypeOK, PidsDistinct, WakeupDev, Goto, procVars, queueVars, tickVars, cpuVars
<1>3. CpuConsistent'
  BY ConstAssumption DEF TypeOK, CpuConsistent, PcLocked, WakeupDev, Goto, procVars, queueVars, tickVars, cpuVars
<1>4. NpConsistent'
  BY DEF TypeOK, NpConsistent, WakeupDev, Goto, procVars, queueVars, tickVars, cpuVars
<1>5. SlotsReady'
  BY Constants DEF TypeOK, SlotsReady, WakeupDev, Goto, procVars, queueVars, tickVars, cpuVars
<1>6. RunnableQueuedOnce'
  BY <1>h, HoldsNext
<1>7. RunningOnOneCpu'
  BY Constants DEF TypeOK, RunningOnOneCpu, CpuConsistent, WakeupDev, Goto, procVars, queueVars, tickVars, cpuVars
<1>8. FlagOnlyBeforeYield'
  BY DEF TypeOK, FlagOnlyBeforeYield, CpuConsistent, WakeupDev, Goto, procVars, queueVars, tickVars, cpuVars
<1>9. WithinQuantum'
  BY Constants DEF TypeOK, WithinQuantum, SlotsReady, WakeupDev, Goto, procVars, queueVars, tickVars, cpuVars
<1> QED BY <1>1, <1>2, <1>3, <1>4, <1>5, <1>6, <1>7, <1>8, <1>9

\* Leaving wakeup() releases the lock.
LEMMA WakeupDoneInv ==
  ASSUME IInv, NEW c \in Cpus, WakeupDone(c)
  PROVE  IInv'
<1> USE DEF IInv
<1>u. UNCHANGED <<procVars, queueVars, tickVars, cproc, ai, aj>>
  BY DEF WakeupDone
<1>h. Holds(queue', pqueue', Runnable')
  BY <1>u, SameQueues DEF Runnable, procVars, queueVars
<1>1. TypeOK'
  <2>1. pc' \in [Cpus -> PcAll] /\ lock' \in Cpus \cup {NoCpu}
    BY DEF WakeupDone, Goto, TypeOK, PcAll, PcLocked
  <2> QED BY <1>u, <2>1 DEF TypeOK, procVars, queueVars, tickVars
<1>2. PidsDistinct'
  BY DEF TypeOK, PidsDistinct, WakeupDone, Goto, procVars, queueVars, tickVars, cpuVars
<1>3. CpuConsistent'
  BY ConstAssumption DEF TypeOK, CpuConsistent, PcLocked, WakeupDone, Goto, procVars, queueVars, tickVars, cpuVars
<1>4. NpConsistent'
  BY DEF TypeOK, NpConsistent, WakeupDone, Goto, procVars, queueVars, tickVars, cpuVars
<1>5. SlotsReady'
  BY Constants DEF TypeOK, SlotsReady, WakeupDone, Goto, procVars, queueVars, tickVars, cpuVars
<1>6. RunnableQueuedOnce'
  BY <1>h, HoldsNext
<1>7. RunningOnOneCpu'
  BY Constants DEF TypeOK, RunningOnOneCpu, CpuConsistent, WakeupDone, Goto, procVars, queueVars, tickVars, cpuVars
<1>8. FlagOnlyBeforeYield'
  BY DEF TypeOK, FlagOnlyBeforeYield, CpuConsistent, WakeupDone, Goto, procVars, queueVars, tickVars, cpuVars
<1>9. WithinQuantum'
  BY Constants DEF TypeOK, WithinQuantum, SlotsReady, WakeupDone, Goto, procVars, queueVars, tickVars, cpuVars
<1> QED BY <1>1, <1>2, <1>3, <1>4, <1>5, <1>6, <1>7, <1>8, <1>9
=============================================================================
