----------------------------- MODULE MlfqProofs -----------------------------
(***************************************************************************)
(* The theorems about Mlfq, for any number of slots, processors and        *)
(* queues, any quanta and any age limit: the timer and the scheduler       *)
(* preserve the invariant as the process operations do (MlfqInvariant), so *)
(* it always holds.                                                        *)
(***************************************************************************)
EXTENDS MlfqInvariant

\* Leaves are proved by Zenon unless they name another prover.
USE Zenon

\* The tick takes the lock for wakeup(&ticks).
LEMMA TickWakeupInv ==
  ASSUME IInv, NEW c \in Cpus, TickWakeup(c)
  PROVE  IInv'
<1> USE DEF IInv
<1>h. Holds(queue', pqueue', Runnable')
  BY SameQueues DEF Runnable, TickWakeup, Goto, procVars, queueVars, tickVars, cpuVars
<1>1. TypeOK'
  BY Constants, ConstAssumption DEF TypeOK, PcAll, PcLocked, States, Chans, TickWakeup, Goto, procVars, queueVars, tickVars, cpuVars
<1>2. PidsDistinct'
  BY DEF TypeOK, PidsDistinct, TickWakeup, Goto, procVars, queueVars, tickVars, cpuVars
<1>3. CpuConsistent'
  BY ConstAssumption DEF TypeOK, CpuConsistent, PcLocked, TickWakeup, Goto, procVars, queueVars, tickVars, cpuVars
<1>4. NpConsistent'
  BY DEF TypeOK, NpConsistent, TickWakeup, Goto, procVars, queueVars, tickVars, cpuVars
<1>5. SlotsReady'
  BY Constants DEF TypeOK, SlotsReady, TickWakeup, Goto, procVars, queueVars, tickVars, cpuVars
<1>6. RunnableQueuedOnce'
  BY <1>h, HoldsNext
<1>7. RunningOnOneCpu'
  BY Constants DEF TypeOK, RunningOnOneCpu, CpuConsistent, TickWakeup, Goto, procVars, queueVars, tickVars, cpuVars
<1>8. FlagOnlyBeforeYield'
  BY DEF TypeOK, FlagOnlyBeforeYield, CpuConsistent, TickWakeup, Goto, procVars, queueVars, tickVars, cpuVars
<1>9. WithinQuantum'
  BY Constants DEF TypeOK, WithinQuantum, SlotsReady, TickWakeup, Goto, procVars, queueVars, tickVars, cpuVars
<1> QED BY <1>1, <1>2, <1>3, <1>4, <1>5, <1>6, <1>7, <1>8, <1>9

\* scheduler() takes the lock.
LEMMA SchedStartInv ==
  ASSUME IInv, NEW c \in Cpus, SchedStart(c)
  PROVE  IInv'
<1> USE DEF IInv
<1>h. Holds(queue', pqueue', Runnable')
  BY SameQueues DEF Runnable, SchedStart, Goto, procVars, queueVars, tickVars, cpuVars
<1>1. TypeOK'
  BY Constants, ConstAssumption DEF TypeOK, PcAll, PcLocked, States, Chans, SchedStart, Goto, procVars, queueVars, tickVars, cpuVars
<1>2. PidsDistinct'
  BY DEF TypeOK, PidsDistinct, SchedStart, Goto, procVars, queueVars, tickVars, cpuVars
<1>3. CpuConsistent'
  <2>1. /\ pc[c] = "sched" /\ lock = NoCpu /\ lock' = c /\ ai' = 1
        /\ pc' = [pc EXCEPT ![c] = "age"] /\ cproc' = cproc
    BY DEF SchedStart, Goto
  <2>2. pc \in [Cpus -> PcAll] /\ cproc[c] = NoProc /\ CpuConsistent
    BY <2>1 DEF TypeOK, CpuConsistent
  <2>3. "age" \in PcLocked /\ pc[c] \notin PcLocked
    BY <2>1 DEF PcLocked
  <2> HIDE DEF IInv
  <2>4. /\ lock' = IF "age" \in PcLocked THEN c ELSE lock
        /\ "age" \in PcLocked => lock = NoCpu
        /\ ai' = ai \/ lock = NoCpu
        /\ "age" \in {"run", "quantum", "yield", "exit"} => cproc[c] # NoProc
        /\ "age" \in {"sched", "age"} => cproc[c] = NoProc
        /\ "age" = "age" => ai' >= 1
    BY SMT, <2>1, <2>2, <2>3
  <2> QED BY <2>1, <2>2, <2>3, <2>4, CpuMoves
<1>4. NpConsistent'
  BY DEF TypeOK, NpConsistent, SchedStart, Goto, procVars, queueVars, tickVars, cpuVars
<1>5. SlotsReady'
  BY Constants DEF TypeOK, SlotsReady, SchedStart, Goto, procVars, queueVars, tickVars, cpuVars
<1>6. RunnableQueuedOnce'
  BY <1>h, HoldsNext
<1>7. RunningOnOneCpu'
  BY Constants DEF TypeOK, RunningOnOneCpu, CpuConsistent, SchedStart, Goto, procVars, queueVars, tickVars, cpuVars
<1>8. FlagOnlyBeforeYield'
  BY DEF TypeOK, FlagOnlyBeforeYield, CpuConsistent, SchedStart, Goto, procVars, queueVars, tickVars, cpuVars
<1>9. WithinQuantum'
  BY Constants DEF TypeOK, WithinQuantum, SlotsReady, SchedStart, Goto, procVars, queueVars, tickVars, cpuVars
<1> QED BY <1>1, <1>2, <1>3, <1>4, <1>5, <1>6, <1>7, <1>8, <1>9

\* A timer interrupt ages queued processes and moves none.
LEMMA TimerIrqInv ==
  ASSUME IInv, NEW c \in Cpus, TimerIrq(c)
  PROVE  IInv'
<1> USE DEF IInv
<1>h. Holds(queue', pqueue', Runnable')
  BY SameQueues DEF Runnable, TimerIrq, Goto, procVars, tickVars
<1>a. age' \in [Procs -> 0 .. AgeLimit + 1]
  <2>1. \A p \in Procs : age[p] \in 0 .. AgeLimit + 1
    BY DEF TypeOK
  <2>2. CASE c = Cpu0
    <3>1. age' = [p \in Procs |-> IF OnQueue(p) /\ age[p] <= AgeLimit THEN age[p] + 1 ELSE age[p]]
      BY <2>2 DEF TimerIrq
    <3>2. \A p \in Procs : age[p] <= AgeLimit => age[p] + 1 \in 0 .. AgeLimit + 1
      BY SMT, <2>1, ConstAssumption
    <3> QED BY <3>1, <3>2, <2>1
  <2>3. CASE c # Cpu0
    BY <2>3 DEF TimerIrq, TypeOK
  <2> QED BY <2>2, <2>3
<1>1. TypeOK'
  BY Constants, ConstAssumption, <1>a DEF TypeOK, PcAll, PcLocked, States, Chans, TimerIrq, Goto, procVars, tickVars
<1>2. PidsDistinct'
  BY <1>a DEF TypeOK, PidsDistinct, TimerIrq, Goto, procVars, tickVars
<1>3. CpuConsistent'
  <2>1. PICK l \in {"tick", "quantum"} :
          /\ pc[c] \in {"run", "sched"} /\ pc' = [pc EXCEPT ![c] = l]
          /\ cproc' = cproc /\ lock' = lock /\ ai' = ai
          /\ l = "quantum" => cproc[c] # NoProc
    BY DEF TimerIrq, Goto
  <2>2. pc \in [Cpus -> PcAll] /\ CpuConsistent
    BY DEF TypeOK
  <2>3. l \notin PcLocked /\ pc[c] \notin PcLocked
    BY <2>1 DEF PcLocked
  <2> HIDE DEF IInv
  <2>4. /\ lock' = IF l \in PcLocked THEN c ELSE lock
        /\ l \in PcLocked => lock = NoCpu
        /\ ai' = ai \/ lock = NoCpu
        /\ l \in {"run", "quantum", "yield", "exit"} => cproc[c] # NoProc
        /\ l \in {"sched", "age"} => cproc[c] = NoProc
        /\ l = "age" => ai' >= 1
    BY <2>1, <2>2, <2>3
  <2> QED BY <2>1, <2>2, <2>3, <2>4, CpuMoves
<1>4. NpConsistent'
  BY <1>a DEF TypeOK, NpConsistent, TimerIrq, Goto, procVars, tickVars
<1>5. SlotsReady'
  BY Constants, <1>a DEF TypeOK, SlotsReady, TimerIrq, Goto, procVars, tickVars
<1>6. RunnableQueuedOnce'
  BY <1>h, HoldsNext
<1>7. RunningOnOneCpu'
  BY SMTT(30), Constants, <1>a DEF TypeOK, RunningOnOneCpu, CpuConsistent, TimerIrq, Goto, procVars, tickVars
<1>8. FlagOnlyBeforeYield'
  <2>1. pc[c] # "yield" /\ change_q' = change_q /\ cproc' = cproc
    BY DEF TimerIrq, tickVars
  <2>2. \A d \in Cpus : d # c => pc'[d] = pc[d]
    BY DEF TimerIrq, Goto, TypeOK
  <2> QED BY <2>1, <2>2, FlagsKept
<1>9. WithinQuantum'
  BY Constants, <1>a DEF TypeOK, WithinQuantum, SlotsReady, TimerIrq, Goto, procVars, tickVars
<1> QED BY <1>1, <1>2, <1>3, <1>4, <1>5, <1>6, <1>7, <1>8, <1>9

\* The quantum test sets the flag of the process on this cpu, or counts a tick.
LEMMA QuantumInv ==
  ASSUME IInv, NEW c \in Cpus, Quantum(c)
  PROVE  IInv'
<1> USE DEF IInv
<1>p. cproc[c] \in Procs /\ state[cproc[c]] = "RUNNING" /\ pqueue[cproc[c]] \in Queues
  BY CurrentProc DEF Quantum
<1>h. Holds(queue', pqueue', Runnable')
  BY <1>p, SameQueues DEF Runnable, Quantum, Goto, procVars, queueVars, tickVars, cpuVars
<1>1. TypeOK'
  <2>1. change_q' \in [Procs -> BOOLEAN] /\ curr_ticks' \in [Procs -> Nat] /\ pc' \in [Cpus -> PcAll]
    <3>1. CASE curr_ticks[cproc[c]] >= QMax[pqueue[cproc[c]]]
      BY <3>1 DEF TypeOK, Quantum, Goto, PcAll, tickVars
    <3>2. CASE ~(curr_ticks[cproc[c]] >= QMax[pqueue[cproc[c]]])
      <4>1. /\ change_q' = change_q
            /\ curr_ticks' = [curr_ticks EXCEPT ![cproc[c]] = @ + 1]
            /\ pc' = [pc EXCEPT ![c] = "run"]
        BY <3>2 DEF Quantum, Goto
      <4>2. change_q' \in [Procs -> BOOLEAN]
        BY <4>1 DEF TypeOK
      <4>3. curr_ticks' \in [Procs -> Nat] /\ pc' \in [Cpus -> PcAll]
        BY SMT, <4>1, <1>p DEF TypeOK, PcAll, PcLocked
      <4> QED BY <4>2, <4>3
    <3> QED BY <3>1, <3>2
  <2> QED BY <2>1 DEF TypeOK, Quantum, procVars, queueVars
<1>2. PidsDistinct'
  BY <1>p DEF TypeOK, PidsDistinct, Quantum, Goto, procVars, queueVars, tickVars, cpuVars
<1>3. CpuConsistent'
  <2>1. PICK l \in {"yield", "run"} :
          /\ pc[c] = "quantum" /\ pc' = [pc EXCEPT ![c] = l]
          /\ cproc' = cproc /\ lock' = lock /\ ai' = ai
    BY DEF Quantum, Goto
  <2>2. pc \in [Cpus -> PcAll] /\ cproc[c] # NoProc /\ CpuConsistent
    BY <1>p, Constants DEF TypeOK
  <2>3. l \notin PcLocked /\ pc[c] \notin PcLocked
    BY <2>1 DEF PcLocked
  <2> HIDE DEF IInv
  <2>4. /\ lock' = IF l \in PcLocked THEN c ELSE lock
        /\ l \in PcLocked => lock = NoCpu
        /\ ai' = ai \/ lock = NoCpu
        /\ l \in {"run", "quantum", "yield", "exit"} => cproc[c] # NoProc
        /\ l \in {"sched", "age"} => cproc[c] = NoProc
        /\ l = "age" => ai' >= 1
    BY <2>1, <2>2, <2>3
  <2> QED BY <2>1, <2>2, <2>3, <2>4, CpuMoves
<1>4. NpConsistent'
  BY <1>p DEF TypeOK, NpConsistent, Quantum, Goto, procVars, queueVars, tickVars, cpuVars
<1>5. SlotsReady'
  BY Constants, <1>p DEF TypeOK, SlotsReady, Quantum, Goto, procVars, queueVars, tickVars, cpuVars
<1>6. RunnableQueuedOnce'
  BY <1>h, HoldsNext
<1>7. RunningOnOneCpu'
  <2>1. state' = state /\ cproc' = cproc
    BY DEF Quantum, procVars
  <2> QED BY <2>1, SameRunning
<1>8. FlagOnlyBeforeYield'
  BY SMTT(30), <1>p DEF TypeOK, FlagOnlyBeforeYield, CpuConsistent, Quantum, Goto, procVars, queueVars, tickVars, cpuVars
<1>9. WithinQuantum'
  <2>1. QMax[pqueue[cproc[c]]] \in Nat /\ curr_ticks[cproc[c]] \in Nat
    BY Constants, <1>p DEF TypeOK
  <2>2. state' = state /\ pqueue' = pqueue
    BY DEF Quantum, procVars, queueVars
  <2>3. CASE curr_ticks[cproc[c]] >= QMax[pqueue[cproc[c]]]
    <3>1. curr_ticks' = curr_ticks
      BY <2>3 DEF Quantum
    <3> QED BY <2>2, <3>1 DEF WithinQuantum
  <2>4. CASE ~(curr_ticks[cproc[c]] >= QMax[pqueue[cproc[c]]])
    <3>1. /\ \A p \in Procs : p # cproc[c] => curr_ticks'[p] = curr_ticks[p]
          /\ curr_ticks'[cproc[c]] = curr_ticks[cproc[c]] + 1
      BY <1>p, <2>4 DEF Quantum, TypeOK
    <3>2. curr_ticks[cproc[c]] + 1 <= QMax[pqueue[cproc[c]]]
      BY SMT, <2>1, <2>4
    <3> QED BY <1>p, <2>2, <3>1, <3>2 DEF WithinQuantum
  <2> QED BY <2>3, <2>4
<1> QED BY <1>1, <1>2, <1>3, <1>4, <1>5, <1>6, <1>7, <1>8, <1>9

\* The process leaving the cpu is RUNNING, so on no queue until it is added.
LEMMA YieldInv ==
  ASSUME IInv, NEW c \in Cpus, yield(c)
  PROVE  IInv'
<1> USE DEF IInv
<1>p. cproc[c] \in Procs /\ state[cproc[c]] = "RUNNING" /\ pqueue[cproc[c]] \in Queues
  BY CurrentProc DEF yield
<1>hh. Holds(queue, pqueue, Runnable) /\ Runnable \in SUBSET Procs /\ pqueue \in [Procs -> Int]
  BY SMT, HoldsIff DEF TypeOK, Runnable, Queues
<1>y. PICK q \in Queues :
        /\ state' = [state EXCEPT ![cproc[c]] = "RUNNABLE"]
        /\ change_q' = [change_q EXCEPT ![cproc[c]] = FALSE]
        /\ curr_ticks' = [curr_ticks EXCEPT ![cproc[c]] = 0]
        /\ add_proc_to_q(queue, [pqueue EXCEPT ![cproc[c]] = q], cproc[c], q)
        /\ pc[c] = "yield" /\ lock = NoCpu /\ lock' = NoCpu
        /\ cproc' = [cproc EXCEPT ![c] = NoProc] /\ pc' = [pc EXCEPT ![c] = "sched"]
        /\ UNCHANGED <<pid, nextpid, chan, np, ai, aj>>
  <2> DEFINE p == cproc[c]
             q == IF change_q[p] /\ pqueue[p] # NQ-1 THEN pqueue[p] + 1 ELSE pqueue[p]
  <2>1. q \in Queues
    BY SMT, <1>p, ConstAssumption DEF Queues
  <2> QED BY <2>1 DEF yield, LeaveCpu, Goto
<1>a. /\ Holds(queue', pqueue', Runnable \cup {cproc[c]})
      /\ pqueue' = [pqueue EXCEPT ![cproc[c]] = q]
      /\ age' = [age EXCEPT ![cproc[c]] = 0]
  <2>1. cproc[c] \in Procs \ Runnable /\ pid[cproc[c]] # 0
    BY <1>p DEF Runnable, PidsDistinct
  <2>2. [[pqueue EXCEPT ![cproc[c]] = q] EXCEPT ![cproc[c]] = q] = [pqueue EXCEPT ![cproc[c]] = q]
    BY DEF TypeOK
  <2>3. ~Queued(queue, cproc[c], q)
    BY <1>hh, <2>1, NotQueued
  <2>4. add_proc_to_q(queue, pqueue, cproc[c], q)
    BY <1>y, <2>2, <2>3 DEF add_proc_to_q
  <2>5. PidsDistinct
    OBVIOUS
  <2> HIDE DEF IInv
  <2> QED BY ZenonT(40), <2>1, <2>4, <2>5, <1>hh, AddHolds
<1>h. Holds(queue', pqueue', Runnable')
  <2>1. Runnable' = Runnable \cup {cproc[c]}
    BY <1>p, <1>y DEF Runnable, TypeOK
  <2> QED BY <2>1, <1>a
<1>q. queue' \in [Queues -> Seq(Procs)]
  BY <1>h, HoldsNext
<1>1. TypeOK'
  <2>1. state' \in [Procs -> States]
    BY <1>y DEF TypeOK, States
  <2>2. change_q' \in [Procs -> BOOLEAN]
    BY <1>y DEF TypeOK
  <2>3. curr_ticks' \in [Procs -> Nat]
    BY <1>y DEF TypeOK
  <2>4. pqueue' \in [Procs -> Queues \cup {-1}]
    BY <1>a DEF TypeOK
  <2>5. age' \in [Procs -> 0 .. AgeLimit + 1]
    BY <1>a, AgeZero DEF TypeOK
  <2>6. pc' \in [Cpus -> PcAll]
    BY <1>y DEF TypeOK, PcAll, PcLocked
  <2>7. cproc' \in [Cpus -> Procs \cup {NoProc}]
    BY <1>y DEF TypeOK
  <2> QED BY SMTT(30), <2>1, <2>2, <2>3, <2>4, <2>5, <2>6, <2>7, <1>y, <1>q DEF TypeOK
<1>2. PidsDistinct'
  BY <1>p, <1>y, <1>a DEF TypeOK, PidsDistinct, LeaveCpu, Goto
<1>3. CpuConsistent'
  BY ConstAssumption, <1>p, <1>y, <1>a DEF TypeOK, CpuConsistent, PcLocked, LeaveCpu, Goto
<1>4. NpConsistent'
  BY <1>p, <1>y, <1>a DEF TypeOK, NpConsistent, LeaveCpu, Goto
<1>5. SlotsReady'
  BY Constants, <1>p, <1>y, <1>a DEF TypeOK, SlotsReady, LeaveCpu, Goto
<1>6. RunnableQueuedOnce'
  BY <1>h, HoldsNext
<1>7. RunningOnOneCpu'
  <2>1. \A p \in Procs : state'[p] = "RUNNING" <=> state[p] = "RUNNING" /\ p # cproc[c]
    BY <1>p, <1>y DEF TypeOK
  <2>2. cproc \in [Cpus -> Procs \cup {NoProc}] /\ cproc' = [cproc EXCEPT ![c] = NoProc]
    BY <1>y DEF TypeOK
  <2> QED BY <1>p, <2>1, <2>2, LeavesCpu
<1>8. FlagOnlyBeforeYield'
  BY <1>p, <1>y, <1>a DEF TypeOK, FlagOnlyBeforeYield, CpuConsistent, LeaveCpu, Goto
<1>9. WithinQuantum'
  BY Constants, <1>p, <1>y, <1>a DEF TypeOK, WithinQuantum, SlotsReady, LeaveCpu, Goto
<1> QED BY <1>1, <1>2, <1>3, <1>4, <1>5, <1>6, <1>7, <1>8, <1>9

\* Promotion takes one entry out and adds it one queue up.
LEMMA AgeStepInv ==
  ASSUME IInv, NEW c \in Cpus, AgeStep(c)
  PROVE  IInv'
<1> USE DEF IInv
<1>hh. Holds(queue, pqueue, Runnable) /\ Runnable \in SUBSET Procs /\ pqueue \in [Procs -> Int]
  BY SMT, HoldsIff DEF TypeOK, Runnable, Queues
<1>u. /\ UNCHANGED <<procVars, tickVars, cpuVars>> /\ ai' \in Nat /\ aj' \in Nat /\ ai' >= ai
  <2>1. CASE aj < Len(queue[ai])
    BY SMT, <2>1 DEF AgeStep, TypeOK
  <2>2. CASE ~(aj < Len(queue[ai]))
    BY SMT, <2>2 DEF AgeStep, TypeOK
  <2> QED BY <2>1, <2>2
<1>a. /\ Holds(queue', pqueue', Runnable)
      /\ pqueue' \in [Procs -> Queues \cup {-1}] /\ age' \in [Procs -> 0 .. AgeLimit + 1]
      /\ \A x \in Procs : pqueue'[x] = pqueue[x] \/ (x \in Runnable /\ pqueue'[x] \in Queues)
  <2>1. CASE UNCHANGED queueVars
    BY <2>1, <1>hh DEF queueVars, TypeOK
  <2>2. CASE ~UNCHANGED queueVars
    <3> DEFINE p == queue[ai][aj + 1]
    <3>1. /\ ai \in Queues /\ ai - 1 \in Queues /\ aj + 1 \in DOMAIN queue[ai]
          /\ add_proc_to_q(remove_proc_from_q(p, ai), pqueue, p, ai - 1)
      <4>1. ai >= 1 /\ ai < NQ
        BY DEF AgeStep, CpuConsistent
      <4>2. ai \in Queues /\ ai - 1 \in Queues
        BY SMT, <4>1, ConstAssumption DEF TypeOK, Queues
      <4>3. aj < Len(queue[ai]) /\ add_proc_to_q(remove_proc_from_q(p, ai), pqueue, p, ai - 1)
        BY <2>2 DEF AgeStep
      <4>4. queue[ai] \in Seq(Procs)
        BY <4>2 DEF TypeOK
      <4> QED BY SMT, <4>2, <4>3, <4>4 DEF TypeOK
    <3>2. \A x \in Runnable : pid[x] # 0
      BY DEF Runnable, PidsDistinct
    <3> HIDE DEF p
    <3>3. p \in Runnable /\ p \in Procs /\ Holds(remove_proc_from_q(p, ai), pqueue, Runnable \ {p})
      BY <1>hh, <3>1, <3>2, RemoveHolds DEF p
    <3> DEFINE qs == remove_proc_from_q(p, ai)
               S == Runnable \ {p}
               n == ai - 1
    <3>4. /\ S \in SUBSET Procs /\ p \in Procs \ S /\ pid[p] # 0 /\ n \in Queues
          /\ Holds(qs, pqueue, S) /\ add_proc_to_q(qs, pqueue, p, n)
          /\ S \cup {p} = Runnable
      BY <1>hh, <3>1, <3>2, <3>3
    <3> HIDE DEF qs, S, n
    <3>5. /\ Holds(queue', pqueue', S \cup {p})
          /\ pqueue' = [pqueue EXCEPT ![p] = n]
          /\ age' = [age EXCEPT ![p] = 0]
      BY ZenonT(40), <3>4, <1>hh, AddHolds
    <3>6. age' \in [Procs -> 0 .. AgeLimit + 1]
      BY <3>5, AgeZero
    <3>7. /\ pqueue' \in [Procs -> Queues \cup {-1}]
          /\ \A x \in Procs : pqueue'[x] = pqueue[x] \/ (x \in Runnable /\ pqueue'[x] \in Queues)
      BY <3>3, <3>4, <3>5 DEF TypeOK
    <3> QED BY <3>4, <3>5, <3>6, <3>7
  <2> QED BY <2>1, <2>2
<1>h. Holds(queue', pqueue', Runnable')
  BY <1>a, <1>u DEF Runnable, procVars
<1>q. queue' \in [Queues -> Seq(Procs)]
  BY <1>h, HoldsNext
<1>1. TypeOK'
  BY Constants, ConstAssumption, <1>u, <1>a, <1>q DEF TypeOK, PcAll, PcLocked, States, Chans, procVars, tickVars, cpuVars
<1>2. PidsDistinct'
  BY SMTT(30), <1>u, <1>a DEF TypeOK, PidsDistinct, procVars, tickVars, cpuVars
<1>3. CpuConsistent'
  BY SMTT(30), ConstAssumption, <1>u, <1>a DEF TypeOK, CpuConsistent, PcLocked, procVars, tickVars, cpuVars
<1>4. NpConsistent'
  BY <1>u, <1>a DEF TypeOK, NpConsistent, procVars, tickVars, cpuVars
<1>5. SlotsReady'
  BY Constants, <1>u, <1>a DEF TypeOK, SlotsReady, procVars, tickVars, cpuVars
<1>6. RunnableQueuedOnce'
  BY <1>h, HoldsNext
<1>7. RunningOnOneCpu'
  BY SMTT(30), Constants, <1>u, <1>a DEF TypeOK, RunningOnOneCpu, CpuConsistent, procVars, tickVars, cpuVars
<1>8. FlagOnlyBeforeYield'
  BY <1>u, <1>a DEF TypeOK, FlagOnlyBeforeYield, CpuConsistent, procVars, tickVars, cpuVars
<1>9. WithinQuantum'
  BY <1>u, <1>a DEF TypeOK, WithinQuantum, Runnable, procVars, tickVars
<1> QED BY <1>1, <1>2, <1>3, <1>4, <1>5, <1>6, <1>7, <1>8, <1>9

\* The process picked comes off its queue as it becomes RUNNING.
LEMMA PickInv ==
  ASSUME IInv, NEW c \in Cpus, Pick(c)
  PROVE  IInv'
<1> USE DEF IInv
<1>hh. Holds(queue, pqueue, Runnable) /\ Runnable \in SUBSET Procs /\ pqueue \in [Procs -> Int]
  BY SMT, HoldsIff DEF TypeOK, Runnable, Queues
<1>u. UNCHANGED <<pid, nextpid, np, pqueue, tickVars>> /\ lock' = NoCpu /\ ai' = 0 /\ aj' = 0
  BY DEF Pick
<1>n. pc[c] = "age" /\ cproc[c] = NoProc
  BY DEF Pick, CpuConsistent
<1>a. \/ /\ Holds(queue', pqueue', Runnable')
         /\ pc' = [pc EXCEPT ![c] = "sched"] /\ UNCHANGED <<state, chan, queue, age, cproc>>
      \/ \E p \in Procs :
           /\ Holds(queue', pqueue', Runnable')
           /\ state[p] = "RUNNABLE"
           /\ state' = [state EXCEPT ![p] = "RUNNING"]
           /\ cproc' = [cproc EXCEPT ![c] = p]
           /\ chan' = [chan EXCEPT ![p] = NoChan]
           /\ age' = [age EXCEPT ![p] = 0]
           /\ pc' = [pc EXCEPT ![c] = "run"]
  <2>1. CASE Nonempty = {}
    <3>1. pc' = [pc EXCEPT ![c] = "sched"] /\ UNCHANGED <<state, chan, queue, age, cproc>>
      BY <2>1 DEF Pick, Goto
    <3> QED BY <3>1, <1>u, SameQueues DEF Runnable
  <2>2. CASE Nonempty # {}
    <3>1. PICK q \in Nonempty :
             /\ queue' = remove_proc_from_q(queue[q][1], q)
             /\ age' = [age EXCEPT ![queue[q][1]] = 0]
             /\ state[queue[q][1]] = "RUNNABLE" =>
                  /\ state' = [state EXCEPT ![queue[q][1]] = "RUNNING"]
                  /\ cproc' = [cproc EXCEPT ![c] = queue[q][1]]
                  /\ chan' = [chan EXCEPT ![queue[q][1]] = NoChan]
                  /\ pc' = [pc EXCEPT ![c] = "run"]
      BY <2>2 DEF Pick, Goto
    <3> DEFINE p == queue[q][1]
    <3>2. q \in Queues /\ 1 \in DOMAIN queue[q]
      <4>1. q \in Queues /\ queue[q] # <<>>
        BY <3>1 DEF Nonempty
      <4>2. queue[q] \in Seq(Procs)
        BY <4>1 DEF TypeOK
      <4> QED BY SMT, <4>1, <4>2
    <3>3. \A x \in Runnable : pid[x] # 0
      BY DEF Runnable, PidsDistinct
    <3>4. /\ queue' = remove_proc_from_q(p, q)
          /\ age' = [age EXCEPT ![p] = 0]
          /\ state[p] = "RUNNABLE" =>
               /\ state' = [state EXCEPT ![p] = "RUNNING"]
               /\ cproc' = [cproc EXCEPT ![c] = p]
               /\ chan' = [chan EXCEPT ![p] = NoChan]
               /\ pc' = [pc EXCEPT ![c] = "run"]
      BY <3>1
    <3> HIDE DEF p
    <3>5. p \in Runnable /\ p \in Procs /\ Holds(queue', pqueue, Runnable \ {p})
      <4>1. PidsDistinct
        OBVIOUS
      <4> HIDE DEF IInv
      <4>2. /\ p \in Runnable /\ p \in Procs
            /\ Holds(remove_proc_from_q(p, q), pqueue, Runnable \ {p})
        BY <1>hh, <3>2, <3>3, <4>1, RemoveHolds DEF p
      <4> QED BY <3>4, <4>2
    <3>6. state[p] = "RUNNABLE"
      BY <3>5 DEF Runnable
    <3>7. Runnable' = Runnable \ {p}
      BY <3>4, <3>5, <3>6 DEF Runnable, TypeOK
    <3>8. Holds(queue', pqueue', Runnable')
      <4>1. pqueue' = pqueue
        BY <1>u
      <4> QED BY <3>5, <3>7, <4>1
    <3>9. p \in Procs /\ state[p] = "RUNNABLE" /\ age' = [age EXCEPT ![p] = 0]
      BY <3>4, <3>5, <3>6
    <3>10. /\ state' = [state EXCEPT ![p] = "RUNNING"]
           /\ cproc' = [cproc EXCEPT ![c] = p]
           /\ chan' = [chan EXCEPT ![p] = NoChan]
           /\ pc' = [pc EXCEPT ![c] = "run"]
      BY <3>4, <3>6
    <3> QED BY <3>8, <3>9, <3>10
  <2> QED BY <2>1, <2>2
<1>h. Holds(queue', pqueue', Runnable')
  BY <1>a
<1>q. queue' \in [Queues -> Seq(Procs)]
  BY <1>h, HoldsNext
<1>1. TypeOK'
  <2>1. CASE pc' = [pc EXCEPT ![c] = "sched"] /\ UNCHANGED <<state, chan, queue, age, cproc>>
    BY <2>1, <1>u, <1>n, <1>q, AgeZero DEF TypeOK, PcAll, PcLocked, States, tickVars
  <2>2. ASSUME NEW p \in Procs, state[p] = "RUNNABLE",
               state' = [state EXCEPT ![p] = "RUNNING"], cproc' = [cproc EXCEPT ![c] = p],
               chan' = [chan EXCEPT ![p] = NoChan], age' = [age EXCEPT ![p] = 0],
               pc' = [pc EXCEPT ![c] = "run"]
        PROVE  TypeOK'
    BY <2>2, <1>u, <1>n, <1>q, AgeZero DEF TypeOK, PcAll, PcLocked, States, tickVars
  <2> QED BY <2>1, <2>2, <1>a
<1>2. PidsDistinct'
  BY <1>u, <1>n, <1>a DEF TypeOK, PidsDistinct, procVars, tickVars, cpuVars
<1>3. CpuConsistent'
  <2>1. CASE pc' = [pc EXCEPT ![c] = "sched"] /\ UNCHANGED <<state, chan, queue, age, cproc>>
    BY <2>1, <1>u, <1>n, ConstAssumption, Constants DEF TypeOK, CpuConsistent, PcLocked, tickVars
  <2>2. ASSUME NEW p \in Procs, state[p] = "RUNNABLE",
               state' = [state EXCEPT ![p] = "RUNNING"], cproc' = [cproc EXCEPT ![c] = p],
               chan' = [chan EXCEPT ![p] = NoChan], age' = [age EXCEPT ![p] = 0],
               pc' = [pc EXCEPT ![c] = "run"]
        PROVE  CpuConsistent'
    BY SMTT(30), <2>2, <1>u, <1>n, ConstAssumption, Constants DEF TypeOK, CpuConsistent, PcLocked, tickVars
  <2> QED BY <2>1, <2>2, <1>a
<1>4. NpConsistent'
  BY SMT, <1>u, <1>n, <1>a DEF TypeOK, NpConsistent, procVars, tickVars, cpuVars
<1>5. SlotsReady'
  BY Constants, <1>u, <1>n, <1>a DEF TypeOK, SlotsReady, procVars, tickVars, cpuVars
<1>6. RunnableQueuedOnce'
  BY <1>h, HoldsNext
<1>7. RunningOnOneCpu'
  <2>1. CASE pc' = [pc EXCEPT ![c] = "sched"] /\ UNCHANGED <<state, chan, queue, age, cproc>>
    BY <2>1, <1>u, <1>n, Constants DEF TypeOK, RunningOnOneCpu
  <2>2. ASSUME NEW p \in Procs, state[p] = "RUNNABLE",
               state' = [state EXCEPT ![p] = "RUNNING"], cproc' = [cproc EXCEPT ![c] = p],
               chan' = [chan EXCEPT ![p] = NoChan], age' = [age EXCEPT ![p] = 0],
               pc' = [pc EXCEPT ![c] = "run"]
        PROVE  RunningOnOneCpu'
    <3>1. cproc'[c] = p /\ \A d \in Cpus : d # c => cproc'[d] = cproc[d] /\ cproc[d] # p
      BY <2>2 DEF TypeOK, RunningOnOneCpu
    <3>2. \A x \in Procs : state'[x] = "RUNNING" <=> state[x] = "RUNNING" \/ x = p
      BY <2>2 DEF TypeOK
    <3>3. \A x \in Procs : (\E d \in Cpus : cproc'[d] = x) <=> (x = p \/ \E d \in Cpus : cproc[d] = x)
      BY SMTT(30), <3>1, <1>n, Constants
    <3>4. \A d, e \in Cpus : cproc'[d] = cproc'[e] /\ cproc'[d] # NoProc => d = e
      BY SMTT(30), <3>1 DEF RunningOnOneCpu
    <3> QED BY SMTT(30), <3>2, <3>3, <3>4 DEF RunningOnOneCpu
  <2> QED BY <2>1, <2>2, <1>a
<1>8. FlagOnlyBeforeYield'
  <2>1. pc[c] # "yield" /\ change_q' = change_q
    BY <1>u, <1>n DEF tickVars
  <2>2. \A d \in Cpus : d # c => pc'[d] = pc[d] /\ cproc'[d] = cproc[d]
    BY SMT, <1>a DEF TypeOK
  <2> QED BY <2>1, <2>2, FlagsKept
<1>9. WithinQuantum'
  <2>1. CASE pc' = [pc EXCEPT ![c] = "sched"] /\ UNCHANGED <<state, chan, queue, age, cproc>>
    BY <2>1, <1>u, <1>n, Constants DEF TypeOK, WithinQuantum, SlotsReady, tickVars
  <2>2. ASSUME NEW p \in Procs, state[p] = "RUNNABLE",
               state' = [state EXCEPT ![p] = "RUNNING"], cproc' = [cproc EXCEPT ![c] = p],
               chan' = [chan EXCEPT ![p] = NoChan], age' = [age EXCEPT ![p] = 0],
               pc' = [pc EXCEPT ![c] = "run"]
        PROVE  WithinQuantum'
    <3>1. curr_ticks[p] = 0 /\ QMax[pqueue[p]] \in Nat
      BY <2>2, Constants DEF WithinQuantum, SlotsReady
    <3> QED BY SMTT(30), <3>1, <2>2, <1>u DEF TypeOK, WithinQuantum, tickVars
  <2> QED BY <2>1, <2>2, <1>a
<1> QED BY <1>1, <1>2, <1>3, <1>4, <1>5, <1>6, <1>7, <1>8, <1>9

-----------------------------------------------------------------------------
(* The theorems *)

\* Initially only init exists, runnable in queue 0.
LEMMA InitInv == Init => IInv
<1> SUFFICES ASSUME Init PROVE IInv
  OBVIOUS
<1> USE DEF Init
<1>1. initproc \in Procs /\ NoProc \notin Procs /\ 0 \in Queues /\ QMax \in [Queues -> Nat]
  BY SMT, ConstAssumption, Constants DEF initproc, Procs
<1>2. TypeOK
  BY SMTT(30), <1>1, ConstAssumption DEF TypeOK, States, PcAll
<1>3. PidsDistinct /\ CpuConsistent /\ NpConsistent /\ SlotsReady
  BY SMTT(30), <1>1, ConstAssumption DEF PidsDistinct, CpuConsistent, NpConsistent, SlotsReady, PcLocked
<1>4. RunnableQueuedOnce
  <2>1. queue[0] = <<initproc>> /\ \A q \in Queues \ {0} : queue[q] = <<>>
    BY <1>1
  <2>2. \A q \in Queues : \A i \in DOMAIN queue[q] : q = 0 /\ i = 1 /\ queue[q][i] = initproc
    BY SMT, <2>1
  <2>3. 1 \in DOMAIN queue[0] /\ queue[0][1] = initproc
    BY SMT, <2>1
  <2> QED BY SMT, <1>1, <2>2, <2>3 DEF RunnableQueuedOnce, OnQueue
<1>5. RunningOnOneCpu /\ FlagOnlyBeforeYield
  BY <1>1 DEF RunningOnOneCpu, FlagOnlyBeforeYield
<1>6. WithinQuantum
  BY <1>1 DEF WithinQuantum
<1> QED BY <1>2, <1>3, <1>4, <1>5, <1>6 DEF IInv

\* Every step keeps the inductive invariant.
LEMMA NextInv == IInv /\ [Next]_vars => IInv'
<1> SUFFICES ASSUME IInv, [Next]_vars PROVE IInv'
  OBVIOUS
<1>1. CASE UNCHANGED vars
  <2>1. /\ state' = state /\ pid' = pid /\ nextpid' = nextpid /\ chan' = chan /\ np' = np
        /\ queue' = queue /\ pqueue' = pqueue /\ age' = age
        /\ curr_ticks' = curr_ticks /\ change_q' = change_q
        /\ cproc' = cproc /\ pc' = pc /\ lock' = lock /\ ai' = ai /\ aj' = aj
    BY <1>1 DEF vars, procVars, queueVars, tickVars, cpuVars
  <2>2. TypeOK' /\ PidsDistinct' /\ CpuConsistent' /\ NpConsistent' /\ SlotsReady'
    BY SMTT(30), <2>1 DEF IInv, TypeOK, PidsDistinct, CpuConsistent, NpConsistent, SlotsReady
  <2>3. RunnableQueuedOnce'
    <3>1. queue' = queue /\ Runnable' = Runnable /\ \A p \in Runnable : pqueue'[p] = pqueue[p]
      BY <2>1 DEF Runnable
    <3>2. Holds(queue', pqueue', Runnable')
      BY <3>1, SameQueues
    <3> QED BY <3>2, HoldsNext
  <2>4. RunningOnOneCpu'
    <3>1. RunningOnOneCpu
      BY DEF IInv
    <3> QED BY <2>1, <3>1 DEF RunningOnOneCpu
  <2>5. FlagOnlyBeforeYield'
    <3>1. FlagOnlyBeforeYield
      BY DEF IInv
    <3> QED BY <2>1, <3>1 DEF FlagOnlyBeforeYield
  <2>6. WithinQuantum'
    <3>1. WithinQuantum
      BY DEF IInv
    <3> QED BY <2>1, <3>1 DEF WithinQuantum
  <2> QED BY <2>2, <2>3, <2>4, <2>5, <2>6 DEF IInv
<1>2. ASSUME NEW c \in Cpus, ProcessStep(c) PROVE IInv'
  BY <1>2, AllocInv, ForkDoneInv, ForkFailInv, SleepInv, ExitWakeInv, WaitInv, JoinInv,
     KillInv, WakeupDevInv DEF ProcessStep
<1>3. ASSUME NEW c \in Cpus, KernelStep(c) PROVE IInv'
  BY <1>3, ExitZombieInv, Wakeup1Inv, WakeupDoneInv, TimerIrqInv, TickWakeupInv, QuantumInv,
     YieldInv, SchedStartInv, AgeStepInv, PickInv DEF KernelStep
<1> QED BY <1>1, <1>2, <1>3 DEF Next

\* The inductive invariant always holds.
LEMMA Invariance == Spec => []IInv
  BY InitInv, NextInv, PTL DEF Spec

\* Every variable keeps its type.
THEOREM TypeCorrect == Spec => []TypeOK
<1>1. IInv => TypeOK
  BY DEF IInv
<1> QED BY <1>1, Invariance, PTL

\* No process is lost from or entered twice in the run queues: at every moment
\* the RUNNABLE processes are exactly those queued, once each, in the queue
\* p->queue names, in spite of the short search in add_proc_to_q.
THEOREM QueuesExact == Spec => []RunnableQueuedOnce
<1>1. IInv => RunnableQueuedOnce
  BY DEF IInv
<1> QED BY <1>1, Invariance, PTL

\* scheduler() never runs one process on two cpus, and a process is RUNNING
\* only while a cpu has it as c->proc.
THEOREM OneCpuEach == Spec => []RunningOnOneCpu
<1>1. IInv => RunningOnOneCpu
  BY DEF IInv
<1> QED BY <1>1, Invariance, PTL

\* change_q never outlives the timer trap that set it.
THEOREM FlagNeverStale == Spec => []FlagOnlyBeforeYield
<1>1. IInv => FlagOnlyBeforeYield
  BY DEF IInv
<1> QED BY <1>1, Invariance, PTL

\* No process runs past the quantum of its queue.
THEOREM QuantumRespected == Spec => []WithinQuantum
<1>1. IInv => WithinQuantum
  BY DEF IInv
<1> QED BY <1>1, Invariance, PTL

-----------------------------------------------------------------------------
(* How processes move between queues *)

\* What QueueMoves needs besides IInv: change_q is set after a full quantum, and
\* allocproc has put the slot that fork fills in into queue 0.
MovesReady ==
  \A p \in Procs :
    /\ change_q[p] => curr_ticks[p] >= QMax[pqueue[p]]
    /\ state[p] = "EMBRYO" => pqueue[p] = 0

\* The moves QueueMoves allows.
Moved(p) ==
  pid'[p] = pid[p] /\ pqueue'[p] # pqueue[p] =>
    \/ /\ pqueue'[p] = pqueue[p] + 1
       /\ state[p] = "RUNNING" /\ curr_ticks[p] >= QMax[pqueue[p]]
    \/ /\ pqueue'[p] = pqueue[p] - 1
       /\ state[p] = "RUNNABLE" /\ age[p] > AgeLimit

\* A process whose change_q is set is RUNNING.
LEMMA FlaggedRuns ==
  ASSUME IInv, NEW p \in Procs, change_q[p]
  PROVE  state[p] = "RUNNING"
BY SMT DEF IInv, FlagOnlyBeforeYield, RunningOnOneCpu

\* add_proc_to_q sets p->queue to the queue it names, or leaves it.
LEMMA AddMoves ==
  ASSUME NEW qs, NEW pq \in [Procs -> Int], NEW p \in Procs, NEW q, add_proc_to_q(qs, pq, p, q)
  PROVE  pqueue' = pq \/ pqueue' = [pq EXCEPT ![p] = q]
BY DEF add_proc_to_q

\* A step that leaves p->queue, flags and pids alone, and the ticks of flagged
\* processes.
LEMMA StaysPut ==
  ASSUME IInv, MovesReady, UNCHANGED <<pqueue, change_q>>,
         \A p \in Procs : state[p] = "RUNNING" => curr_ticks'[p] = curr_ticks[p],
         \A p \in Procs : state'[p] = "EMBRYO" => state[p] = "EMBRYO"
  PROVE  MovesReady' /\ \A p \in Procs : Moved(p)
BY FlaggedRuns DEF MovesReady, Moved

\* wakeup1 and kill put a sleeper into the queue it came from.
LEMMA WokenMoves ==
  ASSUME IInv, MovesReady, NEW r \in Procs, state[r] = "SLEEPING", MakeRunnable(r),
         change_q' = change_q
  PROVE  MovesReady' /\ \A p \in Procs : Moved(p)
<1>1. /\ state' = [state EXCEPT ![r] = "RUNNABLE"] /\ curr_ticks' = [curr_ticks EXCEPT ![r] = 0]
      /\ state \in [Procs -> States] /\ curr_ticks \in [Procs -> Nat] /\ pqueue \in [Procs -> Int]
  BY SMT DEF MakeRunnable, IInv, TypeOK, Queues
<1>2. pqueue' = pqueue
  BY SMT, <1>1, AddMoves DEF MakeRunnable
<1> QED  BY <1>1, <1>2, StaysPut

\* The process picked, if any, becomes RUNNING.
LEMMA PickSets ==
  ASSUME IInv, NEW c \in Cpus, Pick(c)
  PROVE  state' = state \/ \E x \in Procs : state' = [state EXCEPT ![x] = "RUNNING"]
<1>1. CASE Nonempty = {}
  BY <1>1 DEF Pick
<1>2. CASE Nonempty # {}
  <2>1. PICK q \in Nonempty : \/ state' = [state EXCEPT ![queue[q][1]] = "RUNNING"]
                              \/ state' = state
    BY <1>2 DEF Pick
  <2>2. q \in Queues /\ queue[q] # <<>> /\ queue[q] \in Seq(Procs)
    BY DEF Nonempty, IInv, TypeOK
  <2>3. queue[q][1] \in Procs
    BY SMT, <2>2
  <2> QED  BY <2>1, <2>3
<1> QED  BY <1>1, <1>2

\* The operations of a process move no live process to another queue.
LEMMA ProcessMoves ==
  ASSUME IInv, MovesReady, NEW c \in Cpus, ProcessStep(c)
  PROVE  MovesReady' /\ \A p \in Procs : Moved(p)
<1> USE DEF procVars, queueVars, tickVars, cpuVars, LeaveCpu
<1>t. /\ state \in [Procs -> States] /\ curr_ticks \in [Procs -> Nat] /\ pqueue \in [Procs -> Int]
      /\ pid \in [Procs -> Nat] /\ nextpid \in Nat /\ change_q \in [Procs -> BOOLEAN]
  BY SMT DEF IInv, TypeOK, Queues
<1>1. CASE allocproc(c)
  <2>1. PICK s \in Procs :
          /\ state[s] = "UNUSED" /\ state' = [state EXCEPT ![s] = "EMBRYO"]
          /\ pid' = [pid EXCEPT ![s] = nextpid] /\ curr_ticks' = [curr_ticks EXCEPT ![s] = 0]
          /\ pqueue' = [pqueue EXCEPT ![s] = 0] /\ change_q' = change_q
    BY <1>1 DEF allocproc
  <2>2. ~change_q[s] /\ pid'[s] # pid[s]
    BY SMT, <2>1, <1>t, FlaggedRuns DEF IInv, PidsDistinct
  <2>3. MovesReady'
    BY <2>1, <2>2, <1>t DEF MovesReady
  <2> QED  BY <2>1, <2>2, <2>3, <1>t DEF Moved
<1>2. CASE ForkDone(c)
  <2> DEFINE s == np[cproc[c]]
  <2>1. /\ s # NoProc /\ state' = [state EXCEPT ![s] = "RUNNABLE"]
        /\ add_proc_to_q(queue, pqueue, s, 0) /\ UNCHANGED <<pid, curr_ticks, change_q>>
    BY <1>2 DEF ForkDone
  <2>2. s \in Procs /\ state[s] = "EMBRYO"
    BY SMT, <1>2, <2>1, CurrentProc DEF IInv, NpConsistent, TypeOK, ForkDone, Running
  <2> HIDE DEF s
  <2>3. pqueue[s] = 0
    BY <2>2 DEF MovesReady
  <2>4. pqueue' = pqueue
    BY SMT, <2>1, <2>2, <2>3, <1>t, AddMoves
  <2> QED  BY <2>1, <2>2, <2>4, <1>t, StaysPut
<1>3. CASE ForkFail(c)
  BY <1>3, <1>t, StaysPut DEF ForkFail, IInv, TypeOK
<1>4. ASSUME NEW ch \in Chans, sleep(c, ch) PROVE MovesReady' /\ \A p \in Procs : Moved(p)
  BY <1>4, <1>t, StaysPut DEF sleep
<1>5. ASSUME NEW q \in Procs, ExitWake(c, q) PROVE MovesReady' /\ \A p \in Procs : Moved(p)
  <2>1. CASE state[q] = "SLEEPING" /\ chan[q] = "wait"
    BY <1>5, <2>1, WokenMoves DEF ExitWake
  <2>2. CASE ~(state[q] = "SLEEPING" /\ chan[q] = "wait")
    BY <1>5, <2>2, StaysPut DEF ExitWake
  <2> QED  BY <2>1, <2>2
<1>6. ASSUME NEW z \in Procs, wait(c, z) PROVE MovesReady' /\ \A p \in Procs : Moved(p)
  <2>1. /\ state[z] = "ZOMBIE" /\ state' = [state EXCEPT ![z] = "UNUSED"]
        /\ pid' = [pid EXCEPT ![z] = 0] /\ pqueue' = [pqueue EXCEPT ![z] = -1]
        /\ UNCHANGED <<curr_ticks, change_q>>
    BY <1>6 DEF wait
  <2>2. ~change_q[z] /\ pid'[z] # pid[z]
    BY <2>1, <1>t, FlaggedRuns DEF IInv, PidsDistinct
  <2>3. MovesReady'
    BY <2>1, <2>2, <1>t DEF MovesReady
  <2> QED  BY <2>1, <2>2, <2>3, <1>t DEF Moved
<1>7. ASSUME NEW z \in Procs, join(c, z) PROVE MovesReady' /\ \A p \in Procs : Moved(p)
  BY <1>7, <1>t, StaysPut DEF join
<1>8. ASSUME NEW z \in Procs, kill(c, z) PROVE MovesReady' /\ \A p \in Procs : Moved(p)
  BY <1>8, WokenMoves DEF kill
<1>9. CASE WakeupDev(c)
  BY <1>9, StaysPut DEF WakeupDev
<1> QED  BY <1>1, <1>2, <1>3, <1>4, <1>5, <1>6, <1>7, <1>8, <1>9 DEF ProcessStep

\* The timer and the scheduler move a process by its quantum or its age only.
LEMMA KernelMoves ==
  ASSUME IInv, MovesReady, NEW c \in Cpus, KernelStep(c)
  PROVE  MovesReady' /\ \A p \in Procs : Moved(p)
<1> USE DEF procVars, queueVars, tickVars, cpuVars
<1>t. /\ state \in [Procs -> States] /\ curr_ticks \in [Procs -> Nat] /\ pqueue \in [Procs -> Int]
      /\ pid \in [Procs -> Nat] /\ change_q \in [Procs -> BOOLEAN]
  BY SMT DEF IInv, TypeOK, Queues
<1>1. ASSUME NEW orphan \in BOOLEAN, ExitZombie(c, orphan)
      PROVE  MovesReady' /\ \A p \in Procs : Moved(p)
  <2>1. CASE orphan /\ state[initproc] = "SLEEPING" /\ chan[initproc] = "wait"
    <3>1. /\ state' = [state EXCEPT ![cproc[c]] = "ZOMBIE", ![initproc] = "RUNNABLE"]
          /\ curr_ticks' = [curr_ticks EXCEPT ![initproc] = 0] /\ change_q' = change_q
          /\ add_proc_to_q(queue, pqueue, initproc, pqueue[initproc])
      BY <1>1, <2>1 DEF ExitZombie
    <3>2. initproc \in Procs
      BY SMT, ConstAssumption DEF initproc, Procs
    <3>3. pqueue' = pqueue
      BY SMT, <3>1, <3>2, <1>t, AddMoves
    <3>4. \A p \in Procs : state'[p] = "EMBRYO" => state[p] = "EMBRYO"
      BY <3>1, <1>t
    <3>5. \A p \in Procs : state[p] = "RUNNING" => curr_ticks'[p] = curr_ticks[p]
      BY <3>1, <1>t, <2>1
    <3> QED  BY <3>1, <3>3, <3>4, <3>5, StaysPut
  <2>2. CASE ~(orphan /\ state[initproc] = "SLEEPING" /\ chan[initproc] = "wait")
    <3>1. state' = [state EXCEPT ![cproc[c]] = "ZOMBIE"] /\ UNCHANGED <<curr_ticks, pqueue, change_q>>
      BY <1>1, <2>2 DEF ExitZombie
    <3> QED  BY <3>1, <1>t, StaysPut
  <2> QED  BY <2>1, <2>2
<1>2. CASE wakeup1(c)
  <2>1. PICK r \in Sleepers(WakeChan(c)) : MakeRunnable(r) /\ change_q' = change_q
    BY <1>2 DEF wakeup1
  <2> QED  BY <2>1, WokenMoves DEF Sleepers
<1>3. CASE WakeupDone(c) \/ TimerIrq(c) \/ TickWakeup(c) \/ SchedStart(c)
  <2>1. UNCHANGED <<state, pqueue, change_q, curr_ticks>>
    BY <1>3 DEF WakeupDone, TimerIrq, TickWakeup, SchedStart
  <2> QED  BY <2>1, StaysPut
<1>4. CASE Quantum(c)
  <2> DEFINE p == cproc[c]
  <2>1. p \in Procs /\ state[p] = "RUNNING" /\ ~change_q[p]
    <3>1. p \in Procs /\ state[p] = "RUNNING" /\ pc[c] = "quantum"
      BY <1>4, CurrentProc DEF Quantum
    <3>2. \A d \in Cpus : cproc[d] = p => d = c
      BY <3>1, Constants DEF IInv, RunningOnOneCpu
    <3> QED  BY <3>1, <3>2 DEF IInv, FlagOnlyBeforeYield
  <2>2. UNCHANGED <<state, pqueue, pid>>
    BY <1>4 DEF Quantum
  <2> HIDE DEF p
  <2>3. \A x \in Procs : Moved(x)
    BY <2>2 DEF Moved
  <2>4. CASE curr_ticks[p] >= QMax[pqueue[p]]
    <3>1. change_q' = [change_q EXCEPT ![p] = TRUE] /\ curr_ticks' = curr_ticks
      BY <1>4, <2>4 DEF Quantum, p
    <3> QED  BY <3>1, <2>1, <2>2, <2>3, <2>4, <1>t DEF MovesReady
  <2>5. CASE ~(curr_ticks[p] >= QMax[pqueue[p]])
    <3>1. curr_ticks' = [curr_ticks EXCEPT ![p] = @ + 1] /\ change_q' = change_q
      BY <1>4, <2>5 DEF Quantum, p
    <3> QED  BY <3>1, <2>1, <2>2, <2>3, <1>t DEF MovesReady
  <2> QED  BY <2>4, <2>5
<1>5. CASE yield(c)
  <2> DEFINE p == cproc[c]
             q == IF change_q[p] /\ pqueue[p] # NQ-1 THEN pqueue[p] + 1 ELSE pqueue[p]
  <2>1. p \in Procs /\ state[p] = "RUNNING"
    BY <1>5, CurrentProc DEF yield
  <2>2. /\ state' = [state EXCEPT ![p] = "RUNNABLE"] /\ change_q' = [change_q EXCEPT ![p] = FALSE]
        /\ curr_ticks' = [curr_ticks EXCEPT ![p] = 0] /\ pid' = pid
        /\ add_proc_to_q(queue, [pqueue EXCEPT ![p] = q], p, q)
    BY <1>5 DEF yield
  <2>3. q \in Int /\ (q # pqueue[p] => q = pqueue[p] + 1 /\ change_q[p])
    BY SMT, <2>1, <1>t
  <2> HIDE DEF p, q
  <2>4. \/ pqueue' = [pqueue EXCEPT ![p] = q]
        \/ pqueue' = [[pqueue EXCEPT ![p] = q] EXCEPT ![p] = q]
    BY <2>2 DEF add_proc_to_q
  <2>5. pqueue'[p] = q /\ \A x \in Procs \ {p} : pqueue'[x] = pqueue[x]
    BY <2>1, <2>4, <1>t
  <2>6. MovesReady'
    BY <2>1, <2>2, <2>5, <1>t DEF MovesReady
  <2>7. \A x \in Procs : Moved(x)
    BY <2>1, <2>3, <2>5 DEF Moved, MovesReady
  <2> QED  BY <2>6, <2>7
<1>6. CASE AgeStep(c)
  <2>1. UNCHANGED <<state, pid, change_q, curr_ticks>>
    BY <1>6 DEF AgeStep
  <2>2. CASE pqueue' = pqueue
    BY <2>1, <2>2, StaysPut
  <2>3. CASE pqueue' # pqueue
    <3> DEFINE p == queue[ai][aj + 1]
    <3>1. /\ aj < Len(queue[ai]) /\ age[p] > AgeLimit
          /\ add_proc_to_q(remove_proc_from_q(p, ai), pqueue, p, ai - 1)
      BY <1>6, <2>3, SMTT(30) DEF AgeStep
    <3>2. ai \in Queues /\ ai - 1 \in Int
      BY SMT, <1>6, ConstAssumption DEF AgeStep, IInv, CpuConsistent, TypeOK, Queues
    <3>3. queue[ai] \in Seq(Procs) /\ aj \in Nat
      BY <3>2 DEF IInv, TypeOK
    <3>4. aj + 1 \in DOMAIN queue[ai] /\ p \in Procs
      BY SMT, <3>1, <3>3
    <3>5. pqueue[p] = ai /\ state[p] = "RUNNABLE"
      BY SMT, <3>2, <3>4 DEF IInv, RunnableQueuedOnce, OnQueue
    <3> HIDE DEF p
    <3>6. pqueue' = [pqueue EXCEPT ![p] = ai - 1]
      BY SMT, <2>3, <3>1, <3>2, <3>4, <1>t, AddMoves
    <3>7. ~change_q[p]
      BY <3>4, <3>5, FlaggedRuns
    <3>8. MovesReady'
      BY <2>1, <3>4, <3>5, <3>6, <3>7, <1>t DEF MovesReady
    <3>9. \A x \in Procs : Moved(x)
      BY <3>1, <3>4, <3>5, <3>6, <1>t DEF Moved
    <3> QED  BY <3>8, <3>9
  <2> QED  BY <2>2, <2>3
<1>7. CASE Pick(c)
  <2>1. UNCHANGED <<pqueue, change_q, curr_ticks>>
    BY <1>7 DEF Pick
  <2>2. \A x \in Procs : state'[x] = "EMBRYO" => state[x] = "EMBRYO"
    <3>1. state' = state \/ \E x \in Procs : state' = [state EXCEPT ![x] = "RUNNING"]
      BY <1>7, PickSets
    <3> QED  BY <3>1, <1>t
  <2> QED  BY <2>1, <2>2, StaysPut
<1> QED  BY <1>1, <1>2, <1>3, <1>4, <1>5, <1>6, <1>7 DEF KernelStep

\* A live process goes down one queue at a time, after a full quantum only, and up
\* one at a time, after it has waited past AgeLimit only (trap.c's quantum,
\* scheduler()'s aging and the flag change_q between them).
THEOREM MovesJustified == Spec => QueueMoves
<1>1. Init => MovesReady
  BY DEF Init, MovesReady
<1>2. IInv /\ MovesReady /\ [Next]_vars => MovesReady' /\ [\A p \in Procs : Moved(p)]_vars
  <2> SUFFICES ASSUME IInv, MovesReady, [Next]_vars
               PROVE  MovesReady' /\ [\A p \in Procs : Moved(p)]_vars
    OBVIOUS
  <2>1. CASE UNCHANGED vars
    BY <2>1 DEF vars, procVars, queueVars, tickVars, MovesReady
  <2>2. ASSUME NEW c \in Cpus, ProcessStep(c) \/ KernelStep(c)
        PROVE  MovesReady' /\ [\A p \in Procs : Moved(p)]_vars
    BY <2>2, ProcessMoves, KernelMoves
  <2> QED  BY <2>1, <2>2 DEF Next
<1>3. QueueMoves <=> [][\A p \in Procs : Moved(p)]_vars
  BY DEF QueueMoves, Moved
<1> QED  BY <1>1, <1>2, <1>3, Invariance, PTL DEF Spec

-----------------------------------------------------------------------------
(* The order within a queue *)

Injective(s) == \A i, j \in DOMAIN s : s[i] = s[j] => i = j

\* What is in both s and t is in the same order in both.
SameOrder(s, t) ==
  \A i, j \in DOMAIN s : \A k, l \in DOMAIN t :
    i < j /\ t[k] = s[i] /\ t[l] = s[j] => k < l

\* A queue that stays as it is.
LEMMA OrderOfSame ==
  ASSUME NEW s, Injective(s)
  PROVE  SameOrder(s, s)
BY DEF Injective, SameOrder

\* A queue with a process added at its tail.
LEMMA OrderOfAppend ==
  ASSUME NEW s \in Seq(Procs), Injective(s), NEW p \in Procs, \A i \in DOMAIN s : s[i] # p
  PROVE  SameOrder(s, Append(s, p))
<1> DEFINE t == Append(s, p)
<1>1. /\ Len(s) \in Nat /\ DOMAIN s = 1 .. Len(s) /\ DOMAIN t = 1 .. Len(s) + 1
      /\ \A i \in 1 .. Len(s) : t[i] = s[i]
      /\ t[Len(s) + 1] = p
  BY SMT
<1> HIDE DEF t
<1>2. ASSUME NEW i \in DOMAIN s, NEW k \in DOMAIN t, t[k] = s[i]
      PROVE  k = i
  <2>1. k \in DOMAIN s
    BY SMT, <1>1, <1>2
  <2> QED  BY <1>1, <1>2, <2>1 DEF Injective
<1>3. SameOrder(s, t)
  BY <1>2 DEF SameOrder
<1> QED  BY <1>3 DEF t

\* A queue with entry r taken out (remove_proc_from_q).
LEMMA OrderOfShift ==
  ASSUME NEW s \in Seq(Procs), Injective(s), NEW r \in DOMAIN s
  PROVE  SameOrder(s, Shift(s, r))
<1> DEFINE t == Shift(s, r)
<1>1. /\ Len(s) \in Nat /\ DOMAIN s = 1 .. Len(s) /\ DOMAIN t = 1 .. Len(s) - 1
      /\ \A i \in 1 .. Len(s) - 1 : t[i] = IF i < r THEN s[i] ELSE s[i + 1]
  BY SMT DEF Shift
<1> HIDE DEF t
<1>2. ASSUME NEW i \in DOMAIN s, NEW k \in DOMAIN t, t[k] = s[i]
      PROVE  i = IF k < r THEN k ELSE k + 1
  <2>1. k \in DOMAIN s /\ k + 1 \in DOMAIN s
    BY SMT, <1>1
  <2> QED  BY <1>1, <1>2, <2>1 DEF Injective
<1>3. SameOrder(s, t)
  <2> SUFFICES ASSUME NEW i \in DOMAIN s, NEW j \in DOMAIN s, NEW k \in DOMAIN t, NEW l \in DOMAIN t,
                      i < j, t[k] = s[i], t[l] = s[j]
               PROVE  k < l
    BY DEF SameOrder
  <2>1. /\ i = IF k < r THEN k ELSE k + 1
        /\ j = IF l < r THEN l ELSE l + 1
    BY <1>2
  <2> QED  BY SMT, <2>1, <1>1
<1> QED  BY <1>3 DEF t

\* The queues hold their processes once, so doing nothing keeps the order.
LEMMA OrderUnmoved ==
  ASSUME IInv, queue' = queue
  PROVE  \A q \in Queues : SameOrder(queue[q], queue'[q])
<1>1. \A q \in Queues : Injective(queue[q])
  BY DEF IInv, RunnableQueuedOnce, Injective
<1> QED  BY <1>1, OrderOfSame

\* add_proc_to_q puts a process that is on no queue behind all others.
LEMMA OrderAdded ==
  ASSUME PidsDistinct, NEW qs, NEW pq, NEW R \in SUBSET Procs, Holds(qs, pq, R),
         NEW p \in Procs \ R, pid[p] # 0, NEW n \in Queues, NEW ps, add_proc_to_q(qs, ps, p, n)
  PROVE  \A q \in Queues : SameOrder(qs[q], queue'[q]) /\ (q # n => queue'[q] = qs[q])
<1>1. queue' = [qs EXCEPT ![n] = Append(@, p)]
  BY NotQueued DEF add_proc_to_q
<1>2. qs \in [Queues -> Seq(Procs)] /\ \A q \in Queues : Injective(qs[q])
  BY DEF Holds, Injective
<1>3. queue'[n] = Append(qs[n], p) /\ \A q \in Queues \ {n} : queue'[q] = qs[q]
  BY <1>1, <1>2
<1>4. \A i \in DOMAIN qs[n] : qs[n][i] # p
  BY SMT DEF Holds
<1>5. SameOrder(qs[n], Append(qs[n], p))
  BY <1>2, <1>4, OrderOfAppend
<1> QED  BY <1>2, <1>3, <1>5, OrderOfSame

\* remove_proc_from_q of entry k of queue n leaves the others in their order.
LEMMA OrderRemoved ==
  ASSUME IInv, NEW n \in Queues, NEW k \in DOMAIN queue[n], NEW p, p = queue[n][k]
  PROVE  /\ p \in Procs
         /\ remove_proc_from_q(p, n) \in [Queues -> Seq(Procs)]
         /\ \A q \in Queues : /\ SameOrder(queue[q], remove_proc_from_q(p, n)[q])
                              /\ q # n => remove_proc_from_q(p, n)[q] = queue[q]
<1> DEFINE s == queue[n]
<1>1. queue \in [Queues -> Seq(Procs)] /\ \A q \in Queues : Injective(queue[q])
  BY DEF IInv, TypeOK, RunnableQueuedOnce, Injective
<1>2. s \in Seq(Procs) /\ DOMAIN s = 1 .. Len(s) /\ Len(s) \in Nat
  BY SMT, <1>1
<1>3. \A i \in DOMAIN s : s[i] \in Procs /\ pid[s[i]] # 0
  <2>1. \A i \in DOMAIN s : s[i] \in Procs
    BY SMT, <1>2
  <2>2. \A i \in DOMAIN s : state[s[i]] = "RUNNABLE"
    BY <2>1 DEF IInv, RunnableQueuedOnce, OnQueue
  <2> QED  BY <2>1, <2>2 DEF IInv, PidsDistinct
<1>4. \A i \in DOMAIN s : pid[s[i]] = pid[p] => i = k
  BY <1>1, <1>3 DEF IInv, PidsDistinct, Injective
<1>5. FirstIn(s, pid[p]) = k
  <2>1. pid[s[k]] = pid[p] /\ \A j \in DOMAIN s : pid[s[j]] = pid[p] => k <= j
    BY SMT, <1>2, <1>4
  <2> QED  BY <2>1, <1>2, <1>4 DEF FirstIn
<1>6. remove_proc_from_q(p, n) = [queue EXCEPT ![n] = Shift(s, k)]
  BY <1>5, <1>2 DEF remove_proc_from_q
<1>7. SameOrder(s, Shift(s, k))
  BY <1>1, <1>2, OrderOfShift
<1>8. Shift(s, k) \in Seq(Procs)
  <2>1. Len(s) - 1 \in Nat
    BY SMT, <1>2
  <2>2. \A i \in 1 .. Len(s) - 1 : (IF i < k THEN s[i] ELSE s[i + 1]) \in Procs
    BY SMT, <1>2, <1>3
  <2> QED  BY SMT, <2>1, <2>2 DEF Shift
<1>9. p \in Procs
  BY <1>3
<1> HIDE DEF s
<1>10. ASSUME NEW q \in Queues
       PROVE  /\ SameOrder(queue[q], remove_proc_from_q(p, n)[q])
              /\ q # n => remove_proc_from_q(p, n)[q] = queue[q]
  <2>1. CASE q = n
    BY <2>1, <1>1, <1>6, <1>7 DEF s
  <2>2. CASE q # n
    BY <2>2, <1>1, <1>6, OrderOfSame
  <2> QED  BY <2>1, <2>2
<1> QED  BY <1>1, <1>6, <1>8, <1>9, <1>10

\* What the steps of a process and the timer do to the queues: nothing, or the
\* process they make RUNNABLE, which was on no queue, is added.
LEMMA OrderMade ==
  ASSUME IInv, NEW p \in Procs, state[p] \notin {"RUNNABLE", "UNUSED"}, NEW n \in Queues, NEW ps,
         add_proc_to_q(queue, ps, p, n)
  PROVE  \A q \in Queues : SameOrder(queue[q], queue'[q])
<1>1. Holds(queue, pqueue, Runnable) /\ Runnable \in SUBSET Procs /\ p \in Procs \ Runnable
  BY HoldsIff DEF IInv, Runnable
<1>2. PidsDistinct /\ pid[p] # 0
  BY DEF IInv, PidsDistinct
<1> QED  BY <1>1, <1>2, OrderAdded

\* Every step keeps the order within every queue.
LEMMA StepOrder ==
  ASSUME IInv, NEW c \in Cpus, ProcessStep(c) \/ KernelStep(c)
  PROVE  \A q \in Queues : SameOrder(queue[q], queue'[q])
<1> USE DEF procVars, queueVars, tickVars, cpuVars, LeaveCpu
<1>t. /\ \A p \in Procs : state[p] # "UNUSED" => pqueue[p] \in Queues
      /\ 0 \in Queues
  BY Constants DEF IInv, SlotsReady
<1>m. ASSUME NEW r \in Procs, state[r] = "SLEEPING", MakeRunnable(r)
      PROVE  \A q \in Queues : SameOrder(queue[q], queue'[q])
  BY <1>m, <1>t, OrderMade DEF MakeRunnable
<1>1. CASE \/ allocproc(c) \/ ForkFail(c) \/ WakeupDev(c) \/ WakeupDone(c) \/ TimerIrq(c)
           \/ TickWakeup(c) \/ Quantum(c) \/ SchedStart(c)
           \/ \E ch \in Chans : sleep(c, ch)
           \/ \E z \in Procs : join(c, z)
  <2>1. queue' = queue
    BY <1>1 DEF allocproc, ForkFail, WakeupDev, WakeupDone, TimerIrq, TickWakeup, Quantum, SchedStart,
       sleep, join
  <2> QED  BY <2>1, OrderUnmoved
<1>2. CASE ForkDone(c)
  <2>1. np[cproc[c]] # NoProc /\ add_proc_to_q(queue, pqueue, np[cproc[c]], 0)
    BY <1>2 DEF ForkDone
  <2>2. np[cproc[c]] \in Procs /\ state[np[cproc[c]]] = "EMBRYO"
    BY SMT, <1>2, <2>1, CurrentProc DEF IInv, NpConsistent, TypeOK, ForkDone, Running
  <2> QED  BY <2>1, <2>2, <1>t, OrderMade
<1>3. ASSUME NEW r \in Procs, ExitWake(c, r)
      PROVE  \A q \in Queues : SameOrder(queue[q], queue'[q])
  <2>1. CASE state[r] = "SLEEPING" /\ chan[r] = "wait"
    BY <1>3, <2>1, <1>m DEF ExitWake
  <2>2. CASE ~(state[r] = "SLEEPING" /\ chan[r] = "wait")
    BY <1>3, <2>2, OrderUnmoved DEF ExitWake
  <2> QED  BY <2>1, <2>2
<1>4. ASSUME NEW z \in Procs, wait(c, z)
      PROVE  \A q \in Queues : SameOrder(queue[q], queue'[q])
  <2>1. state[z] = "ZOMBIE" /\ queue' = remove_proc_from_q(z, pqueue[z])
    BY <1>4 DEF wait
  <2>2. Holds(queue, pqueue, Runnable) /\ Runnable \in SUBSET Procs /\ z \in Procs \ Runnable
    BY <2>1, HoldsIff DEF IInv, Runnable
  <2>3. PidsDistinct /\ pid[z] # 0 /\ pqueue[z] \in Queues
    BY <2>1, <1>t DEF IInv, PidsDistinct
  <2>4. queue' = queue
    BY <2>1, <2>2, <2>3, RemoveAbsent
  <2> QED  BY <2>4, OrderUnmoved
<1>5. ASSUME NEW z \in Procs, kill(c, z)
      PROVE  \A q \in Queues : SameOrder(queue[q], queue'[q])
  BY <1>5, <1>m DEF kill
<1>6. ASSUME NEW orphan \in BOOLEAN, ExitZombie(c, orphan)
      PROVE  \A q \in Queues : SameOrder(queue[q], queue'[q])
  <2>1. CASE orphan /\ state[initproc] = "SLEEPING" /\ chan[initproc] = "wait"
    <3>1. add_proc_to_q(queue, pqueue, initproc, pqueue[initproc])
      BY <1>6, <2>1 DEF ExitZombie
    <3>2. initproc \in Procs
      BY SMT, ConstAssumption DEF initproc, Procs
    <3> QED  BY <2>1, <3>1, <3>2, <1>t, OrderMade
  <2>2. CASE ~(orphan /\ state[initproc] = "SLEEPING" /\ chan[initproc] = "wait")
    BY <1>6, <2>2, OrderUnmoved DEF ExitZombie
  <2> QED  BY <2>1, <2>2
<1>7. CASE wakeup1(c)
  BY <1>7, <1>m DEF wakeup1, Sleepers
<1>8. CASE yield(c)
  <2> DEFINE p == cproc[c]
             n == IF change_q[p] /\ pqueue[p] # NQ-1 THEN pqueue[p] + 1 ELSE pqueue[p]
  <2>1. p \in Procs /\ state[p] = "RUNNING" /\ pqueue[p] \in Queues
    BY <1>8, CurrentProc DEF yield
  <2>2. n \in Queues
    BY SMT, <2>1, ConstAssumption DEF Queues
  <2>3. add_proc_to_q(queue, [pqueue EXCEPT ![p] = n], p, n)
    BY <1>8 DEF yield
  <2> HIDE DEF p, n
  <2> QED  BY <2>1, <2>2, <2>3, OrderMade
<1>9. CASE AgeStep(c)
  <2>1. CASE queue' = queue
    BY <2>1, OrderUnmoved
  <2>2. CASE queue' # queue
    <3> DEFINE p == queue[ai][aj + 1]
    <3>1. aj < Len(queue[ai]) /\ add_proc_to_q(remove_proc_from_q(p, ai), pqueue, p, ai - 1)
      <4>1. \/ aj < Len(queue[ai]) /\ add_proc_to_q(remove_proc_from_q(p, ai), pqueue, p, ai - 1)
            \/ UNCHANGED queueVars
        BY <1>9 DEF AgeStep
      <4> QED BY <2>2, <4>1 DEF queueVars
    <3>2. ai >= 1 /\ ai < NQ /\ ai \in Nat /\ aj \in Nat
      BY <1>9 DEF AgeStep, IInv, CpuConsistent, TypeOK
    <3>3. ai \in Queues /\ ai - 1 \in Queues /\ ai - 1 # ai
      BY SMT, <3>2, ConstAssumption DEF Queues
    <3>4. queue[ai] \in Seq(Procs)
      BY <3>3 DEF IInv, TypeOK
    <3>5. aj + 1 \in DOMAIN queue[ai]
      BY SMT, <3>1, <3>2, <3>4
    <3>6. Holds(queue, pqueue, Runnable) /\ Runnable \in SUBSET Procs /\ PidsDistinct
      BY HoldsIff DEF IInv, Runnable
    <3>7. \A x \in Runnable : pid[x] # 0
      BY DEF Runnable, IInv, PidsDistinct
    <3> HIDE DEF p
    <3>8. /\ p \in Runnable /\ p \in Procs /\ Holds(remove_proc_from_q(p, ai), pqueue, Runnable \ {p})
      BY <3>3, <3>5, <3>6, <3>7, RemoveHolds DEF p
    <3>9. \A q \in Queues : /\ SameOrder(queue[q], remove_proc_from_q(p, ai)[q])
                            /\ q # ai => remove_proc_from_q(p, ai)[q] = queue[q]
      BY <3>3, <3>5, OrderRemoved DEF p
    <3> DEFINE qs == remove_proc_from_q(p, ai)
               S == Runnable \ {p}
               n == ai - 1
    <3>10. S \in SUBSET Procs /\ p \in Procs \ S /\ pid[p] # 0 /\ n \in Queues /\ n # ai
           /\ Holds(qs, pqueue, S) /\ add_proc_to_q(qs, pqueue, p, n)
      BY <3>1, <3>3, <3>6, <3>7, <3>8
    <3>11. \A q \in Queues : SameOrder(queue[q], qs[q]) /\ (q # ai => qs[q] = queue[q])
      BY <3>9
    <3> HIDE DEF qs, S, n
    <3>12. \A q \in Queues : SameOrder(qs[q], queue'[q]) /\ (q # n => queue'[q] = qs[q])
      BY <3>6, <3>10, OrderAdded
    <3> QED  BY <3>10, <3>11, <3>12
  <2> QED  BY <2>1, <2>2
<1>10. CASE Pick(c)
  <2>1. CASE Nonempty = {}
    BY <1>10, <2>1, OrderUnmoved DEF Pick
  <2>2. CASE Nonempty # {}
    <3>1. PICK n \in Nonempty : queue' = remove_proc_from_q(queue[n][1], n)
      BY <1>10, <2>2 DEF Pick
    <3>2. n \in Queues /\ queue[n] # <<>> /\ queue[n] \in Seq(Procs)
      BY DEF Nonempty, IInv, TypeOK
    <3>3. 1 \in DOMAIN queue[n]
      BY SMT, <3>2
    <3> QED  BY <3>1, <3>2, <3>3, OrderRemoved
  <2> QED  BY <2>1, <2>2
<1> QED  BY <1>1, <1>2, <1>3, <1>4, <1>5, <1>6, <1>7, <1>8, <1>9, <1>10 DEF ProcessStep, KernelStep

\* Two processes that stay in a queue never change places: not when aging takes
\* one out from between them (proc.c:70), nor when one is added behind them.
THEOREM OrderKept == Spec => FifoWithinQueue
<1>1. IInv /\ [Next]_vars => [\A q \in Queues : SameOrder(queue[q], queue'[q])]_vars
  BY StepOrder DEF Next
<1>2. FifoWithinQueue <=> [][\A q \in Queues : SameOrder(queue[q], queue'[q])]_vars
  BY DEF FifoWithinQueue, SameOrder
<1> QED  BY <1>1, <1>2, Invariance, PTL DEF Spec
=============================================================================
