-------------------------------- MODULE Mlfq --------------------------------
(***************************************************************************)
(* The multi-level feedback queue scheduler (proc.c and trap.c built with  *)
(* -D MLFQ, the Makefile's default): the run queues, aging, the quantum    *)
(* and the demotion flag, and every operation on the process table that    *)
(* puts a process on a queue or takes it off.                              *)
(*                                                                         *)
(* A critical section of ptable.lock is one step, or several steps with    *)
(* lock = c where it loops over the table or a queue.  What a process does *)
(* between system calls is left open: a running process may fork, sleep,   *)
(* exit, reap or kill at any time.                                         *)
(*                                                                         *)
(* A queue[q] with its q_tail[q] is a sequence (q_tail = Len - 1).         *)
(* p->enter is kept as its distance from ticks, the only way it is read,   *)
(* saturated just above AgeLimit and kept at 0 off the queues.             *)
(***************************************************************************)
EXTENDS Integers, Sequences

CONSTANTS
  NPROC,      \* slots of ptable.proc
  Cpus,       \* the processors
  Cpu0,       \* the one whose timer interrupt advances ticks
  NoCpu,      \* ptable.lock is free
  NQ,         \* number of queues (5)
  QMax,       \* q_ticks_max (trap.c)
  AgeLimit,   \* 30
  MaxPid      \* bound: the last pid handed out

ASSUME ConstAssumption ==
  /\ NPROC \in Nat \ {0}
  /\ Cpu0 \in Cpus /\ NoCpu \notin Cpus
  /\ NQ \in Nat \ {0}
  /\ QMax \in [0 .. NQ-1 -> Nat]
  /\ AgeLimit \in Nat
  /\ MaxPid \in Nat \ {0}

Procs == 0 .. NPROC-1
NoProc == -1
initproc == 0
Queues == 0 .. NQ-1

\* A sleeper's channel: its own proc pointer (wait, join), &ticks, or any other.
Chans == {"wait", "ticks", "dev"}
NoChan == "none"

States == {"UNUSED", "EMBRYO", "SLEEPING", "RUNNABLE", "RUNNING", "ZOMBIE"}

VARIABLES
  state, pid, nextpid, chan,           \* struct proc, nextpid
  np,                                  \* np[p]: the slot p's fork or clone is filling in
  queue, pqueue, age,                  \* queue and q_tail, p->queue, ticks - p->enter
  curr_ticks, change_q,                \* p->curr_ticks, p->change_q
  cproc, pc,                           \* cpu->proc, and what the cpu is doing
  lock, ai, aj                         \* ptable.lock; i and j of the aging loop

procVars == <<state, pid, nextpid, chan, np>>
queueVars == <<queue, pqueue, age>>
tickVars == <<curr_ticks, change_q>>
cpuVars == <<cproc, pc, lock>>
vars == <<procVars, queueVars, tickVars, cpuVars, ai, aj>>

-----------------------------------------------------------------------------
(* The queue operations *)

\* add_proc_to_q's search stops one entry short of the tail.
Queued(qs, p, q) == \E i \in 1 .. Len(qs[q]) - 1 : pid[qs[q][i]] = pid[p]

\* add_proc_to_q(p, q) applied to the queues qs, with pq the p->queue fields.
add_proc_to_q(qs, pq, p, q) ==
  IF Queued(qs, p, q)
  THEN queue' = qs /\ pqueue' = pq /\ age' = age
  ELSE /\ queue' = [qs EXCEPT ![q] = Append(@, p)]
       /\ pqueue' = [pq EXCEPT ![p] = q]
       /\ age' = [age EXCEPT ![p] = 0]

\* Mistaken Shift: the last entry fills the hole.
ShiftFromTail(s, r) == [i \in 1 .. Len(s) - 1 |-> IF i = r THEN s[Len(s)] ELSE s[i]]

\* The sequence s with entry r dropped and the later ones moved down.
Shift(s, r) == [i \in 1 .. Len(s) - 1 |-> IF i < r THEN s[i] ELSE s[i + 1]]

FirstIn(s, n) ==
  CHOOSE i \in DOMAIN s : pid[s[i]] = n /\ \A j \in DOMAIN s : pid[s[j]] = n => i <= j

\* Mistaken remove_proc_from_q: the search stops one entry short of the tail.
RemoveShortSearch(p, q) ==
  IF \E i \in 1 .. Len(queue[q]) - 1 : pid[queue[q][i]] = pid[p]
  THEN [queue EXCEPT ![q] = Shift(@, FirstIn(@, pid[p]))]
  ELSE queue

remove_proc_from_q(p, q) ==
  IF \E i \in DOMAIN queue[q] : pid[queue[q][i]] = pid[p]
  THEN [queue EXCEPT ![q] = Shift(@, FirstIn(@, pid[p]))]
  ELSE queue

\* Mistaken MakeRunnable: curr_ticks survives the sleep.
MakeRunnableKeepTicks(p) ==
  /\ state' = [state EXCEPT ![p] = "RUNNABLE"]
  /\ UNCHANGED curr_ticks
  /\ add_proc_to_q(queue, pqueue, p, pqueue[p])

\* SLEEPING -> RUNNABLE, as wakeup1 and kill do it.
MakeRunnable(p) ==
  /\ state' = [state EXCEPT ![p] = "RUNNABLE"]
  /\ curr_ticks' = [curr_ticks EXCEPT ![p] = 0]
  /\ add_proc_to_q(queue, pqueue, p, pqueue[p])

-----------------------------------------------------------------------------
Init ==
  /\ state = [p \in Procs |-> IF p = initproc THEN "RUNNABLE" ELSE "UNUSED"]
  /\ pid = [p \in Procs |-> IF p = initproc THEN 1 ELSE 0]
  /\ nextpid = 2
  /\ chan = [p \in Procs |-> NoChan]
  /\ np = [p \in Procs |-> NoProc]
  /\ queue = [q \in Queues |-> IF q = 0 THEN <<initproc>> ELSE <<>>]
  /\ pqueue = [p \in Procs |-> 0]
  /\ age = [p \in Procs |-> 0]
  /\ curr_ticks = [p \in Procs |-> 0]
  /\ change_q = [p \in Procs |-> FALSE]
  /\ cproc = [c \in Cpus |-> NoProc]
  /\ pc = [c \in Cpus |-> "sched"]
  /\ lock = NoCpu
  /\ ai = 0 /\ aj = 0

\* A process is executing on c and may enter the kernel for a new operation.
Running(c) == pc[c] = "run" /\ lock = NoCpu

InKernel(c) == pc[c] \in {"run", "quantum"} /\ lock = NoCpu

Goto(c, l) == pc' = [pc EXCEPT ![c] = l]

\* Mistaken LeaveCpu: c->proc is not cleared.
LeaveCpuKeepProc(c) == UNCHANGED cproc /\ Goto(c, "sched") /\ lock' = NoCpu

\* Back in scheduler() after swtch, which releases the lock and loops.
LeaveCpu(c) ==
  /\ cproc' = [cproc EXCEPT ![c] = NoProc]
  /\ Goto(c, "sched")
  /\ lock' = NoCpu

-----------------------------------------------------------------------------
(* Process operations *)

\* allocproc, called by fork and clone.
allocproc(c) ==
  LET p == cproc[c] IN
  /\ Running(c)
  /\ np[p] = NoProc
  /\ nextpid <= MaxPid
  /\ \E s \in Procs :
       /\ state[s] = "UNUSED"
       /\ \A t \in Procs : state[t] = "UNUSED" => s <= t
       /\ state' = [state EXCEPT ![s] = "EMBRYO"]
       /\ pid' = [pid EXCEPT ![s] = nextpid]
       /\ np' = [np EXCEPT ![p] = s]
       /\ curr_ticks' = [curr_ticks EXCEPT ![s] = 0]
       /\ pqueue' = [pqueue EXCEPT ![s] = 0]
  /\ nextpid' = nextpid + 1
  /\ UNCHANGED <<chan, queue, age, change_q, cpuVars, ai, aj>>

\* fork and clone make the child runnable, in queue 0.
ForkDone(c) ==
  LET p == cproc[c] IN
  /\ Running(c)
  /\ np[p] # NoProc
  /\ state' = [state EXCEPT ![np[p]] = "RUNNABLE"]
  /\ np' = [np EXCEPT ![p] = NoProc]
  /\ add_proc_to_q(queue, pqueue, np[p], 0)
  /\ UNCHANGED <<pid, nextpid, chan, tickVars, cpuVars, ai, aj>>

\* No memory for the kernel stack or the page table: the slot is given back.
ForkFail(c) ==
  LET p == cproc[c] IN
  /\ pc[c] = "run"
  /\ np[p] # NoProc
  /\ state' = [state EXCEPT ![np[p]] = "UNUSED"]
  /\ np' = [np EXCEPT ![p] = NoProc]
  /\ UNCHANGED <<pid, nextpid, chan, queueVars, tickVars, cpuVars, ai, aj>>

\* sleep(): the process leaves the cpu and is put on no queue.  A process killed
\* in user mode sleeps, and exits, from inside the timer trap.
sleep(c, ch) ==
  LET p == cproc[c] IN
  /\ InKernel(c)
  /\ np[p] = NoProc
  /\ state' = [state EXCEPT ![p] = "SLEEPING"]
  /\ chan' = [chan EXCEPT ![p] = ch]
  /\ LeaveCpu(c)
  /\ UNCHANGED <<pid, nextpid, np, queueVars, tickVars, ai, aj>>

\* exit(), first part: wakeup1(curproc->parent), with q the parent.
ExitWake(c, q) ==
  LET p == cproc[c] IN
  /\ InKernel(c)
  /\ p \notin {initproc, q}
  /\ np[p] = NoProc
  /\ lock' = c
  /\ Goto(c, "exit")
  /\ IF state[q] = "SLEEPING" /\ chan[q] = "wait"
     THEN MakeRunnable(q)
     ELSE UNCHANGED <<state, curr_ticks, queueVars>>
  /\ UNCHANGED <<pid, nextpid, chan, np, change_q, cproc, ai, aj>>

\* exit(), second part: an orphaned zombie (orphan) is a reason to wake init;
\* then the process becomes a zombie and leaves the cpu.
ExitZombie(c, orphan) ==
  LET p == cproc[c]
      wake == orphan /\ state[initproc] = "SLEEPING" /\ chan[initproc] = "wait" IN
  /\ pc[c] = "exit"
  /\ IF wake
     THEN /\ state' = [state EXCEPT ![p] = "ZOMBIE", ![initproc] = "RUNNABLE"]
          /\ curr_ticks' = [curr_ticks EXCEPT ![initproc] = 0]
          /\ add_proc_to_q(queue, pqueue, initproc, pqueue[initproc])
     ELSE /\ state' = [state EXCEPT ![p] = "ZOMBIE"]
          /\ UNCHANGED <<curr_ticks, queueVars>>
  /\ LeaveCpu(c)
  /\ UNCHANGED <<pid, nextpid, chan, np, change_q, ai, aj>>

\* wait and waitx free the zombie z.
wait(c, z) ==
  /\ Running(c)
  /\ np[cproc[c]] = NoProc
  /\ state[z] = "ZOMBIE"
  /\ queue' = remove_proc_from_q(z, pqueue[z])
  /\ pqueue' = [pqueue EXCEPT ![z] = -1]
  /\ pid' = [pid EXCEPT ![z] = 0]
  /\ state' = [state EXCEPT ![z] = "UNUSED"]
  /\ UNCHANGED <<nextpid, chan, np, age, tickVars, cpuVars, ai, aj>>

\* join frees the zombie thread z and leaves the queues alone.
join(c, z) ==
  /\ Running(c)
  /\ np[cproc[c]] = NoProc
  /\ state[z] = "ZOMBIE"
  /\ pid' = [pid EXCEPT ![z] = 0]
  /\ state' = [state EXCEPT ![z] = "UNUSED"]
  /\ UNCHANGED <<nextpid, chan, np, queueVars, tickVars, cpuVars, ai, aj>>

\* kill(pid[t]) of a sleeping process; kill changes no other scheduling state.
kill(c, t) ==
  /\ Running(c)
  /\ np[cproc[c]] = NoProc
  /\ state[t] = "SLEEPING"
  /\ \A s \in Procs : pid[s] = pid[t] => t <= s
  /\ MakeRunnable(t)
  /\ UNCHANGED <<pid, nextpid, chan, np, change_q, cpuVars, ai, aj>>

-----------------------------------------------------------------------------
(* wakeup(chan): the loop of wakeup1, one sleeper at a time *)

Sleepers(ch) == {p \in Procs : state[p] = "SLEEPING" /\ chan[p] = ch}

WakeChan(c) == IF pc[c] = "wakeTicks" THEN "ticks" ELSE "dev"

\* wakeup(chan) by a process in the kernel or by a device interrupt.
WakeupDev(c) ==
  /\ pc[c] \in {"run", "sched"} /\ lock = NoCpu
  /\ lock' = c
  /\ Goto(c, "wakeDev")
  /\ UNCHANGED <<procVars, queueVars, tickVars, cproc, ai, aj>>

wakeup1(c) ==
  /\ pc[c] \in {"wakeDev", "wakeTicks"}
  /\ \E p \in Sleepers(WakeChan(c)) :
       /\ \A r \in Sleepers(WakeChan(c)) : p <= r
       /\ MakeRunnable(p)
  /\ UNCHANGED <<pid, nextpid, chan, np, change_q, cpuVars, ai, aj>>

WakeupDone(c) ==
  /\ pc[c] \in {"wakeDev", "wakeTicks"}
  /\ Sleepers(WakeChan(c)) = {}
  /\ lock' = NoCpu
  /\ Goto(c, IF cproc[c] = NoProc THEN "sched"
             ELSE IF pc[c] = "wakeTicks" THEN "quantum" ELSE "run")
  /\ UNCHANGED <<procVars, queueVars, tickVars, cproc, ai, aj>>

-----------------------------------------------------------------------------
(* trap(): the timer interrupt *)

OnQueue(p) == \E q \in Queues : \E i \in DOMAIN queue[q] : queue[q][i] = p

\* Taken with interrupts on: in user code, in the kernel outside locks, or at
\* the top of scheduler().  On Cpu0 it advances ticks.
TimerIrq(c) ==
  /\ pc[c] \in {"run", "sched"}
  /\ IF c = Cpu0
     THEN /\ age' = [p \in Procs |->
                       IF OnQueue(p) /\ age[p] <= AgeLimit THEN age[p] + 1 ELSE age[p]]
          /\ Goto(c, "tick")
     ELSE /\ cproc[c] # NoProc
          /\ Goto(c, "quantum")
          /\ UNCHANGED age
  /\ UNCHANGED <<procVars, queue, pqueue, tickVars, cproc, lock, ai, aj>>

\* wakeup(&ticks).
TickWakeup(c) ==
  /\ pc[c] = "tick" /\ lock = NoCpu
  /\ lock' = c
  /\ Goto(c, "wakeTicks")
  /\ UNCHANGED <<procVars, queueVars, tickVars, cproc, ai, aj>>

\* Mistaken Quantum: one tick early.
QuantumEarly(c) ==
  LET p == cproc[c] IN
  /\ pc[c] = "quantum" /\ lock = NoCpu
  /\ IF curr_ticks[p] + 1 >= QMax[pqueue[p]]
     THEN /\ change_q' = [change_q EXCEPT ![p] = TRUE]
          /\ Goto(c, "yield")
          /\ UNCHANGED curr_ticks
     ELSE /\ curr_ticks' = [curr_ticks EXCEPT ![p] = @ + 1]
          /\ Goto(c, "run")
          /\ UNCHANGED change_q
  /\ UNCHANGED <<procVars, queueVars, cproc, lock, ai, aj>>

\* Quantum used up: change_q_flag and on to yield; otherwise incr_curr_ticks.
Quantum(c) ==
  LET p == cproc[c] IN
  /\ pc[c] = "quantum" /\ lock = NoCpu
  /\ IF curr_ticks[p] >= QMax[pqueue[p]]
     THEN /\ change_q' = [change_q EXCEPT ![p] = TRUE]
          /\ Goto(c, "yield")
          /\ UNCHANGED curr_ticks
     ELSE /\ curr_ticks' = [curr_ticks EXCEPT ![p] = @ + 1]
          /\ Goto(c, "run")
          /\ UNCHANGED change_q
  /\ UNCHANGED <<procVars, queueVars, cproc, lock, ai, aj>>

\* yield(), and scheduler() putting the process back, one queue down if flagged.
yield(c) ==
  LET p == cproc[c]
      q == IF change_q[p] /\ pqueue[p] # NQ-1 THEN pqueue[p] + 1 ELSE pqueue[p] IN
  /\ pc[c] = "yield" /\ lock = NoCpu
  /\ state' = [state EXCEPT ![p] = "RUNNABLE"]
  /\ change_q' = [change_q EXCEPT ![p] = FALSE]
  /\ curr_ticks' = [curr_ticks EXCEPT ![p] = 0]
  /\ add_proc_to_q(queue, [pqueue EXCEPT ![p] = q], p, q)
  /\ LeaveCpu(c)
  /\ UNCHANGED <<pid, nextpid, chan, np, ai, aj>>

-----------------------------------------------------------------------------
(* scheduler() *)

SchedStart(c) ==
  /\ pc[c] = "sched" /\ lock = NoCpu
  /\ lock' = c
  /\ Goto(c, "age")
  /\ ai' = 1 /\ aj' = 0
  /\ UNCHANGED <<procVars, queueVars, tickVars, cproc>>

\* Mistaken AgeStep: nothing is ever promoted.
AgeStepNever(c) ==
  /\ pc[c] = "age"
  /\ ai < NQ
  /\ IF aj < Len(queue[ai]) THEN aj' = aj + 1 /\ ai' = ai ELSE ai' = ai + 1 /\ aj' = 0
  /\ UNCHANGED <<procVars, queueVars, tickVars, cpuVars>>

\* One iteration of the aging loop, or the step to the next queue.  Promoting
\* entry j moves entry j+1 into its place, and j++ then passes over it.
AgeStep(c) ==
  /\ pc[c] = "age"
  /\ ai < NQ
  /\ IF aj < Len(queue[ai])
     THEN LET p == queue[ai][aj + 1] IN
          /\ aj' = aj + 1 /\ ai' = ai
          /\ IF age[p] > AgeLimit
             THEN add_proc_to_q(remove_proc_from_q(p, ai), pqueue, p, ai - 1)
             ELSE UNCHANGED queueVars
     ELSE ai' = ai + 1 /\ aj' = 0 /\ UNCHANGED queueVars
  /\ UNCHANGED <<procVars, tickVars, cpuVars>>

Nonempty == {q \in Queues : queue[q] # <<>>}

\* The head of the first nonempty queue is taken off it and, if RUNNABLE, run.
\* The lock is released by scheduler() or by the process switched to, where
\* sleep() first clears p->chan.
Pick(c) ==
  /\ pc[c] = "age"
  /\ ai >= NQ
  /\ lock' = NoCpu
  /\ ai' = 0 /\ aj' = 0
  /\ IF Nonempty = {}
     THEN Goto(c, "sched") /\ UNCHANGED <<state, chan, queue, age, cproc>>
     ELSE \E q \in Nonempty :
          LET p == queue[q][1] IN
          /\ \A r \in Nonempty : q <= r
          /\ queue' = remove_proc_from_q(p, q)
          /\ age' = [age EXCEPT ![p] = 0]
          /\ IF state[p] = "RUNNABLE"
             THEN /\ state' = [state EXCEPT ![p] = "RUNNING"]
                  /\ cproc' = [cproc EXCEPT ![c] = p]
                  /\ chan' = [chan EXCEPT ![p] = NoChan]
                  /\ Goto(c, "run")
             ELSE Goto(c, "sched") /\ UNCHANGED <<state, chan, cproc>>
  /\ UNCHANGED <<pid, nextpid, np, pqueue, tickVars>>

-----------------------------------------------------------------------------
ProcessStep(c) ==
  \/ allocproc(c) \/ ForkDone(c) \/ ForkFail(c)
  \/ \E ch \in Chans : sleep(c, ch)
  \/ \E q \in Procs : ExitWake(c, q)
  \/ \E z \in Procs : wait(c, z) \/ join(c, z) \/ kill(c, z)
  \/ WakeupDev(c)

KernelStep(c) ==
  \/ \E orphan \in BOOLEAN : ExitZombie(c, orphan)
  \/ wakeup1(c) \/ WakeupDone(c)
  \/ TimerIrq(c) \/ TickWakeup(c) \/ Quantum(c) \/ yield(c)
  \/ SchedStart(c) \/ AgeStep(c) \/ Pick(c)

Next == \E c \in Cpus : ProcessStep(c) \/ KernelStep(c)

Spec == Init /\ [][Next]_vars

\* Kernel code runs to the end of what it is doing.
Progress(c) ==
  \/ \E orphan \in BOOLEAN : ExitZombie(c, orphan)
  \/ wakeup1(c) \/ WakeupDone(c)
  \/ TickWakeup(c) \/ Quantum(c) \/ yield(c)
  \/ AgeStep(c) \/ Pick(c)

\* The timer interrupts forever, a pending interrupt being taken once interrupts
\* are on, and scheduler() gets past sti() in spite of the interrupts there.
Fairness ==
  \A c \in Cpus : WF_vars(Progress(c)) /\ SF_vars(TimerIrq(c)) /\ SF_vars(SchedStart(c))

FairSpec == Spec /\ Fairness

-----------------------------------------------------------------------------
(* Properties *)

PcLocked == {"exit", "wakeDev", "wakeTicks", "age"}
PcAll == PcLocked \cup {"sched", "run", "tick", "quantum", "yield"}

\* Every variable has its type; p->queue is -1 only in a slot freed by wait.
TypeOK ==
  /\ state \in [Procs -> States]
  /\ pid \in [Procs -> Nat]
  /\ nextpid \in Nat
  /\ chan \in [Procs -> Chans \cup {NoChan}]
  /\ np \in [Procs -> Procs \cup {NoProc}]
  /\ queue \in [Queues -> Seq(Procs)]
  /\ pqueue \in [Procs -> Queues \cup {-1}]
  /\ age \in [Procs -> 0 .. AgeLimit + 1]
  /\ curr_ticks \in [Procs -> Nat]
  /\ change_q \in [Procs -> BOOLEAN]
  /\ cproc \in [Cpus -> Procs \cup {NoProc}]
  /\ pc \in [Cpus -> PcAll]
  /\ lock \in Cpus \cup {NoCpu}
  /\ ai \in Nat /\ aj \in Nat

\* A process is on a run queue exactly when it is RUNNABLE, once, and in the
\* queue its p->queue names: no wakeup, kill, yield or aging step loses a
\* process or enters it twice, though add_proc_to_q's own search for a
\* duplicate misses the last entry (proc.c:41).
RunnableQueuedOnce ==
  /\ \A p \in Procs : state[p] = "RUNNABLE" <=> OnQueue(p)
  /\ \A q \in Queues : \A i \in DOMAIN queue[q] :
       /\ pqueue[queue[q][i]] = q
       /\ \A j \in DOMAIN queue[q] : queue[q][i] = queue[q][j] => i = j

\* A process is RUNNING exactly when it is the current process of one cpu:
\* scheduler() never runs one process on two cpus (c->proc, proc.c:521).
RunningOnOneCpu ==
  /\ \A p \in Procs : state[p] = "RUNNING" <=> \E c \in Cpus : cproc[c] = p
  /\ \A c, d \in Cpus : cproc[c] = cproc[d] /\ cproc[c] # NoProc => c = d

\* change_q is set only from change_q_flag to the yield that follows it in
\* trap(): no process is demoted for a quantum another life of its slot used up
\* (allocproc does not reset the flag) or one it used before it slept.
FlagOnlyBeforeYield ==
  \A p \in Procs : change_q[p] => \E c \in Cpus : cproc[c] = p /\ pc[c] = "yield"

\* No process runs past its quantum: curr_ticks stays within q_ticks_max of the
\* process's queue while it runs and starts from 0 whenever it is queued.
WithinQuantum ==
  \A p \in Procs :
    /\ state[p] = "RUNNING" => curr_ticks[p] <= QMax[pqueue[p]]
    /\ state[p] = "RUNNABLE" => curr_ticks[p] = 0

\* A live process moves down one queue at a time, and only after a full quantum;
\* it moves up one queue at a time, and only when it has waited past AgeLimit.
QueueMoves ==
  [][\A p \in Procs :
       pid'[p] = pid[p] /\ pqueue'[p] # pqueue[p] =>
         \/ /\ pqueue'[p] = pqueue[p] + 1
            /\ state[p] = "RUNNING" /\ curr_ticks[p] >= QMax[pqueue[p]]
         \/ /\ pqueue'[p] = pqueue[p] - 1
            /\ state[p] = "RUNNABLE" /\ age[p] > AgeLimit]_vars

\* Two processes that stay in one queue keep their order: removal from the
\* middle of a queue (aging, proc.c:70) never lets one overtake another.
FifoWithinQueue ==
  [][\A q \in Queues : \A i, j \in DOMAIN queue[q] :
       \A k, l \in DOMAIN queue'[q] :
         i < j /\ queue'[q][k] = queue[q][i] /\ queue'[q][l] = queue[q][j] => k < l]_vars

\* Every runnable process is eventually run, whatever the others do: higher
\* queues cannot starve lower ones because of aging (proc.c:490-502).
StarvationFree ==
  \A p \in Procs : state[p] = "RUNNABLE" ~> state[p] = "RUNNING"
=============================================================================
