------------------------------ MODULE Threads -------------------------------
(***************************************************************************)
(* Process and thread lifetimes (proc.c): fork, clone, exit, wait, waitx,  *)
(* join, kill, growproc and exec, with the page directories they share.    *)
(*                                                                         *)
(* Which runnable process runs next is left open (Mlfq models that), so    *)
(* RUNNABLE and RUNNING are one state, RUN.  A page directory stands for a *)
(* whole address space; alloc is the set of pages kalloc has handed out    *)
(* for one, and any free page may be handed out next.  The fields of a     *)
(* freed slot keep what the code leaves in them: p->pgdir always, p->pid   *)
(* after a failed fork, p->killed when kill finds the slot.                *)
(***************************************************************************)
EXTENDS Integers, FiniteSets

CONSTANTS
  NPROC,     \* slots of ptable.proc
  Pages,     \* pages for page directories
  NoPage,
  MaxPid,    \* bound: the last pid handed out
  Calls,     \* the system calls the programs make
  Joining    \* programs join their threads before they call exit, wait or exec

ASSUME ThreadsAssumption ==
  /\ NPROC \in Nat \ {0}
  /\ NoPage \notin Pages
  /\ MaxPid \in Nat \ {0}
  /\ Joining \in BOOLEAN

Slots == 0 .. NPROC-1
NoProc == -1
initproc == 0

VARIABLES
  state, pid, tgid, parent, pgdir, kstack, killed,   \* struct proc
  nextpid,              \* and nexttgid, which moves with it
  tpc, np, tid,         \* the call a process is in, its np, join's tid
  alloc,                \* page directories in use
  badfree, victims,     \* history: a free page was freed; pids kill was called with
  cut,                  \* history: a joining program was killed before it joined
  panic

slotVars == <<state, pid, tgid, nextpid, parent, kstack>>
callVars == <<tpc, np, tid>>
memVars == <<pgdir, alloc, badfree>>
killVars == <<killed, victims, cut>>
threadVars == <<slotVars, callVars, memVars, killVars, panic>>

ThreadsInit ==
  /\ state = [p \in Slots |-> IF p = initproc THEN "RUN" ELSE "UNUSED"]
  /\ pid = [p \in Slots |-> IF p = initproc THEN 1 ELSE 0]
  /\ tgid = pid
  /\ nextpid = 2
  /\ parent = [p \in Slots |-> NoProc]
  /\ \E g \in Pages :
       /\ pgdir = [p \in Slots |-> IF p = initproc THEN g ELSE NoPage]
       /\ alloc = {g}
  /\ kstack = [p \in Slots |-> p = initproc]
  /\ killed = [p \in Slots |-> FALSE]
  /\ tpc = [p \in Slots |-> "user"]
  /\ np = [p \in Slots |-> NoProc]
  /\ tid = [p \in Slots |-> 0]
  /\ badfree = FALSE /\ victims = {} /\ cut = FALSE
  /\ panic = "none"

\* p is executing and in call l.
At(p, l) == panic = "none" /\ state[p] = "RUN" /\ tpc[p] = l

\* p makes system call k; trap() lets no killed process in.
Enters(p, k) == At(p, "user") /\ ~killed[p] /\ k \in Calls

\* Other slots in use with p's page directory.
Sharing(p) == {r \in Slots \ {p} : state[r] # "UNUSED" /\ pgdir[r] = pgdir[p]}

\* Threads p made and has not joined.
Unjoined(p) == {r \in Sharing(p) : parent[r] = p}

\* The rule a joining program keeps for the calls that free an address space.
Alone(p) == Joining => Sharing(p) = {}

-----------------------------------------------------------------------------
(* fork and clone *)

\* allocproc up to its release, which leaves killed as it is.
allocproc(p, k) ==
  /\ Enters(p, k)
  /\ nextpid <= MaxPid
  /\ \E s \in Slots :
       /\ state[s] = "UNUSED"
       /\ \A t \in Slots : state[t] = "UNUSED" => s <= t
       /\ state' = [state EXCEPT ![s] = "EMBRYO"]
       /\ pid' = [pid EXCEPT ![s] = nextpid]
       /\ tgid' = [tgid EXCEPT ![s] = nextpid]
       /\ np' = [np EXCEPT ![p] = s]
  /\ nextpid' = nextpid + 1
  /\ tpc' = [tpc EXCEPT ![p] = k]
  /\ UNCHANGED <<parent, kstack, tid, memVars, killVars, panic>>

\* The rest of allocproc: a kernel stack.
AllocKstack(p) ==
  /\ At(p, "fork") \/ At(p, "clone")
  /\ ~kstack[np[p]]
  /\ kstack' = [kstack EXCEPT ![np[p]] = TRUE]
  /\ UNCHANGED <<state, pid, tgid, nextpid, parent, callVars, memVars, killVars, panic>>

\* The call of p fails and returns -1; init exits then, and exit panics.
GiveUp(p) ==
  /\ state' = [state EXCEPT ![np[p]] = "UNUSED"]
  /\ kstack' = [kstack EXCEPT ![np[p]] = FALSE]
  /\ tpc' = [tpc EXCEPT ![p] = "user"]
  /\ np' = [np EXCEPT ![p] = NoProc]
  /\ panic' = IF p = initproc THEN "init exiting" ELSE panic
  /\ UNCHANGED <<pid, tgid, nextpid, parent, tid, alloc, badfree, killVars>>

\* kalloc has no page for the kernel stack.
AllocFail(p) ==
  /\ At(p, "fork") \/ At(p, "clone")
  /\ ~kstack[np[p]]
  /\ GiveUp(p)
  /\ UNCHANGED pgdir

\* The child of p becomes runnable, with page directory g.
Publish(p, g) ==
  /\ kstack[np[p]]
  /\ pgdir' = [pgdir EXCEPT ![np[p]] = g]
  /\ parent' = [parent EXCEPT ![np[p]] = p]
  /\ state' = [state EXCEPT ![np[p]] = "RUN"]
  /\ tpc' = [tpc EXCEPT ![p] = "user", ![np[p]] = "user"]
  /\ np' = [np EXCEPT ![p] = NoProc]
  /\ UNCHANGED <<pid, nextpid, kstack, tid, badfree, killVars, panic>>

fork(p) ==
  /\ At(p, "fork")
  /\ UNCHANGED tgid
  /\ \E g \in Pages \ alloc : Publish(p, g) /\ alloc' = alloc \cup {g}

\* copyuvm finds no memory.
ForkFail(p) ==
  /\ At(p, "fork") /\ kstack[np[p]]
  /\ GiveUp(p)
  /\ pgdir' = [pgdir EXCEPT ![np[p]] = NoPage]

clone(p) ==
  /\ At(p, "clone")
  /\ Publish(p, pgdir[p])
  /\ tgid' = [tgid EXCEPT ![np[p]] = tgid[p]]
  /\ UNCHANGED alloc

-----------------------------------------------------------------------------
(* exit and kill *)

\* The states st after wakeup1(q): only q itself sleeps on its proc pointer.
Woken(st, q) == IF st[q] = "SLEEPING" THEN [st EXCEPT ![q] = "RUN"] ELSE st

\* Mistaken variant: the parent is not woken.
ExitNoWakeup(p) ==
  LET orphans == {r \in Slots : parent[r] = p}
      st == state
      st2 == IF \E r \in orphans : state[r] = "ZOMBIE" THEN Woken(st, initproc) ELSE st IN
  /\ At(p, "user")
  /\ p # initproc
  /\ Joining /\ ~killed[p] => Unjoined(p) = {}
  /\ cut' = (cut \/ (Joining /\ Unjoined(p) # {}))
  /\ state' = [st2 EXCEPT ![p] = "ZOMBIE"]
  /\ parent' = [r \in Slots |-> IF r \in orphans THEN initproc ELSE parent[r]]
  /\ UNCHANGED <<pid, tgid, nextpid, kstack, callVars, memVars, killed, victims, panic>>

\* Mistaken variant: init is not woken for the zombies it inherits.
ExitNoWakeInit(p) ==
  LET orphans == {r \in Slots : parent[r] = p}
      st == Woken(state, parent[p]) IN
  /\ At(p, "user")
  /\ p # initproc
  /\ Joining /\ ~killed[p] => Unjoined(p) = {}
  /\ cut' = (cut \/ (Joining /\ Unjoined(p) # {}))
  /\ state' = [st EXCEPT ![p] = "ZOMBIE"]
  /\ parent' = [r \in Slots |-> IF r \in orphans THEN initproc ELSE parent[r]]
  /\ UNCHANGED <<pid, tgid, nextpid, kstack, callVars, memVars, killed, victims, panic>>

\* exit(): wake the parent, give the children to init, wake init for a zombie.
\* trap() also makes this call for a killed process, whatever threads it has.
exit(p) ==
  LET orphans == {r \in Slots : parent[r] = p}
      st == Woken(state, parent[p])
      st2 == IF \E r \in orphans : state[r] = "ZOMBIE" THEN Woken(st, initproc) ELSE st IN
  /\ At(p, "user")
  /\ p # initproc
  /\ Joining /\ ~killed[p] => Unjoined(p) = {}
  /\ cut' = (cut \/ (Joining /\ Unjoined(p) # {}))
  /\ state' = [st2 EXCEPT ![p] = "ZOMBIE"]
  /\ parent' = [r \in Slots |-> IF r \in orphans THEN initproc ELSE parent[r]]
  /\ UNCHANGED <<pid, tgid, nextpid, kstack, callVars, memVars, killed, victims, panic>>

\* Mistaken variant: a sleeping process is marked and left asleep.
KillNoWake(p, n) ==
  /\ Enters(p, "kill")
  /\ n # pid[initproc]
  /\ victims' = victims \cup {n}
  /\ \E t \in Slots :
       /\ pid[t] = n
       /\ \A s \in Slots : pid[s] = n => t <= s
       /\ killed' = [killed EXCEPT ![t] = TRUE]
  /\ UNCHANGED <<state, pid, tgid, nextpid, parent, kstack, callVars, memVars, cut, panic>>

\* kill(n): the first slot whose pid is n, in use or not.
kill(p, n) ==
  /\ Enters(p, "kill")
  /\ n # pid[initproc]
  /\ victims' = victims \cup {n}
  /\ \E t \in Slots :
       /\ pid[t] = n
       /\ \A s \in Slots : pid[s] = n => t <= s
       /\ killed' = [killed EXCEPT ![t] = TRUE]
       /\ state' = Woken(state, t)
  /\ UNCHANGED <<pid, tgid, nextpid, parent, kstack, callVars, memVars, cut, panic>>

-----------------------------------------------------------------------------
(* wait, waitx and join *)

\* The slots each scan considers.
Matches(p) ==
  CASE tpc[p] = "wait" -> {r \in Slots : parent[r] = p \/ pgdir[r] = pgdir[p]}
    [] tpc[p] = "waitx" -> {r \in Slots : parent[r] = p}
    [] tpc[p] = "join" -> {r \in Slots : parent[r] = p /\ pgdir[r] = pgdir[p] /\ pid[r] = tid[p]}

Zombies(p) == {r \in Matches(p) : state[r] = "ZOMBIE"}

WaitCall(p, k) ==
  /\ Enters(p, k)
  /\ Alone(p)
  /\ tpc' = [tpc EXCEPT ![p] = k]
  /\ UNCHANGED <<slotVars, np, tid, memVars, killVars, panic>>

JoinCall(p, n) ==
  /\ Enters(p, "join")
  /\ tpc' = [tpc EXCEPT ![p] = "join"]
  /\ tid' = [tid EXCEPT ![p] = n]
  /\ UNCHANGED <<slotVars, np, memVars, killVars, panic>>

\* freevm(g).
freevm(g) ==
  /\ alloc' = alloc \ {g}
  /\ badfree' = (badfree \/ g \notin alloc)

Waiting(p) == panic = "none" /\ state[p] = "RUN" /\ tpc[p] \in {"wait", "waitx", "join"}

\* Mistaken variant: join frees the address space too.
ReapAlwaysFree(p) ==
  /\ Waiting(p)
  /\ \E z \in Zombies(p) :
       /\ \A r \in Zombies(p) : z <= r
       /\ kstack' = [kstack EXCEPT ![z] = FALSE]
       /\ freevm(pgdir[z])
       /\ pid' = [pid EXCEPT ![z] = 0]
       /\ tgid' = IF tpc[p] = "wait" THEN [tgid EXCEPT ![z] = 0] ELSE tgid
       /\ parent' = [parent EXCEPT ![z] = NoProc]
       /\ killed' = [killed EXCEPT ![z] = FALSE]
       /\ state' = [state EXCEPT ![z] = "UNUSED"]
  /\ tpc' = [tpc EXCEPT ![p] = "user"]
  /\ tid' = [tid EXCEPT ![p] = 0]
  /\ UNCHANGED <<nextpid, pgdir, np, victims, cut, panic>>

\* The scan finds a zombie and frees it; join keeps the shared address space.
Reap(p) ==
  /\ Waiting(p)
  /\ \E z \in Zombies(p) :
       /\ \A r \in Zombies(p) : z <= r
       /\ kstack' = [kstack EXCEPT ![z] = FALSE]
       /\ IF tpc[p] = "join" THEN UNCHANGED <<alloc, badfree>> ELSE freevm(pgdir[z])
       /\ pid' = [pid EXCEPT ![z] = 0]
       /\ tgid' = IF tpc[p] = "wait" THEN [tgid EXCEPT ![z] = 0] ELSE tgid
       /\ parent' = [parent EXCEPT ![z] = NoProc]
       /\ killed' = [killed EXCEPT ![z] = FALSE]
       /\ state' = [state EXCEPT ![z] = "UNUSED"]
  /\ tpc' = [tpc EXCEPT ![p] = "user"]
  /\ tid' = [tid EXCEPT ![p] = 0]
  /\ UNCHANGED <<nextpid, pgdir, np, victims, cut, panic>>

\* Nothing to wait for, or killed: -1.
WaitFail(p) ==
  /\ Waiting(p)
  /\ Zombies(p) = {}
  /\ Matches(p) = {} \/ killed[p]
  /\ tpc' = [tpc EXCEPT ![p] = "user"]
  /\ tid' = [tid EXCEPT ![p] = 0]
  /\ UNCHANGED <<slotVars, np, memVars, killVars, panic>>

\* sleep(curproc, &ptable.lock).
WaitSleep(p) ==
  /\ Waiting(p)
  /\ Zombies(p) = {}
  /\ Matches(p) # {} /\ ~killed[p]
  /\ state' = [state EXCEPT ![p] = "SLEEPING"]
  /\ UNCHANGED <<pid, tgid, nextpid, parent, kstack, callVars, memVars, killVars, panic>>

-----------------------------------------------------------------------------
(* sbrk and exec *)

\* growproc: switchuvm of every slot with this page directory.
growproc(p) ==
  /\ Enters(p, "sbrk")
  /\ panic' = IF \E r \in Slots : pgdir[r] = pgdir[p] /\ ~kstack[r]
                THEN "no kstack" ELSE panic
  /\ UNCHANGED <<slotVars, callVars, memVars, killVars>>

\* exec: the new image replaces the old, which is freed.
exec(p) ==
  /\ Enters(p, "exec")
  /\ Alone(p)
  /\ \E g \in Pages \ alloc :
       /\ pgdir' = [pgdir EXCEPT ![p] = g]
       /\ alloc' = (alloc \cup {g}) \ {pgdir[p]}
  /\ badfree' = (badfree \/ pgdir[p] \notin alloc)
  /\ UNCHANGED <<slotVars, callVars, killVars, panic>>

-----------------------------------------------------------------------------
\* init.c forks a shell and waits, in a loop that starts with the fork.
InitCalls == {"fork"} \cup (IF nextpid > 2 THEN {"wait"} ELSE {})

ThreadStep(p) ==
  \/ \E k \in {"fork", "clone"} : allocproc(p, k) /\ (p = initproc => k \in InitCalls)
  \/ AllocKstack(p) \/ AllocFail(p)
  \/ fork(p) \/ ForkFail(p) \/ clone(p)
  \/ exit(p)
  \/ \E k \in {"wait", "waitx"} : WaitCall(p, k) /\ (p = initproc => k \in InitCalls)
  \/ Reap(p) \/ WaitFail(p) \/ WaitSleep(p)
  \/ p # initproc /\ \E n \in 0 .. MaxPid : JoinCall(p, n) \/ kill(p, n)
  \/ p # initproc /\ (growproc(p) \/ exec(p))

ThreadsNext == \E p \in Slots : ThreadStep(p)

ThreadsSpec == ThreadsInit /\ [][ThreadsNext]_threadVars

\* Processes get to run, a killed one reaches a trap, and init calls wait again.
Progress(p) ==
  \/ AllocKstack(p) \/ fork(p) \/ clone(p)
  \/ Reap(p) \/ WaitFail(p) \/ WaitSleep(p)
  \/ killed[p] /\ exit(p)
  \/ p = initproc /\ nextpid > 2 /\ WaitCall(p, "wait")

ThreadsFairness == \A p \in Slots : WF_threadVars(Progress(p))

ThreadsFairSpec == ThreadsSpec /\ ThreadsFairness

-----------------------------------------------------------------------------
(* Properties *)

InUse == {p \in Slots : state[p] \in {"RUN", "SLEEPING", "ZOMBIE"}}

\* Every variable keeps its type; kill's marks and pids stay in range.
ThreadsTypeOK ==
  /\ state \in [Slots -> {"UNUSED", "EMBRYO", "SLEEPING", "RUN", "ZOMBIE"}]
  /\ pid \in [Slots -> 0 .. MaxPid] /\ tgid \in [Slots -> 0 .. MaxPid]
  /\ nextpid \in 1 .. MaxPid+1
  /\ parent \in [Slots -> Slots \cup {NoProc}]
  /\ pgdir \in [Slots -> Pages \cup {NoPage}]
  /\ kstack \in [Slots -> BOOLEAN] /\ killed \in [Slots -> BOOLEAN]
  /\ tpc \in [Slots -> {"user", "fork", "clone", "wait", "waitx", "join"}]
  /\ np \in [Slots -> Slots \cup {NoProc}]
  /\ tid \in [Slots -> 0 .. MaxPid]
  /\ alloc \subseteq Pages
  /\ victims \subseteq 0 .. MaxPid
  /\ badfree \in BOOLEAN /\ cut \in BOOLEAN /\ panic \in {"none", "init exiting", "no kstack"}

\* No process outlives its parent's claim on it: exit() hands every child to
\* init, so the parent of a process in use is itself neither exited nor freed.
ParentAlive ==
  \A p \in InUse \ {initproc} :
    parent[p] \in Slots /\ state[parent[p]] \in {"RUN", "SLEEPING"}

\* No exit is lost: who sleeps in wait(), waitx() or join() has not been killed and
\* has no exited process its scan would accept (proc.c:338-425, proc.c:843-885),
\* and the parent of a process in use has neither exited nor been freed; until a
\* program that joins its threads is killed before it has.
SleepsOnlyForNothing ==
  ~cut => /\ ThreadsTypeOK /\ ParentAlive
          /\ \A p \in Slots : state[p] = "SLEEPING" => Zombies(p) = {} /\ ~killed[p]

\* Two processes share an address space exactly when clone() made them threads
\* of one group, through every exec, reap and reuse of a slot.
SharedByThreads ==
  \A p, q \in InUse : pgdir[p] = pgdir[q] <=> tgid[p] = tgid[q]

\* When threads are joined before their address space is given up, the page
\* directories allocated are exactly those of the processes in use: wait(),
\* waitx(), exec() and fork() leak none and free none twice or too early, and
\* only threads of one group share one (proc.c:776-885, exec.c:95-103).  Not so
\* once kill() has made a program exit that had a thread to join (trap.c:42-47,
\* trap.c:98): its parent's wait() frees the space under the thread.
SpacesExact ==
  ~cut => ~badfree /\ alloc = {pgdir[p] : p \in InUse} /\ SharedByThreads

\* A process marked killed was the target of a kill() call (proc.h:50).
KilledByKill ==
  \A p \in InUse : killed[p] => pid[p] \in victims

\* A process asleep in wait() has a child to wait for.
WaiterHasChild ==
  \A p \in Slots \ {initproc} : state[p] = "SLEEPING" /\ tpc[p] = "wait" =>
    \E c \in Slots : parent[c] = p /\ state[c] # "UNUSED"

\* kfree is given only pages that kalloc handed out and nobody freed since.
NoBadFree == ~badfree

\* switchuvm() is never given a slot without a kernel stack.
NoSwitchPanic == panic # "no kstack"

\* An exited process whose parent is init is freed.
OrphansReaped ==
  \A p \in Slots :
    (state[p] = "ZOMBIE" /\ parent[p] = initproc) ~> (state[p] # "ZOMBIE" \/ panic # "none")

\* A killed process exits, also out of the middle of wait(), waitx() or join().
KilledExits ==
  \A p \in Slots :
    (killed[p] /\ state[p] \in {"RUN", "SLEEPING"}) ~>
      (state[p] \in {"ZOMBIE", "UNUSED"} \/ panic # "none")
=============================================================================
