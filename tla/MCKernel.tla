------------------------------ MODULE MCKernel ------------------------------
(***************************************************************************)
(* Three tables of the kernel, for TLC: the buffer cache with its disk,    *)
(* the log, and the process table with its threads.  They are checked side *)
(* by side, one of them (part) in each behavior; in the others the cache   *)
(* and the log stay as they start, and the process table as it is before   *)
(* userinit.  The cache has two parts: "bcache", where two processes at a  *)
(* time write different contents, and "queue", where three at a time       *)
(* compete for the buffers and write what the blocks hold.                 *)
(***************************************************************************)
EXTENDS Bcache, Log, Threads, TLC

VARIABLE part

\* The cache's processes are interchangeable, and so are the pages; the blocks are
\* not: one is a block of the log, one an indirect block.
Symmetry == Permutations(Clients) \cup Permutations(Pages)

\* Bounds: processes in the cache at a time when contents change, and blocks whose
\* contents differ from the first ones; calls of kill.
MaxWriters == 2
MaxChanged == 1
MaxKills == 1

EmptyTable ==
  /\ state = [p \in Slots |-> "UNUSED"]
  /\ pid = [p \in Slots |-> 0] /\ tgid = pid /\ nextpid = 1
  /\ parent = [p \in Slots |-> NoProc]
  /\ pgdir = [p \in Slots |-> NoPage] /\ alloc = {}
  /\ kstack = [p \in Slots |-> FALSE] /\ killed = [p \in Slots |-> FALSE]
  /\ tpc = [p \in Slots |-> "user"] /\ np = [p \in Slots |-> NoProc]
  /\ tid = [p \in Slots |-> 0]
  /\ badfree = FALSE /\ victims = {} /\ cut = FALSE /\ panic = "none"

KernelInit ==
  /\ part \in {"bcache", "queue", "log", "procs"}
  /\ BcacheInit /\ Init
  /\ sent = 0 /\ bdisk = [b \in Bnos |-> 0]
  /\ part # "log" => disk[1] = 0
  /\ IF part = "procs" THEN ThreadsInit ELSE EmptyTable

CacheNext ==
  /\ BcacheNext
  /\ IF part = "queue" THEN content' = content
     ELSE /\ Cardinality({p \in Clients : bpc'[p] # "idle"}) <= MaxWriters
          /\ Cardinality({n \in Bnos : content'[n] # 0}) <= MaxChanged

\* What follows the forced exit of a program with threads is not explored.
TableNext ==
  /\ ~cut
  /\ ThreadsNext
  /\ Cardinality(victims') <= MaxKills

KernelNext ==
  /\ part' = part
  /\ \/ part \in {"bcache", "queue"} /\ CacheNext /\ UNCHANGED <<vars, threadVars>>
     \/ part = "log" /\ Next /\ UNCHANGED <<bcacheVars, threadVars>>
     \/ part = "procs" /\ TableNext /\ UNCHANGED <<bcacheVars, vars>>

KernelSpec == KernelInit /\ [][KernelNext]_<<part, bcacheVars, vars, threadVars>>
=============================================================================
