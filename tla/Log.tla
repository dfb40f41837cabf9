-------------------------------- MODULE Log ---------------------------------
(***************************************************************************)
(* The redo log (log.c) under concurrent file system operations and        *)
(* crashes at any point, recovery included.                                *)
(*                                                                         *)
(* Disk addresses count from log.start: the header is block 0 (hdr), log   *)
(* block k is address k for k < SIZE, and the blocks of the file system    *)
(* follow from address SIZE, as mkfs.c lays them out.  One bwrite is one   *)
(* step; BSIZE is one sector, so a write happens whole or not at all.      *)
(*                                                                         *)
(* A process holds the buffer it modifies (a sleep lock, from bread to     *)
(* brelse) until log_write has marked it B_DIRTY; clean buffers nobody     *)
(* holds may be evicted and read again at any time (bio.c).                *)
(***************************************************************************)
EXTENDS Integers, Sequences, FiniteSets

CONSTANTS
  Procs,         \* processes that make file system calls
  Vals,          \* contents of a block
  NBLOCKS,       \* bound: number of file system blocks
  SIZE,          \* log.size = sb.nlog: the blocks of the log, header included
  LOGSIZE,
  MAXOPBLOCKS,
  OpWrites,      \* the most blocks one operation writes
  NoBlock

ASSUME LogAssumption ==
  /\ IsFiniteSet(Procs)
  /\ NBLOCKS \in Nat \ {0}
  /\ SIZE \in Nat \ {0} /\ LOGSIZE \in Nat
  /\ MAXOPBLOCKS \in Nat /\ MAXOPBLOCKS <= LOGSIZE
  /\ OpWrites \in Nat
  /\ NoBlock \notin SIZE .. SIZE + NBLOCKS - 1

Blocks == SIZE .. SIZE + NBLOCKS - 1
Addrs == 1 .. SIZE + NBLOCKS - 1

VARIABLES
  hdr, disk,                       \* the disk: log header, and all other blocks
  cache, dirty,                    \* buffer contents; blocks whose buffer is B_DIRTY
  lh, outstanding, committing,     \* struct log (lh.n is Len(lh))
  pc, wrote, held,                 \* per process: where it is, the blocks it wrote, its buffer
  phase, tail,                     \* progress of commit or recovery
  panicked

diskVars == <<hdr, disk>>
cacheVars == <<cache, dirty>>
logVars == <<lh, outstanding, committing>>
procVars == <<pc, wrote, held>>
commitVars == <<phase, tail>>
vars == <<diskVars, cacheVars, logVars, procVars, commitVars, panicked>>

\* The content of block b if the machine stopped now and recovered.
Recovered(b) ==
  IF \E i \in DOMAIN hdr : hdr[i] = b
  THEN disk[CHOOSE i \in DOMAIN hdr : hdr[i] = b /\ \A j \in DOMAIN hdr : hdr[j] = b => j <= i]
  ELSE disk[b]

Init ==
  /\ hdr = <<>>
  /\ \E v \in Vals : disk = [a \in Addrs |-> v]
  /\ cache = [b \in Blocks |-> disk[b]]
  /\ dirty = {}
  /\ lh = <<>> /\ outstanding = 0 /\ committing = FALSE
  /\ pc = [p \in Procs |-> "user"]
  /\ wrote = [p \in Procs |-> {}]
  /\ held = [p \in Procs |-> NoBlock]
  /\ phase = "idle" /\ tail = 0
  /\ panicked = FALSE

\* The kernel is up: not halted by panic, and initlog has returned.
Up == ~panicked /\ phase # "recInstall"

-----------------------------------------------------------------------------
(* begin_op, log_write, end_op *)

\* wakeup(&log), with pcs the processes' positions.
Wakeup(pcs) == [p \in Procs |-> IF pcs[p] = "asleep" THEN "begin" ELSE pcs[p]]

\* Mistaken begin_op: the calls already in are not reserved for.
BeginOpNoReserve(p) ==
  /\ Up
  /\ pc[p] \in {"user", "begin"}
  /\ IF committing \/ Len(lh) + MAXOPBLOCKS > LOGSIZE
     THEN pc' = [pc EXCEPT ![p] = "asleep"] /\ UNCHANGED outstanding
     ELSE /\ outstanding' = outstanding + 1
          /\ pc' = [pc EXCEPT ![p] = "op"]
  /\ UNCHANGED <<diskVars, cacheVars, lh, committing, wrote, held, commitVars, panicked>>

\* One pass of begin_op's loop: in, or to sleep on &log.
begin_op(p) ==
  /\ Up
  /\ pc[p] \in {"user", "begin"}
  /\ IF committing \/ Len(lh) + (outstanding + 1) * MAXOPBLOCKS > LOGSIZE
     THEN pc' = [pc EXCEPT ![p] = "asleep"] /\ UNCHANGED outstanding
     ELSE /\ outstanding' = outstanding + 1
          /\ pc' = [pc EXCEPT ![p] = "op"]
  /\ UNCHANGED <<diskVars, cacheVars, lh, committing, wrote, held, commitVars, panicked>>

\* The caller changes a buffer it holds, and log_write makes its two tests
\* without the lock.
LogWriteCheck(p, b, v) ==
  /\ Up
  /\ pc[p] = "op"
  /\ Cardinality(wrote[p] \cup {b}) <= OpWrites
  /\ \A q \in Procs : held[q] # b
  /\ cache' = [cache EXCEPT ![b] = v]
  /\ IF Len(lh) >= LOGSIZE \/ Len(lh) >= SIZE - 1 \/ outstanding < 1
     THEN panicked' = TRUE /\ UNCHANGED <<pc, held>>
     ELSE /\ pc' = [pc EXCEPT ![p] = "append"]
          /\ held' = [held EXCEPT ![p] = b]
          /\ UNCHANGED panicked
  /\ UNCHANGED <<diskVars, dirty, logVars, wrote, commitVars>>

\* Mistaken log_write: the buffer is not marked B_DIRTY.
LogWriteNoPin(p) ==
  /\ Up
  /\ pc[p] = "append"
  /\ lh' = IF \E i \in DOMAIN lh : lh[i] = held[p] THEN lh ELSE Append(lh, held[p])
  /\ wrote' = [wrote EXCEPT ![p] = @ \cup {held[p]}]
  /\ pc' = [pc EXCEPT ![p] = "op"]
  /\ held' = [held EXCEPT ![p] = NoBlock]
  /\ UNCHANGED <<diskVars, cacheVars, outstanding, committing, commitVars, panicked>>

\* log_write under the lock: absorb or append, mark B_DIRTY; then brelse.
LogWriteAppend(p) ==
  /\ Up
  /\ pc[p] = "append"
  /\ lh' = IF \E i \in DOMAIN lh : lh[i] = held[p] THEN lh ELSE Append(lh, held[p])
  /\ dirty' = dirty \cup {held[p]}
  /\ wrote' = [wrote EXCEPT ![p] = @ \cup {held[p]}]
  /\ pc' = [pc EXCEPT ![p] = "op"]
  /\ held' = [held EXCEPT ![p] = NoBlock]
  /\ UNCHANGED <<diskVars, cache, outstanding, committing, commitVars, panicked>>

\* end_op up to release: the last operation becomes the committer.
end_op(p) ==
  /\ Up
  /\ pc[p] = "op"
  /\ outstanding' = outstanding - 1
  /\ wrote' = [wrote EXCEPT ![p] = {}]
  /\ IF committing
     THEN panicked' = TRUE /\ UNCHANGED <<committing, pc, phase, tail>>
     ELSE /\ UNCHANGED panicked
          /\ IF outstanding = 1
             THEN /\ committing' = TRUE
                  /\ pc' = [pc EXCEPT ![p] = "commit"]
                  /\ phase' = (IF Len(lh) > 0 THEN "writeLog" ELSE "done")
                  /\ tail' = 0
             ELSE /\ pc' = Wakeup([pc EXCEPT ![p] = "user"])
                  /\ UNCHANGED <<committing, phase, tail>>
  /\ UNCHANGED <<diskVars, cacheVars, lh, held>>

-----------------------------------------------------------------------------
(* commit, run by the process whose end_op was the last *)

\* One iteration of write_log.
write_log ==
  /\ Up
  /\ phase = "writeLog"
  /\ tail < Len(lh)
  /\ disk' = [disk EXCEPT ![tail + 1] = cache[lh[tail + 1]]]
  /\ tail' = tail + 1
  /\ UNCHANGED <<hdr, cacheVars, logVars, procVars, phase, panicked>>

\* Mistaken commit: the header goes out before the log blocks.
WriteHeadFirst ==
  /\ Up
  /\ phase = "writeLog"
  /\ hdr' = lh
  /\ phase' = "install"
  /\ tail' = 0
  /\ UNCHANGED <<disk, cacheVars, logVars, procVars, panicked>>

\* write_head with the transaction in it: the commit point.
write_head ==
  /\ Up
  /\ phase = "writeLog"
  /\ tail = Len(lh)
  /\ hdr' = lh
  /\ phase' = "install"
  /\ tail' = 0
  /\ UNCHANGED <<disk, cacheVars, logVars, procVars, panicked>>

\* One iteration of install_trans, through the buffer cache: bwrite leaves the
\* home buffer clean.
InstallOne ==
  /\ disk' = [disk EXCEPT ![lh[tail + 1]] = disk[tail + 1]]
  /\ cache' = [cache EXCEPT ![lh[tail + 1]] = disk[tail + 1]]
  /\ dirty' = dirty \ {lh[tail + 1]}
  /\ tail' = tail + 1

install_trans ==
  /\ Up
  /\ phase = "install"
  /\ tail < Len(lh)
  /\ InstallOne
  /\ UNCHANGED <<hdr, logVars, procVars, phase, panicked>>

\* log.lh.n = 0; write_head(): the transaction is erased from the disk.
ClearHead ==
  /\ Up
  /\ phase = "install"
  /\ tail = Len(lh)
  /\ lh' = <<>>
  /\ hdr' = <<>>
  /\ phase' = "done" /\ tail' = 0
  /\ UNCHANGED <<disk, cacheVars, outstanding, committing, procVars, panicked>>

\* Mistaken end of commit: the waiters are forgotten.
EndCommitNoWakeup(p) ==
  /\ Up
  /\ pc[p] = "commit"
  /\ phase = "done"
  /\ committing' = FALSE
  /\ pc' = [pc EXCEPT ![p] = "user"]
  /\ phase' = "idle"
  /\ UNCHANGED <<diskVars, cacheVars, lh, outstanding, wrote, held, tail, panicked>>

\* The rest of end_op.
EndCommit(p) ==
  /\ Up
  /\ pc[p] = "commit"
  /\ phase = "done"
  /\ committing' = FALSE
  /\ pc' = Wakeup([pc EXCEPT ![p] = "user"])
  /\ phase' = "idle"
  /\ UNCHANGED <<diskVars, cacheVars, lh, outstanding, wrote, held, tail, panicked>>

-----------------------------------------------------------------------------
(* bget recycles the buffer of b; the next bread of b reads the disk *)
Evict(b) ==
  /\ Up
  /\ b \notin dirty
  /\ \A p \in Procs : held[p] # b
  /\ cache' = [cache EXCEPT ![b] = disk[b]]
  /\ UNCHANGED <<diskVars, dirty, logVars, procVars, commitVars, panicked>>

-----------------------------------------------------------------------------
(* Crash, and recover_from_log at the next boot *)

\* Memory is lost.  initlog runs before any process does and reads the header.
Crash ==
  /\ lh' = hdr
  /\ outstanding' = 0 /\ committing' = FALSE
  /\ cache' = [b \in Blocks |-> disk[b]] /\ dirty' = {}
  /\ pc' = [p \in Procs |-> "user"]
  /\ wrote' = [p \in Procs |-> {}]
  /\ held' = [p \in Procs |-> NoBlock]
  /\ phase' = "recInstall" /\ tail' = 0
  /\ panicked' = FALSE
  /\ UNCHANGED diskVars

RecInstall ==
  /\ phase = "recInstall"
  /\ tail < Len(lh)
  /\ InstallOne
  /\ UNCHANGED <<hdr, logVars, procVars, phase, panicked>>

RecClear ==
  /\ phase = "recInstall"
  /\ tail = Len(lh)
  /\ lh' = <<>>
  /\ hdr' = <<>>
  /\ phase' = "idle" /\ tail' = 0
  /\ UNCHANGED <<disk, cacheVars, outstanding, committing, procVars, panicked>>

-----------------------------------------------------------------------------
Operation(p) ==
  \/ begin_op(p)
  \/ \E b \in Blocks, v \in Vals : LogWriteCheck(p, b, v)
  \/ LogWriteAppend(p)
  \/ end_op(p)
  \/ EndCommit(p)

CommitStep == write_log \/ write_head \/ install_trans \/ ClearHead

Recovery == RecInstall \/ RecClear

Next ==
  \/ \E p \in Procs : Operation(p)
  \/ CommitStep
  \/ \E b \in Blocks : Evict(b)
  \/ Crash
  \/ Recovery

Spec == Init /\ [][Next]_vars

\* File system calls finish, and kernel code runs to its end.  Crashes and new
\* calls are never required to happen.
Fairness ==
  /\ \A p \in Procs :
       /\ WF_vars(LogWriteAppend(p)) /\ SF_vars(end_op(p)) /\ WF_vars(EndCommit(p))
  /\ WF_vars(CommitStep) /\ WF_vars(Recovery)

FairSpec == Spec /\ Fairness

-----------------------------------------------------------------------------
(* Properties *)

InOp == {p \in Procs : pc[p] \in {"op", "append"}}

\* Every variable has its type.
TypeOK ==
  /\ hdr \in Seq(Blocks)
  /\ disk \in [Addrs -> Vals]
  /\ cache \in [Blocks -> Vals]
  /\ dirty \in SUBSET Blocks
  /\ lh \in Seq(Blocks)
  /\ outstanding \in Nat
  /\ committing \in BOOLEAN
  /\ pc \in [Procs -> {"user", "begin", "asleep", "op", "append", "commit"}]
  /\ wrote \in [Procs -> SUBSET Blocks]
  /\ held \in [Procs -> Blocks \cup {NoBlock}]
  /\ phase \in {"idle", "writeLog", "install", "done", "recInstall"}
  /\ tail \in Nat
  /\ panicked \in BOOLEAN

\* The log is an atomic disk: the writes of all the operations of a transaction
\* become permanent together, at write_head, while no operation is under way,
\* and no crash, in commit or in recovery, leaves part of a transaction.
Atomic ==
  INSTANCE AtomicDisk WITH
    mem <- IF phase = "recInstall" THEN [b \in Blocks |-> Recovered(b)] ELSE cache,
    stable <- [b \in Blocks |-> Recovered(b)],
    active <- InOp

\* The specification that Log implements.
AtomicSpec == Atomic!Spec

\* When no call is active and no commit runs, everything written is on the disk
\* in its home location and the log is empty.
QuiescentIsDurable ==
  Up /\ outstanding = 0 /\ ~committing =>
    hdr = <<>> /\ lh = <<>> /\ \A b \in Blocks : cache[b] = disk[b]

\* A buffer that bget may recycle (clean, held by nobody) equals its disk block,
\* so eviction between log_write and commit never loses an update (bio.c:85);
\* after the commit all of them do.
CleanBuffersCurrent ==
  /\ TypeOK /\ QuiescentIsDurable
  /\ Up => \A b \in Blocks : b \notin dirty /\ (\A p \in Procs : held[p] # b) => cache[b] = disk[b]

\* While a transaction is open or being written, log.outstanding counts exactly
\* the processes inside begin_op/end_op, and none is inside during commit.
OutstandingExact ==
  ~panicked => outstanding = Cardinality(InOp) /\ (committing => InOp = {})

\* The transaction fits between the header and the end of the log area, so
\* write_log never writes past it, over file system blocks.
LogFits == Len(lh) <= SIZE - 1

\* An operation that begin_op let in never meets "too big a transaction".
NoPanic == ~panicked

\* With every call writing fewer than MAXOPBLOCKS blocks and begin_op counting
\* them, no transaction outgrows the log, though log_write tests the size before
\* taking the lock.
NeverTooBig == OutstandingExact /\ LogFits /\ NoPanic

\* A process asleep in begin_op is woken: neither the commit that ends nor the
\* call that returns its reservation forgets it.
SleepersWoken == \A p \in Procs : pc[p] = "asleep" ~> pc[p] # "asleep"
=============================================================================
