# A TLA+ model of A4teamOS

A4teamOS (`src/xv6`) is xv6 for x86 with three additions: a choice of
schedulers (`make SCHEDULER=RR|FCFS|MLFQ`, MLFQ by default, one processor by
default), kernel threads (`clone`, `join`, `gettid`) and time accounting
(`waitx`, `getps`). This directory models the parts of the kernel where several
processes, processors, interrupts or a crash meet, and the allocators, files and
shell that programs stand on.

## The system

| part | state | hard behaviour |
|---|---|---|
| MLFQ scheduler (`proc.c`, `trap.c`) | run queues, `p->queue`, `curr_ticks`, `change_q` | processors, timer and wakeups move the same processes; aging edits the queue it walks |
| processes and threads (`proc.c`, `exec.c`) | `ptable`, parents, page directories | exit against wait and kill; address spaces shared by threads |
| redo log (`log.c`) | header on disk, `log.lh`, `log.outstanding` | crash at any disk write, also in recovery; reservation |
| buffer cache and disk (`bio.c`, `sleeplock.c`, `ide.c`) | buffers, their locks, `idequeue` | recycling, completion interrupts, disk errors |
| pipes (`pipe.c`, `file.c`) | ring buffer, two ends and their references | lost wakeups, counter wraparound, last close |
| console input (`console.c`) | `input`, `cons.lock` | editing while reading; lock order with `ptable.lock` |
| inodes and names (`fs.c`, `sysfile.c`, `file.c`) | `icache`, link counts, directories, file table | `iput` drops its lock before it frees; calls that fail half way |
| contents of files (`fs.c`, `file.c`, `mkfs.c`) | bitmap, direct and indirect blocks, sizes | reuse of blocks; chunks that fit the log; sums that wrap around |
| pages and page tables (`kalloc.c`, `vm.c`, `exec.c`) | free list, directories, tables, user pages | `kalloc` fails in the middle of fork, exec or sbrk |
| user allocator (`umalloc.c`) | circular list of free blocks | splitting and joining in any order of frees |
| shell (`sh.c`, `init.c`) | tokens, command trees, processes and descriptors | pipe ends left open; waits that take the wrong child |

They meet in `sleep`/`wakeup` (every part sleeps through `proc.c`), in
`ptable.lock`, in the dirty flag by which the log pins buffers, in the log that
makes every file system call atomic, and in the pages that processes, page
tables and pipes all take from `kalloc`.
`PROJECT.json` lists all the other parts, with the reason they are left out, and
the hazards found at each line.

## Modules

**Mlfq** has one variable per field of `struct proc` the scheduler uses, the
queues as sequences, and a position per processor. An action is a critical
section of `ptable.lock`, or a part of one where the code loops over a queue or
the table (`AgeStep`, `wakeup1`).
**MlfqInvariant** has the inductive invariant, the lemmas on queues and
processors and the process operations, and **MlfqProofs** the timer, the
scheduler and the theorems.

**Threads** has the slots of `ptable` with parent, page directory, stack and
`killed`; pages are a finite set that `kalloc` chooses from and `freevm` returns
to. `Calls` is the set of system calls programs make. `Joining` restricts them
to programs that join their threads before they call exit, wait or exec; a kill
makes any process exit, and `cut` remembers that one had threads to join. `kill`
is not aimed at init: `kill(1)` makes init exit and the kernel panic. Its proofs
are **ThreadsProofs**.

**Log** has the disk with its log area and header, the cache, the pinned blocks
and the phases of a commit; `Crash` may happen at any step and recovery runs
step by step. **AtomicDisk** is what it implements: memory, stable storage, one
step that makes memory stable while no operation is active, and crashes.
**LogProofs** has the proof that the reservation suffices and the refinement.

**Bcache** has buffers with identity, flags, references and sleep-lock, the list
in order of use, and the disk queue. A process may hold one buffer (`outer`) while
it reads another, as `write_log`, `install_trans`, `bmap` and `itrunc` do; `Level`
is the order in which these nest: the log, indirect blocks, then all others. The
controller (hardware) is the `ideintr` actor; `DiskErrors` lets it fail. Its proofs
are **BcacheProofs**.

**Pipe** has `struct pipe`, the processes holding each end, and a position per
process; a byte is a step. **Fifo** is what it implements, a bounded queue.
The test of `killed` and the `sleep` after it are two steps, because `kill`
takes `ptable.lock` and not `p->lock`. `silent` remembers a killed writer that
returned without waking the readers. Its proofs are **PipeProofs**; what pipe and
console share, counters that wrap around and the bytes of a ring buffer between
two of them (`Slice`), is **Counters**.

**Console** has `input`, the holders of `cons.lock` and `ptable.lock`, the
interrupt handler, readers, and processes that print under `ptable.lock`
(`exit`, `getps`). The test of `killed` and `sleep` are two steps here as well.
**LineInput** is what its buffer implements: a line that is edited until it ends,
and the ended lines that are read. Its proofs are **ConsoleProofs**.

**Fs** has the inodes on disk, the inode cache with references and sleep-locks,
the file table, and per process the descriptors, the current directory and the
locals of the call it is in. A step ends where the code may wait for an inode or
lets go of `icache.lock`: `iput` alone is four steps (`PutCheck`, `PutFree`,
`PutValid`, `PutRef`), and every `ilock` of `namex`, `link`, `unlink`, `create`,
`open`, `chdir` and `exec` one. A directory is a set of names with inodes. The
disk is the one the log shows, so `Crash` takes memory away between calls only;
that a crash inside a call leaves such a disk is what Log shows of AtomicDisk.
mknod goes through the same `create` as mkdir and is not among the requests.

**FileData** has blocks with their bytes, the bitmap, sizes and addresses, the
open files with their offsets, and `filewrite`'s loop, one transaction a step, so
that two writers of one file interleave by chunks. Its history starts at `mkfs`,
which fills the root directory by entries and a file by blocks, with its own
`iappend`. **ByteFile** is what it implements: files that are sequences of bytes.

**Vm** has the free pages, what each page holds, and per process the size, the
kernel stack and the space (directory, tables, user pages, pages without
`PTE_U`). An action is a whole call; within it every `kalloc` may find the list
empty. The end of a segment that `exec` loads is a sum that wraps around
(`ADDRESSES`). `kalloc` takes the lowest free page where the code takes the last freed:
pages differ in nothing else. **Memory** is what it implements: a private array
of values per process.

**Heap** has `umalloc.c`'s headers in units of one header. What a program has
written over a block it gave back is `Scrap` that no step may read.

**Shell** has the line in characters, because `gettoken` and the parser are what
is checked against the grammar, the parser as operators on tokens, the command
trees, and the processes of the shell with parent, descriptors and place in
`runcmd`. Programs write nothing, and end at the end of the input of a pipe only:
a writer that waits for room in a pipe is in Pipe. Without a free process `fork1`
panics. A line that begins with `cd ` is not among the lines.

`OneCpu` in Pipe and Console stands for a machine with one processor, where
`acquire` turns interrupts off and so nobody else runs inside a critical section.

**MCKernel** and **MCPrograms** check independent models side by side: the
variable `part` chooses one when the behavior starts, the others stay as they
start, and TLC's states are the sum and not the product of the parts. MCKernel
extends Bcache, Log and Threads; in the behaviors of the cache and the log the
process table is empty, as before `userinit`.

Operators introduced as "Mistaken ..." are variants of a definition with a
plausible bug. Each property is violated when one of them takes its definition's
place; `PROJECT.json` pairs them.

## Runs that pass

| run | what holds |
|---|---|
| `two_cpus` | queues hold exactly the runnable processes, once; one processor per process; quantum kept; moves between queues only by quantum or age; first-in first-out within a queue |
| `live` | every runnable process runs (one processor) |
| `kernel` | buffer cache: readers see the last contents although buffers are recycled, every sleeper has someone to wake it, and processes that hold one buffer and wait for another never wait in a circle; log: it implements AtomicDisk under crashes, recyclable buffers are current; processes that join their threads, until a kill makes one exit before it has: no waiter misses an exit, parents are alive, address spaces are freed once and shared by threads only |
| `log_capacity` | if each call writes fewer than MAXOPBLOCKS blocks, no transaction outgrows the log; sleepers in `begin_op` are woken |
| `proc_live` | with kill and with threads, joined or not: init reaps orphans; a killed process exits, also out of `wait`, `waitx` and `join` |
| `pipe_safe` | Pipe implements Fifo; sleepers have a reason; the page is freed once and last (any number of processors) |
| `pipe_live` | calls return when each process closes the end it does not use; no killed process sleeps in a pipe (one processor) |
| `console` | Console implements LineInput, across wraparound; completed input is not changed; no lost wakeup; a killed reader returns (one processor) |
| `fs` | every reference count is the number of references, at each step of each call; cached inodes agree with the disk; link counts are the number of names, also after failures; `ilock` and `unlink` do not panic |
| `programs` | memory: Vm implements Memory, every page is in one place, what a failed call took is given back; files: FileData implements ByteFile, every block is in one place, reads agree with contents up to wraparound, no chunk needs all of its share of the log; heap: no unit is lost or handed out twice; shell: the parser accepts the grammar and builds its trees, descriptors are as the line says, no pipeline is stuck, and the prompt comes back, and a list goes on, when what is before is done |

Deadlock checking is off where the system may stop: all programs have exited, the
bound on calls is reached, or the kernel has panicked.

## Runs that show a disagreement

| run | what the code does |
|---|---|
| `no_child` | `wait()` without children sleeps: a process matches itself (`proc.c:349`); `forktest.c` expects -1 |
| `sbrk_exec` | without threads: `growproc` meets a freed slot by its stale `pgdir` and panics in `switchuvm` (`proc.c:240`) |

The models show more of the kind. They have no configuration here; each is found
by the change given, or by naming the property in the run's configuration.

| change | property violated | what the code does |
|---|---|---|
| Threads, `Calls = {"fork", "clone", "wait"}`, `Joining = FALSE` | `NoBadFree` | `wait()` reaps a thread and frees the space its creator uses (`proc.c:357`) |
| Threads, `Calls = {"fork", "clone", "wait", "join", "kill"}`, `Joining = TRUE` | `NoBadFree` | a kill makes a process exit whose thread runs on (`trap.c:42`, `trap.c:98`), and its parent's `wait()` frees the space under the thread (`proc.c:357`) |
| Threads, `Calls = {"fork", "clone", "join", "sbrk"}`, `Joining = TRUE` | `NoSwitchPanic` | `join` leaves a slot that the next `sbrk` trips over |
| Threads, `Calls = {"fork", "kill"}` | `KilledByKill` | `kill(0)` marks a free slot; its next process is born killed (`proc.c:655`) |
| Log, `SIZE = LOGSIZE = NBLOCKS = 3`, `MAXOPBLOCKS = OpWrites = 1` | `NoPanic`, `LogFits` | operations that write all they reserve meet "too big a transaction", or, as the size is tested without the lock, grow past the log (`log.c:218`); the calls in `sysfile.c` and `file.c` write fewer, which is `log_capacity` |
| Bcache, `DiskErrors = TRUE` | `ReadsLastContents` | a failed read is handed out as valid (`ide.c:118`) |
| Console, `OneCpu = FALSE` | `NoLockCycle` | `exit` and `getps` print under `ptable.lock` (`proc.c:333`) while the console takes `ptable.lock` under `cons.lock`: two processors can deadlock |
| `fs` | `FreedWhenUnused` | two processes that both put their last reference read the count 2 before either lowers it, and neither frees the unlinked inode; `fs.c:118-120`: "iput() frees if the reference and link counts have fallen to zero" |
| `fs` | `NoLockRing` | `unlink` and `create` call `iunlockput(dp)` with `ip` locked, and `iput` takes `dp`'s lock again (`fs.c:334`) against a process that holds `dp` and waits for `ip`; `usertests.c:855-856`: "another concurrent link/unlink/create test, to look for deadlocks" |
| Pipe, `OneCpu = FALSE` | `KilledAwake` | a `kill` between the test of `killed` and `sleep` goes unnoticed until the next wakeup (`pipe.c:107`) |

With `OneCpu = FALSE`, `ReaderSleepJustified` and `CommittedStable` of
Console hold as well (deadlock checking off). One behaviour is excepted in a
property: a killed writer leaves a full pipe without waking the readers
(`pipe.c:86`), who may sleep beside bytes until the next wakeup (`silent` in
`SleepJustified`). In Fs, `strayed` remembers that a name was
looked up in a directory after its removal. Entries made there keep inodes that
nobody can reach, and ".." of such a directory may name an inode freed since, on
which `ilock` panics ("ilock: no type"); `LinksExact` and `NoFsPanic` except both.

mkfs adds a block to the size of a root directory that is already a multiple of a
block, a block that no address is for. FileData leaves such disks out (`MkfsDone`):
the 22 entries that the Makefile's disk has do not fill a block.

Smaller behaviours the models follow: `growproc(-sz)` frees every page, leaves
`sz` and returns -1, and a size below 0 wraps around and changes nothing; `>>`
opens its file as `>` does, of several redirections of one descriptor the first
written wins, and `a & b` is a syntax error; when `fork` fails, `sh` itself
exits and init starts another. `malloc` of nearly 2^32 bytes wraps `nunits`
around to 1 (outside the bound on requests).

## Bounds

Three or four processes are enough for a parent, a child, an orphan or thread and
init. Two queues and an age limit of one tick make every process be demoted and
aged. The ring buffers hold two or three bytes and their counters wrap after two
rounds; for the console, a buffer of three bytes was checked as well. Two buffers
for three blocks, one of each level, force recycling and nesting. In `kernel` the
cache runs twice: with two processes at a time that change one block (`MaxWriters`,
`MaxChanged`), and with three that compete for buffers and write what the blocks
hold; one process is killed (`MaxKills`). In `log_capacity`
there are more blocks than the largest transaction may have, so that only the
reservation keeps it inside the log. `MaxPid`, `MaxN` and
`OpWrites` bound process creation, the length of a call and the writes of an
operation. Blocks, pages, bytes and processes are symmetric wherever SYMMETRY is
declared, and no liveness run uses it.

`fs`: two processes make four calls (`MaxCalls`), which begin in any of three
disks: empty, a file with two names, a directory in a directory. Three cache
entries for four inodes, two files and two descriptors let each table run out.
`programs`: fifteen pages hold two processes and not the third table, so every
`kalloc` fails in some behavior (`MaxCalls = 7`); blocks of two bytes, two direct
and two indirect addresses and six blocks let mkfs (`ImageBlocks`) and writes cross
blocks, reach the indirect block and run out (`MaxSteps = 4`), and sums wrap at 10
(`UINT`); ten units of heap force splits, joins and a failing sbrk; the shell gets every line of
up to three of its characters, nine longer ones that nest what it can nest, and
then another line, with five processes.

## Fairness

Kernel code between two points where it can block goes on (weak fairness). A
spinlock or sleep-lock that is free again and again is got in the end (strong
fairness): the code spins or is woken, and with few contenders xchg is not
starved, but the hardware does not promise it. Timer and disk interrupts arrive.
An operation ends (`end_op`), a process closes its descriptors in the end (if
only in `exit`), and the keyboard runs out of keys. No fairness is assumed for
programs making calls, for keys typed, or for crashes.

## Proofs

MlfqProofs proves, for any number of slots, processors and queues and any quanta
and age limit (`ConstAssumption`):

- `TypeCorrect`, `QueuesExact`, `OneCpuEach`, `FlagNeverStale`, `QuantumRespected`:
  queues hold exactly the runnable processes, no process is on two processors,
  `change_q` never outlives its trap, and no process runs past its quantum;
- `MovesJustified`, `OrderKept`: the two action properties of `two_cpus`.

The invariants follow from one inductive invariant `IInv`. The properties alone are not
inductive: `remove_proc_from_q` searches by pid, so `PidsDistinct` is needed to
know that it removes the right process; `CpuConsistent` ties each processor's
position to its process and to the holder of the lock; `NpConsistent` and
`SlotsReady` describe slots between `allocproc` and the end of `fork`. There is
one lemma per action, on top of lemmas on what adding to and removing from a
queue does to the set of queued processes.

`MovesJustified` adds `MovesReady` (a raised `change_q` means a full quantum, and
a slot being filled is in queue 0), without which a stale flag could demote a
process that has not run. `OrderKept` compares positions: in a queue without
repetitions, `OrderRemoved` and `OrderAdded` show that taking one process out or
adding one at the end keeps the relative order of all others.

LogProofs assumes `SmallCalls`: a call writes fewer blocks than
the MAXOPBLOCKS it reserves (`ChunkFitsLog` shows it of `filewrite`), and
mkfs makes the log area as large as LOGSIZE.
Without the first, the log does overflow (see above).

- `NoTransactionTooBig`: no transaction outgrows the log. `NeverTooBig` is not
  inductive: `begin_op` counts the calls under way, and `lh` also holds what calls
  that have returned have written. `Room` is the missing balance: the blocks in
  `lh`, plus what the calls under way may still write, fit into LOGSIZE. `Charged`
  counts each block once for each call that wrote it.
- `NoLostUpdate`, `LogIsAtomicDisk`: recyclable buffers are current, and the log
  implements AtomicDisk. The refinement mapping takes for the stable disk what
  recovery would make of disk and header (`Recovered`), and for memory the cache,
  or during recovery the stable disk. `write_head` is the commit, a crash a crash,
  the changing of a buffer a write; copying, installing and clearing are stutters.
  `AInv` says which blocks are pinned, that the header on disk is empty or `lh`,
  and which blocks are in the log area and at home so far (`Copied`, `Clean`).

BcacheProofs, for any processes, blocks and buffers:

- `EverySleeperHasCause`, whatever the disk reports. `BInv` counts: `refcnt` is
  the number of processes at a buffer (`Counted`), so one that is recycled has no
  user, no holder of its lock and no request in the queue. `Outers` says that who
  waits for a buffer holds at most one other, of a lower level. So whoever is waited
  for waits, if at all, for a higher level than the one waiting: there is no circle.
- `ReadersSeeLastContents`, assuming `~DiskErrors`: a valid buffer holds the last
  contents of its block, and what is not yet on the disk is in a dirty buffer.

PipeProofs and ConsoleProofs, for any processes, buffer size and counter width
that the size divides:

- `NoLostWakeup`, `PageFreedLast`, and on one processor `KillReachesSleeper`.
  `PInv` ties `p->lock` to positions, the ends to the descriptors of live
  processes, and says what a process knows between its test and its `sleep`.
- `PipeIsFifo`: the pipe implements Fifo. The queue is the bytes from `nread` to
  `nwrite`; that a write appends to it and a read takes its first byte, also when
  a counter wraps around, are the lemmas of Counters.
- `NoReaderForgotten`, `CommittedInputStable`. `CInv` ties the locks to positions
  and keeps the indices in the order r, w, e, at most INPUT_BUF apart around the
  wrap.
- `ConsoleIsLineInput`: the console implements LineInput. The ended lines are the
  bytes from r to w, the line being edited those from w to e. Besides `CInv` it
  needs `Open`: no newline is between w and e, which is why the loop of C-U, that
  stops at a newline, empties the line.

`OneCpu` is a hypothesis of `KillReachesSleeper` because the code needs it: on two
processors the property is violated (see above). The others hold on any number.

ThreadsProofs, for any slots, pages, pids and calls, assuming `Joining`, and until
a kill makes a process exit that has threads to join (`cut`):

- `NoExitLost`: no waiter sleeps past an exit or a kill, and parents are alive;
- `SpacesAccounted`: address spaces are freed once, by the last user, and shared
  by threads of one group only.

`TInv` has what these need of each other. `wait` frees the space of a zombie
without looking for threads that use it, so one must know that there are none:
the users of a space form one tree (`OneRoot`, `Thread`), a parent is alive
and older than its children (`ParentAlive`, `Younger`), and who waits is alone
(`WaitsAlone`). `TInv` holds until `cut`: a kill can make a process exit that has
threads to join, and what follows is as without `Joining`. If a zombie that is no
thread had other users, the oldest of them
would be a thread of one older still (`LastUser`, by the least pid). Without
`Joining` the spaces are freed too early (see above).

Only model-checked are:

- the liveness properties (`StarvationFree`, `SleepersWoken`, `OrphansReaped`,
  `KilledExits`, `CallsReturn`, `KilledReaderReturns`), which
  need fairness and so ENABLED;
- all of Vm, FileData, Heap and Shell, whose operators are recursive over page
  tables, blocks, lists and command trees: what they compute for every input
  takes an induction over data that TLAPS cannot do with its provers here;
- the invariants of Fs.

## Not modelled

- RR and FCFS, compiled out by default, and the time accounting (`waitx`'s times,
  `getps`): `ticking()` reads the table without the lock, so its numbers are
  approximate by design and no document says how far.
- The composition of Log with Bcache at NBUF = LOGSIZE: each has the other's
  effect on it (pinned buffers, eviction), the product is out of TLC's reach.
- `thread.c`: its stacks come from Heap and its calls from Threads; it rounds the
  pointer from malloc up and frees the rounded one, which is outside Heap's
  contract.
- The race for `cons.lock` and `ptable.lock` on one processor, where nobody runs
  inside another's critical section; on two it is the deadlock listed above.
- `nulterminate`, the shell's `cd` line (`chdir` is in Fs), `skipelem`'s characters,
  `stati`, `fstat`, argument fetching: no state shared with anyone.
- Device registers, boot, context switch, segment registers: below the models.
- Text utilities and tests: sequential programs, read for what they expect.
