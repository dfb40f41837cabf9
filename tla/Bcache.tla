------------------------------- MODULE Bcache -------------------------------
(***************************************************************************)
(* The buffer cache (bio.c), the sleep lock of each buffer (sleeplock.c)   *)
(* and the disk driver's queue and interrupt (ide.c).                      *)
(*                                                                         *)
(* A process reads a block, may change the buffer, and then writes it out  *)
(* (bwrite) or leaves it to the log (log_write, which marks it B_DIRTY)    *)
(* before it releases it.  It may hold one buffer while it reads another:  *)
(* write_log and install_trans hold a block of the log and read a home     *)
(* block (log.c), bmap and itrunc hold an indirect block and read the      *)
(* bitmap or a new data block (fs.c).  content is a history variable: the  *)
(* value each block was last given.                                        *)
(***************************************************************************)
EXTENDS Integers, Sequences, FiniteSets

CONSTANTS
  Clients, NoClient,   \* processes that use blocks
  Bnos, NoBno,         \* block numbers
  LogBnos,             \* blocks of the log
  IndirectBnos,        \* indirect blocks of files; the others are home blocks too
  Contents,
  NBUF,
  DiskErrors      \* the disk may report an error on a read

ASSUME BcacheAssumption ==
  /\ IsFiniteSet(Clients) /\ NoClient \notin Clients
  /\ NoBno \notin Bnos
  /\ LogBnos \cap IndirectBnos = {}
  /\ NBUF \in Nat \ {0}
  /\ DiskErrors \in BOOLEAN

Bufs == 1 .. NBUF

VARIABLES
  blockno, refcnt, valid, bdirty, data,   \* struct buf
  owner,                 \* its sleep lock: lk->pid
  mru,                   \* the list from bcache.head.next, most recent first
  idequeue, sent,        \* the driver's queue; the data sent with a write command
  bdisk, content,
  bpc, buf,              \* per process: its position, the buffer it works on
  outer,                 \* and the one that it holds meanwhile
  bpanicked

bufVars == <<blockno, refcnt, valid, bdirty, data>>
ideVars == <<idequeue, sent, bdisk>>
bcacheVars == <<bufVars, owner, mru, ideVars, content, bpc, buf, outer, bpanicked>>

\* binit, over a disk with any contents.
BcacheInit ==
  /\ blockno = [b \in Bufs |-> NoBno]
  /\ refcnt = [b \in Bufs |-> 0]
  /\ valid = [b \in Bufs |-> FALSE] /\ bdirty = [b \in Bufs |-> FALSE]
  /\ \E v \in Contents : data = [b \in Bufs |-> v] /\ sent = v
  /\ owner = [b \in Bufs |-> NoClient]
  /\ mru = [i \in Bufs |-> NBUF + 1 - i]
  /\ idequeue = <<>>
  /\ bdisk \in [Bnos -> Contents] /\ content = bdisk
  /\ bpc = [p \in Clients |-> "idle"]
  /\ buf = [p \in Clients |-> 0] /\ outer = [p \in Clients |-> 0]
  /\ bpanicked = FALSE

Goto(p, l) == bpc' = [bpc EXCEPT ![p] = l]

-----------------------------------------------------------------------------
(* bget and acquiresleep *)

\* The order in which the code nests its reads: the log before any home block, an
\* indirect block before the bitmap and the data blocks.
Level(n) == IF n \in LogBnos THEN 0 ELSE IF n \in IndirectBnos THEN 1 ELSE 2

\* Mistaken order: a process that holds a buffer may read any other block.
AnyOrder(p, n) ==
  \/ bpc[p] = "idle"
  \/ bpc[p] = "use" /\ outer[p] = 0 /\ n # blockno[buf[p]]

\* p calls bread for block n, with no buffer or, in those four places, with one.
MayRead(p, n) ==
  \/ bpc[p] = "idle"
  \/ bpc[p] = "use" /\ outer[p] = 0 /\ Level(blockno[buf[p]]) < Level(n)

\* p gets b to work on, and keeps the buffer it has.
Gets(p, b) ==
  /\ buf' = [buf EXCEPT ![p] = b]
  /\ outer' = [outer EXCEPT ![p] = buf[p]]
  /\ Goto(p, "lock")

BgetHit(p, n) ==
  /\ ~bpanicked /\ MayRead(p, n)
  /\ \E b \in Bufs :
       /\ blockno[b] = n
       /\ refcnt' = [refcnt EXCEPT ![b] = @ + 1]
       /\ Gets(p, b)
  /\ UNCHANGED <<blockno, valid, bdirty, data, owner, mru, ideVars, content, bpanicked>>

Free(b) == refcnt[b] = 0 /\ ~bdirty[b]

\* Mistaken bget: the flags of the recycled buffer are kept.
BgetMissKeepFlags(p, n) ==
  /\ ~bpanicked /\ MayRead(p, n)
  /\ \A b \in Bufs : blockno[b] # n
  /\ IF \E b \in Bufs : Free(b)
     THEN /\ \E i \in Bufs :
               LET b == mru[i] IN
               /\ Free(b) /\ \A j \in Bufs : j > i => ~Free(mru[j])
               /\ blockno' = [blockno EXCEPT ![b] = n]
               /\ refcnt' = [refcnt EXCEPT ![b] = 1]
               /\ Gets(p, b)
          /\ UNCHANGED bpanicked
     ELSE bpanicked' = TRUE /\ UNCHANGED <<blockno, refcnt, buf, outer, bpc>>
  /\ UNCHANGED <<valid, bdirty, data, owner, mru, ideVars, content>>

\* Not cached: recycle the least recently used free buffer.
BgetMiss(p, n) ==
  /\ ~bpanicked /\ MayRead(p, n)
  /\ \A b \in Bufs : blockno[b] # n
  /\ IF \E b \in Bufs : Free(b)
     THEN /\ \E i \in Bufs :
               LET b == mru[i] IN
               /\ Free(b) /\ \A j \in Bufs : j > i => ~Free(mru[j])
               /\ blockno' = [blockno EXCEPT ![b] = n]
               /\ valid' = [valid EXCEPT ![b] = FALSE]
               /\ refcnt' = [refcnt EXCEPT ![b] = 1]
               /\ Gets(p, b)
          /\ UNCHANGED bpanicked
     ELSE bpanicked' = TRUE /\ UNCHANGED <<blockno, valid, refcnt, buf, outer, bpc>>
  /\ UNCHANGED <<bdirty, data, owner, mru, ideVars, content>>

\* One pass of acquiresleep's loop.
acquiresleep(p) ==
  /\ ~bpanicked /\ bpc[p] = "lock"
  /\ IF owner[buf[p]] # NoClient
     THEN Goto(p, "locksleep") /\ UNCHANGED owner
     ELSE Goto(p, "locked") /\ owner' = [owner EXCEPT ![buf[p]] = p]
  /\ UNCHANGED <<bufVars, mru, ideVars, content, buf, outer, bpanicked>>

-----------------------------------------------------------------------------
(* iderw and ideintr *)

\* The write command takes the data with it.
idestart(q, d) == sent' = IF q # <<>> /\ bdirty'[q[1]] THEN d[q[1]] ELSE sent

\* iderw up to its sleep, and bwrite's B_DIRTY when write is TRUE.
iderw(p, write) ==
  LET b == buf[p] IN
  /\ bdirty' = [bdirty EXCEPT ![b] = @ \/ write]
  /\ IF owner[b] # p \/ (valid[b] /\ ~bdirty'[b])
     THEN bpanicked' = TRUE /\ UNCHANGED <<idequeue, sent, bpc>>
     ELSE /\ idequeue' = Append(idequeue, b)
          /\ IF idequeue = <<>> THEN idestart(idequeue', data) ELSE UNCHANGED sent
          /\ Goto(p, "io")
          /\ UNCHANGED bpanicked
  /\ UNCHANGED <<blockno, refcnt, valid, data, owner, mru, bdisk, content, buf, outer>>

\* bread, once it has the buffer locked.
bread(p) ==
  /\ ~bpanicked /\ bpc[p] = "locked"
  /\ IF valid[buf[p]]
     THEN Goto(p, "use")
          /\ UNCHANGED <<bufVars, owner, mru, ideVars, content, buf, outer, bpanicked>>
     ELSE iderw(p, FALSE)

\* The interrupt for the request at the head of the queue: a write has reached
\* the disk; a read is copied unless the disk reports an error.
ideintr(error) ==
  LET b == idequeue[1] IN
  /\ ~bpanicked /\ idequeue # <<>>
  /\ error => DiskErrors /\ ~bdirty[b]
  /\ idequeue' = Tail(idequeue)
  /\ bdisk' = IF bdirty[b] THEN [bdisk EXCEPT ![blockno[b]] = sent] ELSE bdisk
  /\ data' = IF bdirty[b] \/ error THEN data ELSE [data EXCEPT ![b] = bdisk[blockno[b]]]
  /\ valid' = [valid EXCEPT ![b] = TRUE]
  /\ bdirty' = [bdirty EXCEPT ![b] = FALSE]
  /\ idestart(idequeue', data)
  /\ bpc' = [p \in Clients |-> IF bpc[p] = "io" /\ buf[p] = b THEN "iowake" ELSE bpc[p]]
  /\ UNCHANGED <<blockno, refcnt, owner, mru, content, buf, outer, bpanicked>>

\* The loop of iderw finds the request done, or sleeps again.
IderwReturn(p) ==
  /\ ~bpanicked /\ bpc[p] = "iowake"
  /\ Goto(p, IF valid[buf[p]] /\ ~bdirty[buf[p]] THEN "use" ELSE "io")
  /\ UNCHANGED <<bufVars, owner, mru, ideVars, content, buf, outer, bpanicked>>

-----------------------------------------------------------------------------
(* What the holder of a buffer does with it *)

Modify(p, v) ==
  /\ ~bpanicked /\ bpc[p] = "use"
  /\ data' = [data EXCEPT ![buf[p]] = v]
  /\ content' = [content EXCEPT ![blockno[buf[p]]] = v]
  /\ Goto(p, "changed")
  /\ UNCHANGED <<blockno, refcnt, valid, bdirty, owner, mru, ideVars, buf, outer, bpanicked>>

bwrite(p) ==
  /\ ~bpanicked /\ bpc[p] \in {"use", "changed"}
  /\ iderw(p, TRUE)

\* log_write: the buffer stays in the cache until a bwrite of the commit.
log_write(p) ==
  /\ ~bpanicked /\ bpc[p] = "changed"
  /\ bdirty' = [bdirty EXCEPT ![buf[p]] = TRUE]
  /\ Goto(p, "use")
  /\ UNCHANGED <<blockno, refcnt, valid, data, owner, mru, ideVars, content, buf, outer, bpanicked>>

\* brelse, first part: releasesleep.
releasesleep(p) ==
  /\ ~bpanicked /\ bpc[p] = "use"
  /\ owner' = [owner EXCEPT ![buf[p]] = NoClient]
  /\ bpc' = [r \in Clients |-> IF r = p THEN "unref"
                             ELSE IF bpc[r] = "locksleep" /\ buf[r] = buf[p] THEN "lock" ELSE bpc[r]]
  /\ UNCHANGED <<bufVars, mru, ideVars, content, buf, outer, bpanicked>>

\* A process with two buffers turns to the other: write_log fills the block of the
\* log after it has read the home block, install_trans releases it first.
Swap(p) ==
  /\ ~bpanicked /\ bpc[p] = "use" /\ outer[p] # 0
  /\ buf' = [buf EXCEPT ![p] = outer[p]] /\ outer' = [outer EXCEPT ![p] = buf[p]]
  /\ UNCHANGED <<bufVars, owner, mru, ideVars, content, bpc, bpanicked>>

\* The list with b taken out and put at its head.
MoveToFront(b) ==
  LET k == CHOOSE i \in Bufs : mru[i] = b IN
  [i \in Bufs |-> IF i = 1 THEN b ELSE IF i <= k THEN mru[i-1] ELSE mru[i]]

\* brelse, second part: the last user moves the buffer to the front of the list.
brelse(p) ==
  LET b == buf[p] IN
  /\ ~bpanicked /\ bpc[p] = "unref"
  /\ refcnt' = [refcnt EXCEPT ![b] = @ - 1]
  /\ mru' = IF refcnt[b] = 1 THEN MoveToFront(b) ELSE mru
  /\ buf' = [buf EXCEPT ![p] = outer[p]] /\ outer' = [outer EXCEPT ![p] = 0]
  /\ Goto(p, IF outer[p] = 0 THEN "idle" ELSE "use")
  /\ UNCHANGED <<blockno, valid, bdirty, data, owner, ideVars, content, bpanicked>>

-----------------------------------------------------------------------------
BufStep(p) ==
  \/ \E n \in Bnos : BgetHit(p, n) \/ BgetMiss(p, n)
  \/ acquiresleep(p) \/ bread(p) \/ IderwReturn(p)
  \/ bwrite(p) \/ log_write(p) \/ releasesleep(p) \/ brelse(p) \/ Swap(p)
  \/ \E v \in Contents : Modify(p, v)

Interrupt == \E error \in BOOLEAN : ideintr(error)

BcacheNext == Interrupt \/ \E p \in Clients : BufStep(p)

BcacheSpec == BcacheInit /\ [][BcacheNext]_bcacheVars

-----------------------------------------------------------------------------
(* Properties *)

Users(b) == {p \in Clients : buf[p] = b \/ outer[p] = b}

\* Every variable has its type; the list always holds every buffer once.
BcacheTypeOK ==
  /\ blockno \in [Bufs -> Bnos \cup {NoBno}]
  /\ refcnt \in [Bufs -> 0 .. Cardinality(Clients)]
  /\ valid \in [Bufs -> BOOLEAN] /\ bdirty \in [Bufs -> BOOLEAN]
  /\ data \in [Bufs -> Contents] /\ sent \in Contents
  /\ owner \in [Bufs -> Clients \cup {NoClient}]
  /\ mru \in [Bufs -> Bufs] /\ \A b \in Bufs : \E i \in Bufs : mru[i] = b
  /\ \A i \in DOMAIN idequeue : idequeue[i] \in Bufs
  /\ bdisk \in [Bnos -> Contents] /\ content \in [Bnos -> Contents]
  /\ buf \in [Clients -> Bufs \cup {0}] /\ outer \in [Clients -> Bufs \cup {0}]

\* A block is in at most one buffer, and a buffer's refcnt counts the processes
\* that have it or wait for it, so bget never recycles one that is in use.
OneBufferPerBlock ==
  /\ \A b, c \in Bufs : blockno[b] = blockno[c] /\ blockno[b] # NoBno => b = c
  /\ \A b \in Bufs : refcnt[b] = Cardinality(Users(b))

\* A block whose newest contents are not on the disk is in the cache, marked
\* B_DIRTY or still held by the process that changed it.
UnwrittenIsCached ==
  \A n \in Bnos : bdisk[n] # content[n] =>
    \E b \in Bufs : /\ blockno[b] = n /\ valid[b] /\ data[b] = content[n]
                    /\ bdirty[b] \/ \E p \in Clients : buf[p] = b /\ bpc[p] = "changed"

\* p is between bread and brelse of the buffer b.
Uses(p, b) == (buf[p] = b /\ bpc[p] \in {"use", "changed"}) \/ outer[p] = b

\* Whoever uses a buffer uses it alone, and it holds the contents that its block
\* was last given, whatever was evicted, written back or pinned between
\* (bio.c:95: "Return a locked buf with the contents of the indicated block"):
\* a block has one buffer, and until it is written that buffer stays.
ReadsLastContents ==
  /\ BcacheTypeOK /\ OneBufferPerBlock /\ UnwrittenIsCached
  /\ \A p \in Clients, b \in Bufs : Uses(p, b) =>
       /\ \A r \in Users(b) \ {p} : buf[r] = b /\ bpc[r] \in {"lock", "locksleep", "unref"}
       /\ data[b] = content[blockno[b]]

\* The driver's queue holds each buffer once, locked by a process that waits for
\* it, and the data the disk was given for a write is still the buffer's data.
QueueSane ==
  /\ \A i, j \in DOMAIN idequeue : idequeue[i] = idequeue[j] => i = j
  /\ \A i \in DOMAIN idequeue : \E p \in Clients :
       buf[p] = idequeue[i] /\ owner[idequeue[i]] = p /\ bpc[p] = "io"
  /\ idequeue # <<>> /\ bdirty[idequeue[1]] => sent = data[idequeue[1]]

\* p sleeps in acquiresleep until r releases the buffer.
WaitsFor(p, r) == bpc[p] = "locksleep" /\ owner[buf[p]] = r

\* No lost wakeup: a process asleep in acquiresleep waits for one that is between
\* bread and brelse of the buffer, and one asleep in iderw for a request that is in
\* the driver's queue, where each request has its process.  And no circle: although
\* processes hold one buffer and wait for another (log.c:75-76, log.c:183-184,
\* fs.c:389-393, fs.c:422-426), some process of any group waits for none of them.
SleepersHaveCause ==
  /\ QueueSane
  /\ \A p \in Clients :
       /\ bpc[p] = "locksleep" => \E r \in Clients \ {p} :
            /\ WaitsFor(p, r)
            /\ \/ buf[r] = buf[p] /\ bpc[r] \in {"locked", "io", "iowake", "use", "changed"}
               \/ outer[r] = buf[p]
       /\ bpc[p] = "io" => \E i \in DOMAIN idequeue : idequeue[i] = buf[p]
  /\ \A S \in (SUBSET Clients) \ {{}} : \E p \in S : \A r \in S : ~WaitsFor(p, r)
=============================================================================
