----------------------------- MODULE PipeProofs -----------------------------
(***************************************************************************)
(* What TLAPS proves about the pipe for any number of processes, any size  *)
(* of the buffer and any width of the counters: it is a bounded first-in   *)
(* first-out channel (FifoSpec), nobody sleeps without a reason            *)
(* (SleepJustified), its page is freed once and last (FreedLast), and on   *)
(* one processor a kill reaches every sleeper (KilledAwake).               *)
(***************************************************************************)
EXTENDS Pipe, Counters

Inside == {"write", "wtested", "read", "copy", "rtested"}
ReadPos == {"read", "copy", "rtested", "rsleep", "rwake"}
WritePos == {"write", "wtested", "wsleep", "wwake"}

\* p->lock is held by the process that is between its acquire and its release.
Locked == \A p \in Procs : pc[p] \in Inside <=> lock = p

\* Who is in piperead or pipewrite has a descriptor, an end is open while there
\* is a descriptor for it and until the last fileclose reaches pipeclose, and
\* the page is freed when both ends are closed.
Ends ==
  /\ \A p \in Procs :
       /\ pc[p] \in ReadPos => p \in rref
       /\ pc[p] \in WritePos => p \in wref
       /\ pc[p] = "closer" => rref = {} /\ readopen
       /\ pc[p] = "closew" => wref = {} /\ writeopen
       /\ p \in unborn => p \notin rref /\ p \notin wref /\ pc[p] = "user"
  /\ \A p, q \in Procs :
       /\ pc[p] = "closer" /\ pc[q] = "closer" => p = q
       /\ pc[p] = "closew" /\ pc[q] = "closew" => p = q
  /\ rref # {} => readopen
  /\ wref # {} => writeopen
  /\ freed = IF readopen \/ writeopen THEN 0 ELSE 1

\* What a sleeping reader may rely on, by the position of the lock's holder.
ReaderAsleep ==
  /\ writeopen
  /\ lock = NoProc => Empty \/ silent
  /\ \A q \in Procs :
       /\ pc[q] = "read" => Empty \/ silent
       /\ pc[q] = "copy" => silent
       /\ pc[q] # "wtested"

\* The same for a sleeping writer.
WriterAsleep ==
  /\ readopen
  /\ lock = NoProc => Full
  /\ \A q \in Procs :
       /\ pc[q] \in {"read", "write"} => Full
       /\ pc[q] # "rtested"

\* Who has tested the pipe and is about to sleep finds it as tested.
Tested ==
  \A p \in Procs :
    /\ pc[p] = "rtested" => Empty /\ writeopen
    /\ pc[p] = "wtested" => Full /\ readopen

\* On one processor nobody kills a process between its test and its sleep.
Unkilled ==
  OneCpu => \A p \in Procs :
              killed[p] => pc[p] \notin {"rtested", "wtested", "rsleep", "wsleep"}

\* Nobody sleeps without a reason.
Sleepers ==
  \A p \in Procs :
    /\ pc[p] = "rsleep" => ReaderAsleep
    /\ pc[p] = "wsleep" => WriterAsleep

\* The inductive invariant.
PInv == TypeOK /\ Locked /\ Ends /\ Tested /\ Unkilled /\ Sleepers

-----------------------------------------------------------------------------
(* Steps *)

\* Leaves are proved by Zenon unless they name another prover.
USE Zenon

\* The sizes as the lemmas of Counters want them.
LEMMA Sizes ==
  /\ UINT \in Nat \ {0} /\ PIPESIZE \in Nat \ {0} /\ PIPESIZE \in 0 .. UINT-1
  /\ UINT % PIPESIZE = 0
BY SMT, PipeAssumption

\* A counter that wrapped around names the same byte of data.
LEMMA SameByte == \A a \in Nat : (a + UINT) % PIPESIZE = a % PIPESIZE
<1> TAKE a \in Nat
<1>1. UINT \in Nat /\ PIPESIZE \in Nat \ {0} /\ UINT % PIPESIZE = 0
  BY Sizes
<1>2. QED
  BY <1>1, ModWrap

\* A pipe is full when it holds PIPESIZE bytes, empty when it holds none, and
\* never both.
LEMMA HeldBounds ==
  ASSUME TypeOK
  PROVE  /\ Held = Dist(UINT, nread, nwrite) /\ Held \in 0 .. PIPESIZE
         /\ Empty <=> Held = 0
         /\ Full <=> Held = PIPESIZE
         /\ ~(Full /\ Empty)
<1>1. Held = Dist(UINT, nread, nwrite) /\ Held \in 0 .. UINT-1 /\ Held <= PIPESIZE
  BY DistMoves, Sizes DEF TypeOK, Held, Dist
<1>2. (Empty <=> Held = 0) /\ (Full <=> Held = PIPESIZE)
  BY SMT, <1>1, FullOrEmpty, Sizes DEF TypeOK, Empty, Full
<1>3. QED
  BY SMT, <1>1, <1>2, PipeAssumption

\* pipewrite takes the lock.
LEMMA PipewriteStep ==
  ASSUME PInv, NEW p \in Procs, NEW n \in 1 .. MaxN, pipewrite(p, n)
  PROVE  PInv'
<1> USE DEF PInv, pipewrite, pipeVars, openVars
<1>1. TypeOK'
  BY SMT, PipeAssumption DEF TypeOK, Held
<1>2. Locked'
  BY PipeAssumption DEF TypeOK, Locked, Inside
<1>3. Ends'
  BY SMT DEF TypeOK, Ends, ReadPos, WritePos
<1>4. Tested'
  BY DEF TypeOK, Tested, Empty, Full
<1>5. Unkilled'
  BY DEF TypeOK, Unkilled
<1>6. Sleepers'
  BY DEF TypeOK, Sleepers, ReaderAsleep, WriterAsleep, Empty, Full
<1>7. QED
  BY <1>1, <1>2, <1>3, <1>4, <1>5, <1>6

\* piperead takes the lock.
LEMMA PipereadStep ==
  ASSUME PInv, NEW p \in Procs, NEW n \in 1 .. MaxN, piperead(p, n)
  PROVE  PInv'
<1> USE DEF PInv, piperead, pipeVars, openVars
<1>1. TypeOK'
  BY SMT, PipeAssumption DEF TypeOK, Held
<1>2. Locked'
  BY PipeAssumption DEF TypeOK, Locked, Inside
<1>3. Ends'
  BY DEF TypeOK, Ends, ReadPos, WritePos
<1>4. Tested'
  BY DEF TypeOK, Tested, Empty, Full
<1>5. Unkilled'
  BY DEF TypeOK, Unkilled
<1>6. Sleepers'
  BY DEF TypeOK, Sleepers, ReaderAsleep, WriterAsleep, Empty, Full
<1>7. QED
  BY <1>1, <1>2, <1>3, <1>4, <1>5, <1>6

\* WriteByte: one more byte, and the lock stays.
LEMMA WriteByteStep ==
  ASSUME PInv, NEW p \in Procs, NEW v \in Vals, WriteByte(p, v)
  PROVE  PInv'
<1> USE DEF PInv, WriteByte, pipeVars, openVars
<1>0. lock = p /\ \A q \in Procs : pc[q] \in Inside => q = p
  BY DEF TypeOK, Locked, Inside
<1>1. TypeOK'
  <2>1. nread \in 0 .. UINT-1 /\ nwrite \in 0 .. UINT-1
    BY DEF TypeOK
  <2>2. Held' = Dist(UINT, nread, (nwrite + 1) % UINT)
    BY DEF Held, Dist
  <2>3. Held' <= PIPESIZE
    <3>1. Held = Dist(UINT, nread, nwrite) /\ Held \in 0 .. PIPESIZE-1
      BY SMT, HeldBounds, PipeAssumption
    <3>2. Held' = Held + 1
      BY SMT, <2>1, <2>2, <3>1, DistMoves, PipeAssumption
    <3>3. QED
      BY SMT, <3>1, <3>2, PipeAssumption
  <2>4. nwrite' \in 0 .. UINT-1
    BY <2>1, DistMoves, Sizes
  <2>5. left' \in [Procs -> 0 .. MaxN]
    <3>1. left[p] - 1 \in 0 .. MaxN
      BY SMT, PipeAssumption DEF TypeOK
    <3>2. QED
      BY <3>1 DEF TypeOK
  <2>6. data' \in [0 .. PIPESIZE-1 -> Vals]
    BY DEF TypeOK
  <2>7. QED
    BY <2>1, <2>3, <2>4, <2>5, <2>6 DEF TypeOK
<1>2. Locked'
  BY PipeAssumption DEF TypeOK, Locked, Inside
<1>3. Ends'
  BY DEF TypeOK, Ends, ReadPos, WritePos
<1>4. Tested'
  BY <1>0 DEF TypeOK, Tested, Inside
<1>5. Unkilled'
  BY DEF TypeOK, Unkilled
<1>6. Sleepers'
  <2>1. ASSUME NEW q \in Procs, pc[q] = "rsleep" PROVE ReaderAsleep'
    BY <1>0, <2>1, PipeAssumption DEF TypeOK, Inside, Sleepers, ReaderAsleep
  <2>2. \A q \in Procs : pc[q] # "wsleep"
    BY DEF Sleepers, WriterAsleep
  <2>3. QED
    BY <2>1, <2>2 DEF Sleepers
<1>7. QED
  BY <1>1, <1>2, <1>3, <1>4, <1>5, <1>6

\* WriteFull: back to the caller, or ready to sleep with every reader woken.
LEMMA WriteFullStep ==
  ASSUME PInv, NEW p \in Procs, WriteFull(p)
  PROVE  PInv'
<1> USE DEF PInv, WriteFull, WakeReaders, pipeVars, openVars
<1>0. lock = p /\ \A q \in Procs : pc[q] \in Inside => q = p
  BY DEF TypeOK, Locked, Inside
<1>1. TypeOK'
  <2>1. lock' \in Procs \cup {NoProc} /\ left' \in [Procs -> 0 .. MaxN]
    BY SMT, PipeAssumption DEF TypeOK
  <2>2. pc' \in [Procs -> {"user", "write", "wtested", "wsleep", "wwake",
                         "read", "copy", "rtested", "rsleep", "rwake", "closer", "closew"}]
    BY DEF TypeOK
  <2>3. QED
    BY <2>1, <2>2 DEF TypeOK, Held
<1>2. Locked'
  BY SMT, PipeAssumption DEF TypeOK, Locked, Inside
<1>3. Ends'
  BY SMT DEF TypeOK, Ends, ReadPos, WritePos
<1>4. Tested'
  BY DEF TypeOK, Tested, Empty, Full
<1>5. Unkilled'
  BY DEF TypeOK, Unkilled
<1>6. Sleepers'
  <2> Full' = Full /\ Empty' = Empty
    BY DEF Full, Empty
  <2>1. CASE ~readopen \/ killed[p]
    <3>1. \A q \in Procs : pc'[q] \notin Inside
      BY <1>0, <2>1 DEF TypeOK, Inside
    <3>2. ASSUME NEW q \in Procs, pc[q] = "rsleep" PROVE ReaderAsleep'
      <4>1. readopen
        BY <3>2 DEF Ends, ReadPos
      <4>2. silent'
        BY <2>1, <4>1 DEF TypeOK
      <4>3. QED
        BY <3>1, <3>2, <4>2 DEF Sleepers, ReaderAsleep, Inside
    <3>3. ASSUME NEW q \in Procs, pc[q] = "wsleep" PROVE WriterAsleep'
      BY <3>1, <3>3 DEF Sleepers, WriterAsleep, Inside
    <3>4. QED
      BY <2>1, <3>2, <3>3 DEF TypeOK, Sleepers
  <2>2. CASE ~(~readopen \/ killed[p])
    <3>1. \A q \in Procs : pc'[q] # "rsleep"
      BY <2>2 DEF TypeOK
    <3>2. ASSUME NEW q \in Procs, pc[q] = "wsleep" PROVE WriterAsleep'
      BY <1>0, <2>2, <3>2, PipeAssumption DEF TypeOK, Sleepers, WriterAsleep, Inside
    <3>3. QED
      BY <2>2, <3>1, <3>2 DEF TypeOK, Sleepers
  <2>3. QED
    BY <2>1, <2>2
<1>7. QED
  BY <1>1, <1>2, <1>3, <1>4, <1>5, <1>6

\* WriteDone wakes the readers and releases the lock.
LEMMA WriteDoneStep ==
  ASSUME PInv, NEW p \in Procs, WriteDone(p)
  PROVE  PInv'
<1> USE DEF PInv, WriteDone, WakeReaders, pipeVars, openVars
<1>1. TypeOK'
  BY PipeAssumption DEF TypeOK, Held
<1>2. Locked'
  BY PipeAssumption DEF TypeOK, Locked, Inside
<1>3. Ends'
  BY SMT DEF TypeOK, Ends, ReadPos, WritePos
<1>4. Tested'
  BY DEF TypeOK, Tested, Empty, Full
<1>5. Unkilled'
  BY DEF TypeOK, Unkilled
<1>6. Sleepers'
  BY DEF TypeOK, Sleepers, ReaderAsleep, WriterAsleep, Empty, Full
<1>7. QED
  BY <1>1, <1>2, <1>3, <1>4, <1>5, <1>6

\* ReadEmpty: back to the caller, or ready to sleep; no writer can be asleep.
LEMMA ReadEmptyStep ==
  ASSUME PInv, NEW p \in Procs, ReadEmpty(p)
  PROVE  PInv'
<1> USE DEF PInv, ReadEmpty, pipeVars, openVars
<1>0. lock = p /\ \A q \in Procs : pc[q] \in Inside => q = p
  BY DEF TypeOK, Locked, Inside
<1>1. TypeOK'
  BY SMT, PipeAssumption DEF TypeOK, Held
<1>2. Locked'
  BY SMT, PipeAssumption DEF TypeOK, Locked, Inside
<1>3. Ends'
  BY SMT DEF TypeOK, Ends, ReadPos, WritePos
<1>4. Tested'
  BY DEF TypeOK, Tested, Empty, Full
<1>5. Unkilled'
  BY DEF TypeOK, Unkilled
<1>6. Sleepers'
  <2> Full' = Full /\ Empty' = Empty /\ silent' = silent
    BY DEF Full, Empty
  <2>1. \A q \in Procs : pc[q] # "wsleep"
    BY HeldBounds DEF Sleepers, WriterAsleep
  <2>2. ASSUME NEW q \in Procs, pc[q] = "rsleep" PROVE ReaderAsleep'
    BY <1>0, <2>2 DEF TypeOK, Sleepers, ReaderAsleep, Inside
  <2>3. QED
    BY <2>1, <2>2 DEF TypeOK, Sleepers
<1>7. QED
  BY <1>1, <1>2, <1>3, <1>4, <1>5, <1>6

\* ReadByte: one byte fewer; a reader that still sleeps then owes it to a kill.
LEMMA ReadByteStep ==
  ASSUME PInv, NEW p \in Procs, ReadByte(p)
  PROVE  PInv'
<1> USE DEF PInv, ReadByte, pipeVars, openVars
<1>0. lock = p /\ \A q \in Procs : pc[q] \in Inside => q = p
  BY DEF TypeOK, Locked, Inside
<1>1. TypeOK'
  <2>1. nread \in 0 .. UINT-1 /\ nwrite \in 0 .. UINT-1
    BY DEF TypeOK
  <2>2. Held' = Dist(UINT, (nread + 1) % UINT, nwrite)
    BY DEF Held, Dist
  <2>3. Held' <= PIPESIZE
    <3>1. Held = Dist(UINT, nread, nwrite) /\ Held \in 1 .. PIPESIZE
      BY SMT, HeldBounds, PipeAssumption
    <3>2. Held' = Held - 1
      BY SMT, <2>1, <2>2, <3>1, DistMoves, PipeAssumption
    <3>3. QED
      BY SMT, <3>1, <3>2, PipeAssumption
  <2>4. nread' \in 0 .. UINT-1
    BY <2>1, DistMoves, Sizes
  <2>5. left' \in [Procs -> 0 .. MaxN]
    <3>1. left[p] - 1 \in 0 .. MaxN
      BY SMT, PipeAssumption DEF TypeOK
    <3>2. QED
      BY <3>1 DEF TypeOK
  <2>6. QED
    BY <2>1, <2>3, <2>4, <2>5 DEF TypeOK
<1>2. Locked'
  BY PipeAssumption DEF TypeOK, Locked, Inside
<1>3. Ends'
  BY SMT DEF TypeOK, Ends, ReadPos, WritePos
<1>4. Tested'
  BY <1>0 DEF TypeOK, Tested, Inside
<1>5. Unkilled'
  BY DEF TypeOK, Unkilled
<1>6. Sleepers'
  <2>1. ASSUME NEW q \in Procs, pc[q] = "rsleep" PROVE ReaderAsleep'
    <3>1. silent'
      BY <2>1 DEF TypeOK, Sleepers, ReaderAsleep
    <3>2. writeopen /\ lock' # NoProc /\ \A r \in Procs : pc'[r] # "wtested"
      BY <1>0, <2>1, PipeAssumption DEF TypeOK, Sleepers, ReaderAsleep
    <3>3. QED
      BY <3>1, <3>2 DEF ReaderAsleep
  <2>2. ASSUME NEW q \in Procs, pc[q] = "wsleep" PROVE WriterAsleep'
    BY <1>0, <2>2, PipeAssumption DEF TypeOK, Inside, Sleepers, WriterAsleep
  <2>3. QED
    BY <2>1, <2>2 DEF TypeOK, Sleepers
<1>7. QED
  BY <1>1, <1>2, <1>3, <1>4, <1>5, <1>6

\* ReadDone wakes the writers and releases the lock.
LEMMA ReadDoneStep ==
  ASSUME PInv, NEW p \in Procs, ReadDone(p)
  PROVE  PInv'
<1> USE DEF PInv, ReadDone, WakeWriters, pipeVars, openVars
<1>1. TypeOK'
  BY SMT, PipeAssumption DEF TypeOK, Held
<1>2. Locked'
  BY PipeAssumption DEF TypeOK, Locked, Inside
<1>3. Ends'
  BY SMT DEF TypeOK, Ends, ReadPos, WritePos
<1>4. Tested'
  BY DEF TypeOK, Tested, Empty, Full
<1>5. Unkilled'
  BY DEF TypeOK, Unkilled
<1>6. Sleepers'
  BY DEF TypeOK, Sleepers, ReaderAsleep, WriterAsleep, Empty, Full
<1>7. QED
  BY <1>1, <1>2, <1>3, <1>4, <1>5, <1>6

\* sleep releases the lock with the pipe still as it was tested.
LEMMA SleepStep ==
  ASSUME PInv, NEW p \in Procs, sleep(p)
  PROVE  PInv'
<1> USE DEF PInv, sleep, pipeVars, openVars
<1>0. lock = p /\ \A q \in Procs : pc[q] \in Inside => q = p
  BY DEF TypeOK, Locked, Inside
<1>1. TypeOK'
  BY PipeAssumption DEF TypeOK, Held
<1>2. Locked'
  BY PipeAssumption DEF TypeOK, Locked, Inside
<1>3. Ends'
  BY SMT DEF TypeOK, Ends, ReadPos, WritePos
<1>4. Tested'
  BY DEF TypeOK, Tested, Empty, Full
<1>5. Unkilled'
  BY DEF TypeOK, Unkilled
<1>6. Sleepers'
  <2> Full' = Full /\ Empty' = Empty /\ silent' = silent
    BY DEF Full, Empty
  <2>1. \A q \in Procs : pc'[q] \notin Inside
    BY <1>0 DEF TypeOK, Inside
  <2>2. ASSUME NEW q \in Procs, pc'[q] = "rsleep" PROVE ReaderAsleep'
    BY <2>1, <2>2 DEF TypeOK, Tested, Sleepers, ReaderAsleep, Inside
  <2>3. ASSUME NEW q \in Procs, pc'[q] = "wsleep" PROVE WriterAsleep'
    BY <2>1, <2>3 DEF TypeOK, Tested, Sleepers, WriterAsleep, Inside
  <2>4. QED
    BY <2>2, <2>3 DEF Sleepers
<1>7. QED
  BY <1>1, <1>2, <1>3, <1>4, <1>5, <1>6

\* sleep's return takes the lock again.
LEMMA ResumeStep ==
  ASSUME PInv, NEW p \in Procs, Resume(p)
  PROVE  PInv'
<1> USE DEF PInv, Resume, pipeVars, openVars
<1>1. TypeOK'
  BY PipeAssumption DEF TypeOK, Held
<1>2. Locked'
  BY PipeAssumption DEF TypeOK, Locked, Inside
<1>3. Ends'
  BY SMT DEF TypeOK, Ends, ReadPos, WritePos
<1>4. Tested'
  BY DEF TypeOK, Tested, Empty, Full
<1>5. Unkilled'
  BY DEF TypeOK, Unkilled
<1>6. Sleepers'
  BY DEF TypeOK, Sleepers, ReaderAsleep, WriterAsleep, Empty, Full
<1>7. QED
  BY <1>1, <1>2, <1>3, <1>4, <1>5, <1>6

\* kill wakes its victim; on one processor nobody is between test and sleep.
LEMMA KillStep ==
  ASSUME PInv, NEW p \in Procs, kill(p)
  PROVE  PInv'
<1> USE DEF PInv, kill, pipeVars, openVars
<1>1. TypeOK'
  BY PipeAssumption DEF TypeOK, Held
<1>2. Locked'
  BY PipeAssumption DEF TypeOK, Locked, Inside
<1>3. Ends'
  BY SMT DEF TypeOK, Ends, ReadPos, WritePos
<1>4. Tested'
  BY DEF TypeOK, Tested, Empty, Full
<1>5. Unkilled'
  <2>1. OneCpu => pc[p] \notin Inside
    BY PipeAssumption DEF Locked
  <2>2. QED
    BY <2>1 DEF TypeOK, Unkilled, Inside
<1>6. Sleepers'
  BY DEF TypeOK, Sleepers, ReaderAsleep, WriterAsleep, Empty, Full
<1>7. QED
  BY <1>1, <1>2, <1>3, <1>4, <1>5, <1>6

\* fork hands the ends on to a process that has none.
LEMMA FiledupStep ==
  ASSUME PInv, NEW p \in Procs, NEW q \in Procs, filedup(p, q)
  PROVE  PInv'
<1> USE DEF PInv, filedup, pipeVars, openVars
<1>1. TypeOK'
  BY PipeAssumption DEF TypeOK, Held
<1>2. Locked'
  BY PipeAssumption DEF TypeOK, Locked, Inside
<1>3. Ends'
  BY DEF TypeOK, Ends, ReadPos, WritePos
<1>4. Tested'
  BY DEF TypeOK, Tested, Empty, Full
<1>5. Unkilled'
  BY DEF TypeOK, Unkilled
<1>6. Sleepers'
  BY DEF TypeOK, Sleepers, ReaderAsleep, WriterAsleep, Empty, Full
<1>7. QED
  BY <1>1, <1>2, <1>3, <1>4, <1>5, <1>6

\* fileclose drops a reference; the last one of an end goes on to pipeclose.
LEMMA FilecloseStep ==
  ASSUME PInv, NEW p \in Procs, fileclose(p)
  PROVE  PInv'
<1> USE DEF PInv, fileclose, pipeVars, openVars
<1>1. TypeOK'
  BY PipeAssumption DEF TypeOK, Held
<1>2. Locked'
  BY SMT, PipeAssumption DEF TypeOK, Locked, Inside
<1>3. Ends'
  BY SMT DEF TypeOK, Ends, ReadPos, WritePos
<1>4. Tested'
  BY DEF TypeOK, Tested, Empty, Full
<1>5. Unkilled'
  BY DEF TypeOK, Unkilled
<1>6. Sleepers'
  BY SMT DEF TypeOK, Sleepers, ReaderAsleep, WriterAsleep, Empty, Full
<1>7. QED
  BY <1>1, <1>2, <1>3, <1>4, <1>5, <1>6

\* pipeclose closes the end and wakes the sleepers of the other.
LEMMA PipecloseStep ==
  ASSUME PInv, NEW p \in Procs, pipeclose(p)
  PROVE  PInv'
<1> USE DEF PInv, pipeclose, WakeReaders, WakeWriters, pipeVars, openVars
<1>1. TypeOK'
  <2>1. freed = 0
    BY DEF Ends
  <2>2. pc' \in [Procs -> {"user", "write", "wtested", "wsleep", "wwake",
                         "read", "copy", "rtested", "rsleep", "rwake", "closer", "closew"}]
    BY DEF TypeOK
  <2>3. readopen' \in BOOLEAN /\ writeopen' \in BOOLEAN /\ silent' \in BOOLEAN
    BY DEF TypeOK
  <2>4. QED
    BY SMT, <2>1, <2>2, <2>3 DEF TypeOK, Held
<1>2. Locked'
  <2>1. lock' = NoProc /\ \A q \in Procs : q # NoProc /\ pc[q] \notin Inside
    BY PipeAssumption DEF Locked
  <2>2. \A q \in Procs : pc'[q] \in {pc[q], "user", "rwake", "wwake"}
    BY DEF TypeOK
  <2>3. QED
    BY <2>1, <2>2 DEF Locked, Inside
<1>3. Ends'
  BY SMT DEF TypeOK, Ends, ReadPos, WritePos
<1>4. Tested'
  <2>1. \A q \in Procs : pc[q] \notin Inside
    BY PipeAssumption DEF Locked
  <2>2. QED
    BY <2>1 DEF TypeOK, Tested, Inside
<1>5. Unkilled'
  BY SMT DEF TypeOK, Unkilled
<1>6. Sleepers'
  BY DEF TypeOK, Sleepers, ReaderAsleep, WriterAsleep, Empty, Full
<1>7. QED
  BY <1>1, <1>2, <1>3, <1>4, <1>5, <1>6

-----------------------------------------------------------------------------
(* The invariant *)

\* Every step of the pipe preserves the invariant.
LEMMA NextStep == PInv /\ [Next]_vars => PInv'
<1> SUFFICES ASSUME PInv, [Next]_vars PROVE PInv'
  OBVIOUS
<1>1. CASE UNCHANGED vars
  BY <1>1 DEF vars, pipeVars, openVars, PInv, TypeOK, Held, Locked, Ends, Tested, Unkilled,
              Sleepers, ReaderAsleep, WriterAsleep, Full, Empty
<1>2. ASSUME NEW p \in Procs, Calling(p) PROVE PInv'
  BY <1>2, PipewriteStep, PipereadStep DEF Calling
<1>3. ASSUME NEW p \in Procs, Writing(p) PROVE PInv'
  BY <1>3, WriteByteStep, WriteFullStep, WriteDoneStep DEF Writing
<1>4. ASSUME NEW p \in Procs, Reading(p) PROVE PInv'
  BY <1>4, ReadEmptyStep, ReadByteStep, ReadDoneStep DEF Reading
<1>5. QED
  BY <1>1, <1>2, <1>3, <1>4, SleepStep, ResumeStep, KillStep, FiledupStep, FilecloseStep,
     PipecloseStep DEF Next

\* The pipe is created with its invariant: pipealloc.
LEMMA InitStep == Init => PInv
<1> SUFFICES ASSUME Init PROVE PInv
  OBVIOUS
<1>1. TypeOK
  <2>1. Held = 0
    BY SMT, PipeAssumption DEF Init, Held
  <2>2. silent \in BOOLEAN
    BY DEF Init
  <2>3. QED
    BY SMT, <2>1, <2>2, PipeAssumption DEF Init, TypeOK
<1>2. Locked /\ Ends
  BY PipeAssumption DEF Init, Locked, Ends, Inside, ReadPos, WritePos
<1>3. Tested /\ Unkilled /\ Sleepers
  BY DEF Init, Tested, Unkilled, Sleepers
<1>4. QED
  BY <1>1, <1>2, <1>3 DEF PInv

\* The pipe keeps its invariant, for any processes, PIPESIZE and UINT.
THEOREM PipeInvariant == Spec => []PInv
<1>1. Init => PInv
  BY InitStep
<1>2. PInv /\ [Next]_vars => PInv'
  BY NextStep
<1>3. QED
  BY <1>1, <1>2, PTL DEF Spec

\* No lost wakeup in piperead and pipewrite (pipe.c:77-122), but for the return
\* of a killed writer that the property excepts.
THEOREM NoLostWakeup == Spec => []SleepJustified
<1>1. PInv => SleepJustified
  BY DEF PInv, Sleepers, ReaderAsleep, WriterAsleep, SleepJustified
<1>2. QED
  BY <1>1, PipeInvariant, PTL

\* pipeclose frees the page once, when no process is in the pipe or has a
\* descriptor for it (pipe.c:60-75).
THEOREM PageFreedLast == Spec => []FreedLast
<1>1. PInv => FreedLast
  <2> SUFFICES ASSUME PInv, freed > 0 PROVE FreedLast
    BY DEF FreedLast
  <2>1. ~readopen /\ ~writeopen /\ freed = 1
    BY SMT DEF PInv, Ends
  <2>2. rref = {} /\ wref = {}
    BY <2>1 DEF PInv, Ends
  <2>3. \A p \in Procs : pc[p] = "user"
    BY <2>1, <2>2 DEF PInv, TypeOK, Ends, ReadPos, WritePos
  <2>4. lock = NoProc
    BY <2>3 DEF PInv, TypeOK, Locked, Inside
  <2>5. QED
    BY <2>1, <2>2, <2>3, <2>4 DEF FreedLast
<1>2. QED
  BY <1>1, PipeInvariant, PTL

\* On one processor a killed process never sleeps in the pipe: kill() comes
\* before the test of killed or finds the process asleep (pipe.c:86, pipe.c:107).
THEOREM KillReachesSleeper == ASSUME OneCpu PROVE Spec => []KilledAwake
<1>1. PInv => KilledAwake
  BY OneCpu DEF PInv, Unkilled, KilledAwake
<1>2. QED
  BY <1>1, PipeInvariant, PTL

-----------------------------------------------------------------------------
(* The pipe is a first-in first-out channel *)

\* The bytes in the pipe are a slice of its ring.
LEMMA BytesSlice ==
  ASSUME NEW n \in Nat, nread \in Nat, Held = n, data \in [0 .. PIPESIZE-1 -> Vals]
  PROVE  Len(Bytes) = n
<1>1. \A i \in 0 .. PIPESIZE-1 : data[i] \in Vals
  OBVIOUS
<1>2. IsSlice(Vals, PIPESIZE, data, nread, n)
  BY <1>1, SliceSeq, Sizes
<1>3. QED
  BY <1>2 DEF IsSlice, Slice, Bytes

\* WriteByte puts a byte into the channel.
LEMMA WriteByteMaps ==
  ASSUME PInv, NEW p \in Procs, NEW v \in Vals, WriteByte(p, v)
  PROVE  Channel!Put(v)
<1> DEFINE h == Held
<1>0. nread \in 0 .. UINT-1 /\ nwrite \in 0 .. UINT-1 /\ nread \in Nat
  BY SMT, PipeAssumption DEF PInv, TypeOK
<1>1. h \in 0 .. PIPESIZE-1 /\ h = Dist(UINT, nread, nwrite)
  BY SMT, HeldBounds, PipeAssumption DEF PInv, WriteByte
<1>2. Held' = h + 1
  <2>1. Held' = Dist(UINT, nread, (nwrite + 1) % UINT)
    BY DEF WriteByte, Held, Dist
  <2>2. QED
    BY SMT, <1>0, <1>1, <2>1, DistMoves, PipeAssumption
<1>3. nwrite % PIPESIZE = (nread + h) % PIPESIZE
  <2> HIDE DEF h
  <2>1. nwrite = nread + h \/ nwrite + UINT = nread + h
    <3>1. h = IF nread <= nwrite THEN nwrite - nread ELSE nwrite - nread + UINT
      BY <1>0, <1>1, DistIs, Sizes
    <3>2. QED
      BY SMT, <1>0, <3>1, PipeAssumption
  <2>2. (nwrite + UINT) % PIPESIZE = nwrite % PIPESIZE
    BY SMT, <1>0, SameByte
  <2>3. QED
    BY <2>1, <2>2
<1>4. /\ data' = [data EXCEPT ![(nread + h) % PIPESIZE] = v] /\ nread' = nread
      /\ data \in [0 .. PIPESIZE-1 -> Vals]
  BY <1>3 DEF WriteByte, PInv, TypeOK
<1>5. Is(Slice(PIPESIZE, [data EXCEPT ![(nread + h) % PIPESIZE] = v], nread, h + 1),
         Append(Slice(PIPESIZE, data, nread, h), v))
  <2> HIDE DEF h
  <2>1. DOMAIN data = 0 .. PIPESIZE-1
    BY <1>4
  <2>2. QED
    BY <1>0, <1>1, <2>1, SliceAppend, Sizes
<1>6. Bytes' = Append(Bytes, v)
  BY <1>2, <1>4, <1>5 DEF Bytes, Slice, Is
<1>7. Len(Bytes) < PIPESIZE
  <2>1. Len(Bytes) = h /\ h < PIPESIZE
    <3>1. h \in Nat /\ h < PIPESIZE
      BY SMT, <1>1, PipeAssumption
    <3>2. QED
      BY <1>0, <1>4, <3>1, BytesSlice
  <2>2. QED
    BY <2>1
<1>8. QED
  BY <1>6, <1>7 DEF Channel!Put

\* ReadByte gets the oldest byte from the channel.
LEMMA ReadByteMaps ==
  ASSUME PInv, NEW p \in Procs, ReadByte(p)
  PROVE  Channel!Get
<1> DEFINE h == Held
<1>0. nread \in 0 .. UINT-1 /\ nwrite \in 0 .. UINT-1 /\ nread \in Nat
  BY SMT, PipeAssumption DEF PInv, TypeOK
<1>1. h \in 1 .. PIPESIZE /\ h = Dist(UINT, nread, nwrite)
  BY SMT, HeldBounds, PipeAssumption DEF PInv, ReadByte
<1>2. Held' = h - 1
  <2>1. Held' = Dist(UINT, (nread + 1) % UINT, nwrite)
    BY DEF ReadByte, Held, Dist
  <2>2. QED
    BY SMT, <1>0, <1>1, <2>1, DistMoves, PipeAssumption
<1>3. /\ data' = data /\ nread' = (nread + 1) % UINT
      /\ data \in [0 .. PIPESIZE-1 -> Vals]
  BY DEF ReadByte, PInv, TypeOK
<1>4. Is(Slice(PIPESIZE, data, (nread + 1) % UINT, h - 1), Tail(Slice(PIPESIZE, data, nread, h)))
  <2> HIDE DEF h
  <2>1. PIPESIZE \in 1 .. UINT-1 /\ UINT \in Nat \ {0} /\ UINT % PIPESIZE = 0
    BY SMT, PipeAssumption
  <2>2. QED
    BY <1>0, <1>1, <2>1, SliceTail
<1>5. Bytes' = Tail(Bytes)
  BY <1>2, <1>3, <1>4 DEF Bytes, Slice, Is
<1>6. Bytes # <<>>
  <2>1. Len(Bytes) = h /\ h # 0
    <3>1. h \in Nat /\ h # 0
      BY SMT, <1>1, PipeAssumption
    <3>2. QED
      BY <1>0, <1>3, <3>1, BytesSlice
  <2>2. QED
    BY SMT, <2>1
<1>7. QED
  BY <1>5, <1>6 DEF Channel!Get

\* Every step is a step of the channel or leaves it as it is.
LEMMA NextMaps == PInv /\ [Next]_vars => [Channel!Next]_Bytes
<1> SUFFICES ASSUME PInv, [Next]_vars PROVE Channel!Next \/ Bytes' = Bytes
  OBVIOUS
<1>1. CASE UNCHANGED pipeVars
  BY <1>1 DEF pipeVars, Bytes, Held
<1>2. ASSUME NEW p \in Procs, NEW v \in Vals, WriteByte(p, v) PROVE Channel!Next
  BY <1>2, WriteByteMaps DEF Channel!Next
<1>3. ASSUME NEW p \in Procs, ReadByte(p) PROVE Channel!Next
  BY <1>3, ReadByteMaps DEF Channel!Next
<1>4. ASSUME NEW p \in Procs, Calling(p) PROVE UNCHANGED pipeVars
  BY <1>4 DEF Calling, pipewrite, piperead
<1>5. ASSUME NEW p \in Procs, WriteFull(p) \/ WriteDone(p) PROVE UNCHANGED pipeVars
  BY <1>5 DEF WriteFull, WriteDone
<1>6. ASSUME NEW p \in Procs, ReadEmpty(p) \/ ReadDone(p) PROVE UNCHANGED pipeVars
  BY <1>6 DEF ReadEmpty, ReadDone
<1>7. ASSUME NEW p \in Procs, sleep(p) \/ Resume(p) \/ kill(p) PROVE UNCHANGED pipeVars
  BY <1>7 DEF sleep, Resume, kill
<1>8. ASSUME NEW p \in Procs, fileclose(p) \/ pipeclose(p) PROVE UNCHANGED pipeVars
  BY <1>8 DEF fileclose, pipeclose
<1>9. ASSUME NEW p \in Procs, NEW q \in Procs, filedup(p, q) PROVE UNCHANGED pipeVars
  BY <1>9 DEF filedup
<1>10. CASE UNCHANGED vars
  BY <1>1, <1>10 DEF vars
<1>11. QED
  BY <1>1, <1>2, <1>3, <1>4, <1>5, <1>6, <1>7, <1>8, <1>9, <1>10
     DEF Next, Writing, Reading

\* The pipe implements a bounded first-in first-out channel: bytes come out once
\* and in the order of the writes, also when nread and nwrite wrap around
\* (pipe.c:85-93, pipe.c:113-117).
THEOREM PipeIsFifo == Spec => FifoSpec
<1>1. Init => Channel!Init
  <2> SUFFICES ASSUME Init PROVE Channel!Init
    OBVIOUS
  <2>1. Held = 0
    BY SMT, PipeAssumption DEF Init, Held
  <2>2. Bytes = <<>>
    BY SMT, <2>1 DEF Bytes
  <2>3. QED
    BY <2>2 DEF Channel!Init
<1>2. PInv /\ [Next]_vars => [Channel!Next]_Bytes
  BY NextMaps
<1>3. QED
  BY <1>1, <1>2, PipeInvariant, PTL DEF Spec, FifoSpec, Channel!Spec

=============================================================================
