-------------------------------- MODULE Pipe --------------------------------
(***************************************************************************)
(* One pipe (pipe.c) between any number of readers and writers, with the   *)
(* references to its two ends that file.c counts.                          *)
(*                                                                         *)
(* A byte copied, a sleep and a return are one step each, with p->lock     *)
(* held by lock.  nread and nwrite are uints: they wrap at UINT.           *)
(***************************************************************************)
EXTENDS Integers, Sequences

CONSTANTS
  Procs,      \* processes that may come to hold an end
  NoProc,
  Vals,       \* bytes
  PIPESIZE,
  UINT,       \* 2^32
  OneEnd,     \* a process closes one end before it uses the other, as in sh.c
  OneCpu,     \* a single processor: nobody else runs while a spinlock is held
  MaxN        \* bound: the longest read or write

ASSUME PipeAssumption ==
  /\ NoProc \notin Procs
  /\ PIPESIZE \in Nat \ {0}
  /\ UINT \in Nat /\ UINT % PIPESIZE = 0 /\ UINT > PIPESIZE
  /\ MaxN \in Nat
  /\ OneEnd \in BOOLEAN /\ OneCpu \in BOOLEAN

VARIABLES
  data, nread, nwrite, readopen, writeopen, lock,   \* struct pipe
  freed,                 \* how often the pipe's page was given to kfree
  rref, wref,            \* the processes with a descriptor for each end
  unborn,                \* processes not forked yet
  pc, left, killed,      \* per process: its position, bytes still to copy
  silent                 \* history: since the last wakeup of the readers, a killed
                         \* writer has returned without one

pipeVars == <<data, nread, nwrite>>
openVars == <<readopen, writeopen, freed, rref, wref, unborn>>
vars == <<pipeVars, openVars, lock, pc, left, killed, silent>>

Full == nwrite = (nread + PIPESIZE) % UINT
Empty == nread = nwrite

\* pipealloc, and the fork that hands the ends on.
Init ==
  /\ \E v \in Vals : data = [i \in 0 .. PIPESIZE-1 |-> v]
  /\ nread = 0 /\ nwrite = 0
  /\ readopen = TRUE /\ writeopen = TRUE
  /\ freed = 0
  /\ \E p \in Procs : rref = {p} /\ wref = {p} /\ unborn = Procs \ {p}
  /\ lock = NoProc
  /\ pc = [p \in Procs |-> "user"]
  /\ left = [p \in Procs |-> 0]
  /\ killed = [p \in Procs |-> FALSE]
  /\ silent = FALSE

\* wakeup(&p->nread) and wakeup(&p->nwrite), with pcs the positions.
WakeReaders(pcs) == [p \in Procs |-> IF pcs[p] = "rsleep" THEN "rwake" ELSE pcs[p]]
WakeWriters(pcs) == [p \in Procs |-> IF pcs[p] = "wsleep" THEN "wwake" ELSE pcs[p]]

-----------------------------------------------------------------------------
(* pipewrite *)

pipewrite(p, n) ==
  /\ pc[p] = "user" /\ p \in wref /\ ~killed[p]
  /\ lock = NoProc
  /\ lock' = p
  /\ pc' = [pc EXCEPT ![p] = "write"]
  /\ left' = [left EXCEPT ![p] = n]
  /\ UNCHANGED <<pipeVars, openVars, killed, silent>>

\* Mistaken WriteByte: the counter moves before it is used.
WritePreIncrement(p, v) ==
  /\ pc[p] = "write" /\ left[p] > 0 /\ ~Full
  /\ data' = [data EXCEPT ![(nwrite + 1) % PIPESIZE] = v]
  /\ nwrite' = (nwrite + 1) % UINT
  /\ left' = [left EXCEPT ![p] = @ - 1]
  /\ UNCHANGED <<nread, openVars, lock, pc, killed, silent>>

WriteByte(p, v) ==
  /\ pc[p] = "write" /\ left[p] > 0 /\ ~Full
  /\ data' = [data EXCEPT ![nwrite % PIPESIZE] = v]
  /\ nwrite' = (nwrite + 1) % UINT
  /\ left' = [left EXCEPT ![p] = @ - 1]
  /\ UNCHANGED <<nread, openVars, lock, pc, killed, silent>>

\* The pipe is full: -1 if nobody will read, else wake the readers and sleep.
\* p->lock does not keep kill() out between the test of killed and the sleep.
WriteFull(p) ==
  /\ pc[p] = "write" /\ left[p] > 0 /\ Full
  /\ IF ~readopen \/ killed[p]
     THEN /\ lock' = NoProc
          /\ pc' = [pc EXCEPT ![p] = "user"] /\ left' = [left EXCEPT ![p] = 0]
          /\ silent' = (silent \/ killed[p])
     ELSE /\ pc' = WakeReaders([pc EXCEPT ![p] = "wtested"]) /\ silent' = FALSE
          /\ UNCHANGED <<lock, left>>
  /\ UNCHANGED <<pipeVars, openVars, killed>>

WriteDone(p) ==
  /\ pc[p] = "write" /\ left[p] = 0
  /\ lock' = NoProc
  /\ pc' = WakeReaders([pc EXCEPT ![p] = "user"])
  /\ silent' = FALSE
  /\ UNCHANGED <<pipeVars, openVars, left, killed>>

-----------------------------------------------------------------------------
(* piperead *)

piperead(p, n) ==
  /\ pc[p] = "user" /\ p \in rref /\ ~killed[p]
  /\ lock = NoProc
  /\ lock' = p
  /\ pc' = [pc EXCEPT ![p] = "read"]
  /\ left' = [left EXCEPT ![p] = n]
  /\ UNCHANGED <<pipeVars, openVars, killed, silent>>

\* Nothing to read yet: -1 if killed, else sleep.
ReadEmpty(p) ==
  /\ pc[p] = "read" /\ Empty /\ writeopen
  /\ IF killed[p]
     THEN /\ lock' = NoProc
          /\ pc' = [pc EXCEPT ![p] = "user"] /\ left' = [left EXCEPT ![p] = 0]
     ELSE pc' = [pc EXCEPT ![p] = "rtested"] /\ UNCHANGED <<lock, left>>
  /\ UNCHANGED <<pipeVars, openVars, killed, silent>>

ReadByte(p) ==
  /\ pc[p] \in {"read", "copy"} /\ left[p] > 0 /\ ~Empty
  /\ nread' = (nread + 1) % UINT
  /\ pc' = [pc EXCEPT ![p] = "copy"]
  /\ left' = [left EXCEPT ![p] = @ - 1]
  /\ UNCHANGED <<data, nwrite, openVars, lock, killed, silent>>

\* Mistaken end of piperead: the writers are not woken.
ReadDoneNoWakeup(p) ==
  /\ \/ pc[p] = "copy" /\ (left[p] = 0 \/ Empty)
     \/ pc[p] = "read" /\ Empty /\ ~writeopen
  /\ lock' = NoProc
  /\ pc' = [pc EXCEPT ![p] = "user"]
  /\ left' = [left EXCEPT ![p] = 0]
  /\ UNCHANGED <<pipeVars, openVars, killed, silent>>

\* All read that was asked for or there is; or the end of the stream.
ReadDone(p) ==
  /\ \/ pc[p] = "copy" /\ (left[p] = 0 \/ Empty)
     \/ pc[p] = "read" /\ Empty /\ ~writeopen
  /\ lock' = NoProc
  /\ pc' = WakeWriters([pc EXCEPT ![p] = "user"])
  /\ left' = [left EXCEPT ![p] = 0]
  /\ UNCHANGED <<pipeVars, openVars, killed, silent>>

-----------------------------------------------------------------------------
(* sleep and kill *)

\* sleep() lets go of p->lock once it has ptable.lock.
sleep(p) ==
  /\ pc[p] \in {"rtested", "wtested"}
  /\ lock' = NoProc
  /\ pc' = [pc EXCEPT ![p] = IF @ = "rtested" THEN "rsleep" ELSE "wsleep"]
  /\ UNCHANGED <<pipeVars, openVars, left, killed, silent>>

\* sleep() returns with the lock taken again.
Resume(p) ==
  /\ pc[p] \in {"rwake", "wwake"}
  /\ lock = NoProc
  /\ lock' = p
  /\ pc' = [pc EXCEPT ![p] = IF @ = "rwake" THEN "read" ELSE "write"]
  /\ UNCHANGED <<pipeVars, openVars, left, killed, silent>>

\* Mistaken kill: a sleeping process is not made runnable.
KillNoWake(p) ==
  /\ p \notin unborn /\ ~killed[p] /\ (OneCpu => lock = NoProc)
  /\ killed' = [killed EXCEPT ![p] = TRUE]
  /\ UNCHANGED <<pipeVars, openVars, lock, pc, left, silent>>

kill(p) ==
  /\ p \notin unborn /\ ~killed[p] /\ (OneCpu => lock = NoProc)
  /\ killed' = [killed EXCEPT ![p] = TRUE]
  /\ pc' = [pc EXCEPT ![p] = CASE @ = "rsleep" -> "rwake" [] @ = "wsleep" -> "wwake" [] OTHER -> @]
  /\ UNCHANGED <<pipeVars, openVars, lock, left, silent>>

-----------------------------------------------------------------------------
(* The ends: fork's filedup, fileclose and pipeclose *)

filedup(p, q) ==
  /\ pc[p] = "user" /\ p \in rref \cup wref /\ q \in unborn
  /\ unborn' = unborn \ {q}
  /\ rref' = IF p \in rref THEN rref \cup {q} ELSE rref
  /\ wref' = IF p \in wref THEN wref \cup {q} ELSE wref
  /\ UNCHANGED <<pipeVars, readopen, writeopen, freed, lock, pc, left, killed, silent>>

\* fileclose: the last reference goes on to pipeclose.
fileclose(p) ==
  /\ pc[p] = "user"
  /\ \/ p \in rref /\ rref' = rref \ {p} /\ UNCHANGED wref
        /\ pc' = [pc EXCEPT ![p] = IF rref = {p} THEN "closer" ELSE @]
     \/ p \in wref /\ wref' = wref \ {p} /\ UNCHANGED rref
        /\ pc' = [pc EXCEPT ![p] = IF wref = {p} THEN "closew" ELSE @]
  /\ UNCHANGED <<pipeVars, readopen, writeopen, freed, unborn, lock, left, killed, silent>>

\* Mistaken pipeclose: the pipe goes with its writers' end.
PipecloseEarly(p) ==
  LET pcs == [pc EXCEPT ![p] = "user"] IN
  /\ pc[p] \in {"closer", "closew"}
  /\ lock = NoProc
  /\ IF pc[p] = "closew"
     THEN writeopen' = FALSE /\ pc' = WakeReaders(pcs) /\ silent' = FALSE /\ UNCHANGED readopen
     ELSE readopen' = FALSE /\ pc' = WakeWriters(pcs) /\ UNCHANGED <<writeopen, silent>>
  /\ freed' = IF ~writeopen' THEN freed + 1 ELSE freed
  /\ UNCHANGED <<pipeVars, rref, wref, unborn, lock, left, killed>>

\* Mistaken pipeclose: the readers of a closed pipe are not woken.
PipecloseNoWakeup(p) ==
  /\ pc[p] \in {"closer", "closew"}
  /\ lock = NoProc
  /\ IF pc[p] = "closew"
     THEN writeopen' = FALSE /\ UNCHANGED readopen
     ELSE readopen' = FALSE /\ UNCHANGED writeopen
  /\ pc' = [pc EXCEPT ![p] = "user"]
  /\ freed' = IF ~readopen' /\ ~writeopen' THEN freed + 1 ELSE freed
  /\ UNCHANGED <<pipeVars, rref, wref, unborn, lock, left, killed, silent>>

pipeclose(p) ==
  LET pcs == [pc EXCEPT ![p] = "user"] IN
  /\ pc[p] \in {"closer", "closew"}
  /\ lock = NoProc
  /\ IF pc[p] = "closew"
     THEN writeopen' = FALSE /\ pc' = WakeReaders(pcs) /\ silent' = FALSE /\ UNCHANGED readopen
     ELSE readopen' = FALSE /\ pc' = WakeWriters(pcs) /\ UNCHANGED <<writeopen, silent>>
  /\ freed' = IF ~readopen' /\ ~writeopen' THEN freed + 1 ELSE freed
  /\ UNCHANGED <<pipeVars, rref, wref, unborn, lock, left, killed>>

-----------------------------------------------------------------------------
Writing(p) == WriteFull(p) \/ WriteDone(p) \/ \E v \in Vals : WriteByte(p, v)
Reading(p) == ReadEmpty(p) \/ ReadByte(p) \/ ReadDone(p)
Calling(p) ==
  /\ OneEnd => p \notin rref \cap wref
  /\ \E n \in 1 .. MaxN : pipewrite(p, n) \/ piperead(p, n)

Next ==
  \E p \in Procs :
    \/ kill(p)
    \/ /\ OneCpu => lock \in {p, NoProc}
       /\ \/ Calling(p) \/ Writing(p) \/ Reading(p) \/ sleep(p) \/ Resume(p)
          \/ fileclose(p) \/ pipeclose(p)
          \/ \E q \in Procs : filedup(p, q)

Spec == Init /\ [][Next]_vars

\* Kernel code goes on, a spinlock is got in the end, and whoever holds an end
\* closes it in the end, if only by exiting.
Fairness ==
  \A p \in Procs :
    /\ WF_vars(Writing(p)) /\ WF_vars(Reading(p)) /\ WF_vars(sleep(p))
    /\ SF_vars(Resume(p)) /\ SF_vars(pipeclose(p))
    /\ SF_vars(fileclose(p))

FairSpec == Spec /\ Fairness

-----------------------------------------------------------------------------
(* Properties *)

Held == (nwrite - nread + UINT) % UINT

\* Every variable has its type, and the pipe never holds more than PIPESIZE.
TypeOK ==
  /\ data \in [0 .. PIPESIZE-1 -> Vals]
  /\ nread \in 0 .. UINT-1 /\ nwrite \in 0 .. UINT-1
  /\ Held <= PIPESIZE
  /\ readopen \in BOOLEAN /\ writeopen \in BOOLEAN
  /\ freed \in 0 .. 1
  /\ unborn \subseteq Procs
  /\ rref \subseteq Procs /\ wref \subseteq Procs
  /\ lock \in Procs \cup {NoProc}
  /\ pc \in [Procs -> {"user", "write", "wtested", "wsleep", "wwake",
                       "read", "copy", "rtested", "rsleep", "rwake", "closer", "closew"}]
  /\ left \in [Procs -> 0 .. MaxN]
  /\ killed \in [Procs -> BOOLEAN]
  /\ silent \in BOOLEAN

\* The bytes in the pipe, oldest first.
Bytes == [i \in 1 .. Held |-> data[(nread + i - 1) % PIPESIZE]]

\* The pipe is a first-in first-out channel of capacity PIPESIZE, whatever the
\* readers and writers and also when nread and nwrite wrap around.
Channel == INSTANCE Fifo WITH Capacity <- PIPESIZE, chan <- Bytes

\* The specification that Pipe implements.
FifoSpec == Channel!Spec

\* No lost wakeup: a reader asleep in piperead has an empty pipe with a writer's
\* end open, a writer asleep in pipewrite has a full pipe with a reader's end
\* open, except while the process that changed this still holds the lock.
\* One wakeup is missing in the code: a writer that finds the pipe full and
\* itself killed returns (pipe.c:86) without waking the readers, who then sleep
\* on until another write or the last close; from then to there (silent), and
\* only then, readers may sleep beside bytes.
SleepJustified ==
  /\ TypeOK
  /\ \A p \in Procs :
       /\ pc[p] = "rsleep" =>
            /\ writeopen
            /\ lock = NoProc => Empty \/ silent
       /\ pc[p] = "wsleep" => readopen /\ (lock = NoProc => Full)

\* A kill gets through: no killed process sleeps in piperead or pipewrite.  This
\* is so on one processor only.  On two, kill() can come between the test of
\* killed (pipe.c:86, pipe.c:107) and sleep(), finds the process RUNNING, wakes
\* nobody, and the killed process sleeps until the pipe wakes it.
KilledAwake == \A p \in Procs : killed[p] => pc[p] \notin {"rsleep", "wsleep"}

\* The page of the pipe is freed once, by the second pipeclose, and not before
\* every process is out of it and has given up its descriptors.
FreedLast ==
  freed > 0 => /\ freed = 1 /\ rref = {} /\ wref = {} /\ lock = NoProc
               /\ \A p \in Procs : pc[p] = "user"

\* Every read, write and close returns: a reader blocked for data and a writer
\* blocked for room get on in the end, if only because the other end is closed.
CallsReturn == \A p \in Procs : pc[p] # "user" ~> pc[p] = "user"
=============================================================================
