----------------------------- MODULE AtomicDisk -----------------------------
(***************************************************************************)
(* What the log promises the file system (the comment at the head of       *)
(* log.c): operations write blocks of memory; everything written reaches   *)
(* the disk at once, at a moment when no operation is under way; a crash   *)
(* loses what was written since, and nothing else.                         *)
(***************************************************************************)
CONSTANTS Procs, Blocks, Vals

VARIABLES
  mem,      \* what the file system reads
  stable,   \* what it would read after a crash
  active    \* the processes inside an operation

vars == <<mem, stable, active>>

Init ==
  /\ mem \in [Blocks -> Vals]
  /\ stable = mem
  /\ active = {}

Begin(p) ==
  /\ p \notin active
  /\ active' = active \cup {p}
  /\ UNCHANGED <<mem, stable>>

Write(p, b, v) ==
  /\ p \in active
  /\ mem' = [mem EXCEPT ![b] = v]
  /\ UNCHANGED <<stable, active>>

End(p) ==
  /\ p \in active
  /\ active' = active \ {p}
  /\ UNCHANGED <<mem, stable>>

Commit ==
  /\ active = {}
  /\ stable' = mem
  /\ UNCHANGED <<mem, active>>

Crash ==
  /\ mem' = stable
  /\ active' = {}
  /\ UNCHANGED stable

Next ==
  \/ \E p \in Procs : Begin(p) \/ End(p) \/ \E b \in Blocks, v \in Vals : Write(p, b, v)
  \/ Commit
  \/ Crash

Spec == Init /\ [][Next]_vars
=============================================================================
