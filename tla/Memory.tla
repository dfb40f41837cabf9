------------------------------- MODULE Memory -------------------------------
(***************************************************************************)
(* What user memory promises: each process has pages of its own.  A child  *)
(* starts with a copy, sbrk adds zeros or takes pages away at the end,     *)
(* exec replaces everything by the image of the program, and a store is    *)
(* seen by its own process only.  Whatever fails changes nothing.          *)
(***************************************************************************)
EXTENDS Integers, Sequences

CONSTANTS Slots, Values,
          MaxPages,      \* pages below KERNBASE
          Images         \* what exec can make of its programs

VARIABLE memory          \* the pages of the process in each slot; <<>> without one

\* The first process has the page of its initial code.
Init == \A p \in Slots : Len(memory[p]) <= 1

Set(p, s) == memory' = [memory EXCEPT ![p] = s]

Fork(p, q) == memory[q] = <<>> /\ Set(q, memory[p])

Grow(p) == \E n \in 1 .. MaxPages : Set(p, memory[p] \o [v \in 1 .. n |-> 0])

Shrink(p) == \E n \in 0 .. Len(memory[p]) : Set(p, SubSeq(memory[p], 1, n))

Exec(p) == \E s \in Images : Set(p, s)

Store(p) ==
  \E v \in 1 .. Len(memory[p]), x \in Values : Set(p, [memory[p] EXCEPT ![v] = x])

Free(p) == Set(p, <<>>)

Next ==
  \E p \in Slots :
    \/ Shrink(p) \/ Grow(p) \/ Exec(p) \/ Store(p) \/ Free(p)
    \/ \E q \in Slots : Fork(p, q)

Spec == Init /\ [][Next]_memory
=============================================================================
