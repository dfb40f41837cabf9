----------------------------- MODULE MCThreads ------------------------------
(* Instances of Threads for TLC. *)
EXTENDS Threads, TLC

\* Pages are handed out in no particular order.
Symmetry == Permutations(Pages)
=============================================================================
