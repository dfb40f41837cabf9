------------------------------- MODULE MCMlfq -------------------------------
(* Instances of Mlfq for TLC. *)
EXTENDS Mlfq, TLC

\* A process may run through one tick, or is preempted by every tick.
MCQMax == 0 :> 1 @@ 1 :> 1
MCQMaxLive == 0 :> 0 @@ 1 :> 0
=============================================================================
