-------------------------------- MODULE Fifo --------------------------------
(***************************************************************************)
(* What a pipe promises its two ends: a bounded first-in first-out channel *)
(* of bytes, from which every byte written comes out at most once and in   *)
(* order.                                                                  *)
(***************************************************************************)
EXTENDS Naturals, Sequences

CONSTANTS Vals, Capacity

VARIABLE chan

Init == chan = <<>>

Put(v) ==
  /\ Len(chan) < Capacity
  /\ chan' = Append(chan, v)

Get ==
  /\ chan # <<>>
  /\ chan' = Tail(chan)

Next == Get \/ \E v \in Vals : Put(v)

Spec == Init /\ [][Next]_chan
=============================================================================
