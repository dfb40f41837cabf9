----------------------------- MODULE LineInput ------------------------------
(***************************************************************************)
(* What the console promises those who type and those who read: a line can *)
(* be edited until it is ended, an ended line is read as it was typed, and *)
(* a buffer that is full is handed over as it stands.                      *)
(***************************************************************************)
EXTENDS Naturals, Sequences

CONSTANTS Bytes, Ends, Capacity

VARIABLES ready, line

Init == ready = <<>> /\ line = <<>>

Type(c) ==
  LET l == Append(line, c) IN
  /\ Len(ready) + Len(line) < Capacity
  /\ IF c \in Ends \/ Len(ready) + Len(l) = Capacity
     THEN ready' = ready \o l /\ line' = <<>>
     ELSE ready' = ready /\ line' = l

Backspace ==
  /\ line # <<>>
  /\ line' = SubSeq(line, 1, Len(line) - 1)
  /\ ready' = ready

KillLine ==
  /\ line' = <<>>
  /\ ready' = ready

Get ==
  /\ ready # <<>>
  /\ ready' = Tail(ready)
  /\ line' = line

Next == Backspace \/ KillLine \/ Get \/ \E c \in Bytes : Type(c)

Spec == Init /\ [][Next]_<<ready, line>>
=============================================================================
