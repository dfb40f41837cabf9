------------------------------ MODULE ByteFile ------------------------------
(***************************************************************************)
(* What reading and writing files promises: every file is a sequence of    *)
(* bytes.  A write replaces bytes at an offset that is not past the end    *)
(* and may lengthen the file; nothing else changes, in this file or in any *)
(* other; a file that is removed is empty when its inode is used again.    *)
(***************************************************************************)
EXTENDS Integers, Sequences

CONSTANTS
  Inums, Files, Byte,
  MaxChunk            \* the most bytes written at once

VARIABLES made,       \* the disk has been made
          contents, fip, off

vars == <<made, contents, fip, off>>

Chunks == UNION {[1 .. n -> Byte] : n \in 0 .. MaxChunk}

Init ==
  /\ made = FALSE
  /\ contents = [i \in Inums |-> <<>>]
  /\ fip = [f \in Files |-> 0]
  /\ off = [f \in Files |-> 0]

\* s with b in place of what it has from offset o on.
Overwrite(s, o, b) ==
  [k \in 1 .. (IF o + Len(b) > Len(s) THEN o + Len(b) ELSE Len(s)) |->
     IF k \in o + 1 .. o + Len(b) THEN b[k - o] ELSE s[k]]

Write(f) ==
  /\ fip[f] # 0 /\ off[f] <= Len(contents[fip[f]])
  /\ \E b \in Chunks :
       /\ contents' = [contents EXCEPT ![fip[f]] = Overwrite(@, off[f], b)]
       /\ off' = [off EXCEPT ![f] = @ + Len(b)]
  /\ UNCHANGED <<made, fip>>

\* A read moves the offset, to the end of the file at most.
Read(f) ==
  /\ fip[f] # 0
  /\ \E n \in 1 .. Len(contents[fip[f]]) - off[f] : off' = [off EXCEPT ![f] = @ + n]
  /\ UNCHANGED <<made, contents, fip>>

Reopen(f) ==
  /\ \E i \in Inums \cup {0} : fip' = [fip EXCEPT ![f] = i]
  /\ off' = [off EXCEPT ![f] = 0]
  /\ UNCHANGED <<made, contents>>

Remove(i) ==
  /\ \A f \in Files : fip[f] # i
  /\ contents' = [contents EXCEPT ![i] = <<>>]
  /\ UNCHANGED <<made, fip, off>>

\* While the disk is made, files grow at their end.
Grow(i) ==
  /\ ~made
  /\ \E b \in Chunks : contents' = [contents EXCEPT ![i] = @ \o b]
  /\ UNCHANGED <<made, fip, off>>

\* The root directory is filled up with zeros, which are no entries.
Made ==
  /\ ~made /\ made' = TRUE
  /\ \E i \in Inums, n \in 0 .. MaxChunk :
       contents' = [contents EXCEPT ![i] = @ \o [k \in 1 .. n |-> 0]]
  /\ UNCHANGED <<fip, off>>

Next ==
  \/ \E i \in Inums : Remove(i) \/ Grow(i)
  \/ Made
  \/ \E f \in Files : Write(f) \/ Read(f) \/ Reopen(f)

Spec == Init /\ [][Next]_vars
=============================================================================
