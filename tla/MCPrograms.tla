----------------------------- MODULE MCPrograms -----------------------------
(***************************************************************************)
(* What programs work with, for TLC: their memory, the contents of files,  *)
(* the allocator they link with, and the shell.  The four are checked side *)
(* by side, one of them (part) in each behavior, the others staying as     *)
(* they start.                                                             *)
(***************************************************************************)
EXTENDS Vm, FileData, Heap, Shell, TLC

VARIABLE part

-----------------------------------------------------------------------------
(* Programs for exec: two segments that share a page's rest; a large one; and
   ones whose second segment is not aligned, or longer in the file, or cut short,
   or beyond the last address. *)

Seg(a, m, f, b) == [vaddr |-> a, memsz |-> m, filesz |-> f, fits |-> b]
SomeProgs == {<<Seg(0, 1, 1, TRUE), Seg(2, 1, 0, TRUE)>>, <<Seg(0, 5, 2, TRUE)>>,
              <<Seg(0, 2, 2, TRUE), Seg(3, 1, 1, TRUE)>>, <<Seg(0, 1, 2, TRUE)>>,
              <<Seg(2, 2, 2, FALSE)>>, <<Seg(0, 1, 1, TRUE), Seg(2, 15, 0, TRUE)>>}

\* All lines of up to three characters, and longer ones that nest pipes, lists,
\* background commands and redirections, to the limit of the process table.
Chars == {"a", " ", "<", ">", "|", "&", ";", "(", ")"}
Short == UNION {[1 .. n -> Chars] : n \in 0 .. 3}
Long == {<<"a", "|", "a", "|", "a">>,
         <<"a", "&", ";", "a">>,
         <<"(", "a", "&", ")", "|", "a">>,
         <<"(", "a", ";", "a", ")", "|", "a", ">", "a">>,
         <<"a", "<", "a", ">", ">", "a", "|", "a">>,
         <<"a", "|", "(", "a", "|", "a", ")", "<", "a">>,
         <<"(", "a", "|", "a", "|", "a", ")", "&">>,
         <<"a", "|", "a", "|", "(", "a", ";", "a", ")">>,
         <<"a", "|", "a", "|", "(", "a", "&", ")">>}
SomeLines == <<Short \cup Long, {<<"a">>}>>

\* Files that mkfs copies, and what programs write: within a block and across
\* several, to the indirect ones.
SomeImages == {<<1>>, <<2, 1>>}
SomeWrites == {<<1>>, <<2, 1, 2, 1, 1>>}

-----------------------------------------------------------------------------

ProgramsInit ==
  /\ part \in {"memory", "files", "heap", "shell"}
  /\ VmInit /\ FileInit /\ HeapInit /\ ShellInit

ProgramsNext ==
  /\ part' = part
  /\ \/ part = "memory" /\ VmNext /\ UNCHANGED <<fileVars, heapVars, shellVars>>
     \/ part = "files" /\ FileNext /\ UNCHANGED <<vmVars, heapVars, shellVars>>
     \/ part = "heap" /\ HeapNext /\ UNCHANGED <<vmVars, fileVars, shellVars>>
     \/ part = "shell" /\ ShellNext /\ UNCHANGED <<vmVars, fileVars, heapVars>>

ProgramsSpec ==
  ProgramsInit /\ [][ProgramsNext]_<<part, vmVars, fileVars, heapVars, shellVars>>
=============================================================================
