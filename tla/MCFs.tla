-------------------------------- MODULE MCFs --------------------------------
(***************************************************************************)
(* Small instances of Fs for TLC.                                          *)
(***************************************************************************)
EXTENDS Fs, TLC

Path(e) == [abs |-> FALSE, elems |-> e]
Root(e) == [abs |-> TRUE, elems |-> e]
Req(c, t, x) == [call |-> c, type |-> t, path |-> x, new |-> x]

\* Disks: as mkfs leaves them; with a file of two names; with a
\* directory in a directory.
Dots(i, d) == {<<".", i>>, <<"..", d>>}
Node(t, n, e) == [type |-> t, nlink |-> n, ents |-> e]
Disk(f) == [i \in Inums |-> IF i \in DOMAIN f THEN f[i] ELSE FreeInode]
NewDisk == Disk(<<Node("dir", 1, Dots(1, 1))>>)
LinkedDisk == Disk(<<Node("dir", 1, Dots(1, 1) \cup {<<"a", 2>>, <<"b", 2>>}), Node("file", 2, {})>>)
TreeDisk == Disk(<<Node("dir", 2, Dots(1, 1) \cup {<<"a", 2>>}),
                   Node("dir", 2, Dots(2, 1) \cup {<<"b", 3>>}), Node("dir", 1, Dots(3, 2))>>)
AllDisks == {NewDisk, LinkedDisk, TreeDisk}

A == Path(<<"a">>)
B == Path(<<"b">>)
AB == Path(<<"a", "b">>)
Up == Path(<<"..">>)
AllRequests ==
  {Req("unlink", "", x) : x \in {A, B, Root(<<"a", "b">>)}}
  \cup {Req("creat", "file", x) : x \in {A, AB}}
  \cup {Req("mkdir", "dir", A), Req("exec", "", Up)}
  \cup {Req("open", "rd", B), Req("open", "wr", Up), Req("chdir", "", AB)}
  \cup {[Req("link", "", A) EXCEPT !.new = y] : y \in {B, AB}}
  \cup {Req(c, "", A) : c \in {"dup", "close", "fork", "exit"}}

Symmetry == Permutations(Procs)
=============================================================================
