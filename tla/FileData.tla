------------------------------ MODULE FileData ------------------------------
(***************************************************************************)
(* What files hold: the block allocator, bmap, itrunc, readi and writei    *)
(* (fs.c), fileread and filewrite (file.c), on a disk that mkfs has made   *)
(* (mkfs.c).                                                               *)
(*                                                                         *)
(* A block is BSIZE cells; a cell holds a byte, or in an indirect block a  *)
(* block number, so that NINDIRECT is BSIZE.  Data blocks are numbered     *)
(* from 1, after the metadata; 0 is no block.  The inode lock makes each   *)
(* call of readi and writei one step; filewrite makes one for each chunk.  *)
(***************************************************************************)
EXTENDS Integers, Sequences, FiniteSets, FiniteSetsExt

CONSTANTS
  BSIZE, NDIRECT, MAXOPBLOCKS,
  NBLOCKS,         \* data blocks
  NINODES,
  UINT,            \* 2^32: the unsigned integers wrap around here
  Clients, NFILE,
  Byte,            \* byte values, 0 among them
  Images,          \* buffers that mkfs appends to files
  ImageBlocks,     \* a bound on the blocks that mkfs fills
  Writes,          \* byte sequences that programs write
  Reads,           \* sizes of reads
  MaxSteps         \* a bound on calls

ASSUME FileAssumption ==
  /\ {BSIZE, NDIRECT, NBLOCKS, NINODES, NFILE} \subseteq Nat \ {0}
  /\ MAXOPBLOCKS \in Nat /\ MAXOPBLOCKS >= 6 /\ 0 \in Byte
  /\ ImageBlocks \in 1 .. NBLOCKS - 2
  /\ UINT \in Nat /\ UINT > (NDIRECT + BSIZE) * BSIZE

NINDIRECT == BSIZE
MAXFILE == NDIRECT + NINDIRECT
Inums == 1 .. NINODES
DataBlocks == 1 .. NBLOCKS
Files == 1 .. NFILE
ROOTINO == 1

VARIABLES
  fs,          \* the disk: used, block, size, addrs; log: blocks of this transaction
  freeblock,   \* mkfs: the next block; 0 once the disk is made
  fip, off,    \* struct file: inode (0: closed) and offset
  writer,      \* per process: the file and the bytes that filewrite still has to write
  fpanic, steps

fileVars == <<fs, freeblock, fip, off, writer, fpanic, steps>>

Zeroes == [k \in 0 .. BSIZE - 1 |-> 0]

FileInit ==
  /\ fs = [used |-> {}, log |-> {}, block |-> [b \in 0 .. NBLOCKS |-> Zeroes],
           size |-> [i \in Inums |-> 0], addrs |-> [i \in Inums |-> [n \in 0 .. NDIRECT |-> 0]]]
  /\ freeblock = 1
  /\ fip = [f \in Files |-> 0] /\ off = [f \in Files |-> 0]
  /\ writer = [p \in Clients |-> [f |-> 0, rest |-> <<>>]]
  /\ fpanic = "" /\ steps = 0

Minimum(a, b) == IF a < b THEN a ELSE b

-----------------------------------------------------------------------------
(* Blocks.  An operator that allocates returns the disk and the block; block 0 *)
(* says that balloc has panicked.                                              *)

\* Names, among those of blocks, for the two that hold metadata.
Bitmap == 0
InodeBlock == -1

Unused(d) == DataBlocks \ d.used

balloc(d) ==
  IF Unused(d) = {} THEN [d |-> d, b |-> 0]
  ELSE LET b == Min(Unused(d)) IN
       [b |-> b, d |-> [d EXCEPT !.used = @ \cup {b}, !.block[b] = Zeroes,
                                 !.log = @ \cup {Bitmap, b}]]

\* The block of the direct address n, or the indirect block, allocated if need be.
Direct(d, i, n) ==
  IF d.addrs[i][n] # 0 THEN [d |-> d, b |-> d.addrs[i][n]]
  ELSE LET a == balloc(d) IN [a EXCEPT !.d.addrs[i][n] = a.b]

bmap(d, i, bn) ==
  IF bn < NDIRECT THEN Direct(d, i, bn)
  ELSE LET x == Direct(d, i, NDIRECT)
           n == bn - NDIRECT
           a == balloc(x.d) IN
       CASE x.b = 0 -> x
         [] x.b # 0 /\ x.d.block[x.b][n] # 0 -> [x EXCEPT !.b = x.d.block[x.b][n]]
         [] OTHER -> [a EXCEPT !.d.block[x.b][n] = a.b, !.d.log = @ \cup {x.b}]

\* The blocks that itrunc frees, each of which bfree wants to find in use.
BlocksOf(d, i) ==
  LET x == d.addrs[i][NDIRECT] IN
  ({d.addrs[i][n] : n \in 0 .. NDIRECT}
     \cup (IF x = 0 THEN {} ELSE {d.block[x][n] : n \in 0 .. NINDIRECT - 1})) \ {0}

\* Mistaken itrunc: the indirect block itself is forgotten.
ItruncLeaks(d, i) ==
  [d EXCEPT !.used = @ \ (BlocksOf(d, i) \ {d.addrs[i][NDIRECT]}),
            !.addrs[i] = [n \in 0 .. NDIRECT |-> 0],
            !.size[i] = 0, !.log = {Bitmap, InodeBlock}]

itrunc(d, i) ==
  [d EXCEPT !.used = @ \ BlocksOf(d, i), !.addrs[i] = [n \in 0 .. NDIRECT |-> 0],
            !.size[i] = 0, !.log = {Bitmap, InodeBlock}]

-----------------------------------------------------------------------------
(* readi and writei *)

\* Mistaken check: the sum does not wrap around.
BadRangeNoWrap(d, i, o, n) == o > d.size[i]

\* readi's early returns; a sum of unsigned integers may wrap around.
BadRange(d, i, o, n) == o > d.size[i] \/ (o + n) % UINT < o

RECURSIVE ReadFrom(_, _, _, _)
ReadFrom(d, i, o, n) ==
  IF n = 0 THEN <<>>
  ELSE LET b == bmap(d, i, o \div BSIZE).b
           m == Minimum(n, BSIZE - (o % BSIZE)) IN
       [k \in 1 .. m |-> d.block[b][(o % BSIZE) + k - 1]] \o ReadFrom(d, i, o + m, n - m)

readi(d, i, o, n) ==
  IF BadRange(d, i, o, n) THEN <<>>
  ELSE ReadFrom(d, i, o, IF o + n > d.size[i] THEN d.size[i] - o ELSE n)

\* The loop of writei; b is the last block, 0 after a panic.
RECURSIVE WriteFrom(_, _, _, _)
WriteFrom(d, i, o, s) ==
  IF s = <<>> THEN [d |-> d, b |-> 1]
  ELSE LET x == bmap(d, i, o \div BSIZE)
           m == Minimum(Len(s), BSIZE - (o % BSIZE))
           at == o % BSIZE
           put == [k \in 0 .. BSIZE - 1 |-> IF k \in at .. at + m - 1
                                            THEN s[k - at + 1] ELSE x.d.block[x.b][k]] IN
       IF x.b = 0 THEN x
       ELSE WriteFrom([x.d EXCEPT !.block[x.b] = put, !.log = @ \cup {x.b}],
                      i, o + m, SubSeq(s, m + 1, Len(s)))

\* writei's result r is -1, or the number of bytes.
writei(d, i, o, s) ==
  LET n == Len(s)
      x == WriteFrom(d, i, o, s) IN
  IF BadRange(d, i, o, n) \/ o + n > MAXFILE * BSIZE THEN [d |-> d, b |-> 1, r |-> -1]
  ELSE [b |-> x.b, r |-> n,
        d |-> IF n > 0 /\ o + n > d.size[i]
              THEN [x.d EXCEPT !.size[i] = o + n, !.log = @ \cup {InodeBlock}] ELSE x.d]

-----------------------------------------------------------------------------
(* mkfs *)

\* iappend's loop, with fb the next block that is free; returns disk and next block.
RECURSIVE iappend(_, _, _, _, _)
iappend(d, fb, i, o, s) ==
  LET fbn == o \div BSIZE
      n == Minimum(fbn, NDIRECT)
      x == IF d.addrs[i][n] = 0 THEN fb ELSE d.addrs[i][n]
      fb1 == IF d.addrs[i][n] = 0 THEN fb + 1 ELSE fb
      e == [d EXCEPT !.addrs[i][n] = x]
      k == fbn - NDIRECT
      new == k >= 0 /\ e.block[x][k] = 0
      b == CASE k < 0 -> x [] new -> fb1 [] OTHER -> e.block[x][k]
      g == IF new THEN [e EXCEPT !.block[x][k] = b] ELSE e
      m == Minimum(Len(s), (fbn + 1) * BSIZE - o)
      at == o - fbn * BSIZE
      put == [c \in 0 .. BSIZE - 1 |-> IF c \in at .. at + m - 1 THEN s[c - at + 1] ELSE g.block[b][c]] IN
  IF s = <<>> THEN [d |-> [d EXCEPT !.size[i] = o], fb |-> fb]
  ELSE iappend([g EXCEPT !.block[b] = put], IF new THEN fb1 + 1 ELSE fb1, i, o + m,
               SubSeq(s, m + 1, Len(s)))

\* main: an entry of the root directory, shorter than a block, or a buffer of a
\* file, of which all but the last are blocks.  The files fit.
MkfsAppend(i) ==
  \E s \in Images :
    /\ freeblock # 0 /\ freeblock <= ImageBlocks
    /\ IF i = ROOTINO THEN Len(s) < BSIZE ELSE fs.size[i] % BSIZE = 0
    /\ fs.size[i] + Len(s) <= MAXFILE * BSIZE
    /\ LET a == iappend(fs, freeblock, i, fs.size[i], s) IN fs' = a.d /\ freeblock' = a.fb
    /\ UNCHANGED <<fip, off, writer, fpanic, steps>>

\* The size of the root directory is rounded up, and the bitmap is written.  The
\* entries of the disk that the Makefile builds do not end at the end of a block;
\* a size that is a multiple of BSIZE would get a block that it has no address for.
MkfsDone ==
  /\ freeblock # 0 /\ fs.size[ROOTINO] % BSIZE # 0
  /\ fs' = [fs EXCEPT !.size[ROOTINO] = ((@ \div BSIZE) + 1) * BSIZE, !.used = 1 .. freeblock - 1]
  /\ freeblock' = 0
  /\ UNCHANGED <<fip, off, writer, fpanic, steps>>

-----------------------------------------------------------------------------
(* Calls *)

Call == freeblock = 0 /\ fpanic = "" /\ steps < MaxSteps /\ steps' = steps + 1
Writing(f) == \E p \in Clients : writer[p].f = f

\* open and close
Reopen(f) ==
  /\ Call /\ ~Writing(f)
  /\ \E i \in Inums \cup {0} : i # fip[f] /\ fip' = [fip EXCEPT ![f] = i]
  /\ off' = [off EXCEPT ![f] = 0]
  /\ UNCHANGED <<fs, freeblock, writer, fpanic>>

fileread(f) ==
  /\ Call /\ fip[f] # 0
  /\ \E n \in Reads : off' = [off EXCEPT ![f] = @ + Len(readi(fs, fip[f], @, n))]
  /\ UNCHANGED <<fs, freeblock, fip, writer, fpanic>>

filewrite(p, f) ==
  /\ Call /\ fip[f] # 0 /\ writer[p].f = 0
  /\ \E s \in Writes : writer' = [writer EXCEPT ![p] = [f |-> f, rest |-> s]]
  /\ UNCHANGED <<fs, freeblock, fip, off, fpanic>>

\* Mistaken limit: only the inode and the indirect block are left room.
MaxChunkLarge == (MAXOPBLOCKS - 1 - 1) * BSIZE

\* The most bytes that filewrite writes in one transaction.
MaxChunk == ((MAXOPBLOCKS - 1 - 1 - 2) \div 2) * BSIZE

\* Mistaken chunk: the offset moves by all that was left to write.
WroteOff(p, rest, x) ==
  /\ fs' = [x.d EXCEPT !.log = {}]
  /\ off' = [off EXCEPT ![writer[p].f] = IF x.r > 0 THEN @ + Len(writer[p].rest) ELSE @]
  /\ writer' = [writer EXCEPT ![p] = IF x.r < 0 \/ rest = <<>> THEN [f |-> 0, rest |-> <<>>]
                                     ELSE [@ EXCEPT !.rest = rest]]
  /\ UNCHANGED fpanic

\* writei has answered x; rest is left to write.
Wrote(p, rest, x) ==
  \/ x.b = 0 /\ fpanic' = "balloc: out of blocks" /\ UNCHANGED <<fs, off, writer>>
  \/ /\ x.b # 0 /\ UNCHANGED fpanic
     /\ fs' = [x.d EXCEPT !.log = {}]
     /\ off' = [off EXCEPT ![writer[p].f] = IF x.r > 0 THEN @ + x.r ELSE @]
     /\ writer' = [writer EXCEPT ![p] = IF x.r < 0 \/ rest = <<>> THEN [f |-> 0, rest |-> <<>>]
                                        ELSE [@ EXCEPT !.rest = rest]]

\* One turn of filewrite's loop, under the inode lock and in a transaction.
WriteChunk(p) ==
  LET f == writer[p].f
      n == Minimum(Len(writer[p].rest), MaxChunk) IN
  /\ f # 0 /\ fpanic = ""
  /\ Wrote(p, SubSeq(writer[p].rest, n + 1, Len(writer[p].rest)),
           writei(fs, fip[f], off[f], SubSeq(writer[p].rest, 1, n)))
  /\ UNCHANGED <<freeblock, fip, steps>>

\* The last link and the last reference go: iput truncates.
Remove(i) ==
  /\ Call /\ \A f \in Files : fip[f] # i
  /\ IF BlocksOf(fs, i) \subseteq fs.used
     THEN fs' = [itrunc(fs, i) EXCEPT !.log = {}] /\ UNCHANGED fpanic
     ELSE fpanic' = "freeing free block" /\ UNCHANGED fs
  /\ UNCHANGED <<freeblock, fip, off, writer>>

FileNext ==
  \/ \E i \in Inums : MkfsAppend(i) \/ Remove(i)
  \/ MkfsDone
  \/ \E f \in Files : Reopen(f) \/ fileread(f)
  \/ \E p \in Clients : WriteChunk(p) \/ \E f \in Files : filewrite(p, f)

FileSpec == FileInit /\ [][FileNext]_fileVars

-----------------------------------------------------------------------------
(* Properties *)

\* The bytes of inode i, read off its addresses.
Contents(i) ==
  LET Where(bn) == IF bn < NDIRECT THEN fs.addrs[i][bn]
                   ELSE fs.block[fs.addrs[i][NDIRECT]][bn - NDIRECT] IN
  [k \in 1 .. fs.size[i] |-> fs.block[Where((k - 1) \div BSIZE)][(k - 1) % BSIZE]]

\* Files are sequences of bytes: through blocks allocated, freed and used again,
\* direct and indirect, and chunks of several writers, a step changes the bytes
\* that it writes and no others, in any file (fs.c:370-511, file.c:115-156).
Abstract == INSTANCE ByteFile WITH
  made <- freeblock = 0, contents <- [i \in Inums |-> Contents(i)], MaxChunk <- MaxChunk
ByteFileSpec == Abstract!Spec

Addresses(i) ==
  {<<i, "a", n>> : n \in {m \in 0 .. NDIRECT : fs.addrs[i][m] # 0}}
  \cup {<<i, "x", n>> : n \in {m \in 0 .. NINDIRECT - 1 :
          fs.addrs[i][NDIRECT] # 0 /\ fs.block[fs.addrs[i][NDIRECT]][m] # 0}}

\* The bitmap marks exactly the blocks that inodes use, and no block has two uses:
\* nothing leaks and itrunc never meets a free block (panic at fs.c:91), with
\* mkfs's own allocator (mkfs.c:237-297) to start from.
BlocksExact ==
  /\ fpanic # "freeing free block"
  /\ freeblock = 0 =>
       /\ fs.used = UNION {BlocksOf(fs, i) : i \in Inums}
       /\ Cardinality(fs.used) = Cardinality(UNION {Addresses(i) : i \in Inums})

\* readi returns the bytes of the range that the file has, and none if the range
\* begins past the end or wraps around, for every offset and size (fs.c:449-476);
\* it never allocates, which it could not outside a transaction.
ReadsAgree ==
  freeblock = 0 =>
    \A i \in Inums, n \in 0 .. UINT - 1 : \A o \in 0 .. fs.size[i] + 1 :
      /\ readi(fs, i, o, n) =
           IF o > fs.size[i] \/ o + n >= UINT THEN <<>>
           ELSE SubSeq(Contents(i), o + 1, Minimum(o + n, fs.size[i]))
      /\ o < fs.size[i] => bmap(fs, i, o \div BSIZE).d = fs

\* A chunk changes fewer blocks than a transaction may: data, indirect block,
\* bitmap and inode, also when it is not aligned and allocates (file.c:127-133).
\* One block to spare is what the log needs never to be too big (LogProofs).
ChunkFitsLog ==
  freeblock = 0 =>
    \A i \in Inums : \A o \in 0 .. fs.size[i] :
      Cardinality(writei(fs, i, o, [k \in 1 .. MaxChunk |-> 0]).d.log) < MAXOPBLOCKS
=============================================================================
