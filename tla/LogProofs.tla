----------------------------- MODULE LogProofs ------------------------------
(***************************************************************************)
(* Proofs about the log, for any number of processes and blocks and any    *)
(* size of the log: begin_op's reservation keeps every transaction inside  *)
(* the log, and the log is an atomic disk (AtomicDisk): no crash leaves    *)
(* part of a transaction, and no buffer with an update that is not on the  *)
(* disk is recycled.                                                       *)
(***************************************************************************)
EXTENDS Log, FiniteSetTheorems, TLAPS

\* What the calls of sysfile.c and file.c and the layout of mkfs.c guarantee:
\* a call writes fewer blocks than it reserves, and the log area has LOGSIZE.
SmallCalls ==
  OpWrites < MAXOPBLOCKS /\ OpWrites + 2 <= SIZE /\ LOGSIZE <= SIZE

\* The blocks that the calls under way have written, each counted once per call.
Charged == {w \in Procs \X Blocks : w[1] \in InOp /\ w[2] \in wrote[w[1]]}

\* lh is charged to the calls under way or was paid by calls that have returned:
\* each call still has the rest of its MAXOPBLOCKS.  A call that is alone either
\* wrote all there is, or follows one that left a block of its share.
Room ==
  LET n == Cardinality(InOp)
      w == Cardinality(Charged)
  IN  /\ Len(lh) + n * MAXOPBLOCKS <= LOGSIZE + w
      /\ n = 1 => Len(lh) <= w \/ Len(lh) + MAXOPBLOCKS + 1 <= LOGSIZE + w

Logged(b) == \E i \in DOMAIN lh : lh[i] = b

\* What a process inside begin_op/end_op has written is in lh and within bounds.
CallsBounded ==
  \A p \in Procs :
    /\ p \notin InOp => wrote[p] = {}
    /\ Cardinality(wrote[p]) <= OpWrites
    /\ \A b \in wrote[p] : Logged(b)
    /\ pc[p] = "append" =>
         held[p] \in Blocks /\ Cardinality(wrote[p] \cup {held[p]}) <= OpWrites

\* The phases of a commit and of recovery, and when the log is empty.
Phases ==
  /\ committing <=> phase \in {"writeLog", "install", "done"}
  /\ phase # "idle" => InOp = {}
  /\ phase = "done" => lh = <<>>
  /\ phase = "idle" /\ InOp = {} => lh = <<>>

\* The inductive invariant.
IInv ==
  /\ TypeOK
  /\ NeverTooBig
  /\ Len(hdr) <= SIZE - 1
  /\ CallsBounded
  /\ Phases
  /\ InOp # {} => Room

-----------------------------------------------------------------------------
(* Counting *)

\* Leaves are proved by Zenon unless they name another prover.
USE Zenon

\* A set with at most k elements fits into 1 .. k.
LEMMA Numbering ==
  ASSUME NEW S, IsFiniteSet(S), NEW k \in Nat, Cardinality(S) <= k
  PROVE  \E h : h \in Injection(S, 1 .. k)
<1> DEFINE c == Cardinality(S)
<1>1. c \in Nat /\ ExistsBijection(1 .. c, S)
  BY FS_CardinalityType
<1>2. PICK f : f \in Bijection(1 .. c, S)
  BY <1>1 DEF ExistsBijection
<1> DEFINE h == [x \in S |-> CHOOSE i \in 1 .. c : f[i] = x]
<1>3. \A x \in S : h[x] \in 1 .. c /\ f[h[x]] = x
  BY <1>2 DEF Bijection, Surjection
<1>4. h \in [S -> 1 .. k]
  BY SMT, <1>3, <1>1
<1>5. \A x, y \in S : h[x] = h[y] => x = y
  BY <1>3
<1>6. h \in Injection(S, 1 .. k)
  BY <1>4, <1>5 DEF Injection, IsInjective
<1> QED
  BY <1>6

\* Pairs of one of the processes S and one of its at most k blocks.
LEMMA PairsBound ==
  ASSUME NEW S, IsFiniteSet(S), NEW T, IsFiniteSet(T), NEW k \in Nat,
         NEW g, \A p \in S : g[p] \subseteq T /\ Cardinality(g[p]) <= k,
         NEW W, W \subseteq S \X T, \A w \in W : w[2] \in g[w[1]]
  PROVE  IsFiniteSet(W) /\ Cardinality(W) <= Cardinality(S) * k
<1> DEFINE H == [p \in S |-> CHOOSE h : h \in Injection(g[p], 1 .. k)]
           F == [w \in W |-> <<w[1], H[w[1]][w[2]]>>]
           P == S \X (1 .. k)
<1>1. \A p \in S : H[p] \in Injection(g[p], 1 .. k)
  BY FS_Subset, Numbering
<1> HIDE DEF H
<1>2. ASSUME NEW p \in S
      PROVE  /\ \A x \in g[p] : H[p][x] \in 1 .. k
             /\ \A x, y \in g[p] : H[p][x] = H[p][y] => x = y
  <2>1. H[p] \in [g[p] -> 1 .. k] /\ IsInjective(H[p])
    BY <1>1 DEF Injection
  <2> QED
    BY <2>1 DEF IsInjective
<1>3. \A w \in W : w[1] \in S /\ w[2] \in g[w[1]] /\ w = <<w[1], w[2]>>
  BY SMT
<1>4. F \in [W -> P]
  BY <1>2, <1>3
<1>5. ASSUME NEW v \in W, NEW w \in W, F[v] = F[w]
      PROVE  v = w
  <2>1. v[1] = w[1] /\ H[v[1]][v[2]] = H[w[1]][w[2]]
    BY <1>5
  <2>2. v[2] = w[2]
    BY <2>1, <1>2, <1>3
  <2> QED
    BY <2>1, <2>2, <1>3
<1>6. F \in Injection(W, P)
  BY <1>4, <1>5 DEF Injection, IsInjective
<1>7. IsFiniteSet(1 .. k) /\ Cardinality(1 .. k) = k
  BY SMT, FS_Interval
<1>8. IsFiniteSet(P) /\ Cardinality(P) = Cardinality(S) * k
  BY <1>7, FS_Product
<1> QED
  BY SMT, <1>6, <1>8, FS_Injection

\* What arithmetic the reservations need.
LEMMA Products ==
  ASSUME NEW n \in Nat, NEW a \in Nat, NEW b \in Nat
  PROVE  /\ n * a \in Nat /\ (n + 1) * a = n * a + a /\ 1 * a = a
         /\ a < b => n * a + n <= n * b
<1>1. n * a \in Nat /\ n * b \in Nat /\ (n + 1) * a = n * a + a /\ 1 * a = a
  BY SMT
<1>2. ASSUME a < b PROVE n * a + n <= n * b
  <2>1. PICK d \in Nat : b = a + 1 + d
    <3>1. b - a - 1 \in Nat /\ b = a + 1 + (b - a - 1)
      BY SMT, <1>2
    <3> QED
      BY <3>1
  <2>2. n * b = n * a + n + n * d
    BY SMT, <2>1
  <2>3. n * d \in Nat
    BY SMT, <2>1
  <2> QED
    BY SMT, <2>2, <2>3, <1>1
<1> QED
  BY <1>1, <1>2

-----------------------------------------------------------------------------
(* What the invariant says of a state *)

\* Everything that is counted is finite.
LEMMA Finite ==
  ASSUME TypeOK
  PROVE  /\ IsFiniteSet(Blocks)
         /\ IsFiniteSet(InOp) /\ Cardinality(InOp) \in Nat
         /\ IsFiniteSet(Charged) /\ Cardinality(Charged) \in Nat
         /\ \A p \in Procs : IsFiniteSet(wrote[p]) /\ Cardinality(wrote[p]) \in Nat
<1>1. IsFiniteSet(Blocks)
  BY SMT, LogAssumption, FS_Interval DEF Blocks
<1>2. IsFiniteSet(InOp)
  BY LogAssumption, FS_Subset DEF InOp
<1>3. IsFiniteSet(Procs \X Blocks)
  BY <1>1, LogAssumption, FS_Product
<1>4. IsFiniteSet(Charged)
  BY <1>3, FS_Subset DEF Charged
<1>5. \A p \in Procs : IsFiniteSet(wrote[p])
  BY <1>1, FS_Subset DEF TypeOK
<1> QED
  BY <1>1, <1>2, <1>4, <1>5, FS_CardinalityType

\* A call under way finds room: log_write's tests pass and the block fits.
LEMMA RoomLeft ==
  ASSUME SmallCalls, TypeOK, CallsBounded, Room, InOp # {}
  PROVE  Len(lh) <= SIZE - 2 /\ Len(lh) < LOGSIZE
<1> DEFINE n == Cardinality(InOp)
           w == Cardinality(Charged)
<1>1. n \in Nat /\ n # 0 /\ w \in Nat /\ IsFiniteSet(InOp) /\ IsFiniteSet(Blocks)
  BY Finite, FS_EmptySet
<1>2. w <= n * OpWrites
  <2>1. \A p \in InOp : wrote[p] \subseteq Blocks /\ Cardinality(wrote[p]) <= OpWrites
    BY DEF TypeOK, CallsBounded, InOp
  <2>2. Charged \subseteq InOp \X Blocks /\ \A x \in Charged : x[2] \in wrote[x[1]]
    BY DEF Charged
  <2> QED
    BY <1>1, <2>1, <2>2, PairsBound, LogAssumption
<1>3. /\ Len(lh) + n * MAXOPBLOCKS <= LOGSIZE + w
      /\ n = 1 => Len(lh) <= w \/ Len(lh) + MAXOPBLOCKS + 1 <= LOGSIZE + w
  BY DEF Room
<1>4. /\ OpWrites \in Nat /\ MAXOPBLOCKS \in Nat /\ LOGSIZE \in Nat /\ SIZE \in Nat
      /\ Len(lh) \in Nat
  BY SMT, LogAssumption DEF TypeOK
<1>5. n * OpWrites \in Nat /\ n * MAXOPBLOCKS \in Nat
  BY <1>1, <1>4, Products
<1>6. n * OpWrites + n <= n * MAXOPBLOCKS
  BY <1>1, <1>4, Products DEF SmallCalls
<1> HIDE DEF n, w
<1>7. Len(lh) + n <= LOGSIZE
  BY SMT, <1>1, <1>2, <1>3, <1>4, <1>5, <1>6
<1>8. CASE n = 1
  <2>1. n * OpWrites = OpWrites
    BY <1>8, <1>4, Products
  <2> QED
    BY SMT, <2>1, <1>1, <1>2, <1>3, <1>4, <1>7, <1>8 DEF SmallCalls
<1>9. CASE n # 1
  BY SMT, <1>1, <1>4, <1>7, <1>9 DEF SmallCalls
<1> QED
  BY <1>8, <1>9

\* The reservations depend on lh and on the processes alone.
LEMMA Frame ==
  ASSUME IInv, UNCHANGED <<lh, procVars>>
  PROVE  InOp' = InOp /\ CallsBounded' /\ (InOp' # {} => Room')
<1>1. InOp' = InOp /\ Charged' = Charged
  BY DEF procVars, InOp, Charged
<1>2. CallsBounded'
  BY <1>1 DEF IInv, CallsBounded, Logged, procVars
<1>3. InOp' # {} => Room'
  BY <1>1 DEF IInv, Room, procVars
<1> QED
  BY <1>1, <1>2, <1>3

-----------------------------------------------------------------------------
(* The steps *)

\* The invariant holds after boot, with nothing reserved (initlog).
LEMMA InitIInv ==
  ASSUME SmallCalls, Init
  PROVE  IInv
<1>1. InOp = {}
  BY DEF Init, InOp
<1>2. TypeOK
  <2>1. Blocks \subseteq Addrs
    BY SMT, LogAssumption DEF Blocks, Addrs
  <2>2. disk \in [Addrs -> Vals] /\ cache = [b \in Blocks |-> disk[b]]
    BY DEF Init
  <2>3. cache \in [Blocks -> Vals]
    BY <2>1, <2>2
  <2>4. hdr = <<>> /\ lh = <<>> /\ <<>> \in Seq(Blocks)
    BY SMT DEF Init
  <2>5. /\ pc \in [Procs -> {"user", "begin", "asleep", "op", "append", "commit"}]
        /\ wrote \in [Procs -> SUBSET Blocks] /\ held \in [Procs -> Blocks \cup {NoBlock}]
    BY DEF Init
  <2>6. /\ dirty \in SUBSET Blocks /\ outstanding \in Nat /\ committing \in BOOLEAN
        /\ phase = "idle" /\ tail \in Nat /\ panicked \in BOOLEAN
    BY DEF Init
  <2> QED
    BY <2>2, <2>3, <2>4, <2>5, <2>6 DEF TypeOK
<1>3. NeverTooBig /\ Len(hdr) <= SIZE - 1
  BY SMT, <1>1, FS_EmptySet, LogAssumption DEF Init, NeverTooBig, OutstandingExact, LogFits, NoPanic
<1>4. CallsBounded
  BY SMT, FS_EmptySet, LogAssumption DEF Init, CallsBounded
<1>5. Phases
  BY <1>1 DEF Init, Phases
<1> QED
  BY <1>1, <1>2, <1>3, <1>4, <1>5 DEF IInv

\* begin_op's guard makes the room the call may need, or puts it to sleep.
LEMMA BeginOpStep ==
  ASSUME IInv, NEW p \in Procs, begin_op(p)
  PROVE  IInv'
<1> USE DEF IInv
<1>1. TypeOK' /\ (Len(hdr) <= SIZE - 1)'
  BY SMT DEF begin_op, TypeOK, diskVars, cacheVars, commitVars
<1>2. p \notin InOp
  BY DEF begin_op, InOp
<1>3. CASE committing \/ Len(lh) + (outstanding + 1) * MAXOPBLOCKS > LOGSIZE
  <2>1. /\ pc' = [pc EXCEPT ![p] = "asleep"]
        /\ UNCHANGED <<hdr, lh, outstanding, committing, wrote, held, phase, panicked>>
    BY <1>3 DEF begin_op, diskVars, commitVars
  <2>2. InOp' = InOp /\ Charged' = Charged
    BY <2>1, <1>2 DEF InOp, Charged, TypeOK
  <2>3. NeverTooBig'
    BY <2>1, <2>2 DEF NeverTooBig, OutstandingExact, LogFits, NoPanic
  <2>4. CallsBounded'
    BY <2>1, <2>2 DEF CallsBounded, Logged, TypeOK
  <2>5. Phases' /\ (InOp' # {} => Room')
    BY <2>1, <2>2 DEF Phases, Room
  <2> QED
    BY <1>1, <2>3, <2>4, <2>5
<1>4. CASE ~(committing \/ Len(lh) + (outstanding + 1) * MAXOPBLOCKS > LOGSIZE)
  <2>1. /\ pc' = [pc EXCEPT ![p] = "op"]
        /\ outstanding' = outstanding + 1
        /\ UNCHANGED <<hdr, lh, committing, wrote, held, phase, panicked>>
    BY <1>4 DEF begin_op, diskVars, commitVars
  <2>2. InOp' = InOp \cup {p}
    BY <2>1 DEF InOp, TypeOK
  <2>3. wrote[p] = {}
    BY <1>2 DEF CallsBounded
  <2>4. Charged' = Charged
    BY <2>1, <2>2, <2>3 DEF Charged
  <2>5. Cardinality(InOp') = Cardinality(InOp) + 1
    BY <2>2, <1>2, Finite, FS_AddElement
  <2>6. outstanding = Cardinality(InOp) /\ outstanding \in Nat /\ ~panicked /\ ~committing
    BY <1>4 DEF NeverTooBig, OutstandingExact, NoPanic, TypeOK
  <2>7. NeverTooBig'
    BY <2>1, <2>5, <2>6 DEF NeverTooBig, OutstandingExact, LogFits, NoPanic
  <2>8. CallsBounded'
    BY <2>1, <2>2 DEF CallsBounded, Logged, TypeOK
  <2>9. phase = "idle"
    BY <2>6 DEF begin_op, Up, Phases, TypeOK
  <2>10. Phases'
    BY <2>1, <2>2, <2>9 DEF Phases
  <2>11. Room'
    <3>1. Len(lh) \in Nat /\ MAXOPBLOCKS \in Nat /\ LOGSIZE \in Nat /\ Cardinality(Charged) \in Nat
      BY SMT, Finite, LogAssumption DEF TypeOK
    <3>2. (outstanding + 1) * MAXOPBLOCKS \in Nat
      BY SMT, <2>6, <3>1
    <3>3. Len(lh) + (outstanding + 1) * MAXOPBLOCKS <= LOGSIZE + Cardinality(Charged)
      BY SMT, <1>4, <3>1, <3>2
    <3>4. outstanding + 1 = 1 => Len(lh) <= Cardinality(Charged)
      <4> HAVE outstanding + 1 = 1
      <4>1. InOp = {}
        BY SMT, <2>6, Finite, FS_EmptySet
      <4>2. lh = <<>>
        BY <4>1, <2>9 DEF Phases
      <4> QED
        BY SMT, <4>2, <3>1
    <3> QED
      BY <3>3, <3>4, <2>1, <2>4, <2>5, <2>6 DEF Room
  <2> QED
    BY <1>1, <2>7, <2>8, <2>10, <2>11
<1> QED
  BY <1>3, <1>4

\* log_write's tests pass: a call that begin_op let in never panics.
LEMMA LogWriteCheckStep ==
  ASSUME SmallCalls, IInv, NEW p \in Procs, NEW b \in Blocks, NEW v \in Vals,
         LogWriteCheck(p, b, v)
  PROVE  IInv'
<1> USE DEF IInv
<1>1. p \in InOp
  BY DEF LogWriteCheck, InOp
<1>2. Len(lh) <= SIZE - 2 /\ Len(lh) < LOGSIZE
  BY <1>1, RoomLeft
<1>3. outstanding >= 1 /\ outstanding \in Nat
  BY SMT, <1>1, Finite, FS_EmptySet DEF NeverTooBig, OutstandingExact, NoPanic, TypeOK
<1>4. /\ pc' = [pc EXCEPT ![p] = "append"]
      /\ held' = [held EXCEPT ![p] = b]
      /\ cache' = [cache EXCEPT ![b] = v]
      /\ Cardinality(wrote[p] \cup {b}) <= OpWrites
      /\ UNCHANGED <<hdr, disk, dirty, lh, outstanding, committing, wrote, phase, tail, panicked>>
  <2>1. ~(Len(lh) >= LOGSIZE \/ Len(lh) >= SIZE - 1 \/ outstanding < 1)
    BY SMT, <1>2, <1>3, LogAssumption DEF TypeOK
  <2> QED
    BY <2>1 DEF LogWriteCheck, diskVars, logVars, commitVars
<1>5. TypeOK' /\ (Len(hdr) <= SIZE - 1)'
  BY <1>4 DEF TypeOK
<1>6. InOp' = InOp /\ Charged' = Charged
  BY <1>1, <1>4 DEF InOp, Charged, TypeOK
<1>7. NeverTooBig'
  BY <1>4, <1>6 DEF NeverTooBig, OutstandingExact, LogFits, NoPanic
<1>8. CallsBounded'
  BY <1>4, <1>6 DEF CallsBounded, Logged, TypeOK
<1>9. Phases' /\ (InOp' # {} => Room')
  BY <1>4, <1>6 DEF Phases, Room
<1> QED
  BY <1>5, <1>7, <1>8, <1>9

\* log_write absorbs the block, or appends it and charges it to its call.
LEMMA LogWriteAppendStep ==
  ASSUME SmallCalls, IInv, NEW p \in Procs, LogWriteAppend(p)
  PROVE  IInv'
<1> DEFINE b == held[p]
           n == Cardinality(InOp)
           w == Cardinality(Charged)
<1> USE DEF IInv
<1>1. p \in InOp /\ b \in Blocks
  BY DEF LogWriteAppend, InOp, CallsBounded
<1>2. /\ pc' = [pc EXCEPT ![p] = "op"]
      /\ held' = [held EXCEPT ![p] = NoBlock]
      /\ wrote' = [wrote EXCEPT ![p] = wrote[p] \cup {b}]
      /\ dirty' = dirty \cup {b}
      /\ lh' = IF Logged(b) THEN lh ELSE Append(lh, b)
      /\ UNCHANGED <<hdr, disk, cache, outstanding, committing, phase, tail, panicked>>
  BY DEF LogWriteAppend, Logged, diskVars, commitVars
<1>3. Cardinality(wrote[p] \cup {b}) <= OpWrites
  BY DEF LogWriteAppend, CallsBounded
<1>4. TypeOK' /\ (Len(hdr) <= SIZE - 1)'
  BY SMT, <1>1, <1>2 DEF TypeOK
<1>5. InOp' = InOp
  BY <1>1, <1>2 DEF InOp, TypeOK
<1>6. Charged' = Charged \cup {<<p, b>>}
  <2>1. \A q \in Procs, c \in Blocks :
          q \in InOp' /\ c \in wrote'[q] <=> (q \in InOp /\ c \in wrote[q]) \/ (q = p /\ c = b)
    BY <1>1, <1>2, <1>5 DEF TypeOK
  <2>2. \A x \in Procs \X Blocks : x = <<p, b>> <=> x[1] = p /\ x[2] = b
    BY SMT, <1>1
  <2> QED
    BY <2>1, <2>2, <1>1 DEF Charged
<1>7. \A c : Logged(c) \/ c = b => Logged(c)'
  <2>1. CASE Logged(b)
    BY <2>1, <1>2 DEF Logged
  <2>2. CASE ~Logged(b)
    <3>1. lh' = Append(lh, b) /\ lh \in Seq(Blocks)
      BY <2>2, <1>2 DEF TypeOK
    <3>2. /\ DOMAIN lh \subseteq DOMAIN lh' /\ \A i \in DOMAIN lh : lh'[i] = lh[i]
          /\ Len(lh) + 1 \in DOMAIN lh' /\ lh'[Len(lh) + 1] = b
      BY SMT, <3>1, <1>1
    <3> QED
      BY <3>2 DEF Logged
  <2> QED
    BY <2>1, <2>2
<1>8. CallsBounded'
  BY <1>1, <1>2, <1>3, <1>5, <1>7 DEF CallsBounded, TypeOK
<1>9. Len(lh) <= SIZE - 2 /\ Len(lh) \in Nat /\ SIZE \in Nat
  BY SMT, <1>1, RoomLeft, LogAssumption DEF TypeOK
<1>10. Len(lh') = Len(lh) \/ (~Logged(b) /\ Len(lh') = Len(lh) + 1)
  BY SMT, <1>1, <1>2 DEF TypeOK
<1>11. NeverTooBig'
  BY SMT, <1>2, <1>5, <1>9, <1>10 DEF NeverTooBig, OutstandingExact, LogFits, NoPanic
<1>12. Phases'
  BY <1>1, <1>2, <1>5 DEF Phases
<1>13. Room'
  <2>1. IsFiniteSet(Charged) /\ w \in Nat /\ n \in Nat
    BY Finite
  <2>2. Cardinality(Charged') = IF <<p, b>> \in Charged THEN w ELSE w + 1
    BY <1>6, <2>1, FS_AddElement
  <2>3. ~Logged(b) => <<p, b>> \notin Charged
    BY <1>1 DEF Charged, CallsBounded
  <2>4. /\ Len(lh) + n * MAXOPBLOCKS <= LOGSIZE + w
        /\ n = 1 => Len(lh) <= w \/ Len(lh) + MAXOPBLOCKS + 1 <= LOGSIZE + w
    BY <1>1 DEF Room
  <2>5. n * MAXOPBLOCKS \in Nat /\ MAXOPBLOCKS \in Nat /\ LOGSIZE \in Nat
    BY <2>1, LogAssumption, Products
  <2>6. \/ Cardinality(Charged') = w /\ Len(lh') = Len(lh)
        \/ Cardinality(Charged') = w + 1 /\ Len(lh') = Len(lh) + 1
        \/ Cardinality(Charged') = w + 1 /\ Len(lh') = Len(lh)
    BY <2>2, <2>3, <1>10
  <2> HIDE DEF n, w
  <2>7. /\ Len(lh') + n * MAXOPBLOCKS <= LOGSIZE + Cardinality(Charged')
        /\ n = 1 => \/ Len(lh') <= Cardinality(Charged')
                    \/ Len(lh') + MAXOPBLOCKS + 1 <= LOGSIZE + Cardinality(Charged')
    <3>1. PICK x \in Nat : n * MAXOPBLOCKS = x
      BY <2>5
    <3>2. Len(lh) + x <= LOGSIZE + w
      BY <2>4, <3>1
    <3>3. Len(lh') + x <= LOGSIZE + Cardinality(Charged')
      BY SMT, <2>1, <2>5, <2>6, <3>2, <1>9
    <3>4. n = 1 => \/ Len(lh') <= Cardinality(Charged')
                   \/ Len(lh') + MAXOPBLOCKS + 1 <= LOGSIZE + Cardinality(Charged')
      BY SMT, <2>1, <2>4, <2>5, <2>6, <1>9
    <3> QED
      BY <3>1, <3>3, <3>4
  <2> QED
    BY <2>7, <1>5 DEF Room, n
<1> QED
  BY <1>4, <1>8, <1>11, <1>12, <1>13

\* A call that returns gives up its share, of which it left at least a block.
LEMMA EndOpStep ==
  ASSUME SmallCalls, IInv, NEW p \in Procs, end_op(p)
  PROVE  IInv'
<1> DEFINE n == Cardinality(InOp)
           w == Cardinality(Charged)
<1> USE DEF IInv
<1>1. p \in InOp /\ ~committing /\ outstanding = n /\ n \in Nat /\ w \in Nat
  BY Finite DEF end_op, InOp, NeverTooBig, OutstandingExact, NoPanic
<1>2. /\ outstanding' = outstanding - 1
      /\ wrote' = [wrote EXCEPT ![p] = {}]
      /\ UNCHANGED <<hdr, disk, cache, dirty, lh, held, panicked>>
  BY <1>1 DEF end_op, diskVars, cacheVars
<1>3. n >= 1 /\ Cardinality(InOp \ {p}) = n - 1
  BY SMT, <1>1, Finite, FS_EmptySet, FS_RemoveElement
<1>4. phase = "idle"
  BY <1>1 DEF Phases
<1>5. Cardinality({}) <= OpWrites
  BY SMT, FS_EmptySet, LogAssumption
<1>6. Cardinality(wrote[p]) \in Nat /\ Cardinality(wrote[p]) < MAXOPBLOCKS
  <2>1. Cardinality(wrote[p]) \in Nat /\ Cardinality(wrote[p]) <= OpWrites
    BY Finite DEF CallsBounded
  <2> QED
    BY SMT, <2>1, LogAssumption DEF SmallCalls
<1>7. CASE outstanding = 1
  <2>1. /\ committing' = TRUE /\ pc' = [pc EXCEPT ![p] = "commit"]
        /\ phase' = (IF Len(lh) > 0 THEN "writeLog" ELSE "done") /\ tail' = 0
    BY <1>1, <1>7 DEF end_op
  <2>2. InOp' = InOp \ {p}
    BY <2>1 DEF InOp, TypeOK
  <2>3. InOp' = {}
    BY SMT, <2>2, <1>1, <1>3, <1>7, Finite, FS_Difference, FS_EmptySet, FS_Subset
  <2>4. TypeOK' /\ (Len(hdr) <= SIZE - 1)'
    BY SMT, <1>2, <1>3, <1>1, <1>7, <2>1 DEF TypeOK
  <2>5. NeverTooBig'
    BY SMT, <1>2, <1>7, <2>3, FS_EmptySet DEF NeverTooBig, OutstandingExact, LogFits, NoPanic
  <2>6. CallsBounded'
    <3>1. \A q \in Procs : q # p => q \notin InOp
      BY <2>2, <2>3
    <3>2. \A q \in Procs : wrote'[q] = {} /\ pc'[q] # "append"
      BY <3>1, <1>2, <2>1 DEF CallsBounded, TypeOK, InOp
    <3> QED
      BY <3>2, <2>3, <1>5 DEF CallsBounded
  <2>7. Phases'
    BY SMT, <1>2, <2>1, <2>3 DEF Phases, TypeOK
  <2> QED
    BY <2>3, <2>4, <2>5, <2>6, <2>7
<1>8. CASE outstanding # 1
  <2>1. /\ pc' = Wakeup([pc EXCEPT ![p] = "user"])
        /\ UNCHANGED <<committing, phase, tail>>
    BY <1>1, <1>8 DEF end_op
  <2>2. \A q \in Procs : \/ q # p /\ pc'[q] = pc[q]
                         \/ pc'[q] \in {"begin", "user"} /\ (pc[q] = "asleep" \/ q = p)
    BY <2>1 DEF Wakeup, TypeOK
  <2>3. TypeOK' /\ (Len(hdr) <= SIZE - 1)'
    BY SMT, <1>1, <1>2, <1>3, <2>1 DEF TypeOK, Wakeup
  <2>4. InOp' = InOp \ {p}
    BY <2>2, <1>1 DEF InOp
  <2>5. NeverTooBig'
    BY <1>1, <1>2, <1>3, <2>1, <2>4 DEF NeverTooBig, OutstandingExact, LogFits, NoPanic
  <2>6. CallsBounded'
    <3> SUFFICES ASSUME NEW q \in Procs
                 PROVE  /\ q \notin InOp' => wrote'[q] = {}
                        /\ Cardinality(wrote'[q]) <= OpWrites
                        /\ \A c \in wrote'[q] : Logged(c)'
                        /\ pc'[q] = "append" =>
                             /\ held'[q] \in Blocks
                             /\ Cardinality(wrote'[q] \cup {held'[q]}) <= OpWrites
      BY DEF CallsBounded
    <3>1. wrote'[q] = IF q = p THEN {} ELSE wrote[q]
      BY <1>2 DEF TypeOK
    <3>2. Cardinality(wrote'[q]) <= OpWrites
      BY <3>1, <1>5 DEF CallsBounded
    <3>3. pc'[q] = "append" => pc[q] = "append" /\ q # p
      BY <2>2
    <3>4. \A c : Logged(c)' <=> Logged(c)
      BY <1>2 DEF Logged
    <3>5. held'[q] = held[q]
      BY <1>2
    <3>6. q \notin InOp' => wrote'[q] = {}
      BY <3>1, <2>4 DEF CallsBounded
    <3> QED
      BY <3>1, <3>2, <3>3, <3>4, <3>5, <3>6 DEF CallsBounded
  <2>7. InOp' # {}
    <3>1. Cardinality(InOp') # Cardinality({})
      BY SMT, <2>4, <1>1, <1>3, <1>8, FS_EmptySet
    <3> QED
      BY <3>1
  <2>8. Phases'
    BY <2>1, <2>7, <1>4 DEF Phases
  <2>9. Cardinality(Charged') + Cardinality(wrote[p]) = w
    <3> DEFINE D == {p} \X wrote[p]
    <3>1. Charged' = Charged \ D /\ D \subseteq Charged
      <4>1. \A q \in Procs, c \in Blocks :
              q \in InOp' /\ c \in wrote'[q] <=> q \in InOp /\ c \in wrote[q] /\ q # p
        BY <1>2, <2>4 DEF TypeOK
      <4>2. D \subseteq Charged
        BY <1>1 DEF Charged, TypeOK
      <4>3. \A x \in Charged : x \in D <=> x[1] = p
        BY DEF Charged
      <4>4. \A x : x \in Charged' <=> x \in Charged /\ x[1] # p
        BY <4>1 DEF Charged
      <4> QED
        BY <4>2, <4>3, <4>4
    <3>2. /\ IsFiniteSet(Charged) /\ IsFiniteSet(wrote[p]) /\ IsFiniteSet({p})
          /\ Cardinality({p}) = 1 /\ Cardinality(wrote[p]) \in Nat
      BY Finite, FS_Singleton
    <3>3. IsFiniteSet(D) /\ Cardinality(D) = 1 * Cardinality(wrote[p])
      BY <3>2, FS_Product
    <3>4. Cardinality(Charged \ D) = w - Cardinality(Charged \cap D)
      BY <3>2, <3>3, FS_Difference
    <3>5. Charged \cap D = D
      BY <3>1
    <3>6. Cardinality(Charged') = w - Cardinality(D)
      BY <3>1, <3>4, <3>5
    <3> HIDE DEF D, w
    <3>7. Cardinality(D) = Cardinality(wrote[p])
      BY SMT, <3>3, <1>6
    <3> QED
      BY SMT, <3>6, <3>7, <1>1, <1>6
  <2>10. Room'
    <3>2. Cardinality(Charged') \in Nat
      <4>1. Charged' \subseteq Charged
        BY <1>2, <2>4 DEF Charged, TypeOK
      <4> QED
        BY <4>1, Finite, FS_Subset, FS_CardinalityType
    <3>3. Len(lh) + n * MAXOPBLOCKS <= LOGSIZE + w
      BY <1>1 DEF Room
    <3>4. Len(lh) \in Nat /\ MAXOPBLOCKS \in Nat /\ LOGSIZE \in Nat
      BY SMT, LogAssumption DEF TypeOK
    <3>5. PICK m \in Nat : n = m + 1
      <4>1. n - 1 \in Nat /\ n = (n - 1) + 1
        BY SMT, <1>1, <1>3
      <4> QED
        BY <4>1
    <3>6. n * MAXOPBLOCKS = m * MAXOPBLOCKS + MAXOPBLOCKS /\ m * MAXOPBLOCKS \in Nat
      BY SMT, <3>4, <3>5, Products
    <3>7. Cardinality(InOp') = m
      BY SMT, <2>4, <1>1, <1>3, <3>5
    <3> HIDE DEF n, w
    <3>8. Len(lh) + m * MAXOPBLOCKS + 1 <= LOGSIZE + Cardinality(Charged')
      <4>1. PICK x \in Nat : m * MAXOPBLOCKS = x
        BY <3>6
      <4>2. Len(lh) + (x + MAXOPBLOCKS) <= LOGSIZE + w
        BY <3>3, <3>6, <4>1
      <4>3. Len(lh) + x + 1 <= LOGSIZE + Cardinality(Charged')
        BY SMT, <4>2, <3>2, <3>4, <2>9, <1>1, <1>6
      <4> QED
        BY <4>1, <4>3
    <3>9. m = 1 => m * MAXOPBLOCKS = MAXOPBLOCKS
      BY SMT, <3>4
    <3>10. /\ Len(lh') + m * MAXOPBLOCKS <= LOGSIZE + Cardinality(Charged')
           /\ m = 1 => Len(lh') + MAXOPBLOCKS + 1 <= LOGSIZE + Cardinality(Charged')
      BY SMT, <1>2, <3>2, <3>4, <3>6, <3>8, <3>9
    <3> QED
      BY <3>7, <3>10 DEF Room
  <2> QED
    BY <2>3, <2>5, <2>6, <2>8, <2>10
<1> QED
  BY <1>7, <1>8

\* The end of a commit admits calls again, with an empty log.
LEMMA EndCommitStep ==
  ASSUME IInv, NEW p \in Procs, EndCommit(p)
  PROVE  IInv'
<1> USE DEF IInv
<1>1. InOp = {} /\ lh = <<>>
  BY DEF EndCommit, Phases
<1>2. /\ pc' = Wakeup([pc EXCEPT ![p] = "user"]) /\ committing' = FALSE /\ phase' = "idle"
      /\ UNCHANGED <<hdr, disk, cache, dirty, lh, outstanding, wrote, held, tail, panicked>>
  BY DEF EndCommit, diskVars, cacheVars
<1>3. TypeOK' /\ (Len(hdr) <= SIZE - 1)'
  BY <1>2 DEF TypeOK, Wakeup
<1>4. \A q \in Procs : pc'[q] \notin {"op", "append"}
  BY <1>1, <1>2 DEF Wakeup, InOp, TypeOK
<1>5. InOp' = {}
  BY <1>4 DEF InOp
<1>6. NeverTooBig'
  BY <1>1, <1>2, <1>5 DEF NeverTooBig, OutstandingExact, LogFits, NoPanic
<1>7. CallsBounded'
  BY <1>1, <1>2, <1>4, <1>5 DEF CallsBounded, Logged
<1>8. Phases'
  BY <1>1, <1>2, <1>5 DEF Phases
<1> QED
  BY <1>3, <1>5, <1>6, <1>7, <1>8

\* write_log, write_head and install_trans work on what the calls have left.
LEMMA CommitSteps ==
  ASSUME IInv, write_log \/ write_head \/ install_trans
  PROVE  IInv'
<1> USE DEF IInv
<1>1. UNCHANGED <<lh, outstanding, committing, procVars, panicked>>
  BY DEF write_log, write_head, install_trans, logVars
<1>2. InOp' = InOp /\ CallsBounded' /\ (InOp' # {} => Room')
  BY <1>1, Frame
<1>3. NeverTooBig'
  BY <1>1, <1>2 DEF NeverTooBig, OutstandingExact, LogFits, NoPanic
<1>4. Phases'
  BY <1>1, <1>2 DEF write_log, write_head, install_trans, Phases
<1>5. \A i \in DOMAIN lh : lh[i] \in Blocks /\ lh[i] \in Addrs /\ i \in Addrs
  <2>1. Len(lh) <= SIZE - 1 /\ SIZE \in Nat \ {0} /\ NBLOCKS \in Nat \ {0}
    BY LogAssumption DEF NeverTooBig, LogFits
  <2> QED
    BY SMT, <2>1 DEF TypeOK, Blocks, Addrs
<1>6. TypeOK' /\ (Len(hdr) <= SIZE - 1)'
  <2>1. CASE write_head
    BY <2>1, <1>1 DEF write_head, TypeOK, NeverTooBig, LogFits, cacheVars, procVars
  <2>2. CASE write_log
    <3>1. tail + 1 \in DOMAIN lh /\ tail + 1 \in Nat
      BY SMT, <2>2 DEF write_log, TypeOK
    <3>2. cache[lh[tail + 1]] \in Vals /\ tail + 1 \in Addrs
      BY <3>1, <1>5 DEF TypeOK
    <3> QED
      BY <2>2, <1>1, <3>1, <3>2 DEF write_log, TypeOK, cacheVars, procVars
  <2>3. CASE install_trans
    <3>1. tail + 1 \in DOMAIN lh /\ tail + 1 \in Nat
      BY SMT, <2>3 DEF install_trans, TypeOK
    <3>2. disk[tail + 1] \in Vals /\ lh[tail + 1] \in Addrs /\ lh[tail + 1] \in Blocks
      BY <3>1, <1>5 DEF TypeOK
    <3> QED
      BY <2>3, <1>1, <3>1, <3>2 DEF install_trans, InstallOne, TypeOK, procVars
  <2> QED
    BY <2>1, <2>2, <2>3
<1> QED
  BY <1>2, <1>3, <1>4, <1>6

\* The steps that empty the log, when no call is under way.
LEMMA ClearSteps ==
  ASSUME IInv, ClearHead \/ RecClear
  PROVE  IInv'
<1> USE DEF IInv
<1>1. InOp = {}
  BY DEF ClearHead, RecClear, Phases
<1>2. /\ lh' = <<>> /\ hdr' = <<>> /\ tail' = 0
      /\ UNCHANGED <<disk, cache, dirty, outstanding, committing, pc, wrote, held, panicked>>
  BY DEF ClearHead, RecClear, cacheVars, procVars
<1>3. InOp' = {}
  BY <1>1, <1>2 DEF InOp
<1>4. \A p \in Procs : wrote'[p] = {} /\ pc'[p] # "append"
  BY <1>1, <1>2 DEF CallsBounded, InOp
<1>5. CallsBounded'
  BY <1>1, <1>2, <1>3, <1>4 DEF CallsBounded
<1>6. phase' = (IF phase = "install" THEN "done" ELSE "idle")
  BY DEF ClearHead, RecClear
<1>7. TypeOK'
  BY SMT, <1>2, <1>6 DEF TypeOK
<1>8. NeverTooBig' /\ (Len(hdr) <= SIZE - 1)'
  BY SMT, <1>1, <1>2, <1>3, LogAssumption DEF NeverTooBig, OutstandingExact, LogFits, NoPanic
<1>9. Phases'
  BY <1>2, <1>3, <1>6 DEF ClearHead, RecClear, Phases
<1> QED
  BY <1>3, <1>5, <1>7, <1>8, <1>9

\* A crash leaves a header that write_head wrote or cleared.
LEMMA CrashStep ==
  ASSUME IInv, Crash
  PROVE  IInv'
<1> USE DEF IInv
<1>1. InOp' = {}
  BY DEF Crash, InOp
<1>2. TypeOK' /\ (Len(hdr) <= SIZE - 1)'
  <2>1. Blocks \subseteq Addrs
    BY SMT, LogAssumption DEF Blocks, Addrs
  <2> QED
    BY <2>1 DEF Crash, TypeOK, diskVars
<1>3. NeverTooBig'
  BY <1>1, FS_EmptySet DEF Crash, diskVars, NeverTooBig, OutstandingExact, LogFits, NoPanic
<1>4. CallsBounded'
  <2>1. Cardinality({}) <= OpWrites
    BY SMT, FS_EmptySet, LogAssumption
  <2> QED
    BY <2>1, <1>1 DEF Crash, CallsBounded
<1>5. Phases'
  BY <1>1 DEF Crash, Phases
<1> QED
  BY <1>1, <1>2, <1>3, <1>4, <1>5

\* Eviction and recovery's install_trans leave the reservations alone.
LEMMA QuietSteps ==
  ASSUME IInv, RecInstall \/ (\E b \in Blocks : Evict(b)) \/ UNCHANGED vars
  PROVE  IInv'
<1> USE DEF IInv
<1>1. UNCHANGED <<hdr, lh, outstanding, committing, procVars, phase, panicked>>
  BY DEF RecInstall, Evict, vars, diskVars, logVars, commitVars
<1>2. InOp' = InOp /\ CallsBounded' /\ (InOp' # {} => Room')
  BY <1>1, Frame
<1>3. NeverTooBig' /\ (Len(hdr) <= SIZE - 1)'
  BY <1>1, <1>2 DEF NeverTooBig, OutstandingExact, LogFits, NoPanic
<1>4. Phases'
  BY <1>1, <1>2 DEF Phases
<1>5. TypeOK'
  <2>1. CASE RecInstall
    <3>1. tail + 1 \in DOMAIN lh /\ tail + 1 \in Nat /\ tail + 1 <= Len(lh) /\ Len(lh) \in Nat
      BY SMT, <2>1 DEF RecInstall, TypeOK
    <3>2. lh[tail + 1] \in Blocks
      BY SMT, <3>1 DEF TypeOK
    <3>3. tail + 1 \in Addrs /\ lh[tail + 1] \in Addrs
      BY SMT, <3>1, <3>2, LogAssumption DEF Blocks, Addrs, NeverTooBig, LogFits
    <3>4. disk[tail + 1] \in Vals
      BY <3>3 DEF TypeOK
    <3> QED
      BY <2>1, <1>1, <3>1, <3>2, <3>3, <3>4 DEF RecInstall, InstallOne, TypeOK, procVars
  <2>2. CASE \E b \in Blocks : Evict(b)
    <3>1. PICK b \in Blocks : Evict(b)
      BY <2>2
    <3>2. b \in Addrs
      BY SMT, LogAssumption DEF Blocks, Addrs
    <3> QED
      BY <3>1, <3>2, <1>1 DEF Evict, TypeOK, diskVars, procVars, commitVars
  <2>3. CASE UNCHANGED vars
    BY <2>3 DEF vars, diskVars, cacheVars, logVars, procVars, commitVars, TypeOK
  <2> QED
    BY <2>1, <2>2, <2>3
<1> QED
  BY <1>2, <1>3, <1>4, <1>5

\* Every step of a call, of a commit, of recovery and every crash keeps it.
LEMMA NextIInv ==
  ASSUME SmallCalls, IInv, [Next]_vars
  PROVE  IInv'
<1>1. ASSUME NEW p \in Procs, Operation(p) PROVE IInv'
  BY <1>1, BeginOpStep, LogWriteCheckStep, LogWriteAppendStep, EndOpStep, EndCommitStep
     DEF Operation
<1>2. CASE CommitStep
  BY <1>2, CommitSteps, ClearSteps DEF CommitStep
<1>3. CASE Recovery
  BY <1>3, QuietSteps, ClearSteps DEF Recovery
<1> QED
  BY <1>1, <1>2, <1>3, CrashStep, QuietSteps DEF Next

-----------------------------------------------------------------------------

\* The inductive invariant holds throughout.
THEOREM Reservations ==
  ASSUME SmallCalls
  PROVE  Spec => []IInv
<1>1. Init => IInv
  BY InitIInv
<1>2. IInv /\ [Next]_vars => IInv'
  BY NextIInv
<1> QED
  BY <1>1, <1>2, PTL DEF Spec

\* begin_op's reservation suffices (log.c:126-176, log.c:214-234): if every call
\* writes fewer blocks than the MAXOPBLOCKS it reserves, then log.outstanding
\* counts the calls under way, no call is under way during a commit, no
\* transaction outgrows the log and log_write and end_op never panic, whatever
\* the number of processes and however calls, commits and crashes interleave.
THEOREM NoTransactionTooBig ==
  ASSUME SmallCalls
  PROVE  Spec => []NeverTooBig
<1>1. IInv => NeverTooBig
  BY DEF IInv
<1> QED
  BY <1>1, Reservations, PTL

-----------------------------------------------------------------------------
(* The log as an atomic disk *)

\* No block is listed twice in a header.
Distinct(h) == \A i, j \in DOMAIN h : h[i] = h[j] => i = j

\* B_DIRTY marks the blocks of the transaction that are not installed yet.
Pinned ==
  IF phase = "recInstall"
  THEN dirty = {}
  ELSE \A b \in Blocks :
         b \in dirty <=> \E i \in DOMAIN lh : lh[i] = b /\ (phase = "install" => i > tail)

\* The header on the disk is empty up to write_head and that of the transaction
\* until it is cleared; the first tail blocks are installed.
Header ==
  IF phase \in {"install", "recInstall"}
  THEN hdr = lh /\ \A i \in DOMAIN lh : i <= tail => disk[lh[i]] = disk[i]
  ELSE hdr = <<>>

\* The log blocks that write_log has written hold the buffers' contents.
Copied ==
  /\ phase = "writeLog" => \A i \in DOMAIN lh : i <= tail => disk[i] = cache[lh[i]]
  /\ phase = "install" => \A i \in DOMAIN lh : disk[i] = cache[lh[i]]

\* Buffers agree with the disk unless they are B_DIRTY or held.
Clean ==
  \A b \in Blocks :
    b \notin dirty /\ (\A p \in Procs : held[p] # b) => cache[b] = disk[b]

\* A process holds a buffer just while log_write is under way.
Holding == \A p \in Procs : pc[p] = "append" <=> held[p] # NoBlock

AInv ==
  /\ IInv
  /\ Distinct(lh) /\ Distinct(hdr)
  /\ Pinned /\ Header /\ Copied /\ Clean /\ Holding

-----------------------------------------------------------------------------
(* Recovery as a function of the disk *)

\* Recovered, for a header h and blocks d.
RecAt(h, d, b) ==
  IF \E i \in DOMAIN h : h[i] = b
  THEN d[CHOOSE i \in DOMAIN h : h[i] = b /\ \A j \in DOMAIN h : h[j] = b => j <= i]
  ELSE d[b]

\* The blocks of the header are read from the log, the others from their home.
LEMMA RecAtIs ==
  ASSUME NEW h \in Seq(Blocks), Distinct(h), NEW d
  PROVE  /\ \A i \in DOMAIN h : RecAt(h, d, h[i]) = d[i]
         /\ \A b : (\A i \in DOMAIN h : h[i] # b) => RecAt(h, d, b) = d[b]
<1>1. ASSUME NEW i \in DOMAIN h
      PROVE  RecAt(h, d, h[i]) = d[i]
  <2> DEFINE P(k) == h[k] = h[i] /\ \A j \in DOMAIN h : h[j] = h[i] => j <= k
  <2>1. P(i) /\ \A k \in DOMAIN h : P(k) => k = i
    BY SMT DEF Distinct
  <2>2. (CHOOSE k \in DOMAIN h : P(k)) = i
    BY <2>1
  <2> QED
    BY <2>2 DEF RecAt
<1>2. ASSUME NEW b, \A i \in DOMAIN h : h[i] # b
      PROVE  RecAt(h, d, b) = d[b]
  BY <1>2 DEF RecAt
<1> QED
  BY <1>1, <1>2

\* What recovery makes of a disk, block by block: the logged copy if the header
\* names the block, the disk's own otherwise.
LEMMA RecoveredIs ==
  /\ \A b : Recovered(b) = RecAt(hdr, disk, b)
  /\ \A b : Recovered(b)' = RecAt(hdr', disk', b)
BY DEF Recovered, RecAt

\* Log blocks and home blocks are apart.
LEMMA Apart ==
  ASSUME IInv
  PROVE  /\ Blocks \subseteq Addrs
         /\ \A i \in DOMAIN lh : i \in Addrs /\ i \notin Blocks /\ lh[i] \in Blocks /\ i \in Nat
         /\ \A i \in DOMAIN lh : i \in 1 .. Len(lh)
         /\ Len(lh) \in Nat
<1>1. Len(lh) <= SIZE - 1 /\ Len(lh) \in Nat /\ lh \in Seq(Blocks)
  BY SMT DEF IInv, NeverTooBig, LogFits, TypeOK
<1> QED
  BY SMT, <1>1, LogAssumption DEF Blocks, Addrs

\* The state of the atomic disk.
Stable == [b \in Blocks |-> Recovered(b)]
Mem == IF phase = "recInstall" THEN Stable ELSE cache

\* A step that changes none of it is a stuttering step of the atomic disk.
LEMMA Stutters ==
  ASSUME Mem' = Mem, Stable' = Stable, InOp' = InOp
  PROVE  [Atomic!Next]_(Atomic!vars)
BY DEF Mem, Stable, Atomic!vars

\* A crash is one of the atomic disk.
LEMMA CrashIsCrash ==
  ASSUME AInv, IInv', Crash
  PROVE  AInv' /\ Atomic!Crash
<1>1. Stable' = Stable /\ Mem' = Stable /\ InOp' = {}
  BY RecoveredIs DEF Crash, Stable, Mem, diskVars, InOp
<1>2. Atomic!Crash
  BY <1>1 DEF Atomic!Crash, Mem, Stable
<1>3. Distinct(lh)' /\ Distinct(hdr)'
  BY DEF Crash, AInv, Distinct, diskVars
<1>4. Header'
  <2>1. \A i \in DOMAIN hdr : ~(i <= 0)
    BY SMT DEF AInv, IInv, TypeOK
  <2> QED
    BY <2>1 DEF Crash, Header, diskVars
<1>5. Pinned' /\ Copied' /\ Clean' /\ Holding'
  BY DEF Crash, Pinned, Copied, Clean, Holding, diskVars
<1> QED
  BY <1>2, <1>3, <1>4, <1>5 DEF AInv

-----------------------------------------------------------------------------
(* The steps of calls *)

\* While calls are let in, the disk has no transaction.
LEMMA IdleStable ==
  ASSUME IInv, Header, Up, ~committing \/ InOp # {}
  PROVE  phase = "idle" /\ hdr = <<>>
<1>1. phase = "idle"
  BY DEF IInv, Up, Phases, TypeOK, NeverTooBig, OutstandingExact, NoPanic
<1> QED
  BY <1>1 DEF Header

\* begin_op starts an operation of the atomic disk, or is not seen by it.
LEMMA BeginOpMaps ==
  ASSUME AInv, IInv', NEW p \in Procs, begin_op(p)
  PROVE  AInv' /\ [Atomic!Next]_(Atomic!vars)
<1>1. UNCHANGED <<hdr, disk, cache, dirty, lh, held, phase, tail>>
  BY DEF begin_op, diskVars, cacheVars, commitVars
<1>2. /\ pc' = [pc EXCEPT ![p] = "asleep"] \/ pc' = [pc EXCEPT ![p] = "op"]
      /\ pc[p] \in {"user", "begin"} /\ pc = [q \in Procs |-> pc[q]]
  BY DEF begin_op, AInv, IInv, TypeOK
<1>3. AInv'
  <2>1. Holding'
    BY <1>1, <1>2 DEF AInv, Holding
  <2> QED
    BY <2>1, <1>1 DEF AInv, Distinct, Pinned, Header, Copied, Clean
<1>4. Mem' = Mem /\ Stable' = Stable
  BY <1>1, RecoveredIs DEF Mem, Stable
<1>5. CASE pc' = [pc EXCEPT ![p] = "asleep"]
  <2>1. InOp' = InOp
    BY <1>2, <1>5 DEF InOp
  <2> QED
    BY <2>1, <1>3, <1>4, Stutters
<1>6. CASE pc' = [pc EXCEPT ![p] = "op"]
  <2>1. InOp' = InOp \cup {p} /\ p \notin InOp
    BY <1>2, <1>6 DEF InOp
  <2>2. Atomic!Begin(p)
    BY <2>1, <1>4 DEF Atomic!Begin, Mem, Stable
  <2> QED
    BY <2>2, <1>3 DEF Atomic!Next
<1> QED
  BY <1>2, <1>5, <1>6

\* The change of a buffer before log_write is a write of the atomic disk.
LEMMA LogWriteCheckMaps ==
  ASSUME SmallCalls, AInv, IInv', NEW p \in Procs, NEW b \in Blocks, NEW v \in Vals,
         LogWriteCheck(p, b, v)
  PROVE  AInv' /\ Atomic!Write(p, b, v)
<1>1. p \in InOp /\ ~panicked'
  BY DEF LogWriteCheck, InOp, IInv, NeverTooBig, NoPanic
<1>2. phase = "idle" /\ hdr = <<>>
  BY <1>1, IdleStable DEF AInv, LogWriteCheck
<1>3. /\ pc' = [pc EXCEPT ![p] = "append"] /\ held' = [held EXCEPT ![p] = b]
      /\ cache' = [cache EXCEPT ![b] = v]
      /\ UNCHANGED <<hdr, disk, dirty, lh, phase, tail>>
  BY <1>1 DEF LogWriteCheck, diskVars, logVars, commitVars
<1>4. /\ pc = [q \in Procs |-> pc[q]] /\ held \in [Procs -> Blocks \cup {NoBlock}]
      /\ cache \in [Blocks -> Vals] /\ b # NoBlock
  BY LogAssumption DEF AInv, IInv, TypeOK, Blocks
<1>5. Clean'
  <2>1. held[p] = NoBlock /\ \A c \in Blocks : c # NoBlock
    BY LogAssumption DEF AInv, Holding, LogWriteCheck, Blocks
  <2> SUFFICES ASSUME NEW c \in Blocks, c \notin dirty', \A q \in Procs : held'[q] # c
               PROVE  cache'[c] = disk'[c]
    BY DEF Clean
  <2>2. c # b /\ \A q \in Procs : held[q] # c
    BY <2>1, <1>3, <1>4
  <2> QED
    BY <2>2, <1>3, <1>4 DEF AInv, Clean
<1>6. Holding'
  BY <1>3, <1>4 DEF AInv, Holding
<1>7. Distinct(lh)' /\ Distinct(hdr)' /\ Pinned' /\ Header' /\ Copied'
  BY <1>2, <1>3 DEF AInv, Distinct, Pinned, Header, Copied
<1>8. InOp' = InOp
  BY <1>1, <1>3, <1>4 DEF InOp
<1>9. Stable' = Stable /\ Mem' = [Mem EXCEPT ![b] = v]
  BY <1>2, <1>3, RecoveredIs DEF Mem, Stable
<1>10. Atomic!Write(p, b, v)
  BY <1>1, <1>8, <1>9 DEF Atomic!Write, Mem, Stable
<1> QED
  BY <1>5, <1>6, <1>7, <1>10 DEF AInv

\* The rest of log_write pins the buffer; the atomic disk does not see it.
LEMMA LogWriteAppendMaps ==
  ASSUME AInv, IInv', NEW p \in Procs, LogWriteAppend(p)
  PROVE  AInv' /\ [Atomic!Next]_(Atomic!vars)
<1> DEFINE b == held[p]
<1>1. p \in InOp /\ b \in Blocks /\ b # NoBlock
  BY LogAssumption DEF LogWriteAppend, InOp, AInv, IInv, CallsBounded, Blocks
<1>2. phase = "idle" /\ hdr = <<>>
  BY <1>1, IdleStable DEF AInv, LogWriteAppend
<1>3. /\ pc' = [pc EXCEPT ![p] = "op"] /\ held' = [held EXCEPT ![p] = NoBlock]
      /\ dirty' = dirty \cup {b}
      /\ lh' = IF Logged(b) THEN lh ELSE Append(lh, b)
      /\ UNCHANGED <<hdr, disk, cache, phase, tail>>
  BY DEF LogWriteAppend, Logged, diskVars, commitVars
<1>4. /\ pc = [q \in Procs |-> pc[q]] /\ held \in [Procs -> Blocks \cup {NoBlock}]
      /\ lh \in Seq(Blocks)
  BY DEF AInv, IInv, TypeOK
<1>5. /\ \A c : (\E i \in DOMAIN lh' : lh'[i] = c) <=> Logged(c) \/ c = b
      /\ Distinct(lh')
  <2>1. CASE Logged(b)
    BY <2>1, <1>3 DEF Logged, AInv
  <2>2. CASE ~Logged(b)
    <3>1. /\ DOMAIN lh' = DOMAIN lh \cup {Len(lh) + 1} /\ Len(lh) + 1 \notin DOMAIN lh
          /\ \A i \in DOMAIN lh : lh'[i] = lh[i]
          /\ lh'[Len(lh) + 1] = b
      BY SMT, <2>2, <1>1, <1>3, <1>4
    <3>2. \A c : (\E i \in DOMAIN lh' : lh'[i] = c) <=> Logged(c) \/ c = b
      BY <3>1 DEF Logged
    <3>3. \A i \in DOMAIN lh : lh[i] # b
      BY <2>2 DEF Logged
    <3>4. Distinct(lh')
      BY <3>1, <3>3 DEF AInv, Distinct
    <3> QED
      BY <3>2, <3>4
  <2> QED
    BY <2>1, <2>2
<1>6. Distinct(lh)' /\ Distinct(hdr)' /\ Header' /\ Copied'
  BY <1>2, <1>3, <1>5 DEF AInv, Distinct, Header, Copied
<1>7. Pinned'
  BY <1>2, <1>3, <1>5 DEF AInv, Pinned, Logged
<1>8. Holding' /\ Clean'
  BY <1>1, <1>3, <1>4 DEF AInv, Holding, Clean
<1>9. InOp' = InOp
  BY <1>1, <1>3, <1>4 DEF InOp
<1>10. Mem' = Mem /\ Stable' = Stable
  BY <1>3, RecoveredIs DEF Mem, Stable
<1> QED
  BY <1>6, <1>7, <1>8, <1>9, <1>10, Stutters DEF AInv

\* end_op ends an operation of the atomic disk.
LEMMA EndOpMaps ==
  ASSUME AInv, IInv', NEW p \in Procs, end_op(p)
  PROVE  AInv' /\ Atomic!End(p)
<1>1. p \in InOp /\ ~panicked'
  BY DEF end_op, InOp, IInv, NeverTooBig, NoPanic
<1>2. phase = "idle" /\ hdr = <<>>
  BY <1>1, IdleStable DEF AInv, end_op
<1>3. ~committing
  BY <1>1 DEF end_op
<1>4. /\ UNCHANGED <<hdr, disk, cache, dirty, lh, held>>
      /\ \/ /\ pc' = [pc EXCEPT ![p] = "commit"] /\ tail' = 0
            /\ phase' \in {"writeLog", "done"}
         \/ pc' = Wakeup([pc EXCEPT ![p] = "user"]) /\ UNCHANGED <<phase, tail>>
  BY <1>3 DEF end_op, diskVars, cacheVars
<1>5. pc = [q \in Procs |-> pc[q]] /\ pc[p] = "op"
  BY DEF AInv, IInv, TypeOK, end_op
<1>6. \A q \in Procs :
        /\ pc'[q] = "append" <=> pc[q] = "append"
        /\ pc'[q] \in {"op", "append"} <=> pc[q] \in {"op", "append"} /\ q # p
  BY <1>4, <1>5 DEF Wakeup
<1>7. Holding' /\ InOp' = InOp \ {p}
  BY <1>4, <1>6 DEF AInv, Holding, InOp
<1>8. Distinct(lh)' /\ Distinct(hdr)' /\ Clean' /\ Header'
  BY <1>2, <1>4 DEF AInv, Distinct, Header, Clean
<1>9. Pinned'
  BY <1>2, <1>4 DEF AInv, Pinned
<1>10. Copied'
  <2>1. \A i \in DOMAIN lh : ~(i <= 0)
    BY SMT DEF AInv, IInv, TypeOK
  <2> QED
    BY <2>1, <1>2, <1>4 DEF Copied
<1>11. Mem' = Mem /\ Stable' = Stable
  BY <1>2, <1>4, RecoveredIs DEF Mem, Stable
<1>12. Atomic!End(p)
  BY <1>1, <1>7, <1>11 DEF Atomic!End, Mem, Stable
<1> QED
  BY <1>7, <1>8, <1>9, <1>10, <1>12 DEF AInv

-----------------------------------------------------------------------------
(* The steps of commit and recovery *)

\* No process holds a buffer while none is inside a call.
LEMMA NoneHeld ==
  ASSUME AInv, InOp = {}
  PROVE  \A p \in Procs, b \in Blocks : held[p] # b
<1>1. \A p \in Procs : held[p] = NoBlock
  BY DEF AInv, Holding, InOp
<1> QED
  BY <1>1, LogAssumption DEF Blocks

\* The end of a commit.
LEMMA EndCommitMaps ==
  ASSUME AInv, IInv', NEW p \in Procs, EndCommit(p)
  PROVE  AInv' /\ [Atomic!Next]_(Atomic!vars)
<1>1. /\ UNCHANGED <<hdr, disk, cache, dirty, lh, held, tail>>
      /\ phase = "done" /\ phase' = "idle" /\ lh = <<>>
      /\ pc' = Wakeup([pc EXCEPT ![p] = "user"]) /\ pc[p] = "commit"
  BY DEF EndCommit, diskVars, cacheVars, AInv, IInv, Phases
<1>2. pc = [q \in Procs |-> pc[q]]
  BY DEF AInv, IInv, TypeOK
<1>3. \A q \in Procs : pc'[q] = pc[q] \/ {pc[q], pc'[q]} \cap {"op", "append"} = {}
  BY <1>1, <1>2 DEF Wakeup
<1>4. Holding' /\ InOp' = InOp
  BY <1>1, <1>3 DEF AInv, Holding, InOp
<1>5. Distinct(lh)' /\ Distinct(hdr)' /\ Clean' /\ Header' /\ Pinned' /\ Copied'
  BY SMT, <1>1 DEF AInv, Distinct, Header, Clean, Pinned, Copied
<1>6. Mem' = Mem /\ Stable' = Stable
  BY <1>1, RecoveredIs DEF Mem, Stable
<1> QED
  BY <1>4, <1>5, <1>6, Stutters DEF AInv

\* write_log writes to the log area, which recovery does not look at yet.
LEMMA WriteLogMaps ==
  ASSUME AInv, IInv', write_log
  PROVE  AInv' /\ [Atomic!Next]_(Atomic!vars)
<1> DEFINE t == tail + 1
<1>1. /\ phase = "writeLog" /\ hdr = <<>> /\ disk' = [disk EXCEPT ![t] = cache[lh[t]]]
      /\ tail' = t
      /\ UNCHANGED <<hdr, cache, dirty, lh, pc, held, phase>>
  BY DEF write_log, cacheVars, logVars, procVars, AInv, Header
<1>2. t \in DOMAIN lh /\ tail \in Nat
  BY SMT DEF write_log, AInv, IInv, TypeOK
<1>3. t \in Addrs /\ t \notin Blocks /\ disk = [a \in Addrs |-> disk[a]] /\ Blocks \subseteq Addrs
  BY <1>2, Apart DEF AInv, IInv, TypeOK
<1>4. \A a \in Addrs : disk'[a] = IF a = t THEN cache[lh[t]] ELSE disk[a]
  BY <1>1, <1>3
<1>5. \A b \in Blocks : disk'[b] = disk[b]
  BY <1>3, <1>4
<1>6. Copied'
  <2>1. ASSUME NEW i \in DOMAIN lh, i <= t PROVE disk'[i] = cache[lh[i]]
    <3>1. i \in Addrs /\ i \in Nat /\ (i = t \/ i <= tail)
      BY SMT, <1>2, <2>1, Apart DEF AInv
    <3> QED
      BY <3>1, <1>1, <1>4 DEF AInv, Copied
  <2> QED
    BY <2>1, <1>1 DEF Copied
<1>7. Distinct(lh)' /\ Distinct(hdr)' /\ Clean' /\ Header' /\ Pinned' /\ Holding'
  BY <1>1, <1>5 DEF AInv, Distinct, Header, Clean, Pinned, Holding
<1>8. \A b \in Blocks : RecAt(hdr', disk', b) = RecAt(hdr, disk, b)
  BY SMT, <1>1, <1>5 DEF RecAt
<1>9. Mem' = Mem /\ Stable' = Stable /\ InOp' = InOp
  BY <1>1, <1>8, RecoveredIs DEF Mem, Stable, InOp
<1> QED
  BY <1>6, <1>7, <1>9, Stutters DEF AInv

\* write_head is the commit: recovery would now find what the buffers hold.
LEMMA WriteHeadMaps ==
  ASSUME AInv, IInv', write_head
  PROVE  AInv' /\ Atomic!Commit
<1>1. /\ phase = "writeLog" /\ tail = Len(lh) /\ hdr' = lh /\ phase' = "install" /\ tail' = 0
      /\ UNCHANGED <<disk, cache, dirty, lh, pc, held>>
  BY DEF write_head, cacheVars, logVars, procVars
<1>2. InOp = {}
  BY <1>1 DEF AInv, IInv, Phases
<1>3. \A i \in DOMAIN lh : disk[i] = cache[lh[i]] /\ i > 0
  BY SMT, <1>1, Apart DEF AInv, Copied
<1>4. \A b \in Blocks : Recovered(b)' = cache[b]
  <2>1. lh \in Seq(Blocks) /\ Distinct(lh)
    BY DEF AInv, IInv, TypeOK
  <2> TAKE b \in Blocks
  <2>2. CASE \E i \in DOMAIN lh : lh[i] = b
    BY SMT, <2>1, <2>2, <1>1, <1>3, RecAtIs, RecoveredIs
  <2>3. CASE ~\E i \in DOMAIN lh : lh[i] = b
    <3>1. b \notin dirty
      BY <2>3, <1>1 DEF AInv, Pinned
    <3>2. cache[b] = disk[b]
      BY <3>1, <1>2, NoneHeld DEF AInv, Clean
    <3> QED
      BY SMT, <2>1, <2>3, <3>2, <1>1, RecAtIs, RecoveredIs
  <2> QED
    BY <2>2, <2>3
<1>5. Mem' = Mem /\ Stable' = Mem /\ InOp' = InOp
  <2>1. cache = [b \in Blocks |-> cache[b]]
    BY DEF AInv, IInv, TypeOK
  <2> QED
    BY <1>1, <1>4, <2>1 DEF Mem, Stable, InOp
<1>6. Atomic!Commit
  BY <1>2, <1>5 DEF Atomic!Commit, Mem, Stable
<1>7. Distinct(lh)' /\ Distinct(hdr)' /\ Clean' /\ Holding'
  BY <1>1 DEF AInv, Distinct, Clean, Holding
<1>8. Pinned' /\ Header' /\ Copied'
  BY SMT, <1>1, <1>3 DEF AInv, Pinned, Header, Copied
<1> QED
  BY <1>6, <1>7, <1>8 DEF AInv

\* install_trans moves a block that recovery reads from the log to its home; in
\* a commit the buffer already has that content.
LEMMA InstallMaps ==
  ASSUME AInv, IInv', install_trans \/ RecInstall
  PROVE  AInv' /\ [Atomic!Next]_(Atomic!vars)
<1> DEFINE t == tail + 1
           c == lh[t]
<1>1. /\ phase \in {"install", "recInstall"}
      /\ disk' = [disk EXCEPT ![c] = disk[t]] /\ cache' = [cache EXCEPT ![c] = disk[t]]
      /\ dirty' = dirty \ {c} /\ tail' = t
      /\ UNCHANGED <<hdr, lh, pc, held, phase>>
  BY DEF install_trans, RecInstall, InstallOne, logVars, procVars
<1>2. t \in DOMAIN lh /\ tail \in Nat
  BY SMT DEF install_trans, RecInstall, AInv, IInv, TypeOK
<1>3. /\ t \in Addrs /\ c \in Blocks /\ Blocks \subseteq Addrs
      /\ disk = [a \in Addrs |-> disk[a]] /\ cache = [b \in Blocks |-> cache[b]]
  BY <1>2, Apart DEF AInv, IInv, TypeOK
<1>4. /\ \A a \in Addrs : disk'[a] = IF a = c THEN disk[t] ELSE disk[a]
      /\ \A b \in Blocks : cache'[b] = IF b = c THEN disk[t] ELSE cache[b]
  BY <1>1, <1>3
<1>5. \A i \in DOMAIN lh :
        /\ disk'[i] = disk[i] /\ lh[i] \in Blocks /\ i \in Nat
        /\ lh[i] = c => i = t
  BY SMT, <1>2, <1>3, <1>4, Apart DEF AInv, Distinct
<1>6. hdr = lh /\ \A i \in DOMAIN lh : i <= tail => disk[lh[i]] = disk[i]
  BY <1>1 DEF AInv, Header
<1>7. Header'
  <2>1. ASSUME NEW i \in DOMAIN lh, i <= t PROVE disk'[lh[i]] = disk'[i]
    <3>1. CASE i = t
      BY <3>1, <1>3, <1>4, <1>5
    <3>2. CASE i # t
      <4>1. i <= tail /\ lh[i] # c
        BY SMT, <3>2, <2>1, <1>2, <1>5
      <4> QED
        BY <4>1, <1>3, <1>4, <1>5, <1>6
    <3> QED
      BY <3>1, <3>2
  <2> QED
    BY <2>1, <1>1, <1>6 DEF Header
<1>8. Copied'
  BY SMT, <1>1, <1>4, <1>5 DEF AInv, Copied
<1>9. Pinned'
  <2>1. CASE phase = "recInstall"
    BY <2>1, <1>1 DEF AInv, Pinned
  <2>2. CASE phase = "install"
    <3> SUFFICES ASSUME NEW b \in Blocks
                 PROVE  b \in dirty' <=> \E i \in DOMAIN lh : lh[i] = b /\ i > t
      BY <2>2, <1>1 DEF Pinned
    <3>1. b \in dirty <=> \E i \in DOMAIN lh : lh[i] = b /\ i > tail
      BY <2>2 DEF AInv, Pinned
    <3>2. \A i \in DOMAIN lh : i > t <=> i > tail /\ i # t
      BY SMT, <1>2, <1>5
    <3> QED
      BY <3>1, <3>2, <1>1, <1>5
  <2> QED
    BY <2>1, <2>2, <1>1
<1>10. Clean'
  BY <1>1, <1>3, <1>4 DEF AInv, Clean
<1>11. Distinct(lh)' /\ Distinct(hdr)' /\ Holding' /\ InOp' = InOp
  BY <1>1 DEF AInv, Distinct, Holding, InOp
<1>12. \A b \in Blocks : RecAt(hdr', disk', b) = RecAt(hdr, disk, b)
  <2>1. lh \in Seq(Blocks) /\ Distinct(lh) /\ hdr' = lh
    BY <1>1, <1>6 DEF AInv, IInv, TypeOK
  <2> TAKE b \in Blocks
  <2>2. CASE \E i \in DOMAIN lh : lh[i] = b
    BY SMT, <2>1, <2>2, <1>5, <1>6, RecAtIs
  <2>3. CASE ~\E i \in DOMAIN lh : lh[i] = b
    <3>1. disk'[b] = disk[b]
      BY <2>3, <1>2, <1>3, <1>4
    <3> QED
      BY SMT, <2>1, <2>3, <3>1, <1>6, RecAtIs
  <2> QED
    BY <2>2, <2>3
<1>13. Stable' = Stable
  BY <1>12, RecoveredIs DEF Stable
<1>14. Mem' = Mem
  <2>1. CASE phase = "recInstall"
    BY <2>1, <1>1, <1>13 DEF Mem
  <2>2. CASE phase = "install"
    <3>1. cache[c] = disk[t]
      BY <2>2, <1>2 DEF AInv, Copied
    <3>2. cache' = cache
      BY <3>1, <1>1, <1>3
    <3> QED
      BY <3>2, <2>2, <1>1 DEF Mem
  <2> QED
    BY <2>1, <2>2, <1>1
<1> QED
  BY <1>7, <1>8, <1>9, <1>10, <1>11, <1>13, <1>14, Stutters DEF AInv

\* When the header is cleared, every block is in its home location.
LEMMA ClearMaps ==
  ASSUME AInv, IInv', ClearHead \/ RecClear
  PROVE  AInv' /\ [Atomic!Next]_(Atomic!vars)
<1>1. /\ phase \in {"install", "recInstall"} /\ tail = Len(lh)
      /\ lh' = <<>> /\ hdr' = <<>> /\ phase' \in {"done", "idle"}
      /\ UNCHANGED <<disk, cache, dirty, pc, held>>
  BY DEF ClearHead, RecClear, cacheVars, procVars
<1>2. InOp = {}
  BY <1>1 DEF AInv, IInv, Phases
<1>3. /\ hdr = lh /\ lh \in Seq(Blocks) /\ Distinct(lh)
      /\ \A i \in DOMAIN lh : disk[lh[i]] = disk[i]
  BY SMT, <1>1, Apart DEF AInv, Header, IInv, TypeOK
<1>4. dirty = {}
  <2>1. \A i \in DOMAIN lh : ~(i > tail)
    BY SMT, <1>1, Apart DEF AInv
  <2> QED
    BY <2>1, <1>1 DEF AInv, Pinned, IInv, TypeOK
<1>5. \A b \in Blocks : cache[b] = disk[b]
  BY <1>2, <1>4, NoneHeld DEF AInv, Clean
<1>6. \A b \in Blocks : RecAt(hdr, disk, b) = disk[b]
  <2> TAKE b \in Blocks
  <2>1. CASE \E i \in DOMAIN lh : lh[i] = b
    BY SMT, <2>1, <1>3, RecAtIs
  <2>2. CASE ~\E i \in DOMAIN lh : lh[i] = b
    BY SMT, <2>2, <1>3, RecAtIs
  <2> QED
    BY <2>1, <2>2
<1>7. \A b \in Blocks : RecAt(hdr', disk', b) = disk[b]
  BY SMT, <1>1 DEF RecAt
<1>8. Stable' = Stable
  BY <1>6, <1>7, RecoveredIs DEF Stable
<1>9. Mem' = Mem
  <2>1. cache = [b \in Blocks |-> cache[b]]
    BY DEF AInv, IInv, TypeOK
  <2> QED
    BY <2>1, <1>1, <1>5, <1>6, RecoveredIs DEF Mem, Stable
<1>10. Distinct(lh)' /\ Distinct(hdr)' /\ Header' /\ Pinned' /\ Copied'
  BY SMT, <1>1, <1>4 DEF Distinct, Header, Pinned, Copied
<1>11. Clean' /\ Holding' /\ InOp' = InOp
  BY <1>1 DEF AInv, Clean, Holding, InOp
<1> QED
  BY <1>8, <1>9, <1>10, <1>11, Stutters DEF AInv

\* bget recycles only buffers that equal their disk block.
LEMMA EvictMaps ==
  ASSUME AInv, IInv', NEW b \in Blocks, Evict(b)
  PROVE  AInv' /\ [Atomic!Next]_(Atomic!vars)
<1>1. cache[b] = disk[b] /\ cache = [c \in Blocks |-> cache[c]]
  BY DEF Evict, AInv, Clean, IInv, TypeOK
<1>2. UNCHANGED <<hdr, disk, cache, dirty, lh, pc, held, phase, tail>>
  BY <1>1 DEF Evict, diskVars, logVars, procVars, commitVars
<1>3. AInv'
  BY <1>2 DEF AInv, Distinct, Header, Pinned, Copied, Clean, Holding
<1>4. Mem' = Mem /\ Stable' = Stable /\ InOp' = InOp
  BY <1>2, RecoveredIs DEF Mem, Stable, InOp
<1> QED
  BY <1>3, <1>4, Stutters

\* A step that changes nothing is a stutter of the atomic disk.
LEMMA StutterMaps ==
  ASSUME AInv, IInv', UNCHANGED vars
  PROVE  AInv' /\ [Atomic!Next]_(Atomic!vars)
<1>1. UNCHANGED <<hdr, disk, cache, dirty, lh, pc, held, phase, tail>>
  BY DEF vars, diskVars, cacheVars, logVars, procVars, commitVars
<1>2. AInv'
  BY <1>1 DEF AInv, Distinct, Header, Pinned, Copied, Clean, Holding
<1>3. Mem' = Mem /\ Stable' = Stable /\ InOp' = InOp
  BY <1>1, RecoveredIs DEF Mem, Stable, InOp
<1> QED
  BY <1>2, <1>3, Stutters

-----------------------------------------------------------------------------
(* The theorems *)

\* The disk mkfs made is an initial state of the atomic disk.
LEMMA InitMaps ==
  ASSUME SmallCalls, Init
  PROVE  AInv /\ Atomic!Init
<1>1. IInv /\ hdr = <<>> /\ lh = <<>> /\ InOp = {} /\ phase = "idle"
  BY InitIInv DEF Init, InOp
<1>2. /\ Distinct(lh) /\ Distinct(hdr) /\ Pinned /\ Header /\ Copied /\ Holding
      /\ \A b \in Blocks : cache[b] = disk[b]
  BY SMT, <1>1 DEF Init, Distinct, Pinned, Header, Copied, Holding
<1>3. \A b \in Blocks : Recovered(b) = cache[b]
  BY SMT, <1>1, <1>2 DEF Recovered
<1>4. cache \in [Blocks -> Vals]
  BY <1>1 DEF IInv, TypeOK
<1>5. Stable = cache /\ Mem = cache
  BY <1>1, <1>3, <1>4 DEF Stable, Mem
<1>6. Atomic!Init
  BY <1>1, <1>4, <1>5 DEF Atomic!Init, Mem, Stable
<1> QED
  BY <1>1, <1>2, <1>6 DEF AInv, Clean

\* Every step of the log keeps the invariant and is a step or a stutter of the
\* atomic disk: write_head is Commit, LogWriteCheck is Write, Crash is Crash.
LEMMA NextMaps ==
  ASSUME SmallCalls, AInv, IInv', [Next]_vars
  PROVE  AInv' /\ [Atomic!Next]_(Atomic!vars)
<1>1. ASSUME NEW p \in Procs, Operation(p)
      PROVE  AInv' /\ [Atomic!Next]_(Atomic!vars)
  <2>1. CASE begin_op(p)
    BY <2>1, BeginOpMaps
  <2>2. ASSUME NEW b \in Blocks, NEW v \in Vals, LogWriteCheck(p, b, v)
        PROVE  AInv' /\ [Atomic!Next]_(Atomic!vars)
    BY <2>2, LogWriteCheckMaps DEF Atomic!Next
  <2>3. CASE LogWriteAppend(p)
    BY <2>3, LogWriteAppendMaps
  <2>4. CASE end_op(p)
    BY <2>4, EndOpMaps DEF Atomic!Next
  <2>5. CASE EndCommit(p)
    BY <2>5, EndCommitMaps
  <2> QED
    BY <1>1, <2>1, <2>2, <2>3, <2>4, <2>5 DEF Operation
<1>2. CASE CommitStep
  <2>1. CASE write_head
    BY <2>1, WriteHeadMaps DEF Atomic!Next
  <2> QED
    BY <1>2, <2>1, WriteLogMaps, InstallMaps, ClearMaps DEF CommitStep
<1>3. CASE Crash
  BY <1>3, CrashIsCrash DEF Atomic!Next
<1>4. CASE Recovery
  BY <1>4, InstallMaps, ClearMaps DEF Recovery
<1> QED
  BY <1>1, <1>2, <1>3, <1>4, EvictMaps, StutterMaps DEF Next

\* The invariant of the disk, the log and the buffers.
THEOREM DiskInvariant ==
  ASSUME SmallCalls
  PROVE  Spec => []AInv
<1>1. Init => AInv
  BY InitMaps
<1>2. IInv /\ IInv' /\ AInv /\ [Next]_vars => AInv'
  BY NextMaps
<1> QED
  BY <1>1, <1>2, Reservations, PTL DEF Spec

\* A buffer that bget may recycle equals its disk block, and between commits
\* nothing is left to write (bio.c:85, log.c:178-234): an update is never lost
\* by eviction between log_write and the end of the commit.
THEOREM NoLostUpdate ==
  ASSUME SmallCalls
  PROVE  Spec => []CleanBuffersCurrent
<1>1. ASSUME AInv PROVE CleanBuffersCurrent
  <2>1. TypeOK /\ Clean
    BY <1>1 DEF AInv, IInv
  <2>2. QuiescentIsDurable
    <3> SUFFICES ASSUME Up, outstanding = 0, ~committing
                 PROVE  hdr = <<>> /\ lh = <<>> /\ \A b \in Blocks : cache[b] = disk[b]
      BY DEF QuiescentIsDurable
    <3>1. phase = "idle" /\ hdr = <<>>
      BY <1>1, IdleStable DEF AInv
    <3>2. InOp = {}
      BY <1>1, Finite, FS_EmptySet DEF AInv, IInv, NeverTooBig, OutstandingExact, NoPanic
    <3>3. lh = <<>>
      BY <1>1, <3>1, <3>2 DEF AInv, IInv, Phases
    <3>4. dirty = {}
      BY SMT, <1>1, <3>1, <3>3 DEF AInv, Pinned, IInv, TypeOK
    <3> QED
      BY <1>1, <3>1, <3>2, <3>3, <3>4, NoneHeld DEF AInv, Clean
  <2> QED
    BY <2>1, <2>2 DEF CleanBuffersCurrent, Clean
<1> QED
  BY <1>1, DiskInvariant, PTL

\* The log is an atomic disk (the comment at the head of log.c): everything the
\* calls of a transaction wrote becomes permanent in one step, write_head, at
\* which no call is under way, and a crash at any moment of a commit or of a
\* recovery loses what was written since and nothing else.
THEOREM LogIsAtomicDisk ==
  ASSUME SmallCalls
  PROVE  Spec => AtomicSpec
<1>1. Init => Atomic!Init
  BY InitMaps
<1>2. AInv /\ IInv' /\ [Next]_vars => [Atomic!Next]_(Atomic!vars)
  BY NextMaps
<1> QED
  BY <1>1, <1>2, DiskInvariant, Reservations, PTL DEF Spec, AtomicSpec, Atomic!Spec
=============================================================================
