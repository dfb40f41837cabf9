---------------------------- MODULE BcacheProofs ----------------------------
(***************************************************************************)
(* Proofs about the buffer cache, for any processes, blocks and buffers.   *)
(***************************************************************************)
EXTENDS Bcache, FiniteSetTheorems, TLAPS

Places == {"idle", "lock", "locksleep", "locked", "io", "iowake", "use", "changed", "unref"}

\* Positions at which a process has the sleep lock of its buffer.
Holding == {"locked", "io", "iowake", "use", "changed"}

\* The types, with what BcacheTypeOK leaves to it.
BTypes ==
  /\ BcacheTypeOK
  /\ bpc \in [Clients -> Places]
  /\ idequeue \in Seq(Bufs)
  /\ bpanicked \in BOOLEAN

\* A process has a buffer while it is between bget and the end of brelse, that
\* buffer has a block, and a sleep lock names the process that is past
\* acquiresleep and before releasesleep, with the buffer it works on or the other.
Holders ==
  /\ \A p \in Clients : buf[p] = 0 <=> bpc[p] = "idle"
  /\ \A p \in Clients : buf[p] # 0 => blockno[buf[p]] \in Bnos
  /\ \A p \in Clients : bpc[p] \in Holding => owner[buf[p]] = p
  /\ \A b \in Bufs : owner[b] # NoClient =>
       (buf[owner[b]] = b /\ bpc[owner[b]] \in Holding) \/ outer[owner[b]] = b

\* The buffer a process holds while it works on another is locked and valid, and
\* while it waits for the other, its block comes first in the order of the reads.
Outers ==
  \A p \in Clients : outer[p] # 0 =>
    /\ buf[p] # 0 /\ buf[p] # outer[p]
    /\ owner[outer[p]] = p /\ valid[outer[p]] /\ blockno[outer[p]] \in Bnos
    /\ bpc[p] \in {"lock", "locksleep"} => Level(blockno[outer[p]]) < Level(blockno[buf[p]])

\* acquiresleep's sleeper sleeps on a lock that is held.
LockAsleep == \A p \in Clients : bpc[p] = "locksleep" => owner[buf[p]] # NoClient

\* What the flags say at each position: B_DIRTY only on a valid buffer of a
\* block, a request is a write of a dirty buffer or a read of an invalid one, and
\* the interrupt leaves B_VALID alone set.
Flags ==
  /\ \A b \in Bufs : bdirty[b] => valid[b] /\ blockno[b] \in Bnos
  /\ \A p \in Clients :
       /\ bpc[p] = "io" => (valid[buf[p]] <=> bdirty[buf[p]])
       /\ bpc[p] = "iowake" => valid[buf[p]] /\ ~bdirty[buf[p]]
       /\ bpc[p] \in {"use", "changed"} => valid[buf[p]]

\* The driver's queue and the processes that wait for it.
Queue ==
  /\ QueueSane
  /\ \A p \in Clients : bpc[p] = "io" => \E i \in DOMAIN idequeue : idequeue[i] = buf[p]

\* A block has one buffer.
OneBuffer == \A b, c \in Bufs : blockno[b] = blockno[c] /\ blockno[b] # NoBno => b = c

\* refcnt counts the users.
Counted == \A b \in Bufs : refcnt[b] = Cardinality(Users(b))

\* What holds whatever the disk reports.
BInv == BTypes /\ Holders /\ Outers /\ LockAsleep /\ Flags /\ Queue /\ OneBuffer /\ Counted

\* A valid buffer has its block's last contents, in use or not.
ValidIsCurrent ==
  \A b \in Bufs : valid[b] /\ blockno[b] \in Bnos => data[b] = content[blockno[b]]

DInv == ValidIsCurrent /\ UnwrittenIsCached

-----------------------------------------------------------------------------
(* Facts about sets of users *)

\* Leaves are proved by Zenon unless they name another prover.
USE Zenon

\* The users of a buffer are finitely many, and no more than the processes.
LEMMA UsersFinite ==
  ASSUME NEW U \in SUBSET Clients
  PROVE  IsFiniteSet(U) /\ Cardinality(U) \in 0 .. Cardinality(Clients)
<1>1. IsFiniteSet(U) /\ Cardinality(U) <= Cardinality(Clients)
  BY FS_Subset, BcacheAssumption
<1>2. Cardinality(U) \in Nat /\ Cardinality(Clients) \in Nat
  BY <1>1, FS_CardinalityType, BcacheAssumption
<1> QED  BY SMT, <1>1, <1>2

\* One user more, one less.
LEMMA UserAdded ==
  ASSUME NEW S \in SUBSET Clients, NEW p \in Clients, p \notin S
  PROVE  Cardinality(S \cup {p}) = Cardinality(S) + 1
BY UsersFinite, FS_AddElement

LEMMA UserRemoved ==
  ASSUME NEW S \in SUBSET Clients, NEW p \in Clients, p \in S
  PROVE  Cardinality(S \ {p}) = Cardinality(S) - 1
BY UsersFinite, FS_RemoveElement

\* A buffer with refcnt 0 has no users.
LEMMA NoUsers ==
  ASSUME NEW U \in SUBSET Clients, Cardinality(U) = 0
  PROVE  U = {}
BY UsersFinite, FS_EmptySet

\* The list holds every buffer after brelse moved one to its front.
LEMMA FrontKeepsAll ==
  ASSUME mru \in [Bufs -> Bufs], \A c \in Bufs : \E i \in Bufs : mru[i] = c,
         NEW b \in Bufs
  PROVE  /\ MoveToFront(b) \in [Bufs -> Bufs]
         /\ \A c \in Bufs : \E i \in Bufs : MoveToFront(b)[i] = c
<1> DEFINE k == CHOOSE i \in Bufs : mru[i] = b
<1>1. k \in Bufs /\ mru[k] = b
  OBVIOUS
<1> HIDE DEF k
<1>2. MoveToFront(b) = [i \in Bufs |-> IF i = 1 THEN b ELSE IF i <= k THEN mru[i-1] ELSE mru[i]]
  BY DEF MoveToFront, k
<1>3. MoveToFront(b) \in [Bufs -> Bufs]
  <2>1. \A i \in Bufs : (i # 1 /\ i <= k) => i - 1 \in Bufs
    BY SMT, <1>1, BcacheAssumption DEF Bufs
  <2> QED  BY SMT, <1>1, <1>2, <2>1
<1>4. ASSUME NEW c \in Bufs PROVE \E i \in Bufs : MoveToFront(b)[i] = c
  <2>1. CASE c = b
    BY SMT, <2>1, <1>2, BcacheAssumption DEF Bufs
  <2>2. CASE c # b
    <3>1. PICK i \in Bufs : mru[i] = c
      OBVIOUS
    <3>2. CASE i < k
      <4> DEFINE j == i + 1
      <4>1. j \in Bufs /\ j # 1 /\ j <= k /\ j - 1 = i
        BY SMT, <3>2, <1>1, BcacheAssumption DEF Bufs
      <4> HIDE DEF j
      <4>2. MoveToFront(b)[j] = mru[j-1]
        BY <4>1, <1>2
      <4> QED  BY <4>1, <4>2, <3>1
    <3>3. CASE i > k
      <4>1. i # 1 /\ ~(i <= k)
        BY SMT, <3>3, <1>1, BcacheAssumption DEF Bufs
      <4> QED  BY <4>1, <3>1, <1>2
    <3>4. i # k
      BY <3>1, <2>2, <1>1
    <3> QED  BY SMT, <3>2, <3>3, <3>4, <1>1, BcacheAssumption DEF Bufs
  <2> QED  BY <2>1, <2>2
<1> QED  BY <1>3, <1>4

-----------------------------------------------------------------------------
(* The initial state and the steps keep BInv *)

\* binit gives the invariant.
LEMMA BcacheStart ==
  ASSUME BcacheInit
  PROVE  BInv
<1>1. BTypes
  <2>1. mru \in [Bufs -> Bufs]
    BY SMT, BcacheAssumption DEF BcacheInit, Bufs
  <2>2. \A b \in Bufs : \E i \in Bufs : mru[i] = b
    <3> TAKE b \in Bufs
    <3> DEFINE i == NBUF + 1 - b
    <3>1. i \in Bufs /\ NBUF + 1 - i = b
      BY SMT, BcacheAssumption DEF Bufs
    <3> HIDE DEF i
    <3>2. mru[i] = NBUF + 1 - i
      BY <3>1 DEF BcacheInit
    <3> QED  BY <3>1, <3>2
  <2>3. refcnt \in [Bufs -> 0 .. Cardinality(Clients)]
    BY SMT, FS_CardinalityType, BcacheAssumption DEF BcacheInit
  <2>4. idequeue \in Seq(Bufs) /\ \A i \in DOMAIN idequeue : idequeue[i] \in Bufs
    BY SMT DEF BcacheInit
  <2>5. PICK v \in Contents : data = [b \in Bufs |-> v] /\ sent = v
    BY DEF BcacheInit
  <2> QED  BY <2>1, <2>2, <2>3, <2>4, <2>5 DEF BTypes, BcacheTypeOK, BcacheInit, Places
<1>2. Holders /\ Outers /\ LockAsleep /\ Flags /\ OneBuffer
  BY BcacheAssumption DEF Holders, Outers, LockAsleep, Flags, OneBuffer, BcacheInit, Holding
<1>3. Queue
  BY SMT DEF Queue, QueueSane, BcacheInit
<1>4. Counted
  <2> SUFFICES ASSUME NEW b \in Bufs PROVE refcnt[b] = Cardinality(Users(b))
    BY DEF Counted
  <2>1. Users(b) = {}
    BY SMT, BcacheAssumption DEF Users, BcacheInit, Bufs
  <2> QED  BY <2>1, FS_EmptySet DEF BcacheInit
<1> QED  BY <1>1, <1>2, <1>3, <1>4 DEF BInv

\* A step that changes nothing, or panics only.
LEMMA BcacheStutter ==
  ASSUME BInv, bpanicked' \in BOOLEAN,
         UNCHANGED <<blockno, refcnt, valid, bdirty, data, owner, mru, idequeue, sent, bdisk,
                     content, bpc, buf, outer>>
  PROVE  BInv'
<1> USE DEF BInv
<1>1. BTypes'
  BY DEF BTypes, BcacheTypeOK
<1>2. Holders' /\ Outers' /\ LockAsleep'
  BY DEF Holders, Outers, LockAsleep
<1>3. Flags' /\ OneBuffer'
  BY DEF Flags, OneBuffer
<1>4. Queue'
  BY SMT DEF Queue, QueueSane
<1>5. Counted'
  BY DEF Counted, Users
<1> QED  BY <1>1, <1>2, <1>3, <1>4, <1>5

\* A step that leaves the driver alone, and the processes that wait for it.
LEMMA QueueKept ==
  ASSUME Queue, UNCHANGED <<idequeue, bdirty, data, sent, owner>>,
         \A r \in Clients : bpc[r] = "io" => bpc'[r] = "io" /\ buf'[r] = buf[r],
         \A r \in Clients : bpc'[r] = "io" => bpc[r] = "io"
  PROVE  Queue'
BY SMT DEF Queue, QueueSane

\* A process that calls bread holds no buffer, or one that comes before the block.
LEMMA Reader ==
  ASSUME BInv, NEW p \in Clients, NEW n \in Bnos, MayRead(p, n)
  PROVE  /\ outer[p] = 0 /\ bpc[p] \in {"idle", "use"}
         /\ \A b \in Bufs : blockno[b] = n => buf[p] # b
         /\ buf[p] # 0 => /\ owner[buf[p]] = p /\ valid[buf[p]] /\ blockno[buf[p]] \in Bnos
                          /\ Level(blockno[buf[p]]) < Level(n)
<1> USE DEF BInv
<1>1. CASE bpc[p] = "idle"
  <2>1. buf[p] = 0 /\ outer[p] = 0
    BY <1>1 DEF Holders, Outers
  <2>2. 0 \notin Bufs
    BY SMT DEF Bufs
  <2> QED  BY <2>1, <2>2, <1>1
<1>2. CASE bpc[p] = "use" /\ outer[p] = 0 /\ Level(blockno[buf[p]]) < Level(n)
  <2>1. Level(n) \in Int
    BY SMT DEF Level
  <2>2. ~(Level(n) < Level(n))
    <3> HIDE DEF BInv
    <3> QED  BY SMT, <2>1
  <2>3. buf[p] # 0 /\ owner[buf[p]] = p /\ valid[buf[p]] /\ blockno[buf[p]] \in Bnos
    BY <1>2 DEF Holders, Flags, Holding
  <2> QED  BY <1>2, <2>2, <2>3
<1> QED  BY <1>1, <1>2 DEF MayRead

\* bget gives it b, of which it was no user.
LEMMA Gotten ==
  ASSUME BInv, NEW p \in Clients, NEW b \in Bufs, outer[p] = 0, buf[p] # b, Gets(p, b)
  PROVE  /\ buf' \in [Clients -> Bufs \cup {0}] /\ outer' \in [Clients -> Bufs \cup {0}]
         /\ bpc' \in [Clients -> Places]
         /\ buf'[p] = b /\ outer'[p] = buf[p] /\ bpc'[p] = "lock"
         /\ \A r \in Clients \ {p} : buf'[r] = buf[r] /\ outer'[r] = outer[r] /\ bpc'[r] = bpc[r]
         /\ \A c \in Bufs : Cardinality(Users(c)') = Cardinality(Users(c)) + IF c = b THEN 1 ELSE 0
<1>1. /\ buf \in [Clients -> Bufs \cup {0}] /\ outer \in [Clients -> Bufs \cup {0}]
      /\ bpc \in [Clients -> Places] /\ 0 \notin Bufs
  <2>1. 0 \notin Bufs
    BY SMT DEF Bufs
  <2> QED  BY <2>1 DEF BInv, BTypes, BcacheTypeOK
<1>2. /\ buf' \in [Clients -> Bufs \cup {0}] /\ outer' \in [Clients -> Bufs \cup {0}]
      /\ bpc' \in [Clients -> Places]
      /\ buf'[p] = b /\ outer'[p] = buf[p] /\ bpc'[p] = "lock"
      /\ \A r \in Clients \ {p} : buf'[r] = buf[r] /\ outer'[r] = outer[r] /\ bpc'[r] = bpc[r]
  BY <1>1 DEF Gets, Goto, Places
<1>3. ASSUME NEW c \in Bufs
      PROVE  Cardinality(Users(c)') = Cardinality(Users(c)) + IF c = b THEN 1 ELSE 0
  <2>1. CASE c = b
    <3>1. Users(c)' = Users(c) \cup {p} /\ p \notin Users(c)
      BY <2>1, <1>1, <1>2 DEF Users
    <3>2. Cardinality(Users(c) \cup {p}) = Cardinality(Users(c)) + 1
      BY <3>1, UserAdded DEF Users
    <3> QED  BY <2>1, <3>1, <3>2
  <2>2. CASE c # b
    <3>1. Users(c)' = Users(c)
      BY <2>2, <1>1, <1>2 DEF Users
    <3>2. Cardinality(Users(c)) \in Int
      BY SMT, UsersFinite DEF Users
    <3> QED  BY SMT, <2>2, <3>1, <3>2
  <2> QED  BY <2>1, <2>2
<1> QED  BY <1>2, <1>3

\* bget of a block that is cached.
LEMMA BgetHitStep ==
  ASSUME BInv, NEW p \in Clients, NEW n \in Bnos, BgetHit(p, n)
  PROVE  BInv'
<1> USE DEF BInv
<1>1. PICK b \in Bufs : blockno[b] = n /\ refcnt' = [refcnt EXCEPT ![b] = @ + 1] /\ Gets(p, b)
  BY DEF BgetHit
<1>2. UNCHANGED <<blockno, valid, bdirty, data, owner, mru, idequeue, sent, bdisk, content, bpanicked>>
  BY DEF BgetHit, ideVars
<1>3. /\ outer[p] = 0 /\ bpc[p] \in {"idle", "use"} /\ buf[p] # b
      /\ buf[p] # 0 => /\ owner[buf[p]] = p /\ valid[buf[p]] /\ blockno[buf[p]] \in Bnos
                       /\ Level(blockno[buf[p]]) < Level(n)
  BY <1>1, Reader DEF BgetHit
<1>g. /\ buf' \in [Clients -> Bufs \cup {0}] /\ outer' \in [Clients -> Bufs \cup {0}]
      /\ bpc' \in [Clients -> Places]
      /\ buf'[p] = b /\ outer'[p] = buf[p] /\ bpc'[p] = "lock"
      /\ \A r \in Clients \ {p} : buf'[r] = buf[r] /\ outer'[r] = outer[r] /\ bpc'[r] = bpc[r]
      /\ \A c \in Bufs : Cardinality(Users(c)') = Cardinality(Users(c)) + IF c = b THEN 1 ELSE 0
  BY <1>1, <1>3, Gotten
<1>h. b # 0
  BY SMT DEF Bufs
<1>4. Counted'
  <2> SUFFICES ASSUME NEW c \in Bufs PROVE refcnt'[c] = Cardinality(Users(c)')
    BY DEF Counted
  <2>2. Cardinality(Users(c)') = Cardinality(Users(c)) + IF c = b THEN 1 ELSE 0
    BY <1>g
  <2>3. refcnt[c] = Cardinality(Users(c)) /\ refcnt \in [Bufs -> 0 .. Cardinality(Clients)]
    BY DEF Counted, BTypes, BcacheTypeOK
  <2>4. refcnt[c] \in Int
    BY SMT, <2>3, UsersFinite DEF Users
  <2> QED  BY SMT, <2>2, <2>3, <2>4, <1>1
<1>5. BTypes'
  <2>2. refcnt' \in [Bufs -> 0 .. Cardinality(Clients)]
    <3>1. \A c \in Bufs : refcnt'[c] \in 0 .. Cardinality(Clients)
      BY <1>4, UsersFinite DEF Counted, Users
    <3>2. refcnt' = [c \in Bufs |-> refcnt'[c]]
      BY <1>1 DEF BTypes, BcacheTypeOK
    <3> QED  BY <3>1, <3>2
  <2> QED  BY <1>2, <1>g, <2>2 DEF BTypes, BcacheTypeOK
<1>6. Holders'
  <2>1. \A r \in Clients : buf'[r] = 0 <=> bpc'[r] = "idle"
    BY <1>g, <1>h DEF Holders
  <2>2. \A r \in Clients : buf'[r] # 0 => blockno'[buf'[r]] \in Bnos
    BY <1>1, <1>2, <1>g DEF Holders
  <2>3. \A r \in Clients : bpc'[r] \in Holding => owner'[buf'[r]] = r
    BY <1>2, <1>g DEF Holders, Holding
  <2>4. \A c \in Bufs : owner'[c] # NoClient =>
          (buf'[owner'[c]] = c /\ bpc'[owner'[c]] \in Holding) \/ outer'[owner'[c]] = c
    <3> SUFFICES ASSUME NEW c \in Bufs, owner[c] # NoClient
                 PROVE  (buf'[owner[c]] = c /\ bpc'[owner[c]] \in Holding) \/ outer'[owner[c]] = c
      BY <1>2
    <3>1. /\ owner[c] \in Clients
          /\ (buf[owner[c]] = c /\ bpc[owner[c]] \in Holding) \/ outer[owner[c]] = c
      BY SMT DEF Holders, BTypes, BcacheTypeOK
    <3>2. c # 0
      BY SMT DEF Bufs
    <3> QED  BY <3>1, <3>2, <1>3, <1>g
  <2> QED  BY <2>1, <2>2, <2>3, <2>4 DEF Holders
<1>6a. Outers'
  BY SMT, <1>1, <1>2, <1>3, <1>g, <1>h DEF Outers
<1>7. LockAsleep' /\ Flags' /\ OneBuffer'
  BY SMT, <1>2, <1>g DEF LockAsleep, Flags, OneBuffer
<1>8. Queue'
  <2>1. \A r \in Clients : bpc[r] = "io" => bpc'[r] = "io" /\ buf'[r] = buf[r]
    BY <1>3, <1>g
  <2>2. \A r \in Clients : bpc'[r] = "io" => bpc[r] = "io"
    BY <1>g
  <2> QED  BY <1>2, <2>1, <2>2, QueueKept
<1> QED  BY <1>4, <1>5, <1>6, <1>6a, <1>7, <1>8

\* bget of a block that is not cached: a free buffer is recycled, or it panics.
LEMMA BgetMissStep ==
  ASSUME BInv, NEW p \in Clients, NEW n \in Bnos, BgetMiss(p, n)
  PROVE  BInv'
<1> USE DEF BInv
<1>a. CASE ~\E b \in Bufs : Free(b)
  <2>1. bpanicked' = TRUE /\ UNCHANGED <<blockno, valid, refcnt, buf, outer, bpc>>
        /\ UNCHANGED <<bdirty, data, owner, mru, idequeue, sent, bdisk, content>>
    BY <1>a DEF BgetMiss, ideVars
  <2> QED  BY <2>1, BcacheStutter
<1>b. CASE \E b \in Bufs : Free(b)
  <2>1. PICK i \in Bufs : /\ Free(mru[i])
                          /\ blockno' = [blockno EXCEPT ![mru[i]] = n]
                          /\ valid' = [valid EXCEPT ![mru[i]] = FALSE]
                          /\ refcnt' = [refcnt EXCEPT ![mru[i]] = 1]
                          /\ Gets(p, mru[i])
    BY <1>b DEF BgetMiss
  <2> DEFINE b == mru[i]
  <2>2. b \in Bufs /\ refcnt[b] = 0 /\ ~bdirty[b] /\ b # 0
    <3>1. 0 \notin Bufs
      BY SMT DEF Bufs
    <3> QED  BY <2>1, <3>1 DEF BTypes, BcacheTypeOK, Free
  <2>3. /\ \A c \in Bufs : blockno[c] # n
        /\ UNCHANGED <<bdirty, data, owner, mru, idequeue, sent, bdisk, content, bpanicked>>
    BY <1>b DEF BgetMiss, ideVars
  <2>4. /\ outer[p] = 0 /\ bpc[p] \in {"idle", "use"}
        /\ buf[p] # 0 => /\ owner[buf[p]] = p /\ valid[buf[p]] /\ blockno[buf[p]] \in Bnos
                         /\ Level(blockno[buf[p]]) < Level(n)
    BY Reader DEF BgetMiss
  <2>5. /\ blockno' = [blockno EXCEPT ![b] = n] /\ valid' = [valid EXCEPT ![b] = FALSE]
        /\ refcnt' = [refcnt EXCEPT ![b] = 1] /\ Gets(p, b)
    BY <2>1
  <2> HIDE DEF b
  <2>6. \A r \in Clients : buf[r] # b /\ outer[r] # b
    <3>1. Cardinality(Users(b)) = 0
      BY <2>2 DEF Counted
    <3>2. Users(b) = {}
      BY <3>1, NoUsers DEF Users
    <3> QED  BY <3>2 DEF Users
  <2>g. /\ buf' \in [Clients -> Bufs \cup {0}] /\ outer' \in [Clients -> Bufs \cup {0}]
        /\ bpc' \in [Clients -> Places]
        /\ buf'[p] = b /\ outer'[p] = buf[p] /\ bpc'[p] = "lock"
        /\ \A r \in Clients \ {p} : buf'[r] = buf[r] /\ outer'[r] = outer[r] /\ bpc'[r] = bpc[r]
        /\ \A c \in Bufs : Cardinality(Users(c)') = Cardinality(Users(c)) + IF c = b THEN 1 ELSE 0
    BY <2>2, <2>4, <2>5, <2>6, Gotten
  <2>t. /\ buf \in [Clients -> Bufs \cup {0}] /\ outer \in [Clients -> Bufs \cup {0}]
        /\ bpc \in [Clients -> Places] /\ owner \in [Bufs -> Clients \cup {NoClient}]
        /\ blockno \in [Bufs -> Bnos \cup {NoBno}] /\ valid \in [Bufs -> BOOLEAN]
    BY DEF BTypes, BcacheTypeOK
  <2>7. owner[b] = NoClient
    BY <2>2, <2>6, <2>t DEF Holders
  <2>8. Counted'
    <3> SUFFICES ASSUME NEW c \in Bufs PROVE refcnt'[c] = Cardinality(Users(c)')
      BY DEF Counted
    <3>2. Cardinality(Users(c)') = Cardinality(Users(c)) + IF c = b THEN 1 ELSE 0
      BY <2>g
    <3>3. refcnt[c] = Cardinality(Users(c)) /\ refcnt \in [Bufs -> 0 .. Cardinality(Clients)]
      BY DEF Counted, BTypes, BcacheTypeOK
    <3>4. refcnt[c] \in Int
      BY SMT, <3>3, UsersFinite DEF Users
    <3> QED  BY SMT, <3>2, <3>3, <3>4, <2>2, <2>5
  <2>9. BTypes'
    <3>2. refcnt' \in [Bufs -> 0 .. Cardinality(Clients)]
      <4>1. \A c \in Bufs : refcnt'[c] \in 0 .. Cardinality(Clients)
        BY <2>8, UsersFinite DEF Counted, Users
      <4>2. refcnt' = [c \in Bufs |-> refcnt'[c]]
        BY <2>5 DEF BTypes, BcacheTypeOK
      <4> QED  BY <4>1, <4>2
    <3>3. blockno' \in [Bufs -> Bnos \cup {NoBno}] /\ valid' \in [Bufs -> BOOLEAN]
      BY <2>5, <2>2 DEF BTypes, BcacheTypeOK
    <3> QED  BY <2>3, <2>g, <3>2, <3>3 DEF BTypes, BcacheTypeOK
  <2>k. \A c \in Bufs : c # b => blockno'[c] = blockno[c] /\ valid'[c] = valid[c]
    BY <2>5, <2>t
  <2>l. blockno'[b] = n
    BY <2>2, <2>5, <2>t
  <2>10. Holders'
    <3>1. \A r \in Clients : buf'[r] = 0 <=> bpc'[r] = "idle"
      BY <2>2, <2>g DEF Holders
    <3>2. \A r \in Clients : buf'[r] # 0 => blockno'[buf'[r]] \in Bnos
      BY SMT, <2>g, <2>k, <2>l, <2>t, <2>6 DEF Holders
    <3>3. \A r \in Clients : bpc'[r] \in Holding => owner'[buf'[r]] = r
      BY <2>3, <2>g DEF Holders, Holding
    <3>4. \A c \in Bufs : owner'[c] # NoClient =>
            (buf'[owner'[c]] = c /\ bpc'[owner'[c]] \in Holding) \/ outer'[owner'[c]] = c
      <4> SUFFICES ASSUME NEW c \in Bufs, owner[c] # NoClient
                   PROVE  (buf'[owner[c]] = c /\ bpc'[owner[c]] \in Holding) \/ outer'[owner[c]] = c
        BY <2>3
      <4>1. /\ owner[c] \in Clients
            /\ (buf[owner[c]] = c /\ bpc[owner[c]] \in Holding) \/ outer[owner[c]] = c
        BY <2>t DEF Holders
      <4>2. c # 0
        BY SMT DEF Bufs
      <4> QED  BY <4>1, <4>2, <2>4, <2>g
    <3> QED  BY <3>1, <3>2, <3>3, <3>4 DEF Holders
  <2>10a. Outers'
    <3> SUFFICES ASSUME NEW r \in Clients, outer'[r] # 0
                 PROVE  /\ buf'[r] # 0 /\ buf'[r] # outer'[r]
                        /\ owner'[outer'[r]] = r /\ valid'[outer'[r]] /\ blockno'[outer'[r]] \in Bnos
                        /\ bpc'[r] \in {"lock", "locksleep"} =>
                             Level(blockno'[outer'[r]]) < Level(blockno'[buf'[r]])
      BY DEF Outers, Level
    <3>1. CASE r = p
      <4>1. buf[p] \in Bufs /\ buf[p] # b /\ outer'[r] = buf[p] /\ buf'[r] = b /\ buf[p] # 0
        BY <3>1, <2>g, <2>t, <2>6
      <4> QED  BY <3>1, <4>1, <2>2, <2>3, <2>4, <2>k, <2>l
    <3>2. CASE r # p
      <4>1. outer'[r] = outer[r] /\ buf'[r] = buf[r] /\ bpc'[r] = bpc[r]
            /\ outer[r] \in Bufs /\ outer[r] # b /\ buf[r] # b /\ outer[r] # 0
        BY <3>2, <2>g, <2>t, <2>6
      <4>2. buf[r] # 0 /\ buf[r] \in Bufs
        BY SMT, <4>1, <2>t DEF Outers
      <4> QED  BY SMT, <4>1, <4>2, <2>3, <2>k DEF Outers
    <3> QED  BY <3>1, <3>2
  <2>11. LockAsleep' /\ OneBuffer'
    <3>1. LockAsleep'
      BY <2>3, <2>g DEF LockAsleep
    <3>2. OneBuffer'
      BY <2>2, <2>3, <2>k, <2>l DEF OneBuffer
    <3> QED  BY <3>1, <3>2
  <2>12. Flags'
    <3>1. \A c \in Bufs : bdirty'[c] => valid'[c] /\ blockno'[c] \in Bnos
      BY <2>2, <2>3, <2>k DEF Flags
    <3>2. ASSUME NEW r \in Clients, bpc'[r] \in {"io", "iowake", "use", "changed"}
          PROVE  r # p /\ buf'[r] = buf[r] /\ bpc'[r] = bpc[r] /\ valid'[buf[r]] = valid[buf[r]]
      <4>1. r # p
        BY <3>2, <2>g
      <4>2. bpc'[r] = bpc[r] /\ buf'[r] = buf[r]
        BY <4>1, <2>g
      <4>3. buf[r] \in Bufs /\ buf[r] # b
        BY <4>2, <3>2, <2>t, <2>6 DEF Holders
      <4> QED  BY <4>1, <4>2, <4>3, <2>k
    <3> QED  BY SMT, <3>1, <3>2, <2>3 DEF Flags
  <2>13. Queue'
    <3>1. \A r \in Clients : bpc[r] = "io" => bpc'[r] = "io" /\ buf'[r] = buf[r]
      BY <2>4, <2>g
    <3>2. \A r \in Clients : bpc'[r] = "io" => bpc[r] = "io"
      BY <2>g
    <3> QED  BY <2>3, <3>1, <3>2, QueueKept
  <2> QED  BY <2>8, <2>9, <2>10, <2>10a, <2>11, <2>12, <2>13
<1> QED  BY <1>a, <1>b

\* One pass of acquiresleep.
LEMMA AcquireStep ==
  ASSUME BInv, NEW p \in Clients, acquiresleep(p)
  PROVE  BInv'
<1> USE DEF BInv
<1>1. /\ bpc[p] = "lock"
      /\ UNCHANGED <<blockno, refcnt, valid, bdirty, data, mru, idequeue, sent, bdisk, content,
                     buf, outer, bpanicked>>
  BY DEF acquiresleep, bufVars, ideVars
<1>2. buf[p] \in Bufs /\ buf \in [Clients -> Bufs \cup {0}] /\ outer \in [Clients -> Bufs \cup {0}]
      /\ bpc \in [Clients -> Places]
  BY SMT, <1>1 DEF Holders, BTypes, BcacheTypeOK
<1>3. OneBuffer' /\ Counted'
  BY <1>1 DEF OneBuffer, Counted, Users
<1>4. CASE owner[buf[p]] # NoClient
  <2>1. bpc' = [bpc EXCEPT ![p] = "locksleep"] /\ owner' = owner
    BY <1>4 DEF acquiresleep, Goto
  <2>2. BTypes'
    BY <1>1, <1>2, <2>1 DEF BTypes, BcacheTypeOK, Places
  <2>3. Holders'
    <3>1. \A r \in Clients : bpc'[r] \in Holding <=> bpc[r] \in Holding
      BY <1>1, <1>2, <2>1 DEF Holding
    <3>2. \A r \in Clients : bpc'[r] = "idle" <=> bpc[r] = "idle"
      BY <1>1, <1>2, <2>1
    <3>3. \A c \in Bufs : owner[c] # NoClient => owner[c] \in Clients
      BY DEF BTypes, BcacheTypeOK
    <3> QED  BY <1>1, <2>1, <3>1, <3>2, <3>3 DEF Holders
  <2>3b. Outers'
    BY <1>1, <1>2, <2>1 DEF Outers
  <2>3a. LockAsleep'
    BY <1>1, <1>2, <2>1, <1>4 DEF LockAsleep
  <2>4. Flags'
    BY <1>1, <1>2, <2>1 DEF Flags
  <2>5. Queue'
    BY <1>1, <1>2, <2>1 DEF Queue, QueueSane
  <2> QED  BY <1>3, <2>2, <2>3, <2>3a, <2>3b, <2>4, <2>5
<1>5. CASE owner[buf[p]] = NoClient
  <2>1. bpc' = [bpc EXCEPT ![p] = "locked"] /\ owner' = [owner EXCEPT ![buf[p]] = p]
    BY <1>5 DEF acquiresleep, Goto
  <2>2. BTypes'
    <3>1. bpc' \in [Clients -> Places] /\ owner' \in [Bufs -> Clients \cup {NoClient}]
      BY <1>2, <2>1 DEF Places, BTypes, BcacheTypeOK
    <3> QED  BY <1>1, <3>1 DEF BTypes, BcacheTypeOK
  <2>3. \A r \in Clients : r # p /\ bpc[r] \in Holding => buf[r] # buf[p]
    BY SMT, <1>2, <1>5, BcacheAssumption DEF Holders
  <2>4. Holders'
    <3>1. \A r \in Clients : bpc'[r] \in Holding => owner'[buf'[r]] = r
      BY SMT, <1>1, <1>2, <2>1, <2>3 DEF Holders, BTypes, BcacheTypeOK
    <3>2. \A c \in Bufs : owner'[c] # NoClient =>
            (buf'[owner'[c]] = c /\ bpc'[owner'[c]] \in Holding) \/ outer'[owner'[c]] = c
      BY SMT, <1>1, <1>2, <2>1 DEF Holders, Holding, BTypes, BcacheTypeOK
    <3> QED  BY SMT, <1>1, <1>2, <2>1, <3>1, <3>2 DEF Holders
  <2>4a. Outers'
    <3> SUFFICES ASSUME NEW r \in Clients, outer[r] # 0
                 PROVE  owner'[outer[r]] = r /\ (bpc'[r] \in {"lock", "locksleep"} => bpc[r] = bpc'[r])
      BY <1>1 DEF Outers
    <3>1. outer[r] \in Bufs /\ owner[outer[r]] = r /\ outer[r] # buf[p]
      BY SMT, <1>2, <1>5, BcacheAssumption DEF Outers
    <3> QED  BY <3>1, <1>2, <2>1 DEF BTypes, BcacheTypeOK
  <2>5. LockAsleep'
    BY SMT, <1>1, <1>2, <2>1, BcacheAssumption DEF LockAsleep, Holders, BTypes, BcacheTypeOK
  <2>6. Flags'
    BY <1>1, <1>2, <2>1 DEF Flags
  <2>7. Queue'
    <3>1. \A r \in Clients : bpc[r] = "io" => bpc'[r] = "io" /\ owner'[buf[r]] = owner[buf[r]]
      BY SMT, <1>1, <1>2, <2>1, <2>3 DEF Holders, Holding, BTypes, BcacheTypeOK
    <3>2. \A r \in Clients : bpc'[r] = "io" => bpc[r] = "io"
      BY <1>2, <2>1
    <3> QED  BY SMT, <1>1, <3>1, <3>2 DEF Queue, QueueSane
  <2> QED  BY <1>3, <2>2, <2>4, <2>4a, <2>5, <2>6, <2>7
<1> QED  BY <1>4, <1>5

\* A process that has its buffer locked and does not wait for the disk goes on
\* with a valid buffer, and may change its data and set B_DIRTY.
LEMMA UseStep ==
  ASSUME BInv, NEW p \in Clients, NEW l \in {"use", "changed"},
         bpc[p] \in Holding \ {"io"}, valid[buf[p]],
         bpc' = [bpc EXCEPT ![p] = l],
         UNCHANGED <<blockno, refcnt, valid, owner, mru, idequeue, sent, bdisk, buf, outer, bpanicked>>,
         data' \in [Bufs -> Contents], content' \in [Bnos -> Contents],
         bdirty' \in [Bufs -> BOOLEAN],
         \A c \in Bufs \ {buf[p]} : data'[c] = data[c] /\ bdirty'[c] = bdirty[c]
  PROVE  BInv'
<1> USE DEF BInv
<1>1. buf[p] \in Bufs /\ buf \in [Clients -> Bufs \cup {0}] /\ bpc \in [Clients -> Places]
  BY DEF Holders, Holding, BTypes, BcacheTypeOK
<1>2. owner[buf[p]] = p /\ blockno[buf[p]] \in Bnos
  BY SMT, <1>1 DEF Holders, Bufs
<1>3. \A r \in Clients : r # p /\ bpc[r] \in Holding => buf[r] # buf[p]
  BY <1>2 DEF Holders
<1>4. BTypes'
  <2>1. bpc' \in [Clients -> Places]
    BY <1>1 DEF Places
  <2> QED  BY <2>1 DEF BTypes, BcacheTypeOK
<1>5. Holders' /\ LockAsleep'
  <2>1. \A r \in Clients : bpc'[r] \in Holding <=> bpc[r] \in Holding
    BY <1>1 DEF Holding
  <2>2. \A r \in Clients : (bpc'[r] = "idle" <=> bpc[r] = "idle") /\ (bpc'[r] = "locksleep" => bpc[r] = "locksleep")
    BY <1>1 DEF Holding
  <2>3. \A c \in Bufs : owner[c] # NoClient => owner[c] \in Clients
    BY SMT DEF BTypes, BcacheTypeOK
  <2> QED  BY <2>1, <2>2, <2>3 DEF Holders, LockAsleep
<1>5a. Outers'
  BY <1>1 DEF Outers
<1>6. Flags'
  <2>1. \A c \in Bufs : bdirty'[c] => valid'[c] /\ blockno'[c] \in Bnos
    BY <1>1, <1>2 DEF Flags
  <2>2. ASSUME NEW r \in Clients, bpc'[r] \in {"io", "iowake"}
        PROVE  bpc'[r] = bpc[r] /\ bdirty'[buf[r]] = bdirty[buf[r]]
    <3>1. r # p /\ bpc'[r] = bpc[r]
      BY <2>2, <1>1
    <3>2. buf[r] # buf[p] /\ buf[r] \in Bufs
      BY SMT, <2>2, <3>1, <1>1, <1>3 DEF Holders, Holding
    <3> QED  BY <3>1, <3>2
  <2>3. \A r \in Clients : bpc'[r] \in {"use", "changed"} => valid'[buf'[r]]
    BY <1>1 DEF Flags
  <2> QED  BY SMT, <2>1, <2>2, <2>3 DEF Flags
<1>7. Queue'
  <2>1. \A r \in Clients : bpc'[r] = "io" <=> bpc[r] = "io"
    BY <1>1
  <2>2. \A i \in DOMAIN idequeue : idequeue[i] \in Bufs \ {buf[p]}
    BY SMT, <1>2 DEF Queue, QueueSane, Holding, BTypes, BcacheTypeOK
  <2>3. idequeue # <<>> /\ bdirty'[idequeue[1]] => sent = data'[idequeue[1]]
    <3>1. idequeue # <<>> => 1 \in DOMAIN idequeue
      BY SMT DEF BTypes
    <3> QED  BY <3>1, <2>2 DEF Queue, QueueSane
  <2> QED  BY SMT, <2>1, <2>3 DEF Queue, QueueSane
<1>8. OneBuffer' /\ Counted'
  BY SMT DEF OneBuffer, Counted, Users
<1> QED  BY <1>4, <1>5, <1>5a, <1>6, <1>7, <1>8

\* iderw returns with the request done.
LEMMA ReturnStep ==
  ASSUME BInv, NEW p \in Clients, IderwReturn(p)
  PROVE  BInv'
<1>1. valid[buf[p]] /\ ~bdirty[buf[p]] /\ bpc[p] \in Holding \ {"io"}
  BY DEF BInv, Flags, IderwReturn, Holding
<1>2. /\ bpc' = [bpc EXCEPT ![p] = "use"]
      /\ UNCHANGED <<blockno, refcnt, valid, bdirty, data, owner, mru, idequeue, sent, bdisk,
                     content, buf, outer, bpanicked>>
  BY <1>1 DEF IderwReturn, Goto, bufVars, ideVars
<1> QED  BY <1>1, <1>2, UseStep DEF BInv, BTypes, BcacheTypeOK

\* The holder changes its buffer.
LEMMA ModifyStep ==
  ASSUME BInv, NEW p \in Clients, NEW v \in Contents, Modify(p, v)
  PROVE  BInv'
<1>1. valid[buf[p]] /\ bpc[p] \in Holding \ {"io"} /\ buf[p] \in Bufs /\ blockno[buf[p]] \in Bnos
  BY DEF BInv, Flags, Holders, BTypes, BcacheTypeOK, Modify, Holding, Bufs
<1>2. /\ bpc' = [bpc EXCEPT ![p] = "changed"]
      /\ data' = [data EXCEPT ![buf[p]] = v]
      /\ content' = [content EXCEPT ![blockno[buf[p]]] = v]
      /\ UNCHANGED <<blockno, refcnt, valid, bdirty, owner, mru, idequeue, sent, bdisk, buf, outer, bpanicked>>
  BY DEF Modify, Goto, ideVars
<1>3. /\ data' \in [Bufs -> Contents] /\ content' \in [Bnos -> Contents]
      /\ bdirty' \in [Bufs -> BOOLEAN]
      /\ \A c \in Bufs \ {buf[p]} : data'[c] = data[c] /\ bdirty'[c] = bdirty[c]
  BY <1>1, <1>2 DEF BInv, BTypes, BcacheTypeOK
<1> QED  BY <1>1, <1>2, <1>3, UseStep

\* log_write marks the buffer.
LEMMA LogWriteStep ==
  ASSUME BInv, NEW p \in Clients, log_write(p)
  PROVE  BInv'
<1>1. valid[buf[p]] /\ bpc[p] \in Holding \ {"io"} /\ buf[p] \in Bufs
  BY DEF BInv, Flags, Holders, BTypes, BcacheTypeOK, log_write, Holding
<1>2. /\ bpc' = [bpc EXCEPT ![p] = "use"]
      /\ bdirty' = [bdirty EXCEPT ![buf[p]] = TRUE]
      /\ UNCHANGED <<blockno, refcnt, valid, data, owner, mru, idequeue, sent, bdisk, content,
                     buf, outer, bpanicked>>
  BY DEF log_write, Goto, ideVars
<1>3. /\ data' \in [Bufs -> Contents] /\ content' \in [Bnos -> Contents]
      /\ bdirty' \in [Bufs -> BOOLEAN]
      /\ \A c \in Bufs \ {buf[p]} : data'[c] = data[c] /\ bdirty'[c] = bdirty[c]
  BY <1>1, <1>2 DEF BInv, BTypes, BcacheTypeOK
<1> QED  BY <1>1, <1>2, <1>3, UseStep

\* releasesleep lets the lock go and wakes those asleep on it.
LEMMA ReleaseStep ==
  ASSUME BInv, NEW p \in Clients, releasesleep(p)
  PROVE  BInv'
<1> USE DEF BInv
<1> DEFINE b == buf[p]
<1>1. /\ bpc[p] = "use" /\ owner' = [owner EXCEPT ![b] = NoClient]
      /\ bpc' = [r \in Clients |-> IF r = p THEN "unref"
                                   ELSE IF bpc[r] = "locksleep" /\ buf[r] = b THEN "lock" ELSE bpc[r]]
      /\ UNCHANGED <<blockno, refcnt, valid, bdirty, data, mru, idequeue, sent, bdisk, content,
                     buf, outer, bpanicked>>
  BY DEF releasesleep, bufVars, ideVars
<1>2. b \in Bufs /\ buf \in [Clients -> Bufs \cup {0}] /\ outer \in [Clients -> Bufs \cup {0}]
      /\ bpc \in [Clients -> Places] /\ owner[b] = p
  BY SMT, <1>1 DEF Holders, Holding, BTypes, BcacheTypeOK
<1>3. \A r \in Clients : r # p /\ bpc[r] \in Holding => buf[r] # b
  BY <1>2 DEF Holders
<1> HIDE DEF b
<1>4. \A r \in Clients : bpc'[r] \in Holding => r # p /\ bpc'[r] = bpc[r]
  BY <1>1 DEF Holding
<1>5. \A r \in Clients : r # p /\ bpc[r] \in Holding => bpc'[r] = bpc[r]
  BY <1>1 DEF Holding
<1>6. BTypes'
  <2>1. bpc' \in [Clients -> Places] /\ owner' \in [Bufs -> Clients \cup {NoClient}]
    BY <1>1, <1>2 DEF Places, BTypes, BcacheTypeOK
  <2> QED  BY <1>1, <2>1 DEF BTypes, BcacheTypeOK
<1>7. Holders'
  <2>1. \A r \in Clients : buf'[r] = 0 <=> bpc'[r] = "idle"
    BY <1>1 DEF Holders
  <2>2. \A r \in Clients : bpc'[r] \in Holding => owner'[buf'[r]] = r
    BY SMT, <1>1, <1>2, <1>3, <1>4 DEF Holders, Holding, BTypes, BcacheTypeOK
  <2>3. ASSUME NEW c \in Bufs, owner'[c] # NoClient
        PROVE  (buf'[owner'[c]] = c /\ bpc'[owner'[c]] \in Holding) \/ outer'[owner'[c]] = c
    <3>1. c # b /\ owner'[c] = owner[c]
      BY <2>3, <1>1, <1>2 DEF BTypes, BcacheTypeOK
    <3>2. /\ owner[c] \in Clients
          /\ (buf[owner[c]] = c /\ bpc[owner[c]] \in Holding) \/ outer[owner[c]] = c
      BY SMT, <2>3, <3>1 DEF Holders, BTypes, BcacheTypeOK
    <3>3. buf[owner[c]] = c => owner[c] # p
      BY <3>1 DEF b
    <3> QED  BY <3>1, <3>2, <3>3, <1>1, <1>5
  <2> QED  BY <1>1, <2>1, <2>2, <2>3 DEF Holders
<1>7a. Outers'
  <2> SUFFICES ASSUME NEW r \in Clients, outer[r] # 0
               PROVE  /\ owner'[outer[r]] = r
                      /\ bpc'[r] \in {"lock", "locksleep"} => bpc[r] \in {"lock", "locksleep"}
    BY <1>1 DEF Outers
  <2>1. outer[r] \in Bufs /\ owner[outer[r]] = r /\ buf[r] # outer[r]
    BY <1>2 DEF Outers
  <2>2. outer[r] # b
    BY <2>1, <1>2 DEF b
  <2> QED  BY <2>1, <2>2, <1>1 DEF BTypes, BcacheTypeOK
<1>8. LockAsleep'
  <2> SUFFICES ASSUME NEW r \in Clients, bpc'[r] = "locksleep" PROVE owner'[buf[r]] # NoClient
    BY <1>1 DEF LockAsleep
  <2>1. r # p /\ bpc[r] = "locksleep" /\ buf[r] # b /\ buf[r] \in Bufs
    BY SMT, <1>1, <1>2 DEF Holders
  <2> QED  BY <2>1, <1>1 DEF LockAsleep, BTypes, BcacheTypeOK
<1>9. Flags'
  BY <1>1, <1>4 DEF Flags, Holding
<1>10. Queue'
  <2>1. \A r \in Clients : bpc[r] = "io" => bpc'[r] = "io" /\ owner'[buf[r]] = owner[buf[r]]
    <3> SUFFICES ASSUME NEW r \in Clients, bpc[r] = "io"
                 PROVE  bpc'[r] = "io" /\ owner'[buf[r]] = owner[buf[r]]
      OBVIOUS
    <3>1. r # p /\ bpc[r] \in Holding
      BY <1>1 DEF Holding
    <3>2. buf[r] # b /\ buf[r] \in Bufs
      BY SMT, <3>1, <1>2, <1>3 DEF Holders
    <3> QED  BY <3>1, <3>2, <1>1, <1>5 DEF BTypes, BcacheTypeOK
  <2>2. \A r \in Clients : bpc'[r] = "io" => bpc[r] = "io"
    BY <1>1
  <2> QED  BY SMT, <1>1, <2>1, <2>2 DEF Queue, QueueSane
<1>11. OneBuffer' /\ Counted'
  BY <1>1 DEF OneBuffer, Counted, Users
<1> QED  BY <1>6, <1>7, <1>7a, <1>8, <1>9, <1>10, <1>11

\* brelse gives up the reference, and the process is back at its other buffer.
LEMMA BrelseStep ==
  ASSUME BInv, NEW p \in Clients, brelse(p)
  PROVE  BInv'
<1> USE DEF BInv
<1>t. /\ buf \in [Clients -> Bufs \cup {0}] /\ outer \in [Clients -> Bufs \cup {0}]
      /\ bpc \in [Clients -> Places] /\ owner \in [Bufs -> Clients \cup {NoClient}] /\ 0 \notin Bufs
  <2>1. 0 \notin Bufs
    BY SMT DEF Bufs
  <2> QED  BY <2>1 DEF BTypes, BcacheTypeOK
<1>1. /\ bpc[p] = "unref"
      /\ refcnt' = [refcnt EXCEPT ![buf[p]] = @ - 1]
      /\ mru' = IF refcnt[buf[p]] = 1 THEN MoveToFront(buf[p]) ELSE mru
      /\ UNCHANGED <<blockno, valid, bdirty, data, owner, idequeue, sent, bdisk, content, bpanicked>>
  BY DEF brelse, Goto, ideVars
<1>2. buf[p] \in Bufs /\ buf[p] # 0
  BY <1>1, <1>t DEF Holders
<1>3. /\ buf'[p] = outer[p] /\ outer'[p] = 0 /\ bpc'[p] = IF outer[p] = 0 THEN "idle" ELSE "use"
      /\ \A r \in Clients \ {p} : buf'[r] = buf[r] /\ outer'[r] = outer[r] /\ bpc'[r] = bpc[r]
      /\ buf' \in [Clients -> Bufs \cup {0}] /\ outer' \in [Clients -> Bufs \cup {0}]
      /\ bpc' \in [Clients -> Places]
  BY <1>t DEF brelse, Goto, Places
<1>3a. outer[p] # 0 => buf[p] # outer[p] /\ owner[outer[p]] = p /\ valid[outer[p]] /\ blockno[outer[p]] \in Bnos
  BY DEF Outers
<1>4. Counted'
  <2> SUFFICES ASSUME NEW c \in Bufs PROVE refcnt'[c] = Cardinality(Users(c)')
    BY DEF Counted
  <2>3. refcnt[c] = Cardinality(Users(c)) /\ refcnt \in [Bufs -> 0 .. Cardinality(Clients)]
    BY DEF Counted, BTypes, BcacheTypeOK
  <2>4. refcnt[c] \in Int
    BY SMT, <2>3, UsersFinite DEF Users
  <2>5. CASE c = buf[p]
    <3>1. Users(c)' = Users(c) \ {p} /\ p \in Users(c)
      BY SMT, <2>5, <1>2, <1>3, <1>3a, <1>t DEF Users
    <3>2. Cardinality(Users(c) \ {p}) = Cardinality(Users(c)) - 1
      BY <3>1, UserRemoved DEF Users
    <3>3. refcnt'[c] = refcnt[c] - 1
      BY <2>3, <2>5, <1>1
    <3> QED  BY <3>1, <3>2, <3>3, <2>3
  <2>6. CASE c # buf[p]
    <3>1. Users(c)' = Users(c)
      BY <2>6, <1>2, <1>3, <1>t DEF Users
    <3>2. refcnt'[c] = refcnt[c]
      BY <2>3, <2>6, <1>1
    <3> QED  BY <3>1, <3>2, <2>3
  <2> QED  BY <2>5, <2>6
<1>5. BTypes'
  <2>2. refcnt' \in [Bufs -> 0 .. Cardinality(Clients)]
    <3>1. \A c \in Bufs : refcnt'[c] \in 0 .. Cardinality(Clients)
      BY <1>4, UsersFinite DEF Counted, Users
    <3>2. refcnt' = [c \in Bufs |-> refcnt'[c]]
      BY <1>1, <1>2 DEF BTypes, BcacheTypeOK
    <3> QED  BY <3>1, <3>2
  <2>3. mru' \in [Bufs -> Bufs] /\ \A c \in Bufs : \E i \in Bufs : mru'[i] = c
    <3>1. mru \in [Bufs -> Bufs] /\ \A c \in Bufs : \E i \in Bufs : mru[i] = c
      BY DEF BTypes, BcacheTypeOK
    <3>2. CASE refcnt[buf[p]] = 1
      <4>1. mru' = MoveToFront(buf[p])
        BY <3>2, <1>1
      <4>2. /\ MoveToFront(buf[p]) \in [Bufs -> Bufs]
            /\ \A c \in Bufs : \E i \in Bufs : MoveToFront(buf[p])[i] = c
        BY <3>1, <1>2, FrontKeepsAll
      <4> QED  BY <4>1, <4>2
    <3>3. CASE refcnt[buf[p]] # 1
      BY <3>1, <3>3, <1>1
    <3> QED  BY <3>2, <3>3
  <2> QED  BY <1>1, <1>3, <2>2, <2>3 DEF BTypes, BcacheTypeOK
<1>6. Holders'
  <2>1. \A r \in Clients : buf'[r] = 0 <=> bpc'[r] = "idle"
    BY <1>3 DEF Holders
  <2>2. \A r \in Clients : buf'[r] # 0 => blockno'[buf'[r]] \in Bnos
    BY <1>1, <1>3, <1>3a DEF Holders
  <2>3. \A r \in Clients : bpc'[r] \in Holding => owner'[buf'[r]] = r
    BY SMT, <1>1, <1>3, <1>3a DEF Holders, Holding
  <2>4. ASSUME NEW c \in Bufs, owner'[c] # NoClient
        PROVE  (buf'[owner'[c]] = c /\ bpc'[owner'[c]] \in Holding) \/ outer'[owner'[c]] = c
    <3>1. /\ owner[c] \in Clients /\ owner'[c] = owner[c] /\ c # 0
          /\ (buf[owner[c]] = c /\ bpc[owner[c]] \in Holding) \/ outer[owner[c]] = c
      BY <2>4, <1>1, <1>t DEF Holders
    <3>2. CASE owner[c] = p
      <4>1. outer[p] = c
        BY <3>1, <3>2, <1>1 DEF Holding
      <4> QED  BY <3>1, <3>2, <4>1, <1>3 DEF Holding
    <3>3. CASE owner[c] # p
      BY <3>1, <3>3, <1>3
    <3> QED  BY <3>2, <3>3
  <2> QED  BY <2>1, <2>2, <2>3, <2>4 DEF Holders
<1>6a. Outers'
  BY SMT, <1>1, <1>3 DEF Outers
<1>7. LockAsleep' /\ Flags' /\ OneBuffer'
  <2>1. LockAsleep' /\ OneBuffer'
    BY <1>1, <1>3 DEF LockAsleep, OneBuffer
  <2>2. Flags'
    BY SMT, <1>1, <1>3, <1>3a DEF Flags
  <2> QED  BY <2>1, <2>2
<1>8. Queue'
  <2>1. \A r \in Clients : bpc[r] = "io" => bpc'[r] = "io" /\ buf'[r] = buf[r]
    BY <1>1, <1>3
  <2>2. \A r \in Clients : bpc'[r] = "io" => bpc[r] = "io"
    BY <1>3
  <2> QED  BY <1>1, <2>1, <2>2, QueueKept
<1> QED  BY <1>4, <1>5, <1>6, <1>6a, <1>7, <1>8

\* A process with two buffers turns to the other one.
LEMMA SwapStep ==
  ASSUME BInv, NEW p \in Clients, Swap(p)
  PROVE  BInv'
<1> USE DEF BInv
<1>t. /\ buf \in [Clients -> Bufs \cup {0}] /\ outer \in [Clients -> Bufs \cup {0}]
      /\ owner \in [Bufs -> Clients \cup {NoClient}]
  BY DEF BTypes, BcacheTypeOK
<1>1. /\ bpc[p] = "use" /\ outer[p] # 0
      /\ UNCHANGED <<blockno, refcnt, valid, bdirty, data, owner, mru, idequeue, sent, bdisk,
                     content, bpc, bpanicked>>
  BY DEF Swap, bufVars, ideVars
<1>2. /\ buf'[p] = outer[p] /\ outer'[p] = buf[p]
      /\ \A r \in Clients \ {p} : buf'[r] = buf[r] /\ outer'[r] = outer[r]
      /\ buf' \in [Clients -> Bufs \cup {0}] /\ outer' \in [Clients -> Bufs \cup {0}]
  BY <1>t DEF Swap
<1>3. /\ buf[p] # outer[p] /\ owner[outer[p]] = p /\ valid[outer[p]] /\ blockno[outer[p]] \in Bnos
      /\ buf[p] # 0 /\ owner[buf[p]] = p /\ valid[buf[p]] /\ blockno[buf[p]] \in Bnos
  BY <1>1 DEF Outers, Holders, Holding, Flags
<1>4. BTypes'
  BY <1>1, <1>2 DEF BTypes, BcacheTypeOK
<1>5. Counted' /\ OneBuffer'
  <2>1. \A c \in Bufs : Users(c)' = Users(c)
    BY <1>2 DEF Users
  <2> QED  BY <2>1, <1>1 DEF Counted, OneBuffer
<1>6. Holders'
  <2>1. /\ \A r \in Clients : buf'[r] = 0 <=> bpc'[r] = "idle"
        /\ \A r \in Clients : buf'[r] # 0 => blockno'[buf'[r]] \in Bnos
        /\ \A r \in Clients : bpc'[r] \in Holding => owner'[buf'[r]] = r
    BY <1>1, <1>2, <1>3 DEF Holders
  <2>2. ASSUME NEW c \in Bufs, owner'[c] # NoClient
        PROVE  (buf'[owner'[c]] = c /\ bpc'[owner'[c]] \in Holding) \/ outer'[owner'[c]] = c
    <3>1. /\ owner[c] \in Clients /\ owner'[c] = owner[c]
          /\ (buf[owner[c]] = c /\ bpc[owner[c]] \in Holding) \/ outer[owner[c]] = c
      BY <2>2, <1>1, <1>t DEF Holders
    <3> QED  BY <3>1, <1>1, <1>2 DEF Holding
  <2> QED  BY <2>1, <2>2 DEF Holders
<1>7. Outers' /\ LockAsleep'
  <2>1. Outers'
    BY SMT, <1>1, <1>2, <1>3 DEF Outers
  <2>2. LockAsleep'
    BY <1>1, <1>2 DEF LockAsleep
  <2> QED  BY <2>1, <2>2
<1>8. Flags'
  BY <1>1, <1>2, <1>3 DEF Flags
<1>9. Queue'
  <2>1. \A r \in Clients : bpc[r] = "io" => bpc'[r] = "io" /\ buf'[r] = buf[r]
    BY <1>1, <1>2
  <2> QED  BY <1>1, <2>1, QueueKept
<1> QED  BY <1>4, <1>5, <1>6, <1>7, <1>8, <1>9

\* What iderw does when bread calls it for an invalid buffer and when bwrite
\* calls it: it never panics, and the buffer joins the queue.
LEMMA IderwDoes ==
  ASSUME BInv, NEW p \in Clients, NEW write \in BOOLEAN, iderw(p, write),
         IF write THEN bpc[p] \in {"use", "changed"} ELSE bpc[p] = "locked" /\ ~valid[buf[p]]
  PROVE  /\ buf[p] \in Bufs /\ owner[buf[p]] = p
         /\ bpc[p] \in Holding \ {"io"} /\ bpc' = [bpc EXCEPT ![p] = "io"]
         /\ bdirty' = [bdirty EXCEPT ![buf[p]] = write] /\ valid[buf[p]] = write
         /\ idequeue' = Append(idequeue, buf[p])
         /\ sent' = IF idequeue = <<>> /\ write THEN data[buf[p]] ELSE sent
         /\ UNCHANGED <<blockno, refcnt, valid, data, owner, mru, bdisk, content, buf, outer, bpanicked>>
<1> USE DEF BInv
<1>1. bpc[p] \in Holding \ {"io"} /\ buf[p] \in Bufs /\ owner[buf[p]] = p
  BY SMT DEF Holders, Holding, BTypes, BcacheTypeOK
<1>2. valid \in [Bufs -> BOOLEAN] /\ bdirty \in [Bufs -> BOOLEAN] /\ idequeue \in Seq(Bufs)
  BY DEF BTypes, BcacheTypeOK
<1>3. valid[buf[p]] = write
  BY <1>1, <1>2 DEF Flags
<1>4. bdirty' = [bdirty EXCEPT ![buf[p]] = bdirty[buf[p]] \/ write]
  BY DEF iderw
<1>5. (bdirty[buf[p]] \/ write) = write
  BY <1>1, <1>2, <1>3 DEF Flags
<1>6. bdirty' = [bdirty EXCEPT ![buf[p]] = write]
  BY <1>4, <1>5
<1>7. bdirty'[buf[p]] = write
  BY <1>1, <1>2, <1>6
<1>8. ~(owner[buf[p]] # p \/ (valid[buf[p]] /\ ~bdirty'[buf[p]]))
  BY <1>1, <1>3, <1>7
<1>9. /\ idequeue' = Append(idequeue, buf[p])
      /\ IF idequeue = <<>> THEN idestart(idequeue', data) ELSE sent' = sent
      /\ bpc' = [bpc EXCEPT ![p] = "io"]
      /\ UNCHANGED <<blockno, refcnt, valid, data, owner, mru, bdisk, content, buf, outer, bpanicked>>
  BY <1>8 DEF iderw, Goto
<1>10. sent' = IF idequeue = <<>> /\ write THEN data[buf[p]] ELSE sent
  <2>1. CASE idequeue = <<>>
    <3>1. idequeue' # <<>> /\ idequeue'[1] = buf[p]
      BY SMT, <2>1, <1>9, <1>1
    <3> QED  BY <2>1, <3>1, <1>7, <1>9 DEF idestart
  <2>2. CASE idequeue # <<>>
    BY <2>2, <1>9
  <2> QED  BY <2>1, <2>2
<1> QED  BY <1>1, <1>3, <1>6, <1>9, <1>10

\* A request joins the driver's queue.
LEMMA IderwStep ==
  ASSUME BInv, NEW p \in Clients, NEW write \in BOOLEAN, iderw(p, write),
         IF write THEN bpc[p] \in {"use", "changed"} ELSE bpc[p] = "locked" /\ ~valid[buf[p]]
  PROVE  BInv'
<1> USE DEF BInv
<1> DEFINE b == buf[p]
           q == idequeue
<1>1. /\ b \in Bufs /\ owner[b] = p
      /\ bpc[p] \in Holding \ {"io"} /\ bpc' = [bpc EXCEPT ![p] = "io"]
      /\ bdirty' = [bdirty EXCEPT ![b] = write] /\ valid[b] = write
      /\ idequeue' = Append(q, b)
      /\ sent' = IF q = <<>> /\ write THEN data[b] ELSE sent
      /\ UNCHANGED <<blockno, refcnt, valid, data, owner, mru, bdisk, content, buf, outer, bpanicked>>
  BY IderwDoes
<1>2. /\ buf \in [Clients -> Bufs \cup {0}] /\ bpc \in [Clients -> Places] /\ q \in Seq(Bufs)
      /\ bdirty \in [Bufs -> BOOLEAN] /\ data \in [Bufs -> Contents] /\ sent \in Contents
  BY DEF BTypes, BcacheTypeOK
<1>3. \A r \in Clients : r # p /\ bpc[r] \in Holding => buf[r] # b
  BY <1>1 DEF Holders
<1>4. blockno[b] \in Bnos
  BY <1>1 DEF Holders, Bufs
<1>5. /\ idequeue' \in Seq(Bufs) /\ DOMAIN idequeue' = 1 .. Len(q) + 1 /\ Len(q) \in Nat
      /\ DOMAIN q = 1 .. Len(q)
      /\ \A i \in 1 .. Len(q) : idequeue'[i] = q[i]
      /\ idequeue'[Len(q) + 1] = b
  BY SMT, <1>1, <1>2
<1>6. \A i \in 1 .. Len(q) : q[i] \in Bufs \ {b}
  <2> SUFFICES ASSUME NEW i \in 1 .. Len(q) PROVE q[i] # b
    BY SMT, <1>2
  <2>1. PICK r \in Clients : owner[q[i]] = r /\ bpc[r] = "io"
    BY SMT, <1>5 DEF Queue, QueueSane
  <2> QED  BY <2>1, <1>1
<1> HIDE DEF b, q
<1>7. BTypes'
  <2>1. bpc' \in [Clients -> Places]
    BY <1>1, <1>2 DEF Places
  <2>2. bdirty' \in [Bufs -> BOOLEAN] /\ sent' \in Contents
    BY <1>1, <1>2
  <2>3. \A i \in DOMAIN idequeue' : idequeue'[i] \in Bufs
    BY SMT, <1>5
  <2> QED  BY <1>1, <1>5, <2>1, <2>2, <2>3 DEF BTypes, BcacheTypeOK
<1>8. Holders' /\ LockAsleep'
  <2>1. bpc[p] \in Holding /\ "io" \in Holding
    BY <1>1 DEF Holding
  <2>2. \A r \in Clients : bpc'[r] \in Holding <=> bpc[r] \in Holding
    BY <1>1, <1>2, <2>1
  <2>3. \A r \in Clients : (bpc'[r] = "idle" <=> bpc[r] = "idle") /\ (bpc'[r] = "locksleep" => bpc[r] = "locksleep")
    BY <1>1, <1>2 DEF Holding
  <2>4. \A c \in Bufs : owner[c] # NoClient => owner[c] \in Clients
    BY DEF BTypes, BcacheTypeOK
  <2> QED  BY SMT, <1>1, <2>2, <2>3, <2>4 DEF Holders, LockAsleep
<1>8a. Outers'
  <2>1. \A r \in Clients : bpc'[r] \in {"lock", "locksleep"} => bpc'[r] = bpc[r]
    BY <1>1, <1>2
  <2> QED  BY <2>1, <1>1 DEF Outers
<1>9. Flags'
  <2>1. \A c \in Bufs : bdirty'[c] => valid'[c] /\ blockno'[c] \in Bnos
    BY <1>1, <1>2, <1>4 DEF Flags
  <2>2. ASSUME NEW r \in Clients, r # p, bpc[r] \in {"io", "iowake"}
        PROVE  bdirty'[buf[r]] = bdirty[buf[r]]
    <3>1. buf[r] # b /\ buf[r] \in Bufs
      BY SMT, <2>2, <1>2, <1>3 DEF Holders, Holding
    <3> QED  BY <3>1, <1>1, <1>2
  <2>3. bdirty'[buf[p]] = valid[buf[p]]
    BY <1>1, <1>2 DEF b
  <2>4. bpc'[p] = "io" /\ \A r \in Clients : r # p => bpc'[r] = bpc[r]
    BY <1>1, <1>2
  <2> QED  BY SMT, <1>1, <2>1, <2>2, <2>3, <2>4 DEF Flags
<1>10. Queue'
  <2>1. \A i, j \in DOMAIN idequeue' : idequeue'[i] = idequeue'[j] => i = j
    <3>1. \A i, j \in 1 .. Len(q) : q[i] = q[j] => i = j
      BY <1>5 DEF Queue, QueueSane, q
    <3>2. \A i \in 1 .. Len(q) + 1 : i \in 1 .. Len(q) \/ i = Len(q) + 1
      BY SMT, <1>5
    <3> QED  BY <1>5, <1>6, <3>1, <3>2
  <2>2. ASSUME NEW i \in DOMAIN idequeue'
        PROVE  \E r \in Clients : buf'[r] = idequeue'[i] /\ owner'[idequeue'[i]] = r /\ bpc'[r] = "io"
    <3>1. CASE i \in 1 .. Len(q)
      <4>1. PICK r \in Clients : buf[r] = q[i] /\ owner[q[i]] = r /\ bpc[r] = "io"
        BY SMT, <3>1, <1>5 DEF Queue, QueueSane, q
      <4>2. bpc'[r] = "io"
        BY <4>1, <1>1, <1>2
      <4> QED  BY <3>1, <4>1, <4>2, <1>1, <1>5
    <3>2. CASE i = Len(q) + 1
      <4>1. bpc'[p] = "io" /\ buf'[p] = b /\ owner'[b] = p
        BY <1>1, <1>2 DEF b
      <4> QED  BY <3>2, <4>1, <1>5
    <3> QED  BY SMT, <3>1, <3>2, <1>5
  <2>3. bdirty'[idequeue'[1]] => sent' = data'[idequeue'[1]]
    <3>1. CASE q = <<>>
      <4>1. idequeue'[1] = b
        BY SMT, <3>1, <1>1
      <4> QED  BY <3>1, <4>1, <1>1, <1>2
    <3>2. CASE q # <<>>
      <4>1. 1 \in 1 .. Len(q)
        BY SMT, <3>2, <1>2
      <4>2. idequeue'[1] = q[1] /\ q[1] \in Bufs \ {b} /\ (bdirty[q[1]] => sent = data[q[1]])
        BY <4>1, <3>2, <1>5, <1>6 DEF Queue, QueueSane, q
      <4> QED  BY <3>2, <4>2, <1>1, <1>2
    <3> QED  BY <3>1, <3>2
  <2>4. ASSUME NEW r \in Clients, bpc'[r] = "io"
        PROVE  \E i \in DOMAIN idequeue' : idequeue'[i] = buf'[r]
    <3>1. CASE r = p
      <4>1. Len(q) + 1 \in DOMAIN idequeue'
        BY SMT, <1>5
      <4> QED  BY <3>1, <4>1, <1>1, <1>5 DEF b
    <3>2. CASE r # p
      <4>1. PICK i \in DOMAIN q : q[i] = buf[r]
        BY <3>2, <2>4, <1>1, <1>2 DEF Queue, q
      <4>2. i \in DOMAIN idequeue' /\ idequeue'[i] = q[i]
        BY SMT, <4>1, <1>5
      <4> QED  BY <4>1, <4>2, <1>1
    <3> QED  BY <3>1, <3>2
  <2> QED  BY <2>1, <2>2, <2>3, <2>4 DEF Queue, QueueSane
<1>11. OneBuffer' /\ Counted'
  BY <1>1 DEF OneBuffer, Counted, Users
<1> QED  BY <1>7, <1>8, <1>8a, <1>9, <1>10, <1>11

\* bread of a valid buffer and of one to be read.
LEMMA BreadStep ==
  ASSUME BInv, NEW p \in Clients, bread(p)
  PROVE  BInv'
<1>1. CASE valid[buf[p]]
  <2>1. /\ bpc[p] \in Holding \ {"io"} /\ bpc' = [bpc EXCEPT ![p] = "use"]
        /\ UNCHANGED <<blockno, refcnt, valid, bdirty, data, owner, mru, idequeue, sent, bdisk,
                       content, buf, outer, bpanicked>>
    BY <1>1 DEF bread, Goto, bufVars, ideVars, Holding
  <2> QED  BY <1>1, <2>1, UseStep DEF BInv, BTypes, BcacheTypeOK
<1>2. CASE ~valid[buf[p]]
  <2>1. bpc[p] = "locked" /\ iderw(p, FALSE)
    BY <1>2 DEF bread
  <2> QED  BY <1>2, <2>1, IderwStep
<1> QED  BY <1>1, <1>2

\* bwrite.
LEMMA BwriteStep ==
  ASSUME BInv, NEW p \in Clients, bwrite(p)
  PROVE  BInv'
BY IderwStep DEF bwrite

\* The interrupt takes the request at the head off the queue and wakes its process.
LEMMA IntrStep ==
  ASSUME BInv, NEW error \in BOOLEAN, ideintr(error)
  PROVE  BInv'
<1> USE DEF BInv
<1> DEFINE q == idequeue
           b == idequeue[1]
<1>1. /\ q # <<>> /\ idequeue' = Tail(q)
      /\ bdisk' = IF bdirty[b] THEN [bdisk EXCEPT ![blockno[b]] = sent] ELSE bdisk
      /\ data' = IF bdirty[b] \/ error THEN data ELSE [data EXCEPT ![b] = bdisk[blockno[b]]]
      /\ valid' = [valid EXCEPT ![b] = TRUE] /\ bdirty' = [bdirty EXCEPT ![b] = FALSE]
      /\ sent' = IF idequeue' # <<>> /\ bdirty'[idequeue'[1]] THEN data[idequeue'[1]] ELSE sent
      /\ bpc' = [r \in Clients |-> IF bpc[r] = "io" /\ buf[r] = b THEN "iowake" ELSE bpc[r]]
      /\ UNCHANGED <<blockno, refcnt, owner, mru, content, buf, outer, bpanicked>>
  BY DEF ideintr, idestart
<1>2. /\ buf \in [Clients -> Bufs \cup {0}] /\ bpc \in [Clients -> Places] /\ q \in Seq(Bufs)
      /\ bdirty \in [Bufs -> BOOLEAN] /\ valid \in [Bufs -> BOOLEAN]
      /\ data \in [Bufs -> Contents] /\ sent \in Contents /\ bdisk \in [Bnos -> Contents]
  BY DEF BTypes, BcacheTypeOK
<1>3. /\ Len(q) \in Nat /\ 1 \in 1 .. Len(q) /\ DOMAIN q = 1 .. Len(q)
      /\ idequeue' \in Seq(Bufs) /\ DOMAIN idequeue' = 1 .. Len(q) - 1
      /\ \A i \in 1 .. Len(q) - 1 : idequeue'[i] = q[i+1]
  BY SMT, <1>1, <1>2
<1>4. b \in Bufs
  BY SMT, <1>2, <1>3
<1>5. PICK w \in Clients : buf[w] = b /\ owner[b] = w /\ bpc[w] = "io"
  BY <1>3 DEF Queue, QueueSane
<1>6. blockno[b] \in Bnos
  BY <1>5 DEF Holders
<1>7. \A i \in 1 .. Len(q) - 1 : i + 1 \in 1 .. Len(q) /\ idequeue'[i] \in Bufs \ {b}
  <2> SUFFICES ASSUME NEW i \in 1 .. Len(q) - 1
               PROVE  i + 1 \in 1 .. Len(q) /\ q[i+1] \in Bufs \ {b}
    BY <1>3
  <2>1. i + 1 \in 1 .. Len(q) /\ i + 1 # 1
    BY SMT, <1>3
  <2>2. q[i+1] # q[1]
    BY <2>1, <1>3 DEF Queue, QueueSane
  <2> QED  BY SMT, <2>1, <2>2, <1>2
<1> HIDE DEF b, q
<1>8. bpc'[w] = "iowake" /\ \A r \in Clients : r # w => bpc'[r] = bpc[r]
  <2>1. \A r \in Clients : bpc[r] = "io" /\ buf[r] = b => r = w
    BY SMT, <1>5 DEF Holders, Holding
  <2> QED  BY <2>1, <1>1, <1>5
<1>9. BTypes'
  <2>1. bpc' \in [Clients -> Places]
    BY <1>1, <1>2 DEF Places
  <2>2. bdirty' \in [Bufs -> BOOLEAN] /\ valid' \in [Bufs -> BOOLEAN]
    BY <1>1, <1>2
  <2>3. data' \in [Bufs -> Contents] /\ bdisk' \in [Bnos -> Contents]
    BY <1>1, <1>2, <1>4, <1>6
  <2>4. \A i \in DOMAIN idequeue' : idequeue'[i] \in Bufs
    BY SMT, <1>3
  <2>5. sent' \in Contents
    <3>1. idequeue' # <<>> => 1 \in DOMAIN idequeue'
      BY SMT, <1>3
    <3> QED  BY <3>1, <2>4, <1>1, <1>2
  <2> QED  BY <1>1, <1>3, <2>1, <2>2, <2>3, <2>4, <2>5 DEF BTypes, BcacheTypeOK
<1>10. Holders' /\ LockAsleep'
  <2>1. \A r \in Clients : bpc'[r] \in Holding <=> bpc[r] \in Holding
    BY <1>5, <1>8 DEF Holding
  <2>2. \A r \in Clients : (bpc'[r] = "idle" <=> bpc[r] = "idle") /\ (bpc'[r] = "locksleep" => bpc[r] = "locksleep")
    BY <1>5, <1>8
  <2>3. \A c \in Bufs : owner[c] # NoClient => owner[c] \in Clients
    BY DEF BTypes, BcacheTypeOK
  <2> QED  BY <1>1, <2>1, <2>2, <2>3 DEF Holders, LockAsleep
<1>10a. Outers'
  <2>1. \A r \in Clients : bpc'[r] \in {"lock", "locksleep"} => bpc'[r] = bpc[r]
    BY <1>8
  <2>2. \A c \in Bufs : valid[c] => valid'[c]
    BY <1>1, <1>2
  <2>3. outer \in [Clients -> Bufs \cup {0}]
    BY DEF BTypes, BcacheTypeOK
  <2> QED  BY SMT, <2>1, <2>2, <2>3, <1>1 DEF Outers
<1>11. Flags'
  <2>1. \A c \in Bufs : bdirty'[c] => valid'[c] /\ blockno'[c] \in Bnos
    BY <1>1, <1>2 DEF Flags
  <2>2. valid'[b] /\ ~bdirty'[b]
    BY <1>1, <1>2, <1>4
  <2>3. ASSUME NEW r \in Clients, r # w, bpc[r] \in Holding
        PROVE  valid'[buf[r]] = valid[buf[r]] /\ bdirty'[buf[r]] = bdirty[buf[r]]
    <3>1. buf[r] # b /\ buf[r] \in Bufs
      BY SMT, <2>3, <1>2, <1>5 DEF Holders, Holding
    <3> QED  BY <3>1, <1>1, <1>2
  <2>4. {"io", "iowake", "use", "changed"} \subseteq Holding
    BY DEF Holding
  <2> QED  BY SMT, <1>1, <1>5, <1>8, <2>1, <2>2, <2>3, <2>4 DEF Flags
<1>12. Queue'
  <2>1. \A i, j \in DOMAIN idequeue' : idequeue'[i] = idequeue'[j] => i = j
    <3> SUFFICES ASSUME NEW i \in DOMAIN idequeue', NEW j \in DOMAIN idequeue', idequeue'[i] = idequeue'[j]
                 PROVE  i = j
      OBVIOUS
    <3>1. q[i+1] = q[j+1] /\ i + 1 \in 1 .. Len(q) /\ j + 1 \in 1 .. Len(q)
      BY <1>3, <1>7
    <3>2. i + 1 = j + 1
      BY SMT, <3>1, <1>3 DEF Queue, QueueSane, q
    <3> QED  BY SMT, <3>2, <1>3
  <2>2. ASSUME NEW i \in DOMAIN idequeue'
        PROVE  \E r \in Clients : buf'[r] = idequeue'[i] /\ owner'[idequeue'[i]] = r /\ bpc'[r] = "io"
    <3>1. i + 1 \in DOMAIN q /\ idequeue'[i] = q[i+1] /\ idequeue'[i] # b
      BY <1>3, <1>7
    <3>2. PICK r \in Clients : buf[r] = q[i+1] /\ owner[q[i+1]] = r /\ bpc[r] = "io"
      BY <3>1 DEF Queue, QueueSane, q
    <3>3. r # w
      BY <3>1, <3>2, <1>5
    <3> QED  BY <3>1, <3>2, <3>3, <1>1, <1>8
  <2>3. idequeue' # <<>> /\ bdirty'[idequeue'[1]] => sent' = data'[idequeue'[1]]
    <3>1. idequeue' # <<>> => idequeue'[1] \in Bufs \ {b}
      BY SMT, <1>3, <1>7
    <3> QED  BY <3>1, <1>1, <1>2
  <2>4. ASSUME NEW r \in Clients, bpc'[r] = "io"
        PROVE  \E i \in DOMAIN idequeue' : idequeue'[i] = buf'[r]
    <3>1. r # w /\ bpc[r] = "io"
      BY <2>4, <1>8
    <3>2. buf[r] # b
      BY SMT, <3>1, <1>5 DEF Holders, Holding
    <3>3. PICK j \in DOMAIN q : q[j] = buf[r]
      BY <3>1 DEF Queue, q
    <3>4. j # 1
      BY <3>2, <3>3 DEF b, q
    <3> DEFINE i == j - 1
    <3>5. i \in DOMAIN idequeue' /\ i + 1 = j
      BY SMT, <3>3, <3>4, <1>3
    <3> HIDE DEF i
    <3>6. idequeue'[i] = q[j]
      BY <3>5, <1>3
    <3> QED  BY <3>3, <3>5, <3>6, <1>1
  <2> QED  BY <2>1, <2>2, <2>3, <2>4 DEF Queue, QueueSane
<1>13. OneBuffer' /\ Counted'
  BY <1>1 DEF OneBuffer, Counted, Users
<1> QED  BY <1>9, <1>10, <1>10a, <1>11, <1>12, <1>13

\* Every step keeps BInv.
LEMMA BcacheSafeStep ==
  ASSUME BInv, [BcacheNext]_bcacheVars
  PROVE  BInv'
<1>1. CASE UNCHANGED bcacheVars
  BY <1>1, BcacheStutter DEF bcacheVars, bufVars, ideVars, BInv, BTypes
<1>2. CASE Interrupt
  BY <1>2, IntrStep DEF Interrupt
<1>3. ASSUME NEW p \in Clients, BufStep(p)
      PROVE  BInv'
  BY <1>3, BgetHitStep, BgetMissStep, AcquireStep, BreadStep, ReturnStep, BwriteStep,
     LogWriteStep, ReleaseStep, BrelseStep, SwapStep, ModifyStep DEF BufStep
<1> QED  BY <1>1, <1>2, <1>3 DEF BcacheNext

\* BInv is an invariant of the cache, whatever the disk reports.
THEOREM BcacheInvariant == BcacheSpec => []BInv
<1>1. BcacheInit => BInv
  BY BcacheStart
<1>2. BInv /\ [BcacheNext]_bcacheVars => BInv'
  BY BcacheSafeStep
<1> QED  BY <1>1, <1>2, PTL DEF BcacheSpec

\* Whoever waits for a process that waits itself, waits for a block that comes
\* before the one that process waits for.
LEMMA WaitersAscend ==
  ASSUME BInv, NEW p \in Clients, NEW r \in Clients, WaitsFor(p, r), bpc[r] = "locksleep"
  PROVE  Level(blockno[buf[p]]) < Level(blockno[buf[r]])
<1> USE DEF BInv
<1>1. bpc[p] = "locksleep" /\ owner[buf[p]] = r /\ buf[p] \in Bufs
  BY SMT DEF WaitsFor, Holders, BTypes, BcacheTypeOK
<1>2. r # NoClient
  BY BcacheAssumption
<1>3. outer[r] = buf[p]
  BY <1>1, <1>2 DEF Holders, Holding
<1>4. buf[p] # 0
  BY <1>1 DEF Holders
<1> QED  BY <1>3, <1>4 DEF Outers

\* Processes that hold a buffer and sleep for another do not wait in a circle: the
\* blocks they wait for would ascend without end, and there are three levels.
LEMMA NoCircle ==
  ASSUME BInv, NEW S \in SUBSET Clients, S # {}
  PROVE  \E p \in S : \A r \in S : ~WaitsFor(p, r)
<1> SUFFICES ASSUME \A p \in S : \E r \in S : WaitsFor(p, r) PROVE FALSE
  OBVIOUS
<1> DEFINE L(p) == Level(blockno[buf[p]])
<1>1. \A p \in S : L(p) \in 0 .. 2
  BY SMT DEF Level
<1>2. \A p \in S : \E r \in S : L(p) < L(r)
  <2> TAKE p \in S
  <2>1. PICK r \in S : WaitsFor(p, r)
    OBVIOUS
  <2>2. PICK q \in S : WaitsFor(r, q)
    OBVIOUS
  <2>3. bpc[r] = "locksleep"
    BY <2>2 DEF WaitsFor
  <2>4. p \in Clients /\ r \in Clients
    OBVIOUS
  <2> QED  BY <2>1, <2>3, <2>4, WaitersAscend
<1> HIDE DEF L
<1>3. PICK a \in S : TRUE
  OBVIOUS
<1>4. PICK b \in S : L(a) < L(b)
  BY <1>2
<1>5. PICK c \in S : L(b) < L(c)
  BY <1>2
<1>6. PICK d \in S : L(c) < L(d)
  BY <1>2
<1> QED  BY SMT, <1>1, <1>4, <1>5, <1>6

\* A process asleep in acquiresleep waits for one that has the lock and goes on,
\* one asleep in iderw for a request in the driver's queue, which is intact, and
\* processes that hold a buffer each do not wait for each other's in a circle.
THEOREM EverySleeperHasCause == BcacheSpec => []SleepersHaveCause
<1>1. BInv => SleepersHaveCause
  <2> SUFFICES ASSUME BInv PROVE SleepersHaveCause
    OBVIOUS
  <2>1. ASSUME NEW p \in Clients, bpc[p] = "locksleep"
        PROVE  \E r \in Clients \ {p} :
                 /\ WaitsFor(p, r)
                 /\ \/ buf[r] = buf[p] /\ bpc[r] \in {"locked", "io", "iowake", "use", "changed"}
                    \/ outer[r] = buf[p]
    <3>1. buf[p] \in Bufs /\ buf[p] # 0 /\ owner[buf[p]] # NoClient
      BY SMT, <2>1 DEF BInv, LockAsleep, Holders, BTypes, BcacheTypeOK
    <3>2. PICK r \in Clients : r = owner[buf[p]]
      BY <3>1 DEF BInv, BTypes, BcacheTypeOK
    <3>3. (buf[r] = buf[p] /\ bpc[r] \in Holding) \/ outer[r] = buf[p]
      BY <3>1, <3>2 DEF BInv, Holders
    <3>4. r # p
      BY <2>1, <3>1, <3>3 DEF BInv, Outers, Holding
    <3> QED  BY <2>1, <3>2, <3>3, <3>4 DEF WaitsFor, Holding
  <2> QED  BY <2>1, NoCircle DEF SleepersHaveCause, BInv, Queue
<1> QED  BY <1>1, BcacheInvariant, PTL
-----------------------------------------------------------------------------
(* What buffers hold, with a disk that reports no errors *)

\* A step that changes no data, no identity and no contents, and clears no
\* B_DIRTY: a process that changed its buffer still has it, or has marked it.
LEMMA DataKept ==
  ASSUME DInv, UNCHANGED <<blockno, valid, data, bdisk, content>>,
         \A b \in Bufs : bdirty[b] => bdirty'[b],
         \A b \in Bufs, p \in Clients : buf[p] = b /\ bpc[p] = "changed" =>
           bdirty'[b] \/ (buf'[p] = b /\ bpc'[p] = "changed")
  PROVE  DInv'
<1>1. ValidIsCurrent'
  BY DEF DInv, ValidIsCurrent
<1>2. UnwrittenIsCached'
  <2> SUFFICES ASSUME NEW n \in Bnos, bdisk[n] # content[n]
               PROVE  \E b \in Bufs : /\ blockno[b] = n /\ valid[b] /\ data[b] = content[n]
                                      /\ bdirty'[b] \/ \E p \in Clients : buf'[p] = b /\ bpc'[p] = "changed"
    BY DEF UnwrittenIsCached
  <2>1. PICK b \in Bufs : /\ blockno[b] = n /\ valid[b] /\ data[b] = content[n]
                          /\ bdirty[b] \/ \E p \in Clients : buf[p] = b /\ bpc[p] = "changed"
    BY DEF DInv, UnwrittenIsCached
  <2> QED  BY <2>1
<1> QED  BY <1>1, <1>2 DEF DInv

\* bget recycles a buffer that nobody uses and that is not marked: its block is
\* on the disk.
LEMMA RecycleData ==
  ASSUME BInv, DInv, NEW p \in Clients, NEW n \in Bnos, BgetMiss(p, n)
  PROVE  DInv'
<1>1. CASE ~\E b \in Bufs : Free(b)
  <2>1. UNCHANGED <<blockno, valid, data, bdisk, content, bdirty, buf, bpc>>
    BY <1>1 DEF BgetMiss, ideVars
  <2> QED  BY <2>1, DataKept
<1>2. CASE \E b \in Bufs : Free(b)
  <2>1. PICK i \in Bufs : /\ Free(mru[i])
                          /\ blockno' = [blockno EXCEPT ![mru[i]] = n]
                          /\ valid' = [valid EXCEPT ![mru[i]] = FALSE]
                          /\ buf' = [buf EXCEPT ![p] = mru[i]]
                          /\ bpc' = [bpc EXCEPT ![p] = "lock"]
    BY <1>2 DEF BgetMiss, Gets, Goto
  <2> DEFINE b == mru[i]
  <2>2. b \in Bufs /\ refcnt[b] = 0 /\ ~bdirty[b]
    BY <2>1 DEF BInv, BTypes, BcacheTypeOK, Free
  <2>3. /\ bpc[p] # "changed" /\ bpc' = [bpc EXCEPT ![p] = "lock"]
        /\ \A c \in Bufs : blockno[c] # n
        /\ UNCHANGED <<bdirty, data, bdisk, content>>
    BY <1>2, <2>1 DEF BgetMiss, MayRead, ideVars
  <2>4. /\ blockno' = [blockno EXCEPT ![b] = n] /\ valid' = [valid EXCEPT ![b] = FALSE]
        /\ buf' = [buf EXCEPT ![p] = b]
    BY <2>1
  <2> HIDE DEF b
  <2>5. Users(b) = {}
    BY <2>2, NoUsers DEF BInv, Counted, Users
  <2>6. /\ blockno \in [Bufs -> Bnos \cup {NoBno}] /\ valid \in [Bufs -> BOOLEAN]
        /\ buf \in [Clients -> Bufs \cup {0}] /\ bpc \in [Clients -> Places]
    BY DEF BInv, BTypes, BcacheTypeOK
  <2>7. ValidIsCurrent'
    BY <2>2, <2>3, <2>4, <2>6 DEF DInv, ValidIsCurrent
  <2>8. UnwrittenIsCached'
    <3> SUFFICES ASSUME NEW m \in Bnos, bdisk[m] # content[m]
                 PROVE  \E c \in Bufs : /\ blockno'[c] = m /\ valid'[c] /\ data[c] = content[m]
                                        /\ bdirty[c] \/ \E r \in Clients : buf'[r] = c /\ bpc'[r] = "changed"
      BY <2>3 DEF UnwrittenIsCached
    <3>1. PICK c \in Bufs : /\ blockno[c] = m /\ valid[c] /\ data[c] = content[m]
                            /\ bdirty[c] \/ \E r \in Clients : buf[r] = c /\ bpc[r] = "changed"
      BY DEF DInv, UnwrittenIsCached
    <3>2. c # b
      BY <3>1, <2>2, <2>5 DEF Users
    <3>3. blockno'[c] = m /\ valid'[c]
      BY <3>1, <3>2, <2>4, <2>6
    <3>4. \A r \in Clients : buf[r] = c /\ bpc[r] = "changed" => buf'[r] = c /\ bpc'[r] = "changed"
      BY <2>3, <2>4, <2>6
    <3> QED  BY <3>1, <3>3, <3>4
  <2> QED  BY <2>7, <2>8 DEF DInv
<1> QED  BY <1>1, <1>2

\* A process changes the buffer it has locked.
LEMMA ModifyData ==
  ASSUME BInv, DInv, NEW p \in Clients, NEW v \in Contents, Modify(p, v)
  PROVE  DInv'
<1> DEFINE b == buf[p]
           n == blockno[b]
<1>1. b \in Bufs /\ n \in Bnos /\ valid[b]
  BY DEF BInv, Flags, Holders, BTypes, BcacheTypeOK, Modify, Bufs
<1>2. /\ bpc' = [bpc EXCEPT ![p] = "changed"]
      /\ data' = [data EXCEPT ![b] = v] /\ content' = [content EXCEPT ![n] = v]
      /\ UNCHANGED <<blockno, valid, bdirty, bdisk, buf>>
  BY DEF Modify, Goto, ideVars
<1>3. /\ data \in [Bufs -> Contents] /\ content \in [Bnos -> Contents]
      /\ bpc \in [Clients -> Places] /\ NoBno \notin Bnos
  BY BcacheAssumption DEF BInv, BTypes, BcacheTypeOK
<1>4. buf[p] = b
  OBVIOUS
<1>5. \A c \in Bufs : c # b => blockno[c] # n
  BY <1>1, <1>3 DEF BInv, OneBuffer
<1>5a. blockno[b] = n
  OBVIOUS
<1> HIDE DEF b, n
<1>6. ValidIsCurrent'
  BY <1>1, <1>2, <1>3, <1>5, <1>5a DEF DInv, ValidIsCurrent
<1>7. UnwrittenIsCached'
  <2> SUFFICES ASSUME NEW m \in Bnos, bdisk[m] # content'[m]
               PROVE  \E c \in Bufs : /\ blockno[c] = m /\ valid[c] /\ data'[c] = content'[m]
                                      /\ bdirty[c] \/ \E r \in Clients : buf'[r] = c /\ bpc'[r] = "changed"
    BY <1>2 DEF UnwrittenIsCached
  <2>1. CASE m = n
    <3>1. PICK c \in Bufs : c = b
      BY <1>1
    <3>2. buf'[p] = c /\ bpc'[p] = "changed"
      BY <3>1, <1>2, <1>3, <1>4
    <3>3. data'[c] = v /\ content'[m] = v /\ blockno[c] = m /\ valid[c]
      BY <2>1, <3>1, <1>1, <1>2, <1>3, <1>5a
    <3> QED  BY <3>2, <3>3
  <2>2. CASE m # n
    <3>1. content'[m] = content[m]
      BY <2>2, <1>2, <1>3
    <3>2. PICK c \in Bufs : /\ blockno[c] = m /\ valid[c] /\ data[c] = content[m]
                            /\ bdirty[c] \/ \E r \in Clients : buf[r] = c /\ bpc[r] = "changed"
      BY <3>1 DEF DInv, UnwrittenIsCached
    <3>3. data'[c] = data[c]
      BY <2>2, <3>2, <1>2, <1>3, <1>5a
    <3>4. \A r \in Clients : buf[r] = c /\ bpc[r] = "changed" => buf'[r] = c /\ bpc'[r] = "changed"
      BY <1>2, <1>3
    <3> QED  BY <3>1, <3>2, <3>3, <3>4
  <2> QED  BY <2>1, <2>2
<1> QED  BY <1>6, <1>7 DEF DInv

\* The interrupt ends a write of the block's last contents, or a read of a block
\* that has no other contents than the disk's.
LEMMA IntrData ==
  ASSUME BInv, DInv, ~DiskErrors, NEW error \in BOOLEAN, ideintr(error)
  PROVE  DInv'
<1> DEFINE b == idequeue[1]
           n == blockno[b]
<1>1. /\ idequeue # <<>> /\ ~error
      /\ bdisk' = IF bdirty[b] THEN [bdisk EXCEPT ![n] = sent] ELSE bdisk
      /\ data' = IF bdirty[b] THEN data ELSE [data EXCEPT ![b] = bdisk[n]]
      /\ valid' = [valid EXCEPT ![b] = TRUE] /\ bdirty' = [bdirty EXCEPT ![b] = FALSE]
      /\ bpc' = [r \in Clients |-> IF bpc[r] = "io" /\ buf[r] = b THEN "iowake" ELSE bpc[r]]
      /\ UNCHANGED <<blockno, content, buf>>
  BY DEF ideintr
<1>2. /\ data \in [Bufs -> Contents] /\ content \in [Bnos -> Contents]
      /\ bdisk \in [Bnos -> Contents] /\ idequeue \in Seq(Bufs)
      /\ valid \in [Bufs -> BOOLEAN] /\ bdirty \in [Bufs -> BOOLEAN] /\ NoBno \notin Bnos
  BY BcacheAssumption DEF BInv, BTypes, BcacheTypeOK
<1>3. 1 \in DOMAIN idequeue /\ b \in Bufs
  BY SMT, <1>1, <1>2
<1>4. PICK w \in Clients : buf[w] = b /\ owner[b] = w /\ bpc[w] = "io"
  BY <1>3 DEF BInv, Queue, QueueSane
<1>5. n \in Bnos /\ (valid[b] <=> bdirty[b])
  BY <1>4 DEF BInv, Holders, Flags
<1>6. bdirty[b] => sent = data[b]
  BY <1>1 DEF BInv, Queue, QueueSane
<1>7. \A c \in Bufs : c # b => blockno[c] # n
  BY <1>3, <1>5, <1>2 DEF BInv, OneBuffer
<1>8. blockno[b] = n
  OBVIOUS
<1> HIDE DEF b, n
<1>9. bdirty[b] => data[b] = content[n]
  BY <1>3, <1>5, <1>8 DEF DInv, ValidIsCurrent
<1>10. ~bdirty[b] => bdisk[n] = content[n]
  BY <1>5, <1>7, <1>8 DEF DInv, UnwrittenIsCached
<1>11. ValidIsCurrent'
  <2> SUFFICES ASSUME NEW c \in Bufs, valid'[c], blockno[c] \in Bnos
               PROVE  data'[c] = content[blockno[c]]
    BY <1>1 DEF ValidIsCurrent
  <2>1. CASE c = b
    BY <2>1, <1>1, <1>2, <1>3, <1>8, <1>9, <1>10
  <2>2. CASE c # b
    BY <2>2, <1>1, <1>2 DEF DInv, ValidIsCurrent
  <2> QED  BY <2>1, <2>2
<1>12. UnwrittenIsCached'
  <2> SUFFICES ASSUME NEW m \in Bnos, bdisk'[m] # content[m]
               PROVE  \E c \in Bufs : /\ blockno[c] = m /\ valid'[c] /\ data'[c] = content[m]
                                      /\ bdirty'[c] \/ \E r \in Clients : buf'[r] = c /\ bpc'[r] = "changed"
    <3>1. blockno' = blockno /\ content' = content
      BY <1>1
    <3> QED  BY SMT, <3>1 DEF UnwrittenIsCached
  <2>1. m # n
    BY <1>1, <1>2, <1>5, <1>6, <1>9, <1>10
  <2>2. bdisk'[m] = bdisk[m]
    BY <2>1, <1>1, <1>2
  <2>3. PICK c \in Bufs : /\ blockno[c] = m /\ valid[c] /\ data[c] = content[m]
                          /\ bdirty[c] \/ \E r \in Clients : buf[r] = c /\ bpc[r] = "changed"
    BY <2>2 DEF DInv, UnwrittenIsCached
  <2>4. c # b
    BY <2>1, <2>3, <1>8
  <2>5. valid'[c] = valid[c] /\ data'[c] = data[c] /\ bdirty'[c] = bdirty[c]
    BY <2>4, <1>1, <1>2
  <2>6. \A r \in Clients : buf[r] = c /\ bpc[r] = "changed" => buf'[r] = c /\ bpc'[r] = "changed"
    BY <1>1
  <2> QED  BY <2>3, <2>5, <2>6
<1> QED  BY <1>11, <1>12 DEF DInv

\* Every step keeps DInv.
LEMMA DataStep ==
  ASSUME BInv, DInv, ~DiskErrors, [BcacheNext]_bcacheVars
  PROVE  DInv'
<1> USE DEF Goto, bufVars, ideVars
<1>1. CASE UNCHANGED bcacheVars
  BY <1>1, DataKept DEF bcacheVars
<1>2. CASE Interrupt
  BY <1>2, IntrData DEF Interrupt
<1>3. ASSUME NEW p \in Clients, BufStep(p)
      PROVE  DInv'
  <2>1. /\ buf \in [Clients -> Bufs \cup {0}] /\ bpc \in [Clients -> Places]
        /\ bdirty \in [Bufs -> BOOLEAN]
    BY DEF BInv, BTypes, BcacheTypeOK
  <2>2. ASSUME NEW n \in Bnos, BgetHit(p, n) PROVE DInv'
    <3>1. /\ UNCHANGED <<blockno, valid, data, bdisk, content, bdirty>> /\ bpc[p] # "changed"
          /\ bpc' = [bpc EXCEPT ![p] = "lock"] /\ \E b \in Bufs : buf' = [buf EXCEPT ![p] = b]
      BY <2>2 DEF BgetHit, MayRead, Gets
    <3> QED  BY <3>1, <2>1, DataKept
  <2>3. ASSUME NEW n \in Bnos, BgetMiss(p, n) PROVE DInv'
    BY <2>3, RecycleData
  <2>4. CASE acquiresleep(p)
    <3>1. /\ UNCHANGED <<blockno, valid, data, bdisk, content, bdirty, buf>> /\ bpc[p] = "lock"
          /\ \E l \in Places : bpc' = [bpc EXCEPT ![p] = l]
      BY <2>4 DEF acquiresleep, Places
    <3> QED  BY <3>1, <2>1, DataKept
  <2>5. ASSUME NEW write \in BOOLEAN, iderw(p, write),
               IF write THEN bpc[p] \in {"use", "changed"} ELSE bpc[p] = "locked" /\ ~valid[buf[p]]
        PROVE  DInv'
    <3>1. /\ UNCHANGED <<blockno, valid, data, bdisk, content, buf>> /\ buf[p] \in Bufs
          /\ bdirty' = [bdirty EXCEPT ![buf[p]] = write] /\ valid[buf[p]] = write
          /\ bpc' = [bpc EXCEPT ![p] = "io"]
      BY <2>5, IderwDoes
    <3>2. \A b \in Bufs : bdirty[b] => bdirty'[b]
      BY <3>1, <2>1 DEF BInv, Flags
    <3>3. \A r \in Clients : bpc[r] = "changed" => bpc'[r] = "changed" \/ bdirty'[buf[r]]
      BY <3>1, <2>1, <2>5
    <3> QED  BY <3>1, <3>2, <3>3, DataKept
  <2>6. CASE bread(p)
    <3>1. CASE valid[buf[p]]
      <4>1. /\ UNCHANGED <<blockno, valid, data, bdisk, content, bdirty, buf>> /\ bpc[p] = "locked"
            /\ bpc' = [bpc EXCEPT ![p] = "use"]
        BY <2>6, <3>1 DEF bread
      <4> QED  BY <4>1, <2>1, DataKept
    <3>2. CASE ~valid[buf[p]]
      BY <2>5, <2>6, <3>2 DEF bread
    <3> QED  BY <3>1, <3>2
  <2>7. CASE bwrite(p)
    BY <2>5, <2>7 DEF bwrite
  <2>8. CASE IderwReturn(p)
    <3>1. /\ UNCHANGED <<blockno, valid, data, bdisk, content, bdirty, buf>> /\ bpc[p] = "iowake"
          /\ \E l \in Places : bpc' = [bpc EXCEPT ![p] = l]
      BY <2>8 DEF IderwReturn, Places
    <3> QED  BY <3>1, <2>1, DataKept
  <2>9. CASE log_write(p)
    <3>1. /\ UNCHANGED <<blockno, valid, data, bdisk, content, buf>>
          /\ bdirty' = [bdirty EXCEPT ![buf[p]] = TRUE] /\ bpc' = [bpc EXCEPT ![p] = "use"]
      BY <2>9 DEF log_write
    <3> QED  BY <3>1, <2>1, DataKept
  <2>10. CASE releasesleep(p)
    <3>1. /\ UNCHANGED <<blockno, valid, data, bdisk, content, bdirty, buf>> /\ bpc[p] = "use"
          /\ \A r \in Clients : bpc[r] = "changed" => bpc'[r] = "changed"
      BY <2>10 DEF releasesleep
    <3> QED  BY <3>1, DataKept
  <2>11. CASE brelse(p)
    <3>1. /\ UNCHANGED <<blockno, valid, data, bdisk, content, bdirty>> /\ bpc[p] = "unref"
          /\ \A r \in Clients \ {p} : bpc'[r] = bpc[r] /\ buf'[r] = buf[r]
      BY <2>11, <2>1 DEF brelse
    <3> QED  BY <3>1, DataKept
  <2>11a. CASE Swap(p)
    <3>1. /\ UNCHANGED <<blockno, valid, data, bdisk, content, bdirty, bpc>> /\ bpc[p] = "use"
          /\ \A r \in Clients \ {p} : buf'[r] = buf[r]
      BY <2>11a, <2>1 DEF Swap
    <3> QED  BY <3>1, DataKept
  <2>12. ASSUME NEW v \in Contents, Modify(p, v) PROVE DInv'
    BY <2>12, ModifyData
  <2> QED  BY <1>3, <2>2, <2>3, <2>4, <2>6, <2>7, <2>8, <2>9, <2>10, <2>11, <2>11a, <2>12 DEF BufStep
<1> QED  BY <1>1, <1>2, <1>3 DEF BcacheNext

\* If no read of the disk fails, whoever uses a buffer uses it alone and holds the
\* contents its block was last given (bread, bio.c:95), although bget recycles
\* buffers and log_write delays writes.
THEOREM ReadersSeeLastContents ==
  ASSUME ~DiskErrors
  PROVE  BcacheSpec => []ReadsLastContents
<1>1. BcacheInit => DInv
  BY DEF BcacheInit, DInv, ValidIsCurrent, UnwrittenIsCached
<1>2. BInv /\ DInv /\ [BcacheNext]_bcacheVars => DInv'
  BY DataStep
<1>3. BInv /\ DInv => ReadsLastContents
  <2> SUFFICES ASSUME BInv, DInv PROVE ReadsLastContents
    OBVIOUS
  <2>1. BcacheTypeOK /\ OneBufferPerBlock /\ UnwrittenIsCached
    BY DEF BInv, DInv, BTypes, OneBuffer, Counted, OneBufferPerBlock
  <2>2. ASSUME NEW p \in Clients, NEW b \in Bufs, Uses(p, b)
        PROVE  /\ \A r \in Users(b) \ {p} : buf[r] = b /\ bpc[r] \in {"lock", "locksleep", "unref"}
               /\ data[b] = content[blockno[b]]
    <3>1. b # 0
      BY SMT DEF Bufs
    <3>2. blockno[b] \in Bnos /\ valid[b] /\ owner[b] = p
      BY <2>2, <3>1 DEF Uses, BInv, Holders, Outers, Holding, Flags
    <3>3. ASSUME NEW r \in Users(b) \ {p}
          PROVE  buf[r] = b /\ bpc[r] \in {"lock", "locksleep", "unref"}
      <4>1. r \in Clients /\ r # p /\ (buf[r] = b \/ outer[r] = b)
        BY DEF Users
      <4>2. outer[r] # b
        BY <4>1, <3>1, <3>2 DEF BInv, Outers
      <4>3. bpc[r] # "idle" /\ bpc[r] \notin Holding /\ bpc[r] \in Places
        BY <4>1, <4>2, <3>1, <3>2 DEF BInv, Holders, BTypes
      <4> QED  BY <4>1, <4>2, <4>3 DEF Places, Holding
    <3> QED  BY <3>2, <3>3 DEF DInv, ValidIsCurrent
  <2> QED  BY <2>1, <2>2 DEF ReadsLastContents
<1> QED  BY <1>1, <1>2, <1>3, BcacheInvariant, PTL DEF BcacheSpec

=============================================================================
