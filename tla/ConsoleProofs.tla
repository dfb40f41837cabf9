---------------------------- MODULE ConsoleProofs ---------------------------
(***************************************************************************)
(* What TLAPS proves about the console for any readers and printers, any   *)
(* INPUT_BUF and any width of the indices: no reader misses its wakeup     *)
(* (ReaderSleepJustified), completed input is never changed                *)
(* (CommittedStable), and the line discipline does what LineInput says     *)
(* (LineSpec).                                                             *)
(***************************************************************************)
EXTENDS Console, Counters

KbdPos == {"idle", "keys", "wakeup", "procdump"}
ReaderPos == {"read", "tested", "asleep", "woken"}
PrinterPos == {"print", "printing"}
UnderCons == {"keys", "wakeup", "read", "tested", "printing"}

\* Who is where, and who holds which lock.
Locks ==
  /\ pc[Kbd] \in KbdPos
  /\ \A a \in Readers \cup Printers : pc[a] \in {"idle"} \cup ReaderPos \cup PrinterPos
  /\ \A a \in Actors :
       /\ pc[a] \in UnderCons <=> cons = a
       /\ pc[a] \in PrinterPos <=> ptable = a
       /\ pc[a] \in ReaderPos => a \in Readers

\* A reader about to sleep has no byte, and one asleep has none or is being woken.
Waiting ==
  \A p \in Readers :
    /\ pc[p] = "tested" => r = w
    /\ pc[p] = "asleep" => r = w \/ pc[Kbd] = "wakeup"

\* The inductive invariant.
CInv == TypeOK /\ Locks /\ Waiting

-----------------------------------------------------------------------------
(* The indices *)

\* Leaves are proved by Zenon unless they name another prover.
USE Zenon

\* The sizes as the lemmas of Counters want them.
LEMMA Sizes ==
  /\ UINT \in Nat \ {0} /\ INPUT_BUF \in Nat \ {0} /\ INPUT_BUF \in 0 .. UINT-1
  /\ UINT % INPUT_BUF = 0
BY SMT, ConsoleAssumption

\* uint differences and sums.
LEMMA MinusIs ==
  ASSUME NEW x \in 0 .. UINT-1, NEW y \in 0 .. UINT-1
  PROVE  /\ Minus(x, y) = IF y <= x THEN x - y ELSE x - y + UINT
         /\ Minus(x, y) \in 0 .. UINT-1
<1>1. Minus(x, y) = Dist(UINT, y, x)
  <2>1. x + UINT - y = x - y + UINT
    BY SMT, Sizes
  <2>2. QED
    BY <2>1 DEF Minus, Dist
<1>2. Dist(UINT, y, x) = IF y <= x THEN x - y ELSE x - y + UINT
  BY DistIs, Sizes
<1>3. QED
  BY SMT, <1>1, <1>2, Sizes

\* An index moved ahead by up to UINT wraps around at most once.
LEMMA PlusIs ==
  ASSUME NEW x \in 0 .. UINT-1, NEW k \in 0 .. UINT-1
  PROVE  /\ Plus(x, k) = IF x + k < UINT THEN x + k ELSE x + k - UINT
         /\ Plus(x, k) \in 0 .. UINT-1
<1>1. Plus(x, k) = IF x + k < UINT THEN x + k ELSE x + k - UINT
  <2>1. k \in 0 .. UINT
    BY SMT, Sizes
  <2>2. QED
    BY <2>1, Wrap, Sizes DEF Plus
<1>2. QED
  BY SMT, <1>1, Sizes

\* input.r, input.w and input.e in their order.
Ordered(x, y, z) ==
  /\ x \in 0 .. UINT-1 /\ y \in 0 .. UINT-1 /\ z \in 0 .. UINT-1
  /\ Minus(y, x) <= Minus(z, x) /\ Minus(z, x) <= INPUT_BUF

\* A stored key moves e on, and w with it or not.
LEMMA StoreOrder ==
  ASSUME NEW x, NEW y, NEW z, Ordered(x, y, z), Minus(z, x) < INPUT_BUF
  PROVE  /\ Ordered(x, y, Plus(z, 1)) /\ Ordered(x, Plus(z, 1), Plus(z, 1))
         /\ Minus(Plus(z, 1), x) = Minus(z, x) + 1
<1>0. x \in 0 .. UINT-1 /\ y \in 0 .. UINT-1 /\ z \in 0 .. UINT-1 /\ 1 \in 0 .. UINT-1
  BY SMT, Sizes DEF Ordered
<1> DEFINE z1 == Plus(z, 1)
<1>1. z1 = (IF z + 1 < UINT THEN z + 1 ELSE z + 1 - UINT) /\ z1 \in 0 .. UINT-1
  BY <1>0, PlusIs
<1> HIDE DEF z1
<1>2. Minus(z, x) = IF x <= z THEN z - x ELSE z - x + UINT
  BY <1>0, MinusIs
<1>3. Minus(z1, x) = IF x <= z1 THEN z1 - x ELSE z1 - x + UINT
  BY <1>0, <1>1, MinusIs
<1>4. Minus(z1, x) = Minus(z, x) + 1
  BY SMT, <1>0, <1>1, <1>2, <1>3, Sizes
<1>5. Minus(y, x) \in Int /\ Minus(z, x) \in Int
  BY SMT, <1>0, MinusIs, Sizes
<1>6. Minus(y, x) <= Minus(z1, x) /\ Minus(z1, x) <= INPUT_BUF
  BY SMT, <1>4, <1>5, Sizes DEF Ordered
<1>7. Minus(z1, x) <= Minus(z1, x)
  BY SMT, <1>4, <1>5
<1>8. QED
  BY <1>0, <1>1, <1>4, <1>6, <1>7 DEF Ordered, z1

\* Erasing stops at w at the latest.
LEMMA EraseOrder ==
  ASSUME NEW x, NEW y, NEW z, Ordered(x, y, z), NEW k \in 0 .. Minus(z, y)
  PROVE  Ordered(x, y, Minus(z, k))
<1>0. x \in 0 .. UINT-1 /\ y \in 0 .. UINT-1 /\ z \in 0 .. UINT-1
  BY DEF Ordered
<1>1. /\ Minus(z, y) = IF y <= z THEN z - y ELSE z - y + UINT
      /\ Minus(z, y) \in 0 .. UINT-1
  BY <1>0, MinusIs
<1>2. k \in 0 .. UINT-1
  BY SMT, <1>1, Sizes
<1> DEFINE z1 == Minus(z, k)
<1>3. z1 = (IF k <= z THEN z - k ELSE z - k + UINT) /\ z1 \in 0 .. UINT-1
  BY <1>0, <1>2, MinusIs
<1> HIDE DEF z1
<1>4. /\ Minus(z, x) = IF x <= z THEN z - x ELSE z - x + UINT
      /\ Minus(y, x) = IF x <= y THEN y - x ELSE y - x + UINT
      /\ Minus(z1, x) = IF x <= z1 THEN z1 - x ELSE z1 - x + UINT
  BY <1>0, <1>3, MinusIs
<1>5. Minus(y, x) <= Minus(z1, x) /\ Minus(z1, x) <= INPUT_BUF
  BY SMT, <1>0, <1>1, <1>2, <1>3, <1>4, Sizes DEF Ordered
<1>6. QED
  BY <1>0, <1>3, <1>5 DEF Ordered, z1

\* A byte read moves r towards w.
LEMMA ReadOrder ==
  ASSUME NEW x, NEW y, NEW z, Ordered(x, y, z), x # y
  PROVE  /\ Ordered(Plus(x, 1), y, z)
         /\ Minus(Plus(x, 1), x) = 1 /\ Minus(y, Plus(x, 1)) = Minus(y, x) - 1
<1>0. x \in 0 .. UINT-1 /\ y \in 0 .. UINT-1 /\ z \in 0 .. UINT-1 /\ 1 \in 0 .. UINT-1
  BY SMT, Sizes DEF Ordered
<1> DEFINE x1 == Plus(x, 1)
<1>1. x1 = (IF x + 1 < UINT THEN x + 1 ELSE x + 1 - UINT) /\ x1 \in 0 .. UINT-1
  BY <1>0, PlusIs
<1> HIDE DEF x1
<1>2. /\ Minus(z, x) = IF x <= z THEN z - x ELSE z - x + UINT
      /\ Minus(y, x) = IF x <= y THEN y - x ELSE y - x + UINT
  BY <1>0, MinusIs
<1>3. /\ Minus(z, x1) = IF x1 <= z THEN z - x1 ELSE z - x1 + UINT
      /\ Minus(y, x1) = IF x1 <= y THEN y - x1 ELSE y - x1 + UINT
      /\ Minus(x1, x) = IF x <= x1 THEN x1 - x ELSE x1 - x + UINT
  BY <1>0, <1>1, MinusIs
<1>4. Minus(x1, x) = 1 /\ Minus(y, x1) = Minus(y, x) - 1
  BY SMT, <1>0, <1>1, <1>2, <1>3, Sizes
<1>5. Minus(y, x1) <= Minus(z, x1) /\ Minus(z, x1) <= INPUT_BUF
  BY SMT, <1>0, <1>1, <1>2, <1>3, Sizes DEF Ordered
<1>6. QED
  BY <1>0, <1>1, <1>4, <1>5 DEF Ordered, x1

-----------------------------------------------------------------------------
(* Steps *)

\* Erase takes back at most the bytes that are not for readers yet.
LEMMA EraseBack ==
  ASSUME TypeOK, NEW c \in Keys, Erase(c)
  PROVE  \E k \in 0 .. Minus(e, w) : e' = Minus(e, k)
<1>1. r \in 0 .. UINT-1 /\ w \in 0 .. UINT-1 /\ e \in 0 .. UINT-1
  BY DEF TypeOK
<1>2. /\ Minus(e, w) = (IF w <= e THEN e - w ELSE e - w + UINT)
      /\ Minus(e, w) \in 0 .. UINT-1
  BY <1>1, MinusIs
<1>3. CASE c = "bs"
  <2>1. e # w /\ e' = Minus(e, 1)
    BY <1>3 DEF Erase
  <2>2. 1 \in 0 .. Minus(e, w)
    BY SMT, <1>1, <1>2, <2>1, Sizes
  <2>3. QED
    BY <2>1, <2>2
<1>4. CASE c = "^U"
  <2> DEFINE Stops(k) == Minus(e, k) = w \/ ibuf[Minus(e, k + 1) % INPUT_BUF] = NL
  <2>1. PICK k \in 0 .. INPUT_BUF :
          Stops(k) /\ (\A j \in 0 .. k-1 : ~Stops(j)) /\ e' = Minus(e, k)
    BY <1>4 DEF Erase
  <2>2. Stops(Minus(e, w))
    <3>1. Minus(e, Minus(e, w)) = w
      <4> DEFINE d == Minus(e, w)
      <4>1. d = (IF w <= e THEN e - w ELSE e - w + UINT) /\ d \in 0 .. UINT-1
        BY <1>2
      <4> HIDE DEF d
      <4>2. Minus(e, d) = IF d <= e THEN e - d ELSE e - d + UINT
        BY <1>1, <4>1, MinusIs
      <4>3. Minus(e, d) = w
        BY SMT, <1>1, <4>1, <4>2, Sizes
      <4>4. QED
        BY <4>3 DEF d
    <3>2. QED
      BY <3>1
  <2> HIDE DEF Stops
  <2>3. k <= Minus(e, w)
    <3>1. ~(Minus(e, w) \in 0 .. k-1)
      BY <2>1, <2>2
    <3>2. QED
      BY SMT, <1>2, <3>1, Sizes
  <2>4. k \in 0 .. Minus(e, w)
    BY SMT, <1>2, <2>3, Sizes
  <2>5. QED
    BY <2>1, <2>4
<1>5. QED
  BY <1>3, <1>4 DEF Erase

\* consoleintr takes cons.lock.
LEMMA ConsoleintrStep ==
  ASSUME CInv, consoleintr
  PROVE  CInv'
<1> USE DEF CInv, consoleintr, inputVars
<1>1. TypeOK'
  BY ConsoleAssumption DEF TypeOK, Actors
<1>2. Locks'
  BY ConsoleAssumption DEF TypeOK, Locks, Actors, KbdPos, ReaderPos, PrinterPos, UnderCons
<1>3. Waiting'
  BY DEF TypeOK, Waiting, Actors
<1>4. QED
  BY <1>1, <1>2, <1>3

\* Erase moves e back, to w at the latest.
LEMMA EraseStep ==
  ASSUME CInv, NEW c \in Keys, Erase(c)
  PROVE  CInv'
<1> USE DEF CInv, Erase, inputVars
<1>1. TypeOK'
  <2>1. Ordered(r, w, e)
    BY DEF TypeOK, Ordered
  <2>2. PICK k \in 0 .. Minus(e, w) : e' = Minus(e, k)
    BY EraseBack
  <2>3. Ordered(r, w, e')
    BY <2>1, <2>2, EraseOrder
  <2>4. QED
    BY <2>3 DEF TypeOK, Ordered
<1>2. Locks'
  BY ConsoleAssumption DEF TypeOK, Locks, Actors, KbdPos, ReaderPos, PrinterPos, UnderCons
<1>3. Waiting'
  BY DEF TypeOK, Waiting, Actors
<1>4. QED
  BY <1>1, <1>2, <1>3

\* ^P asks for procdump.
LEMMA AskProcdumpStep ==
  ASSUME CInv, NEW c \in Keys, AskProcdump(c)
  PROVE  CInv'
<1> USE DEF CInv, AskProcdump, inputVars
<1>1. TypeOK'
  BY ConsoleAssumption DEF TypeOK, Actors
<1>2. Locks'
  BY ConsoleAssumption DEF TypeOK, Locks, Actors, KbdPos, ReaderPos, PrinterPos, UnderCons
<1>3. Waiting'
  BY DEF TypeOK, Waiting, Actors
<1>4. QED
  BY <1>1, <1>2, <1>3

\* Store moves e on, and w with it at the end of a line; the handler then wakes.
LEMMA StoreStep ==
  ASSUME CInv, NEW c \in Keys, Store(c)
  PROVE  CInv'
<1> USE DEF CInv, Store, inputVars
<1>1. TypeOK'
  <2>1. Ordered(r, w, e)
    BY DEF TypeOK, Ordered
  <2>2. Ordered(r, w', e')
    BY <2>1, StoreOrder
  <2>3. ibuf' \in [0 .. INPUT_BUF-1 -> {Text, NL, EOT}]
    BY DEF TypeOK
  <2>4. pc' \in [Actors -> {"idle", "keys", "wakeup", "procdump", "read", "tested",
                           "asleep", "woken", "print", "printing"}]
    BY DEF TypeOK
  <2>5. QED
    BY <2>2, <2>3, <2>4 DEF TypeOK, Ordered
<1>2. Locks'
  BY SMT, ConsoleAssumption DEF TypeOK, Locks, Actors, KbdPos, ReaderPos, PrinterPos, UnderCons
<1>3. Waiting'
  <2>1. \A p \in Readers : pc[p] # "tested" /\ p # Kbd
    BY ConsoleAssumption DEF Locks, UnderCons, Actors
  <2>2. \A p \in Readers : pc'[p] = pc[p]
    BY <2>1 DEF TypeOK, Actors
  <2>3. ASSUME NEW p \in Readers, pc[p] = "asleep" PROVE r' = w' \/ pc'[Kbd] = "wakeup"
    BY <2>3 DEF TypeOK, Waiting, Actors
  <2>4. QED
    BY <2>1, <2>2, <2>3 DEF Waiting
<1>4. QED
  BY <1>1, <1>2, <1>3

\* wakeup leaves no reader asleep.
LEMMA WakeupStep ==
  ASSUME CInv, Wakeup
  PROVE  CInv'
<1> USE DEF CInv, Wakeup, inputVars
<1>1. TypeOK'
  BY ConsoleAssumption DEF TypeOK, Actors
<1>2. Locks'
  BY ConsoleAssumption DEF TypeOK, Locks, Actors, KbdPos, ReaderPos, PrinterPos, UnderCons
<1>3. Waiting'
  BY DEF TypeOK, Waiting, Actors
<1>4. QED
  BY <1>1, <1>2, <1>3

\* consoleintr releases cons.lock.
LEMMA IntrReturnStep ==
  ASSUME CInv, IntrReturn
  PROVE  CInv'
<1> USE DEF CInv, IntrReturn, inputVars
<1>1. TypeOK'
  BY ConsoleAssumption DEF TypeOK, Actors
<1>2. Locks'
  BY ConsoleAssumption DEF TypeOK, Locks, Actors, KbdPos, ReaderPos, PrinterPos, UnderCons
<1>3. Waiting'
  BY DEF TypeOK, Waiting, Actors
<1>4. QED
  BY <1>1, <1>2, <1>3

\* procdump prints outside cons.lock.
LEMMA ProcdumpStep ==
  ASSUME CInv, procdump
  PROVE  CInv'
<1> USE DEF CInv, procdump, inputVars
<1>1. TypeOK'
  BY ConsoleAssumption DEF TypeOK, Actors
<1>2. Locks'
  BY ConsoleAssumption DEF TypeOK, Locks, Actors, KbdPos, ReaderPos, PrinterPos, UnderCons
<1>3. Waiting'
  BY DEF TypeOK, Waiting, Actors
<1>4. QED
  BY <1>1, <1>2, <1>3

\* consoleread takes cons.lock.
LEMMA ConsolereadStep ==
  ASSUME CInv, NEW p \in Readers, NEW n \in 0 .. MaxN, consoleread(p, n)
  PROVE  CInv'
<1> USE DEF CInv, consoleread, inputVars
<1>1. TypeOK'
  BY ConsoleAssumption DEF TypeOK, Actors
<1>2. Locks'
  BY ConsoleAssumption DEF TypeOK, Locks, Actors, KbdPos, ReaderPos, PrinterPos, UnderCons
<1>3. Waiting'
  BY DEF TypeOK, Waiting, Actors
<1>4. QED
  BY <1>1, <1>2, <1>3

\* ReadWait: there is no byte, and p holds cons.lock.
LEMMA ReadWaitStep ==
  ASSUME CInv, NEW p \in Readers, ReadWait(p)
  PROVE  CInv'
<1> USE DEF CInv, ReadWait, Return, inputVars
<1>1. TypeOK'
  BY ConsoleAssumption DEF TypeOK, Actors
<1>2. Locks'
  <2>1. CASE killed[p]
    <3>1. /\ cons' = NoActor /\ pc' = [pc EXCEPT ![p] = "idle"]
          /\ ptable' = ptable /\ pc[p] = "read" /\ p # Kbd
      BY <2>1, ConsoleAssumption
    <3>2. cons = p
      BY <3>1 DEF Locks, UnderCons, Actors
    <3> HIDE DEF ReadWait
    <3>3. QED
      BY <3>1, <3>2, ConsoleAssumption
         DEF TypeOK, Locks, Actors, KbdPos, ReaderPos, PrinterPos, UnderCons
  <2>2. CASE ~(killed[p])
    <3>1. /\ cons' = cons /\ pc' = [pc EXCEPT ![p] = "tested"]
          /\ ptable' = ptable /\ pc[p] = "read" /\ p # Kbd
      BY <2>2, ConsoleAssumption
    <3> HIDE DEF ReadWait
    <3>2. QED
      BY <3>1, ConsoleAssumption
         DEF TypeOK, Locks, Actors, KbdPos, ReaderPos, PrinterPos, UnderCons
  <2>3. QED
    BY <2>1, <2>2
<1>3. Waiting'
  BY DEF TypeOK, Waiting, Actors
<1>4. QED
  BY <1>1, <1>2, <1>3

\* sleep releases cons.lock with no byte come.
LEMMA SleepStep ==
  ASSUME CInv, NEW p \in Readers, sleep(p)
  PROVE  CInv'
<1> USE DEF CInv, sleep, inputVars
<1>1. TypeOK'
  BY ConsoleAssumption DEF TypeOK, Actors
<1>2. Locks'
  BY SMT, ConsoleAssumption DEF TypeOK, Locks, Actors, KbdPos, ReaderPos, PrinterPos, UnderCons
<1>3. Waiting'
  BY DEF TypeOK, Waiting, Actors
<1>4. QED
  BY <1>1, <1>2, <1>3

\* ReadByte moves r towards w; nobody sleeps while there is a byte.
LEMMA ReadByteStep ==
  ASSUME CInv, NEW p \in Readers, ReadByte(p)
  PROVE  CInv'
<1> USE DEF CInv, ReadByte, Return, inputVars
<1>1. TypeOK'
  <2>1. Ordered(r, w, e)
    BY DEF TypeOK, Ordered
  <2>2. Ordered(r', w, e)
    BY <2>1, ReadOrder
  <2>3. left' \in [Readers -> 0 .. MaxN]
    <3>1. left[p] \in 0 .. MaxN /\ left[p] - 1 \in 0 .. MaxN
      BY SMT, ConsoleAssumption DEF TypeOK
    <3>2. QED
      BY <3>1 DEF TypeOK
  <2>4. got' \in [Readers -> BOOLEAN]
    BY DEF TypeOK
  <2>5. /\ cons' \in Actors \cup {NoActor}
        /\ pc' \in [Actors -> {"idle", "keys", "wakeup", "procdump", "read", "tested",
                              "asleep", "woken", "print", "printing"}]
    BY DEF TypeOK
  <2>6. QED
    BY <2>2, <2>3, <2>4, <2>5 DEF TypeOK, Ordered
<1>2. Locks'
  <2>1. cons = p
    BY DEF Locks, UnderCons, Actors
  <2>2. \/ cons' = NoActor /\ pc' = [pc EXCEPT ![p] = "idle"]
        \/ UNCHANGED <<cons, pc>>
    OBVIOUS
  <2>3. CASE UNCHANGED <<cons, pc>>
    BY <2>3 DEF Locks
  <2>4. CASE cons' = NoActor /\ pc' = [pc EXCEPT ![p] = "idle"]
    <3> HIDE DEF ReadByte
    <3>1. ptable' = ptable /\ pc[p] = "read" /\ p # Kbd
      BY ConsoleAssumption DEF ReadByte
    <3>2. QED
      BY <2>1, <2>4, <3>1, ConsoleAssumption
         DEF TypeOK, Locks, Actors, KbdPos, ReaderPos, PrinterPos, UnderCons
  <2>5. QED
    BY <2>2, <2>3, <2>4
<1>3. Waiting'
  BY DEF TypeOK, Waiting, Actors
<1>4. QED
  BY <1>1, <1>2, <1>3

\* consoleread returns.
LEMMA ReadDoneStep ==
  ASSUME CInv, NEW p \in Readers, ReadDone(p)
  PROVE  CInv'
<1> USE DEF CInv, ReadDone, Return, inputVars
<1>1. TypeOK'
  BY ConsoleAssumption DEF TypeOK, Actors
<1>2. Locks'
  BY SMT, ConsoleAssumption DEF TypeOK, Locks, Actors, KbdPos, ReaderPos, PrinterPos, UnderCons
<1>3. Waiting'
  BY DEF TypeOK, Waiting, Actors
<1>4. QED
  BY <1>1, <1>2, <1>3

\* sleep's return takes cons.lock again.
LEMMA ResumeStep ==
  ASSUME CInv, NEW p \in Readers, Resume(p)
  PROVE  CInv'
<1> USE DEF CInv, Resume, inputVars
<1>1. TypeOK'
  BY ConsoleAssumption DEF TypeOK, Actors
<1>2. Locks'
  BY ConsoleAssumption DEF TypeOK, Locks, Actors, KbdPos, ReaderPos, PrinterPos, UnderCons
<1>3. Waiting'
  BY DEF TypeOK, Waiting, Actors
<1>4. QED
  BY <1>1, <1>2, <1>3

\* kill wakes a sleeping reader.
LEMMA KillStep ==
  ASSUME CInv, NEW p \in Readers, kill(p)
  PROVE  CInv'
<1> USE DEF CInv, kill, inputVars
<1>1. TypeOK'
  BY ConsoleAssumption DEF TypeOK, Actors
<1>2. Locks'
  BY ConsoleAssumption DEF TypeOK, Locks, Actors, KbdPos, ReaderPos, PrinterPos, UnderCons
<1>3. Waiting'
  BY DEF TypeOK, Waiting, Actors
<1>4. QED
  BY <1>1, <1>2, <1>3

\* exit and getps take ptable.lock.
LEMMA PrinterEnterStep ==
  ASSUME CInv, NEW p \in Printers, PrinterEnter(p)
  PROVE  CInv'
<1> USE DEF CInv, PrinterEnter, inputVars
<1>1. TypeOK'
  BY ConsoleAssumption DEF TypeOK, Actors
<1>2. Locks'
  BY ConsoleAssumption DEF TypeOK, Locks, Actors, KbdPos, ReaderPos, PrinterPos, UnderCons
<1>3. Waiting'
  BY DEF TypeOK, Waiting, Actors
<1>4. QED
  BY <1>1, <1>2, <1>3

\* cprintf takes cons.lock inside ptable.lock.
LEMMA CprintfStep ==
  ASSUME CInv, NEW p \in Printers, cprintf(p)
  PROVE  CInv'
<1> USE DEF CInv, cprintf, inputVars
<1>1. TypeOK'
  BY ConsoleAssumption DEF TypeOK, Actors
<1>2. Locks'
  BY ConsoleAssumption DEF TypeOK, Locks, Actors, KbdPos, ReaderPos, PrinterPos, UnderCons
<1>3. Waiting'
  BY DEF TypeOK, Waiting, Actors
<1>4. QED
  BY <1>1, <1>2, <1>3

\* cprintf returns, and there is more to print.
LEMMA PrintMoreStep ==
  ASSUME CInv, NEW p \in Printers, PrintMore(p)
  PROVE  CInv'
<1> USE DEF CInv, PrintMore, inputVars
<1>1. TypeOK'
  BY ConsoleAssumption DEF TypeOK, Actors
<1>2. Locks'
  BY SMT, ConsoleAssumption DEF TypeOK, Locks, Actors, KbdPos, ReaderPos, PrinterPos, UnderCons
<1>3. Waiting'
  BY DEF TypeOK, Waiting, Actors
<1>4. QED
  BY <1>1, <1>2, <1>3

\* Both locks are released.
LEMMA PrinterLeaveStep ==
  ASSUME CInv, NEW p \in Printers, PrinterLeave(p)
  PROVE  CInv'
<1> USE DEF CInv, PrinterLeave, inputVars
<1>1. TypeOK'
  BY ConsoleAssumption DEF TypeOK, Actors
<1>2. Locks'
  BY SMT, ConsoleAssumption DEF TypeOK, Locks, Actors, KbdPos, ReaderPos, PrinterPos, UnderCons
<1>3. Waiting'
  BY DEF TypeOK, Waiting, Actors
<1>4. QED
  BY <1>1, <1>2, <1>3

-----------------------------------------------------------------------------
(* The invariant *)

\* Every step of the console preserves the invariant.
LEMMA NextStep == CInv /\ [Next]_vars => CInv'
<1> SUFFICES ASSUME CInv, [Next]_vars PROVE CInv'
  OBVIOUS
<1>1. CASE UNCHANGED vars
  BY <1>1 DEF vars, inputVars, CInv, TypeOK, Locks, Waiting
<1>2. CASE Intr
  BY <1>2, ConsoleintrStep, WakeupStep, IntrReturnStep, ProcdumpStep, EraseStep, StoreStep,
     AskProcdumpStep DEF Intr
<1>3. ASSUME NEW p \in Readers, Reading(p) PROVE CInv'
  BY <1>3, ReadWaitStep, SleepStep, ReadByteStep, ReadDoneStep DEF Reading
<1>4. ASSUME NEW p \in Printers,
             PrinterEnter(p) \/ cprintf(p) \/ PrintMore(p) \/ PrinterLeave(p)
      PROVE  CInv'
  BY <1>4, PrinterEnterStep, CprintfStep, PrintMoreStep, PrinterLeaveStep
<1>5. QED
  BY <1>1, <1>2, <1>3, <1>4, ConsolereadStep, ResumeStep, KillStep DEF Next

\* The console starts with its invariant.
LEMMA InitStep == Init => CInv
<1> SUFFICES ASSUME Init PROVE CInv
  OBVIOUS
<1>1. TypeOK
  <2>1. 0 \in 0 .. UINT-1 /\ Minus(0, 0) = 0
    BY SMT, MinusIs, Sizes
  <2>2. Minus(w, r) = 0 /\ Minus(e, r) = 0
    BY <2>1 DEF Init
  <2>3. Minus(w, r) <= Minus(e, r) /\ Minus(e, r) <= INPUT_BUF /\ 0 \in 0 .. MaxN
    BY SMT, <2>2, ConsoleAssumption
  <2>4. QED
    BY <2>1, <2>3 DEF Init, TypeOK
<1>2. Locks
  BY ConsoleAssumption DEF Init, Locks, Actors, KbdPos, ReaderPos, PrinterPos, UnderCons
<1>3. Waiting
  BY DEF Init, Waiting, Actors
<1>4. QED
  BY <1>1, <1>2, <1>3 DEF CInv

\* The console keeps its invariant on any number of processors.
THEOREM ConsoleInvariant == Spec => []CInv
<1>1. Init => CInv
  BY InitStep
<1>2. CInv /\ [Next]_vars => CInv'
  BY NextStep
<1>3. QED
  BY <1>1, <1>2, PTL DEF Spec

\* No lost wakeup in consoleread, and the indices keep their order across the
\* wrap around (console.c:191-232, console.c:245-252).
THEOREM NoReaderForgotten == Spec => []ReaderSleepJustified
<1>1. CInv => ReaderSleepJustified
  BY DEF CInv, Waiting, ReaderSleepJustified
<1>2. QED
  BY <1>1, ConsoleInvariant, PTL

-----------------------------------------------------------------------------
(* Completed input *)

\* The k-th byte that is for the readers is kept, and stays for them.
Kept(k) ==
  k < Minus(w, r) /\ k >= Minus(r', r) =>
    /\ ibuf'[Plus(r, k) % INPUT_BUF] = ibuf[Plus(r, k) % INPUT_BUF]
    /\ k < Minus(r', r) + Minus(w', r')

\* A step that leaves r, w and the bytes alone keeps them all.
LEMMA SameInput ==
  ASSUME TypeOK, UNCHANGED <<ibuf, r, w>>, NEW k \in 0 .. INPUT_BUF-1
  PROVE  Kept(k)
<1>1. Minus(r, r) = 0 /\ Minus(w, r) \in Int
  BY SMT, MinusIs, Sizes DEF TypeOK
<1>2. k < Minus(w, r) => k < Minus(r, r) + Minus(w, r)
  BY SMT, <1>1
<1>3. QED
  BY <1>2 DEF Kept

\* A wrapped index names the same byte as the sum.
LEMMA SameByte ==
  \A a \in 0 .. UINT-1, k \in 0 .. UINT-1 : Plus(a, k) % INPUT_BUF = (a + k) % INPUT_BUF
<1> TAKE a \in 0 .. UINT-1, k \in 0 .. UINT-1
<1>1. Plus(a, k) = IF a + k < UINT THEN a + k ELSE a + k - UINT
  BY PlusIs
<1>2. CASE a + k < UINT
  BY <1>1, <1>2
<1>3. CASE ~(a + k < UINT)
  <2>1. /\ a + k - UINT \in Nat /\ a + k = (a + k - UINT) + UINT
        /\ UINT \in Nat /\ INPUT_BUF \in Nat \ {0} /\ UINT % INPUT_BUF = 0
    BY SMT, <1>3, Sizes
  <2>2. ((a + k - UINT) + UINT) % INPUT_BUF = (a + k - UINT) % INPUT_BUF
    BY <2>1, ModWrap
  <2>3. QED
    BY <1>1, <1>3, <2>1, <2>2
<1>4. QED
  BY <1>2, <1>3

\* Store writes behind what readers may have, and only adds to it.
LEMMA StoreKeeps ==
  ASSUME TypeOK, NEW c \in Keys, Store(c), NEW k \in 0 .. INPUT_BUF-1
  PROVE  Kept(k)
<1> SUFFICES ASSUME k < Minus(w, r)
             PROVE  /\ ibuf'[Plus(r, k) % INPUT_BUF] = ibuf[Plus(r, k) % INPUT_BUF]
                    /\ k < Minus(r, r) + Minus(w', r)
  BY DEF Kept, Store
<1> DEFINE d == Minus(e, r)
<1>1. Ordered(r, w, e) /\ d < INPUT_BUF
  BY DEF TypeOK, Ordered, Store
<1>2. /\ r \in 0 .. UINT-1 /\ w \in 0 .. UINT-1 /\ e \in 0 .. UINT-1
      /\ Minus(w, r) <= d
  BY <1>1 DEF Ordered
<1>3. /\ d = (IF r <= e THEN e - r ELSE e - r + UINT) /\ d \in 0 .. UINT-1
      /\ Minus(w, r) \in 0 .. UINT-1 /\ Minus(r, r) = 0
  BY SMT, <1>2, MinusIs, Sizes
<1>4. w' = w \/ (w' = Plus(e, 1) /\ Minus(Plus(e, 1), r) = d + 1)
  BY <1>1, StoreOrder DEF Store
<1>5. ibuf' = [ibuf EXCEPT ![e % INPUT_BUF] = c] /\ ibuf \in [0 .. INPUT_BUF-1 -> {Text, NL, EOT}]
  BY DEF Store, TypeOK
<1> HIDE DEF d
<1>6. k < Minus(r, r) + Minus(w', r)
  BY SMT, <1>2, <1>3, <1>4, Sizes
<1>7. Plus(r, k) % INPUT_BUF = (r + k) % INPUT_BUF
  <2>1. k \in 0 .. UINT-1
    BY SMT, Sizes
  <2>2. QED
    BY <1>2, <2>1, SameByte
<1>8. e % INPUT_BUF = (r + d) % INPUT_BUF
  <2>1. Plus(r, d) = e
    <3>1. Plus(r, d) = IF r + d < UINT THEN r + d ELSE r + d - UINT
      BY <1>2, <1>3, PlusIs
    <3>2. QED
      BY SMT, <1>2, <1>3, <3>1, Sizes
  <2>2. QED
    BY SMT, <1>2, <1>3, <2>1, SameByte
<1>9. (r + k) % INPUT_BUF # (r + d) % INPUT_BUF
  <2>1. /\ r + k \in Nat /\ r + d \in Nat /\ r + k < r + d /\ r + d < r + k + INPUT_BUF
    BY SMT, <1>1, <1>2, <1>3, Sizes DEF d
  <2>2. QED
    BY <2>1, ModApart, Sizes
<1>10. Plus(r, k) % INPUT_BUF # e % INPUT_BUF
  BY <1>7, <1>8, <1>9
<1>11. ibuf'[Plus(r, k) % INPUT_BUF] = ibuf[Plus(r, k) % INPUT_BUF]
  BY SMT, <1>5, <1>10
<1>12. QED
  BY <1>6, <1>11

\* ReadByte takes the first byte, or none.
LEMMA ReadByteKeeps ==
  ASSUME TypeOK, NEW p \in Readers, ReadByte(p), NEW k \in 0 .. INPUT_BUF-1
  PROVE  Kept(k)
<1>1. Ordered(r, w, e) /\ r # w /\ ibuf' = ibuf /\ w' = w
  BY DEF TypeOK, Ordered, ReadByte
<1>2. CASE r' = r
  BY <1>1, <1>2, SameInput
<1>3. CASE r' = Plus(r, 1)
  <2>1. Minus(r', r) = 1 /\ Minus(w', r') = Minus(w, r) - 1
    BY <1>1, <1>3, ReadOrder
  <2>2. Minus(w, r) \in Int
    BY SMT, <1>1, MinusIs, Sizes DEF Ordered
  <2>3. k < Minus(w, r) => k < Minus(r', r) + Minus(w', r')
    BY SMT, <2>1, <2>2
  <2>4. QED
    BY <1>1, <2>3 DEF Kept
<1>4. QED
  BY <1>2, <1>3 DEF ReadByte

\* No step changes or takes back a byte that is for the readers.
LEMMA NextKeeps ==
  ASSUME CInv, [Next]_vars, NEW k \in 0 .. INPUT_BUF-1
  PROVE  Kept(k)
<1>0. TypeOK
  BY DEF CInv
<1>1. CASE UNCHANGED <<ibuf, r, w>>
  BY <1>0, <1>1, SameInput
<1>2. ASSUME NEW c \in Keys, Store(c) PROVE Kept(k)
  BY <1>0, <1>2, StoreKeeps
<1>3. ASSUME NEW p \in Readers, ReadByte(p) PROVE Kept(k)
  BY <1>0, <1>3, ReadByteKeeps
<1>4. ASSUME NEW c \in Keys, Erase(c) \/ AskProcdump(c) PROVE UNCHANGED <<ibuf, r, w>>
  BY <1>4 DEF Erase, AskProcdump, inputVars
<1>5. CASE consoleintr \/ Wakeup \/ IntrReturn \/ procdump
  BY <1>1, <1>5 DEF consoleintr, Wakeup, IntrReturn, procdump, inputVars
<1>6. ASSUME NEW p \in Readers, ReadWait(p) \/ sleep(p) \/ ReadDone(p) \/ Resume(p) \/ kill(p)
      PROVE  UNCHANGED <<ibuf, r, w>>
  BY <1>6 DEF ReadWait, sleep, ReadDone, Resume, kill, inputVars
<1>7. ASSUME NEW p \in Readers, NEW n \in 0 .. MaxN, consoleread(p, n)
      PROVE  UNCHANGED <<ibuf, r, w>>
  BY <1>7 DEF consoleread, inputVars
<1>8. ASSUME NEW p \in Printers,
             PrinterEnter(p) \/ cprintf(p) \/ PrintMore(p) \/ PrinterLeave(p)
      PROVE  UNCHANGED <<ibuf, r, w>>
  BY <1>8 DEF PrinterEnter, cprintf, PrintMore, PrinterLeave, inputVars
<1>9. CASE UNCHANGED vars
  BY <1>1, <1>9 DEF vars, inputVars
<1>10. QED
  BY <1>1, <1>2, <1>3, <1>4, <1>5, <1>6, <1>7, <1>8, <1>9 DEF Next, Intr, Reading

\* What has been handed to the readers is settled: backspace and ^U stop at
\* input.w, and a full buffer takes no key (console.c:198-228).
THEOREM CommittedInputStable == Spec => CommittedStable
<1>1. CInv /\ [Next]_vars => [\A k \in 0 .. INPUT_BUF-1 : Kept(k)]_vars
  BY NextKeeps
<1>2. QED
  BY <1>1, ConsoleInvariant, PTL DEF Spec, CommittedStable, Kept

-----------------------------------------------------------------------------
(* The line discipline *)

\* The two stretches of the buffer, from r to w and from w to e.
Consecutive(x, y, z) ==
  /\ x \in 0 .. UINT-1 /\ y \in 0 .. UINT-1 /\ z \in 0 .. UINT-1
  /\ Minus(y, x) \in 0 .. INPUT_BUF /\ Minus(z, y) \in 0 .. INPUT_BUF
  /\ Minus(z, x) = Minus(y, x) + Minus(z, y)
  /\ Plus(x, Minus(y, x)) = y /\ Plus(y, Minus(z, y)) = z

\* Ordered indices divide the buffer into the two stretches.
LEMMA Parts ==
  ASSUME NEW x, NEW y, NEW z, Ordered(x, y, z)
  PROVE  Consecutive(x, y, z)
<1>0. x \in 0 .. UINT-1 /\ y \in 0 .. UINT-1 /\ z \in 0 .. UINT-1
  BY DEF Ordered
<1> DEFINE m == Minus(y, x)
<1> DEFINE n == Minus(z, y)
<1> DEFINE h == Minus(z, x)
<1>1. /\ m = (IF x <= y THEN y - x ELSE y - x + UINT) /\ m \in 0 .. UINT-1
      /\ n = (IF y <= z THEN z - y ELSE z - y + UINT) /\ n \in 0 .. UINT-1
      /\ h = (IF x <= z THEN z - x ELSE z - x + UINT) /\ h \in 0 .. UINT-1
  BY <1>0, MinusIs
<1>2. m <= h /\ h <= INPUT_BUF
  BY DEF Ordered
<1> HIDE DEF m, n, h
<1>3. h = m + n /\ m \in 0 .. INPUT_BUF /\ n \in 0 .. INPUT_BUF
  BY SMT, <1>0, <1>1, <1>2, Sizes
<1>4. /\ Plus(x, m) = IF x + m < UINT THEN x + m ELSE x + m - UINT
      /\ Plus(y, n) = IF y + n < UINT THEN y + n ELSE y + n - UINT
  BY <1>0, <1>1, PlusIs
<1>5. Plus(x, m) = y /\ Plus(y, n) = z
  BY SMT, <1>0, <1>1, <1>4, Sizes
<1>6. QED
  BY <1>0, <1>3, <1>5 DEF m, n, h, Consecutive

\* Input is a slice of the ring, as long as its two indices are apart.
LEMMA InputSlice ==
  ASSUME NEW a \in 0 .. UINT-1, NEW b \in 0 .. UINT-1,
         ibuf \in [0 .. INPUT_BUF-1 -> {Text, NL, EOT}]
  PROVE  /\ Input(a, b) = Slice(INPUT_BUF, ibuf, a, Minus(b, a))
         /\ Input(a, b) \in Seq({Text, NL, EOT}) /\ Len(Input(a, b)) = Minus(b, a)
         /\ \A i \in 1 .. Minus(b, a) : Input(a, b)[i] = ibuf[(a + i - 1) % INPUT_BUF]
<1>1. a \in Nat /\ Minus(b, a) \in Nat
  <2>1. Minus(b, a) \in 0 .. UINT-1
    BY MinusIs
  <2>2. QED
    BY SMT, <2>1, Sizes
<1>2. \A i \in 0 .. INPUT_BUF-1 : ibuf[i] \in {Text, NL, EOT}
  OBVIOUS
<1>3. IsSlice({Text, NL, EOT}, INPUT_BUF, ibuf, a, Minus(b, a))
  BY <1>1, <1>2, SliceSeq, Sizes
<1>4. Input(a, b) = Slice(INPUT_BUF, ibuf, a, Minus(b, a))
  BY DEF Input, Slice
<1>5. QED
  BY <1>3, <1>4 DEF IsSlice

\* A line of no bytes.
LEMMA NoInput == ASSUME NEW a \in 0 .. UINT-1 PROVE Input(a, a) = <<>>
<1>1. Minus(a, a) = 0
  BY SMT, MinusIs, Sizes
<1>2. QED
  BY SMT, <1>1 DEF Input

\* The line being typed has no end yet.
Open == \A k \in 1 .. Len(Input(w, e)) : Input(w, e)[k] # NL

\* Store adds a byte to the line, and hands it over with all before it when it
\* ends the line or fills the buffer.
LEMMA StoreTypes ==
  ASSUME TypeOK, NEW c \in Keys, Store(c)
  PROVE  Lines!Type(c)
<1> DEFINE m == Minus(w, r)
<1> DEFINE n == Minus(e, w)
<1> DEFINE d == [ibuf EXCEPT ![e % INPUT_BUF] = c]
<1>0. /\ Ordered(r, w, e) /\ Minus(e, r) < INPUT_BUF
      /\ ibuf \in [0 .. INPUT_BUF-1 -> {Text, NL, EOT}] /\ c \in {Text, NL, EOT}
      /\ ibuf' = d /\ e' = Plus(e, 1) /\ r' = r
  BY DEF TypeOK, Ordered, Store
<1>1. /\ r \in 0 .. UINT-1 /\ w \in 0 .. UINT-1 /\ e \in 0 .. UINT-1
      /\ m \in 0 .. INPUT_BUF /\ n \in 0 .. INPUT_BUF /\ Minus(e, r) = m + n
      /\ Plus(r, m) = w /\ Plus(w, n) = e
  <2>1. Consecutive(r, w, e)
    BY <1>0, Parts
  <2>2. QED
    BY <2>1 DEF Consecutive
<1>2. d \in [0 .. INPUT_BUF-1 -> {Text, NL, EOT}]
  BY <1>0
<1>3. /\ Ordered(r, w, e') /\ Ordered(r, e', e') /\ Minus(e', r) = m + n + 1
  BY <1>0, <1>1, StoreOrder
<1>4. Minus(e', w) = n + 1 /\ e' \in 0 .. UINT-1
  <2>1. Minus(e', r) = m + Minus(e', w) /\ Minus(e', w) \in 0 .. INPUT_BUF /\ e' \in 0 .. UINT-1
    <3>1. Consecutive(r, w, e')
      BY <1>3, Parts
    <3>2. QED
      BY <3>1 DEF Consecutive
  <2>2. QED
    BY SMT, <1>1, <1>3, <2>1, Sizes
<1> HIDE DEF m, n
<1>5. /\ m \in 0 .. m+n /\ m + n \in 0 .. INPUT_BUF-1 /\ n \in 0 .. INPUT_BUF-1
      /\ n + 1 \in 0 .. INPUT_BUF
      /\ r \in Nat /\ w \in Nat /\ m \in 0 .. UINT-1 /\ n \in 0 .. UINT-1
      /\ m + n \in 0 .. UINT-1
  BY SMT, <1>0, <1>1, Sizes
<1>6. e % INPUT_BUF = (w + n) % INPUT_BUF /\ e % INPUT_BUF = (r + (m + n)) % INPUT_BUF
  <2>1. e % INPUT_BUF = (w + n) % INPUT_BUF
    BY <1>1, <1>5, SameByte
  <2>2. Plus(r, m + n) = e
    <3>1. Plus(r, m + n) = IF r + (m + n) < UINT THEN r + (m + n) ELSE r + (m + n) - UINT
      BY <1>1, <1>5, PlusIs
    <3>2. m + n = IF r <= e THEN e - r ELSE e - r + UINT
      BY <1>1, MinusIs
    <3>3. QED
      BY SMT, <1>1, <3>1, <3>2, Sizes
  <2>3. QED
    BY <1>1, <1>5, <2>1, <2>2, SameByte
<1>7. DOMAIN ibuf = 0 .. INPUT_BUF-1
  BY <1>0
<1>8. Slice(INPUT_BUF, d, r, m) = Slice(INPUT_BUF, ibuf, r, m)
  <2>1. Is(Slice(INPUT_BUF, [ibuf EXCEPT ![(r + (m + n)) % INPUT_BUF] = c], r, m),
           Slice(INPUT_BUF, ibuf, r, m))
    BY <1>5, <1>7, SliceSame, Sizes
  <2>2. QED
    BY <1>6, <2>1 DEF Is
<1>9. Slice(INPUT_BUF, d, w, n + 1) = Append(Slice(INPUT_BUF, ibuf, w, n), c)
  <2>1. Is(Slice(INPUT_BUF, [ibuf EXCEPT ![(w + n) % INPUT_BUF] = c], w, n + 1),
           Append(Slice(INPUT_BUF, ibuf, w, n), c))
    BY <1>5, <1>7, SliceAppend, Sizes
  <2>2. QED
    BY <1>6, <2>1 DEF Is
<1>10. /\ Input(r, w) = Slice(INPUT_BUF, ibuf, r, m) /\ Len(Input(r, w)) = m
       /\ Input(w, e) = Slice(INPUT_BUF, ibuf, w, n) /\ Len(Input(w, e)) = n
  BY <1>0, <1>1, InputSlice DEF m, n
<1> DEFINE l == Append(Input(w, e), c)
<1>11. Len(l) = n + 1
  <2>1. Input(w, e) \in Seq({Text, NL, EOT})
    BY <1>0, <1>1, InputSlice
  <2>2. QED
    BY SMT, <1>0, <1>10, <2>1
<1> HIDE DEF l, d
<1>12. Len(Input(r, w)) + Len(Input(w, e)) < INPUT_BUF
  BY <1>0, <1>1, <1>10
<1>13. e' = Plus(r, INPUT_BUF) <=> Len(Input(r, w)) + Len(l) = INPUT_BUF
  <2>1. Plus(r, INPUT_BUF) = IF r + INPUT_BUF < UINT THEN r + INPUT_BUF ELSE r + INPUT_BUF - UINT
    BY <1>1, PlusIs, Sizes
  <2>2. m + n + 1 = IF r <= e' THEN e' - r ELSE e' - r + UINT
    BY <1>1, <1>3, <1>4, MinusIs
  <2>3. e' = Plus(r, INPUT_BUF) <=> m + n + 1 = INPUT_BUF
    <3> DEFINE f == e'
    <3> DEFINE q == Plus(r, INPUT_BUF)
    <3>1. /\ f \in 0 .. UINT-1
          /\ q = IF r + INPUT_BUF < UINT THEN r + INPUT_BUF ELSE r + INPUT_BUF - UINT
          /\ m + n + 1 = IF r <= f THEN f - r ELSE f - r + UINT
      BY <1>4, <2>1, <2>2
    <3> HIDE DEF f, q
    <3>2. f = q <=> m + n + 1 = INPUT_BUF
      BY SMT, <1>1, <1>5, <3>1, Sizes
    <3>3. QED
      BY <3>2 DEF f, q
  <2>4. m + (n + 1) = m + n + 1
    BY SMT, <1>5
  <2>5. QED
    BY <1>10, <1>11, <2>3, <2>4
<1>14. CASE c \in {NL, EOT} \/ e' = Plus(r, INPUT_BUF)
  <2>1. w' = e'
    BY <1>14 DEF Store
  <2>2. Slice(INPUT_BUF, d, r, m + (n + 1))
          = Slice(INPUT_BUF, d, r, m) \o Slice(INPUT_BUF, d, w, n + 1)
    <3>1. INPUT_BUF \in 1 .. UINT-1
      BY SMT, Sizes
    <3>2. Is(Slice(INPUT_BUF, d, r, m + (n + 1)),
             Slice(INPUT_BUF, d, r, m) \o Slice(INPUT_BUF, d, (r + m) % UINT, n + 1))
      BY <1>1, <1>5, <3>1, SliceConcat, Sizes
    <3>3. (r + m) % UINT = w
      BY <1>1 DEF Plus
    <3>4. QED
      BY <3>2, <3>3 DEF Is
  <2>3. Input(r, w)' = Slice(INPUT_BUF, d, r, m + (n + 1))
    <3>1. Minus(e', r) = m + (n + 1)
      BY SMT, <1>3, <1>5
    <3>2. Input(r, w)' = [k \in 1 .. Minus(w', r') |-> ibuf'[(r' + k - 1) % INPUT_BUF]]
      BY DEF Input
    <3>3. QED
      BY <1>0, <2>1, <3>1, <3>2 DEF Slice
  <2>4. Input(r, w)' = Input(r, w) \o l
    BY <1>8, <1>9, <1>10, <2>2, <2>3 DEF l
  <2>5. Input(w, e)' = <<>>
    <3>1. Minus(e', e') = 0
      BY SMT, <1>4, MinusIs, Sizes
    <3>2. Input(w, e)' = [k \in 1 .. Minus(e', w') |-> ibuf'[(w' + k - 1) % INPUT_BUF]]
      BY DEF Input
    <3>3. QED
      BY SMT, <2>1, <3>1, <3>2
  <2>6. QED
    BY <1>12, <1>13, <1>14, <2>4, <2>5 DEF Lines!Type, l
<1>15. CASE ~(c \in {NL, EOT} \/ e' = Plus(r, INPUT_BUF))
  <2>1. w' = w
    BY <1>15 DEF Store
  <2>2. Input(r, w)' = Input(r, w)
    <3>1. Input(r, w)' = [k \in 1 .. Minus(w', r') |-> ibuf'[(r' + k - 1) % INPUT_BUF]]
      BY DEF Input
    <3>2. Input(r, w)' = Slice(INPUT_BUF, d, r, m)
      BY <1>0, <2>1, <3>1 DEF Slice, m
    <3>3. QED
      BY <1>8, <1>10, <3>2
  <2>3. Input(w, e)' = l
    <3>1. Input(w, e)' = [k \in 1 .. Minus(e', w') |-> ibuf'[(w' + k - 1) % INPUT_BUF]]
      BY DEF Input
    <3>2. Input(w, e)' = Slice(INPUT_BUF, d, w, n + 1)
      BY <1>0, <1>4, <2>1, <3>1 DEF Slice
    <3>3. QED
      BY <1>9, <1>10, <3>2 DEF l
  <2>4. QED
    BY <1>12, <1>13, <1>15, <2>2, <2>3 DEF Lines!Type, l
<1>16. QED
  BY <1>14, <1>15

\* Backspace takes back the last byte of the line, and ^U, which stops at a line's
\* end, all of it: there is none in it.
LEMMA EraseEdits ==
  ASSUME TypeOK, Open, NEW c \in Keys, Erase(c)
  PROVE  Lines!Backspace \/ Lines!KillLine
<1> DEFINE n == Minus(e, w)
<1>0. /\ Ordered(r, w, e) /\ ibuf \in [0 .. INPUT_BUF-1 -> {Text, NL, EOT}]
      /\ ibuf' = ibuf /\ r' = r /\ w' = w
  BY DEF TypeOK, Ordered, Erase
<1>1. /\ r \in 0 .. UINT-1 /\ w \in 0 .. UINT-1 /\ e \in 0 .. UINT-1
      /\ n \in 0 .. INPUT_BUF /\ n \in 0 .. UINT-1
      /\ n = IF w <= e THEN e - w ELSE e - w + UINT
  <2>1. Consecutive(r, w, e)
    BY <1>0, Parts
  <2>2. QED
    BY <2>1, MinusIs DEF Consecutive
<1>2. Input(r, w)' = Input(r, w)
  BY <1>0 DEF Input
<1>3. /\ Input(w, e) = Slice(INPUT_BUF, ibuf, w, n) /\ Len(Input(w, e)) = n
      /\ Input(w, e) \in Seq({Text, NL, EOT})
      /\ \A i \in 1 .. n : Input(w, e)[i] = ibuf[(w + i - 1) % INPUT_BUF]
  BY <1>0, <1>1, InputSlice
<1>4. Input(w, e)' = Slice(INPUT_BUF, ibuf, w, Minus(e', w))
  <2>1. Input(w, e)' = [k \in 1 .. Minus(e', w') |-> ibuf'[(w' + k - 1) % INPUT_BUF]]
    BY DEF Input
  <2>2. QED
    BY <1>0, <2>1 DEF Slice
<1> HIDE DEF n
<1>5. CASE c = "bs"
  <2>1. e # w /\ e' = Minus(e, 1)
    BY <1>5 DEF Erase
  <2>2. Minus(e', w) = n - 1 /\ n \in Nat \ {0} /\ w \in Nat
    <3> DEFINE f == Minus(e, 1)
    <3>1. f = (IF 1 <= e THEN e - 1 ELSE e - 1 + UINT) /\ f \in 0 .. UINT-1
      <4>1. 1 \in 0 .. UINT-1
        BY SMT, Sizes
      <4>2. QED
        BY <1>1, <4>1, MinusIs
    <3> HIDE DEF f
    <3>2. Minus(f, w) = IF w <= f THEN f - w ELSE f - w + UINT
      BY <1>1, <3>1, MinusIs
    <3>3. Minus(f, w) = n - 1 /\ n \in Nat \ {0} /\ w \in Nat
      BY SMT, <1>1, <2>1, <3>1, <3>2, Sizes
    <3>4. QED
      BY <2>1, <3>3 DEF f
  <2>3. Input(w, e)' = SubSeq(Input(w, e), 1, Len(Input(w, e)) - 1)
    <3>1. Is(Slice(INPUT_BUF, ibuf, w, n - 1), SubSeq(Slice(INPUT_BUF, ibuf, w, n), 1, n - 1))
      BY <2>2, SliceFront, Sizes
    <3>2. QED
      BY <1>3, <1>4, <2>2, <3>1 DEF Is
  <2>4. Input(w, e) # <<>>
    BY SMT, <1>3, <2>2
  <2>5. QED
    BY <1>2, <2>3, <2>4 DEF Lines!Backspace
<1>6. CASE c = "^U"
  <2> DEFINE Stops(k) == Minus(e, k) = w \/ ibuf[Minus(e, k + 1) % INPUT_BUF] = NL
  <2>1. PICK k \in 0 .. INPUT_BUF :
          Stops(k) /\ (\A j \in 0 .. k-1 : ~Stops(j)) /\ e' = Minus(e, k)
    BY <1>6 DEF Erase
  <2>2. Minus(e, n) = w
    <3>1. Minus(e, n) = IF n <= e THEN e - n ELSE e - n + UINT
      BY <1>1, MinusIs
    <3>2. QED
      BY SMT, <1>1, <3>1, Sizes
  <2>3. k <= n
    <3>1. Stops(n)
      BY <2>2
    <3>2. ~(n \in 0 .. k-1)
      BY <2>1, <3>1
    <3>3. QED
      BY SMT, <1>1, <3>2, Sizes
  <2>4. ASSUME k # n PROVE ibuf[Minus(e, k + 1) % INPUT_BUF] # NL
    <3>1. /\ n - k \in 1 .. n /\ k + 1 \in 0 .. UINT-1 /\ n - k - 1 \in 0 .. UINT-1
          /\ w + (n - k) - 1 = w + (n - k - 1)
      BY SMT, <1>1, <2>3, <2>4, Sizes
    <3>2. /\ Minus(e, k + 1) = IF k + 1 <= e THEN e - (k + 1) ELSE e - (k + 1) + UINT
          /\ Plus(w, n - k - 1)
               = IF w + (n - k - 1) < UINT THEN w + (n - k - 1) ELSE w + (n - k - 1) - UINT
      BY <1>1, <3>1, MinusIs, PlusIs
    <3>3. Minus(e, k + 1) = Plus(w, n - k - 1)
      BY SMT, <1>1, <2>3, <3>1, <3>2, Sizes
    <3>4. Plus(w, n - k - 1) % INPUT_BUF = (w + (n - k - 1)) % INPUT_BUF
      BY <1>1, <3>1, SameByte
    <3>5. Input(w, e)[n - k] = ibuf[(w + (n - k) - 1) % INPUT_BUF]
      BY <1>3, <3>1
    <3>6. Input(w, e)[n - k] # NL
      BY <1>3, <3>1 DEF Open
    <3>7. QED
      BY <3>1, <3>3, <3>4, <3>5, <3>6
  <2>5. e' = w
    BY <2>1, <2>2, <2>4
  <2>6. Input(w, e)' = <<>>
    <3>1. Minus(w, w) = 0
      BY SMT, <1>1, MinusIs, Sizes
    <3>2. QED
      BY SMT, <1>4, <2>5, <3>1 DEF Slice
  <2>7. QED
    BY <1>2, <2>6 DEF Lines!KillLine
<1>7. QED
  BY <1>5, <1>6 DEF Erase

\* ReadByte takes the oldest byte, or puts ^D back.
LEMMA ReadByteGets ==
  ASSUME TypeOK, NEW p \in Readers, ReadByte(p)
  PROVE  Lines!Get \/ UNCHANGED <<Input(r, w), Input(w, e)>>
<1> DEFINE m == Minus(w, r)
<1>0. /\ Ordered(r, w, e) /\ r # w /\ ibuf \in [0 .. INPUT_BUF-1 -> {Text, NL, EOT}]
      /\ ibuf' = ibuf /\ w' = w /\ e' = e
  BY DEF TypeOK, Ordered, ReadByte
<1>1. Input(w, e)' = Input(w, e)
  BY <1>0 DEF Input
<1>2. CASE r' = r
  BY <1>0, <1>1, <1>2 DEF Input
<1>3. CASE r' = Plus(r, 1)
  <2>1. /\ r \in 0 .. UINT-1 /\ w \in 0 .. UINT-1 /\ m \in 0 .. INPUT_BUF
        /\ m = IF r <= w THEN w - r ELSE w - r + UINT
    <3>1. Consecutive(r, w, e)
      BY <1>0, Parts
    <3>2. QED
      BY <3>1, MinusIs DEF Consecutive
  <2>2. /\ Input(r, w) = Slice(INPUT_BUF, ibuf, r, m) /\ Len(Input(r, w)) = m
        /\ Input(r, w) \in Seq({Text, NL, EOT})
    BY <1>0, <2>1, InputSlice
  <2>3. Minus(w, Plus(r, 1)) = m - 1
    BY <1>0, ReadOrder
  <2> HIDE DEF m
  <2>4. m \in 1 .. INPUT_BUF
    BY SMT, <1>0, <2>1, Sizes
  <2>5. Input(r, w)' = Slice(INPUT_BUF, ibuf, (r + 1) % UINT, m - 1)
    <3>1. Input(r, w)' = [k \in 1 .. Minus(w', r') |-> ibuf'[(r' + k - 1) % INPUT_BUF]]
      BY DEF Input
    <3>2. QED
      BY <1>0, <1>3, <2>3, <3>1 DEF Slice, Plus
  <2>6. Is(Slice(INPUT_BUF, ibuf, (r + 1) % UINT, m - 1), Tail(Slice(INPUT_BUF, ibuf, r, m)))
    <3>1. INPUT_BUF \in 1 .. UINT-1
      BY SMT, Sizes
    <3>2. QED
      BY <2>1, <2>4, <3>1, SliceTail, Sizes
  <2>7. Input(r, w)' = Tail(Input(r, w))
    BY <2>2, <2>5, <2>6 DEF Is
  <2>8. Input(r, w) # <<>>
    BY SMT, <2>2, <2>4
  <2>9. QED
    BY <1>1, <2>7, <2>8 DEF Lines!Get
<1>4. QED
  BY <1>2, <1>3 DEF ReadByte

\* Every step is a step of the line discipline, or none of it.
LEMMA NextEdits ==
  ASSUME TypeOK, Open, [Next]_vars
  PROVE  Lines!Next \/ UNCHANGED <<Input(r, w), Input(w, e)>>
<1>1. CASE UNCHANGED inputVars
  BY <1>1 DEF inputVars, Input
<1>2. ASSUME NEW c \in Keys, Store(c) PROVE Lines!Next
  <2>1. c \in {Text, NL, EOT} /\ Lines!Type(c)
    BY <1>2, StoreTypes DEF Store
  <2>2. QED
    BY <2>1 DEF Lines!Next
<1>3. ASSUME NEW c \in Keys, Erase(c) PROVE Lines!Next
  BY <1>3, EraseEdits DEF Lines!Next
<1>4. ASSUME NEW p \in Readers, ReadByte(p)
      PROVE  Lines!Next \/ UNCHANGED <<Input(r, w), Input(w, e)>>
  BY <1>4, ReadByteGets DEF Lines!Next
<1>5. CASE consoleintr \/ Wakeup \/ IntrReturn \/ procdump
  BY <1>1, <1>5 DEF consoleintr, Wakeup, IntrReturn, procdump
<1>6. ASSUME NEW p \in Readers, ReadWait(p) \/ sleep(p) \/ ReadDone(p) \/ Resume(p) \/ kill(p)
      PROVE  UNCHANGED inputVars
  BY <1>6 DEF ReadWait, sleep, ReadDone, Resume, kill
<1>7. ASSUME NEW p \in Readers, NEW n \in 0 .. MaxN, consoleread(p, n)
      PROVE  UNCHANGED inputVars
  BY <1>7 DEF consoleread
<1>8. ASSUME NEW p \in Printers,
             PrinterEnter(p) \/ cprintf(p) \/ PrintMore(p) \/ PrinterLeave(p)
      PROVE  UNCHANGED inputVars
  BY <1>8 DEF PrinterEnter, cprintf, PrintMore, PrinterLeave
<1>9. ASSUME NEW c \in Keys, AskProcdump(c) PROVE UNCHANGED inputVars
  BY <1>9 DEF AskProcdump
<1>10. CASE UNCHANGED vars
  BY <1>1, <1>10 DEF vars
<1>11. QED
  BY <1>1, <1>2, <1>3, <1>4, <1>5, <1>6, <1>7, <1>8, <1>9, <1>10 DEF Next, Intr, Reading

\* A line that is edited keeps its end out: the key that ends it hands it over.
LEMMA StaysOpen ==
  ASSUME TypeOK, Open, Lines!Next \/ UNCHANGED <<Input(r, w), Input(w, e)>>
  PROVE  Open'
<1> DEFINE l == Input(w, e)
<1> DEFINE l1 == Input(w, e)'
<1>1. l \in Seq({Text, NL, EOT})
  <2>1. w \in 0 .. UINT-1 /\ e \in 0 .. UINT-1 /\ ibuf \in [0 .. INPUT_BUF-1 -> {Text, NL, EOT}]
    BY DEF TypeOK
  <2>2. QED
    BY <2>1, InputSlice
<1>2. \A k \in 1 .. Len(l) : l[k] # NL
  BY DEF Open
<1>3. \/ l1 = l \/ l1 = <<>> \/ (l # <<>> /\ l1 = SubSeq(l, 1, Len(l) - 1))
      \/ \E c \in {Text, NL, EOT} : c # NL /\ l1 = Append(l, c)
  BY DEF Lines!Next, Lines!Backspace, Lines!KillLine, Lines!Get, Lines!Type
<1> HIDE DEF l, l1
<1>4. \A k \in 1 .. Len(l1) : l1[k] # NL
  <2>1. CASE l1 = l
    BY <1>2, <2>1
  <2>2. CASE l1 = <<>>
    BY SMT, <2>2
  <2>3. CASE l # <<>> /\ l1 = SubSeq(l, 1, Len(l) - 1)
    BY SMT, <1>1, <1>2, <2>3
  <2>4. ASSUME NEW c \in {Text, NL, EOT}, c # NL, l1 = Append(l, c)
        PROVE  \A k \in 1 .. Len(l1) : l1[k] # NL
    BY SMT, <1>1, <1>2, <2>4
  <2>5. QED
    BY <1>3, <2>1, <2>2, <2>3, <2>4
<1>5. QED
  BY <1>4 DEF Open, l1

\* The console implements LineInput, for readers that take bytes while keys come
\* in and across the wrap around of the indices (console.c:191-232,
\* console.c:245-265).
THEOREM ConsoleIsLineInput == Spec => LineSpec
<1>1. Init => Lines!Init /\ Open
  <2> SUFFICES ASSUME Init PROVE Lines!Init /\ Open
    OBVIOUS
  <2>1. 0 \in 0 .. UINT-1
    BY SMT, Sizes
  <2>2. Input(0, 0) = <<>>
    BY <2>1, NoInput
  <2>3. Input(r, w) = <<>> /\ Input(w, e) = <<>>
    BY <2>2 DEF Init
  <2>4. Open
    BY SMT, <2>3 DEF Open
  <2>5. QED
    BY <2>3, <2>4 DEF Lines!Init
<1>2. CInv /\ Open /\ [Next]_vars => Open'
  BY NextEdits, StaysOpen DEF CInv
<1>3. CInv /\ Open /\ [Next]_vars => [Lines!Next]_<<Input(r, w), Input(w, e)>>
  BY NextEdits DEF CInv
<1>4. QED
  BY <1>1, <1>2, <1>3, ConsoleInvariant, PTL DEF Spec, LineSpec, Lines!Spec
=============================================================================
