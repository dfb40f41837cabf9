------------------------------- MODULE Console ------------------------------
(***************************************************************************)
(* Console input (console.c): the line discipline run by the keyboard      *)
(* interrupt, the readers, and the two spinlocks cons.lock and ptable.lock *)
(* as the console and its printing callers in proc.c take them.            *)
(*                                                                         *)
(* input.r, input.w and input.e are uints: they wrap at UINT.  The console *)
(* inode's lock is not held in consoleread and is left out.  IRQ_KBD and   *)
(* IRQ_COM1 go to processor 0, so there is one interrupt handler.          *)
(***************************************************************************)
EXTENDS Integers, Sequences

CONSTANTS
  Readers,      \* processes in read()
  Printers,     \* processes in exit() or getps(), which print under ptable.lock
  Kbd, NoActor, \* the interrupt handler; a lock nobody holds
  INPUT_BUF,
  UINT,         \* 2^32
  MaxN,         \* bound: the longest read
  OneCpu        \* a single processor: spinlocks keep interrupts off

ASSUME ConsoleAssumption ==
  /\ Kbd \notin Readers \cup Printers /\ NoActor \notin Readers \cup Printers \cup {Kbd}
  /\ INPUT_BUF \in Nat \ {0}
  /\ UINT \in Nat /\ UINT % INPUT_BUF = 0 /\ UINT > INPUT_BUF
  /\ MaxN \in Nat
  /\ OneCpu \in BOOLEAN

\* The keys: text, newline, ^D, backspace, ^U, ^P.
Text == "a"
NL == "nl"
EOT == "^D"
Keys == {Text, NL, EOT, "bs", "^U", "^P"}

Actors == Readers \cup Printers \cup {Kbd}

VARIABLES
  ibuf, r, w, e,       \* input
  cons, ptable,        \* holders of cons.lock and ptable.lock
  pc, left, got,       \* per actor: position; bytes still to read; any byte read
  killed,
  doprocdump           \* the local of consoleintr

inputVars == <<ibuf, r, w, e>>
vars == <<inputVars, cons, ptable, pc, left, got, killed, doprocdump>>

Init ==
  /\ ibuf = [i \in 0 .. INPUT_BUF-1 |-> Text]
  /\ r = 0 /\ w = 0 /\ e = 0
  /\ cons = NoActor /\ ptable = NoActor
  /\ pc = [a \in Actors |-> "idle"]
  /\ left = [p \in Readers |-> 0]
  /\ got = [p \in Readers |-> FALSE]
  /\ killed = [p \in Readers |-> FALSE]
  /\ doprocdump = FALSE

\* uint arithmetic.
Plus(x, k) == (x + k) % UINT
Minus(x, y) == (x + UINT - y) % UINT

\* acquire() and interrupt gates keep interrupts off: on one processor nobody
\* starts a critical section inside another's.
MayEnter == OneCpu => cons = NoActor /\ ptable = NoActor /\ pc[Kbd] = "idle"

-----------------------------------------------------------------------------
(* consoleintr *)

consoleintr ==
  /\ pc[Kbd] = "idle" /\ cons = NoActor /\ MayEnter
  /\ cons' = Kbd
  /\ pc' = [pc EXCEPT ![Kbd] = "keys"]
  /\ UNCHANGED <<inputVars, ptable, left, got, killed, doprocdump>>

\* Mistaken Erase: back to what has been read instead of what may be read.
EraseFromReaders(c) ==
  /\ pc[Kbd] = "keys" /\ c = "bs" /\ e # r
  /\ e' = Minus(e, 1)
  /\ w' = IF w = e THEN e' ELSE w
  /\ UNCHANGED <<ibuf, r, cons, ptable, pc, left, got, killed, doprocdump>>

\* Backspace, and ^U: back to the start of the line or to what readers may have.
Erase(c) ==
  LET Stops(k) == Minus(e, k) = w \/ ibuf[Minus(e, k + 1) % INPUT_BUF] = NL IN
  /\ pc[Kbd] = "keys"
  /\ \/ c = "bs" /\ e # w /\ e' = Minus(e, 1)
     \/ c = "^U" /\ \E k \in 0 .. INPUT_BUF :
          Stops(k) /\ (\A j \in 0 .. k-1 : ~Stops(j)) /\ e' = Minus(e, k)
  /\ UNCHANGED <<ibuf, r, w, cons, ptable, pc, left, got, killed, doprocdump>>

AskProcdump(c) ==
  /\ pc[Kbd] = "keys" /\ c = "^P"
  /\ doprocdump' = TRUE
  /\ UNCHANGED <<inputVars, cons, ptable, pc, left, got, killed>>

\* Mistaken Store: a full buffer is not handed to the readers.
StoreNoFull(c) ==
  /\ pc[Kbd] = "keys" /\ c \in {Text, NL, EOT}
  /\ Minus(e, r) < INPUT_BUF
  /\ ibuf' = [ibuf EXCEPT ![e % INPUT_BUF] = c]
  /\ e' = Plus(e, 1)
  /\ IF c \in {NL, EOT}
     THEN w' = e' /\ pc' = [pc EXCEPT ![Kbd] = "wakeup"]
     ELSE UNCHANGED <<w, pc>>
  /\ UNCHANGED <<r, cons, ptable, left, got, killed, doprocdump>>

\* A key that is stored; the end of a line, ^D or a full buffer is for readers.
Store(c) ==
  /\ pc[Kbd] = "keys" /\ c \in {Text, NL, EOT}
  /\ Minus(e, r) < INPUT_BUF
  /\ ibuf' = [ibuf EXCEPT ![e % INPUT_BUF] = c]
  /\ e' = Plus(e, 1)
  /\ IF c \in {NL, EOT} \/ e' = Plus(r, INPUT_BUF)
     THEN w' = e' /\ pc' = [pc EXCEPT ![Kbd] = "wakeup"]
     ELSE UNCHANGED <<w, pc>>
  /\ UNCHANGED <<r, cons, ptable, left, got, killed, doprocdump>>

\* Mistaken Wakeup: only one of the sleeping readers is woken.
WakeupOne ==
  /\ pc[Kbd] = "wakeup" /\ ptable = NoActor
  /\ pc' = [a \in Actors |->
              IF a = Kbd THEN "keys"
              ELSE IF pc[a] = "asleep" /\ a = (CHOOSE p \in Readers : TRUE) THEN "woken"
              ELSE pc[a]]
  /\ UNCHANGED <<inputVars, cons, ptable, left, got, killed, doprocdump>>

\* wakeup(&input.r), under cons.lock.
Wakeup ==
  /\ pc[Kbd] = "wakeup" /\ ptable = NoActor
  /\ pc' = [a \in Actors |->
              IF a = Kbd THEN "keys" ELSE IF pc[a] = "asleep" THEN "woken" ELSE pc[a]]
  /\ UNCHANGED <<inputVars, cons, ptable, left, got, killed, doprocdump>>

IntrReturn ==
  /\ pc[Kbd] = "keys"
  /\ cons' = NoActor
  /\ pc' = [pc EXCEPT ![Kbd] = IF doprocdump THEN "procdump" ELSE "idle"]
  /\ UNCHANGED <<inputVars, ptable, left, got, killed, doprocdump>>

\* procdump() reads the table without its lock and prints.
procdump ==
  /\ pc[Kbd] = "procdump" /\ cons = NoActor
  /\ doprocdump' = FALSE
  /\ pc' = [pc EXCEPT ![Kbd] = "idle"]
  /\ UNCHANGED <<inputVars, cons, ptable, left, got, killed>>

-----------------------------------------------------------------------------
(* consoleread *)

consoleread(p, n) ==
  /\ pc[p] = "idle" /\ ~killed[p] /\ cons = NoActor /\ MayEnter
  /\ cons' = p
  /\ pc' = [pc EXCEPT ![p] = "read"]
  /\ left' = [left EXCEPT ![p] = n]
  /\ got' = [got EXCEPT ![p] = FALSE]
  /\ UNCHANGED <<inputVars, ptable, killed, doprocdump>>

Return(p) ==
  /\ cons' = NoActor
  /\ pc' = [pc EXCEPT ![p] = "idle"]

\* No line is complete: -1 if killed, else sleep.
ReadWait(p) ==
  /\ pc[p] = "read" /\ left[p] > 0 /\ r = w
  /\ IF killed[p] THEN Return(p) ELSE pc' = [pc EXCEPT ![p] = "tested"] /\ UNCHANGED cons
  /\ UNCHANGED <<inputVars, ptable, left, got, killed, doprocdump>>

\* sleep() takes ptable.lock before it lets go of cons.lock; kill(), which needs
\* ptable.lock only, may come before it.
sleep(p) ==
  /\ pc[p] = "tested" /\ ptable = NoActor
  /\ cons' = NoActor
  /\ pc' = [pc EXCEPT ![p] = "asleep"]
  /\ UNCHANGED <<inputVars, ptable, left, got, killed, doprocdump>>

\* One byte.  ^D ends the read, and is kept for the next one if bytes came first.
ReadByte(p) ==
  LET c == ibuf[r % INPUT_BUF] IN
  /\ pc[p] = "read" /\ left[p] > 0 /\ r # w
  /\ r' = IF c = EOT /\ got[p] THEN r ELSE Plus(r, 1)
  /\ left' = [left EXCEPT ![p] = IF c = EOT THEN @ ELSE @ - 1]
  /\ got' = [got EXCEPT ![p] = @ \/ c # EOT]
  /\ IF c \in {NL, EOT} THEN Return(p) ELSE UNCHANGED <<cons, pc>>
  /\ UNCHANGED <<ibuf, w, e, ptable, killed, doprocdump>>

ReadDone(p) ==
  /\ pc[p] = "read" /\ left[p] = 0
  /\ Return(p)
  /\ UNCHANGED <<inputVars, ptable, left, got, killed, doprocdump>>

\* sleep() returns with cons.lock taken again.
Resume(p) ==
  /\ pc[p] = "woken" /\ cons = NoActor /\ MayEnter
  /\ cons' = p
  /\ pc' = [pc EXCEPT ![p] = "read"]
  /\ UNCHANGED <<inputVars, ptable, left, got, killed, doprocdump>>

\* Mistaken kill: a sleeping process is not made runnable.
KillNoWake(p) ==
  /\ ~killed[p] /\ ptable = NoActor /\ MayEnter
  /\ killed' = [killed EXCEPT ![p] = TRUE]
  /\ UNCHANGED <<inputVars, cons, ptable, pc, left, got, doprocdump>>

kill(p) ==
  /\ ~killed[p] /\ ptable = NoActor /\ MayEnter
  /\ killed' = [killed EXCEPT ![p] = TRUE]
  /\ pc' = [pc EXCEPT ![p] = IF @ = "asleep" THEN "woken" ELSE @]
  /\ UNCHANGED <<inputVars, cons, ptable, left, got, doprocdump>>

-----------------------------------------------------------------------------
(* exit() and getps(): cprintf under ptable.lock *)

PrinterEnter(p) ==
  /\ pc[p] = "idle" /\ ptable = NoActor /\ MayEnter
  /\ ptable' = p
  /\ pc' = [pc EXCEPT ![p] = "print"]
  /\ UNCHANGED <<inputVars, cons, left, got, killed, doprocdump>>

cprintf(p) ==
  /\ pc[p] = "print" /\ cons = NoActor
  /\ cons' = p
  /\ pc' = [pc EXCEPT ![p] = "printing"]
  /\ UNCHANGED <<inputVars, ptable, left, got, killed, doprocdump>>

\* getps prints a line for each process, exit one.
PrintMore(p) ==
  /\ pc[p] = "printing"
  /\ cons' = NoActor
  /\ pc' = [pc EXCEPT ![p] = "print"]
  /\ UNCHANGED <<inputVars, ptable, left, got, killed, doprocdump>>

PrinterLeave(p) ==
  /\ pc[p] = "printing"
  /\ cons' = NoActor /\ ptable' = NoActor
  /\ pc' = [pc EXCEPT ![p] = "idle"]
  /\ UNCHANGED <<inputVars, left, got, killed, doprocdump>>

-----------------------------------------------------------------------------
Intr ==
  \/ consoleintr \/ Wakeup \/ IntrReturn \/ procdump
  \/ \E c \in Keys : Erase(c) \/ Store(c) \/ AskProcdump(c)

Reading(p) == ReadWait(p) \/ sleep(p) \/ ReadByte(p) \/ ReadDone(p)

Next ==
  \/ Intr
  \/ \E p \in Readers : \/ \E n \in 0 .. MaxN : consoleread(p, n)
                        \/ Reading(p) \/ Resume(p) \/ kill(p)
  \/ \E p \in Printers : PrinterEnter(p) \/ cprintf(p) \/ PrintMore(p) \/ PrinterLeave(p)

Spec == Init /\ [][Next]_vars

\* Kernel code goes on, a spinlock is got in the end, the keyboard runs out of
\* keys, and getps of processes.
Fairness ==
  /\ WF_vars(Wakeup) /\ SF_vars(IntrReturn) /\ WF_vars(procdump)
  /\ \A p \in Readers : WF_vars(Reading(p)) /\ SF_vars(Resume(p))
  /\ \A p \in Printers : WF_vars(cprintf(p)) /\ SF_vars(PrinterLeave(p))

FairSpec == Spec /\ Fairness

-----------------------------------------------------------------------------
(* Properties *)

\* Every variable has its type; the three indices keep their order, read before
\* written before edited, and at most INPUT_BUF apart, across wraparound.
TypeOK ==
  /\ ibuf \in [0 .. INPUT_BUF-1 -> {Text, NL, EOT}]
  /\ r \in 0 .. UINT-1 /\ w \in 0 .. UINT-1 /\ e \in 0 .. UINT-1
  /\ Minus(w, r) <= Minus(e, r) /\ Minus(e, r) <= INPUT_BUF
  /\ cons \in Actors \cup {NoActor} /\ ptable \in Printers \cup {NoActor}
  /\ pc \in [Actors -> {"idle", "keys", "wakeup", "procdump", "read", "tested",
                        "asleep", "woken", "print", "printing"}]
  /\ left \in [Readers -> 0 .. MaxN]
  /\ got \in [Readers -> BOOLEAN] /\ killed \in [Readers -> BOOLEAN]
  /\ doprocdump \in BOOLEAN

\* What readers may have is settled: no key, backspace and ^U included, changes
\* or takes back a byte between input.r and input.w.
CommittedStable ==
  [][\A k \in 0 .. INPUT_BUF-1 :
       k < Minus(w, r) /\ k >= Minus(r', r) =>
         /\ ibuf'[Plus(r, k) % INPUT_BUF] = ibuf[Plus(r, k) % INPUT_BUF]
         /\ k < Minus(r', r) + Minus(w', r')]_vars

\* The bytes from index a up to index b, oldest first.
Input(a, b) == [k \in 1 .. Minus(b, a) |-> ibuf[(a + k - 1) % INPUT_BUF]]

\* What readers may have, and the line being typed.
Lines == INSTANCE LineInput
  WITH Bytes <- {Text, NL, EOT}, Ends <- {NL, EOT}, Capacity <- INPUT_BUF,
       ready <- Input(r, w), line <- Input(w, e)

\* The line discipline keeps what LineInput promises, with readers that take bytes
\* while keys come in, and indices that wrap: only the line being typed can be
\* edited, ^U takes back all of it, a line that ends, at ^D too, is for the readers
\* at once and in order, and so is a buffer without a line's end when it is full
\* (console.c:191-232, console.c:245-265).
LineSpec == Lines!Spec

\* No lost wakeup: a reader sleeps only while there is no byte for it, except
\* until the interrupt that completed a line gets to its wakeup.
ReaderSleepJustified ==
  TypeOK /\ \A p \in Readers : pc[p] = "asleep" /\ r # w => pc[Kbd] = "wakeup"

\* cons.lock and ptable.lock are not waited for in a circle.  consoleintr and
\* consoleread's sleep() take ptable.lock inside cons.lock; exit() and getps()
\* print, and so take cons.lock, inside ptable.lock.  On one processor the
\* disabled interrupts keep the two apart; on two nothing does.
NoLockCycle ==
  ~ /\ cons # NoActor /\ pc[cons] \in {"wakeup", "tested"}
    /\ ptable # NoActor /\ pc[ptable] = "print"

\* On one processor a killed reader is out of consoleread in the end, although
\* no line may ever be typed again.
KilledReaderReturns == \A p \in Readers : killed[p] ~> pc[p] = "idle"
=============================================================================
