--------------------------- MODULE ThreadsProofs ----------------------------
(***************************************************************************)
(* Proofs about Threads for any number of slots, pages, pids and calls,    *)
(* when programs join their threads before they call exit, wait or exec:   *)
(* nobody sleeps past an exit (SleepsOnlyForNothing), and the page         *)
(* directories allocated are those of the processes in use (SpacesExact),  *)
(* until kill makes a process exit that has a thread to join.              *)
(***************************************************************************)
EXTENDS Threads, WellFoundedInduction, TLAPS

\* The states of a process that has not exited, and the places in a call that
\* fills in a slot and in one that waits.
Alive == {"RUN", "SLEEPING"}
Making == {"fork", "clone"}
Blocking == {"wait", "waitx", "join"}
States == {"UNUSED", "EMBRYO", "SLEEPING", "RUN", "ZOMBIE"}

\* init is there, and every other process came after it.
InitThere ==
  /\ state[initproc] \in Alive /\ parent[initproc] = NoProc
  /\ pid[initproc] = 1 /\ nextpid > 1
  /\ \A p \in Slots : pid[p] < nextpid /\ tgid[p] < nextpid
  /\ \A p \in Slots \ {initproc} : state[p] # "UNUSED" => pid[p] > 1

\* fork or clone fills in a slot that no other call fills in, younger than the
\* caller.
OwnEmbryo ==
  \A p \in Slots : state[p] \in Alive /\ tpc[p] \in Making =>
    /\ np[p] \in Slots /\ state[np[p]] = "EMBRYO" /\ pid[p] < pid[np[p]]
    /\ \A r \in Slots \ {p} :
         state[r] \in Alive /\ tpc[r] \in Making => np[r] # np[p]

\* The group of such a slot is new.
NewGroup ==
  \A s \in Slots : state[s] = "EMBRYO" =>
    \A r \in Slots \ {s} : state[r] # "UNUSED" => tgid[r] # tgid[s]

\* Who sleeps is in a call that waits.
SleepInCall == \A p \in Slots : state[p] = "SLEEPING" => tpc[p] \in Blocking

\* A process is younger than its parent.
Younger == \A p \in InUse \ {initproc} : pid[parent[p]] < pid[p]

\* The parent of p uses the same address space.
Thread(p) == parent[p] \in Slots /\ pgdir[parent[p]] = pgdir[p]

\* Of the processes that share an address space only one is not a thread.
OneRoot ==
  \A p, q \in InUse : pgdir[p] = pgdir[q] /\ ~Thread(p) /\ ~Thread(q) => p = q

\* Who is in wait or waitx shares its address space with nobody.
WaitsAlone ==
  \A p, q \in InUse : tpc[p] \in {"wait", "waitx"} /\ pgdir[q] = pgdir[p] => q = p

\* r is a zombie that the call of p would free.
Accepts(p, r) ==
  /\ state[r] = "ZOMBIE"
  /\ tpc[p] = "wait" => parent[r] = p \/ pgdir[r] = pgdir[p]
  /\ tpc[p] = "waitx" => parent[r] = p
  /\ tpc[p] = "join" => parent[r] = p /\ pgdir[r] = pgdir[p] /\ pid[r] = tid[p]

\* No sleeper has been killed or has a zombie to free.
NothingToReap ==
  \A p \in Slots : state[p] = "SLEEPING" => ~killed[p] /\ \A r \in Slots : ~Accepts(p, r)

\* What SpacesExact says of a table in which no thread was left unjoined.
Spaces == ~badfree /\ alloc = {pgdir[p] : p \in InUse} /\ SharedByThreads

\* The invariant of such a table.
TInv ==
  /\ ThreadsTypeOK /\ InitThere /\ OwnEmbryo /\ NewGroup /\ SleepInCall
  /\ ParentAlive /\ Younger /\ OneRoot /\ WaitsAlone /\ NothingToReap
  /\ Spaces

-----------------------------------------------------------------------------
(* Facts about states *)

\* Leaves are proved by Zenon unless they name another prover.
USE Zenon

\* A set of naturals that is not empty has a least element.
LEMMA LeastNat ==
  ASSUME NEW T \in SUBSET Nat, T # {}
  PROVE  \E x \in T : \A y \in T : x <= y
<1> DEFINE R == OpToRel(<, Nat)
<1>1. IsWellFoundedOn(R, Nat)
  BY NatLessThanWellFounded
<1>2. \A x, y \in Nat : y < x => <<y, x>> \in R
  BY DEF OpToRel
<1> HIDE DEF R
<1>3. PICK x \in T : \A y \in T : ~(<<y, x>> \in R)
  BY <1>1, WFMin
<1>4. \A y \in T : x <= y
  <2> SUFFICES ASSUME NEW y \in T, ~(x <= y) PROVE FALSE
    OBVIOUS
  <2>1. x \in Nat /\ y \in Nat /\ y < x
    BY SMT
  <2>2. <<y, x>> \in R
    BY <1>2, <2>1
  <2> QED  BY <1>3, <2>2
<1> QED  BY <1>4

\* What wakeup1 does to each slot.
LEMMA WokenIs ==
  ASSUME NEW st \in [Slots -> States], NEW q \in Slots
  PROVE  /\ Woken(st, q) \in [Slots -> States]
         /\ \A r \in Slots : Woken(st, q)[r] = IF r = q /\ st[r] = "SLEEPING" THEN "RUN" ELSE st[r]
BY DEF Woken, States

\* The zombies that wait, waitx and join find.
LEMMA ZombiesAre ==
  ASSUME NEW p \in Slots, tpc[p] \in Blocking
  PROVE  Zombies(p) = {r \in Slots : Accepts(p, r)}
BY DEF Zombies, Matches, Accepts, Blocking

\* Slot 0 is init's.
LEMMA InitSlot == initproc \in Slots /\ NoProc \notin Slots /\ Slots \subseteq Nat
BY SMT, ThreadsAssumption DEF initproc, Slots, NoProc

\* The address space of a process in use is allocated.
LEMMA Owned ==
  ASSUME TInv, NEW p \in InUse
  PROVE  pgdir[p] \in alloc /\ pgdir[p] \in Pages /\ p \in Slots
BY DEF TInv, Spaces, ThreadsTypeOK, InUse

\* A zombie that is not a thread is the last user of its address space: else the
\* oldest of the others would be a thread of an older one still.
LEMMA LastUser ==
  ASSUME TInv, NEW z \in InUse, state[z] = "ZOMBIE", ~Thread(z),
         NEW u \in InUse, pgdir[u] = pgdir[z]
  PROVE  u = z
<1> SUFFICES ASSUME u # z PROVE FALSE
  OBVIOUS
<1> DEFINE G == {q \in InUse : pgdir[q] = pgdir[z] /\ q # z}
           T == {pid[q] : q \in G}
<1>1. T \in SUBSET Nat /\ T # {}
  <2>1. \A q \in InUse : pid[q] \in Nat
    <3>1. pid \in [Slots -> 0 .. MaxPid] /\ InUse \subseteq Slots
      BY DEF TInv, ThreadsTypeOK, InUse
    <3> QED  BY SMT, <3>1, ThreadsAssumption
  <2>2. u \in G
    OBVIOUS
  <2> QED  BY <2>1, <2>2
<1>2. PICK n \in T : \A m \in T : n <= m
  <2> HIDE DEF T
  <2> QED  BY <1>1, LeastNat
<1>3. PICK q \in G : pid[q] = n
  OBVIOUS
<1>4. Thread(q)
  BY <1>3 DEF TInv, OneRoot
<1>5. q # initproc
  BY <1>4, InitSlot DEF TInv, InitThere, Thread
<1>6. parent[q] \in G /\ pid[parent[q]] < pid[q]
  BY <1>3, <1>4, <1>5 DEF TInv, Thread, ParentAlive, Younger, InUse
<1>7. pid[parent[q]] \in T
  BY <1>6
<1>8. n <= pid[parent[q]] /\ n \in Nat /\ pid[parent[q]] \in Nat
  BY <1>1, <1>2, <1>7
<1> QED  BY SMT, <1>3, <1>6, <1>8

-----------------------------------------------------------------------------
(* Steps that leave the table as it is *)

\* init alone, as userinit leaves it.
LEMMA ThreadsStart == ThreadsInit => TInv
<1> SUFFICES ASSUME ThreadsInit PROVE TInv
  OBVIOUS
<1>1. PICK g \in Pages : /\ pgdir = [p \in Slots |-> IF p = initproc THEN g ELSE NoPage]
                         /\ alloc = {g}
  BY DEF ThreadsInit
<1>2. /\ \A p \in Slots : /\ state[p] = IF p = initproc THEN "RUN" ELSE "UNUSED"
                          /\ pid[p] = IF p = initproc THEN 1 ELSE 0
                          /\ parent[p] = NoProc /\ tpc[p] = "user"
      /\ tgid = pid /\ nextpid = 2 /\ ~badfree
  BY DEF ThreadsInit
<1>3. InUse = {initproc}
  BY <1>2, InitSlot DEF InUse
<1>4. ThreadsTypeOK
  <2>1. 0 \in 0 .. MaxPid /\ 1 \in 0 .. MaxPid /\ 2 \in 1 .. MaxPid+1
    BY SMT, ThreadsAssumption
  <2> QED  BY <1>1, <2>1 DEF ThreadsInit, ThreadsTypeOK
<1>5. InitThere
  BY SMT, <1>2, InitSlot DEF InitThere, Alive
<1>6. OwnEmbryo /\ NewGroup /\ SleepInCall /\ NothingToReap
  BY <1>2 DEF OwnEmbryo, NewGroup, SleepInCall, NothingToReap, Making
<1>7. ParentAlive /\ Younger /\ OneRoot /\ WaitsAlone
  BY <1>3 DEF ParentAlive, Younger, OneRoot, WaitsAlone
<1>8. Spaces
  BY <1>1, <1>2, <1>3, InitSlot DEF Spaces, SharedByThreads
<1> QED  BY <1>4, <1>5, <1>6, <1>7, <1>8 DEF TInv

\* Kernel stacks and a panic do not matter.
LEMMA SameTable ==
  ASSUME TInv, ThreadsTypeOK',
         UNCHANGED <<state, pid, tgid, nextpid, parent, pgdir, alloc, badfree, killed, callVars>>
  PROVE  TInv'
<1>1. UNCHANGED <<tpc, np, tid>> /\ InUse' = InUse
  BY DEF callVars, InUse
<1>2. (InitThere /\ OwnEmbryo /\ NewGroup /\ SleepInCall)'
  BY <1>1 DEF TInv, InitThere, OwnEmbryo, NewGroup, SleepInCall
<1>3. (ParentAlive /\ Younger /\ OneRoot /\ WaitsAlone)'
  BY SMT, <1>1 DEF TInv, ParentAlive, Younger, OneRoot, WaitsAlone, Thread
<1>4. NothingToReap'
  BY <1>1 DEF TInv, NothingToReap, Accepts
<1>5. Spaces'
  BY <1>1 DEF TInv, Spaces, SharedByThreads
<1> QED  BY <1>2, <1>3, <1>4, <1>5 DEF TInv

\* A running process enters wait, waitx or join, or leaves them.
LEMMA CallStep ==
  ASSUME TInv, NEW p \in Slots, state[p] = "RUN",
         NEW k \in {"user", "wait", "waitx", "join"}, NEW n \in 0 .. MaxPid,
         tpc' = [tpc EXCEPT ![p] = k],
         tid' = tid \/ tid' = [tid EXCEPT ![p] = n],
         k \in {"wait", "waitx"} => Sharing(p) = {},
         UNCHANGED <<slotVars, np, memVars, killVars, panic>>
  PROVE  TInv'
<1>1. /\ UNCHANGED <<state, pid, tgid, nextpid, parent, kstack, np, pgdir, alloc, badfree,
                     killed, victims, cut, panic>>
      /\ InUse' = InUse
  BY DEF slotVars, memVars, killVars, InUse
<1>2. ThreadsTypeOK
  BY DEF TInv
<1>3. ThreadsTypeOK'
  <2>1. tpc' \in [Slots -> {"user", "fork", "clone", "wait", "waitx", "join"}]
    BY <1>2 DEF ThreadsTypeOK
  <2>2. tid' \in [Slots -> 0 .. MaxPid]
    BY <1>2 DEF ThreadsTypeOK
  <2> QED  BY <1>1, <1>2, <2>1, <2>2 DEF ThreadsTypeOK
<1>4. \A r \in Slots : tpc'[r] = (IF r = p THEN k ELSE tpc[r]) /\ (r # p => tid'[r] = tid[r])
  BY <1>2 DEF ThreadsTypeOK
<1>5. (InitThere /\ NewGroup)'
  BY <1>1 DEF TInv, InitThere, NewGroup
<1>6. OwnEmbryo'
  BY SMT, <1>1, <1>4 DEF TInv, OwnEmbryo, Making
<1>7. SleepInCall'
  BY <1>1, <1>4 DEF TInv, SleepInCall
<1>8. (ParentAlive /\ Younger /\ OneRoot)'
  BY SMT, <1>1 DEF TInv, ParentAlive, Younger, OneRoot, Thread
<1>9. WaitsAlone'
  <2> SUFFICES ASSUME NEW w \in InUse, NEW q \in InUse, tpc'[w] \in {"wait", "waitx"},
                      pgdir[q] = pgdir[w]
               PROVE  q = w
    BY <1>1 DEF WaitsAlone
  <2>1. CASE w = p
    BY <1>4, <2>1 DEF Sharing, InUse
  <2>2. CASE w # p
    BY <1>4, <2>2 DEF TInv, WaitsAlone, InUse
  <2> QED  BY <2>1, <2>2
<1>10. NothingToReap'
  <2> SUFFICES ASSUME NEW w \in Slots, state[w] = "SLEEPING"
               PROVE  ~killed[w] /\ \A r \in Slots : ~Accepts(w, r)'
    BY <1>1 DEF NothingToReap
  <2>1. \A r \in Slots : Accepts(w, r)' <=> Accepts(w, r)
    BY SMT, <1>1, <1>4 DEF Accepts
  <2> QED  BY <2>1 DEF TInv, NothingToReap
<1>11. Spaces'
  BY SMT, <1>1 DEF TInv, Spaces, SharedByThreads
<1> QED  BY <1>3, <1>5, <1>6, <1>7, <1>8, <1>9, <1>10, <1>11 DEF TInv

\* kill marks a slot and wakes it.
LEMMA KillStep ==
  ASSUME TInv, NEW p \in Slots, NEW n \in 0 .. MaxPid, kill(p, n)
  PROVE  TInv'
<1>1. PICK t \in Slots : killed' = [killed EXCEPT ![t] = TRUE] /\ state' = Woken(state, t)
  BY DEF kill
<1>2. /\ UNCHANGED <<pid, tgid, nextpid, parent, kstack, tpc, np, tid, pgdir, alloc, badfree,
                     cut, panic>>
      /\ victims' = victims \cup {n}
  BY DEF kill, callVars, memVars
<1>3. ThreadsTypeOK
  BY DEF TInv
<1>4. /\ state' \in [Slots -> States]
      /\ \A r \in Slots : state'[r] = IF r = t /\ state[r] = "SLEEPING" THEN "RUN" ELSE state[r]
  <2>1. state \in [Slots -> States]
    BY <1>3 DEF ThreadsTypeOK, States
  <2> QED  BY <1>1, <2>1, WokenIs
<1>5. \A r \in Slots : r # t => killed'[r] = killed[r]
  BY <1>1, <1>3 DEF ThreadsTypeOK
<1>6. InUse' = InUse
  BY <1>4 DEF InUse
<1>7. ThreadsTypeOK'
  BY <1>1, <1>2, <1>3, <1>4 DEF ThreadsTypeOK, States
<1>8. \A r \in Slots : /\ state'[r] \in Alive <=> state[r] \in Alive
                       /\ state'[r] = "UNUSED" <=> state[r] = "UNUSED"
                       /\ state'[r] = "EMBRYO" <=> state[r] = "EMBRYO"
                       /\ state'[r] = "ZOMBIE" <=> state[r] = "ZOMBIE"
                       /\ state'[r] = "SLEEPING" => state[r] = "SLEEPING" /\ r # t
  BY <1>4 DEF Alive
<1>9. InitThere'
  BY <1>2, <1>8, InitSlot DEF TInv, InitThere
<1>10. OwnEmbryo'
  BY <1>2, <1>8 DEF TInv, OwnEmbryo
<1>11. (NewGroup /\ SleepInCall)'
  BY <1>2, <1>8 DEF TInv, NewGroup, SleepInCall
<1>12. ParentAlive'
  BY <1>2, <1>6, <1>8 DEF TInv, ParentAlive, Alive
<1>13. (Younger /\ OneRoot /\ WaitsAlone)'
  BY SMT, <1>2, <1>6 DEF TInv, Younger, OneRoot, WaitsAlone, Thread
<1>14. NothingToReap'
  <2> SUFFICES ASSUME NEW w \in Slots, state'[w] = "SLEEPING"
               PROVE  ~killed'[w] /\ \A r \in Slots : ~Accepts(w, r)'
    BY DEF NothingToReap
  <2>1. \A r \in Slots : Accepts(w, r)' <=> Accepts(w, r)
    BY <1>2, <1>8 DEF Accepts
  <2> QED  BY <1>5, <1>8, <2>1 DEF TInv, NothingToReap
<1>15. Spaces'
  BY <1>2, <1>6 DEF TInv, Spaces, SharedByThreads
<1> QED  BY <1>7, <1>9, <1>10, <1>11, <1>12, <1>13, <1>14, <1>15 DEF TInv

-----------------------------------------------------------------------------
(* fork and clone *)

\* allocproc takes a slot that nobody uses.
LEMMA AllocStep ==
  ASSUME TInv, NEW p \in Slots, NEW k \in Making, allocproc(p, k)
  PROVE  TInv'
<1>1. PICK s \in Slots : /\ state[s] = "UNUSED" /\ state' = [state EXCEPT ![s] = "EMBRYO"]
                         /\ pid' = [pid EXCEPT ![s] = nextpid]
                         /\ tgid' = [tgid EXCEPT ![s] = nextpid]
                         /\ np' = [np EXCEPT ![p] = s]
  BY DEF allocproc
<1>2. /\ UNCHANGED <<parent, kstack, tid, pgdir, alloc, badfree, killed, victims, cut, panic>>
      /\ tpc' = [tpc EXCEPT ![p] = k] /\ nextpid' = nextpid + 1 /\ nextpid <= MaxPid
      /\ state[p] = "RUN" /\ tpc[p] = "user"
  BY DEF allocproc, memVars, killVars, Enters, At
<1>3. ThreadsTypeOK
  BY DEF TInv
<1>4. nextpid \in 1 .. MaxPid /\ nextpid + 1 \in 1 .. MaxPid+1 /\ nextpid \in Nat
  <2>1. nextpid \in 1 .. MaxPid+1
    BY <1>3 DEF ThreadsTypeOK
  <2> QED  BY SMT, <1>2, <2>1, ThreadsAssumption
<1>5. /\ \A r \in Slots : /\ state'[r] = (IF r = s THEN "EMBRYO" ELSE state[r])
                          /\ pid'[r] = (IF r = s THEN nextpid ELSE pid[r])
                          /\ tgid'[r] = (IF r = s THEN nextpid ELSE tgid[r])
                          /\ np'[r] = (IF r = p THEN s ELSE np[r])
                          /\ tpc'[r] = (IF r = p THEN k ELSE tpc[r])
      /\ s # p
  BY <1>1, <1>2, <1>3 DEF ThreadsTypeOK
<1>6. ThreadsTypeOK'
  <2>1. state' \in [Slots -> {"UNUSED", "EMBRYO", "SLEEPING", "RUN", "ZOMBIE"}]
    BY <1>1, <1>3 DEF ThreadsTypeOK
  <2>2. pid' \in [Slots -> 0 .. MaxPid] /\ tgid' \in [Slots -> 0 .. MaxPid]
    <3>1. pid \in [Slots -> 0 .. MaxPid] /\ tgid \in [Slots -> 0 .. MaxPid]
      BY <1>3 DEF ThreadsTypeOK
    <3>2. nextpid \in 0 .. MaxPid
      BY SMT, <1>4, ThreadsAssumption
    <3> QED  BY <1>1, <3>1, <3>2
  <2>3. np' \in [Slots -> Slots \cup {NoProc}]
    BY <1>1, <1>3 DEF ThreadsTypeOK
  <2>4. tpc' \in [Slots -> {"user", "fork", "clone", "wait", "waitx", "join"}]
    BY <1>2, <1>3 DEF ThreadsTypeOK, Making
  <2> QED  BY <1>2, <1>3, <1>4, <2>1, <2>2, <2>3, <2>4 DEF ThreadsTypeOK
<1>7. InUse' = InUse /\ s \notin InUse /\ s # initproc /\ s # p
  BY SMT, <1>1, <1>2, <1>5 DEF InUse, TInv, InitThere, Alive
<1>8. \A r \in Slots : pid[r] \in Nat /\ tgid[r] \in Nat /\ pid[r] < nextpid /\ tgid[r] < nextpid
  <2>1. pid \in [Slots -> 0 .. MaxPid] /\ tgid \in [Slots -> 0 .. MaxPid]
    BY <1>3 DEF ThreadsTypeOK
  <2>2. \A r \in Slots : pid[r] < nextpid /\ tgid[r] < nextpid
    BY DEF TInv, InitThere
  <2> QED  BY SMT, <2>1, <2>2, ThreadsAssumption
<1>9. InitThere'
  <2>1. state'[initproc] \in Alive /\ parent'[initproc] = NoProc /\ pid'[initproc] = 1
    BY <1>2, <1>5, <1>7, InitSlot DEF TInv, InitThere
  <2>2. nextpid > 1
    BY DEF TInv, InitThere
  <2>3. nextpid' > 1 /\ \A r \in Slots : pid'[r] < nextpid' /\ tgid'[r] < nextpid'
    BY SMT, <1>2, <1>4, <1>5, <1>8, <2>2
  <2>4. \A r \in Slots \ {initproc} : state'[r] # "UNUSED" => pid'[r] > 1
    BY <1>5, <2>2 DEF TInv, InitThere
  <2> QED  BY <2>1, <2>3, <2>4 DEF InitThere
<1>10. OwnEmbryo'
  <2> SUFFICES ASSUME NEW w \in Slots, state'[w] \in Alive, tpc'[w] \in Making
               PROVE  /\ np'[w] \in Slots /\ state'[np'[w]] = "EMBRYO" /\ pid'[w] < pid'[np'[w]]
                      /\ \A r \in Slots \ {w} :
                           state'[r] \in Alive /\ tpc'[r] \in Making => np'[r] # np'[w]
    BY DEF OwnEmbryo
  <2>1. \A r \in Slots : state'[r] \in Alive => state[r] \in Alive /\ r # s
    BY <1>5 DEF Alive
  <2>2. \A r \in Slots \ {p} : state'[r] \in Alive /\ tpc'[r] \in Making =>
          np[r] \in Slots /\ state[np[r]] = "EMBRYO" /\ pid[r] < pid[np[r]] /\ np[r] # s
    BY <1>1, <1>5, <2>1 DEF TInv, OwnEmbryo
  <2>3. CASE w = p
    BY <1>5, <1>8, <2>2, <2>3
  <2>4. CASE w # p
    <3>1. \A r \in Slots \ {w} : state[r] \in Alive /\ tpc[r] \in Making => np[r] # np[w]
      BY <1>5, <2>1, <2>4 DEF TInv, OwnEmbryo
    <3> QED  BY SMT, <1>5, <2>1, <2>2, <2>4, <3>1
  <2> QED  BY <2>3, <2>4
<1>11. NewGroup'
  <2> SUFFICES ASSUME NEW e \in Slots, state'[e] = "EMBRYO",
                      NEW r \in Slots \ {e}, state'[r] # "UNUSED"
               PROVE  tgid'[r] # tgid'[e]
    BY DEF NewGroup
  <2>1. CASE e = s
    BY SMT, <1>4, <1>5, <1>8, <2>1
  <2>2. CASE r = s
    BY SMT, <1>4, <1>5, <1>8, <2>2
  <2>3. CASE e # s /\ r # s
    BY SMT, <1>5, <2>3 DEF TInv, NewGroup
  <2> QED  BY <2>1, <2>2, <2>3
<1>12. SleepInCall'
  BY <1>2, <1>5 DEF TInv, SleepInCall
<1>13. ParentAlive'
  BY SMT, <1>1, <1>2, <1>5, <1>7 DEF TInv, ParentAlive
<1>14. Younger'
  BY SMT, <1>1, <1>2, <1>5, <1>7 DEF TInv, Younger, ParentAlive, InUse
<1>15. OneRoot'
  BY SMT, <1>2, <1>7 DEF TInv, OneRoot, Thread
<1>16. WaitsAlone'
  BY SMT, <1>2, <1>5, <1>7 DEF TInv, WaitsAlone, InUse, Making
<1>17. NothingToReap'
  <2> SUFFICES ASSUME NEW w \in Slots, state'[w] = "SLEEPING"
               PROVE  ~killed[w] /\ \A r \in Slots : ~Accepts(w, r)'
    BY <1>2 DEF NothingToReap
  <2>1. state[w] = "SLEEPING" /\ w # p /\ w # s
    BY <1>2, <1>5
  <2>2. \A r \in Slots : Accepts(w, r)' => Accepts(w, r)
    BY SMT, <1>2, <1>5, <2>1 DEF Accepts
  <2> QED  BY <2>1, <2>2 DEF TInv, NothingToReap
<1>18. Spaces'
  BY SMT, <1>2, <1>5, <1>7 DEF TInv, Spaces, SharedByThreads, InUse
<1> QED  BY <1>6, <1>9, <1>10, <1>11, <1>12, <1>13, <1>14, <1>15, <1>16, <1>17, <1>18 DEF TInv

\* A call that fails gives its slot back; pgdir of the slot may be cleared.
LEMMA GiveUpStep ==
  ASSUME TInv, NEW p \in Slots, At(p, "fork") \/ At(p, "clone"), GiveUp(p),
         pgdir' = pgdir \/ pgdir' = [pgdir EXCEPT ![np[p]] = NoPage]
  PROVE  TInv'
<1>0. ThreadsTypeOK
  BY DEF TInv
<1>1. PICK s : s = np[p]
  OBVIOUS
<1>2. /\ s \in Slots /\ state[s] = "EMBRYO" /\ state[p] = "RUN" /\ s # p
      /\ \A r \in Slots \ {p} : state[r] \in Alive /\ tpc[r] \in Making => np[r] # s
  BY <1>1 DEF TInv, OwnEmbryo, At, Making, Alive
<1>3. UNCHANGED <<pid, tgid, nextpid, parent, tid, alloc, badfree, killed, victims, cut>>
  BY DEF GiveUp, killVars
<1>4. \A r \in Slots : /\ state'[r] = (IF r = s THEN "UNUSED" ELSE state[r])
                       /\ tpc'[r] = (IF r = p THEN "user" ELSE tpc[r])
                       /\ r # p => np'[r] = np[r]
                       /\ r # s => pgdir'[r] = pgdir[r]
  BY <1>0, <1>1, <1>2 DEF GiveUp, ThreadsTypeOK
<1>5. ThreadsTypeOK'
  <2>1. state' \in [Slots -> {"UNUSED", "EMBRYO", "SLEEPING", "RUN", "ZOMBIE"}]
    BY <1>0, <1>1, <1>2 DEF GiveUp, ThreadsTypeOK
  <2>2. kstack' \in [Slots -> BOOLEAN] /\ pgdir' \in [Slots -> Pages \cup {NoPage}]
    BY <1>0, <1>1, <1>2 DEF GiveUp, ThreadsTypeOK
  <2>3. np' \in [Slots -> Slots \cup {NoProc}]
    BY <1>0 DEF GiveUp, ThreadsTypeOK
  <2>4. tpc' \in [Slots -> {"user", "fork", "clone", "wait", "waitx", "join"}]
    BY <1>0 DEF GiveUp, ThreadsTypeOK
  <2>5. panic' \in {"none", "init exiting", "no kstack"}
    BY <1>0 DEF GiveUp, ThreadsTypeOK
  <2> QED  BY <1>0, <1>3, <2>1, <2>2, <2>3, <2>4, <2>5 DEF ThreadsTypeOK
<1>6. InUse' = InUse /\ s \notin InUse /\ InUse \subseteq Slots
  BY <1>2, <1>4 DEF InUse
<1>7. InitThere'
  BY <1>2, <1>3, <1>4, InitSlot DEF TInv, InitThere, Alive
<1>8. OwnEmbryo'
  <2>1. \A r \in Slots : state'[r] \in Alive /\ tpc'[r] \in Making =>
          /\ state[r] \in Alive /\ tpc[r] \in Making /\ r # p /\ np'[r] = np[r] /\ np[r] # s
    BY <1>2, <1>4 DEF Alive, Making
  <2> QED  BY SMT, <1>3, <1>4, <2>1 DEF TInv, OwnEmbryo
<1>9. (NewGroup /\ SleepInCall)'
  BY SMT, <1>2, <1>3, <1>4 DEF TInv, NewGroup, SleepInCall
<1>10. \A r \in InUse \ {initproc} : parent[r] \in Slots /\ parent[r] # s
  BY <1>2 DEF TInv, ParentAlive
<1>11. (ParentAlive /\ Younger)'
  BY <1>3, <1>4, <1>6, <1>10 DEF TInv, ParentAlive, Younger
<1>12. \A r \in InUse : Thread(r)' <=> Thread(r)
  <2>1. parent[initproc] = NoProc
    BY DEF TInv, InitThere
  <2> QED  BY <1>3, <1>4, <1>6, <1>10, <2>1, InitSlot DEF Thread
<1>13. OneRoot'
  BY <1>4, <1>6, <1>12 DEF TInv, OneRoot
<1>14. WaitsAlone'
  BY SMT, <1>4, <1>6 DEF TInv, WaitsAlone
<1>15. NothingToReap'
  <2> SUFFICES ASSUME NEW w \in Slots, state'[w] = "SLEEPING"
               PROVE  ~killed[w] /\ \A r \in Slots : ~Accepts(w, r)'
    BY <1>3 DEF NothingToReap
  <2>1. state[w] = "SLEEPING" /\ w # p /\ w # s
    BY <1>2, <1>4
  <2>2. \A r \in Slots : Accepts(w, r)' => Accepts(w, r)
    BY <1>3, <1>4, <2>1 DEF Accepts
  <2> QED  BY <2>1, <2>2 DEF TInv, NothingToReap
<1>16. Spaces'
  BY SMT, <1>3, <1>4, <1>6 DEF TInv, Spaces, SharedByThreads
<1> QED  BY <1>5, <1>7, <1>8, <1>9, <1>11, <1>13, <1>14, <1>15, <1>16 DEF TInv

\* What fork and clone have in common: the slot becomes a child of p.
LEMMA Published ==
  ASSUME TInv, NEW p \in Slots, At(p, "fork") \/ At(p, "clone"),
         NEW g \in Pages, Publish(p, g), NEW s, s = np[p]
  PROVE  /\ s \in Slots /\ state[s] = "EMBRYO" /\ state[p] = "RUN" /\ s # p /\ s # initproc
         /\ UNCHANGED <<pid, nextpid, tid, badfree, killed>>
         /\ \A r \in Slots : /\ state'[r] = (IF r = s THEN "RUN" ELSE state[r])
                             /\ tpc'[r] = (IF r \in {p, s} THEN "user" ELSE tpc[r])
                             /\ parent'[r] = (IF r = s THEN p ELSE parent[r])
                             /\ pgdir'[r] = (IF r = s THEN g ELSE pgdir[r])
         /\ InUse' = InUse \cup {s} /\ s \notin InUse /\ p \in InUse /\ InUse \subseteq Slots
         /\ \A r \in InUse : Thread(r)' <=> Thread(r)
         /\ tgid' \in [Slots -> 0 .. MaxPid] /\ alloc' \subseteq Pages => ThreadsTypeOK'
         /\ OwnEmbryo' /\ SleepInCall' /\ ParentAlive' /\ Younger' /\ NothingToReap'
<1>0. ThreadsTypeOK
  BY DEF TInv
<1>1. /\ s \in Slots /\ state[s] = "EMBRYO" /\ state[p] = "RUN" /\ s # p /\ pid[p] < pid[s]
      /\ \A r \in Slots \ {p} : state[r] \in Alive /\ tpc[r] \in Making => np[r] # s
  BY DEF TInv, OwnEmbryo, At, Making, Alive
<1>2. s # initproc
  BY <1>1 DEF TInv, InitThere, Alive
<1>3. UNCHANGED <<pid, nextpid, kstack, tid, badfree, killed, victims, cut, panic>>
  BY DEF Publish, killVars
<1>4. \A r \in Slots : /\ state'[r] = (IF r = s THEN "RUN" ELSE state[r])
                       /\ tpc'[r] = (IF r \in {p, s} THEN "user" ELSE tpc[r])
                       /\ r # p => np'[r] = np[r]
  BY <1>0, <1>1 DEF Publish, ThreadsTypeOK
<1>5. \A r \in Slots : /\ parent'[r] = (IF r = s THEN p ELSE parent[r])
                       /\ pgdir'[r] = (IF r = s THEN g ELSE pgdir[r])
  BY <1>0, <1>1 DEF Publish, ThreadsTypeOK
<1>6. InUse' = InUse \cup {s} /\ s \notin InUse /\ p \in InUse /\ InUse \subseteq Slots
  BY SMT, <1>1, <1>4 DEF InUse
<1>7. \A r \in InUse \ {initproc} : parent[r] \in Slots /\ parent[r] # s
  BY <1>1 DEF TInv, ParentAlive
<1>8. \A r \in InUse : Thread(r)' <=> Thread(r)
  <2>1. parent[initproc] = NoProc
    BY DEF TInv, InitThere
  <2> QED  BY <1>5, <1>6, <1>7, <2>1, InitSlot DEF Thread
<1>9. ASSUME tgid' \in [Slots -> 0 .. MaxPid], alloc' \subseteq Pages PROVE ThreadsTypeOK'
  <2>1. state' \in [Slots -> {"UNUSED", "EMBRYO", "SLEEPING", "RUN", "ZOMBIE"}]
    BY <1>0, <1>1 DEF Publish, ThreadsTypeOK
  <2>2. pgdir' \in [Slots -> Pages \cup {NoPage}]
    BY <1>0, <1>1 DEF Publish, ThreadsTypeOK
  <2>3. np' \in [Slots -> Slots \cup {NoProc}] /\ parent' \in [Slots -> Slots \cup {NoProc}]
    BY <1>0, <1>1 DEF Publish, ThreadsTypeOK
  <2>4. tpc' \in [Slots -> {"user", "fork", "clone", "wait", "waitx", "join"}]
    BY <1>0, <1>1 DEF Publish, ThreadsTypeOK
  <2> QED  BY <1>0, <1>3, <1>9, <2>1, <2>2, <2>3, <2>4 DEF ThreadsTypeOK
<1>10. OwnEmbryo'
  <2>1. \A r \in Slots : state'[r] \in Alive /\ tpc'[r] \in Making =>
          /\ state[r] \in Alive /\ tpc[r] \in Making /\ r # p /\ np'[r] = np[r] /\ np[r] # s
    BY <1>1, <1>4 DEF Alive, Making
  <2> QED  BY SMT, <1>3, <1>4, <2>1 DEF TInv, OwnEmbryo
<1>11. SleepInCall'
  BY <1>1, <1>4 DEF TInv, SleepInCall
<1>12. ParentAlive'
  BY SMT, <1>1, <1>4, <1>5, <1>6, <1>7 DEF TInv, ParentAlive
<1>13. Younger'
  BY <1>1, <1>3, <1>5, <1>6, <1>7 DEF TInv, Younger
<1>14. NothingToReap'
  <2> SUFFICES ASSUME NEW w \in Slots, state'[w] = "SLEEPING"
               PROVE  ~killed[w] /\ \A r \in Slots : ~Accepts(w, r)'
    BY <1>3 DEF NothingToReap
  <2>1. state[w] = "SLEEPING" /\ w # p /\ w # s
    BY <1>1, <1>4
  <2>2. \A r \in Slots : Accepts(w, r)' => Accepts(w, r)
    BY <1>3, <1>4, <1>5, <2>1 DEF Accepts
  <2> QED  BY <2>1, <2>2 DEF TInv, NothingToReap
<1> QED  BY <1>1, <1>2, <1>3, <1>4, <1>5, <1>6, <1>8, <1>9, <1>10, <1>11, <1>12, <1>13, <1>14

\* fork gives the child an address space of its own.
LEMMA ForkStep ==
  ASSUME TInv, NEW p \in Slots, fork(p)
  PROVE  TInv'
<1>1. PICK g \in Pages \ alloc : Publish(p, g) /\ alloc' = alloc \cup {g}
  BY DEF fork
<1>2. PICK s : s = np[p]
  OBVIOUS
<1>3. At(p, "fork") /\ tgid' = tgid
  BY DEF fork
<1>4. /\ s \in Slots /\ state[s] = "EMBRYO" /\ state[p] = "RUN" /\ s # p /\ s # initproc
      /\ UNCHANGED <<pid, nextpid, tid, badfree, killed>>
      /\ \A r \in Slots : /\ state'[r] = (IF r = s THEN "RUN" ELSE state[r])
                          /\ tpc'[r] = (IF r \in {p, s} THEN "user" ELSE tpc[r])
                          /\ parent'[r] = (IF r = s THEN p ELSE parent[r])
                          /\ pgdir'[r] = (IF r = s THEN g ELSE pgdir[r])
      /\ InUse' = InUse \cup {s} /\ s \notin InUse /\ p \in InUse /\ InUse \subseteq Slots
      /\ \A r \in InUse : Thread(r)' <=> Thread(r)
      /\ tgid' \in [Slots -> 0 .. MaxPid] /\ alloc' \subseteq Pages => ThreadsTypeOK'
      /\ OwnEmbryo' /\ SleepInCall' /\ ParentAlive' /\ Younger' /\ NothingToReap'
  BY SMT, <1>1, <1>2, <1>3, Published
<1>5. \A r \in InUse : pgdir[r] \in alloc /\ pgdir'[r] = pgdir[r] /\ pgdir[r] # g
  BY <1>1, <1>4, Owned
<1>6. ThreadsTypeOK'
  BY <1>1, <1>3, <1>4 DEF TInv, ThreadsTypeOK
<1>7. InitThere'
  BY <1>3, <1>4, InitSlot DEF TInv, InitThere, Alive
<1>8. NewGroup'
  BY <1>3, <1>4 DEF TInv, NewGroup
<1>9. OneRoot'
  BY SMT, <1>4, <1>5 DEF TInv, OneRoot
<1>10. WaitsAlone'
  BY SMT, <1>4, <1>5 DEF TInv, WaitsAlone
<1>11. Spaces'
  <2>1. \A r \in InUse : tgid[r] # tgid[s]
    BY <1>4 DEF TInv, NewGroup, InUse
  <2>2. SharedByThreads'
    BY SMT, <1>3, <1>4, <1>5, <2>1 DEF TInv, Spaces, SharedByThreads
  <2>3. alloc' = {pgdir'[r] : r \in InUse'}
    BY SMT, <1>1, <1>4, <1>5 DEF TInv, Spaces
  <2> QED  BY <1>4, <2>2, <2>3 DEF TInv, Spaces
<1> QED  BY <1>4, <1>6, <1>7, <1>8, <1>9, <1>10, <1>11 DEF TInv

\* clone shares the caller's, and so nobody in wait or waitx has it.
LEMMA CloneStep ==
  ASSUME TInv, NEW p \in Slots, clone(p)
  PROVE  TInv'
<1>1. PICK g : g = pgdir[p]
  OBVIOUS
<1>2. PICK s : s = np[p]
  OBVIOUS
<1>3. /\ At(p, "clone") /\ state[p] = "RUN" /\ tpc[p] = "clone" /\ alloc' = alloc
      /\ tgid' = [tgid EXCEPT ![s] = tgid[p]] /\ Publish(p, g)
  BY <1>1, <1>2 DEF clone, At
<1>4. p \in InUse /\ g \in Pages
  BY <1>1, <1>3, Owned DEF InUse
<1>5. /\ s \in Slots /\ state[s] = "EMBRYO" /\ state[p] = "RUN" /\ s # p /\ s # initproc
      /\ UNCHANGED <<pid, nextpid, tid, badfree, killed>>
      /\ \A r \in Slots : /\ state'[r] = (IF r = s THEN "RUN" ELSE state[r])
                          /\ tpc'[r] = (IF r \in {p, s} THEN "user" ELSE tpc[r])
                          /\ parent'[r] = (IF r = s THEN p ELSE parent[r])
                          /\ pgdir'[r] = (IF r = s THEN g ELSE pgdir[r])
      /\ InUse' = InUse \cup {s} /\ s \notin InUse /\ p \in InUse /\ InUse \subseteq Slots
      /\ \A r \in InUse : Thread(r)' <=> Thread(r)
      /\ tgid' \in [Slots -> 0 .. MaxPid] /\ alloc' \subseteq Pages => ThreadsTypeOK'
      /\ OwnEmbryo' /\ SleepInCall' /\ ParentAlive' /\ Younger' /\ NothingToReap'
  BY SMT, <1>2, <1>3, <1>4, Published
<1>6. \A r \in Slots : tgid'[r] = IF r = s THEN tgid[p] ELSE tgid[r]
  BY <1>3, <1>5 DEF TInv, ThreadsTypeOK
<1>7. ThreadsTypeOK'
  BY <1>3, <1>5 DEF TInv, ThreadsTypeOK
<1>8. InitThere'
  BY <1>5, <1>6, InitSlot DEF TInv, InitThere, Alive
<1>9. NewGroup'
  <2> SUFFICES ASSUME NEW e \in Slots, state'[e] = "EMBRYO",
                      NEW r \in Slots \ {e}, state'[r] # "UNUSED"
               PROVE  tgid'[r] # tgid'[e]
    BY DEF NewGroup
  <2>1. state[e] = "EMBRYO" /\ e # s /\ e # p
    BY <1>3, <1>5
  <2>2. CASE r = s
    BY SMT, <1>3, <1>6, <2>1, <2>2 DEF TInv, NewGroup
  <2>3. CASE r # s
    BY SMT, <1>5, <1>6, <2>1, <2>3 DEF TInv, NewGroup
  <2> QED  BY <2>2, <2>3
<1>10. OneRoot'
  <2>1. Thread(s)'
    BY SMT, <1>1, <1>5 DEF Thread
  <2> QED  BY <1>5, <2>1 DEF TInv, OneRoot
<1>11. WaitsAlone'
  BY SMT, <1>1, <1>3, <1>5 DEF TInv, WaitsAlone
<1>12. Spaces'
  <2>1. SharedByThreads'
    BY SMT, <1>1, <1>5, <1>6 DEF TInv, Spaces, SharedByThreads
  <2>2. alloc' = {pgdir'[r] : r \in InUse'}
    BY SMT, <1>1, <1>3, <1>5 DEF TInv, Spaces
  <2> QED  BY <1>5, <2>1, <2>2 DEF TInv, Spaces
<1> QED  BY <1>5, <1>7, <1>8, <1>9, <1>10, <1>11, <1>12 DEF TInv

-----------------------------------------------------------------------------
(* exec, exit, wait *)

\* exec changes to a fresh address space and frees the old one.
LEMMA ExecStep ==
  ASSUME TInv, Joining, NEW p \in Slots, exec(p)
  PROVE  TInv'
<1>0. ThreadsTypeOK
  BY DEF TInv
<1>1. PICK g \in Pages \ alloc : /\ pgdir' = [pgdir EXCEPT ![p] = g]
                                 /\ alloc' = (alloc \cup {g}) \ {pgdir[p]}
  BY DEF exec
<1>2. /\ UNCHANGED <<state, pid, tgid, nextpid, parent, kstack, tpc, np, tid, killed, victims, cut, panic>>
      /\ state[p] = "RUN" /\ tpc[p] = "user" /\ Sharing(p) = {}
      /\ badfree' = (badfree \/ pgdir[p] \notin alloc)
  BY DEF exec, slotVars, callVars, killVars, Enters, At, Alone
<1>3. InUse' = InUse /\ p \in InUse /\ InUse \subseteq Slots
  BY <1>2 DEF InUse
<1>4. /\ \A r \in Slots : pgdir'[r] = IF r = p THEN g ELSE pgdir[r]
      /\ \A r \in InUse : pgdir[r] \in alloc /\ pgdir[r] # g
      /\ \A r \in InUse \ {p} : pgdir[r] # pgdir[p]
  <2>1. \A r \in Slots : pgdir'[r] = IF r = p THEN g ELSE pgdir[r]
    BY <1>0, <1>1 DEF ThreadsTypeOK
  <2>2. \A r \in InUse : pgdir[r] \in alloc /\ pgdir[r] # g
    BY <1>1, Owned
  <2>3. \A r \in InUse \ {p} : pgdir[r] # pgdir[p]
    BY <1>2 DEF Sharing, InUse
  <2> QED  BY <2>1, <2>2, <2>3
<1>5. ThreadsTypeOK'
  <2>1. pgdir' \in [Slots -> Pages \cup {NoPage}] /\ alloc' \subseteq Pages
    BY <1>0, <1>1 DEF ThreadsTypeOK
  <2>2. badfree' \in BOOLEAN
    BY <1>2
  <2> QED  BY <1>0, <1>2, <2>1, <2>2 DEF ThreadsTypeOK
<1>6. (InitThere /\ OwnEmbryo /\ NewGroup /\ SleepInCall)'
  BY <1>2 DEF TInv, InitThere, OwnEmbryo, NewGroup, SleepInCall
<1>7. (ParentAlive /\ Younger)'
  BY <1>2, <1>3 DEF TInv, ParentAlive, Younger
<1>8. OneRoot'
  <2>1. \A r \in InUse : parent[r] \in Slots => parent[r] \in InUse
    BY InitSlot DEF TInv, ParentAlive, InitThere, InUse
  <2>2. \A r \in InUse \ {p} : Thread(r)' <=> Thread(r)
    BY <1>2, <1>3, <1>4, <2>1 DEF Thread
  <2> QED  BY SMT, <1>3, <1>4, <2>2 DEF TInv, OneRoot
<1>9. WaitsAlone'
  BY SMT, <1>2, <1>3, <1>4 DEF TInv, WaitsAlone
<1>10. NothingToReap'
  <2> SUFFICES ASSUME NEW w \in Slots, state[w] = "SLEEPING"
               PROVE  ~killed[w] /\ \A r \in Slots : ~Accepts(w, r)'
    BY <1>2 DEF NothingToReap
  <2>1. \A r \in Slots : Accepts(w, r)' => Accepts(w, r)
    BY <1>2, <1>4 DEF Accepts
  <2> QED  BY <2>1 DEF TInv, NothingToReap
<1>11. Spaces'
  <2>1. SharedByThreads'
    BY SMT, <1>2, <1>3, <1>4 DEF TInv, Spaces, SharedByThreads
  <2>2. alloc' = {pgdir'[r] : r \in InUse'}
    BY SMT, <1>1, <1>3, <1>4 DEF TInv, Spaces
  <2> QED  BY <1>2, <1>3, <1>4, <2>1, <2>2 DEF TInv, Spaces
<1> QED  BY <1>5, <1>6, <1>7, <1>8, <1>9, <1>10, <1>11 DEF TInv

\* The states after exit: p is a zombie, its parent is awake, and so is init if it
\* inherits a zombie.
LEMMA ExitStates ==
  ASSUME TInv, NEW p \in Slots, exit(p)
  PROVE  /\ state' \in [Slots -> States] /\ state'[p] = "ZOMBIE"
         /\ \A r \in Slots \ {p} :
              state'[r] = state[r] \/ (state[r] = "SLEEPING" /\ state'[r] = "RUN")
         /\ state'[parent[p]] # "SLEEPING"
         /\ (\E r \in Slots : parent[r] = p /\ state[r] = "ZOMBIE") => state'[initproc] # "SLEEPING"
<1> DEFINE orphans == {r \in Slots : parent[r] = p}
           st == Woken(state, parent[p])
           st2 == IF \E r \in orphans : state[r] = "ZOMBIE" THEN Woken(st, initproc) ELSE st
<1>1. state' = [st2 EXCEPT ![p] = "ZOMBIE"] /\ p # initproc /\ state[p] = "RUN"
  BY DEF exit, At
<1>2. state \in [Slots -> States]
  BY DEF TInv, ThreadsTypeOK, States
<1>3. parent[p] \in Slots
  BY <1>1 DEF TInv, ParentAlive, InUse
<1>4. /\ st \in [Slots -> States]
      /\ \A r \in Slots : st[r] = IF r = parent[p] /\ state[r] = "SLEEPING" THEN "RUN" ELSE state[r]
  BY <1>2, <1>3, WokenIs
<1> HIDE DEF st
<1>5. /\ Woken(st, initproc) \in [Slots -> States]
      /\ \A r \in Slots : Woken(st, initproc)[r] = IF r = initproc /\ st[r] = "SLEEPING" THEN "RUN" ELSE st[r]
  BY <1>4, WokenIs, InitSlot
<1>6. /\ st2 \in [Slots -> States]
      /\ \A r \in Slots : st2[r] = state[r] \/ (state[r] = "SLEEPING" /\ st2[r] = "RUN")
      /\ st2[parent[p]] # "SLEEPING"
      /\ (\E r \in orphans : state[r] = "ZOMBIE") => st2[initproc] # "SLEEPING"
  <2>1. CASE \E r \in orphans : state[r] = "ZOMBIE"
    <3>1. st2 = Woken(st, initproc)
      BY <2>1
    <3> HIDE DEF st2, orphans
    <3> QED  BY <1>3, <1>4, <1>5, <3>1, InitSlot
  <2>2. CASE ~\E r \in orphans : state[r] = "ZOMBIE"
    <3>1. st2 = st
      BY <2>2
    <3> HIDE DEF st2, orphans
    <3> QED  BY <1>3, <1>4, <2>2, <3>1
  <2> QED  BY <2>1, <2>2
<1>7. (\E r \in Slots : parent[r] = p /\ state[r] = "ZOMBIE") => \E r \in orphans : state[r] = "ZOMBIE"
  OBVIOUS
<1> HIDE DEF st2, orphans
<1>8. state' \in [Slots -> States] /\ \A r \in Slots : state'[r] = IF r = p THEN "ZOMBIE" ELSE st2[r]
  BY <1>1, <1>6 DEF States
<1> QED  BY <1>1, <1>3, <1>6, <1>7, <1>8, InitSlot

\* exit wakes everybody who could be waiting for it, and no child of the exiting
\* process shares its address space, or a thread is left unjoined.
LEMMA ExitStep ==
  ASSUME TInv, Joining, NEW p \in Slots, exit(p), ~cut'
  PROVE  TInv'
<1>0. ThreadsTypeOK
  BY DEF TInv
<1>1. /\ state[p] = "RUN" /\ tpc[p] = "user" /\ p # initproc
      /\ \A r \in Sharing(p) : parent[r] # p
      /\ cut' = FALSE
      /\ UNCHANGED <<pid, tgid, nextpid, kstack, tpc, np, tid, pgdir, alloc, badfree,
                     killed, victims, panic>>
  BY DEF exit, At, callVars, memVars, Unjoined
<1>2. /\ parent' = [r \in Slots |-> IF parent[r] = p THEN initproc ELSE parent[r]]
      /\ \A r \in Slots : parent'[r] = IF parent[r] = p THEN initproc ELSE parent[r]
  BY DEF exit
<1>3. /\ state' \in [Slots -> States] /\ state'[p] = "ZOMBIE"
      /\ \A r \in Slots \ {p} :
           state'[r] = state[r] \/ (state[r] = "SLEEPING" /\ state'[r] = "RUN")
      /\ state'[parent[p]] # "SLEEPING"
      /\ (\E r \in Slots : parent[r] = p /\ state[r] = "ZOMBIE") => state'[initproc] # "SLEEPING"
  BY ExitStates
<1>4. \A r \in Slots : /\ state'[r] \in Alive <=> state[r] \in Alive /\ r # p
                       /\ state'[r] = "UNUSED" <=> state[r] = "UNUSED"
                       /\ state'[r] = "EMBRYO" <=> state[r] = "EMBRYO"
                       /\ state'[r] = "ZOMBIE" <=> state[r] = "ZOMBIE" \/ r = p
                       /\ state'[r] = "SLEEPING" => state[r] = "SLEEPING"
  BY <1>1, <1>3 DEF Alive
<1>5. InUse' = InUse /\ p \in InUse /\ InUse \subseteq Slots
  BY <1>1, <1>3 DEF InUse
<1>p. parent[p] # p
  <2>1. pid[parent[p]] < pid[p]
    BY <1>1, <1>5 DEF TInv, Younger
  <2>2. pid[p] \in Int
    <3>1. pid \in [Slots -> 0 .. MaxPid]
      BY <1>0 DEF ThreadsTypeOK
    <3> QED  BY SMT, <3>1, ThreadsAssumption
  <2> QED  BY SMT, <2>1, <2>2
<1>6. ThreadsTypeOK'
  <2>1. parent' \in [Slots -> Slots \cup {NoProc}]
    BY <1>0, <1>2, InitSlot DEF ThreadsTypeOK
  <2> QED  BY <1>0, <1>1, <1>3, <2>1 DEF ThreadsTypeOK, States
<1>7. InitThere'
  BY <1>1, <1>2, <1>4, InitSlot DEF TInv, InitThere
<1>8. OwnEmbryo'
  BY <1>1, <1>4 DEF TInv, OwnEmbryo
<1>9. (NewGroup /\ SleepInCall)'
  BY <1>1, <1>4 DEF TInv, NewGroup, SleepInCall
<1>10. ParentAlive'
  <2>1. state'[initproc] \in Alive
    BY <1>1, <1>4, InitSlot DEF TInv, InitThere
  <2> QED  BY <1>2, <1>4, <1>5, <2>1, InitSlot DEF TInv, ParentAlive, Alive
<1>11. Younger'
  <2>1. \A r \in InUse \ {initproc} : pid[initproc] < pid[r]
    BY DEF TInv, InitThere, InUse
  <2> QED  BY <1>1, <1>2, <1>5, <2>1 DEF TInv, Younger
<1>12. OneRoot'
  <2>1. \A r \in InUse : Thread(r) => Thread(r)'
    <3> SUFFICES ASSUME NEW r \in InUse, Thread(r) PROVE Thread(r)'
      OBVIOUS
    <3>1. CASE parent[r] = p /\ r # p
      BY <1>1, <1>5, <3>1 DEF Thread, Sharing, InUse
    <3>2. CASE parent[r] # p
      BY <1>1, <1>2, <1>5, <3>2 DEF Thread
    <3> QED  BY <1>p, <3>1, <3>2
  <2> QED  BY <1>1, <1>5, <2>1 DEF TInv, OneRoot
<1>13. WaitsAlone'
  BY <1>1, <1>5 DEF TInv, WaitsAlone
<1>14. NothingToReap'
  <2> SUFFICES ASSUME NEW w \in Slots, state'[w] = "SLEEPING", NEW r \in Slots, Accepts(w, r)'
               PROVE  FALSE
    BY <1>1, <1>4 DEF TInv, NothingToReap
  <2>1. state[w] = "SLEEPING" /\ w # p /\ w # parent[p] /\ w \in InUse /\ tpc[w] \in Blocking
    BY <1>1, <1>3, <1>4 DEF InUse, TInv, SleepInCall
  <2>2. ~Accepts(w, r)
    BY <2>1 DEF TInv, NothingToReap
  <2>3. CASE r = p
    <3>1. parent'[p] # w
      BY <1>2, <1>p, <2>1
    <3>2. tpc[w] = "wait" /\ pgdir[p] = pgdir[w]
      BY <1>1, <2>1, <2>3, <3>1 DEF Accepts, Blocking
    <3> QED  BY <1>5, <2>1, <3>2 DEF TInv, WaitsAlone
  <2>4. CASE r # p /\ parent[r] = p
    <3>1. state[r] = "ZOMBIE"
      BY <1>4, <2>4 DEF Accepts
    <3>2. w # initproc
      BY <1>3, <2>4, <3>1
    <3>3. tpc[w] = "wait" /\ pgdir[r] = pgdir[w]
      BY <1>1, <1>2, <2>1, <2>4, <3>2 DEF Accepts, Blocking
    <3>4. r \in InUse
      BY <3>1 DEF InUse
    <3> QED  BY <2>1, <3>1, <3>3, <3>4 DEF TInv, WaitsAlone
  <2>5. CASE r # p /\ parent[r] # p
    BY <1>1, <1>2, <1>4, <2>2, <2>5 DEF Accepts
  <2> QED  BY <2>3, <2>4, <2>5
<1>15. Spaces'
  BY SMT, <1>1, <1>5 DEF TInv, Spaces, SharedByThreads
<1> QED  BY <1>6, <1>7, <1>8, <1>9, <1>10, <1>11, <1>12, <1>13, <1>14, <1>15 DEF TInv

\* wait, waitx and join free a zombie.  What wait and waitx find is no thread, and
\* so the last user of its address space; what join finds leaves p in it.
LEMMA ReapStep ==
  ASSUME TInv, NEW p \in Slots, Reap(p)
  PROVE  TInv'
<1>0. ThreadsTypeOK
  BY DEF TInv
<1>1. state[p] = "RUN" /\ tpc[p] \in Blocking /\ p \in InUse
  BY DEF Reap, Waiting, Blocking, InUse
<1>2. PICK z \in Zombies(p) :
        /\ kstack' = [kstack EXCEPT ![z] = FALSE]
        /\ IF tpc[p] = "join" THEN UNCHANGED <<alloc, badfree>> ELSE freevm(pgdir[z])
        /\ pid' = [pid EXCEPT ![z] = 0]
        /\ tgid' = IF tpc[p] = "wait" THEN [tgid EXCEPT ![z] = 0] ELSE tgid
        /\ parent' = [parent EXCEPT ![z] = NoProc]
        /\ killed' = [killed EXCEPT ![z] = FALSE]
        /\ state' = [state EXCEPT ![z] = "UNUSED"]
  BY DEF Reap
<1>3. /\ tpc' = [tpc EXCEPT ![p] = "user"] /\ tid' = [tid EXCEPT ![p] = 0]
      /\ UNCHANGED <<nextpid, pgdir, np, victims, cut, panic>>
  BY DEF Reap
<1>4. z \in Slots /\ Accepts(p, z) /\ state[z] = "ZOMBIE" /\ z # p /\ z \in InUse
  BY <1>1, <1>2, ZombiesAre DEF Accepts, InUse
<1>5. z # initproc
  BY <1>4 DEF TInv, InitThere, Alive
<1>6. \A r \in Slots : /\ state'[r] = (IF r = z THEN "UNUSED" ELSE state[r])
                       /\ pid'[r] = (IF r = z THEN 0 ELSE pid[r])
                       /\ parent'[r] = (IF r = z THEN NoProc ELSE parent[r])
                       /\ killed'[r] = (IF r = z THEN FALSE ELSE killed[r])
  BY <1>0, <1>2, <1>4 DEF ThreadsTypeOK
<1>7. \A r \in Slots : /\ tpc'[r] = (IF r = p THEN "user" ELSE tpc[r])
                       /\ r # p => tid'[r] = tid[r]
                       /\ r # z => tgid'[r] = tgid[r]
                       /\ tgid'[r] = tgid[r] \/ tgid'[r] = 0
  BY <1>0, <1>2, <1>3, <1>4 DEF ThreadsTypeOK
<1>8. InUse' = InUse \ {z} /\ p \in InUse' /\ InUse \subseteq Slots
  BY <1>1, <1>4, <1>6 DEF InUse
<1>9. ThreadsTypeOK'
  <2>0. 0 \in 0 .. MaxPid
    BY SMT, ThreadsAssumption
  <2>1. pid' \in [Slots -> 0 .. MaxPid] /\ tgid' \in [Slots -> 0 .. MaxPid]
    BY <1>0, <1>2, <2>0 DEF ThreadsTypeOK
  <2>2. state' \in [Slots -> {"UNUSED", "EMBRYO", "SLEEPING", "RUN", "ZOMBIE"}]
    BY <1>0, <1>2 DEF ThreadsTypeOK
  <2>3. /\ parent' \in [Slots -> Slots \cup {NoProc}]
        /\ kstack' \in [Slots -> BOOLEAN] /\ killed' \in [Slots -> BOOLEAN]
    BY <1>0, <1>2 DEF ThreadsTypeOK
  <2>4. tpc' \in [Slots -> {"user", "fork", "clone", "wait", "waitx", "join"}]
    BY <1>0, <1>3 DEF ThreadsTypeOK
  <2>5. tid' \in [Slots -> 0 .. MaxPid]
    BY <1>0, <1>3, <2>0 DEF ThreadsTypeOK
  <2>6. alloc' \subseteq Pages /\ badfree' \in BOOLEAN
    BY <1>0, <1>2 DEF ThreadsTypeOK, freevm
  <2> QED  BY <1>0, <1>3, <2>1, <2>2, <2>3, <2>4, <2>5, <2>6 DEF ThreadsTypeOK
<1>10. InitThere'
  <2>1. 0 < nextpid
    <3>1. nextpid \in 1 .. MaxPid+1
      BY <1>0 DEF ThreadsTypeOK
    <3> QED  BY SMT, <3>1, ThreadsAssumption
  <2> QED  BY <1>3, <1>5, <1>6, <1>7, <2>1, InitSlot DEF TInv, InitThere
<1>11. OwnEmbryo'
  <2>1. \A r \in Slots : state'[r] \in Alive /\ tpc'[r] \in Making =>
          state[r] \in Alive /\ tpc[r] \in Making /\ r # p /\ r # z
    BY <1>6, <1>7 DEF Alive, Making
  <2>2. \A r \in Slots : state[r] = "EMBRYO" => r # z
    BY <1>4
  <2> QED  BY <1>3, <1>6, <2>1, <2>2 DEF TInv, OwnEmbryo
<1>12. NewGroup' /\ SleepInCall'
  <2>1. \A r \in Slots : state'[r] # "UNUSED" => r # z /\ state[r] = state'[r] /\ tgid'[r] = tgid[r]
    BY <1>6, <1>7
  <2>2. NewGroup'
    BY <2>1 DEF TInv, NewGroup
  <2>3. SleepInCall'
    BY <1>1, <1>6, <1>7 DEF TInv, SleepInCall
  <2> QED  BY <2>2, <2>3
<1>13. \A r \in InUse \ {initproc} : parent[r] \in Slots /\ parent[r] # z
  BY <1>4 DEF TInv, ParentAlive
<1>14. ParentAlive' /\ Younger'
  <2>1. \A r \in InUse' \ {initproc} : /\ r \in InUse \ {initproc} /\ parent'[r] = parent[r]
                                      /\ parent[r] \in Slots /\ pid'[r] = pid[r]
                                      /\ state'[parent[r]] = state[parent[r]]
                                      /\ pid'[parent[r]] = pid[parent[r]]
    BY <1>6, <1>8, <1>13
  <2> QED  BY <2>1 DEF TInv, ParentAlive, Younger
<1>15. OneRoot'
  <2>1. \A r \in InUse' : r \in InUse /\ (Thread(r)' <=> Thread(r))
    BY <1>3, <1>6, <1>8 DEF Thread
  <2> QED  BY <1>3, <2>1 DEF TInv, OneRoot
<1>16. WaitsAlone'
  BY SMT, <1>3, <1>7, <1>8 DEF TInv, WaitsAlone
<1>17. NothingToReap'
  <2> SUFFICES ASSUME NEW w \in Slots, state'[w] = "SLEEPING"
               PROVE  ~killed'[w] /\ \A r \in Slots : ~Accepts(w, r)'
    BY DEF NothingToReap
  <2>1. state[w] = "SLEEPING" /\ w # p /\ w # z
    BY <1>1, <1>6
  <2>2. \A r \in Slots : Accepts(w, r)' => Accepts(w, r)
    <3> SUFFICES ASSUME NEW r \in Slots, Accepts(w, r)'
                 PROVE  Accepts(w, r)
      OBVIOUS
    <3>1. state'[r] = "ZOMBIE" /\ r # z
      BY <1>6 DEF Accepts
    <3>2. /\ state[r] = "ZOMBIE" /\ parent'[r] = parent[r] /\ pid'[r] = pid[r]
          /\ tpc'[w] = tpc[w] /\ tid'[w] = tid[w] /\ pgdir' = pgdir
      BY <1>3, <1>6, <1>7, <2>1, <3>1
    <3> QED  BY <3>2 DEF Accepts
  <2> QED  BY <1>6, <2>1, <2>2 DEF TInv, NothingToReap
<1>18. Spaces'
  <2>1. SharedByThreads'
    BY SMT, <1>3, <1>7, <1>8 DEF TInv, Spaces, SharedByThreads
  <2>2. CASE tpc[p] = "join"
    <3>1. pgdir[z] = pgdir[p]
      BY <1>4, <2>2 DEF Accepts
    <3>2. alloc' = {pgdir'[r] : r \in InUse'}
      BY <1>2, <1>3, <1>4, <1>8, <2>2, <3>1 DEF TInv, Spaces
    <3> QED  BY <1>2, <2>1, <2>2, <3>2 DEF TInv, Spaces
  <2>3. CASE tpc[p] # "join"
    <3>1. pgdir[z] # pgdir[p]
      BY <1>1, <1>4, <2>3 DEF Blocking, TInv, WaitsAlone
    <3>2. parent[z] = p
      BY <1>1, <1>4, <2>3, <3>1 DEF Accepts, Blocking
    <3>3. ~Thread(z)
      BY <3>1, <3>2 DEF Thread
    <3>4. \A r \in InUse \ {z} : pgdir[r] # pgdir[z]
      BY <1>4, <3>3, LastUser
    <3>5. alloc' = alloc \ {pgdir[z]} /\ badfree' = (badfree \/ pgdir[z] \notin alloc)
      BY <1>2, <2>3 DEF freevm
    <3>6. alloc' = {pgdir'[r] : r \in InUse'}
      BY <1>3, <1>8, <3>4, <3>5 DEF TInv, Spaces
    <3>7. ~badfree'
      BY <1>4, <3>5, Owned DEF TInv, Spaces
    <3> QED  BY <2>1, <3>6, <3>7 DEF Spaces
  <2> QED  BY <2>2, <2>3
<1> QED  BY <1>9, <1>10, <1>11, <1>12, <1>14, <1>15, <1>16, <1>17, <1>18 DEF TInv

\* Who goes to sleep has found nothing, with ptable.lock held since.
LEMMA SleepStep ==
  ASSUME TInv, NEW p \in Slots, WaitSleep(p)
  PROVE  TInv'
<1>0. ThreadsTypeOK
  BY DEF TInv
<1>1. /\ state[p] = "RUN" /\ tpc[p] \in Blocking /\ Zombies(p) = {} /\ ~killed[p]
      /\ UNCHANGED <<pid, tgid, nextpid, parent, kstack, tpc, np, tid, pgdir, alloc, badfree,
                     killed, victims, cut, panic>>
      /\ state' = [state EXCEPT ![p] = "SLEEPING"]
  BY DEF WaitSleep, Waiting, Blocking, callVars, memVars, killVars
<1>2. \A r \in Slots : state'[r] = IF r = p THEN "SLEEPING" ELSE state[r]
  BY <1>0, <1>1 DEF ThreadsTypeOK
<1>3. ThreadsTypeOK'
  BY <1>0, <1>1 DEF ThreadsTypeOK
<1>4. \A r \in Slots : /\ state'[r] \in Alive <=> state[r] \in Alive
                       /\ state'[r] = "UNUSED" <=> state[r] = "UNUSED"
                       /\ state'[r] = "EMBRYO" <=> state[r] = "EMBRYO"
                       /\ state'[r] = "ZOMBIE" <=> state[r] = "ZOMBIE"
                       /\ state'[r] = "SLEEPING" => state[r] = "SLEEPING" \/ r = p
  BY SMT, <1>1, <1>2 DEF Alive
<1>5. InUse' = InUse
  BY <1>1, <1>2 DEF InUse
<1>6. InitThere'
  BY <1>1, <1>4, InitSlot DEF TInv, InitThere
<1>7. OwnEmbryo'
  BY <1>1, <1>4 DEF TInv, OwnEmbryo
<1>8. (NewGroup /\ SleepInCall)'
  BY <1>1, <1>4 DEF TInv, NewGroup, SleepInCall
<1>9. ParentAlive'
  BY <1>1, <1>4, <1>5 DEF TInv, ParentAlive, Alive
<1>10. (Younger /\ OneRoot /\ WaitsAlone)'
  BY SMT, <1>1, <1>5 DEF TInv, Younger, OneRoot, WaitsAlone, Thread
<1>11. NothingToReap'
  <2> SUFFICES ASSUME NEW w \in Slots, state'[w] = "SLEEPING"
               PROVE  ~killed[w] /\ \A r \in Slots : ~Accepts(w, r)'
    BY <1>1 DEF NothingToReap
  <2>1. \A r \in Slots : Accepts(w, r)' <=> Accepts(w, r)
    BY <1>1, <1>4 DEF Accepts
  <2>2. CASE w = p
    BY <1>1, <2>1, <2>2, ZombiesAre
  <2>3. CASE w # p
    BY <1>4, <2>1, <2>3 DEF TInv, NothingToReap
  <2> QED  BY <2>2, <2>3
<1>12. Spaces'
  BY <1>1, <1>5 DEF TInv, Spaces, SharedByThreads
<1> QED  BY <1>3, <1>6, <1>7, <1>8, <1>9, <1>10, <1>11, <1>12 DEF TInv

-----------------------------------------------------------------------------
(* The theorems *)

\* Every step keeps the invariant, unless it leaves a thread unjoined.
LEMMA ThreadsSafeStep ==
  ASSUME Joining, TInv, [ThreadsNext]_threadVars, ~cut'
  PROVE  TInv'
<1>0. ThreadsTypeOK
  BY DEF TInv
<1>1. CASE UNCHANGED threadVars
  <2>1. /\ UNCHANGED <<state, pid, tgid, nextpid, parent, pgdir, alloc, badfree, killed, callVars>>
        /\ UNCHANGED <<tpc, np, tid, kstack, victims, cut, panic>>
    BY <1>1 DEF threadVars, slotVars, callVars, memVars, killVars
  <2>2. ThreadsTypeOK'
    BY <1>0, <2>1 DEF ThreadsTypeOK
  <2> QED  BY <2>1, <2>2, SameTable
<1>2. ASSUME NEW p \in Slots, ThreadStep(p)
      PROVE  TInv'
  <2>1. ASSUME NEW k \in {"fork", "clone"}, allocproc(p, k) PROVE TInv'
    BY <2>1, AllocStep DEF Making
  <2>2. CASE AllocKstack(p)
    <3>1. np[p] \in Slots
      BY <2>2 DEF AllocKstack, At, TInv, OwnEmbryo, Making, Alive
    <3>2. /\ UNCHANGED <<state, pid, tgid, nextpid, parent, pgdir, alloc, badfree, killed, callVars>>
          /\ UNCHANGED <<tpc, np, tid, victims, cut, panic>>
          /\ kstack' = [kstack EXCEPT ![np[p]] = TRUE]
      BY <2>2 DEF AllocKstack, callVars, memVars, killVars
    <3>3. ThreadsTypeOK'
      BY <1>0, <3>1, <3>2 DEF ThreadsTypeOK
    <3> QED  BY <3>2, <3>3, SameTable
  <2>3. CASE AllocFail(p)
    BY <2>3, GiveUpStep DEF AllocFail
  <2>4. CASE fork(p)
    BY <2>4, ForkStep
  <2>5. CASE ForkFail(p)
    BY <2>5, GiveUpStep DEF ForkFail
  <2>6. CASE clone(p)
    BY <2>6, CloneStep
  <2>7. CASE exit(p)
    BY <2>7, ExitStep
  <2>8. ASSUME NEW k \in {"wait", "waitx"}, WaitCall(p, k) PROVE TInv'
    <3>1. state[p] = "RUN" /\ Sharing(p) = {} /\ tid' = tid
      BY <2>8 DEF WaitCall, Enters, At, Alone
    <3>2. tpc' = [tpc EXCEPT ![p] = k] /\ UNCHANGED <<slotVars, np, memVars, killVars, panic>>
      BY <2>8 DEF WaitCall
    <3>3. 0 \in 0 .. MaxPid
      BY SMT, ThreadsAssumption
    <3> QED  BY <3>1, <3>2, <3>3, CallStep
  <2>9. CASE Reap(p)
    BY <2>9, ReapStep
  <2>10. CASE WaitFail(p)
    <3>1. 0 \in 0 .. MaxPid
      BY SMT, ThreadsAssumption
    <3>2. /\ state[p] = "RUN" /\ tpc' = [tpc EXCEPT ![p] = "user"] /\ tid' = [tid EXCEPT ![p] = 0]
          /\ UNCHANGED <<slotVars, np, memVars, killVars, panic>>
      BY <2>10 DEF WaitFail, Waiting
    <3> QED  BY <3>1, <3>2, CallStep
  <2>11. CASE WaitSleep(p)
    BY <2>11, SleepStep
  <2>12. ASSUME NEW n \in 0 .. MaxPid, JoinCall(p, n) PROVE TInv'
    <3>1. /\ state[p] = "RUN" /\ tpc' = [tpc EXCEPT ![p] = "join"] /\ tid' = [tid EXCEPT ![p] = n]
          /\ UNCHANGED <<slotVars, np, memVars, killVars, panic>>
      BY <2>12 DEF JoinCall, Enters, At
    <3> QED  BY <3>1, CallStep
  <2>13. ASSUME NEW n \in 0 .. MaxPid, kill(p, n) PROVE TInv'
    BY <2>13, KillStep
  <2>14. CASE growproc(p)
    <3>1. /\ UNCHANGED <<state, pid, tgid, nextpid, parent, pgdir, alloc, badfree, killed, callVars>>
          /\ UNCHANGED <<tpc, np, tid, kstack, victims, cut>>
          /\ panic' \in {"no kstack", panic}
      BY <2>14 DEF growproc, slotVars, callVars, memVars, killVars
    <3>2. ThreadsTypeOK'
      BY <1>0, <3>1 DEF ThreadsTypeOK
    <3> QED  BY <3>1, <3>2, SameTable
  <2>15. CASE exec(p)
    BY <2>15, ExecStep
  <2> QED
    BY <1>2, <2>1, <2>2, <2>3, <2>4, <2>5, <2>6, <2>7, <2>8, <2>9, <2>10, <2>11, <2>12, <2>13,
       <2>14, <2>15 DEF ThreadStep
<1> QED  BY <1>1, <1>2 DEF ThreadsNext

\* A thread that was left unjoined stays so.
LEMMA CutForGood ==
  ASSUME cut, [ThreadsNext]_threadVars
  PROVE  cut'
BY DEF ThreadsNext, ThreadStep, threadVars, killVars, allocproc, AllocKstack, AllocFail, GiveUp,
       fork, clone, Publish, ForkFail, exit, WaitCall, Reap, WaitFail, WaitSleep, JoinCall, kill,
       growproc, exec

\* TInv holds until kill makes a process exit that has a thread to join.
THEOREM TableInvariant ==
  ASSUME Joining
  PROVE  ThreadsSpec => [](~cut => TInv)
<1>1. ThreadsInit => (~cut => TInv)
  BY ThreadsStart
<1>2. (~cut => TInv) /\ [ThreadsNext]_threadVars => (~cut => TInv)'
  BY ThreadsSafeStep, CutForGood
<1> QED  BY <1>1, <1>2, PTL DEF ThreadsSpec

\* No exit and no kill is lost (exit, wait, waitx, join and kill in proc.c): who
\* sleeps has nothing to free and has not been killed, and every process in use
\* has a parent that will wait for it, as long as no killed process leaves a
\* thread unjoined.
THEOREM NoExitLost ==
  ASSUME Joining
  PROVE  ThreadsSpec => []SleepsOnlyForNothing
<1>1. (~cut => TInv) => SleepsOnlyForNothing
  <2> SUFFICES ASSUME TInv, ~cut PROVE SleepsOnlyForNothing
    BY DEF SleepsOnlyForNothing
  <2>1. ASSUME NEW p \in Slots, state[p] = "SLEEPING" PROVE Zombies(p) = {} /\ ~killed[p]
    <3>1. tpc[p] \in Blocking /\ ~killed[p] /\ \A r \in Slots : ~Accepts(p, r)
      BY <2>1 DEF TInv, SleepInCall, NothingToReap
    <3> QED  BY <3>1, ZombiesAre
  <2> QED  BY <2>1 DEF TInv, SleepsOnlyForNothing
<1> QED  BY <1>1, TableInvariant, PTL

\* wait, waitx, exec and fork leak no address space and free none twice or while
\* it is in use, and only threads of one group share one, whoever is killed, as
\* long as no killed process leaves a thread unjoined.
THEOREM SpacesAccounted ==
  ASSUME Joining
  PROVE  ThreadsSpec => []SpacesExact
<1>1. (~cut => TInv) => SpacesExact
  BY DEF TInv, Spaces, SpacesExact
<1> QED  BY <1>1, TableInvariant, PTL
=============================================================================
