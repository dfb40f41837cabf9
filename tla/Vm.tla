--------------------------------- MODULE Vm ---------------------------------
(***************************************************************************)
(* Physical pages and address spaces: the page allocator (kalloc.c), page  *)
(* tables (vm.c), and the calls that build, grow, copy, replace and free   *)
(* an address space (fork, growproc and wait in proc.c, exec.c), with      *)
(* every place where kalloc may have nothing left.                         *)
(*                                                                         *)
(* Other processes only take pages from the free list or give them back    *)
(* while a call runs, so a call is one step and the pages left for it are  *)
(* what varies.  Threads, which share a space, are in Threads.  A page     *)
(* holds one value.                                                        *)
(***************************************************************************)
EXTENDS Integers, Sequences, FiniteSets, FiniteSetsExt

CONSTANTS
  NPAGES,         \* physical pages
  PGSIZE,         \* bytes of a page
  NPTENTRIES,     \* pages that a page table maps
  UPAGES,         \* pages below KERNBASE
  ADDRESSES,      \* 2^32: sums of unsigned addresses wrap around here
  KTABLES,        \* page tables that setupkvm makes
  NSLOTS,
  Values,         \* what programs store, 0 among them
  Text,           \* what a page holds that exec has written
  Progs,          \* programs: sequences of segments vaddr, memsz, filesz, fits
  ArgSizes,       \* bytes of the arguments of exec
  Grows,          \* arguments of sbrk, up and down
  Junk,           \* what kfree fills a page with
  MaxCalls        \* a bound on the steps of a run

ASSUME VmAssumption ==
  /\ {NPAGES, PGSIZE, NPTENTRIES, UPAGES, KTABLES, NSLOTS, MaxCalls} \subseteq Nat \ {0}
  /\ UPAGES % NPTENTRIES = 0 /\ 0 \in Values
  /\ ADDRESSES \in Nat /\ ADDRESSES > UPAGES * PGSIZE

Pages == 1 .. NPAGES
Slots == 1 .. NSLOTS
KERNBASE == UPAGES * PGSIZE
Upages == 0 .. UPAGES - 1
Tables == 0 .. (UPAGES \div NPTENTRIES) + KTABLES - 1
KernelTables == (UPAGES \div NPTENTRIES) .. (UPAGES \div NPTENTRIES) + KTABLES - 1

PageUp(a) == (a + PGSIZE - 1) \div PGSIZE    \* PGROUNDUP, counted in pages

VARIABLES
  freelist,   \* kmem.freelist
  mem,        \* what each page holds
  proc,       \* per slot of ptable: state, sz, kstack and address space s
  pipe,       \* a page that pipealloc has taken, or 0
  panic, calls

vmVars == <<freelist, mem, proc, pipe, panic, calls>>

\* A space: directory page, page tables, user pages, and pages without PTE_U.
NoSpace == [dir |-> 0, pt |-> [t \in Tables |-> 0], pg |-> [v \in Upages |-> 0], nou |-> {}]
NoProc == [st |-> "UNUSED", sz |-> 0, kstack |-> 0, s |-> NoSpace]

-----------------------------------------------------------------------------
(* Operators on m: the free pages, the memory, a space, and whether all went *)
(* well so far.                                                              *)

kalloc(m) == Min(m.free)

\* Mistaken use of a page from kalloc: it is not filled.
TakeUnfilled(m, b, x) == [m EXCEPT !.free = @ \ {b}]

\* The page b from kalloc, filled with x by memset or memmove.
Take(m, b, x) == [m EXCEPT !.free = @ \ {b}, !.mem[b] = x]

Fail(m) == [m EXCEPT !.ok = FALSE]

\* walkpgdir(pgdir, va, 1) for a page that table t maps.
walkpgdir(m, t) ==
  CASE m.s.pt[t] # 0 -> m
    [] m.s.pt[t] = 0 /\ m.free = {} -> Fail(m)
    [] OTHER -> [m EXCEPT !.s.pt[t] = kalloc(m), !.free = @ \ {kalloc(m)}]

\* mappages of the page b at user page v; panic says that it was mapped already.
mappages(m, v, b) ==
  LET w == walkpgdir(m, v \div NPTENTRIES) IN
  CASE ~w.ok -> w
    [] w.ok /\ w.s.pg[v] # 0 -> [w EXCEPT !.panic = "remap"]
    [] OTHER -> [w EXCEPT !.s.pg[v] = b]

\* deallocuvm: the pages mapped in [newsz, oldsz).
Between(m, oldsz, newsz) ==
  {v \in Upages : v >= PageUp(newsz) /\ v * PGSIZE < oldsz /\ m.s.pg[v] # 0}
deallocuvm(m, oldsz, newsz) ==
  LET V == IF newsz >= oldsz THEN {} ELSE Between(m, oldsz, newsz) IN
  [m EXCEPT !.free = @ \cup {m.s.pg[v] : v \in V},
            !.s.pg = [v \in Upages |-> IF v \in V THEN 0 ELSE m.s.pg[v]],
            !.s.nou = @ \ V]

freevm(m) ==
  LET d == deallocuvm(m, KERNBASE, 0) IN
  [d EXCEPT !.free = @ \cup {d.s.dir} \cup ({d.s.pt[t] : t \in Tables} \ {0}), !.s = NoSpace]

\* The label bad of copyuvm and exec.
OrFree(w) == IF w.ok THEN w ELSE freevm(w)

\* setupkvm: a directory and the tables of the kernel's mappings, or nothing.
RECURSIVE KernelMap(_, _)
KernelMap(m, T) ==
  IF T = {} \/ ~m.ok THEN m ELSE KernelMap(walkpgdir(m, Min(T)), T \ {Min(T)})
setupkvm(m) ==
  LET d == [m EXCEPT !.s = [NoSpace EXCEPT !.dir = kalloc(m)], !.free = @ \ {kalloc(m)}]
      k == KernelMap(d, KernelTables) IN
  CASE m.free = {} -> Fail(m)
    [] m.free # {} /\ ~k.ok -> freevm(k)
    [] OTHER -> k

\* The loop of allocuvm from page v on.  A page that cannot be mapped is freed.
RECURSIVE AllocFrom(_, _, _)
AllocFrom(m, v, newsz) ==
  LET b == kalloc(m)
      w == mappages(Take(m, b, 0), v, b) IN
  CASE v * PGSIZE >= newsz -> m
    [] v * PGSIZE < newsz /\ m.free = {} -> Fail(m)
    [] v * PGSIZE < newsz /\ m.free # {} /\ ~w.ok -> [w EXCEPT !.free = @ \cup {b}]
    [] OTHER -> AllocFrom(w, v + 1, newsz)

\* What had been mapped for a size that could not be reached goes again.
OrShrink(w, newsz, oldsz) == IF w.ok THEN w ELSE deallocuvm(w, newsz, oldsz)

\* allocuvm: the new size is newsz, or oldsz if that is more; ~ok is its 0.
allocuvm(m, oldsz, newsz) ==
  CASE newsz >= KERNBASE -> Fail(m)
    [] newsz < KERNBASE /\ newsz < oldsz -> m
    [] OTHER -> OrShrink(AllocFrom(m, PageUp(oldsz), newsz), newsz, oldsz)

\* copyuvm of the space s, page by page, into a new one.
RECURSIVE CopyFrom(_, _, _, _)
CopyFrom(m, s, v, sz) ==
  LET b == kalloc(m)
      w == mappages(Take(m, b, m.mem[s.pg[v]]), v, b) IN
  CASE v * PGSIZE >= sz -> m
    [] v * PGSIZE < sz /\ s.pg[v] = 0 -> [m EXCEPT !.panic = "copyuvm: page not present"]
    [] v * PGSIZE < sz /\ s.pg[v] # 0 /\ m.free = {} -> Fail(m)
    [] v * PGSIZE < sz /\ s.pg[v] # 0 /\ m.free # {} /\ ~w.ok -> [w EXCEPT !.free = @ \cup {b}]
    [] OTHER -> CopyFrom([w EXCEPT !.s.nou = IF v \in s.nou THEN @ \cup {v} ELSE @], s, v + 1, sz)
copyuvm(m, s, sz) ==
  LET k == setupkvm(m) IN IF k.ok THEN OrFree(CopyFrom(k, s, 0, sz)) ELSE k

-----------------------------------------------------------------------------
(* exec *)

Larger(a, b) == IF a > b THEN a ELSE b

\* loaduvm: the pages that get bytes of the file.
Loads(g) == {v \in Upages : v * PGSIZE >= g.vaddr /\ v * PGSIZE < g.vaddr + g.filesz}
Write(m, V) == [m EXCEPT !.mem = [b \in Pages |-> IF \E v \in V : m.s.pg[v] = b THEN Text ELSE m.mem[b]]]

\* One segment, once allocuvm has made room for it, and the size after it.
Loaded(a, g) ==
  LET sz == Larger(a.sz, g.vaddr + g.memsz) IN
  IF ~a.ok \/ sz = 0 \/ g.vaddr % PGSIZE # 0 \/ ~g.fits THEN Fail(a)
  ELSE [Write(a, Loads(g)) EXCEPT !.sz = sz]
Segment(m, g) ==
  LET end == (g.vaddr + g.memsz) % ADDRESSES IN
  IF g.memsz < g.filesz \/ end < g.vaddr THEN Fail(m) ELSE Loaded(allocuvm(m, m.sz, end), g)

RECURSIVE LoadAll(_, _)
LoadAll(m, prog) ==
  IF prog = <<>> \/ ~m.ok THEN m ELSE LoadAll(Segment(m, Head(prog)), Tail(prog))

\* copyout reaches len bytes from va on: mapped, and not the guard page.
copyout(m, va, len) ==
  va >= 0 /\ \A v \in va \div PGSIZE .. (va + len - 1) \div PGSIZE :
               v \in Upages /\ m.s.pg[v] # 0 /\ v \notin m.s.nou

\* Guard page, stack, arguments and the vector that points to them.
PushArgs(w, args) ==
  IF w.ok /\ copyout(w, w.sz - args, args) /\ copyout(w, w.sz - args - 1, 1)
  THEN Write(w, {(w.sz \div PGSIZE) - 1}) ELSE Fail(w)
Stack(m, args) ==
  LET base == PageUp(m.sz)
      sz == (base + 2) * PGSIZE IN
  IF m.ok
  THEN PushArgs([allocuvm(m, base * PGSIZE, sz) EXCEPT !.s.nou = {base}, !.sz = sz], args)
  ELSE m

\* Mistaken exec: an error leaves the new space behind.
BuildLeaks(m, prog, args) ==
  LET k == setupkvm(m) IN IF k.ok THEN Stack(LoadAll(k, prog), args) ELSE k

\* The space of the program, or ~ok and every page given back.
Build(m, prog, args) ==
  LET k == setupkvm(m) IN IF k.ok THEN OrFree(Stack(LoadAll(k, prog), args)) ELSE k

-----------------------------------------------------------------------------
(* Steps *)

M(s) == [free |-> freelist, mem |-> mem, s |-> s, ok |-> TRUE, panic |-> "", sz |-> 0]
Step == panic = "" /\ calls < MaxCalls /\ calls' = calls + 1
Running(p) == proc[p].st = "RUN" /\ Step

\* kfree has filled what is on the free list with junk.
Set(m) ==
  /\ freelist' = m.free /\ panic' = m.panic
  /\ mem' = [b \in Pages |-> IF b \in m.free THEN Junk ELSE m.mem[b]]

\* kvmalloc takes the kernel's own space, userinit that of the first process.
Boot == setupkvm([free |-> Pages, mem |-> [b \in Pages |-> Junk], s |-> NoSpace, ok |-> TRUE,
                  panic |-> "", sz |-> 0])
KernelPages == Pages \ Boot.free
VmInit ==
  LET k == kalloc(Boot)
      u == AllocFrom(setupkvm([Boot EXCEPT !.free = @ \ {k}]), 0, PGSIZE) IN
  /\ freelist = u.free /\ mem = u.mem
  /\ proc = [p \in Slots |-> IF p = 1 THEN [st |-> "RUN", sz |-> PGSIZE, kstack |-> k, s |-> u.s]
                                      ELSE NoProc]
  /\ pipe = 0 /\ panic = "" /\ calls = 0

\* fork: allocproc's kernel stack k, then the copy w; the stack goes if that fails.
Forked(p, q, k, w) ==
  /\ Set(IF w.ok THEN w ELSE [w EXCEPT !.free = @ \cup {k}])
  /\ proc' = IF w.ok /\ w.panic = ""
             THEN [proc EXCEPT ![q] = [st |-> "RUN", sz |-> proc[p].sz, kstack |-> k, s |-> w.s]]
             ELSE proc
fork(p, q) ==
  /\ Running(p) /\ proc[q].st = "UNUSED" /\ freelist # {}
  /\ LET k == kalloc(M(NoSpace)) IN
     Forked(p, q, k, copyuvm([M(NoSpace) EXCEPT !.free = @ \ {k}], proc[p].s, proc[p].sz))
  /\ UNCHANGED pipe

\* growproc.  A size below 0 wraps around and changes nothing; the size 0 that
\* deallocuvm returns is taken for a failure, and the process, without a page left,
\* faults when it returns to user mode.
growproc(p, n) ==
  LET sz == proc[p].sz
      new == sz + n
      a == allocuvm(M(proc[p].s), sz, new)
      d == deallocuvm(M(proc[p].s), sz, new) IN
  /\ Running(p)
  /\ \/ /\ new >= sz /\ Set(a)
        /\ proc' = [proc EXCEPT ![p].s = a.s, ![p].sz = IF a.ok THEN new ELSE sz]
     \/ /\ new \in 1 .. sz - 1 /\ Set(d)
        /\ proc' = [proc EXCEPT ![p].s = d.s, ![p].sz = new]
     \/ /\ new = 0 /\ p # 1 /\ Set(d)
        /\ proc' = [proc EXCEPT ![p].s = d.s, ![p].st = "FAULT"]
  /\ UNCHANGED pipe

\* exec commits to the new space w, and frees the old one.
Commit(p, w) ==
  IF w.ok THEN /\ Set(freevm([w EXCEPT !.s = proc[p].s]))
               /\ proc' = [proc EXCEPT ![p].s = w.s, ![p].sz = w.sz]
          ELSE Set(w) /\ UNCHANGED proc
exec(p, prog, args) ==
  Running(p) /\ Commit(p, Build(M(NoSpace), prog, args)) /\ UNCHANGED pipe

exit(p) ==
  /\ proc[p].st \in {"RUN", "FAULT"} /\ Step /\ p # 1
  /\ proc' = [proc EXCEPT ![p].st = "ZOMBIE"]
  /\ UNCHANGED <<freelist, mem, pipe, panic>>

\* wait frees the kernel stack and the space of a zombie.
wait(p) ==
  /\ proc[p].st = "ZOMBIE" /\ Step
  /\ LET w == freevm(M(proc[p].s)) IN Set([w EXCEPT !.free = @ \cup {proc[p].kstack}])
  /\ proc' = [proc EXCEPT ![p] = NoProc]
  /\ UNCHANGED pipe

Store(p) ==
  /\ Running(p)
  /\ \E v \in Upages, x \in Values :
       /\ proc[p].s.pg[v] # 0 /\ v \notin proc[p].s.nou
       /\ mem' = [mem EXCEPT ![proc[p].s.pg[v]] = x]
  /\ UNCHANGED <<freelist, proc, pipe, panic>>

\* pipealloc and pipeclose, for the other uses of kalloc.
PipePage ==
  /\ Step
  /\ \/ /\ pipe = 0 /\ freelist # {} /\ pipe' = Min(freelist)
        /\ Set([M(NoSpace) EXCEPT !.free = @ \ {Min(freelist)}])
     \/ /\ pipe # 0 /\ pipe' = 0
        /\ Set([M(NoSpace) EXCEPT !.free = @ \cup {pipe}])
  /\ UNCHANGED proc

VmNext ==
  \/ PipePage
  \/ \E p \in Slots :
       \/ exit(p) \/ wait(p) \/ Store(p)
       \/ \E q \in Slots : fork(p, q)
       \/ \E n \in Grows \cup {-k : k \in Grows} \cup {-proc[p].sz} : growproc(p, n)
       \/ \E g \in Progs, a \in ArgSizes : exec(p, g, a)

VmSpec == VmInit /\ [][VmNext]_vmVars

-----------------------------------------------------------------------------
(* Properties *)

\* What a page is used for.
Uses(b) ==
  {<<p, "kstack", 0>> : p \in {q \in Slots : proc[q].kstack = b}}
  \cup {<<p, "dir", 0>> : p \in {q \in Slots : proc[q].s.dir = b}}
  \cup {<<x[1], "pt", x[2]>> : x \in {y \in Slots \X Tables : proc[y[1]].s.pt[y[2]] = b}}
  \cup {<<x[1], "pg", x[2]>> : x \in {y \in Slots \X Upages : proc[y[1]].s.pg[y[2]] = b}}
  \cup {<<0, x, 0>> : x \in {y \in {"pipe", "kernel", "free"} :
          CASE y = "pipe" -> pipe = b [] y = "kernel" -> b \in KernelPages [] OTHER -> b \in freelist}}

\* A process has the pages below sz and no others, through sizes that are not a
\* multiple of the page, growth that fails half way and sbrk below 0; so mappages
\* meets no page mapped before and copyuvm finds all of them (vm.c:72, vm.c:329).
SpaceExact ==
  /\ panic = ""
  /\ \A p \in Slots : proc[p].st = "RUN" =>
       \A v \in Upages : (proc[p].s.pg[v] # 0) = (v * PGSIZE < proc[p].sz)

\* Every page has exactly one use: wherever kalloc fails in fork, sbrk, exec or
\* setupkvm, what the call had taken is given back, once (kalloc.c:55-95,
\* vm.c:219-345, exec.c:106-113, proc.c:264-269), and each process keeps exactly
\* the pages of its size.
PagesExact == SpaceExact /\ \A b \in Pages : Cardinality(Uses(b)) = 1

\* What exec makes of a program.
Image(prog) ==
  LET top == PageUp(Max({g.vaddr + g.memsz : g \in {prog[k] : k \in 1 .. Len(prog)}}))
      text == UNION {Loads(prog[k]) : k \in 1 .. Len(prog)} IN
  [v \in 1 .. top + 2 |-> IF v - 1 \in text \cup {top + 1} THEN Text ELSE 0]

\* Each process has memory of its own, and a call that fails changes none of it:
\* page tables implement the memory that Memory promises (vm.c:180-345).
Private == INSTANCE Memory WITH
  MaxPages <- UPAGES, Images <- {Image(g) : g \in Progs},
  memory <- [p \in Slots |-> IF proc[p].st = "RUN"
                             THEN [v \in 1 .. PageUp(proc[p].sz) |-> mem[proc[p].s.pg[v - 1]]]
                             ELSE <<>>]
MemorySpec == Private!Spec
=============================================================================
