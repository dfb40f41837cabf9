-------------------------------- MODULE Heap --------------------------------
(***************************************************************************)
(* The allocator of user programs (umalloc.c): a circular list of free     *)
(* blocks in address order, searched first-fit from where the last call    *)
(* stopped, split at the tail and joined with both neighbours on free.     *)
(*                                                                         *)
(* Memory is counted in units of one Header.  Unit Base is the static      *)
(* list head, below the heap and not adjacent to it.  A program writes     *)
(* what it likes into its blocks, and what it wrote is still there when    *)
(* they are free: everything but the headers in use is Scrap.  A program    *)
(* also calls sbrk itself, which leaves a gap.                             *)
(***************************************************************************)
EXTENDS Naturals, FiniteSets

CONSTANTS
  HEAPTOP,      \* sbrk fails beyond this unit
  MINUNITS,     \* the 4096 of morecore
  HEADER,       \* sizeof(Header)
  MaxRequest,   \* bound: the largest malloc, in bytes
  Gaps          \* units the program asks of sbrk itself

Base == 0
Start == 2          \* the first unit of the heap
Scrap == HEAPTOP + 1

ASSUME HeapConstants ==
  /\ HEAPTOP \in Nat /\ HEAPTOP > Start
  /\ MINUNITS \in Nat \ {0} /\ HEADER \in Nat \ {0} /\ MaxRequest \in Nat
  /\ Gaps \subseteq Nat \ {0}

VARIABLES
  heap,         \* [ptr, size: unit -> value of the header there; freep, brk]
  live,         \* history: the blocks handed out, header -> units asked
  core          \* history: the units morecore got from sbrk

heapVars == <<heap, live, core>>

Units == Base .. HEAPTOP
NoPtr == Scrap + 1   \* freep before the first call

HeapInit ==
  /\ heap = [ptr |-> [u \in Units |-> Base], size |-> [u \in Units |-> 0],
             freep |-> NoPtr, brk |-> Start]
  /\ live = [b \in {} |-> 0]
  /\ core = {}

-----------------------------------------------------------------------------

\* The loop of free: the free block after which bp belongs.
RECURSIVE Before(_, _, _)
Before(h, bp, p) ==
  IF \/ bp > p /\ bp < h.ptr[p]
     \/ p >= h.ptr[p] /\ (bp > p \/ bp < h.ptr[p])
  THEN p ELSE Before(h, bp, h.ptr[p])

\* A mistaken free that does not join the block below.
FreeUpOnly(h, bp) ==
  LET p == Before(h, bp, h.freep)
      n == h.ptr[p]
      up == IF bp + h.size[bp] = n
            THEN [h EXCEPT !.size[bp] = @ + h.size[n], !.ptr[bp] = h.ptr[n]]
            ELSE [h EXCEPT !.ptr[bp] = n]
  IN  [up EXCEPT !.ptr[p] = bp, !.freep = p]

free(h, bp) ==
  LET p == Before(h, bp, h.freep)
      n == h.ptr[p]
      up == IF bp + h.size[bp] = n
            THEN [h EXCEPT !.size[bp] = @ + h.size[n], !.ptr[bp] = h.ptr[n]]
            ELSE [h EXCEPT !.ptr[bp] = n]
      down == IF p + up.size[p] = bp
              THEN [up EXCEPT !.size[p] = @ + up.size[bp], !.ptr[p] = up.ptr[bp]]
              ELSE [up EXCEPT !.ptr[p] = bp]
  IN  [down EXCEPT !.freep = p]

\* The heap with nu or MINUNITS units more, or as it was when sbrk fails.
morecore(h, nu) ==
  LET n == IF nu < MINUNITS THEN MINUNITS ELSE nu
  IN  IF h.brk + n > HEAPTOP + 1 THEN h
      ELSE free([h EXCEPT !.size[h.brk] = n, !.brk = @ + n], h.brk)

Nunits(nbytes) == (nbytes + HEADER - 1) \div HEADER + 1

\* Block p after prevp, large enough, serves n units: all of it, or its tail.
\* [heap, at]: the heap and the header of what is handed out.
Serve(h, prevp, p, n) ==
  LET rest == h.size[p] - n
  IN  IF rest = 0
      THEN [heap |-> [h EXCEPT !.ptr[prevp] = h.ptr[p], !.freep = prevp], at |-> p]
      ELSE [heap |-> [h EXCEPT !.size[p] = rest, !.size[p + rest] = n, !.freep = prevp],
            at |-> p + rest]

\* The loop of malloc; at is NoPtr when it returns 0.
RECURSIVE Search(_, _, _, _)
Search(h, prevp, p, n) ==
  IF h.size[p] >= n THEN Serve(h, prevp, p, n)
  ELSE IF p # h.freep THEN Search(h, p, h.ptr[p], n)
  ELSE LET more == morecore(h, n)
       IN  IF more = h THEN [heap |-> h, at |-> NoPtr]
           ELSE Search(more, more.freep, more.ptr[more.freep], n)

malloc(h, nbytes) ==
  LET h0 == IF h.freep # NoPtr THEN h
            ELSE [h EXCEPT !.ptr[Base] = Base, !.size[Base] = 0, !.freep = Base]
  IN  Search(h0, h0.freep, h0.ptr[h0.freep], Nunits(nbytes))

-----------------------------------------------------------------------------

\* The blocks on the list from b on.
RECURSIVE Listed(_, _, _)
Listed(h, b, seen) == IF b \in seen \/ b \notin Units THEN seen
                      ELSE Listed(h, h.ptr[b], seen \cup {b})

\* h with Scrap in all that is neither a header on the list nor the size of a
\* block handed out (the blocks of used).
Junked(h, used) ==
  LET F == Listed(h, Base, {})
  IN  [h EXCEPT !.ptr = [u \in Units |-> IF u \in F THEN h.ptr[u] ELSE Scrap],
                !.size = [u \in Units |-> IF u \in F \cup used THEN h.size[u] ELSE Scrap]]

Malloc ==
  \E nbytes \in 0 .. MaxRequest :
    LET r == malloc(heap, nbytes)
        n == Nunits(nbytes)
        got == r.at # NoPtr
    IN  /\ live' = IF got THEN [b \in DOMAIN live \cup {r.at} |-> IF b = r.at THEN n ELSE live[b]]
                   ELSE live
        /\ heap' = Junked(r.heap, DOMAIN live')
        /\ core' = core \cup (heap.brk .. r.heap.brk - 1)

Free ==
  \E b \in DOMAIN live :
    /\ live' = [c \in DOMAIN live \ {b} |-> live[c]]
    /\ heap' = Junked(free(heap, b), DOMAIN live')
    /\ UNCHANGED core

Sbrk ==
  \E n \in Gaps :
    /\ heap.brk + n <= HEAPTOP + 1
    /\ heap' = [heap EXCEPT !.brk = @ + n]
    /\ UNCHANGED <<live, core>>

HeapNext == Malloc \/ Free \/ Sbrk

-----------------------------------------------------------------------------
(* Properties *)

BlockUnits(b, n) == b .. b + n - 1

\* Blocks handed out and free blocks are disjoint and make up what morecore
\* got, headers included, whatever programs write into their blocks; each
\* keeps the size it was given.  The list is circular and in address order,
\* and no two free blocks touch: the splits of malloc and the joins of free
\* (umalloc.c:33-43, 75-84) lose no unit and hand none out twice.
HeapExact ==
  heap.freep # NoPtr =>
    LET F == Listed(heap, Base, {}) \ {Base}
        size(b) == IF b \in F THEN heap.size[b] ELSE live[b]
        all == F \cup DOMAIN live
    IN  /\ heap.freep \in F \cup {Base}
        /\ F \cap DOMAIN live = {}
        /\ \A b \in DOMAIN live : heap.size[b] = live[b]
        /\ \A b, c \in all : b < c => b + size(b) <= c
        /\ UNION {BlockUnits(b, size(b)) : b \in all} = core
        /\ \A b \in F : b + size(b) \notin F
        /\ \A b \in F \cup {Base} :
             LET n == heap.ptr[b]
             IN  IF n = Base THEN \A c \in F : c <= b
                 ELSE n > b /\ \A c \in F : c <= b \/ c >= n
=============================================================================
