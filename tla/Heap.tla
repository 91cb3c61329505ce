-------------------------------- MODULE Heap --------------------------------
(***************************************************************************)
(* dmm.c: dmalloc and dfree over one slab obtained with mmap.  A block is  *)
(* a header of METADATA_T_ALIGNED bytes and its payload; the list that     *)
(* starts at freelist links all blocks, free or not, in address order.     *)
(* Addresses are offsets from the slab.  A header swallowed when blocks    *)
(* coalesce becomes payload, so hdr forgets it: the program may overwrite  *)
(* it.  One iteration of dmalloc's search is a step.                       *)
(***************************************************************************)
EXTENDS Integers

CONSTANTS
  MAX_HEAP_SIZE,   \* set in the Makefile
  Requests,        \* the sizes the program asks for; dmalloc asserts they are positive
  SIZE_MOD         \* 2^64, the modulus of size_t

\* The slab holds a header, and its size does not overflow.  The few sizes whose
\* ALIGN does not overflow but whose sum with the header does are left out: the
\* second header of a split would overlap the first.
ASSUME HeapAssumption ==
  /\ MAX_HEAP_SIZE \in Nat
  /\ SIZE_MOD \in Nat
  /\ MAX_HEAP_SIZE >= 32
  /\ MAX_HEAP_SIZE + 8 < SIZE_MOD
  /\ Requests \subseteq 1..(SIZE_MOD - 1)
  /\ \A n \in Requests : n + 40 < SIZE_MOD \/ n + 7 >= SIZE_MOD

WORD_SIZE == 8
METADATA_T_ALIGNED == 32   \* two pointers, a size_t and an enum
NULL == -1
MAP_FAILED == -2

VARIABLES
  freelist,   \* NULL, the slab (0), or what a failed mmap returned
  hdr,        \* the headers: from the address of each block to its fields
  pc,         \* "idle" between calls, "walk" in dmalloc's loop, or "crashed"
  walker,
  numbytes,   \* the argument of the call of dmalloc
  client      \* the blocks the program holds: payload address to size asked for

vars == <<freelist, hdr, pc, walker, numbytes, client>>
call == <<pc, walker, numbytes>>

\* ALIGN(size), in size_t arithmetic
ALIGN(n) ==
  LET s == (n + (WORD_SIZE - 1)) % SIZE_MOD IN s - (s % WORD_SIZE)

\* A faulty sum: the size is not rounded up.
NeedUnaligned(n) == (n + METADATA_T_ALIGNED) % SIZE_MOD

\* ALIGN(numbytes) + METADATA_T_ALIGNED, in size_t arithmetic
Need(n) == (ALIGN(n) + METADATA_T_ALIGNED) % SIZE_MOD

HeapBytes == ALIGN(MAX_HEAP_SIZE)

Init ==
  /\ freelist = NULL
  /\ hdr = <<>>
  /\ pc = "idle"
  /\ walker = NULL
  /\ numbytes = 0
  /\ client = <<>>

-----------------------------------------------------------------------------
\* dmalloc(n) when the heap exists.  After a failed mmap the list head is not
\* NULL either, and the first look at walker->size is a fault.
CallDmalloc(n) ==
  /\ pc = "idle"
  /\ freelist # NULL
  /\ walker' = freelist
  /\ numbytes' = n
  /\ pc' = IF freelist = MAP_FAILED THEN "crashed" ELSE "walk"
  /\ UNCHANGED <<freelist, hdr, client>>

\* The first call: dmalloc_init makes the slab one free block, and the search
\* starts.
FirstDmalloc(n) ==
  /\ pc = "idle"
  /\ freelist = NULL
  /\ freelist' = 0
  /\ hdr' = [b \in {0} |-> [size |-> HeapBytes - METADATA_T_ALIGNED,
                            next |-> NULL, prev |-> NULL, fille |-> FALSE]]
  /\ walker' = 0
  /\ numbytes' = n
  /\ pc' = "walk"
  /\ UNCHANGED client

\* mmap fails: dmalloc returns NULL, and freelist keeps mmap's result.
InitFails ==
  /\ pc = "idle"
  /\ freelist = NULL
  /\ freelist' = MAP_FAILED
  /\ UNCHANGED <<hdr, call, client>>

Fits(b, n) == hdr[b].size >= Need(n) /\ ~hdr[b].fille

\* A faulty search: the list is taken for a ring.
WalkAround ==
  /\ pc = "walk"
  /\ walker # NULL
  /\ ~Fits(walker, numbytes)
  /\ walker' = IF hdr[walker].next = NULL THEN freelist ELSE hdr[walker].next
  /\ UNCHANGED <<freelist, hdr, pc, numbytes, client>>

Walk ==
  /\ pc = "walk"
  /\ walker # NULL
  /\ ~Fits(walker, numbytes)
  /\ walker' = hdr[walker].next
  /\ UNCHANGED <<freelist, hdr, pc, numbytes, client>>

\* The end of the list: dmalloc returns NULL.
NotFound ==
  /\ pc = "walk"
  /\ walker = NULL
  /\ pc' = "idle"
  /\ UNCHANGED <<freelist, hdr, walker, numbytes, client>>

\* dmalloc returns the payload of the block under the walker.
Return ==
  /\ pc' = "idle"
  /\ client' = [p \in DOMAIN client \cup {walker + METADATA_T_ALIGNED} |->
                  IF p = walker + METADATA_T_ALIGNED THEN numbytes ELSE client[p]]
  /\ UNCHANGED <<freelist, walker, numbytes>>

\* What would be left over cannot hold a header: the whole block is given away.
TakeWhole ==
  /\ pc = "walk" /\ walker # NULL /\ Fits(walker, numbytes)
  /\ hdr[walker].size - Need(numbytes) < METADATA_T_ALIGNED
  /\ hdr' = [hdr EXCEPT ![walker].fille = TRUE]
  /\ Return

\* A faulty split: the block after the new one still points back to w.
SplitBlockStalePrev(w, n) ==
  LET newBlock == w + Need(n)
  IN [b \in DOMAIN hdr \cup {newBlock} |->
        CASE b = newBlock -> [size |-> hdr[w].size - Need(n), next |-> hdr[w].next,
                              prev |-> w, fille |-> FALSE]
          [] b = w        -> [size |-> ALIGN(n), next |-> newBlock,
                              prev |-> hdr[w].prev, fille |-> TRUE]
          [] OTHER        -> hdr[b]]

\* The headers after block w has been split for n bytes
SplitBlock(w, n) ==
  LET newBlock == w + Need(n)
      next == hdr[w].next
  IN [b \in DOMAIN hdr \cup {newBlock} |->
        CASE b = newBlock -> [size |-> hdr[w].size - Need(n),
                              next |-> next, prev |-> w, fille |-> FALSE]
          [] b = w        -> [size |-> ALIGN(n), next |-> newBlock,
                              prev |-> hdr[w].prev, fille |-> TRUE]
          [] b = next     -> [hdr[b] EXCEPT !.prev = newBlock]
          [] OTHER        -> hdr[b]]

Split ==
  /\ pc = "walk" /\ walker # NULL /\ Fits(walker, numbytes)
  /\ hdr[walker].size - Need(numbytes) >= METADATA_T_ALIGNED
  /\ hdr' = SplitBlock(walker, numbytes)
  /\ Return

-----------------------------------------------------------------------------
\* Headers h after block b has swallowed its right neighbour
Absorb(h, b) ==
  LET gone == h[b].next
      next == h[gone].next
  IN [a \in DOMAIN h \ {gone} |->
        CASE a = b    -> [size |-> h[b].size + h[gone].size + METADATA_T_ALIGNED,
                          next |-> next, prev |-> h[b].prev, fille |-> h[b].fille]
          [] a = next -> [h[a] EXCEPT !.prev = b]
          [] OTHER    -> h[a]]

IsFree(h, b) == b # NULL /\ ~h[b].fille

MarkFree(h, b) == [h EXCEPT ![b].fille = FALSE]

\* A faulty dfree: the last block of the list is not merged.
AbsorbNextButLast(h, b) ==
  IF IsFree(h, h[b].next) /\ h[h[b].next].next # NULL THEN Absorb(h, b) ELSE h

AbsorbNext(h, b) == IF IsFree(h, h[b].next) THEN Absorb(h, b) ELSE h

AbsorbInPrev(h, b) == IF IsFree(h, h[b].prev) THEN Absorb(h, h[b].prev) ELSE h

\* dfree(p), for a block the program holds: it is freed and merged with
\* whichever of its neighbours are free.
Dfree(p) ==
  LET b == p - METADATA_T_ALIGNED IN
  /\ pc = "idle"
  /\ p \in DOMAIN client
  /\ hdr' = AbsorbInPrev(AbsorbNext(MarkFree(hdr, b), b), b)
  /\ client' = [q \in DOMAIN client \ {p} |-> client[q]]
  /\ UNCHANGED <<freelist, call>>

Crashed == pc = "crashed" /\ UNCHANGED vars

Search == Walk \/ NotFound \/ TakeWhole \/ Split

Next ==
  \/ \E n \in Requests : CallDmalloc(n) \/ FirstDmalloc(n)
  \/ InitFails
  \/ Search
  \/ \E p \in DOMAIN client : Dfree(p)
  \/ Crashed

\* A call that has been made runs on; the program need not make any.
Spec == Init /\ [][Next]_vars /\ WF_vars(Search)

-----------------------------------------------------------------------------
Blocks == DOMAIN hdr

Header == [size : Nat, next : Nat \cup {NULL}, prev : Nat \cup {NULL}, fille : BOOLEAN]

TypeOK ==
  /\ freelist \in {NULL, 0, MAP_FAILED}
  /\ Blocks \subseteq Nat
  /\ hdr \in [Blocks -> Header]
  /\ pc \in {"idle", "walk", "crashed"}
  /\ walker \in {NULL, MAP_FAILED} \cup Nat
  /\ numbytes \in Requests \cup {0}
  /\ DOMAIN client \subseteq Nat
  /\ client \in [DOMAIN client -> Requests]

\* Where block b ends, with headers h
End(h, b) == b + METADATA_T_ALIGNED + h[b].size

\* The links of block b are those of its neighbours in memory.
Linked(h, b) ==
  /\ IF h[b].next = NULL THEN End(h, b) = HeapBytes
     ELSE h[b].next = End(h, b) /\ h[b].next \in DOMAIN h /\ h[h[b].next].prev = b
  /\ IF h[b].prev = NULL THEN b = 0
     ELSE h[b].prev \in DOMAIN h /\ h[h[b].prev].next = b

Tiled(h) ==
  /\ 0 \in DOMAIN h
  /\ \A b \in DOMAIN h : /\ b % WORD_SIZE = 0 /\ h[b].size % WORD_SIZE = 0
                         /\ End(h, b) <= HeapBytes
                         /\ Linked(h, b)
  /\ \A a, b \in DOMAIN h : a < b => End(h, a) <= b

\* "Every byte in the heap is part of exactly one heap block" (handout.md:24): the
\* blocks, linked both ways, follow one another from 0 to the end of the slab.
Tiling == freelist = 0 => Tiled(hdr)

\* Coalescing is complete (handout.md:78): no two neighbours are both free.
Coalesced(h) ==
  \A b \in DOMAIN h : ~h[b].fille /\ h[b].next # NULL => h[h[b].next].fille

NoAdjacentFree == Coalesced(hdr)

\* No block the program holds is smaller than it was asked for: dmalloc should be
\* "equivalent to the standard malloc" (handout.md:16).
LargeEnough ==
  \A p \in DOMAIN client : client[p] <= hdr[p - METADATA_T_ALIGNED].size

\* The blocks marked as allocated are the ones the program holds, and each is
\* as large as it was asked for.
ClientIntact ==
  /\ DOMAIN client = {b + METADATA_T_ALIGNED : b \in {c \in Blocks : hdr[c].fille}}
  /\ LargeEnough

\* "a program that fills its heap with small blocks" can "allocate a large
\* block" again once "it frees all of the heap memory" (handout.md:78): the heap
\* is one free block.
AllFreedIsOneBlock ==
  freelist = 0 /\ DOMAIN client = {} =>
    Blocks = {0} /\ hdr[0].size = HeapBytes - METADATA_T_ALIGNED

\* dmalloc takes the first block of the list that fits, and none only if none
\* fits: whatever lies behind the walker has been found too small or in use.
FirstFit ==
  pc = "walk" => \A b \in Blocks : walker = NULL \/ b < walker => ~Fits(b, numbytes)

\* Without a slab there are no blocks and no search; a search is at a block or
\* at the end of the list.
CallInv ==
  /\ freelist # 0 => Blocks = {} /\ DOMAIN client = {} /\ pc # "walk"
  /\ pc = "walk" => walker \in Blocks \cup {NULL} /\ numbytes \in Requests

\* The inductive invariant
IInv ==
  TypeOK /\ Tiling /\ NoAdjacentFree /\ ClientIntact /\ FirstFit /\ CallInv

\* Every call returns, or has crashed.
CallReturns == (pc = "walk") ~> (pc # "walk")

\* For the program it is an allocator.
Alloc == INSTANCE Allocator WITH Alignment <- WORD_SIZE
ImplementsAllocator == Alloc!Spec

\* No call of dmalloc faults: "equivalent to the standard malloc and free"
\* (handout.md:16), which only return NULL when there is no memory.
NoCrash == pc # "crashed"
=============================================================================
