----------------------------- MODULE HeapProofs -----------------------------
(***************************************************************************)
(* For every heap size, every set of request sizes that do not overflow    *)
(* size_t and every sequence of calls, dmm.c keeps its blocks a tiling of  *)
(* the slab, merges all free neighbours, searches first fit and gives the  *)
(* program what an allocator promises.                                     *)
(***************************************************************************)
EXTENDS Heap, TLAPS

\* The sizes asked for leave ALIGN and the sum with the header below SIZE_MOD.
NoWrap == \A n \in Requests : n + WORD_SIZE + METADATA_T_ALIGNED < SIZE_MOD

\* A number below the modulus is its own remainder.
LEMMA SmallMod ==
  ASSUME NEW x \in Nat, NEW m \in Nat, x < m
  PROVE  x % m = x
OBVIOUS

\* ALIGN rounds up to a multiple of the word size.
LEMMA AlignFacts ==
  ASSUME NEW n \in Nat, n + WORD_SIZE < SIZE_MOD
  PROVE  /\ ALIGN(n) \in Nat
         /\ ALIGN(n) % WORD_SIZE = 0
         /\ n <= ALIGN(n) /\ ALIGN(n) < n + WORD_SIZE
<1>1. (n + 7) % SIZE_MOD = n + 7
  BY SmallMod, HeapAssumption DEF WORD_SIZE
<1> QED BY <1>1 DEF ALIGN, WORD_SIZE

LEMMA HeapBytesFacts ==
  HeapBytes \in Nat /\ HeapBytes % WORD_SIZE = 0 /\ HeapBytes >= METADATA_T_ALIGNED
BY AlignFacts, HeapAssumption DEF HeapBytes, WORD_SIZE, METADATA_T_ALIGNED

LEMMA NeedFacts ==
  ASSUME NoWrap, NEW n \in Requests
  PROVE  /\ n \in Nat \ {0}
         /\ ALIGN(n) \in Nat /\ ALIGN(n) % WORD_SIZE = 0 /\ n <= ALIGN(n)
         /\ Need(n) = ALIGN(n) + METADATA_T_ALIGNED
<1>1. n \in Nat \ {0}
  BY HeapAssumption
<1>2. /\ ALIGN(n) \in Nat /\ ALIGN(n) % WORD_SIZE = 0 /\ n <= ALIGN(n)
      /\ ALIGN(n) + METADATA_T_ALIGNED < SIZE_MOD
  <2>1. n + WORD_SIZE + METADATA_T_ALIGNED < SIZE_MOD
    BY DEF NoWrap
  <2>2. n + WORD_SIZE < SIZE_MOD
    BY <1>1, <2>1, HeapAssumption DEF WORD_SIZE, METADATA_T_ALIGNED
  <2>3. /\ ALIGN(n) \in Nat /\ ALIGN(n) % WORD_SIZE = 0 /\ n <= ALIGN(n)
        /\ ALIGN(n) < n + WORD_SIZE
    BY <1>1, <2>2, AlignFacts
  <2> QED BY <1>1, <2>1, <2>3, HeapAssumption DEF WORD_SIZE, METADATA_T_ALIGNED
<1>3. Need(n) = ALIGN(n) + METADATA_T_ALIGNED
  BY <1>2, SmallMod, HeapAssumption DEF Need, METADATA_T_ALIGNED
<1> QED BY <1>1, <1>2, <1>3

-----------------------------------------------------------------------------
\* Headers h are well formed and tile the slab.
Heaplike(h) ==
  /\ DOMAIN h \subseteq Nat
  /\ h \in [DOMAIN h -> Header]
  /\ Tiled(h)

\* Headers with the same sizes and links tile the slab in the same way.
LEMMA SameShape ==
  ASSUME NEW h, Heaplike(h), NEW g, g \in [DOMAIN h -> Header],
         \A a \in DOMAIN h : /\ g[a].next = h[a].next /\ g[a].prev = h[a].prev
                             /\ g[a].size = h[a].size
  PROVE  Heaplike(g) /\ DOMAIN g = DOMAIN h
<1>1. DOMAIN g = DOMAIN h
  OBVIOUS
<1>2. Tiled(g)
  BY <1>1 DEF Heaplike, Tiled, Linked, End
<1> QED BY <1>1, <1>2 DEF Heaplike

\* Swallowing the right neighbour keeps the tiling, removes that neighbour and
\* leaves every other block's status as it was.
LEMMA AbsorbHeaplike ==
  ASSUME NEW h, Heaplike(h), NEW b \in DOMAIN h, h[b].next # NULL
  PROVE  LET g == Absorb(h, b)
             gone == h[b].next
         IN  /\ DOMAIN g = DOMAIN h \ {gone}
             /\ b \in DOMAIN g /\ gone \in DOMAIN h
             /\ Heaplike(g)
             /\ g[b].next = h[gone].next
             /\ \A a \in DOMAIN g : /\ g[a].fille = h[a].fille
                                    /\ a # b => /\ g[a].size = h[a].size
                                                /\ g[a].next = h[a].next
<1> DEFINE g == Absorb(h, b)
           gone == h[b].next
           next == h[gone].next
<1> USE DEF METADATA_T_ALIGNED, NULL
<1>1. /\ gone \in DOMAIN h /\ gone = End(h, b) /\ h[gone].prev = b
      /\ b \in Nat /\ gone \in Nat /\ b < gone
  BY DEF Heaplike, Tiled, Linked, End, Header
<1>2. \/ next = NULL /\ End(h, gone) = HeapBytes
      \/ /\ next \in DOMAIN h /\ next = End(h, gone) /\ h[next].prev = gone
         /\ next \in Nat /\ gone < next
  BY <1>1 DEF Heaplike, Tiled, Linked, End, Header
<1>3. DOMAIN g = DOMAIN h \ {gone} /\ b \in DOMAIN g
  BY <1>1 DEF Absorb
<1>4. \A a \in DOMAIN g :
        g[a] = [size |-> IF a = b THEN h[b].size + h[gone].size + METADATA_T_ALIGNED
                         ELSE h[a].size,
                next |-> IF a = b THEN next ELSE h[a].next,
                prev |-> IF a = next THEN b ELSE h[a].prev,
                fille |-> h[a].fille]
  <2> SUFFICES ASSUME NEW a \in DOMAIN g
               PROVE  g[a] = [size |-> IF a = b THEN h[b].size + h[gone].size + METADATA_T_ALIGNED
                                       ELSE h[a].size,
                              next |-> IF a = b THEN next ELSE h[a].next,
                              prev |-> IF a = next THEN b ELSE h[a].prev,
                              fille |-> h[a].fille]
    OBVIOUS
  <2>0. h[a] \in Header /\ h[b] \in Header /\ a \in DOMAIN h
    BY <1>3 DEF Heaplike
  <2>1. CASE a = b
    <3>1. b # next
      BY <1>1, <1>2
    <3> QED BY <2>0, <2>1, <3>1, <1>3 DEF Absorb, Header
  <2>2. CASE a # b /\ a = next
    BY <2>0, <2>2, <1>3 DEF Absorb, Header
  <2>3. CASE a # b /\ a # next
    BY <2>0, <2>3, <1>3 DEF Absorb, Header
  <2> QED BY <2>1, <2>2, <2>3
<1> HIDE DEF g
<1>4a. /\ g[b].size = h[b].size + h[gone].size + METADATA_T_ALIGNED /\ g[b].next = next
       /\ \A a \in DOMAIN g : /\ a # b => g[a].size = h[a].size /\ g[a].next = h[a].next
                              /\ a = next => g[a].prev = b
                              /\ a # next => g[a].prev = h[a].prev
                              /\ g[a].fille = h[a].fille
  <2>1. ASSUME NEW a \in DOMAIN g
        PROVE  /\ a # b => g[a].size = h[a].size /\ g[a].next = h[a].next
               /\ a = next => g[a].prev = b
               /\ a # next => g[a].prev = h[a].prev
               /\ g[a].fille = h[a].fille
    BY <1>4
  <2>2. g[b].size = h[b].size + h[gone].size + METADATA_T_ALIGNED /\ g[b].next = next
    <3>1. b # next
      BY <1>1, <1>2
    <3> QED BY <3>1, <1>3 DEF g, Absorb
  <2> QED BY <2>1, <2>2
<1>5. g \in [DOMAIN g -> Header]
  <2>1. \A a \in DOMAIN g : g[a] \in Header
    BY <1>1, <1>2, <1>3, <1>4 DEF Heaplike, Header
  <2>2. g = [a \in DOMAIN g |-> g[a]]
    BY DEF g, Absorb
  <2> QED BY <2>1, <2>2
<1>6. \A a \in DOMAIN g : End(g, a) = IF a = b THEN End(h, gone) ELSE End(h, a)
  BY <1>1, <1>3, <1>4a DEF End, Heaplike, Header
<1>7. Tiled(g)
  <2>1. 0 \in DOMAIN g
    BY <1>1, <1>3 DEF Heaplike, Tiled
  <2>2. ASSUME NEW a \in DOMAIN g
        PROVE  a % WORD_SIZE = 0 /\ g[a].size % WORD_SIZE = 0 /\ End(g, a) <= HeapBytes
    <3>1. \A c \in DOMAIN h : /\ c % 8 = 0 /\ h[c].size % 8 = 0 /\ h[c].size \in Nat
                               /\ End(h, c) <= HeapBytes
      BY DEF Heaplike, Tiled, WORD_SIZE, Header
    <3>2. (h[b].size + h[gone].size + 32) % 8 = 0
      BY <3>1, <1>1
    <3>3. g[a].size % 8 = 0
      BY <3>1, <3>2, <1>3, <1>4a
    <3> QED BY <3>1, <3>3, <1>1, <1>3, <1>6 DEF WORD_SIZE
  <2>3. ASSUME NEW a \in DOMAIN g
        PROVE  Linked(g, a)
    <3>1. a \in DOMAIN h /\ a # gone /\ Linked(h, a)
      BY <1>3 DEF Heaplike, Tiled
    <3>2. IF g[a].next = NULL THEN End(g, a) = HeapBytes
          ELSE g[a].next = End(g, a) /\ g[a].next \in DOMAIN g /\ g[g[a].next].prev = a
      <4>1. CASE a = b
        BY <4>1, <1>1, <1>2, <1>3, <1>4a, <1>6
      <4>2. CASE a # b
        BY <4>2, <3>1, <1>1, <1>2, <1>3, <1>4a, <1>6 DEF Linked
      <4> QED BY <4>1, <4>2
    <3>3. IF g[a].prev = NULL THEN a = 0
          ELSE g[a].prev \in DOMAIN g /\ g[g[a].prev].next = a
      <4>1. CASE a = next
        <5>1. g[a].prev = b /\ g[b].next = next
          BY <4>1, <1>3, <1>4a
        <5> QED BY <4>1, <5>1, <1>1, <1>3
      <4>2. CASE a # next
        BY <4>2, <3>1, <1>1, <1>2, <1>3, <1>4a DEF Linked
      <4> QED BY <4>1, <4>2
    <3> QED BY <3>2, <3>3 DEF Linked
  <2>4. ASSUME NEW a \in DOMAIN g, NEW c \in DOMAIN g, a < c
        PROVE  End(g, a) <= c
    BY <2>4, <1>1, <1>3, <1>6 DEF Heaplike, Tiled
  <2> QED BY <2>1, <2>2, <2>3, <2>4 DEF Tiled
<1>8. Heaplike(g)
  BY <1>3, <1>5, <1>7 DEF Heaplike
<1> QED BY <1>1, <1>3, <1>4a, <1>8 DEF g

\* Splitting a free block w for n bytes keeps the tiling; w is now allocated and
\* large enough, and what is left over is a free block to its right.
LEMMA SplitHeaplike ==
  ASSUME NoWrap, NEW n \in Requests, NEW w \in DOMAIN hdr, Heaplike(hdr),
         hdr[w].size >= Need(n) + METADATA_T_ALIGNED
  PROVE  LET g == SplitBlock(w, n)
             new == w + Need(n)
         IN  /\ new \notin DOMAIN hdr /\ new \in Nat
             /\ DOMAIN g = DOMAIN hdr \cup {new}
             /\ Heaplike(g)
             /\ g[w].next = new /\ g[w].fille /\ g[w].size = ALIGN(n)
             /\ g[new].next = hdr[w].next /\ ~g[new].fille
             /\ \A a \in DOMAIN hdr \ {w} : /\ g[a].next = hdr[a].next
                                            /\ g[a].fille = hdr[a].fille
                                            /\ g[a].size = hdr[a].size
<1> DEFINE g == SplitBlock(w, n)
           new == w + Need(n)
           next == hdr[w].next
           rest == hdr[w].size - Need(n)
<1> USE DEF METADATA_T_ALIGNED, NULL
<1>0. /\ ALIGN(n) \in Nat /\ ALIGN(n) % WORD_SIZE = 0
      /\ Need(n) = ALIGN(n) + METADATA_T_ALIGNED
  BY NeedFacts
<1>1. /\ w \in Nat /\ new \in Nat /\ rest \in Nat /\ w + 32 <= new
      /\ new + 32 + rest = End(hdr, w) /\ hdr[w] \in Header
  BY <1>0 DEF Heaplike, Header, End
<1>2. \A a \in DOMAIN hdr : a = w \/ End(hdr, a) <= w \/ End(hdr, w) <= a
  BY DEF Heaplike, Tiled
<1>3. new \notin DOMAIN hdr
  BY <1>1, <1>2 DEF Heaplike, Header, End
<1>4. \/ next = NULL /\ End(hdr, w) = HeapBytes
      \/ /\ next \in DOMAIN hdr /\ next = End(hdr, w) /\ hdr[next].prev = w
         /\ next \in Nat /\ new < next
  BY <1>1 DEF Heaplike, Tiled, Linked, Header
<1>5. DOMAIN g = DOMAIN hdr \cup {new}
  BY DEF SplitBlock
<1>6. /\ g[new] = [size |-> rest, next |-> next, prev |-> w, fille |-> FALSE]
      /\ g[w] = [size |-> ALIGN(n), next |-> new, prev |-> hdr[w].prev, fille |-> TRUE]
      /\ next # NULL => g[next] = [hdr[next] EXCEPT !.prev = new]
      /\ \A a \in DOMAIN hdr \ {w, next} : g[a] = hdr[a]
  BY <1>1, <1>3, <1>4 DEF SplitBlock
<1>7. \A a \in DOMAIN hdr \ {w} : /\ g[a].next = hdr[a].next
                                  /\ g[a].fille = hdr[a].fille
                                  /\ g[a].size = hdr[a].size
                                  /\ g[a].prev = IF a = next THEN new ELSE hdr[a].prev
  <2> SUFFICES ASSUME NEW a \in DOMAIN hdr \ {w}
               PROVE  /\ g[a].next = hdr[a].next
                      /\ g[a].fille = hdr[a].fille
                      /\ g[a].size = hdr[a].size
                      /\ g[a].prev = IF a = next THEN new ELSE hdr[a].prev
    OBVIOUS
  <2>0. hdr[a] \in Header /\ a # NULL
    BY DEF Heaplike
  <2>1. CASE a = next
    BY <2>0, <2>1, <1>6 DEF Header
  <2>2. CASE a # next
    BY <2>2, <1>6
  <2> QED BY <2>1, <2>2
<1>8. \A a \in DOMAIN g : g[a] \in Header
  <2>1. g[new] \in Header /\ g[w] \in Header
    BY <1>0, <1>1, <1>4, <1>6 DEF Header
  <2>2. next # NULL => g[next] \in Header
    BY <1>1, <1>4, <1>6 DEF Heaplike, Header
  <2>3. \A a \in DOMAIN hdr \ {w, next} : g[a] \in Header
    BY <1>6 DEF Heaplike
  <2> QED BY <1>4, <1>5, <2>1, <2>2, <2>3 DEF Heaplike
<1>9. g \in [DOMAIN g -> Header]
  <2>1. g = [a \in DOMAIN g |-> g[a]]
    BY DEF SplitBlock
  <2> QED BY <1>8, <2>1
<1> HIDE DEF g
<1>10. \A a \in DOMAIN g : End(g, a) = IF a = w THEN new
                                       ELSE IF a = new THEN End(hdr, w)
                                       ELSE End(hdr, a)
  <2>1. End(g, w) = new /\ End(g, new) = End(hdr, w)
    BY <1>0, <1>1, <1>6 DEF End
  <2>2. \A a \in DOMAIN hdr \ {w} : End(g, a) = End(hdr, a)
    BY <1>7 DEF End
  <2> QED BY <1>3, <1>5, <2>1, <2>2
<1>11. Tiled(g)
  <2>1. 0 \in DOMAIN g
    BY <1>5 DEF Heaplike, Tiled
  <2>2. ASSUME NEW a \in DOMAIN g
        PROVE  a % WORD_SIZE = 0 /\ g[a].size % WORD_SIZE = 0 /\ End(g, a) <= HeapBytes
    <3>1. CASE a = w
      BY <3>1, <1>0, <1>1, <1>6, <1>10, HeapBytesFacts DEF Heaplike, Tiled
    <3>2. CASE a = new
      <4>1. w % 8 = 0 /\ hdr[w].size % 8 = 0 /\ ALIGN(n) % 8 = 0
        BY <1>0 DEF Heaplike, Tiled, WORD_SIZE
      <4>2. new % 8 = 0 /\ rest % 8 = 0
        BY <4>1, <1>0, <1>1 DEF Header
      <4> QED BY <3>2, <4>2, <1>3, <1>6, <1>10 DEF Heaplike, Tiled, WORD_SIZE
    <3>3. CASE a # w /\ a # new
      BY <3>3, <1>5, <1>7, <1>10 DEF Heaplike, Tiled
    <3> QED BY <3>1, <3>2, <3>3
  <2>3. ASSUME NEW a \in DOMAIN g
        PROVE  Linked(g, a)
    <3>1. a = new \/ (a \in DOMAIN hdr /\ Linked(hdr, a))
      BY <1>5 DEF Heaplike, Tiled
    <3>2. IF g[a].next = NULL THEN End(g, a) = HeapBytes
          ELSE g[a].next = End(g, a) /\ g[a].next \in DOMAIN g /\ g[g[a].next].prev = a
      <4>1. CASE a = w
        BY <4>1, <1>1, <1>3, <1>5, <1>6, <1>10
      <4>2. CASE a = new
        BY <4>2, <1>1, <1>3, <1>4, <1>5, <1>6, <1>7, <1>10
      <4>3. CASE a # w /\ a # new
        <5>1. a \in DOMAIN hdr /\ g[a].next = hdr[a].next /\ End(g, a) = End(hdr, a)
          BY <4>3, <1>5, <1>7, <1>10
        <5>2. CASE hdr[a].next = NULL
          BY <5>1, <5>2, <3>1, <4>3 DEF Linked
        <5>3. CASE hdr[a].next # NULL
          <6>1. /\ hdr[a].next = End(hdr, a) /\ hdr[a].next \in DOMAIN hdr
                /\ hdr[hdr[a].next].prev = a
            BY <5>3, <3>1, <4>3 DEF Linked
          <6>2. hdr[a].next # next
            BY <6>1, <1>4, <4>3, <5>3
          <6>3. g[hdr[a].next].prev = a
            <7>1. CASE hdr[a].next = w
              BY <7>1, <6>1, <1>6
            <7>2. CASE hdr[a].next # w
              BY <7>2, <6>1, <6>2, <1>7
            <7> QED BY <7>1, <7>2
          <6> QED BY <5>1, <5>3, <6>1, <6>3, <1>5
        <5> QED BY <5>2, <5>3
      <4> QED BY <4>1, <4>2, <4>3
    <3>3. IF g[a].prev = NULL THEN a = 0
          ELSE g[a].prev \in DOMAIN g /\ g[g[a].prev].next = a
      <4>1. CASE a = new
        BY <4>1, <1>1, <1>5, <1>6
      <4>2. CASE a # new /\ a = next
        <5>1. a # w /\ a \in DOMAIN hdr
          BY <4>2, <3>1, <1>1, <1>4
        <5> QED BY <4>2, <5>1, <1>1, <1>5, <1>6, <1>7
      <4>3. CASE a # new /\ a # next
        <5>1. a \in DOMAIN hdr /\ g[a].prev = hdr[a].prev
          BY <4>3, <3>1, <1>6, <1>7
        <5>2. hdr[a].prev # NULL => /\ hdr[a].prev \in DOMAIN hdr /\ hdr[a].prev # w
                                    /\ hdr[hdr[a].prev].next = a
          BY <5>1, <3>1, <4>3 DEF Linked
        <5>3. hdr[a].prev = NULL => a = 0
          BY <4>3, <3>1 DEF Linked
        <5> QED BY <5>1, <5>2, <5>3, <1>5, <1>7
      <4> QED BY <4>1, <4>2, <4>3
    <3> QED BY <3>2, <3>3 DEF Linked
  <2>4. ASSUME NEW a \in DOMAIN g, NEW c \in DOMAIN g, a < c
        PROVE  End(g, a) <= c
    <3>1. CASE a \in DOMAIN hdr /\ c \in DOMAIN hdr
      <4>1. End(hdr, a) <= c
        BY <2>4, <3>1 DEF Heaplike, Tiled
      <4> QED BY <3>1, <4>1, <1>1, <1>3, <1>10 DEF Heaplike, Header, End
    <3>2. CASE a = new /\ c \in DOMAIN hdr
      <4>1. w < c
        BY <2>4, <3>2, <1>1 DEF Heaplike
      <4>2. End(hdr, w) <= c
        BY <3>2, <4>1 DEF Heaplike, Tiled
      <4> QED BY <3>2, <4>2, <1>1, <1>10
    <3>3. CASE a \in DOMAIN hdr /\ c = new
      <4>1. CASE a = w
        BY <4>1, <3>3, <1>1, <1>10
      <4>2. CASE a # w
        <5>1. End(hdr, a) <= w
          BY <2>4, <3>3, <4>2, <1>1, <1>2 DEF Heaplike, Header, End
        <5>2. End(g, a) = End(hdr, a) /\ End(hdr, a) \in Nat
          BY <3>3, <4>2, <1>3, <1>5, <1>10 DEF Heaplike, Header, End
        <5> QED BY <3>3, <5>1, <5>2, <1>1
      <4> QED BY <4>1, <4>2
    <3>4. a = new /\ c = new => FALSE
      BY <2>4, <1>1
    <3> QED BY <3>1, <3>2, <3>3, <3>4, <1>5
  <2> QED BY <2>1, <2>2, <2>3, <2>4 DEF Tiled
<1>12. Heaplike(g)
  BY <1>1, <1>5, <1>9, <1>11 DEF Heaplike
<1> QED BY <1>1, <1>3, <1>5, <1>6, <1>7, <1>12 DEF g

\* dfree on an allocated block b of a coalesced heap: b and its free neighbours
\* become one free block, no two neighbours are free, and the other allocated
\* blocks stay as they are.
LEMMA DfreeHeaplike ==
  ASSUME NEW h, Heaplike(h), Coalesced(h), NEW b \in DOMAIN h, h[b].fille
  PROVE  LET g == AbsorbInPrev(AbsorbNext(MarkFree(h, b), b), b)
         IN  /\ Heaplike(g) /\ Coalesced(g)
             /\ \A a \in DOMAIN g : g[a].fille => a \in DOMAIN h \ {b} /\ h[a].fille
             /\ \A a \in DOMAIN h \ {b} : h[a].fille =>
                  a \in DOMAIN g /\ g[a].fille /\ g[a].size = h[a].size
<1> DEFINE h1 == MarkFree(h, b)
           h2 == AbsorbNext(h1, b)
           g == AbsorbInPrev(h2, b)
           free(k, a) == ~k[a].fille
<1>0. NULL \notin Nat /\ b # NULL
  BY DEF NULL, Heaplike
<1>1. /\ DOMAIN h1 = DOMAIN h /\ Heaplike(h1)
      /\ \A a \in DOMAIN h : /\ h1[a].next = h[a].next /\ h1[a].prev = h[a].prev
                             /\ h1[a].size = h[a].size
                             /\ a # b => h1[a].fille = h[a].fille
      /\ ~h1[b].fille
  <2>1. /\ h1 \in [DOMAIN h -> Header]
        /\ \A a \in DOMAIN h : /\ h1[a].next = h[a].next /\ h1[a].prev = h[a].prev
                               /\ h1[a].size = h[a].size
                               /\ a # b => h1[a].fille = h[a].fille
        /\ ~h1[b].fille
    BY DEF MarkFree, Heaplike, Header
  <2>2. Heaplike(h1) /\ DOMAIN h1 = DOMAIN h
    BY <2>1, SameShape
  <2> QED BY <2>1, <2>2
<1> HIDE DEF h1
<1>2. \A a \in DOMAIN h1 : free(h1, a) /\ h1[a].next # NULL /\ free(h1, h1[a].next)
                             => a = b \/ h1[a].next = b
  BY <1>1 DEF Coalesced, Heaplike, Tiled, Linked
<1>3. /\ Heaplike(h2) /\ b \in DOMAIN h2 /\ free(h2, b)
      /\ \A a \in DOMAIN h2 : /\ a \in DOMAIN h1
                              /\ h2[a].fille = h1[a].fille
                              /\ a # b => h2[a].size = h1[a].size
      /\ \A a \in DOMAIN h1 : h1[a].fille => a \in DOMAIN h2
      /\ \A a \in DOMAIN h2 : free(h2, a) /\ h2[a].next # NULL /\ free(h2, h2[a].next)
                                => h2[a].next = b
  <2> DEFINE gone == h1[b].next
  <2>1. CASE ~IsFree(h1, gone)
    <3>1. h2 = h1
      BY <2>1 DEF AbsorbNext
    <3>2. ~(gone # NULL /\ free(h1, gone))
      BY <2>1 DEF IsFree
    <3> QED BY <3>1, <3>2, <1>1, <1>2
  <2>2. CASE IsFree(h1, gone)
    <3>0. gone # NULL /\ free(h1, gone)
      BY <2>2 DEF IsFree
    <3>1. h2 = Absorb(h1, b)
      BY <2>2 DEF AbsorbNext
    <3>2. /\ DOMAIN h2 = DOMAIN h1 \ {gone} /\ b \in DOMAIN h2 /\ gone \in DOMAIN h1
          /\ Heaplike(h2)
          /\ h2[b].next = h1[gone].next
          /\ \A a \in DOMAIN h2 : /\ h2[a].fille = h1[a].fille
                                  /\ a # b => /\ h2[a].size = h1[a].size
                                              /\ h2[a].next = h1[a].next
      <4>1. Heaplike(h1) /\ b \in DOMAIN h1 /\ h1[b].next # NULL
        BY <3>0, <1>1
      <4> QED BY <4>1, <3>1, AbsorbHeaplike
    <3>3. \A a \in DOMAIN h2 : h2[a].next # NULL => h2[a].next \in DOMAIN h2
      BY <3>2 DEF Heaplike, Tiled, Linked
    <3>4. ASSUME NEW a \in DOMAIN h2, free(h2, a), h2[a].next # NULL, free(h2, h2[a].next)
          PROVE  h2[a].next = b
      <4>1. CASE a = b
        <5>1. h1[gone].next \in DOMAIN h2 /\ free(h1, h1[gone].next)
          BY <4>1, <3>2, <3>3, <3>4
        <5>2. gone = b \/ h1[gone].next = b
          BY <5>1, <3>0, <3>2, <3>4, <4>1, <1>2
        <5> QED BY <4>1, <5>2, <3>2
      <4>2. CASE a # b
        <5>1. h2[a].next = h1[a].next /\ h1[a].next \in DOMAIN h2
          BY <4>2, <3>2, <3>3, <3>4
        <5>2. free(h1, a) /\ free(h1, h1[a].next)
          BY <5>1, <3>2, <3>4
        <5> QED BY <4>2, <5>1, <5>2, <3>2, <3>4, <1>2
      <4> QED BY <4>1, <4>2
    <3> QED BY <3>0, <3>2, <3>4, <1>1
  <2> QED BY <2>1, <2>2
<1> HIDE DEF h2
<1> DEFINE prev == h2[b].prev
<1>4. /\ \A a \in DOMAIN h2 : h2[a].next # NULL =>
           h2[a].next \in DOMAIN h2 /\ h2[h2[a].next].prev = a
      /\ prev # NULL => prev \in DOMAIN h2 /\ h2[prev].next = b
      /\ \A a \in DOMAIN h2 : a # NULL
  BY <1>0, <1>3 DEF Heaplike, Tiled, Linked
<1>5. /\ Heaplike(g) /\ Coalesced(g)
      /\ \A a \in DOMAIN g : a \in DOMAIN h2 /\ g[a].fille = h2[a].fille
      /\ \A a \in DOMAIN h2 : h2[a].fille => a \in DOMAIN g /\ g[a].size = h2[a].size
  <2>1. CASE ~IsFree(h2, prev)
    <3>1. g = h2
      BY <2>1 DEF AbsorbInPrev
    <3>2. prev = NULL \/ h2[prev].fille
      BY <2>1 DEF IsFree
    <3>3. Coalesced(h2)
      BY <3>2, <1>3, <1>4 DEF Coalesced
    <3> QED BY <3>1, <3>3, <1>3
  <2>2. CASE IsFree(h2, prev)
    <3>0. prev # NULL /\ free(h2, prev)
      BY <2>2 DEF IsFree
    <3>1. g = Absorb(h2, prev)
      BY <2>2 DEF AbsorbInPrev
    <3>2. /\ DOMAIN g = DOMAIN h2 \ {b}
          /\ Heaplike(g)
          /\ g[prev].next = h2[b].next
          /\ \A a \in DOMAIN g : /\ g[a].fille = h2[a].fille
                                 /\ a # prev => /\ g[a].size = h2[a].size
                                                /\ g[a].next = h2[a].next
      <4>1. /\ Heaplike(h2) /\ prev \in DOMAIN h2 /\ h2[prev].next # NULL
            /\ h2[prev].next = b
        BY <3>0, <1>0, <1>3, <1>4
      <4>2. g = Absorb(h2, prev)
        BY <3>1
      <4> HIDE DEF g
      <4>3. /\ DOMAIN g = DOMAIN h2 \ {b}
            /\ Heaplike(g)
            /\ g[prev].next = h2[b].next
            /\ \A a \in DOMAIN g : /\ g[a].fille = h2[a].fille
                                   /\ a # prev => /\ g[a].size = h2[a].size
                                                  /\ g[a].next = h2[a].next
        <5> HIDE DEF prev
        <5> DEFINE k == Absorb(h2, prev)
        <5>1. /\ DOMAIN k = DOMAIN h2 \ {h2[prev].next}
              /\ Heaplike(k)
              /\ k[prev].next = h2[h2[prev].next].next
              /\ \A a \in DOMAIN k : /\ k[a].fille = h2[a].fille
                                     /\ a # prev => /\ k[a].size = h2[a].size
                                                    /\ k[a].next = h2[a].next
          BY <4>1, AbsorbHeaplike
        <5> HIDE DEF k
        <5>2. g = k
          BY <4>2 DEF k
        <5> QED BY <5>1, <5>2, <4>1
      <4> QED BY <4>3
    <3>3. \A a \in DOMAIN g : g[a].next # NULL => g[a].next \in DOMAIN g
      BY <3>2 DEF Heaplike, Tiled, Linked
    <3>4. ASSUME NEW a \in DOMAIN g, free(g, a), g[a].next # NULL, free(g, g[a].next)
          PROVE  FALSE
      <4>1. CASE a = prev
        <5>1. h2[b].next \in DOMAIN g /\ free(h2, h2[b].next) /\ h2[b].next # NULL
          BY <4>1, <3>2, <3>3, <3>4
        <5>2. h2[b].next = b
          BY <5>1, <1>3
        <5> QED BY <5>1, <5>2, <3>2
      <4>2. CASE a # prev
        <5>1. g[a].next = h2[a].next /\ h2[a].next \in DOMAIN g
          BY <4>2, <3>2, <3>3, <3>4
        <5>2. h2[a].next = b
          BY <5>1, <3>2, <3>4, <1>3
        <5> QED BY <5>1, <5>2, <3>2
      <4> QED BY <4>1, <4>2
    <3>5. Coalesced(g)
      BY <3>4 DEF Coalesced
    <3> QED BY <3>0, <3>2, <3>5, <1>3
  <2> QED BY <2>1, <2>2
<1> HIDE DEF g
<1>6. /\ \A a \in DOMAIN g : g[a].fille => a \in DOMAIN h \ {b} /\ h[a].fille
      /\ \A a \in DOMAIN h \ {b} : h[a].fille =>
           a \in DOMAIN g /\ g[a].fille /\ g[a].size = h[a].size
  BY <1>1, <1>3, <1>5
<1> QED BY <1>5, <1>6 DEF g, h2, h1

-----------------------------------------------------------------------------
LEMMA HeapExists ==
  ASSUME IInv, freelist = 0
  PROVE  Heaplike(hdr) /\ Coalesced(hdr)
BY DEF IInv, TypeOK, Tiling, NoAdjacentFree, Heaplike

\* Init: no slab, no blocks, nothing held.
LEMMA InitInv == Init => IInv
<1> SUFFICES ASSUME Init PROVE IInv
  OBVIOUS
<1> USE DEF Init, NULL, Blocks
<1>1. DOMAIN hdr = {} /\ DOMAIN client = {} /\ freelist # 0
  OBVIOUS
<1>2. TypeOK
  <2>1. hdr \in [{} -> Header] /\ client \in [{} -> Requests]
    OBVIOUS
  <2> QED BY <1>1, <2>1 DEF TypeOK
<1>3. Tiling /\ NoAdjacentFree /\ FirstFit /\ CallInv
  BY <1>1 DEF Tiling, NoAdjacentFree, Coalesced, FirstFit, CallInv
<1>4. ClientIntact
  BY <1>1 DEF ClientIntact, LargeEnough
<1> QED BY <1>2, <1>3, <1>4 DEF IInv

\* The slab starts as one free block, which is a tiling.
LEMMA FirstInv ==
  ASSUME IInv, NEW n \in Requests, FirstDmalloc(n)
  PROVE  IInv'
<1> USE DEF NULL, METADATA_T_ALIGNED, Blocks
<1> DEFINE first == [size |-> HeapBytes - METADATA_T_ALIGNED,
                     next |-> NULL, prev |-> NULL, fille |-> FALSE]
<1>1. /\ DOMAIN hdr' = {0} /\ hdr' = [b \in {0} |-> first] /\ hdr'[0] = first
      /\ freelist' = 0 /\ walker' = 0 /\ pc' = "walk" /\ numbytes' = n
      /\ client' = client /\ DOMAIN client = {}
  BY DEF FirstDmalloc, IInv, CallInv
<1>2. first \in Header /\ first.size = HeapBytes - 32 /\ ~first.fille
      /\ first.next = NULL /\ first.prev = NULL
  BY HeapBytesFacts DEF Header
<1> HIDE DEF first
<1>3. TypeOK'
  <2>1. hdr' \in [{0} -> Header]
    BY <1>1, <1>2
  <2> QED BY <1>1, <2>1 DEF TypeOK, IInv
<1>4. Tiled(hdr')
  <2>1. /\ 0 % WORD_SIZE = 0 /\ hdr'[0].size % WORD_SIZE = 0
        /\ End(hdr', 0) = HeapBytes /\ HeapBytes <= HeapBytes
    BY <1>1, <1>2, HeapBytesFacts DEF End, WORD_SIZE
  <2>2. Linked(hdr', 0)
    BY <1>1, <1>2, <2>1 DEF Linked
  <2> QED BY <1>1, <2>1, <2>2 DEF Tiled
<1>5. Tiling' /\ NoAdjacentFree' /\ FirstFit' /\ CallInv'
  BY <1>1, <1>2, <1>4 DEF Tiling, NoAdjacentFree, Coalesced, FirstFit, CallInv
<1>6. ClientIntact'
  BY <1>1, <1>2 DEF ClientIntact, LargeEnough
<1> QED BY <1>3, <1>5, <1>6 DEF IInv

\* The steps that leave the heap alone
LEMMA QuietInv ==
  ASSUME IInv,
         \/ \E n \in Requests : CallDmalloc(n)
         \/ InitFails \/ Walk \/ NotFound \/ UNCHANGED vars
  PROVE  IInv'
<1> USE DEF NULL, MAP_FAILED, Blocks
<1>1. ASSUME NEW n \in Requests, CallDmalloc(n) PROVE IInv'
  <2>1. hdr' = hdr /\ client' = client /\ freelist' = freelist
    BY <1>1 DEF CallDmalloc
  <2>2. TypeOK' /\ Tiling' /\ NoAdjacentFree' /\ ClientIntact'
    BY <1>1, <2>1 DEF IInv, CallDmalloc, TypeOK, Tiling, NoAdjacentFree, ClientIntact, LargeEnough
  <2>3. FirstFit'
    BY <1>1, <2>1 DEF IInv, CallDmalloc, TypeOK, FirstFit
  <2>4. CallInv'
    BY <1>1, <2>1 DEF IInv, CallDmalloc, TypeOK, CallInv, Tiling, Tiled
  <2> QED BY <2>2, <2>3, <2>4 DEF IInv
<1>2. CASE InitFails
  BY <1>2 DEF IInv, InitFails, call, TypeOK, Tiling, NoAdjacentFree, ClientIntact, LargeEnough, FirstFit,
    CallInv, Fits
<1>3. CASE Walk
  <2>0. /\ hdr' = hdr /\ client' = client /\ freelist' = freelist /\ pc' = "walk"
        /\ numbytes' = numbytes /\ pc = "walk" /\ walker' = hdr[walker].next
    BY <1>3 DEF Walk
  <2>1. freelist = 0 /\ walker \in Blocks /\ ~Fits(walker, numbytes)
    BY <1>3 DEF IInv, CallInv, Walk
  <2>2. Heaplike(hdr)
    BY <2>1, HeapExists
  <2>3. /\ hdr[walker].next \in Blocks \cup {NULL}
        /\ \A b \in Blocks : b < walker \/ b = walker
                             \/ ~(hdr[walker].next = NULL \/ b < hdr[walker].next)
    BY <2>1, <2>2 DEF Heaplike, Tiled, Linked, End, Header, METADATA_T_ALIGNED
  <2>4. TypeOK' /\ Tiling' /\ NoAdjacentFree' /\ ClientIntact' /\ CallInv'
    BY <2>0, <2>3 DEF IInv, TypeOK, Tiling, NoAdjacentFree, ClientIntact, LargeEnough, CallInv
  <2>5. FirstFit'
    BY <2>0, <2>1, <2>3 DEF IInv, FirstFit, Fits
  <2> QED BY <2>4, <2>5 DEF IInv
<1>4. CASE NotFound
  BY <1>4 DEF IInv, NotFound, TypeOK, Tiling, NoAdjacentFree, ClientIntact, LargeEnough, FirstFit, CallInv
<1>5. CASE UNCHANGED vars
  BY <1>5 DEF IInv, vars, call, TypeOK, Tiling, NoAdjacentFree, ClientIntact, LargeEnough, FirstFit,
    CallInv, Fits
<1> QED BY <1>1, <1>2, <1>3, <1>4, <1>5

\* What a block given to the program must satisfy, whether it was split or not
LEMMA ReturnInv ==
  ASSUME IInv, pc = "walk", walker \in Blocks, ~hdr[walker].fille, Return,
         Heaplike(hdr'), Coalesced(hdr'),
         Blocks \subseteq Blocks', hdr'[walker].fille, numbytes <= hdr'[walker].size,
         \A a \in Blocks' \ {walker} : hdr'[a].fille =>
           a \in Blocks /\ hdr[a].fille,
         \A a \in Blocks \ {walker} : hdr[a].fille =>
           hdr'[a].fille /\ hdr'[a].size = hdr[a].size
  PROVE  IInv'
<1> USE DEF METADATA_T_ALIGNED, Blocks
<1> DEFINE p == walker + 32
<1>1. /\ pc' = "idle" /\ freelist' = freelist /\ walker' = walker /\ numbytes' = numbytes
      /\ client' = [q \in DOMAIN client \cup {p} |-> IF q = p THEN numbytes ELSE client[q]]
  BY DEF Return
<1>2. freelist = 0 /\ numbytes \in Requests /\ walker \in Nat
  BY DEF IInv, CallInv, TypeOK
<1>3. /\ DOMAIN client' = DOMAIN client \cup {p} /\ client'[p] = numbytes
      /\ \A q \in DOMAIN client : q # p => client'[q] = client[q]
  BY <1>1
<1>4. TypeOK'
  <2>1. p \in Nat
    BY <1>2
  <2>2. client' \in [DOMAIN client \cup {p} -> Requests]
    BY <1>1, <1>2 DEF IInv, TypeOK
  <2> QED BY <1>1, <1>2, <1>3, <2>1, <2>2 DEF TypeOK, IInv, Heaplike
<1>5. ClientIntact'
  <2>1. \A q \in DOMAIN client : q - 32 \in Blocks /\ hdr[q - 32].fille /\ q \in Nat
                                 /\ client[q] <= hdr[q - 32].size
    <3>1. \A q \in DOMAIN client : \E c \in Blocks : hdr[c].fille /\ q = c + 32
      BY DEF IInv, ClientIntact, LargeEnough
    <3> QED BY <3>1 DEF IInv, ClientIntact, LargeEnough, TypeOK
  <2>2. \A a \in Blocks : hdr[a].fille => a + 32 \in DOMAIN client
    BY DEF IInv, ClientIntact, LargeEnough
  <2>3. \A a \in Blocks' : a \in Nat
    BY DEF Heaplike
  <2>4. ASSUME NEW q
        PROVE  q \in DOMAIN client' <=> \E a \in Blocks' : hdr'[a].fille /\ q = a + 32
    <3>1. ASSUME q \in DOMAIN client' PROVE \E a \in Blocks' : hdr'[a].fille /\ q = a + 32
      <4>1. CASE q = p
        BY <4>1
      <4>2. CASE q # p
        <5>1. q \in DOMAIN client
          BY <3>1, <4>2, <1>3
        <5>2. q - 32 \in Blocks \ {walker} /\ hdr[q - 32].fille /\ q = (q - 32) + 32
          BY <5>1, <4>2, <2>1
        <5> QED BY <5>2
      <4> QED BY <4>1, <4>2
    <3>2. ASSUME NEW a \in Blocks', hdr'[a].fille, q = a + 32 PROVE q \in DOMAIN client'
      <4>1. CASE a = walker
        BY <4>1, <3>2, <1>3
      <4>2. CASE a # walker
        BY <4>2, <3>2, <2>2, <1>3
      <4> QED BY <4>1, <4>2
    <3> QED BY <3>1, <3>2
  <2>5. ASSUME NEW q \in DOMAIN client' PROVE client'[q] <= hdr'[q - 32].size
    <3>1. CASE q = p
      <4>1. q - 32 = walker
        BY <3>1, <1>2
      <4> QED BY <3>1, <4>1, <1>3
    <3>2. CASE q # p
      <4>1. q \in DOMAIN client /\ client'[q] = client[q]
        BY <3>2, <1>3
      <4>2. q - 32 # walker
        BY <3>2, <4>1, <2>1
      <4> QED BY <4>1, <4>2, <2>1
    <3> QED BY <3>1, <3>2
  <2> QED BY <2>4, <2>5 DEF ClientIntact, LargeEnough
<1>6. Tiling' /\ NoAdjacentFree' /\ FirstFit' /\ CallInv'
  BY <1>1, <1>2 DEF Tiling, NoAdjacentFree, FirstFit, CallInv, Heaplike
<1> QED BY <1>4, <1>5, <1>6 DEF IInv

LEMMA TakeWholeInv ==
  ASSUME NoWrap, IInv, TakeWhole
  PROVE  IInv'
<1> USE DEF Blocks
<1>1. /\ pc = "walk" /\ walker \in Blocks /\ freelist = 0 /\ numbytes \in Requests
      /\ hdr[walker].size >= Need(numbytes) /\ ~hdr[walker].fille /\ Return
      /\ hdr' = [hdr EXCEPT ![walker].fille = TRUE]
  BY DEF TakeWhole, Fits, IInv, CallInv
<1>2. Heaplike(hdr) /\ Coalesced(hdr)
  BY <1>1, HeapExists
<1>3. /\ hdr' \in [Blocks -> Header] /\ hdr'[walker].fille
      /\ \A a \in Blocks : /\ hdr'[a].next = hdr[a].next /\ hdr'[a].prev = hdr[a].prev
                           /\ hdr'[a].size = hdr[a].size
                           /\ a # walker => hdr'[a].fille = hdr[a].fille
  BY <1>1, <1>2 DEF Heaplike, Header
<1>4. Heaplike(hdr') /\ DOMAIN hdr' = Blocks
  BY <1>2, <1>3, SameShape
<1>5. Coalesced(hdr')
  <2>1. \A a \in Blocks : hdr[a].next # NULL => hdr[a].next \in Blocks
    BY <1>2 DEF Heaplike, Tiled, Linked
  <2> QED BY <2>1, <1>2, <1>3, <1>4 DEF Coalesced
<1>6. numbytes <= hdr'[walker].size
  <2>1. numbytes <= Need(numbytes) /\ Need(numbytes) \in Nat /\ numbytes \in Nat
    BY <1>1, NeedFacts DEF METADATA_T_ALIGNED
  <2> QED BY <2>1, <1>1, <1>2, <1>3 DEF Heaplike, Header
<1> QED BY <1>1, <1>3, <1>4, <1>5, <1>6, ReturnInv

LEMMA SplitInv ==
  ASSUME NoWrap, IInv, Split
  PROVE  IInv'
<1> USE DEF Blocks
<1>1. /\ pc = "walk" /\ walker \in Blocks /\ freelist = 0 /\ numbytes \in Requests
      /\ hdr[walker].size - Need(numbytes) >= METADATA_T_ALIGNED
      /\ ~hdr[walker].fille /\ Return
      /\ hdr' = SplitBlock(walker, numbytes)
  BY DEF Split, Fits, IInv, CallInv
<1>2. Heaplike(hdr) /\ Coalesced(hdr)
  BY <1>1, HeapExists
<1>3. Need(numbytes) \in Nat /\ numbytes <= ALIGN(numbytes)
  BY <1>1, NeedFacts DEF METADATA_T_ALIGNED
<1>4. hdr[walker].size >= Need(numbytes) + METADATA_T_ALIGNED
  BY <1>1, <1>2, <1>3 DEF Heaplike, Header, METADATA_T_ALIGNED
<1> DEFINE new == walker + Need(numbytes)
<1>5. /\ new \notin DOMAIN hdr
      /\ DOMAIN hdr' = DOMAIN hdr \cup {new}
      /\ Heaplike(hdr')
      /\ hdr'[walker].next = new /\ hdr'[walker].fille /\ hdr'[walker].size = ALIGN(numbytes)
      /\ hdr'[new].next = hdr[walker].next /\ ~hdr'[new].fille
      /\ \A a \in DOMAIN hdr \ {walker} : /\ hdr'[a].next = hdr[a].next
                                          /\ hdr'[a].fille = hdr[a].fille
                                          /\ hdr'[a].size = hdr[a].size
  BY <1>1, <1>2, <1>4, SplitHeaplike
<1>6. Coalesced(hdr')
  <2> HIDE DEF new
  <2> SUFFICES ASSUME NEW a \in DOMAIN hdr', ~hdr'[a].fille, hdr'[a].next # NULL,
                      ~hdr'[hdr'[a].next].fille
               PROVE  FALSE
    BY DEF Coalesced
  <2>0. /\ walker # NULL
        /\ \A c \in DOMAIN hdr : hdr[c].next # NULL =>
             hdr[c].next \in DOMAIN hdr /\ hdr[c].next # c
    BY <1>1, <1>2 DEF Heaplike, Tiled, Linked, NULL, End, Header, METADATA_T_ALIGNED
  <2>1. a # walker
    BY <1>5
  <2>2. CASE a = new
    <3>1. hdr[walker].next \in DOMAIN hdr \ {walker} /\ hdr[walker].next # NULL
      BY <2>2, <2>0, <1>1, <1>5
    <3>2. hdr[hdr[walker].next].fille
      BY <3>1, <1>1, <1>2 DEF Coalesced
    <3> QED BY <2>2, <3>1, <3>2, <1>5
  <2>3. CASE a # new
    <3>1. a \in DOMAIN hdr \ {walker} /\ hdr'[a].next = hdr[a].next /\ ~hdr[a].fille
      BY <2>1, <2>3, <1>5
    <3>2. hdr[a].next \in DOMAIN hdr /\ hdr[hdr[a].next].fille
      BY <3>1, <2>0, <1>2 DEF Coalesced
    <3> QED BY <3>1, <3>2, <1>1, <1>5
  <2> QED BY <2>2, <2>3
<1>7. numbytes <= hdr'[walker].size
  BY <1>3, <1>5
<1>8. \A a \in Blocks' \ {walker} : hdr'[a].fille => a \in Blocks /\ hdr[a].fille
  BY <1>5
<1>9. \A a \in Blocks \ {walker} : hdr[a].fille => hdr'[a].fille /\ hdr'[a].size = hdr[a].size
  BY <1>5
<1>10. Blocks \subseteq Blocks'
  BY <1>5
<1> QED BY <1>1, <1>5, <1>6, <1>7, <1>8, <1>9, <1>10, ReturnInv

LEMMA DfreeInv ==
  ASSUME IInv, NEW p \in DOMAIN client, Dfree(p)
  PROVE  IInv'
<1> USE DEF Blocks, METADATA_T_ALIGNED
<1> DEFINE b == p - 32
<1>1. /\ freelist = 0 /\ pc = "idle" /\ freelist' = freelist /\ call' = call
      /\ hdr' = AbsorbInPrev(AbsorbNext(MarkFree(hdr, b), b), b)
      /\ client' = [q \in DOMAIN client \ {p} |-> client[q]]
  BY DEF Dfree, IInv, CallInv, TypeOK
<1>2. \A q \in DOMAIN client : /\ q - 32 \in Blocks /\ hdr[q - 32].fille /\ q \in Nat
                               /\ client[q] <= hdr[q - 32].size
  <2>1. \A q \in DOMAIN client : \E c \in Blocks : hdr[c].fille /\ q = c + 32
    BY DEF IInv, ClientIntact, LargeEnough
  <2> QED BY <2>1 DEF IInv, ClientIntact, LargeEnough, TypeOK
<1>3. \A a \in Blocks : hdr[a].fille => a + 32 \in DOMAIN client
  BY DEF IInv, ClientIntact, LargeEnough
<1>4. Heaplike(hdr) /\ Coalesced(hdr) /\ b \in Blocks /\ hdr[b].fille
  BY <1>1, <1>2, HeapExists
<1> HIDE DEF b
<1>5. /\ Heaplike(hdr') /\ Coalesced(hdr')
      /\ \A a \in Blocks' : hdr'[a].fille => a \in Blocks \ {b} /\ hdr[a].fille
      /\ \A a \in Blocks \ {b} : hdr[a].fille =>
           a \in Blocks' /\ hdr'[a].fille /\ hdr'[a].size = hdr[a].size
  BY <1>1, <1>4, DfreeHeaplike
<1>6. DOMAIN client' = DOMAIN client \ {p} /\ \A q \in DOMAIN client' : client'[q] = client[q]
  BY <1>1
<1>7. TypeOK'
  <2>1. client' \in [DOMAIN client \ {p} -> Requests]
    BY <1>1 DEF IInv, TypeOK
  <2> QED BY <1>1, <1>5, <1>6, <2>1 DEF IInv, TypeOK, Heaplike, call
<1>8. ClientIntact'
  <2>1. ASSUME NEW q
        PROVE  q \in DOMAIN client' <=> \E a \in Blocks' : hdr'[a].fille /\ q = a + 32
    <3>1. ASSUME q \in DOMAIN client' PROVE \E a \in Blocks' : hdr'[a].fille /\ q = a + 32
      <4>1. q \in DOMAIN client /\ q # p
        BY <3>1, <1>6
      <4>2. q - 32 \in Blocks \ {b} /\ hdr[q - 32].fille /\ q = (q - 32) + 32
        BY <4>1, <1>2 DEF b
      <4> QED BY <4>2, <1>5
    <3>2. ASSUME NEW a \in Blocks', hdr'[a].fille, q = a + 32 PROVE q \in DOMAIN client'
      <4>1. a \in Blocks \ {b} /\ hdr[a].fille /\ a \in Nat
        BY <3>2, <1>5 DEF Heaplike
      <4>2. q # p
        BY <3>2, <4>1, <1>2 DEF b
      <4> QED BY <3>2, <4>1, <4>2, <1>3, <1>6
    <3> QED BY <3>1, <3>2
  <2>2. ASSUME NEW q \in DOMAIN client' PROVE client'[q] <= hdr'[q - 32].size
    <3>1. q \in DOMAIN client /\ q # p /\ client'[q] = client[q]
      BY <1>6
    <3>2. q - 32 \in Blocks \ {b} /\ hdr[q - 32].fille
      BY <3>1, <1>2 DEF b
    <3> QED BY <3>1, <3>2, <1>2, <1>5
  <2> QED BY <2>1, <2>2 DEF ClientIntact, LargeEnough
<1>9. Tiling' /\ NoAdjacentFree' /\ FirstFit' /\ CallInv'
  BY <1>1, <1>5 DEF Tiling, NoAdjacentFree, FirstFit, CallInv, Heaplike, call
<1> QED BY <1>7, <1>8, <1>9 DEF IInv

\* Every step preserves the invariant.
LEMMA NextInv ==
  ASSUME NoWrap, IInv, [Next]_vars
  PROVE  IInv'
<1>1. ASSUME NEW n \in Requests, CallDmalloc(n) PROVE IInv'
  BY <1>1, QuietInv
<1>2. ASSUME NEW n \in Requests, FirstDmalloc(n) PROVE IInv'
  BY <1>2, FirstInv
<1>3. CASE InitFails \/ Walk \/ NotFound \/ Crashed \/ UNCHANGED vars
  BY <1>3, QuietInv DEF Crashed
<1>4. CASE TakeWhole
  BY <1>4, TakeWholeInv
<1>5. CASE Split
  BY <1>5, SplitInv
<1>6. ASSUME NEW p \in DOMAIN client, Dfree(p) PROVE IInv'
  BY <1>6, DfreeInv
<1> QED BY <1>1, <1>2, <1>3, <1>4, <1>5, <1>6 DEF Next, Search

\* As long as no request overflows size_t, the blocks tile the slab, no two
\* neighbours are free, the program holds exactly the allocated blocks, and the
\* search is first fit.
THEOREM HeapInvariant == ASSUME NoWrap PROVE Spec => []IInv
<1>1. IInv /\ [Next]_vars => IInv'
  BY NextInv
<1> QED BY <1>1, InitInv, PTL DEF Spec

\* When the program has freed everything, the heap is one block again.
THEOREM FreedHeapIsWhole == ASSUME NoWrap PROVE Spec => []AllFreedIsOneBlock
<1>1. ASSUME IInv PROVE AllFreedIsOneBlock
  <2> USE DEF Blocks, NULL, METADATA_T_ALIGNED
  <2> SUFFICES ASSUME freelist = 0, DOMAIN client = {}
               PROVE  Blocks = {0} /\ hdr[0].size = HeapBytes - METADATA_T_ALIGNED
    BY DEF AllFreedIsOneBlock
  <2>1. Heaplike(hdr) /\ Coalesced(hdr)
    BY <1>1, HeapExists
  <2>2. \A b \in Blocks : ~hdr[b].fille
    BY <1>1 DEF IInv, ClientIntact, LargeEnough
  <2>3. 0 \in Blocks /\ \A b \in Blocks : b \in Nat /\ hdr[b].size \in Nat
    BY <2>1 DEF Heaplike, Tiled, Header
  <2>4. hdr[0].next = NULL
    BY <2>1, <2>2, <2>3 DEF Coalesced, Heaplike, Tiled, Linked
  <2>5. End(hdr, 0) = HeapBytes
    BY <2>1, <2>3, <2>4 DEF Heaplike, Tiled, Linked
  <2>6. ASSUME NEW b \in Blocks PROVE b = 0
    <3>1. 0 < b => HeapBytes <= b
      BY <2>1, <2>3, <2>5 DEF Heaplike, Tiled
    <3>2. End(hdr, b) <= HeapBytes
      BY <2>1 DEF Heaplike, Tiled
    <3> QED BY <3>1, <3>2, <2>3, HeapBytesFacts DEF End
  <2> QED BY <2>3, <2>5, <2>6, HeapBytesFacts DEF End
<1> QED BY <1>1, HeapInvariant, PTL

\* What dmalloc returns is aligned, in the slab, and overlaps nothing the
\* program holds.
LEMMA ReturnRefines ==
  ASSUME NoWrap, IInv, IInv', TakeWhole \/ Split
  PROVE  \E n \in Requests, p \in 0..HeapBytes : Alloc!Malloc(n, p)
<1> USE DEF Blocks, METADATA_T_ALIGNED
<1> DEFINE p == walker + 32
<1>1. /\ pc = "walk" /\ walker \in Blocks /\ freelist = 0 /\ numbytes \in Requests
      /\ ~hdr[walker].fille /\ Return /\ freelist' = 0
  BY DEF TakeWhole, Split, Fits, IInv, CallInv, Return
<1>2. client' = [q \in DOMAIN client \cup {p} |-> IF q = p THEN numbytes ELSE client[q]]
  BY <1>1 DEF Return
<1>3. DOMAIN client' = DOMAIN client \cup {p} /\ client'[p] = numbytes
      /\ \A q \in DOMAIN client : q # p => client'[q] = client[q]
  BY <1>2
<1>4. Heaplike(hdr')
  <2>1. (Heaplike(hdr) /\ Coalesced(hdr))'
    BY <1>1 DEF IInv, TypeOK, Tiling, NoAdjacentFree, Heaplike
  <2> QED BY <2>1
<1>5. \A q \in DOMAIN client' : /\ q \in Nat /\ client'[q] \in Nat /\ q - 32 \in DOMAIN hdr'
                                /\ client'[q] <= hdr'[q - 32].size
  <2>1. \A q \in DOMAIN client' : \E c \in DOMAIN hdr' : q = c + 32
    BY DEF IInv, ClientIntact, LargeEnough
  <2>2. \A n \in Requests : n \in Nat
    BY HeapAssumption
  <2> QED BY <2>1, <2>2 DEF IInv, ClientIntact, LargeEnough, TypeOK
<1>6. \A q \in DOMAIN client' : q + client'[q] <= End(hdr', q - 32)
  BY <1>4, <1>5 DEF End, Heaplike, Header
<1>7. walker \in Nat /\ walker \in DOMAIN hdr' /\ p - 32 = walker /\ p % 8 = 0
  <2>1. walker \in Nat
    BY <1>1 DEF IInv, TypeOK
  <2>2. walker \in DOMAIN hdr'
    BY <1>3, <1>5, <2>1
  <2>3. walker % 8 = 0
    BY <2>2, <1>4 DEF Heaplike, Tiled, WORD_SIZE
  <2> QED BY <2>1, <2>2, <2>3
<1>8. p \in 0..(HeapBytes - numbytes) /\ p \in 0..HeapBytes
  <2>1. p + numbytes <= End(hdr', walker) /\ End(hdr', walker) <= HeapBytes
        /\ End(hdr', walker) \in Nat
    <3>1. p + numbytes <= End(hdr', walker)
      BY <1>3, <1>6, <1>7
    <3>2. End(hdr', walker) <= HeapBytes
      BY <1>4, <1>7 DEF Heaplike, Tiled
    <3>3. End(hdr', walker) \in Nat
      BY <1>4, <1>7 DEF Heaplike, End, Header
    <3> QED BY <3>1, <3>2, <3>3
  <2> QED BY <2>1, <1>7, <1>1, HeapBytesFacts, HeapAssumption
<1>9. p \notin DOMAIN client
  <2>1. \A q \in DOMAIN client : \E c \in Blocks : hdr[c].fille /\ q = c + 32
    BY DEF IInv, ClientIntact, LargeEnough
  <2> QED BY <2>1, <1>1, <1>7 DEF IInv, TypeOK
<1>10. ASSUME NEW q \in DOMAIN client PROVE Alloc!Disjoint(p, numbytes, q, client[q])
  <2>1. /\ q \in DOMAIN client' /\ q # p /\ client'[q] = client[q]
        /\ q \in Nat /\ client[q] \in Nat /\ q - 32 \in DOMAIN hdr'
    BY <1>3, <1>5, <1>9
  <2>2. walker < q - 32 => End(hdr', walker) <= q - 32
    BY <1>4, <1>7, <2>1 DEF Heaplike, Tiled
  <2>3. q - 32 < walker => End(hdr', q - 32) <= walker
    BY <1>4, <1>7, <2>1 DEF Heaplike, Tiled
  <2>4. /\ p + numbytes <= End(hdr', walker) /\ q + client[q] <= End(hdr', q - 32)
        /\ End(hdr', walker) \in Nat /\ End(hdr', q - 32) \in Nat
    BY <1>3, <1>4, <1>6, <1>7, <2>1 DEF Heaplike, End, Header
  <2> QED BY <2>1, <2>2, <2>3, <2>4, <1>1, <1>7, HeapAssumption DEF Alloc!Disjoint
<1>11. Alloc!Malloc(numbytes, p)
  BY <1>2, <1>7, <1>8, <1>9, <1>10 DEF Alloc!Malloc, WORD_SIZE
<1> QED BY <1>1, <1>8, <1>11

\* For the program, dmm.c is an allocator: each of its steps gives out or takes
\* back memory as an allocator may, or does nothing the program can see.
THEOREM HeapRefinement == ASSUME NoWrap PROVE Spec => ImplementsAllocator
<1>1. Init => Alloc!Init
  BY DEF Init, Alloc!Init
<1>2. ASSUME IInv, IInv', [Next]_vars PROVE [Alloc!Next]_client
  <2>1. CASE \E n \in Requests : CallDmalloc(n) \/ FirstDmalloc(n)
    BY <2>1 DEF CallDmalloc, FirstDmalloc
  <2>2. CASE InitFails \/ Walk \/ NotFound \/ Crashed \/ UNCHANGED vars
    BY <2>2 DEF InitFails, Walk, NotFound, Crashed, vars
  <2>3. CASE TakeWhole \/ Split
    BY <2>3, <1>2, ReturnRefines DEF Alloc!Next
  <2>4. ASSUME NEW p \in DOMAIN client, Dfree(p) PROVE Alloc!Next
    <3>1. Alloc!Free(p)
      BY <2>4 DEF Dfree, Alloc!Free
    <3> QED BY <3>1 DEF Alloc!Next
  <2> QED BY <1>2, <2>1, <2>2, <2>3, <2>4 DEF Next, Search
<1> QED BY <1>1, <1>2, HeapInvariant, PTL DEF Spec, ImplementsAllocator, Alloc!Spec
=============================================================================
