-------------------------- MODULE PagedForthProofs --------------------------
(***************************************************************************)
(* The pager of paged_forth_lib.c is right for any region, any limits, any *)
(* program and any number of starts, as long as its ints do not wrap, no   *)
(* instruction needs more pages than may be mapped, and nobody uses the    *)
(* address just above the region.                                          *)
(***************************************************************************)
EXTENDS PagedForth, FiniteSetTheorems, SequenceTheorems, WellFoundedInduction, TLAPS

Top == NUM_PAGES * PAGE_SIZE - 1

\* totcount and the distances fit an int.
IntsFit ==
  /\ \A n \in 0..FAULTS : ToInt(n) = n
  /\ \A a \in Addresses \cup {Top} : ToInt(a) = a
EnoughPages == \A m \in Limits : Reach <= m
EndUnused == NUM_PAGES * PAGE_SIZE \notin Addresses

Region == 0..(NUM_PAGES - 1)
Used == Addresses \cup {Top}

-----------------------------------------------------------------------------
\* Before the first start there is nothing; then the arrays have their sizes.
Started ==
  \/ starts = 0 /\ max_pages = 0 /\ instr = NoInstr /\ mapped = {} /\ loadarr = <<>> /\ written = <<>>
  \/ starts > 0 /\ max_pages \in Limits /\ loadarr \in [Region -> BOOLEAN]

Typed ==
  /\ starts \in Nat /\ faults \in Nat /\ totcount \in 0..FAULTS
  /\ lifearr \in [Slots -> Nat]
  /\ namearr \in [Slots -> {-1} \cup Region]
  /\ file \in [0..NUM_PAGES -> {NoFile} \cup [0..(PAGE_SIZE - 1) -> Nat]]
  /\ status \in {"running", "exited"}

\* An instruction uses some addresses, and writes one of them.
Instruction ==
  \/ instr = NoInstr /\ faults = 0
  \/ /\ instr.addrs \subseteq Used /\ IsFiniteSet(instr.addrs)
     /\ Cardinality(instr.addrs) <= Reach
     /\ instr.to \in instr.addrs /\ instr.byte \in Bytes

Books ==
  /\ mapped = {namearr[s] : s \in Held}
  /\ \A s, t \in Held : namearr[s] = namearr[t] => s = t
  /\ \A p \in mapped : loadarr[p]

\* The slots that are free have been so the longest, and no two pages came at
\* the same time.
Ages ==
  /\ \A s \in Slots, t \in Held : s \notin Held => lifearr[t] < lifearr[s]
  /\ \A s, t \in Held : lifearr[s] = lifearr[t] => s = t
  /\ \A s \in Slots : lifearr[s] <= totcount

\* What has been mapped for the current instruction is still mapped.
Needed == {PageOf(a) : a \in instr.addrs}
Fetched == {namearr[s] : s \in {s \in Held : lifearr[s] < faults}}
Recent == Fetched \subseteq Needed /\ Cardinality(Fetched) = faults

\* Before totcount reaches max_pages there is a free slot, and no page has been
\* thrown out.
Counts ==
  /\ Cardinality(Held) <= totcount
  /\ status = "running" => totcount + Cardinality(instr.addrs) <= FAULTS + faults
  /\ totcount < max_pages => \A p \in DOMAIN loadarr : loadarr[p] => p \in mapped

Contents ==
  \A a \in DOMAIN written :
    /\ a \in Used /\ PageOf(a) \in Region
    /\ loadarr[PageOf(a)] /\ file[PageOf(a)] # NoFile
    /\ file[PageOf(a)][Offset(a)] = written[a]

IInv == Started /\ Typed /\ Instruction /\ Books /\ Ages /\ Recent /\ Counts /\ Contents

-----------------------------------------------------------------------------
\* Arithmetic of pages
LEMMA PageArithmetic ==
  ASSUME NEW a \in Int
  PROVE  /\ PageOf(a) \in Int
         /\ Offset(a) \in 0..(PAGE_SIZE - 1)
         /\ a = PAGE_SIZE * PageOf(a) + Offset(a)
<1>1. PAGE_SIZE \in Nat \ {0}
  BY PagedForthAssumption
<1> QED BY <1>1, Z3 DEF PageOf, Offset

LEMMA PageInRegion ==
  ASSUME NEW a \in Int, 0 <= a, a < NUM_PAGES * PAGE_SIZE
  PROVE  PageOf(a) \in Region
<1>1. PAGE_SIZE \in Nat \ {0} /\ NUM_PAGES \in Nat \ {0}
  BY PagedForthAssumption
<1> DEFINE p == PageOf(a)
           o == Offset(a)
<1>2. p \in Int /\ o \in 0..(PAGE_SIZE - 1) /\ a = PAGE_SIZE * p + o
  BY PageArithmetic
<1> HIDE DEF p, o
<1>3. p >= 0
  <2> SUFFICES ASSUME p <= -1 PROVE FALSE
    BY <1>2
  <2>1. PAGE_SIZE * p <= -PAGE_SIZE
    BY <1>1, <1>2, Z3
  <2> QED BY <1>1, <1>2, <2>1
<1>4. p < NUM_PAGES
  <2> SUFFICES ASSUME p >= NUM_PAGES PROVE FALSE
    BY <1>1, <1>2
  <2>1. PAGE_SIZE * p >= NUM_PAGES * PAGE_SIZE
    BY <1>1, <1>2, Z3
  <2> QED BY <1>1, <1>2, <2>1
<1> QED BY <1>1, <1>2, <1>3, <1>4 DEF p, Region

\* What an int holds is at most half its modulus.
LEMMA ToIntRange ==
  ASSUME NEW n \in Int
  PROVE  ToInt(n) <= INT_MOD \div 2
<1>1. INT_MOD \in Nat \ {0}
  BY PagedForthAssumption
<1> DEFINE m == n + (INT_MOD \div 2)
<1>2. m \in Int
  BY <1>1
<1> HIDE DEF m
<1>3. m % INT_MOD \in 0..(INT_MOD - 1)
  BY <1>1, <1>2, Z3
<1>4. (m % INT_MOD) - INT_MOD \div 2 <= INT_MOD \div 2
  BY <1>1, <1>3
<1> QED BY <1>4 DEF ToInt, m

\* Sets of numbers
LEMMA LeastNat ==
  ASSUME NEW S \in SUBSET Nat, S # {}
  PROVE  Min(S) \in S
<1> DEFINE R == OpToRel(<, Nat)
<1>1. PICK x \in S : \A y \in S : ~(<<y, x>> \in R)
  BY NatLessThanWellFounded, WFMin
<1>2. \A m \in Nat, n \in Nat : <<n, m>> \in R <=> n < m
  BY DEF OpToRel
<1> HIDE DEF R
<1>3. ASSUME NEW y \in S
      PROVE  x =< y
  <2>1. x \in Nat /\ y \in Nat
    OBVIOUS
  <2>2. ~(y < x)
    BY <1>1, <1>2, <2>1, Zenon
  <2> QED BY <2>1, <2>2
<1> QED BY <1>3 DEF Min

\* A bounded function on a set has a greatest value.
LEMMA Greatest ==
  ASSUME NEW S, S # {}, NEW f \in [S -> Nat], NEW b \in Nat, \A s \in S : f[s] <= b
  PROVE  \E s \in S : \A t \in S : f[t] <= f[s]
<1> DEFINE U == {n \in Nat : \A s \in S : f[s] <= n}
<1>1. b \in U
  OBVIOUS
<1>2. \E n \in U : \A y \in U : ~(<<y, n>> \in OpToRel(<, Nat))
  <2>1. U \subseteq Nat /\ U # {}
    BY <1>1
  <2> QED BY <2>1, NatLessThanWellFounded, WFMin
<1>3. \A x \in Nat, y \in Nat : <<y, x>> \in OpToRel(<, Nat) <=> y < x
  BY DEF OpToRel
<1>4. PICK n \in U : \A y \in U : ~(y < n)
  BY <1>2, <1>3
<1>5. n = 0 \/ n - 1 \notin U
  BY <1>4
<1>6. PICK s \in S : f[s] >= n
  BY <1>5
<1> QED BY <1>6

LEMMA SlotsFacts ==
  ASSUME max_pages \in Nat
  PROVE  Slots \subseteq Nat /\ IsFiniteSet(Slots) /\ Cardinality(Slots) = max_pages
<1>1. max_pages - 1 \in Int /\ 0 \in Int
  OBVIOUS
<1> QED BY <1>1, FS_Interval DEF Slots

-----------------------------------------------------------------------------
\* Facts that follow from the invariant
LEMMA InInstruction ==
  ASSUME IInv, NEW a \in instr.addrs
  PROVE  /\ starts > 0 /\ max_pages \in Limits /\ max_pages \in Nat \ {0}
         /\ loadarr \in [Region -> BOOLEAN]
         /\ IsFiniteSet(instr.addrs) /\ Cardinality(instr.addrs) \in Nat
         /\ Cardinality(instr.addrs) <= Reach
         /\ IsFiniteSet(Needed) /\ Cardinality(Needed) \in Nat
         /\ Cardinality(Needed) <= Cardinality(instr.addrs)
         /\ a \in Used /\ a \in Int /\ PageOf(a) \in Needed
<1>1. instr # NoInstr
  BY DEF NoInstr
<1>2. starts > 0 /\ max_pages \in Limits /\ loadarr \in [Region -> BOOLEAN]
  BY <1>1 DEF IInv, Started
<1>3. instr.addrs \subseteq Used /\ IsFiniteSet(instr.addrs) /\ Cardinality(instr.addrs) <= Reach
  BY <1>1 DEF IInv, Instruction
<1>4. Cardinality(instr.addrs) \in Nat
  BY <1>3, FS_CardinalityType
<1> DEFINE f == [b \in instr.addrs |-> PageOf(b)]
<1>5. f \in Surjection(instr.addrs, Needed)
  BY DEF Surjection, Needed
<1>6. IsFiniteSet(Needed) /\ Cardinality(Needed) <= Cardinality(instr.addrs)
  BY <1>3, <1>5, FS_Surjection
<1>7. Cardinality(Needed) \in Nat
  BY <1>6, FS_CardinalityType
<1>8. Used \subseteq Int
  BY PagedForthAssumption DEF Used, Top
<1>9. max_pages \in Nat \ {0}
  BY <1>2, PagedForthAssumption
<1> QED BY <1>2, <1>3, <1>4, <1>6, <1>7, <1>8, <1>9 DEF Needed

\* Every fault is for another page of the instruction, so totcount does not
\* pass its bound.
LEMMA OneMore ==
  ASSUME IInv, NEW a \in instr.addrs, PageOf(a) \notin mapped
  PROVE  /\ IsFiniteSet(Fetched) /\ Cardinality(Fetched) = faults /\ PageOf(a) \notin Fetched
         /\ faults + 1 <= Cardinality(Needed)
<1>1. IsFiniteSet(Needed) /\ Cardinality(Needed) \in Nat /\ PageOf(a) \in Needed
  BY InInstruction
<1>2. Fetched \subseteq Needed /\ Cardinality(Fetched) = faults
  BY DEF IInv, Recent
<1>3. Fetched \subseteq mapped
  BY DEF IInv, Books, Fetched
<1>4. IsFiniteSet(Fetched)
  BY <1>1, <1>2, FS_Subset
<1> DEFINE F == Fetched \cup {PageOf(a)}
<1>5. Cardinality(F) = faults + 1
  BY <1>2, <1>3, <1>4, FS_AddElement
<1>6. F \subseteq Needed
  BY <1>1, <1>2
<1>7. Cardinality(F) <= Cardinality(Needed)
  BY <1>1, <1>6, FS_Subset
<1> QED BY <1>2, <1>3, <1>4, <1>5, <1>7

\* A fault in the region finds its page, and counts without wrapping.
LEMMA FaultFacts ==
  ASSUME IntsFit, EndUnused, IInv, NEW a, Faulting(a)
  PROVE  /\ a \in instr.addrs /\ totcount + 1 \in 0..FAULTS /\ Counted = totcount + 1
         /\ InRegion(a) => pagenum(a) = PageOf(a) /\ PageOf(a) \in Region \ mapped
<1>1. a \in instr.addrs /\ status = "running" /\ PageOf(a) \notin mapped
  BY DEF Faulting
<1>2. a \in Used /\ a \in Int /\ Cardinality(instr.addrs) \in Nat /\ Cardinality(Needed) \in Nat
      /\ Cardinality(Needed) <= Cardinality(instr.addrs)
  BY <1>1, InInstruction
<1>3. faults + 1 <= Cardinality(Needed)
  BY <1>1, OneMore
<1>4. totcount + Cardinality(instr.addrs) <= FAULTS + faults
  BY <1>1 DEF IInv, Counts
<1>5. totcount \in Nat /\ faults \in Nat /\ FAULTS \in Nat
  BY PagedForthAssumption DEF IInv, Typed
<1>6. totcount + 1 \in 0..FAULTS
  BY <1>2, <1>3, <1>4, <1>5
<1>7. Counted = totcount + 1
  BY <1>6 DEF Counted, IntsFit
<1>8. Distance(a) = a
  BY <1>2 DEF IntsFit, Distance, Used
<1>9. ASSUME InRegion(a)
      PROVE  PageOf(a) \in Region
  <2>1. a >= 0 /\ a <= NUM_PAGES * PAGE_SIZE
    BY <1>8, <1>9 DEF InRegion
  <2>2. NUM_PAGES * PAGE_SIZE \in Int
    BY PagedForthAssumption
  <2>3. a # NUM_PAGES * PAGE_SIZE
    BY <1>2, <2>2 DEF Used, Top, EndUnused
  <2>4. a < NUM_PAGES * PAGE_SIZE
    BY <1>2, <2>1, <2>2, <2>3
  <2> QED BY <1>2, <2>1, <2>4, PageInRegion
<1> QED BY <1>1, <1>6, <1>7, <1>8, <1>9 DEF pagenum, PageOf

-----------------------------------------------------------------------------
\* What both ways to repair a fault do: page p comes into slot s, which is free
\* or, when none is, the oldest; the others age; the contents of p stay if this
\* instance has had the page before.
Fetches(p, s) ==
  /\ status = "running" /\ p \in Needed /\ p \in Region \ mapped /\ s \in Slots
  /\ totcount' = totcount + 1 /\ faults' = faults + 1 /\ totcount + 1 \in 0..FAULTS
  /\ lifearr' = [t \in Slots |-> IF t = s THEN 0 ELSE lifearr[t] + 1]
  /\ namearr' = [namearr EXCEPT ![s] = p]
  /\ loadarr' = [loadarr EXCEPT ![p] = TRUE]
  /\ mapped' = (mapped \ {namearr[s]}) \cup {p}
  /\ \/ s \notin Held
     \/ Held = Slots /\ totcount >= max_pages /\ \A t \in Slots : lifearr[t] <= lifearr[s]
  /\ file' \in [0..NUM_PAGES -> {NoFile} \cup [0..(PAGE_SIZE - 1) -> Nat]]
  /\ \A q \in Region : q # p \/ loadarr[p] => file'[q] = file[q]
  /\ UNCHANGED <<max_pages, instr, written, starts, status>>

LEMMA AgedFacts ==
  ASSUME IInv, NEW s \in Slots
  PROVE  [Aged EXCEPT ![s] = 0] = [t \in Slots |-> IF t = s THEN 0 ELSE lifearr[t] + 1]
BY DEF Aged

LEMMA LoadedFacts ==
  ASSUME loadarr \in [Region -> BOOLEAN], NEW p \in Region, MarkLoaded(p)
  PROVE  loadarr' = [loadarr EXCEPT ![p] = TRUE]
BY DEF MarkLoaded

\* The new file is made long enough; this is the first time the page comes in.
LEMMA NewFile ==
  ASSUME IInv, NEW p \in Region, MapNewFile(p)
  PROVE  /\ file' \in [0..NUM_PAGES -> {NoFile} \cup [0..(PAGE_SIZE - 1) -> Nat]]
         /\ \A q \in Region : q # p => file'[q] = file[q]
<1> DEFINE F == [0..(PAGE_SIZE - 1) -> Nat]
<1>1. NUM_PAGES \in Nat \ {0} /\ PAGE_SIZE \in Nat \ {0}
  BY PagedForthAssumption
<1>2. file \in [0..NUM_PAGES -> {NoFile} \cup F]
  BY DEF IInv, Typed
<1>3. p \in 0..NUM_PAGES /\ Region \subseteq 0..NUM_PAGES /\ Blank \in F
  BY <1>1 DEF Region, Blank
<1> DEFINE g == IF file[p] = NoFile THEN Blank ELSE file[p]
<1>4. g \in F
  BY <1>2, <1>3
<1> HIDE DEF g
<1>5. [g EXCEPT ![PAGE_SIZE - 1] = 0] \in F
  BY <1>1, <1>4
<1> DEFINE h == [g EXCEPT ![PAGE_SIZE - 1] = 0]
<1> HIDE DEF F, h
<1>6. file' = [file EXCEPT ![p] = h]
  BY DEF MapNewFile, g, h
<1> QED BY <1>2, <1>3, <1>5, <1>6 DEF F, h

\* Line 117: as long as totcount is below max_pages there is a free slot.
LEMMA MapFetches ==
  ASSUME IntsFit, EndUnused, IInv, NEW a, MapPage(a)
  PROVE  \E s \in Slots : s \notin Held /\ Fetches(PageOf(a), s)
<1> DEFINE p == PageOf(a)
<1>1. Faulting(a) /\ InRegion(a) /\ ~Full
  BY DEF MapPage
<1>2. a \in instr.addrs /\ totcount + 1 \in 0..FAULTS /\ Counted = totcount + 1
      /\ pagenum(a) = p /\ p \in Region \ mapped
  BY <1>1, FaultFacts
<1>3. /\ max_pages \in Nat \ {0} /\ loadarr \in [Region -> BOOLEAN] /\ p \in Needed
      /\ totcount \in Nat /\ FAULTS \in Nat
  BY <1>2, InInstruction, PagedForthAssumption DEF IInv, Typed
<1>4. totcount < max_pages
  BY <1>1, <1>2, <1>3 DEF Full
<1>5. FreeSlots # {}
  <2> SUFFICES ASSUME FreeSlots = {} PROVE FALSE
    OBVIOUS
  <2>1. Held = Slots
    BY DEF FreeSlots, Held
  <2>2. Cardinality(Held) <= totcount
    BY DEF IInv, Counts
  <2>3. Cardinality(Held) = max_pages
    BY <1>3, <2>1, SlotsFacts
  <2> QED BY <1>3, <1>4, <2>2, <2>3
<1> DEFINE s == Min(FreeSlots)
<1>6. s \in FreeSlots
  <2>1. FreeSlots \subseteq Nat
    BY <1>3, SlotsFacts DEF FreeSlots
  <2> QED BY <1>5, <2>1, LeastNat
<1>7. s \in Slots /\ s \notin Held /\ namearr[s] = -1
  BY <1>6 DEF FreeSlots, Held
<1>8. /\ totcount' = totcount + 1 /\ faults' = faults + 1
      /\ lifearr' = [Aged EXCEPT ![s] = 0]
      /\ namearr' = [namearr EXCEPT ![s] = p]
      /\ mapped' = mapped \cup {p}
      /\ UNCHANGED <<max_pages, instr, written, starts, status>>
      /\ MapNewFile(p) /\ MarkLoaded(p)
  BY <1>2, <1>5 DEF MapPage
<1> HIDE DEF s
<1>9. lifearr' = [t \in Slots |-> IF t = s THEN 0 ELSE lifearr[t] + 1]
  BY <1>7, <1>8, AgedFacts
<1>10. loadarr' = [loadarr EXCEPT ![p] = TRUE]
  BY <1>2, <1>3, <1>8, LoadedFacts
<1>11. mapped' = (mapped \ {namearr[s]}) \cup {p}
  <2>1. mapped \subseteq Region /\ -1 \notin Region
    BY DEF IInv, Books, Typed, Held, Region
  <2> QED BY <1>7, <1>8, <2>1
<1>12. ~loadarr[p]
  BY <1>2, <1>3, <1>4 DEF IInv, Counts
<1>13. /\ file' \in [0..NUM_PAGES -> {NoFile} \cup [0..(PAGE_SIZE - 1) -> Nat]]
       /\ \A q \in Region : q # p => file'[q] = file[q]
  BY <1>2, <1>8, NewFile
<1>14. status = "running"
  BY <1>1 DEF Faulting
<1>15. Fetches(p, s)
  BY <1>2, <1>3, <1>7, <1>8, <1>9, <1>10, <1>11, <1>12, <1>13, <1>14 DEF Fetches
<1> QED BY <1>7, <1>15

\* Line 40: the oldest slot is a free one, if there is one.
LEMMA ReplaceFetches ==
  ASSUME IntsFit, EndUnused, IInv, NEW a, ReplacePage(a)
  PROVE  \E s \in Slots : Fetches(PageOf(a), s)
<1> DEFINE p == PageOf(a)
           s == Oldest
<1>1. Faulting(a) /\ InRegion(a) /\ Full
  BY DEF ReplacePage
<1>2. a \in instr.addrs /\ totcount + 1 \in 0..FAULTS /\ Counted = totcount + 1
      /\ pagenum(a) = p /\ p \in Region \ mapped
  BY <1>1, FaultFacts
<1>3. /\ max_pages \in Nat \ {0} /\ loadarr \in [Region -> BOOLEAN] /\ p \in Needed
      /\ totcount \in Nat /\ FAULTS \in Nat /\ lifearr \in [Slots -> Nat]
  BY <1>2, InInstruction, PagedForthAssumption DEF IInv, Typed
<1>4. totcount >= max_pages
  BY <1>1, <1>2, <1>3 DEF Full
<1>5. s \in Slots /\ \A t \in Slots : lifearr[t] <= lifearr[s]
  <2> DEFINE O == {r \in Slots : \A t \in Slots : Aged[t] <= Aged[r]}
  <2>1. Slots \subseteq Nat /\ 0 \in Slots
    BY <1>3, SlotsFacts DEF Slots
  <2>2. \A r \in Slots : lifearr[r] <= totcount
    BY DEF IInv, Ages
  <2>3. PICK r \in Slots : \A t \in Slots : lifearr[t] <= lifearr[r]
    BY <1>3, <2>1, <2>2, Greatest
  <2>4. \A t, u \in Slots : Aged[t] <= Aged[u] <=> lifearr[t] <= lifearr[u]
    BY <1>3 DEF Aged
  <2>5. O \subseteq Nat /\ O # {}
    BY <2>1, <2>3, <2>4
  <2>6. s \in O
    BY <2>5, LeastNat DEF Oldest
  <2> QED BY <2>4, <2>6
<1>6. /\ totcount' = totcount + 1 /\ faults' = faults + 1
      /\ lifearr' = [Aged EXCEPT ![s] = 0]
      /\ namearr' = [namearr EXCEPT ![s] = p]
      /\ mapped' = (mapped \ {namearr[s]}) \cup {p}
      /\ UNCHANGED <<max_pages, instr, written, starts, status>>
      /\ MarkLoaded(p)
      /\ \E before \in LoadedBefore(p) : IF before THEN MapOldFile(p) ELSE MapNewFile(p)
  BY <1>2 DEF ReplacePage
<1> HIDE DEF s
<1>7. lifearr' = [t \in Slots |-> IF t = s THEN 0 ELSE lifearr[t] + 1]
  BY <1>5, <1>6, AgedFacts
<1>8. loadarr' = [loadarr EXCEPT ![p] = TRUE]
  BY <1>2, <1>3, <1>6, LoadedFacts
<1>9. s \notin Held \/ Held = Slots
  <2> SUFFICES ASSUME s \in Held, NEW t \in Slots, t \notin Held
               PROVE  FALSE
    BY DEF Held
  <2>1. lifearr[s] < lifearr[t]
    BY DEF IInv, Ages
  <2>2. lifearr[t] <= lifearr[s] /\ lifearr[s] \in Nat /\ lifearr[t] \in Nat
    BY <1>3, <1>5
  <2> QED BY <2>1, <2>2
<1>10. /\ file' \in [0..NUM_PAGES -> {NoFile} \cup [0..(PAGE_SIZE - 1) -> Nat]]
       /\ \A q \in Region : q # p \/ loadarr[p] => file'[q] = file[q]
  <2>1. LoadedBefore(p) = {loadarr[p]}
    BY <1>2, <1>3 DEF LoadedBefore
  <2>2. CASE loadarr[p]
    BY <1>6, <2>1, <2>2 DEF MapOldFile, IInv, Typed
  <2>3. CASE ~loadarr[p]
    <3>1. MapNewFile(p)
      BY <1>6, <2>1, <2>3
    <3> QED BY <1>2, <2>3, <3>1, NewFile
  <2> QED BY <2>2, <2>3
<1>11. status = "running"
  BY <1>1 DEF Faulting
<1>12. Fetches(p, s)
  BY <1>2, <1>3, <1>4, <1>5, <1>6, <1>7, <1>8, <1>9, <1>10, <1>11 DEF Fetches
<1> QED BY <1>5, <1>12

-----------------------------------------------------------------------------
\* A fault keeps the invariant.

LEMMA FetchedSlots ==
  ASSUME IInv, NEW p, NEW s, Fetches(p, s)
  PROVE  /\ Slots' = Slots /\ Needed' = Needed
         /\ \A t \in Slots : namearr'[t] = IF t = s THEN p ELSE namearr[t]
         /\ \A t \in Slots : lifearr'[t] = IF t = s THEN 0 ELSE lifearr[t] + 1
         /\ Held' = Held \cup {s}
         /\ max_pages \in Limits /\ max_pages \in Nat \ {0}
         /\ loadarr \in [Region -> BOOLEAN]
<1>1. Slots' = Slots /\ Needed' = Needed
  BY DEF Fetches, Slots, Needed
<1>2. /\ \A t \in Slots : namearr'[t] = IF t = s THEN p ELSE namearr[t]
      /\ \A t \in Slots : lifearr'[t] = IF t = s THEN 0 ELSE lifearr[t] + 1
  BY DEF Fetches, IInv, Typed
<1>3. p # -1 /\ s \in Slots
  BY PagedForthAssumption DEF Fetches, Region
<1>4. Held' = Held \cup {s}
  BY <1>1, <1>2, <1>3 DEF Held
<1>5. PICK a \in instr.addrs : TRUE
  BY DEF Fetches, Needed
<1> QED BY <1>1, <1>2, <1>4, <1>5, InInstruction

\* The page that is thrown out was not brought in for the same instruction: there
\* are more slots than pages that it has had so far.
LEMMA NotFetched ==
  ASSUME EnoughPages, IInv, NEW p, NEW s, Fetches(p, s), s \in Held
  PROVE  lifearr[s] >= faults
<1> SUFFICES ASSUME lifearr[s] < faults PROVE FALSE
  BY DEF IInv, Typed, Held
<1>1. max_pages \in Limits /\ max_pages \in Nat \ {0}
  BY FetchedSlots
<1>2. PICK a \in instr.addrs : p = PageOf(a)
  BY DEF Fetches, Needed
<1>3. p \notin mapped
  BY DEF Fetches
<1>4. faults + 1 <= Cardinality(Needed) /\ Cardinality(Fetched) = faults
  BY <1>2, <1>3, OneMore
<1>5. Cardinality(Needed) \in Nat /\ Cardinality(Needed) <= Reach
  <2>1. /\ Cardinality(Needed) \in Nat /\ Cardinality(instr.addrs) \in Nat
        /\ Cardinality(Needed) <= Cardinality(instr.addrs) /\ Cardinality(instr.addrs) <= Reach
    BY <1>2, InInstruction
  <2> QED BY <2>1, PagedForthAssumption
<1>6. Held = Slots /\ \A t \in Slots : lifearr[t] <= lifearr[s]
  BY DEF Fetches
<1>7. \A t \in Slots : lifearr[t] < faults
  BY <1>6 DEF IInv, Typed, Held
<1> DEFINE g == [t \in Slots |-> namearr[t]]
<1>8. g \in Bijection(Slots, Fetched)
  <2>1. Fetched = {namearr[t] : t \in Slots}
    BY <1>6, <1>7 DEF Fetched
  <2>2. \A t, u \in Slots : namearr[t] = namearr[u] => t = u
    BY <1>6 DEF IInv, Books
  <2> QED BY <2>1, <2>2 DEF Bijection, Injection, Surjection, IsInjective
<1>9. Cardinality(Fetched) = max_pages
  BY <1>1, <1>8, SlotsFacts, FS_Bijection DEF ExistsBijection
<1>10. Reach <= max_pages
  BY <1>1 DEF EnoughPages
<1>11. faults \in Nat /\ Reach \in Nat
  BY PagedForthAssumption DEF IInv, Typed
<1> QED BY <1>1, <1>4, <1>5, <1>9, <1>10, <1>11

LEMMA FaultBooks ==
  ASSUME IInv, NEW p, NEW s, Fetches(p, s)
  PROVE  Books'
<1>1. p \in Region \ mapped /\ mapped' = (mapped \ {namearr[s]}) \cup {p} /\ s \in Slots
      /\ loadarr' = [loadarr EXCEPT ![p] = TRUE]
  BY DEF Fetches
<1>2. /\ mapped = {namearr[t] : t \in Held} /\ \A q \in mapped : loadarr[q]
      /\ \A t, u \in Held : namearr[t] = namearr[u] => t = u
  BY DEF IInv, Books
<1>3. /\ Held' = Held \cup {s} /\ loadarr \in [Region -> BOOLEAN]
      /\ \A t \in Slots : namearr'[t] = IF t = s THEN p ELSE namearr[t]
  BY FetchedSlots
<1>4. Held \subseteq Slots /\ \A t \in Held : namearr[t] \in Region
  BY DEF Held, IInv, Typed
<1>5. s \notin Held => namearr[s] = -1
  BY <1>1 DEF Held
<1>6. -1 \notin Region
  BY PagedForthAssumption DEF Region
<1>7. mapped' = {namearr'[t] : t \in Held'}
  <2>1. ASSUME NEW q \in mapped'
        PROVE  \E t \in Held' : q = namearr'[t]
    <3>1. CASE q = p
      BY <1>1, <1>3, <3>1
    <3>2. CASE q # p
      <4>1. q \in mapped /\ q # namearr[s]
        BY <1>1, <2>1, <3>2
      <4>2. PICK t \in Held : q = namearr[t]
        BY <1>2, <4>1
      <4> QED BY <1>3, <1>4, <4>1, <4>2
    <3> QED BY <3>1, <3>2
  <2>2. ASSUME NEW t \in Held'
        PROVE  namearr'[t] \in mapped'
    <3>1. CASE t = s
      BY <1>1, <1>3, <3>1
    <3>2. CASE t # s
      <4>1. t \in Held /\ namearr'[t] = namearr[t]
        BY <1>3, <1>4, <3>2, <2>2
      <4>2. namearr[t] \in mapped
        BY <1>2, <4>1
      <4>3. namearr[t] # namearr[s]
        BY <1>2, <1>4, <1>5, <1>6, <3>2, <4>1
      <4> QED BY <1>1, <4>1, <4>2, <4>3
    <3> QED BY <3>1, <3>2
  <2> QED BY <2>1, <2>2
<1>8. \A t, u \in Held' : namearr'[t] = namearr'[u] => t = u
  <2>1. \A t \in Held : namearr[t] # p
    BY <1>1, <1>2
  <2> QED BY <1>1, <1>2, <1>3, <1>4, <2>1
<1>9. \A q \in mapped' : loadarr'[q]
  <2>1. mapped \subseteq Region
    BY <1>2, <1>4
  <2> QED BY <1>1, <1>2, <1>3, <2>1
<1> QED BY <1>7, <1>8, <1>9 DEF Books

LEMMA FaultAges ==
  ASSUME IInv, NEW p, NEW s, Fetches(p, s)
  PROVE  Ages'
<1>1. /\ Held' = Held \cup {s} /\ Slots' = Slots /\ s \in Slots
      /\ \A t \in Slots : lifearr'[t] = IF t = s THEN 0 ELSE lifearr[t] + 1
      /\ totcount' = totcount + 1
  BY FetchedSlots DEF Fetches
<1>2. lifearr \in [Slots -> Nat] /\ totcount \in Nat
  BY DEF IInv, Typed
<1>3. Held \subseteq Slots
  BY DEF Held
<1>4. ASSUME NEW t \in Slots, NEW u \in Held', t \notin Held'
      PROVE  lifearr'[u] < lifearr'[t]
  <2>1. t # s /\ t \notin Held /\ lifearr'[t] = lifearr[t] + 1
    BY <1>1, <1>4
  <2>2. CASE u = s
    BY <1>1, <1>2, <2>1, <2>2
  <2>3. CASE u # s
    <3>1. u \in Held /\ lifearr'[u] = lifearr[u] + 1
      BY <1>1, <1>3, <1>4, <2>3
    <3>2. lifearr[u] < lifearr[t]
      BY <2>1, <3>1 DEF IInv, Ages
    <3> QED BY <1>2, <1>3, <2>1, <3>1, <3>2
  <2> QED BY <2>2, <2>3
<1>5. ASSUME NEW t \in Held', NEW u \in Held', lifearr'[t] = lifearr'[u]
      PROVE  t = u
  <2>1. \A v, w \in Held : lifearr[v] = lifearr[w] => v = w
    BY DEF IInv, Ages
  <2> QED BY <1>1, <1>2, <1>3, <1>5, <2>1
<1>6. \A t \in Slots : lifearr'[t] <= totcount'
  <2>1. \A t \in Slots : lifearr[t] <= totcount
    BY DEF IInv, Ages
  <2> QED BY <1>1, <1>2, <2>1
<1> QED BY <1>1, <1>4, <1>5, <1>6 DEF Ages

LEMMA FaultRecent ==
  ASSUME EnoughPages, IInv, NEW p, NEW s, Fetches(p, s)
  PROVE  Recent'
<1>0. s \in Slots
  BY DEF Fetches
<1>1. /\ Held' = Held \cup {s} /\ Slots' = Slots /\ Needed' = Needed
      /\ \A t \in Slots : namearr'[t] = IF t = s THEN p ELSE namearr[t]
      /\ \A t \in Slots : lifearr'[t] = IF t = s THEN 0 ELSE lifearr[t] + 1
  BY FetchedSlots
<1>2. lifearr \in [Slots -> Nat] /\ faults \in Nat /\ faults' = faults + 1 /\ p \in Needed
  BY DEF IInv, Typed, Fetches
<1>3. Held \subseteq Slots
  BY DEF Held
<1>4. s \in Held => lifearr[s] >= faults
  BY NotFetched
<1> DEFINE R == {t \in Held : lifearr[t] < faults}
<1>5. {t \in Held' : lifearr'[t] < faults'} = R \cup {s}
  <2>1. \A t \in Slots : t # s => (lifearr'[t] < faults' <=> lifearr[t] < faults)
    BY <1>1, <1>2
  <2>2. lifearr'[s] < faults'
    BY <1>0, <1>1, <1>2
  <2>3. R \subseteq Slots
    BY <1>3
  <2> QED BY <1>0, <1>1, <1>3, <2>1, <2>2, <2>3
<1>6. s \notin R
  BY <1>2, <1>4, <1>0
<1>7. Fetched' = Fetched \cup {p}
  <2>1. \A t \in R : namearr'[t] = namearr[t]
    BY <1>1, <1>3, <1>6
  <2>2. namearr'[s] = p
    BY <1>0, <1>1
  <2>3. Fetched' = {namearr'[t] : t \in R \cup {s}}
    BY <1>5 DEF Fetched
  <2>4. Fetched = {namearr[t] : t \in R}
    BY DEF Fetched
  <2> HIDE DEF R
  <2> QED BY <2>1, <2>2, <2>3, <2>4
<1>8. PICK a \in instr.addrs : p = PageOf(a)
  BY <1>2 DEF Needed
<1>9. p \notin mapped
  BY DEF Fetches
<1>10. IsFiniteSet(Fetched) /\ Cardinality(Fetched) = faults /\ p \notin Fetched
  BY <1>8, <1>9, OneMore
<1>11. Cardinality(Fetched') = faults'
  BY <1>2, <1>7, <1>10, FS_AddElement
<1>12. Fetched \subseteq Needed
  BY DEF IInv, Recent
<1> QED BY <1>1, <1>2, <1>7, <1>11, <1>12 DEF Recent

LEMMA FaultCounts ==
  ASSUME IInv, NEW p, NEW s, Fetches(p, s)
  PROVE  Counts'
<1>1. /\ Held' = Held \cup {s} /\ max_pages \in Nat \ {0} /\ loadarr \in [Region -> BOOLEAN]
  BY FetchedSlots
<1>2. /\ totcount' = totcount + 1 /\ faults' = faults + 1 /\ status = "running"
      /\ UNCHANGED <<max_pages, instr, status>> /\ p \in Region
      /\ loadarr' = [loadarr EXCEPT ![p] = TRUE]
      /\ mapped' = (mapped \ {namearr[s]}) \cup {p} /\ s \in Slots
  BY DEF Fetches
<1>3. totcount \in Nat /\ faults \in Nat /\ FAULTS \in Nat
  BY PagedForthAssumption DEF IInv, Typed
<1>4. Cardinality(Held') <= totcount'
  <2>1. IsFiniteSet(Held)
    <3>1. IsFiniteSet(Slots) /\ Held \subseteq Slots
      BY <1>1, SlotsFacts DEF Held
    <3> QED BY <3>1, FS_Subset
  <2>2. Cardinality(Held') <= Cardinality(Held) + 1
    <3>1. Cardinality(Held) \in Nat
      BY <2>1, FS_CardinalityType
    <3>2. CASE s \in Held
      <4>1. Held' = Held
        BY <1>1, <3>2
      <4> QED BY <3>1, <4>1
    <3>3. CASE s \notin Held
      <4>1. Cardinality(Held \cup {s}) = Cardinality(Held) + 1
        BY <2>1, <3>3, FS_AddElement
      <4> QED BY <1>1, <3>1, <4>1
    <3> QED BY <3>2, <3>3
  <2>3. Cardinality(Held) <= totcount /\ Cardinality(Held) \in Nat /\ Cardinality(Held') \in Nat
    <3>1. IsFiniteSet(Held')
      BY <1>1, <2>1, FS_AddElement
    <3> QED BY <2>1, <3>1, FS_CardinalityType DEF IInv, Counts
  <2> QED BY <1>2, <1>3, <2>2, <2>3
<1>5. totcount' + Cardinality(instr'.addrs) <= FAULTS + faults'
  <2>1. PICK a \in instr.addrs : TRUE
    BY DEF Fetches, Needed
  <2>2. Cardinality(instr.addrs) \in Nat
    BY <2>1, InInstruction
  <2>3. totcount + Cardinality(instr.addrs) <= FAULTS + faults
    BY <1>2 DEF IInv, Counts
  <2>4. instr'.addrs = instr.addrs
    BY <1>2
  <2> HIDE DEF Fetches
  <2> QED BY <1>2, <1>3, <2>2, <2>3, <2>4
<1>6. ASSUME totcount' < max_pages', NEW q \in DOMAIN loadarr', loadarr'[q]
      PROVE  q \in mapped'
  <2>1. totcount < max_pages
    BY <1>1, <1>2, <1>3, <1>6
  <2>2. s \notin Held
    BY <1>1, <1>3, <2>1 DEF Fetches
  <2>3. namearr[s] = -1
    BY <1>2, <2>2 DEF Held
  <2>4. -1 \notin Region
    BY PagedForthAssumption DEF Region
  <2>5. q \in Region /\ (q = p \/ loadarr[q])
    BY <1>1, <1>2, <1>6
  <2>6. \A r \in DOMAIN loadarr : loadarr[r] => r \in mapped
    BY <2>1 DEF IInv, Counts
  <2> QED BY <1>1, <1>2, <2>3, <2>4, <2>5, <2>6
<1> QED BY <1>4, <1>5, <1>6 DEF Counts

LEMMA FaultContents ==
  ASSUME IInv, NEW p, NEW s, Fetches(p, s)
  PROVE  Contents'
<1>1. loadarr \in [Region -> BOOLEAN]
  BY FetchedSlots
<1>2. /\ written' = written /\ loadarr' = [loadarr EXCEPT ![p] = TRUE]
      /\ \A q \in Region : q # p \/ loadarr[p] => file'[q] = file[q]
  BY DEF Fetches
<1> SUFFICES ASSUME NEW a \in DOMAIN written
             PROVE  /\ a \in Used /\ PageOf(a) \in Region
                    /\ loadarr'[PageOf(a)] /\ file'[PageOf(a)] # NoFile
                    /\ file'[PageOf(a)][Offset(a)] = written[a]
  BY <1>2 DEF Contents
<1>3. /\ a \in Used /\ PageOf(a) \in Region
      /\ loadarr[PageOf(a)] /\ file[PageOf(a)] # NoFile
      /\ file[PageOf(a)][Offset(a)] = written[a]
  BY DEF IInv, Contents
<1>4. file'[PageOf(a)] = file[PageOf(a)]
  BY <1>2, <1>3
<1> QED BY <1>1, <1>2, <1>3, <1>4

LEMMA FaultKeepsIInv ==
  ASSUME EnoughPages, IInv, NEW p, NEW s, Fetches(p, s)
  PROVE  IInv'
<1>1. /\ Slots' = Slots /\ max_pages \in Limits
      /\ loadarr \in [Region -> BOOLEAN] /\ starts > 0
  <2>1. PICK a \in instr.addrs : TRUE
    BY DEF Fetches, Needed
  <2> QED BY <2>1, FetchedSlots, InInstruction
<1>2. Started'
  BY <1>1 DEF Started, Fetches
<1>3. Typed'
  BY <1>1 DEF IInv, Typed, Fetches
<1>4. Instruction'
  <2>1. instr # NoInstr
    BY DEF Fetches, Needed, NoInstr
  <2> QED BY <2>1 DEF IInv, Instruction, Fetches
<1> QED BY <1>2, <1>3, <1>4, FaultBooks, FaultAges, FaultRecent, FaultCounts, FaultContents DEF IInv

-----------------------------------------------------------------------------
\* The other steps keep it.

LEMMA BetweenInstructions ==
  ASSUME IInv, instr = NoInstr
  PROVE  faults = 0 /\ Fetched = {}
<1>1. faults = 0
  BY DEF IInv, Instruction, NoInstr
<1>2. \A s \in Held : ~(lifearr[s] < 0)
  BY DEF IInv, Typed, Held
<1> QED BY <1>1, <1>2 DEF Fetched

LEMMA MappedInRegion ==
  ASSUME IInv
  PROVE  mapped \subseteq Region /\ Region \subseteq 0..NUM_PAGES /\ -1 \notin Region
BY PagedForthAssumption DEF IInv, Typed, Books, Held, Region

LEMMA InitializeKeepsIInv ==
  ASSUME IInv, NEW m \in Limits, InitializeForth(m)
  PROVE  IInv'
<1>1. /\ instr = NoInstr /\ status = "running" /\ totcount + 1 <= FAULTS
      /\ starts' = starts + 1 /\ max_pages' = m
      /\ lifearr' = [s \in 0..(m - 1) |-> 0]
      /\ namearr' = [s \in 0..(m - 1) |-> -1]
      /\ loadarr' = [p \in Region |-> FALSE]
      /\ mapped' = mapped \ Region
      /\ written' = <<>>
      /\ UNCHANGED <<totcount, file, faults, status>>
  BY DEF InitializeForth, Ready, Region
<1>2. PICK b \in Bytes : instr' = Instr({Top}, Top, b)
  BY DEF InitializeForth, Top
<1>3. instr'.addrs = {Top} /\ instr'.to = Top /\ instr'.byte = b
  BY <1>2 DEF Instr
<1>4. m \in Nat \ {0} /\ totcount \in Nat /\ starts \in Nat /\ FAULTS \in Nat
  BY PagedForthAssumption DEF IInv, Typed
<1>5. faults = 0
  BY <1>1, BetweenInstructions
<1>6. Slots' = 0..(m - 1) /\ Held' = {}
  <2>1. Slots' = 0..(m - 1)
    BY <1>1 DEF Slots
  <2> QED BY <1>1, <1>4, <2>1 DEF Held
<1>7. mapped' = {}
  BY <1>1, MappedInRegion
<1>8. IsFiniteSet({Top}) /\ Cardinality({Top}) = 1
  BY FS_Singleton
<1>9. IsFiniteSet({}) /\ Cardinality({}) = 0
  BY FS_EmptySet
<1>10. Started'
  BY <1>1, <1>4 DEF Started
<1>11. Typed'
  BY <1>1, <1>4, <1>6 DEF IInv, Typed
<1>12. Instruction'
  <2>1. 1 <= Reach
    BY PagedForthAssumption
  <2>2. {Top} \subseteq Used
    BY DEF Used
  <2> QED BY <1>3, <1>8, <2>1, <2>2 DEF Instruction
<1>13. Books'
  BY <1>6, <1>7 DEF Books
<1>14. Ages'
  BY <1>1, <1>4, <1>6 DEF Ages
<1>15. Recent'
  <2>1. Fetched' = {}
    BY <1>6 DEF Fetched
  <2> QED BY <1>1, <1>5, <1>9, <2>1 DEF Recent
<1>16. Counts'
  <2>1. Cardinality(Held') <= totcount'
    BY <1>1, <1>4, <1>6, <1>9
  <2>2. totcount' + Cardinality(instr'.addrs) <= FAULTS + faults'
    BY <1>1, <1>3, <1>4, <1>5, <1>8
  <2>3. \A p \in DOMAIN loadarr' : ~loadarr'[p]
    BY <1>1
  <2> QED BY <2>1, <2>2, <2>3 DEF Counts
<1>17. Contents'
  BY <1>1 DEF Contents
<1> QED BY <1>10, <1>11, <1>12, <1>13, <1>14, <1>15, <1>16, <1>17 DEF IInv

LEMMA FetchKeepsIInv ==
  ASSUME IInv, NEW k \in 1..Reach, NEW addrs \in kSubset(k, Addresses),
         NEW to \in addrs, NEW byte \in Bytes, Fetch(addrs, to, byte)
  PROVE  IInv'
<1>1. /\ instr = NoInstr /\ starts > 0 /\ totcount + Cardinality(addrs) <= FAULTS
      /\ instr' = Instr(addrs, to, byte)
      /\ UNCHANGED <<globals, mapped, file, written, faults, starts, status>>
  BY DEF Fetch, Ready
<1>2. instr'.addrs = addrs /\ instr'.to = to /\ instr'.byte = byte
  BY <1>1 DEF Instr
<1>3. addrs \subseteq Addresses /\ Cardinality(addrs) = k
  BY DEF kSubset
<1>4. IsFiniteSet(addrs) /\ Cardinality(addrs) <= Reach
  <2>1. IsFiniteSet(addrs)
    BY <1>3, PagedForthAssumption, FS_Subset
  <2>2. k <= Reach
    BY PagedForthAssumption
  <2> QED BY <1>3, <2>1, <2>2
<1>5. UNCHANGED <<max_pages, totcount, lifearr, namearr, loadarr>>
  BY <1>1 DEF globals
<1>6. Slots' = Slots /\ Held' = Held /\ Fetched' = Fetched
  BY <1>1, <1>5 DEF Slots, Held, Fetched
<1>7. faults = 0 /\ Fetched = {}
  BY <1>1, BetweenInstructions
<1>8. Started'
  BY <1>1, <1>5 DEF IInv, Started
<1>9. Typed'
  BY <1>1, <1>5, <1>6 DEF IInv, Typed
<1>10. Instruction'
  BY <1>2, <1>3, <1>4 DEF Instruction, Used
<1>11. Books' /\ Ages'
  BY <1>1, <1>5, <1>6 DEF IInv, Books, Ages
<1>12. Recent'
  <2>1. Cardinality(Fetched) = faults
    BY DEF IInv, Recent
  <2> QED BY <1>1, <1>6, <1>7, <2>1 DEF Recent
<1>13. Counts'
  <2>1. totcount' + Cardinality(instr'.addrs) <= FAULTS + faults'
    BY <1>1, <1>2, <1>5, <1>7, PagedForthAssumption
  <2>2. Cardinality(Held') <= totcount'
    BY <1>5, <1>6 DEF IInv, Counts
  <2>3. totcount' < max_pages' => \A p \in DOMAIN loadarr' : loadarr'[p] => p \in mapped'
    BY <1>1, <1>5 DEF IInv, Counts
  <2> QED BY <2>1, <2>2, <2>3 DEF Counts
<1>14. Contents'
  BY <1>1, <1>5 DEF IInv, Contents
<1> QED BY <1>8, <1>9, <1>10, <1>11, <1>12, <1>13, <1>14 DEF IInv

LEMMA ExecuteKeepsContents ==
  ASSUME IInv, Execute
  PROVE  /\ file' \in [0..NUM_PAGES -> {NoFile} \cup [0..(PAGE_SIZE - 1) -> Nat]]
         /\ Contents'
<1> DEFINE a == instr.to
           p == PageOf(a)
           F == [0..(PAGE_SIZE - 1) -> Nat]
<1>1. /\ instr # NoInstr /\ loadarr' = loadarr
      /\ \A b \in instr.addrs : PageOf(b) \in mapped /\ file[PageOf(b)] # NoFile
      /\ file' = [file EXCEPT ![p][Offset(a)] = instr.byte]
      /\ written' = [b \in DOMAIN written \cup {a} |-> IF b = a THEN instr.byte ELSE written[b]]
  BY DEF Execute, globals
<1>2. a \in instr.addrs /\ instr.byte \in Bytes /\ a \in Used
  BY <1>1 DEF IInv, Instruction
<1>3. p \in mapped /\ p \in Region /\ p \in 0..NUM_PAGES /\ file[p] # NoFile
  BY <1>1, <1>2, MappedInRegion
<1>4. file \in [0..NUM_PAGES -> {NoFile} \cup F]
  BY DEF IInv, Typed
<1>5. Used \subseteq Int
  BY PagedForthAssumption DEF Used, Top
<1>6. Offset(a) \in 0..(PAGE_SIZE - 1)
  BY <1>2, <1>5, PageArithmetic
<1> DEFINE h == [file[p] EXCEPT ![Offset(a)] = instr.byte]
<1>7. file[p] \in F /\ instr.byte \in Nat
  BY <1>2, <1>3, <1>4, PagedForthAssumption
<1>8. h \in F /\ h[Offset(a)] = instr.byte
      /\ \A o \in 0..(PAGE_SIZE - 1) : o # Offset(a) => h[o] = file[p][o]
  BY <1>6, <1>7
<1>9. file' = [file EXCEPT ![p] = h]
  BY <1>1
<1>10. NoFile \notin F
  <2>1. 0 \in 0..(PAGE_SIZE - 1)
    BY PagedForthAssumption
  <2>2. DOMAIN NoFile = {}
    BY DEF NoFile
  <2> QED BY <2>1, <2>2
<1> HIDE DEF F, h, p, a
<1>11. file' \in [0..NUM_PAGES -> {NoFile} \cup F]
       /\ file'[p] = h /\ \A q \in 0..NUM_PAGES : q # p => file'[q] = file[q]
  BY <1>3, <1>4, <1>8, <1>9
<1>12. ASSUME NEW b \in DOMAIN written'
       PROVE  /\ b \in Used /\ PageOf(b) \in Region
              /\ loadarr'[PageOf(b)] /\ file'[PageOf(b)] # NoFile
              /\ file'[PageOf(b)][Offset(b)] = written'[b]
  <2>1. CASE b = a
    <3>1. loadarr[p]
      BY <1>3 DEF IInv, Books
    <3>2. written'[b] = instr.byte
      BY <1>1, <2>1, <1>12
    <3> QED BY <1>1, <1>2, <1>3, <1>8, <1>10, <1>11, <2>1, <3>1, <3>2 DEF p
  <2>2. CASE b # a
    <3>1. b \in DOMAIN written /\ written'[b] = written[b]
      BY <1>1, <1>12, <2>2
    <3>2. /\ b \in Used /\ PageOf(b) \in Region
          /\ loadarr[PageOf(b)] /\ file[PageOf(b)] # NoFile
          /\ file[PageOf(b)][Offset(b)] = written[b]
      BY <3>1 DEF IInv, Contents
    <3>3. CASE PageOf(b) # p
      <4>1. file'[PageOf(b)] = file[PageOf(b)]
        BY <1>11, <3>2, <3>3, MappedInRegion
      <4> QED BY <1>1, <3>1, <3>2, <4>1
    <3>4. CASE PageOf(b) = p
      <4>1. Offset(b) \in 0..(PAGE_SIZE - 1) /\ b = PAGE_SIZE * p + Offset(b)
        BY <1>5, <3>2, <3>4, PageArithmetic
      <4>2. a = PAGE_SIZE * p + Offset(a)
        BY <1>2, <1>5, PageArithmetic DEF p
      <4>3. Offset(b) # Offset(a)
        BY <2>2, <4>1, <4>2
      <4> QED BY <1>1, <1>8, <1>10, <1>11, <3>1, <3>2, <3>4, <4>1, <4>3
    <3> QED BY <3>3, <3>4
  <2> QED BY <2>1, <2>2
<1>13. Contents'
  BY <1>12 DEF Contents
<1> QED BY <1>11, <1>13 DEF F

LEMMA ExecuteKeepsIInv ==
  ASSUME IInv, Execute
  PROVE  IInv'
<1>1. /\ instr # NoInstr /\ instr' = NoInstr /\ faults' = 0 /\ status = "running"
      /\ UNCHANGED <<max_pages, totcount, lifearr, namearr, loadarr, mapped, starts, status>>
      /\ \A b \in instr.addrs : PageOf(b) \in mapped
  BY DEF Execute, globals
<1>2. Slots' = Slots /\ Held' = Held
  BY <1>1 DEF Slots, Held
<1>3. starts > 0 /\ max_pages \in Limits /\ loadarr \in [Region -> BOOLEAN]
  BY <1>1 DEF IInv, Started
<1>4. Started'
  BY <1>1, <1>3 DEF Started
<1>5. Typed'
  BY <1>1, <1>2, ExecuteKeepsContents DEF IInv, Typed
<1>6. Instruction'
  BY <1>1 DEF Instruction
<1>7. Books' /\ Ages'
  BY <1>1, <1>2 DEF IInv, Books, Ages
<1>8. Cardinality({}) = 0
  BY FS_EmptySet
<1>9. Recent'
  <2>1. \A s \in Held : ~(lifearr[s] < 0)
    BY DEF IInv, Typed, Held
  <2>2. Fetched' = {}
    BY <1>1, <1>2, <2>1 DEF Fetched
  <2> QED BY <1>1, <1>8, <2>2 DEF Recent
<1>10. Counts'
  <2>1. instr'.addrs = {} /\ totcount \in 0..FAULTS /\ FAULTS \in Nat
    BY <1>1, PagedForthAssumption DEF NoInstr, IInv, Typed
  <2>2. totcount' + Cardinality(instr'.addrs) <= FAULTS + faults'
    BY <1>1, <1>8, <2>1
  <2>3. Cardinality(Held') <= totcount'
    BY <1>1, <1>2 DEF IInv, Counts
  <2>4. totcount' < max_pages' => \A p \in DOMAIN loadarr' : loadarr'[p] => p \in mapped'
    BY <1>1 DEF IInv, Counts
  <2> QED BY <2>2, <2>3, <2>4 DEF Counts
<1> QED BY <1>4, <1>5, <1>6, <1>7, <1>9, <1>10, ExecuteKeepsContents DEF IInv

LEMMA MaxPagesNat ==
  ASSUME IInv
  PROVE  max_pages \in Nat
<1>1. max_pages = 0 \/ max_pages \in Limits
  BY DEF IInv, Started
<1>2. \A m \in Limits : m \in Nat
  BY PagedForthAssumption
<1> QED BY <1>1, <1>2

LEMMA SameBooks ==
  ASSUME IInv,
         UNCHANGED <<max_pages, lifearr, namearr, loadarr, mapped, file, instr, written, faults, starts>>
  PROVE  /\ Slots' = Slots /\ Held' = Held
         /\ Started' /\ Instruction' /\ Books' /\ Recent' /\ Contents'
<1>1. Slots' = Slots /\ Needed' = Needed
  BY DEF Slots, Needed
<1>2. Held' = Held
  BY <1>1 DEF Held
<1>3. Fetched' = Fetched
  BY <1>2 DEF Fetched
<1>4. Started'
  BY DEF IInv, Started
<1>5. Instruction'
  BY DEF IInv, Instruction
<1>6. Books'
  BY <1>2 DEF IInv, Books
<1>7. Recent'
  BY <1>1, <1>3 DEF IInv, Recent
<1>8. Contents'
  BY DEF IInv, Contents
<1> QED BY <1>1, <1>2, <1>4, <1>5, <1>6, <1>7, <1>8

\* The process ends, or nothing happens.
LEMMA EndKeepsIInv ==
  ASSUME IInv, status' \in {"exited", status},
         UNCHANGED <<globals, mapped, file, instr, written, faults, starts>>
  PROVE  IInv'
<1>1. UNCHANGED <<max_pages, totcount, lifearr, namearr, loadarr>>
  BY DEF globals
<1>2. /\ Slots' = Slots /\ Held' = Held
      /\ Started' /\ Instruction' /\ Books' /\ Recent' /\ Contents'
  BY <1>1, SameBooks
<1>3. Typed'
  BY <1>1, <1>2 DEF IInv, Typed
<1>4. Ages'
  BY <1>1, <1>2 DEF IInv, Ages
<1>5. Counts'
  BY <1>1, <1>2 DEF IInv, Counts
<1> QED BY <1>2, <1>3, <1>4, <1>5 DEF IInv

LEMMA RejectKeepsIInv ==
  ASSUME IntsFit, EndUnused, IInv, NEW a, RejectAddress(a)
  PROVE  IInv'
<1>1. /\ Faulting(a) /\ totcount' = Counted /\ status' = "exited"
      /\ UNCHANGED <<max_pages, lifearr, namearr, loadarr, mapped, file, instr, written, faults, starts>>
  BY DEF RejectAddress
<1>2. totcount' = totcount + 1 /\ totcount + 1 \in 0..FAULTS
  BY <1>1, FaultFacts
<1>3. /\ Slots' = Slots /\ Held' = Held
      /\ Started' /\ Instruction' /\ Books' /\ Recent' /\ Contents'
  BY <1>1, SameBooks
<1>4. totcount \in Nat /\ lifearr \in [Slots -> Nat]
  BY DEF IInv, Typed
<1>5. Typed'
  BY <1>1, <1>2, <1>3 DEF IInv, Typed
<1>6. Ages'
  <2>1. \A s \in Slots : lifearr[s] <= totcount + 1
    BY <1>4 DEF IInv, Ages
  <2> QED BY <1>1, <1>2, <1>3, <2>1 DEF IInv, Ages
<1>7. Counts'
  <2>1. max_pages \in Nat
    BY MaxPagesNat
  <2>2. IsFiniteSet(Slots) /\ Held \subseteq Slots
    BY <2>1, SlotsFacts DEF Held
  <2>3. Cardinality(Held) \in Nat
    BY <2>2, FS_Subset, FS_CardinalityType
  <2>4. Cardinality(Held) <= totcount + 1
    BY <1>4, <2>3 DEF IInv, Counts
  <2>5. totcount + 1 < max_pages => totcount < max_pages
    BY <1>4, <2>1
  <2> QED BY <1>1, <1>2, <1>3, <2>4, <2>5 DEF IInv, Counts
<1> QED BY <1>3, <1>5, <1>6, <1>7 DEF IInv

-----------------------------------------------------------------------------
LEMMA InitIInv ==
  Init => IInv
<1> SUFFICES ASSUME Init PROVE IInv
  OBVIOUS
<1>1. /\ max_pages = 0 /\ totcount = 0 /\ lifearr = <<>> /\ namearr = <<>> /\ loadarr = <<>>
      /\ mapped = {} /\ instr = NoInstr /\ written = <<>> /\ faults = 0 /\ starts = 0
      /\ status = "running"
  BY DEF Init
<1>2. PICK f \in {NoFile} \cup {[Blank EXCEPT ![0] = b] : b \in Bytes} :
        file = [p \in 0..NUM_PAGES |-> f]
  BY DEF Init
<1>3. f \in {NoFile} \cup [0..(PAGE_SIZE - 1) -> Nat]
  <2>1. PAGE_SIZE \in Nat \ {0} /\ Bytes \subseteq Nat
    BY PagedForthAssumption
  <2>2. \A b \in Bytes : [Blank EXCEPT ![0] = b] \in [0..(PAGE_SIZE - 1) -> Nat]
    BY <2>1 DEF Blank
  <2> QED BY <2>2
<1>4. Slots = {}
  BY <1>1 DEF Slots
<1>5. Held = {} /\ Fetched = {}
  BY <1>4 DEF Held, Fetched
<1>6. Cardinality({}) = 0
  BY FS_EmptySet
<1>7. FAULTS \in Nat
  BY PagedForthAssumption
<1>8. Typed
  <2>1. <<>> \in [Slots -> Nat] /\ <<>> \in [Slots -> {-1} \cup Region]
    BY <1>4
  <2> QED BY <1>1, <1>2, <1>3, <1>7, <2>1 DEF Typed
<1>9. Ages /\ Recent /\ Books
  BY <1>1, <1>4, <1>5, <1>6 DEF Ages, Recent, Books
<1>10. Counts
  <2>1. instr.addrs = {}
    BY <1>1 DEF NoInstr
  <2>2. totcount + Cardinality(instr.addrs) <= FAULTS + faults
    BY <1>1, <1>6, <1>7, <2>1
  <2> QED BY <1>1, <1>5, <1>6, <2>2 DEF Counts
<1>11. Contents /\ Started /\ Instruction
  BY <1>1 DEF Contents, Started, Instruction
<1> QED BY <1>8, <1>9, <1>10, <1>11 DEF IInv

LEMMA NextIInv ==
  ASSUME IntsFit, EnoughPages, EndUnused
  PROVE  IInv /\ [Next]_vars => IInv'
<1> SUFFICES ASSUME IInv, [Next]_vars PROVE IInv'
  OBVIOUS
<1>1. ASSUME NEW m \in Limits, InitializeForth(m)
      PROVE  IInv'
  BY <1>1, InitializeKeepsIInv
<1>2. ASSUME NEW addrs \in UNION {kSubset(k, Addresses) : k \in 1..Reach},
             NEW to \in addrs, NEW byte \in Bytes, Fetch(addrs, to, byte)
      PROVE  IInv'
  <2>1. PICK k \in 1..Reach : addrs \in kSubset(k, Addresses)
    OBVIOUS
  <2> QED BY <1>2, <2>1, FetchKeepsIInv
<1>3. CASE Execute
  BY <1>3, ExecuteKeepsIInv
<1>4. ASSUME NEW a \in instr.addrs, MapPage(a)
      PROVE  IInv'
  BY <1>4, MapFetches, FaultKeepsIInv
<1>5. ASSUME NEW a \in instr.addrs, ReplacePage(a)
      PROVE  IInv'
  BY <1>5, ReplaceFetches, FaultKeepsIInv
<1>6. ASSUME NEW a \in instr.addrs, RejectAddress(a)
      PROVE  IInv'
  BY <1>6, RejectKeepsIInv
<1>7. ASSUME NEW a \in instr.addrs, Die(a)
      PROVE  IInv'
  BY <1>7, EndKeepsIInv DEF Die
<1>8. CASE Done
  BY <1>8, EndKeepsIInv DEF Done, vars
<1>9. CASE UNCHANGED vars
  BY <1>9, EndKeepsIInv DEF vars
<1>10. CASE InitializeFails
  BY <1>10, EndKeepsIInv DEF InitializeFails
<1> QED BY <1>1, <1>2, <1>3, <1>4, <1>5, <1>6, <1>7, <1>8, <1>9, <1>10 DEF Next, Progress

\* IInv is an invariant of the pager.
THEOREM PagerInvariant ==
  ASSUME IntsFit, EnoughPages, EndUnused
  PROVE  Spec => []IInv
<1> QED BY InitIInv, NextIInv, PTL DEF Spec

-----------------------------------------------------------------------------
LEMMA IInvBooks ==
  ASSUME IntsFit, IInv
  PROVE  SlotsHoldMapped
<1>1. max_pages \in Limits \cup {0} /\ max_pages \in Nat
  BY MaxPagesNat DEF IInv, Started
<1>2. totcount \in ToInt(0)..(INT_MOD \div 2)
  <2>1. totcount \in 0..FAULTS /\ FAULTS \in Nat
    BY PagedForthAssumption DEF IInv, Typed
  <2>2. ToInt(totcount) = totcount /\ ToInt(0) = 0
    BY <2>1 DEF IntsFit
  <2>3. totcount <= INT_MOD \div 2
    BY <2>1, <2>2, ToIntRange
  <2>4. INT_MOD \div 2 \in Int
    BY PagedForthAssumption
  <2> QED BY <2>1, <2>2, <2>3, <2>4
<1>3. loadarr \in UNION {[0..n -> BOOLEAN] : n \in {-1, NUM_PAGES - 1, NUM_PAGES}}
  <2>1. CASE loadarr = <<>>
    <3>1. loadarr \in [0..(-1) -> BOOLEAN]
      BY <2>1
    <3> QED BY <3>1
  <2>2. CASE loadarr \in [Region -> BOOLEAN]
    BY <2>2 DEF Region
  <2> QED BY <2>1, <2>2 DEF IInv, Started
<1>4. Region \subseteq 0..NUM_PAGES /\ mapped \subseteq 0..NUM_PAGES /\ -1 \notin Region
  BY MappedInRegion
<1>5. instr.addrs \subseteq Int
  <2>1. Used \subseteq Int
    BY PagedForthAssumption DEF Used, Top
  <2>2. CASE instr = NoInstr
    BY <2>2 DEF NoInstr
  <2> QED BY <2>1, <2>2 DEF IInv, Instruction
<1>6. TypeOK
  BY <1>1, <1>2, <1>3, <1>4, <1>5 DEF TypeOK, IInv, Typed
<1>7. mapped = {namearr[s] : s \in Slots} \ {-1}
  <2>1. {namearr[s] : s \in Held} = {namearr[s] : s \in Slots} \ {-1}
    BY DEF Held
  <2> QED BY <2>1 DEF IInv, Books
<1>8. \A s, t \in Slots : namearr[s] = namearr[t] => s = t \/ namearr[s] = -1
  BY DEF IInv, Books, Held
<1>9. \A p \in mapped : loadarr[p]
  BY DEF IInv, Books
<1> QED BY <1>6, <1>7, <1>8, <1>9 DEF SlotsHoldMapped

LEMMA IInvOneFault ==
  ASSUME IInv
  PROVE  OneFaultPerPage
<1>1. Fetched \subseteq Needed /\ Cardinality(Fetched) = faults
  BY DEF IInv, Recent
<1>2. IsFiniteSet(Needed)
  <2>1. CASE instr.addrs = {}
    <3>1. Needed = {}
      BY <2>1 DEF Needed
    <3> QED BY <3>1, FS_EmptySet
  <2>2. CASE instr.addrs # {}
    BY <2>2, InInstruction
  <2> QED BY <2>1, <2>2
<1>3. Cardinality(Fetched) <= Cardinality(Needed)
  BY <1>1, <1>2, FS_Subset
<1> QED BY <1>1, <1>3 DEF OneFaultPerPage, Needed

\* The slots are the pages that are mapped, one each (SlotsHoldMapped).
THEOREM BooksAreTrue ==
  ASSUME IntsFit, EnoughPages, EndUnused
  PROVE  Spec => []SlotsHoldMapped
<1>1. IInv => SlotsHoldMapped
  BY IInvBooks
<1> QED BY <1>1, PagerInvariant, PTL

\* What the program wrote it will read, however often its pages went and came
\* (DataSurvives).
THEOREM DataIsKept ==
  ASSUME IntsFit, EnoughPages, EndUnused
  PROVE  Spec => []DataSurvives
<1>1. IInv => DataSurvives
  BY DEF IInv, Contents, DataSurvives
<1> QED BY <1>1, PagerInvariant, PTL

\* An instruction faults at most once for each page it needs (OneFaultPerPage):
\* no page is thrown out to make room for the next one of the same instruction.
THEOREM NoRefault ==
  ASSUME IntsFit, EnoughPages, EndUnused
  PROVE  Spec => []OneFaultPerPage
<1>1. IInv => OneFaultPerPage
  BY IInvOneFault
<1> QED BY <1>1, PagerInvariant, PTL

-----------------------------------------------------------------------------
\* The order in which the pages came

\* q lists the n slots of H, the oldest first.
Lists(n, q, H, age) ==
  /\ n \in Nat /\ q \in [1..n -> H]
  /\ \A s \in H : \E i \in 1..n : q[i] = s
  /\ \A i, j \in 1..n : i < j => age[q[j]] < age[q[i]]

Listed == \E n, q : Lists(n, q, Held, lifearr)

\* The slot of H behind i - 1 that are older
Nth(H, age, i) == CHOOSE s \in H : Cardinality({t \in H : age[t] > age[s]}) = i - 1

\* There is one such list: the one in which every slot comes behind those that
\* are older.
LEMMA ListIsUnique ==
  ASSUME NEW H, NEW age, \A s \in H : age[s] \in Nat,
         NEW n, NEW q, Lists(n, q, H, age)
  PROVE  n = Cardinality(H) /\ \A i \in 1..n : q[i] = Nth(H, age, i)
<1>1. /\ n \in Nat /\ q \in [1..n -> H]
      /\ \A s \in H : \E i \in 1..n : q[i] = s
      /\ \A i, j \in 1..n : i < j => age[q[j]] < age[q[i]]
  BY DEF Lists
<1>2. \A i, j \in 1..n : q[i] = q[j] => i = j
  <2> SUFFICES ASSUME NEW i \in 1..n, NEW j \in 1..n, q[i] = q[j], i < j
               PROVE  FALSE
    BY <1>1
  <2>1. age[q[j]] < age[q[i]] /\ age[q[i]] \in Nat
    BY <1>1
  <2> QED BY <2>1
<1>3. n = Cardinality(H)
  <2>1. q \in Bijection(1..n, H)
    BY <1>1, <1>2 DEF Bijection, Injection, Surjection, IsInjective
  <2>2. IsFiniteSet(1..n) /\ Cardinality(1..n) = n
    BY <1>1, FS_Interval
  <2> QED BY <2>1, <2>2, FS_Bijection DEF ExistsBijection
<1> DEFINE Before(s) == {t \in H : age[t] > age[s]}
<1>4. ASSUME NEW i \in 1..n
      PROVE  Cardinality(Before(q[i])) = i - 1
  <2> DEFINE B == Before(q[i])
             r == [j \in 1..(i - 1) |-> q[j]]
  <2>1. \A j \in 1..n : age[q[j]] > age[q[i]] <=> j < i
    <3> SUFFICES ASSUME NEW j \in 1..n
                 PROVE  age[q[j]] > age[q[i]] <=> j < i
      OBVIOUS
    <3>1. age[q[j]] \in Nat /\ age[q[i]] \in Nat
      BY <1>1
    <3>2. j < i => age[q[i]] < age[q[j]]
      BY <1>1
    <3>3. i < j => age[q[j]] < age[q[i]]
      BY <1>1
    <3>4. i = j => age[q[j]] = age[q[i]]
      OBVIOUS
    <3>5. i < j \/ i = j \/ j < i
      BY <1>1
    <3> HIDE DEF B, r, Before
    <3> QED BY <3>1, <3>2, <3>3, <3>4, <3>5
  <2>2. \A j \in 1..(i - 1) : j \in 1..n /\ j < i
    BY <1>1
  <2>3. r \in [1..(i - 1) -> B]
    BY <1>1, <2>1, <2>2
  <2>4. \A t \in B : \E j \in 1..(i - 1) : r[j] = t
    <3> SUFFICES ASSUME NEW t \in B
                 PROVE  \E j \in 1..(i - 1) : r[j] = t
      OBVIOUS
    <3>1. PICK j \in 1..n : q[j] = t
      BY <1>1
    <3>2. j < i
      BY <2>1, <3>1
    <3>3. j \in 1..(i - 1)
      BY <1>1, <3>2
    <3> QED BY <3>1, <3>3
  <2>5. \A j, k \in 1..(i - 1) : r[j] = r[k] => j = k
    BY <1>2, <2>2
  <2> HIDE DEF B, r
  <2>6. r \in Bijection(1..(i - 1), B)
    BY <2>3, <2>4, <2>5 DEF Bijection, Injection, Surjection, IsInjective
  <2>7. IsFiniteSet(1..(i - 1)) /\ Cardinality(1..(i - 1)) = i - 1
    <3>1. i - 1 \in Nat
      BY <1>1
    <3> QED BY <3>1, FS_Interval
  <2>8. Cardinality(B) = i - 1
    BY <2>6, <2>7, FS_Bijection DEF ExistsBijection
  <2> QED BY <2>8 DEF B
<1> HIDE DEF Before
<1>5. ASSUME NEW i \in 1..n
      PROVE  q[i] = CHOOSE s \in H : Cardinality(Before(s)) = i - 1
  <2> DEFINE c == CHOOSE s \in H : Cardinality(Before(s)) = i - 1
  <2>1. q[i] \in H /\ Cardinality(Before(q[i])) = i - 1
    BY <1>1, <1>4
  <2>2. c \in H /\ Cardinality(Before(c)) = i - 1
    BY <2>1
  <2> HIDE DEF c
  <2>3. PICK j \in 1..n : q[j] = c
    BY <1>1, <2>2
  <2>4. j - 1 = i - 1
    BY <1>4, <2>2, <2>3
  <2>5. j = i
    BY <2>4
  <2> QED BY <2>3, <2>5 DEF c
<1> QED BY <1>3, <1>5 DEF Before, Nth

\* A slot that was not in the list comes behind the others.
LEMMA ListGrows ==
  ASSUME NEW H, NEW age, NEW n, NEW q, Lists(n, q, H, age), \A t \in H : age[t] \in Nat,
         NEW s, s \notin H, NEW later, later[s] = 0, \A t \in H : later[t] = age[t] + 1
  PROVE  Lists(n + 1, [i \in 1..(n + 1) |-> IF i = n + 1 THEN s ELSE q[i]], H \cup {s}, later)
<1> DEFINE r == [i \in 1..(n + 1) |-> IF i = n + 1 THEN s ELSE q[i]]
<1>1. /\ n \in Nat /\ q \in [1..n -> H]
      /\ \A t \in H : \E i \in 1..n : q[i] = t
      /\ \A i, j \in 1..n : i < j => age[q[j]] < age[q[i]]
  BY DEF Lists
<1>2. \A i \in 1..(n + 1) : i = n + 1 \/ i \in 1..n
  BY <1>1
<1>3. 1..n \subseteq 1..(n + 1) /\ n + 1 \in 1..(n + 1) /\ n + 1 \notin 1..n
  BY <1>1
<1>4. r[n + 1] = s /\ \A i \in 1..n : r[i] = q[i]
  BY <1>3
<1>5. r \in [1..(n + 1) -> H \cup {s}]
  BY <1>1, <1>2
<1> HIDE DEF r
<1>6. ASSUME NEW i \in 1..(n + 1), NEW j \in 1..(n + 1), i < j
      PROVE  later[r[j]] < later[r[i]]
  <2>1. i \in 1..n
    BY <1>1, <1>6
  <2>2. r[i] = q[i] /\ q[i] \in H /\ age[q[i]] \in Nat /\ later[q[i]] = age[q[i]] + 1
    BY <1>1, <1>4, <2>1
  <2>3. CASE j = n + 1
    BY <1>4, <2>2, <2>3
  <2>4. CASE j \in 1..n
    <3>1. r[j] = q[j] /\ q[j] \in H /\ age[q[j]] \in Nat /\ later[q[j]] = age[q[j]] + 1
      BY <1>1, <1>4, <2>4
    <3>2. age[q[j]] < age[q[i]]
      BY <1>1, <1>6, <2>1, <2>4
    <3> QED BY <2>2, <3>1, <3>2
  <2> QED BY <1>2, <2>3, <2>4
<1>7. \A t \in H \cup {s} : \E i \in 1..(n + 1) : r[i] = t
  BY <1>1, <1>3, <1>4
<1>8. n + 1 \in Nat
  BY <1>1
<1>9. Lists(n + 1, r, H \cup {s}, later)
  BY <1>5, <1>6, <1>7, <1>8 DEF Lists
<1> QED BY <1>9 DEF r

\* The oldest slot is the first, and becomes the last.
LEMMA ListTurns ==
  ASSUME NEW H, NEW age, NEW n, NEW q, Lists(n, q, H, age), \A t \in H : age[t] \in Nat,
         NEW s \in H, \A t \in H : age[t] <= age[s],
         NEW later, later[s] = 0, \A t \in H : t # s => later[t] = age[t] + 1
  PROVE  /\ n \in Nat \ {0} /\ q[1] = s
         /\ Lists(n, [i \in 1..n |-> IF i = n THEN s ELSE q[i + 1]], H, later)
<1> DEFINE r == [i \in 1..n |-> IF i = n THEN s ELSE q[i + 1]]
<1>1. /\ n \in Nat /\ q \in [1..n -> H]
      /\ \A t \in H : \E i \in 1..n : q[i] = t
      /\ \A i, j \in 1..n : i < j => age[q[j]] < age[q[i]]
  BY DEF Lists
<1>2. PICK k \in 1..n : q[k] = s
  BY <1>1
<1>3. n \in Nat \ {0} /\ 1 \in 1..n /\ n \in 1..n
  BY <1>1, <1>2
<1>4. k = 1
  <2> SUFFICES ASSUME 1 < k PROVE FALSE
    BY <1>1, <1>2
  <2>1. age[s] < age[q[1]]
    BY <1>1, <1>2, <1>3
  <2>2. age[q[1]] <= age[s] /\ age[s] \in Nat /\ age[q[1]] \in Nat
    BY <1>1, <1>3
  <2> QED BY <2>1, <2>2
<1>5. q[1] = s
  BY <1>2, <1>4
<1>6. \A i \in 1..n : i # n => i + 1 \in 1..n
  BY <1>1
<1>7. r[n] = s /\ (\A i \in 1..n : i # n => r[i] = q[i + 1]) /\ r \in [1..n -> H]
  BY <1>1, <1>3, <1>6
<1> HIDE DEF r
<1>8. ASSUME NEW i \in 1..n, i # n
      PROVE  r[i] \in H /\ age[r[i]] \in Nat /\ later[r[i]] = age[r[i]] + 1
  <2>1. r[i] = q[i + 1] /\ i + 1 \in 1..n /\ 1 < i + 1
    BY <1>1, <1>6, <1>7, <1>8
  <2>2. age[q[i + 1]] < age[q[1]]
    BY <1>1, <1>3, <2>1
  <2>3. r[i] \in H /\ age[r[i]] \in Nat /\ age[r[i]] < age[s]
    BY <1>1, <1>5, <2>1, <2>2
  <2>4. r[i] # s
    BY <2>3
  <2> QED BY <2>3, <2>4
<1>9. ASSUME NEW i \in 1..n, NEW j \in 1..n, i < j
      PROVE  later[r[j]] < later[r[i]]
  <2>1. i # n
    BY <1>1, <1>9
  <2>2. age[r[i]] \in Nat /\ later[r[i]] = age[r[i]] + 1
    BY <1>8, <2>1
  <2>3. CASE j = n
    BY <1>7, <2>2, <2>3
  <2>4. CASE j # n
    <3>1. age[r[j]] \in Nat /\ later[r[j]] = age[r[j]] + 1
      BY <1>8, <2>4
    <3>2. i + 1 \in 1..n /\ j + 1 \in 1..n /\ i + 1 < j + 1
      BY <1>6, <1>9, <2>1, <2>4
    <3>3. r[i] = q[i + 1] /\ r[j] = q[j + 1]
      BY <1>7, <2>1, <2>4
    <3>4. age[q[j + 1]] < age[q[i + 1]]
      BY <1>1, <3>2
    <3> QED BY <2>2, <3>1, <3>3, <3>4
  <2> QED BY <2>3, <2>4
<1>10. ASSUME NEW t \in H
       PROVE  \E i \in 1..n : r[i] = t
  <2>1. PICK i \in 1..n : q[i] = t
    BY <1>1
  <2>2. CASE i = 1
    BY <1>3, <1>5, <1>7, <2>1, <2>2
  <2>3. CASE i # 1
    <3>1. i - 1 \in 1..n /\ i - 1 # n /\ (i - 1) + 1 = i
      BY <1>1, <2>3
    <3>2. r[i - 1] = q[(i - 1) + 1]
      BY <1>7, <3>1
    <3> QED BY <2>1, <3>1, <3>2
  <2> QED BY <2>2, <2>3
<1>11. Lists(n, r, H, later)
  BY <1>1, <1>7, <1>9, <1>10 DEF Lists
<1> QED BY <1>3, <1>5, <1>11 DEF r

-----------------------------------------------------------------------------
\* The pages in memory, the oldest first
Resident == [i \in 1..Cardinality(Held) |-> namearr[Loaded[i]]]

LEMMA ResidentListed ==
  ASSUME IInv, NEW n, NEW q, Lists(n, q, Held, lifearr)
  PROVE  Resident = [i \in 1..n |-> namearr[q[i]]] /\ n \in Nat
<1>1. \A s \in Held : lifearr[s] \in Nat
  BY DEF IInv, Typed, Held
<1>2. n = Cardinality(Held) /\ \A i \in 1..n : q[i] = Nth(Held, lifearr, i)
  BY <1>1, ListIsUnique
<1>3. Loaded = [i \in 1..Cardinality(Held) |-> Nth(Held, lifearr, i)]
  BY DEF Loaded, Older, Nth
<1>4. \A i \in 1..n : Loaded[i] = q[i]
  BY <1>2, <1>3
<1>5. n \in Nat
  BY DEF Lists
<1> QED BY <1>2, <1>4, <1>5 DEF Resident

LEMMA ResidentListedNext ==
  ASSUME IInv', NEW n, NEW q, Lists(n, q, Held', lifearr')
  PROVE  Resident' = [i \in 1..n |-> namearr'[q[i]]]
<1>1. \A s \in Held' : lifearr'[s] \in Nat
  BY DEF IInv, Typed, Held
<1>2. n = Cardinality(Held') /\ \A i \in 1..n : q[i] = Nth(Held', lifearr', i)
  BY <1>1, ListIsUnique
<1>3. Loaded' = [i \in 1..Cardinality(Held') |-> Nth(Held', lifearr', i)]
  BY DEF Loaded, Older, Nth
<1>4. \A i \in 1..n : Loaded'[i] = q[i]
  BY <1>2, <1>3
<1> QED BY <1>2, <1>4 DEF Resident

\* Steps that leave the slots alone
LEMMA SlotsStay ==
  ASSUME IInv, IInv', Listed, UNCHANGED <<max_pages, lifearr, namearr>>
  PROVE  Listed' /\ UNCHANGED Pager!vars
<1>1. PICK n, q : Lists(n, q, Held, lifearr)
  BY DEF Listed
<1>2. Held' = Held
  BY DEF Held, Slots
<1>3. Lists(n, q, Held', lifearr')
  BY <1>1, <1>2
<1>4. Listed'
  BY <1>3 DEF Listed
<1>5. Resident' = [i \in 1..n |-> namearr'[q[i]]]
  BY <1>3, ResidentListedNext
<1>6. Resident = [i \in 1..n |-> namearr[q[i]]]
  BY <1>1, ResidentListed
<1>7. Resident' = Resident
  BY <1>5, <1>6
<1> QED BY <1>4, <1>7 DEF Pager!vars, Resident

LEMMA NothingHeld ==
  ASSUME Held = {}
  PROVE  Listed /\ Resident = <<>>
<1>1. Cardinality(Held) = 0
  BY FS_EmptySet
<1>2. Resident = <<>>
  BY <1>1 DEF Resident
<1>3. Lists(0, <<>>, Held, lifearr)
  BY DEF Lists
<1> QED BY <1>2, <1>3 DEF Listed

LEMMA NothingHeldNext ==
  ASSUME Held' = {}
  PROVE  Listed' /\ Resident' = <<>>
<1>1. Cardinality(Held') = 0
  BY FS_EmptySet
<1>2. Resident' = <<>>
  BY <1>1 DEF Resident
<1>3. Lists(0, <<>>, Held', lifearr')
  BY DEF Lists
<1> QED BY <1>2, <1>3 DEF Listed

LEMMA InitializeRefines ==
  ASSUME NEW m \in Limits, InitializeForth(m)
  PROVE  Listed' /\ Pager!Start
<1>1. max_pages' = m /\ namearr' = [s \in 0..(m - 1) |-> -1]
  BY DEF InitializeForth
<1>2. Slots' = 0..(m - 1)
  BY <1>1 DEF Slots
<1>3. Held' = {}
  BY <1>1, <1>2 DEF Held
<1>4. Listed' /\ Resident' = <<>>
  BY <1>3, NothingHeldNext
<1> QED BY <1>1, <1>4 DEF Pager!Start, Resident

\* A page comes into a free slot.
LEMMA FreeSlotRefines ==
  ASSUME IInv, IInv', Listed, NEW p, NEW s, Fetches(p, s), s \notin Held
  PROVE  /\ Listed' /\ Resident \in Seq(Region) /\ Len(Resident) < max_pages
         /\ Resident' = Append(Resident, p)
<1>1. PICK n, q : Lists(n, q, Held, lifearr)
  BY DEF Listed
<1>2. /\ Held' = Held \cup {s} /\ max_pages \in Nat \ {0} /\ s \in Slots
      /\ \A t \in Slots : namearr'[t] = IF t = s THEN p ELSE namearr[t]
      /\ \A t \in Slots : lifearr'[t] = IF t = s THEN 0 ELSE lifearr[t] + 1
  <2>1. s \in Slots
    BY DEF Fetches
  <2> QED BY <2>1, FetchedSlots
<1>3. Held \subseteq Slots /\ \A t \in Held : lifearr[t] \in Nat /\ namearr[t] \in Region
  BY DEF IInv, Typed, Held
<1> DEFINE r == [i \in 1..(n + 1) |-> IF i = n + 1 THEN s ELSE q[i]]
<1>4. Lists(n + 1, r, Held', lifearr')
  <2>1. lifearr'[s] = 0 /\ \A t \in Held : lifearr'[t] = lifearr[t] + 1
    BY <1>2, <1>3
  <2>2. Lists(n + 1, r, Held \cup {s}, lifearr')
    BY <1>1, <1>3, <2>1, ListGrows
  <2> HIDE DEF r
  <2> QED BY <1>2, <2>2
<1>5. Resident = [i \in 1..n |-> namearr[q[i]]] /\ n \in Nat /\ q \in [1..n -> Held]
      /\ n = Cardinality(Held)
  <2>1. n = Cardinality(Held)
    BY <1>1, <1>3, ListIsUnique
  <2> QED BY <1>1, <2>1, ResidentListed DEF Lists
<1>6. Resident' = [i \in 1..(n + 1) |-> namearr'[r[i]]]
  <2> HIDE DEF r
  <2> QED BY <1>4, ResidentListedNext
<1>7. Resident \in Seq(Region) /\ Len(Resident) = n /\ \A i \in 1..n : Resident[i] = namearr[q[i]]
  <2>1. \A i \in 1..n : namearr[q[i]] \in Region
    BY <1>3, <1>5
  <2> QED BY <1>5, <2>1
<1>8. n < max_pages
  <2>1. IsFiniteSet(Slots) /\ Cardinality(Slots) = max_pages
    BY <1>2, SlotsFacts
  <2>2. Cardinality(Held) <= Cardinality(Slots) /\ Held # Slots
    BY <1>2, <1>3, <2>1, FS_Subset
  <2>3. Cardinality(Held) # Cardinality(Slots)
    BY <1>3, <2>1, <2>2, FS_Subset
  <2> QED BY <1>2, <1>5, <2>1, <2>2, <2>3
<1>9. p \in Region
  BY DEF Fetches
<1>10. \A i \in 1..(n + 1) : namearr'[r[i]] = IF i = n + 1 THEN p ELSE Resident[i]
  <2> SUFFICES ASSUME NEW i \in 1..(n + 1)
               PROVE  namearr'[r[i]] = IF i = n + 1 THEN p ELSE Resident[i]
    OBVIOUS
  <2>1. CASE i = n + 1
    BY <1>2, <2>1
  <2>2. CASE i # n + 1
    <3>1. i \in 1..n
      BY <1>5, <2>2
    <3>2. r[i] = q[i] /\ q[i] \in Held
      BY <1>5, <2>2, <3>1
    <3> QED BY <1>2, <1>3, <1>7, <2>2, <3>1, <3>2
  <2> QED BY <2>1, <2>2
<1> HIDE DEF r
<1>11. Resident' = [i \in 1..(n + 1) |-> IF i = n + 1 THEN p ELSE Resident[i]]
  BY <1>6, <1>10
<1>12. Append(Resident, p) \in Seq(Region) /\ Len(Append(Resident, p)) = n + 1
       /\ Append(Resident, p)[n + 1] = p
       /\ \A i \in 1..n : Append(Resident, p)[i] = Resident[i]
  BY <1>7, <1>9, AppendProperties
<1>13. Resident' = Append(Resident, p)
  <2>1. \A i \in 1..(n + 1) : i = n + 1 \/ i \in 1..n
    BY <1>5
  <2>2. Resident' \in Seq(Region) /\ Len(Resident') = n + 1
    <3>1. \A i \in 1..(n + 1) : (IF i = n + 1 THEN p ELSE Resident[i]) \in Region
      BY <1>7, <1>9, <2>1
    <3>2. n + 1 \in Nat
      BY <1>5
    <3> HIDE DEF Resident
    <3> QED BY <1>11, <3>1, <3>2
  <2>3. \A i \in 1..(n + 1) : Resident'[i] = Append(Resident, p)[i]
    BY <1>11, <1>12, <2>1
  <2> QED BY <1>12, <2>2, <2>3, SeqEqual
<1>14. Listed'
  BY <1>4 DEF Listed
<1> QED BY <1>7, <1>8, <1>13, <1>14

\* A page comes into the slot of the oldest.
LEMMA OldestSlotRefines ==
  ASSUME IInv, IInv', Listed, NEW p, NEW s, Fetches(p, s), s \in Held
  PROVE  /\ Listed' /\ Resident \in Seq(Region) /\ Len(Resident) = max_pages
         /\ Resident' = Append(Tail(Resident), p)
<1>1. PICK n, q : Lists(n, q, Held, lifearr)
  BY DEF Listed
<1>2. /\ Held' = Held \cup {s} /\ max_pages \in Nat \ {0}
      /\ \A t \in Slots : namearr'[t] = IF t = s THEN p ELSE namearr[t]
      /\ \A t \in Slots : lifearr'[t] = IF t = s THEN 0 ELSE lifearr[t] + 1
  BY FetchedSlots
<1>3. Held \subseteq Slots /\ \A t \in Held : lifearr[t] \in Nat /\ namearr[t] \in Region
  BY DEF IInv, Typed, Held
<1>4. Held = Slots /\ \A t \in Held : lifearr[t] <= lifearr[s]
  BY DEF Fetches
<1> DEFINE r == [i \in 1..n |-> IF i = n THEN s ELSE q[i + 1]]
<1>5. n \in Nat \ {0} /\ q[1] = s /\ Lists(n, r, Held', lifearr')
  <2>1. lifearr'[s] = 0 /\ \A t \in Held : t # s => lifearr'[t] = lifearr[t] + 1
    BY <1>2, <1>3
  <2>2. n \in Nat \ {0} /\ q[1] = s /\ Lists(n, r, Held, lifearr')
    BY <1>1, <1>3, <1>4, <2>1, ListTurns
  <2>3. Held' = Held
    BY <1>2
  <2> HIDE DEF r
  <2> QED BY <2>2, <2>3
<1>6. Resident = [i \in 1..n |-> namearr[q[i]]] /\ q \in [1..n -> Held]
      /\ n = Cardinality(Held)
  <2>1. n = Cardinality(Held)
    BY <1>1, <1>3, ListIsUnique
  <2> QED BY <1>1, <2>1, ResidentListed DEF Lists
<1>7. Resident' = [i \in 1..n |-> namearr'[r[i]]]
  <2> HIDE DEF r
  <2> QED BY <1>5, ResidentListedNext
<1>8. Resident \in Seq(Region) /\ Len(Resident) = n /\ \A i \in 1..n : Resident[i] = namearr[q[i]]
  <2>1. \A i \in 1..n : namearr[q[i]] \in Region
    BY <1>3, <1>6
  <2> QED BY <1>5, <1>6, <2>1
<1>9. n = max_pages
  BY <1>2, <1>4, <1>6, SlotsFacts
<1>10. p \in Region
  BY DEF Fetches
<1>11. \A i \in 1..n : namearr'[r[i]] = IF i = n THEN p ELSE Resident[i + 1]
  <2> SUFFICES ASSUME NEW i \in 1..n
               PROVE  namearr'[r[i]] = IF i = n THEN p ELSE Resident[i + 1]
    OBVIOUS
  <2>1. CASE i = n
    BY <1>2, <1>3, <2>1
  <2>2. CASE i # n
    <3>1. i + 1 \in 1..n /\ 1 < i + 1 /\ 1 \in 1..n
      BY <1>5, <2>2
    <3>2. r[i] = q[i + 1] /\ q[i + 1] \in Held
      BY <1>6, <2>2, <3>1
    <3>3. lifearr[q[i + 1]] < lifearr[q[1]]
      BY <1>1, <3>1 DEF Lists
    <3>4. q[i + 1] # s
      BY <1>3, <1>5, <3>2, <3>3
    <3> HIDE DEF r
    <3> QED BY <1>2, <1>3, <1>8, <2>2, <3>1, <3>2, <3>4
  <2> QED BY <2>1, <2>2
<1> HIDE DEF r
<1>12. Resident' = [i \in 1..n |-> IF i = n THEN p ELSE Resident[i + 1]]
  BY <1>7, <1>11
<1> DEFINE k == Tail(Resident)
           a == Append(k, p)
<1>13. k \in Seq(Region) /\ Len(k) = n - 1 /\ \A i \in 1..(n - 1) : k[i] = Resident[i + 1]
  <2>1. Resident # <<>>
    BY <1>5, <1>8
  <2>2. k \in Seq(Region) /\ Len(k) = Len(Resident) - 1
        /\ \A i \in 1..Len(k) : k[i] = Resident[i + 1]
    BY <1>8, <2>1, HeadTailProperties
  <2> QED BY <1>8, <2>2
<1> HIDE DEF k
<1>14. a \in Seq(Region) /\ Len(a) = n /\ a[n] = p /\ \A i \in 1..(n - 1) : a[i] = k[i]
  <2>1. a \in Seq(Region) /\ Len(a) = Len(k) + 1 /\ a[Len(k) + 1] = p
        /\ \A i \in 1..Len(k) : a[i] = k[i]
    BY <1>10, <1>13, AppendProperties
  <2> QED BY <1>5, <1>13, <2>1
<1> HIDE DEF a
<1>15. Resident' = a
  <2>1. \A i \in 1..n : i = n \/ (i \in 1..(n - 1) /\ i + 1 \in 1..n)
    BY <1>5
  <2>2. Resident' \in Seq(Region) /\ Len(Resident') = n
    <3>1. \A i \in 1..n : (IF i = n THEN p ELSE Resident[i + 1]) \in Region
      BY <1>8, <1>10, <2>1
    <3> HIDE DEF Resident
    <3> QED BY <1>5, <1>12, <3>1
  <2>3. \A i \in 1..n : Resident'[i] = a[i]
    BY <1>12, <1>13, <1>14, <2>1
  <2> QED BY <1>14, <2>2, <2>3, SeqEqual
<1>16. Listed'
  BY <1>5 DEF Listed
<1> QED BY <1>8, <1>9, <1>15, <1>16 DEF a, k

LEMMA FetchRefines ==
  ASSUME IInv, IInv', Listed, NEW p, NEW s, Fetches(p, s)
  PROVE  Listed' /\ Pager!Load(p) /\ p \in 0..NUM_PAGES
<1>1. /\ p \in Region \ mapped /\ max_pages' = max_pages
  BY DEF Fetches
<1>2. max_pages > 0 /\ max_pages \in Nat
  BY FetchedSlots
<1>3. p \in 0..NUM_PAGES
  BY <1>1, MappedInRegion
<1>4. p \notin {Resident[i] : i \in DOMAIN Resident}
  <2>1. PICK n, q : Lists(n, q, Held, lifearr)
    BY DEF Listed
  <2>2. Resident = [i \in 1..n |-> namearr[q[i]]]
    BY <2>1, ResidentListed
  <2>3. q \in [1..n -> Held]
    BY <2>1 DEF Lists
  <2>4. \A i \in 1..n : namearr[q[i]] \in mapped
    BY <2>3 DEF IInv, Books
  <2> QED BY <1>1, <2>2, <2>4
<1>5. /\ Listed'
      /\ Resident' = Append(IF Len(Resident) < max_pages THEN Resident ELSE Tail(Resident), p)
  <2>1. CASE s \notin Held
    BY <2>1, FreeSlotRefines
  <2>2. CASE s \in Held
    <3>1. Listed' /\ Len(Resident) = max_pages /\ Resident' = Append(Tail(Resident), p)
      BY <2>2, OldestSlotRefines
    <3>2. ~(Len(Resident) < max_pages)
      BY <1>2, <3>1
    <3> QED BY <3>1, <3>2
  <2> QED BY <2>1, <2>2
<1>6. Pager!Load(p)
  BY <1>1, <1>2, <1>4, <1>5 DEF Pager!Load, Pager!ToSet, Resident
<1> QED BY <1>3, <1>5, <1>6

LEMMA StepRefines ==
  ASSUME IntsFit, EndUnused, IInv, IInv', Listed, [Next]_vars
  PROVE  Listed' /\ [Pager!Next]_(Pager!vars)
<1>1. ASSUME NEW m \in Limits, InitializeForth(m)
      PROVE  Listed' /\ [Pager!Next]_(Pager!vars)
  BY <1>1, InitializeRefines DEF Pager!Next
<1>2. ASSUME NEW a, MapPage(a) \/ ReplacePage(a)
      PROVE  Listed' /\ [Pager!Next]_(Pager!vars)
  <2>1. PICK p, s : Fetches(p, s)
    BY <1>2, MapFetches, ReplaceFetches
  <2>2. Listed' /\ Pager!Load(p) /\ p \in 0..NUM_PAGES
    BY <2>1, FetchRefines
  <2> QED BY <2>2 DEF Pager!Next
<1>3. CASE UNCHANGED <<max_pages, lifearr, namearr>>
  BY <1>3, SlotsStay
<1>4. ASSUME NEW addrs, NEW to, NEW byte, Fetch(addrs, to, byte)
      PROVE  UNCHANGED <<max_pages, lifearr, namearr>>
  BY <1>4 DEF Fetch, globals
<1>5. Execute => UNCHANGED <<max_pages, lifearr, namearr>>
  BY DEF Execute, globals
<1>6. ASSUME NEW a, RejectAddress(a) \/ Die(a)
      PROVE  UNCHANGED <<max_pages, lifearr, namearr>>
  BY <1>6 DEF RejectAddress, Die, globals
<1>7. Done \/ InitializeFails \/ UNCHANGED vars => UNCHANGED <<max_pages, lifearr, namearr>>
  BY DEF Done, InitializeFails, vars, globals
<1> QED BY <1>1, <1>2, <1>3, <1>4, <1>5, <1>6, <1>7 DEF Next, Progress

LEMMA InitRefines ==
  Init => Listed /\ Pager!Init
<1> SUFFICES ASSUME Init PROVE Listed /\ Pager!Init
  OBVIOUS
<1>1. max_pages = 0
  BY DEF Init
<1>2. Held = {}
  BY <1>1 DEF Held, Slots
<1>3. Listed /\ Resident = <<>>
  BY <1>2, NothingHeld
<1> QED BY <1>1, <1>3 DEF Pager!Init, Resident

\* Every behaviour of the handler is one of a pager that throws out the page that
\* has been in memory the longest, and none before max_pages are
\* (ImplementsFifoPager), whatever totcount was when initialize_forth was called.
THEOREM PagerRefinement ==
  ASSUME IntsFit, EnoughPages, EndUnused
  PROVE  Spec => ImplementsFifoPager
<1>1. Init => Listed /\ Pager!Init
  BY InitRefines
<1>2. IInv /\ IInv' /\ Listed /\ [Next]_vars => Listed' /\ [Pager!Next]_(Pager!vars)
  BY StepRefines
<1> QED BY <1>1, <1>2, PagerInvariant, PTL DEF Spec, ImplementsFifoPager, Pager!Spec
=============================================================================
