------------------------ MODULE LockFreeQueueProofs ------------------------
(***************************************************************************)
(* If malloc leaves the counter of a freed node alone, queue.c is correct  *)
(* for any number of threads, nodes, values and calls: the nodes stay one  *)
(* chain, none leaks or is freed twice, a cas never succeeds behind any    *)
(* node but the last, and every behaviour is one of FifoQueue.             *)
(***************************************************************************)
EXTENDS LockFreeQueue, SequenceTheorems, TLAPS

EnqueueLabels == {"e_null", "e_tail1", "e_tail2", "e_next1", "e_next2", "e_check1",
                  "e_check2", "e_link", "e_help", "e_swing"}
DequeueLabels == {"d_head1", "d_head2", "d_tail1", "d_tail2", "d_next1", "d_next2",
                  "d_check1", "d_check2", "d_same1", "d_same2", "d_help", "d_value",
                  "d_swing"}
Labels == {"idle", "d_free"} \cup EnqueueLabels \cup DequeueLabels

LocalsType == [new : Cells \cup {NULL}, head : PairType, tail : PairType, next : PairType,
               again : PairType, read : NodeType, value : Values \cup {GARBAGE}]

Typed == TypeOK /\ pc \in [Threads -> Labels]

-----------------------------------------------------------------------------
\* The shared state.  The list, also while it is destroyed, is a chain in
\* memory that begins at the head.
Chain ==
  /\ head.pointer = IF list = <<>> THEN NULL ELSE list[1]
  /\ \A i, j \in 1..Len(list) : i # j => list[i] # list[j]
  /\ \A i \in 1..Len(list) :
       node[list[i]].next.pointer = IF i = Len(list) THEN NULL ELSE list[i + 1]

TailInList == \E i \in 1..Len(list) : i >= Len(list) - 1 /\ tail.pointer = list[i]
Open == ~closed => list # <<>> /\ TailInList
Closed == closed => \A t \in Threads : pc[t] = "idle"

\* Who has which node
Held(t) == Entering(t) \cup Leaving(t)
InList(c) == \E i \in 1..Len(list) : list[i] = c
Owned ==
  /\ \A c \in allocated : InList(c) \/ \E t \in Threads : c \in Held(t)
  /\ \A i \in 1..Len(list) : list[i] \in allocated
  /\ \A t \in Threads : Held(t) \subseteq allocated
  /\ \A t \in Threads : \A c \in Held(t) : ~InList(c)
  /\ \A t, u \in Threads : t # u => Held(t) \cap Held(u) = {}

\* While a dequeue is under way with the queue empty, it has seen it empty.
EmptySeen == Len(list) = 1 => \A t \in Threads : pc[t] \in DequeueLabels => t \in sawEmpty

Shared == Typed /\ Chain /\ Open /\ Closed /\ Owned /\ EmptySeen

-----------------------------------------------------------------------------
\* What thread t knows of the tail and of the head it has read: as long as the
\* counter is the one it read first, so is the pointer.
TailCounterRead == {"e_tail2", "e_next1", "e_next2", "e_check1", "e_check2", "e_link",
                    "e_help", "e_swing", "d_tail2", "d_next1", "d_next2", "d_check1",
                    "d_check2", "d_same1", "d_same2", "d_help"}
TailRead == TailCounterRead \ {"e_tail2", "d_tail2"}
HeadCounterRead == DequeueLabels \ {"d_head1"}
HeadRead == HeadCounterRead \ {"d_head2"}

TailFresh(t) == tail.counter = loc[t].tail.counter
HeadFresh(t) == head.counter = loc[t].head.counter

TailKnown(t) ==
  /\ pc[t] \in TailCounterRead => loc[t].tail.counter <= tail.counter
  /\ pc[t] \in TailRead => /\ loc[t].tail.pointer \in Cells
                           /\ TailFresh(t) => loc[t].tail.pointer = tail.pointer
HeadKnown(t) ==
  /\ pc[t] \in HeadCounterRead => loc[t].head.counter <= head.counter
  /\ pc[t] \in HeadRead => /\ loc[t].head.pointer \in Cells
                           /\ HeadFresh(t) => loc[t].head.pointer = head.pointer

\* The node t brings in
NodeKnown(t) ==
  /\ pc[t] = "idle" => loc[t] = NoLocals
  /\ pc[t] \in EnqueueLabels => loc[t].new \in Cells
  /\ pc[t] \in DequeueLabels \cup {"d_free"} => loc[t].new = NULL
  /\ pc[t] \in EnqueueLabels \ {"e_null", "e_swing"} => node[loc[t].new].next.pointer = NULL

\* The cas behind the node t took for the last either fails, because that node's
\* counter has moved on, or finds it the last.
LinkSound(t) ==
  LET c == loc[t].tail.pointer
  IN \/ node[c].next.counter > loc[t].next.counter
     \/ node[c].next = loc[t].next /\ tail.pointer = c

\* If the tail is still where t found it, p is the node behind it.
Behind(t, p) == TailFresh(t) => node[tail.pointer].next.pointer = p

EnqueueKnows(t) ==
  /\ pc[t] = "e_next2" /\ TailFresh(t) =>
       LET next == node[tail.pointer].next
       IN \/ next.counter = loc[t].next.counter
          \/ next.counter > loc[t].next.counter /\ next.pointer # NULL
  /\ pc[t] = "e_check1" /\ TailFresh(t) /\ loc[t].next.pointer = NULL => LinkSound(t)
  /\ pc[t] = "e_check2" /\ loc[t].again.counter = loc[t].tail.counter
       /\ loc[t].next.pointer = NULL => LinkSound(t)
  /\ pc[t] = "e_link" => loc[t].next.pointer = NULL /\ LinkSound(t)
  /\ pc[t] \in {"e_check1", "e_check2"} /\ loc[t].next.pointer # NULL =>
       Behind(t, loc[t].next.pointer)
  /\ pc[t] = "e_help" => loc[t].next.pointer # NULL /\ Behind(t, loc[t].next.pointer)
  /\ pc[t] = "e_swing" => Behind(t, loc[t].new)

\* What t knows of the node behind the head
NextKnown(t) ==
  IF loc[t].next.pointer = NULL THEN t \in sawEmpty
  ELSE Len(list) >= 2 /\ loc[t].next.pointer = list[2]
TailHasLeft == tail.pointer # head.pointer

DequeueKnows(t) ==
  /\ pc[t] \in {"d_next1", "d_next2", "d_check1", "d_check2"} /\ HeadFresh(t)
       /\ loc[t].tail.pointer # loc[t].head.pointer => TailHasLeft
  /\ pc[t] \in {"d_check1", "d_check2", "d_same1", "d_same2", "d_value", "d_swing"}
       /\ HeadFresh(t) => NextKnown(t)
  /\ pc[t] = "d_check2" /\ loc[t].again.counter = loc[t].head.counter
       /\ loc[t].next.pointer = NULL => t \in sawEmpty
  /\ pc[t] \in {"d_same1", "d_same2", "d_help"} => loc[t].head.pointer = loc[t].tail.pointer
  /\ pc[t] \in {"d_same1", "d_same2"} /\ loc[t].next.pointer = NULL => t \in sawEmpty
  /\ pc[t] \in {"d_check1", "d_check2", "d_same1", "d_same2", "d_help"}
       /\ loc[t].head.pointer = loc[t].tail.pointer /\ loc[t].next.pointer # NULL =>
       Behind(t, loc[t].next.pointer)
  /\ pc[t] = "d_same2" /\ HeadFresh(t) /\ loc[t].next.pointer # NULL =>
       loc[t].read = node[head.pointer]
  /\ pc[t] \in {"d_help", "d_value", "d_swing"} => loc[t].next.pointer # NULL
  /\ pc[t] \in {"d_value", "d_swing"} /\ HeadFresh(t) => TailHasLeft
  /\ pc[t] = "d_swing" /\ HeadFresh(t) => loc[t].value = node[loc[t].next.pointer].value

ThreadInv(t) ==
  TailKnown(t) /\ HeadKnown(t) /\ NodeKnown(t) /\ EnqueueKnows(t) /\ DequeueKnows(t)

IInv == Shared /\ \A t \in Threads : ThreadInv(t)

-----------------------------------------------------------------------------
\* The types, field by field
LEMMA Types ==
  ASSUME Typed
  PROVE  /\ head \in PairType /\ tail \in PairType
         /\ node \in [Cells -> NodeType]
         /\ loc \in [Threads -> LocalsType]
         /\ list \in Seq(Cells)
         /\ pc \in [Threads -> Labels]
BY DEF Typed, TypeOK, LocalsType

LEMMA TypesNext ==
  ASSUME Typed'
  PROVE  /\ head' \in PairType /\ tail' \in PairType
         /\ node' \in [Cells -> NodeType]
         /\ list' \in Seq(Cells)
BY DEF Typed, TypeOK

LEMMA LocalTypes ==
  ASSUME Typed, NEW t \in Threads
  PROVE  /\ loc[t] \in LocalsType
         /\ loc[t].new \in Cells \cup {NULL}
         /\ loc[t].head \in PairType /\ loc[t].tail \in PairType
         /\ loc[t].next \in PairType /\ loc[t].again \in PairType
         /\ loc[t].read \in NodeType
         /\ loc[t].value \in Values \cup {GARBAGE}
         /\ pc[t] \in Labels
BY Types DEF LocalsType

\* The two loads change one word of one local.
LEMMA PairExcept ==
  ASSUME NEW p \in PairType, NEW x
  PROVE  /\ [p EXCEPT !.counter = x] = Pair(p.pointer, x)
         /\ [p EXCEPT !.pointer = x] = Pair(x, p.counter)
BY DEF PairType, Pair

LEMMA TailLoads ==
  ASSUME Typed, NEW t \in Threads, NEW src
  PROVE  /\ LoadCounter(t, "tail", src) =>
              loc' = [loc EXCEPT ![t] = [loc[t] EXCEPT !.tail = Pair(loc[t].tail.pointer, src.counter)]]
         /\ LoadPointer(t, "tail", src) =>
              loc' = [loc EXCEPT ![t] = [loc[t] EXCEPT !.tail = Pair(src.pointer, loc[t].tail.counter)]]
<1>1. ASSUME LoadCounter(t, "tail", src)
      PROVE  loc' = [loc EXCEPT ![t] = [loc[t] EXCEPT !.tail = Pair(loc[t].tail.pointer, src.counter)]]
  <2>1. loc' = [loc EXCEPT ![t] = [loc[t] EXCEPT !.tail = [loc[t].tail EXCEPT !.counter = src.counter]]]
    BY <1>1, Types DEF LocalsType, LoadCounter
  <2> QED BY <2>1, PairExcept, LocalTypes
<1>2. ASSUME LoadPointer(t, "tail", src)
      PROVE  loc' = [loc EXCEPT ![t] = [loc[t] EXCEPT !.tail = Pair(src.pointer, loc[t].tail.counter)]]
  <2>1. loc' = [loc EXCEPT ![t] = [loc[t] EXCEPT !.tail = [loc[t].tail EXCEPT !.pointer = src.pointer]]]
    BY <1>2, Types DEF LocalsType, LoadPointer
  <2> QED BY <2>1, PairExcept, LocalTypes
<1> QED BY <1>1, <1>2

LEMMA HeadLoads ==
  ASSUME Typed, NEW t \in Threads, NEW src
  PROVE  /\ LoadCounter(t, "head", src) =>
              loc' = [loc EXCEPT ![t] = [loc[t] EXCEPT !.head = Pair(loc[t].head.pointer, src.counter)]]
         /\ LoadPointer(t, "head", src) =>
              loc' = [loc EXCEPT ![t] = [loc[t] EXCEPT !.head = Pair(src.pointer, loc[t].head.counter)]]
<1>1. ASSUME LoadCounter(t, "head", src)
      PROVE  loc' = [loc EXCEPT ![t] = [loc[t] EXCEPT !.head = Pair(loc[t].head.pointer, src.counter)]]
  <2>1. loc' = [loc EXCEPT ![t] = [loc[t] EXCEPT !.head = [loc[t].head EXCEPT !.counter = src.counter]]]
    BY <1>1, Types DEF LocalsType, LoadCounter
  <2> QED BY <2>1, PairExcept, LocalTypes
<1>2. ASSUME LoadPointer(t, "head", src)
      PROVE  loc' = [loc EXCEPT ![t] = [loc[t] EXCEPT !.head = Pair(src.pointer, loc[t].head.counter)]]
  <2>1. loc' = [loc EXCEPT ![t] = [loc[t] EXCEPT !.head = [loc[t].head EXCEPT !.pointer = src.pointer]]]
    BY <1>2, Types DEF LocalsType, LoadPointer
  <2> QED BY <2>1, PairExcept, LocalTypes
<1> QED BY <1>1, <1>2

LEMMA NextLoads ==
  ASSUME Typed, NEW t \in Threads, NEW src
  PROVE  /\ LoadCounter(t, "next", src) =>
              loc' = [loc EXCEPT ![t] = [loc[t] EXCEPT !.next = Pair(loc[t].next.pointer, src.counter)]]
         /\ LoadPointer(t, "next", src) =>
              loc' = [loc EXCEPT ![t] = [loc[t] EXCEPT !.next = Pair(src.pointer, loc[t].next.counter)]]
<1>1. ASSUME LoadCounter(t, "next", src)
      PROVE  loc' = [loc EXCEPT ![t] = [loc[t] EXCEPT !.next = Pair(loc[t].next.pointer, src.counter)]]
  <2>1. loc' = [loc EXCEPT ![t] = [loc[t] EXCEPT !.next = [loc[t].next EXCEPT !.counter = src.counter]]]
    BY <1>1, Types DEF LocalsType, LoadCounter
  <2> QED BY <2>1, PairExcept, LocalTypes
<1>2. ASSUME LoadPointer(t, "next", src)
      PROVE  loc' = [loc EXCEPT ![t] = [loc[t] EXCEPT !.next = Pair(src.pointer, loc[t].next.counter)]]
  <2>1. loc' = [loc EXCEPT ![t] = [loc[t] EXCEPT !.next = [loc[t].next EXCEPT !.pointer = src.pointer]]]
    BY <1>2, Types DEF LocalsType, LoadPointer
  <2> QED BY <2>1, PairExcept, LocalTypes
<1> QED BY <1>1, <1>2

LEMMA AgainLoads ==
  ASSUME Typed, NEW t \in Threads, NEW src, LoadCounter(t, "again", src)
  PROVE  loc' = [loc EXCEPT ![t] = [loc[t] EXCEPT !.again = Pair(loc[t].again.pointer, src.counter)]]
<1>1. loc' = [loc EXCEPT ![t] = [loc[t] EXCEPT !.again = [loc[t].again EXCEPT !.counter = src.counter]]]
  BY Types DEF LocalsType, LoadCounter
<1> QED BY <1>1, PairExcept, LocalTypes

\* What each load of EnqueueReads does: tail, next and tail again
LEMMA EnqueueReadsCases ==
  ASSUME Typed, NEW t \in Threads, EnqueueReads(t)
  PROVE  /\ UNCHANGED <<head, tail, node, allocated, calls, list, sawEmpty, closed>>
         /\ \/ /\ pc[t] = "e_tail1" /\ pc' = [pc EXCEPT ![t] = "e_tail2"]
               /\ loc' = [loc EXCEPT ![t] = [loc[t] EXCEPT !.tail = Pair(loc[t].tail.pointer, tail.counter)]]
            \/ /\ pc[t] = "e_tail2" /\ pc' = [pc EXCEPT ![t] = "e_next1"]
               /\ loc' = [loc EXCEPT ![t] = [loc[t] EXCEPT !.tail = Pair(tail.pointer, loc[t].tail.counter)]]
            \/ /\ pc[t] = "e_next1" /\ pc' = [pc EXCEPT ![t] = "e_next2"]
               /\ loc' = [loc EXCEPT ![t] = [loc[t] EXCEPT !.next = Pair(loc[t].next.pointer, node[loc[t].tail.pointer].next.counter)]]
            \/ /\ pc[t] = "e_next2" /\ pc' = [pc EXCEPT ![t] = "e_check1"]
               /\ loc' = [loc EXCEPT ![t] = [loc[t] EXCEPT !.next = Pair(node[loc[t].tail.pointer].next.pointer, loc[t].next.counter)]]
            \/ /\ pc[t] = "e_check1" /\ pc' = [pc EXCEPT ![t] = "e_check2"]
               /\ loc' = [loc EXCEPT ![t] = [loc[t] EXCEPT !.again = Pair(loc[t].again.pointer, tail.counter)]]
<1>1. UNCHANGED <<head, tail, node, allocated, calls, list, sawEmpty, closed>>
  BY DEF EnqueueReads, shared, history
<1> QED BY <1>1, TailLoads, HeadLoads, NextLoads, AgainLoads DEF EnqueueReads, Read, Goto

\* What each load of DequeueReads does: head, tail, next and head again
LEMMA DequeueReadsCases ==
  ASSUME Typed, NEW t \in Threads, DequeueReads(t)
  PROVE  /\ UNCHANGED <<head, tail, node, allocated, calls, list, sawEmpty, closed>>
         /\ \/ /\ pc[t] = "d_head1" /\ pc' = [pc EXCEPT ![t] = "d_head2"]
               /\ loc' = [loc EXCEPT ![t] = [loc[t] EXCEPT !.head = Pair(loc[t].head.pointer, head.counter)]]
            \/ /\ pc[t] = "d_head2" /\ pc' = [pc EXCEPT ![t] = "d_tail1"]
               /\ loc' = [loc EXCEPT ![t] = [loc[t] EXCEPT !.head = Pair(head.pointer, loc[t].head.counter)]]
            \/ /\ pc[t] = "d_tail1" /\ pc' = [pc EXCEPT ![t] = "d_tail2"]
               /\ loc' = [loc EXCEPT ![t] = [loc[t] EXCEPT !.tail = Pair(loc[t].tail.pointer, tail.counter)]]
            \/ /\ pc[t] = "d_tail2" /\ pc' = [pc EXCEPT ![t] = "d_next1"]
               /\ loc' = [loc EXCEPT ![t] = [loc[t] EXCEPT !.tail = Pair(tail.pointer, loc[t].tail.counter)]]
            \/ /\ pc[t] = "d_next1" /\ pc' = [pc EXCEPT ![t] = "d_next2"]
               /\ loc' = [loc EXCEPT ![t] = [loc[t] EXCEPT !.next = Pair(loc[t].next.pointer, node[loc[t].head.pointer].next.counter)]]
            \/ /\ pc[t] = "d_next2" /\ pc' = [pc EXCEPT ![t] = "d_check1"]
               /\ loc' = [loc EXCEPT ![t] = [loc[t] EXCEPT !.next = Pair(node[loc[t].head.pointer].next.pointer, loc[t].next.counter)]]
            \/ /\ pc[t] = "d_check1" /\ pc' = [pc EXCEPT ![t] = "d_check2"]
               /\ loc' = [loc EXCEPT ![t] = [loc[t] EXCEPT !.again = Pair(loc[t].again.pointer, head.counter)]]
<1>1. UNCHANGED <<head, tail, node, allocated, calls, list, sawEmpty, closed>>
  BY DEF DequeueReads, shared, history
<1> QED BY <1>1, TailLoads, HeadLoads, NextLoads, AgainLoads DEF DequeueReads, Read, Goto

-----------------------------------------------------------------------------
\* What the steps of the others leave thread u to rely on: the counters only
\* grow, the tail only moves on to the node behind it, a listed node only ever
\* gets a successor, and the list only loses its head when the head moves.
Rely(u) ==
  /\ pc'[u] = pc[u] /\ loc'[u] = loc[u]
  /\ \/ tail' = tail
     \/ tail'.counter > tail.counter /\ tail'.pointer = node[tail.pointer].next.pointer
          /\ tail'.pointer \in Cells
  /\ \/ head' = head /\ Len(list') >= Len(list) /\ \A i \in 1..Len(list) : list'[i] = list[i]
     \/ head'.counter > head.counter
  /\ \A c \in Cells : node'[c].next.counter >= node[c].next.counter
  /\ \A c \in Cells : InList(c) =>
       /\ node'[c].value = node[c].value
       /\ \/ node'[c].next = node[c].next
          \/ node[c].next.pointer = NULL /\ node'[c].next.counter > node[c].next.counter
               /\ node'[c].next.pointer \in Cells
  /\ \A c \in Entering(u) : node'[c] = node[c]
  /\ u \in sawEmpty /\ pc[u] \in DequeueLabels => u \in sawEmpty'

\* A thread in a call sees a queue that is not empty and whose tail is listed.
LEMMA InCall ==
  ASSUME Shared, NEW t \in Threads, pc[t] # "idle"
  PROVE  /\ ~closed
         /\ Len(list) \in Nat \ {0}
         /\ head.pointer = list[1] /\ list[1] \in Cells /\ InList(list[1])
         /\ tail.pointer \in Cells /\ InList(tail.pointer)
<1>1. ~closed /\ list # <<>> /\ TailInList
  BY DEF Shared, Closed, Open
<1>2. list \in Seq(Cells)
  BY Types DEF Shared
<1>3. Len(list) \in Nat \ {0} /\ list[1] \in Cells
  BY <1>1, <1>2
<1>4. head.pointer = list[1]
  BY <1>1 DEF Shared, Chain
<1> QED BY <1>1, <1>2, <1>3, <1>4 DEF TailInList, InList

\* The node behind a listed node is listed, and is not the first.
LEMMA Successor ==
  ASSUME Shared, NEW c \in Cells, InList(c), node[c].next.pointer # NULL
  PROVE  LET d == node[c].next.pointer
         IN d \in Cells /\ InList(d) /\ d # list[1] /\ Len(list) >= 2
<1> USE DEF Shared
<1>1. list \in Seq(Cells)
  BY Types
<1>2. PICK i \in 1..Len(list) : list[i] = c
  BY DEF InList
<1>3. i # Len(list) /\ node[c].next.pointer = list[i + 1]
  BY <1>1, <1>2 DEF Chain
<1>4. i + 1 \in 1..Len(list) /\ 1 \in 1..Len(list) /\ i + 1 # 1
  BY <1>1, <1>2, <1>3
<1>5. list[i + 1] # list[1] /\ list[i + 1] \in Cells /\ InList(list[i + 1])
  BY <1>1, <1>4 DEF Chain, InList
<1> QED BY <1>1, <1>2, <1>3, <1>4, <1>5

LEMMA TailKnownStable ==
  ASSUME Shared, Typed', NEW u \in Threads, TailKnown(u), Rely(u)
  PROVE  TailKnown(u)' /\ (pc[u] \in TailCounterRead /\ TailFresh(u)' => TailFresh(u) /\ tail' = tail)
<1>1. tail.counter \in Nat /\ tail'.counter \in Nat /\ loc[u].tail.counter \in Nat
  BY Types, TypesNext, LocalTypes DEF Shared, PairType
<1>2. tail' = tail \/ tail'.counter > tail.counter
  BY DEF Rely
<1>3. pc'[u] = pc[u] /\ loc'[u] = loc[u]
  BY DEF Rely
<1>4. pc[u] \in TailCounterRead /\ TailFresh(u)' => tail' = tail
  BY <1>1, <1>2, <1>3 DEF TailKnown, TailFresh
<1> QED BY <1>1, <1>2, <1>3, <1>4 DEF TailKnown, TailFresh, TailRead

LEMMA HeadKnownStable ==
  ASSUME Shared, Typed', NEW u \in Threads, HeadKnown(u), Rely(u)
  PROVE  HeadKnown(u)' /\ (pc[u] \in HeadCounterRead /\ HeadFresh(u)' => HeadFresh(u) /\ head' = head)
<1>1. head.counter \in Nat /\ head'.counter \in Nat /\ loc[u].head.counter \in Nat
  BY Types, TypesNext, LocalTypes DEF Shared, PairType
<1>2. head' = head \/ head'.counter > head.counter
  BY DEF Rely
<1>3. pc'[u] = pc[u] /\ loc'[u] = loc[u]
  BY DEF Rely
<1>4. pc[u] \in HeadCounterRead /\ HeadFresh(u)' => head' = head
  BY <1>1, <1>2, <1>3 DEF HeadKnown, HeadFresh
<1> QED BY <1>1, <1>2, <1>3, <1>4 DEF HeadKnown, HeadFresh, HeadRead

LEMMA NodeKnownStable ==
  ASSUME Shared, NEW u \in Threads, NodeKnown(u), Rely(u)
  PROVE  NodeKnown(u)'
<1>1. pc'[u] = pc[u] /\ loc'[u] = loc[u] /\ \A c \in Entering(u) : node'[c] = node[c]
  BY DEF Rely
<1>2. pc[u] \in EnqueueLabels \ {"e_null", "e_swing"} => loc[u].new \in Entering(u)
  BY QueueAssumption DEF NodeKnown, Entering, EnqueueLabels
<1> QED BY <1>1, <1>2 DEF NodeKnown

\* The successor of an unmoved tail stays what it is.
LEMMA BehindStable ==
  ASSUME Shared, Typed', NEW u \in Threads, TailKnown(u), Rely(u), NEW p, p # NULL,
         pc[u] \in TailCounterRead, Behind(u, p)
  PROVE  (TailFresh(u) => node[tail.pointer].next.pointer = p)'
<1> SUFFICES ASSUME TailFresh(u)'
             PROVE  node'[tail'.pointer].next.pointer = p
  OBVIOUS
<1>1. TailFresh(u) /\ tail' = tail
  BY TailKnownStable
<1>2. node[tail.pointer].next.pointer = p
  BY <1>1 DEF Behind
<1>3. tail.pointer \in Cells /\ InList(tail.pointer)
  BY InCall DEF TailCounterRead
<1> QED BY <1>1, <1>2, <1>3 DEF Rely

LEMMA LinkSoundStable ==
  ASSUME Shared, Typed', NEW u \in Threads, Rely(u), LinkSound(u),
         pc[u] # "idle", loc[u].next.pointer = NULL, loc[u].tail.pointer \in Cells
  PROVE  LinkSound(u)'
<1> DEFINE c == loc[u].tail.pointer
<1>1. loc'[u] = loc[u]
  BY DEF Rely
<1>2. node[c].next.counter \in Nat /\ node'[c].next.counter \in Nat /\ loc[u].next.counter \in Nat
  BY Types, TypesNext, LocalTypes DEF Shared, NodeType, PairType
<1>3. node'[c].next.counter >= node[c].next.counter
  BY DEF Rely
<1>4. CASE node[c].next.counter > loc[u].next.counter
  BY <1>1, <1>2, <1>3, <1>4 DEF LinkSound
<1>5. CASE node[c].next = loc[u].next /\ tail.pointer = c
  <2>1. InList(c) /\ node[c].next.pointer = NULL
    BY <1>5, InCall
  <2>2. tail' = tail
    BY <1>5, <2>1, QueueAssumption DEF Rely
  <2>3. node'[c].next = node[c].next \/ node'[c].next.counter > node[c].next.counter
    BY <2>1 DEF Rely
  <2> QED BY <1>1, <1>5, <2>2, <2>3 DEF LinkSound
<1> QED BY <1>4, <1>5 DEF LinkSound

LEMMA EnqueueKnowsStable ==
  ASSUME Shared, Typed', NEW u \in Threads, TailKnown(u), NodeKnown(u), EnqueueKnows(u), Rely(u)
  PROVE  EnqueueKnows(u)'
<1>0. pc'[u] = pc[u] /\ loc'[u] = loc[u]
  BY DEF Rely
<1>1. ASSUME pc[u] = "e_next2", TailFresh(u)'
      PROVE  LET next == node'[tail'.pointer].next
             IN \/ next.counter = loc[u].next.counter
                \/ next.counter > loc[u].next.counter /\ next.pointer # NULL
  <2>1. TailFresh(u) /\ tail' = tail
    BY <1>1, TailKnownStable DEF TailCounterRead
  <2>2. tail.pointer \in Cells /\ InList(tail.pointer)
    BY <1>1, InCall
  <2>3. /\ node[tail.pointer].next.counter \in Nat /\ node'[tail.pointer].next.counter \in Nat
        /\ loc[u].next.counter \in Nat
    BY <2>2, Types, TypesNext, LocalTypes DEF Shared, NodeType, PairType
  <2>4. \/ node'[tail.pointer].next = node[tail.pointer].next
        \/ node'[tail.pointer].next.counter > node[tail.pointer].next.counter
             /\ node'[tail.pointer].next.pointer \in Cells
    BY <2>2 DEF Rely
  <2>5. \/ node[tail.pointer].next.counter = loc[u].next.counter
        \/ node[tail.pointer].next.counter > loc[u].next.counter
             /\ node[tail.pointer].next.pointer # NULL
    BY <1>1, <2>1 DEF EnqueueKnows
  <2> QED BY <2>1, <2>3, <2>4, <2>5, QueueAssumption
<1>2. ASSUME pc[u] \in {"e_check1", "e_check2", "e_link"}
      PROVE  loc[u].tail.pointer \in Cells
  BY <1>2 DEF TailKnown, TailRead, TailCounterRead
<1>3. ASSUME pc[u] \in {"e_check1", "e_check2", "e_link"}, loc[u].next.pointer = NULL, LinkSound(u)
      PROVE  LinkSound(u)'
  BY <1>2, <1>3, LinkSoundStable
<1>4. pc[u] = "e_check1" /\ TailFresh(u)' => TailFresh(u)
  BY TailKnownStable DEF TailCounterRead
<1>5. ASSUME NEW p, p # NULL, pc[u] \in TailCounterRead, Behind(u, p)
      PROVE  TailFresh(u)' => node'[tail'.pointer].next.pointer = p
  BY <1>5, BehindStable
<1>6. pc[u] = "e_swing" => loc[u].new # NULL
  BY QueueAssumption DEF NodeKnown, EnqueueLabels
<1>7. pc[u] \in {"e_check1", "e_check2"} /\ loc[u].next.pointer # NULL =>
        (TailFresh(u)' => node'[tail'.pointer].next.pointer = loc[u].next.pointer)
  BY <1>5 DEF EnqueueKnows, TailCounterRead
<1>8. pc[u] = "e_help" => loc[u].next.pointer # NULL
        /\ (TailFresh(u)' => node'[tail'.pointer].next.pointer = loc[u].next.pointer)
  BY <1>5 DEF EnqueueKnows, TailCounterRead
<1>9. pc[u] = "e_swing" =>
        (TailFresh(u)' => node'[tail'.pointer].next.pointer = loc[u].new)
  BY <1>5, <1>6 DEF EnqueueKnows, TailCounterRead
<1>10. pc[u] = "e_link" => loc[u].next.pointer = NULL /\ LinkSound(u)'
  BY <1>3 DEF EnqueueKnows
<1>11. pc[u] = "e_check1" /\ TailFresh(u)' /\ loc[u].next.pointer = NULL => LinkSound(u)'
  BY <1>3, <1>4 DEF EnqueueKnows
<1>12. pc[u] = "e_check2" /\ loc[u].again.counter = loc[u].tail.counter
         /\ loc[u].next.pointer = NULL => LinkSound(u)'
  BY <1>3 DEF EnqueueKnows
<1> QED BY <1>0, <1>1, <1>7, <1>8, <1>9, <1>10, <1>11, <1>12 DEF EnqueueKnows, Behind

LEMMA DequeueKnowsStable ==
  ASSUME Shared, Typed', NEW u \in Threads, TailKnown(u), HeadKnown(u), DequeueKnows(u), Rely(u)
  PROVE  DequeueKnows(u)'
<1>0. pc'[u] = pc[u] /\ loc'[u] = loc[u]
  BY DEF Rely
<1>1. ASSUME pc[u] \in HeadCounterRead, HeadFresh(u)'
      PROVE  /\ HeadFresh(u) /\ head' = head
             /\ Len(list') >= Len(list) /\ \A i \in 1..Len(list) : list'[i] = list[i]
  <2>1. HeadFresh(u) /\ head' = head
    BY <1>1, HeadKnownStable
  <2>2. head.counter \in Nat
    BY Types DEF Shared, PairType
  <2> QED BY <2>1, <2>2 DEF Rely
<1>2. ASSUME pc[u] \in HeadCounterRead, HeadFresh(u)', TailHasLeft
      PROVE  TailHasLeft'
  <2>1. head' = head /\ head.pointer = list[1]
    BY <1>1, <1>2, InCall DEF HeadCounterRead, DequeueLabels
  <2>2. CASE tail' = tail
    BY <1>2, <2>1, <2>2 DEF TailHasLeft
  <2>3. CASE tail'.pointer = node[tail.pointer].next.pointer /\ tail'.pointer \in Cells
    <3>1. tail.pointer \in Cells /\ InList(tail.pointer)
      BY <1>2, InCall DEF HeadCounterRead, DequeueLabels
    <3>2. tail'.pointer # list[1]
      BY <2>3, <3>1, Successor, QueueAssumption
    <3> QED BY <2>1, <3>2 DEF TailHasLeft
  <2> QED BY <2>2, <2>3 DEF Rely
<1>3. ASSUME pc[u] \in HeadCounterRead, HeadFresh(u)', NextKnown(u)
      PROVE  NextKnown(u)'
  <2>1. Len(list') >= Len(list) /\ \A i \in 1..Len(list) : list'[i] = list[i]
    BY <1>1, <1>3
  <2>2. u \in sawEmpty => u \in sawEmpty'
    BY <1>3 DEF Rely, HeadCounterRead
  <2>3. Len(list) \in Nat /\ Len(list') \in Nat
    BY Types, TypesNext DEF Shared
  <2>4. Len(list) >= 2 => Len(list') >= 2 /\ list'[2] = list[2]
    BY <2>1, <2>3
  <2> QED BY <1>0, <1>3, <2>2, <2>4 DEF NextKnown
<1>4. u \in sawEmpty /\ pc[u] \in DequeueLabels => u \in sawEmpty'
  BY DEF Rely
<1>5. ASSUME NEW p, p # NULL, pc[u] \in TailCounterRead, Behind(u, p)
      PROVE  TailFresh(u)' => node'[tail'.pointer].next.pointer = p
  BY <1>5, BehindStable
<1> USE DEF HeadCounterRead, DequeueLabels
<1>6. pc[u] \in {"d_next1", "d_next2", "d_check1", "d_check2"} /\ HeadFresh(u)'
        /\ loc[u].tail.pointer # loc[u].head.pointer => TailHasLeft'
  BY <1>1, <1>2 DEF DequeueKnows
<1>7. pc[u] \in {"d_check1", "d_check2", "d_same1", "d_same2", "d_value", "d_swing"}
        /\ HeadFresh(u)' => NextKnown(u)'
  BY <1>1, <1>3 DEF DequeueKnows
<1>8. pc[u] \in {"d_check1", "d_check2", "d_same1", "d_same2", "d_help"}
        /\ loc[u].head.pointer = loc[u].tail.pointer /\ loc[u].next.pointer # NULL =>
        (TailFresh(u)' => node'[tail'.pointer].next.pointer = loc[u].next.pointer)
  BY <1>5 DEF DequeueKnows, TailCounterRead
<1>9. ASSUME pc[u] = "d_same2", HeadFresh(u)', loc[u].next.pointer # NULL
      PROVE  loc[u].read = node'[head'.pointer]
  <2>1. HeadFresh(u) /\ head' = head /\ head.pointer \in Cells /\ InList(head.pointer)
    BY <1>1, <1>9, InCall
  <2>2. NextKnown(u) /\ loc[u].read = node[head.pointer]
    BY <1>9, <2>1 DEF DequeueKnows
  <2>3. head.pointer = list[1] /\ Len(list) \in Nat /\ Len(list) >= 2
    BY <1>9, <2>2, InCall DEF NextKnown
  <2>4. node[head.pointer].next.pointer = list[2] /\ list[2] \in Cells
    BY <2>3, Types DEF Shared, Chain
  <2>5. node'[head.pointer].next = node[head.pointer].next
        /\ node'[head.pointer].value = node[head.pointer].value
    BY <2>1, <2>4, QueueAssumption DEF Rely
  <2>6. node[head.pointer] \in NodeType /\ node'[head.pointer] \in NodeType
    BY <2>1, Types, TypesNext DEF Shared
  <2> QED BY <2>1, <2>2, <2>5, <2>6 DEF NodeType
<1>10. pc[u] \in {"d_value", "d_swing"} /\ HeadFresh(u)' => TailHasLeft'
  BY <1>1, <1>2 DEF DequeueKnows
<1>11. ASSUME pc[u] = "d_swing", HeadFresh(u)'
       PROVE  loc[u].value = node'[loc[u].next.pointer].value
  <2>1. HeadFresh(u) /\ NextKnown(u) /\ loc[u].next.pointer # NULL
    BY <1>1, <1>11 DEF DequeueKnows
  <2>2. Len(list) \in Nat /\ Len(list) >= 2 /\ loc[u].next.pointer = list[2]
    BY <1>11, <2>1, InCall DEF NextKnown
  <2>3. InList(list[2]) /\ list[2] \in Cells
    BY <2>2, Types DEF Shared, InList
  <2> QED BY <1>11, <2>1, <2>2, <2>3 DEF DequeueKnows, Rely
<1>12. /\ pc[u] = "d_check2" /\ loc[u].again.counter = loc[u].head.counter
            /\ loc[u].next.pointer = NULL => u \in sawEmpty'
       /\ pc[u] \in {"d_same1", "d_same2"} /\ loc[u].next.pointer = NULL => u \in sawEmpty'
  BY <1>4 DEF DequeueKnows
<1>13. /\ pc[u] \in {"d_same1", "d_same2", "d_help"} => loc[u].head.pointer = loc[u].tail.pointer
       /\ pc[u] \in {"d_help", "d_value", "d_swing"} => loc[u].next.pointer # NULL
  BY DEF DequeueKnows
<1> QED BY <1>0, <1>6, <1>7, <1>8, <1>9, <1>10, <1>11, <1>12, <1>13 DEF DequeueKnows, Behind

\* What a thread knows survives the steps it relies on.
LEMMA Stable ==
  ASSUME Shared, Typed', NEW u \in Threads, ThreadInv(u), Rely(u)
  PROVE  ThreadInv(u)'
BY TailKnownStable, HeadKnownStable, NodeKnownStable, EnqueueKnowsStable, DequeueKnowsStable
   DEF ThreadInv

-----------------------------------------------------------------------------
CallsCounted == calls \in [Threads -> Nat] /\ \A t \in Threads : calls[t] <= OPS[t]

\* Thread t alone moves: its program counter becomes q, its locals become l.
Moves(t, q, l) ==
  /\ pc' = [pc EXCEPT ![t] = q]
  /\ loc' = [loc EXCEPT ![t] = l]
  /\ CallsCounted'

LEMMA MovesAlone ==
  ASSUME Typed, NEW t \in Threads, NEW q \in Labels, NEW l \in LocalsType, Moves(t, q, l)
  PROVE  /\ pc' \in [Threads -> Labels]
         /\ loc' \in [Threads -> LocalsType]
         /\ pc'[t] = q /\ loc'[t] = l
         /\ \A u \in Threads : u # t => pc'[u] = pc[u] /\ loc'[u] = loc[u]
BY Types DEF Moves

LEMMA MovesTyped ==
  ASSUME Typed, NEW t \in Threads, NEW q \in Labels, NEW l \in LocalsType, Moves(t, q, l),
         head' \in PairType, tail' \in PairType, node' \in [Cells -> NodeType],
         allocated' \subseteq Cells, list' \in Seq(Cells), sawEmpty' \subseteq Threads,
         closed' \in BOOLEAN
  PROVE  Typed'
BY MovesAlone DEF Typed, TypeOK, CallsCounted, LocalsType, Moves

\* What t changes of the shared state in most of its steps: nothing, or the tail
\* moves on to the next node.
TailMoves ==
  \/ tail' = tail
  \/ /\ tail' = Pair(node[tail.pointer].next.pointer, tail.counter + 1)
     /\ tail'.pointer \in Cells
Quiet(t) ==
  /\ UNCHANGED <<head, node, allocated, list, closed>>
  /\ TailMoves
  /\ sawEmpty' \subseteq Threads
  /\ \A u \in Threads : u # t => (u \in sawEmpty => u \in sawEmpty')

LEMMA QuietTail ==
  ASSUME Shared, TailMoves
  PROVE  /\ tail' \in PairType
         /\ \/ tail' = tail
            \/ /\ tail'.counter > tail.counter /\ tail'.pointer \in Cells
               /\ tail'.pointer = node[tail.pointer].next.pointer
<1>1. tail \in PairType
  BY Types DEF Shared
<1>2. CASE tail' = tail
  BY <1>1, <1>2
<1>3. CASE tail' # tail
  <2>1. /\ tail' = Pair(node[tail.pointer].next.pointer, tail.counter + 1)
        /\ tail'.pointer \in Cells
    BY <1>3 DEF TailMoves
  <2>2. tail'.pointer = node[tail.pointer].next.pointer /\ tail'.counter = tail.counter + 1
    BY <2>1 DEF Pair
  <2> QED BY <1>1, <2>1, <2>2 DEF PairType, Pair
<1> QED BY <1>2, <1>3

LEMMA QuietStep ==
  ASSUME IInv, NEW t \in Threads, NEW q \in Labels, NEW l \in LocalsType, Moves(t, q, l),
         Quiet(t), pc[t] # "idle" \/ ~closed,
         Entering(t)' = Entering(t), Leaving(t)' = Leaving(t),
         q \in DequeueLabels /\ Len(list) = 1 => t \in sawEmpty',
         Typed' => ThreadInv(t)'
  PROVE  IInv'
<1> USE DEF Quiet
<1>1. Shared /\ Typed
  BY DEF IInv, Shared
<1>2. Typed'
  BY <1>1, MovesTyped, QuietTail, Types DEF Typed, TypeOK
<1>3. \A u \in Threads : u # t => pc'[u] = pc[u] /\ loc'[u] = loc[u]
  BY <1>1, MovesAlone
<1>4. pc'[t] = q
  BY <1>1, MovesAlone
<1>5. ~closed /\ list # <<>> /\ TailInList /\ list \in Seq(Cells)
  BY <1>1, Types DEF Shared, Closed, Open
<1>6. Chain'
  BY <1>1 DEF Shared, Chain
<1>7. TailInList'
  <2>1. CASE tail' = tail
    BY <1>5, <2>1 DEF TailInList
  <2>2. CASE tail'.pointer \in Cells /\ tail'.pointer = node[tail.pointer].next.pointer
    <3>1. PICK i \in 1..Len(list) : i >= Len(list) - 1 /\ tail.pointer = list[i]
      BY <1>5 DEF TailInList
    <3>2. i # Len(list) /\ node[list[i]].next.pointer = list[i + 1]
      BY <1>1, <2>2, <3>1, QueueAssumption DEF Shared, Chain
    <3>3. i + 1 \in 1..Len(list) /\ i + 1 >= Len(list) - 1 /\ tail'.pointer = list[i + 1]
      BY <1>5, <2>2, <3>1, <3>2
    <3> QED BY <3>3 DEF TailInList
  <2> QED BY <1>1, <2>1, <2>2, QuietTail
<1>8. \A u \in Threads : Entering(u)' = Entering(u) /\ Leaving(u)' = Leaving(u)
  BY <1>3 DEF Entering, Leaving
<1>9. Owned'
  <2>1. \A u \in Threads : Held(u)' = Held(u)
    BY <1>8 DEF Held
  <2>2. \A c : InList(c)' <=> InList(c)
    BY DEF InList
  <2> QED BY <1>1, <2>1, <2>2 DEF Shared, Owned
<1>10. EmptySeen'
  BY <1>1, <1>3, <1>4 DEF Shared, EmptySeen
<1>11. ASSUME NEW u \in Threads, u # t
       PROVE  Rely(u)
  <2>1. \A c \in Cells : node[c].next.counter \in Nat
    BY <1>1, Types DEF NodeType, PairType
  <2>2. Len(list) \in Nat
    BY <1>5
  <2> QED BY <1>1, <1>3, <1>11, <2>1, <2>2, QuietTail DEF Rely
<1>12. \A u \in Threads : ThreadInv(u)'
  BY <1>1, <1>2, <1>11, Stable DEF IInv
<1> QED BY <1>2, <1>5, <1>6, <1>7, <1>9, <1>10, <1>12 DEF IInv, Shared, Open, Closed

\* A step that changes nothing shared
LEMMA QuietUnchanged ==
  ASSUME Shared, UNCHANGED <<head, tail, node, allocated, list, sawEmpty, closed>>, NEW t
  PROVE  Quiet(t)
BY Types DEF Shared, Typed, TypeOK, Quiet, TailMoves

LEMMA CallsTyped ==
  ASSUME Typed, calls' = calls
  PROVE  CallsCounted'
BY DEF Typed, TypeOK, CallsCounted

\* A step that changes nothing but where t is and one of its locals
LEMMA LocalStep ==
  ASSUME IInv, NEW t \in Threads, NEW q, NEW l \in LocalsType,
         UNCHANGED <<head, tail, node, allocated, calls, list, sawEmpty, closed>>,
         pc' = [pc EXCEPT ![t] = q], loc' = [loc EXCEPT ![t] = l], l.new = loc[t].new,
         \/ pc[t] \in EnqueueLabels \ {"e_swing"} /\ q \in EnqueueLabels \ {"e_swing"}
         \/ pc[t] \in DequeueLabels /\ q \in DequeueLabels,
         pc'[t] = q /\ loc'[t] = l => ThreadInv(t)'
  PROVE  IInv'
<1> USE DEF EnqueueLabels, DequeueLabels
<1>1. Shared /\ Typed
  BY DEF IInv, Shared
<1>2. Quiet(t) /\ Moves(t, q, l) /\ q \in Labels
  BY <1>1, QuietUnchanged, CallsTyped DEF Moves, Labels
<1>3. pc'[t] = q /\ loc'[t] = l
  BY <1>1, <1>2, MovesAlone
<1>4. Entering(t)' = Entering(t) /\ Leaving(t)' = Leaving(t)
  BY <1>3 DEF Entering, Leaving
<1>5. q \in DequeueLabels /\ Len(list) = 1 => t \in sawEmpty'
  BY <1>1 DEF Shared, EmptySeen
<1> QED BY <1>2, <1>3, <1>4, <1>5, QuietStep

\* Knowledge of the tail and of the head, once read, survives such a step.
LEMMA TailKept ==
  ASSUME NEW t, TailKnown(t), tail' = tail, loc'[t].tail = loc[t].tail, pc[t] \in TailRead
  PROVE  TailKnown(t)' /\ (TailFresh(t)' <=> TailFresh(t))
BY DEF TailKnown, TailFresh, TailRead

LEMMA HeadKept ==
  ASSUME NEW t, HeadKnown(t), head' = head, loc'[t].head = loc[t].head, pc[t] \in HeadRead
  PROVE  HeadKnown(t)' /\ (HeadFresh(t)' <=> HeadFresh(t))
BY DEF HeadKnown, HeadFresh, HeadRead

\* Reading the tail, its next, and the counter of the tail again
LEMMA EnqueueReadsStep ==
  ASSUME IInv, NEW t \in Threads, EnqueueReads(t)
  PROVE  IInv'
<1> USE DEF EnqueueLabels, DequeueLabels
<1>1. Shared /\ Typed /\ ThreadInv(t)
  BY DEF IInv, Shared
<1>2. UNCHANGED <<head, tail, node, allocated, calls, list, sawEmpty, closed>>
  BY <1>1, EnqueueReadsCases
<1>4. /\ loc[t] \in LocalsType /\ loc[t].tail \in PairType /\ loc[t].next \in PairType
      /\ loc[t].again \in PairType /\ tail \in PairType
  BY <1>1, Types, LocalTypes
<1>5. \A c \in Cells : node[c] \in NodeType /\ node[c].next \in PairType
  BY <1>1, Types DEF NodeType
<1>7. ASSUME pc[t] \in EnqueueLabels \ {"e_null", "e_swing"}
      PROVE  loc[t].new \in Cells /\ node[loc[t].new].next.pointer = NULL
  BY <1>1, <1>7 DEF ThreadInv, NodeKnown
<1>8. pc[t] \in EnqueueLabels => ~closed /\ tail.pointer \in Cells
  BY <1>1, InCall
<1>9. CASE /\ pc[t] = "e_tail1" /\ pc' = [pc EXCEPT ![t] = "e_tail2"]
           /\ loc' = [loc EXCEPT ![t] = [loc[t] EXCEPT !.tail = Pair(loc[t].tail.pointer, tail.counter)]]
  <2> DEFINE l == [loc[t] EXCEPT !.tail = Pair(loc[t].tail.pointer, tail.counter)]
  <2>1. l \in LocalsType /\ l.new = loc[t].new /\ l.tail.counter = tail.counter
    BY <1>4 DEF LocalsType, PairType, Pair
  <2> HIDE DEF l
  <2>2. ASSUME pc'[t] = "e_tail2", loc'[t] = l
        PROVE  ThreadInv(t)'
    <3>1. TailKnown(t)' /\ HeadKnown(t)' /\ EnqueueKnows(t)' /\ DequeueKnows(t)'
      BY <1>2, <1>4, <2>1, <2>2 DEF TailKnown, HeadKnown, EnqueueKnows, DequeueKnows,
         TailRead, HeadRead, HeadCounterRead, PairType
    <3>2. NodeKnown(t)'
      BY <1>2, <1>7, <1>9, <2>1, <2>2 DEF NodeKnown
    <3> QED BY <3>1, <3>2 DEF ThreadInv
  <2> QED BY <1>2, <1>9, <2>1, <2>2, LocalStep DEF l
<1>10. CASE /\ pc[t] = "e_tail2" /\ pc' = [pc EXCEPT ![t] = "e_next1"]
            /\ loc' = [loc EXCEPT ![t] = [loc[t] EXCEPT !.tail = Pair(tail.pointer, loc[t].tail.counter)]]
  <2> DEFINE l == [loc[t] EXCEPT !.tail = Pair(tail.pointer, loc[t].tail.counter)]
  <2>1. /\ l \in LocalsType /\ l.new = loc[t].new
        /\ l.tail.counter = loc[t].tail.counter /\ l.tail.pointer = tail.pointer
    BY <1>4 DEF LocalsType, PairType, Pair
  <2> HIDE DEF l
  <2>2. ASSUME pc'[t] = "e_next1", loc'[t] = l
        PROVE  ThreadInv(t)'
    <3>1. HeadKnown(t)' /\ EnqueueKnows(t)' /\ DequeueKnows(t)'
      BY <2>2 DEF HeadKnown, EnqueueKnows, DequeueKnows, HeadRead, HeadCounterRead
    <3>2. NodeKnown(t)'
      BY <1>2, <1>7, <1>10, <2>1, <2>2 DEF NodeKnown
    <3>3. TailKnown(t)'
      BY <1>1, <1>2, <1>8, <1>10, <2>1, <2>2 DEF ThreadInv, TailKnown, TailFresh, TailCounterRead
    <3> QED BY <3>1, <3>2, <3>3 DEF ThreadInv
  <2> QED BY <1>2, <1>10, <2>1, <2>2, LocalStep DEF l
<1>11. CASE /\ pc[t] = "e_next1" /\ pc' = [pc EXCEPT ![t] = "e_next2"]
            /\ loc' = [loc EXCEPT ![t] = [loc[t] EXCEPT !.next =
                         Pair(loc[t].next.pointer, node[loc[t].tail.pointer].next.counter)]]
  <2> DEFINE l == [loc[t] EXCEPT !.next =
                     Pair(loc[t].next.pointer, node[loc[t].tail.pointer].next.counter)]
  <2>0. TailKnown(t) /\ loc[t].tail.pointer \in Cells
    BY <1>1, <1>11 DEF ThreadInv, TailKnown, TailRead, TailCounterRead
  <2>1. /\ l \in LocalsType /\ l.new = loc[t].new /\ l.tail = loc[t].tail
        /\ l.next.counter = node[loc[t].tail.pointer].next.counter
    BY <1>4, <1>5, <2>0 DEF LocalsType, PairType, Pair
  <2> HIDE DEF l
  <2>2. ASSUME pc'[t] = "e_next2", loc'[t] = l
        PROVE  ThreadInv(t)'
    <3>1. HeadKnown(t)' /\ DequeueKnows(t)'
      BY <2>2 DEF HeadKnown, DequeueKnows, HeadRead, HeadCounterRead
    <3>2. NodeKnown(t)'
      BY <1>2, <1>7, <1>11, <2>1, <2>2 DEF NodeKnown
    <3>3. TailKnown(t)'
      BY <1>2, <1>11, <2>0, <2>1, <2>2 DEF TailKnown, TailFresh, TailCounterRead, TailRead
    <3>4. EnqueueKnows(t)'
      BY <1>2, <1>11, <2>0, <2>1, <2>2 DEF TailKnown, EnqueueKnows, TailFresh, TailCounterRead, TailRead
    <3> QED BY <3>1, <3>2, <3>3, <3>4 DEF ThreadInv
  <2> QED BY <1>2, <1>11, <2>1, <2>2, LocalStep DEF l
<1>12. CASE /\ pc[t] = "e_next2" /\ pc' = [pc EXCEPT ![t] = "e_check1"]
            /\ loc' = [loc EXCEPT ![t] = [loc[t] EXCEPT !.next =
                         Pair(node[loc[t].tail.pointer].next.pointer, loc[t].next.counter)]]
  <2> DEFINE l == [loc[t] EXCEPT !.next =
                     Pair(node[loc[t].tail.pointer].next.pointer, loc[t].next.counter)]
  <2>0. TailKnown(t) /\ EnqueueKnows(t) /\ loc[t].tail.pointer \in Cells
    BY <1>1, <1>12 DEF ThreadInv, TailKnown, TailRead, TailCounterRead
  <2>1. /\ l \in LocalsType /\ l.new = loc[t].new /\ l.tail = loc[t].tail
        /\ l.next = Pair(node[loc[t].tail.pointer].next.pointer, loc[t].next.counter)
    BY <1>4, <1>5, <2>0 DEF LocalsType, PairType, Pair
  <2> HIDE DEF l
  <2>2. ASSUME pc'[t] = "e_check1", loc'[t] = l
        PROVE  ThreadInv(t)'
    <3>1. HeadKnown(t)' /\ DequeueKnows(t)'
      BY <2>2 DEF HeadKnown, DequeueKnows, HeadRead, HeadCounterRead
    <3>2. NodeKnown(t)'
      BY <1>2, <1>7, <1>12, <2>1, <2>2 DEF NodeKnown
    <3>3. TailKnown(t)'
      BY <1>2, <1>12, <2>0, <2>1, <2>2 DEF TailKnown, TailFresh, TailCounterRead, TailRead
    <3>4. TailFresh(t)' => TailFresh(t) /\ loc[t].tail.pointer = tail.pointer
      BY <1>2, <1>12, <2>0, <2>1, <2>2 DEF TailKnown, TailFresh, TailCounterRead, TailRead
    <3>5. l.next.pointer = node[loc[t].tail.pointer].next.pointer
          /\ l.next.counter = loc[t].next.counter
      BY <2>1 DEF Pair
    <3>6. TailFresh(t)' /\ l.next.pointer = NULL => LinkSound(t)'
      <4> SUFFICES ASSUME TailFresh(t)', l.next.pointer = NULL
                   PROVE  LinkSound(t)'
        OBVIOUS
      <4>1. node[tail.pointer].next.counter = loc[t].next.counter
        BY <1>12, <2>0, <3>4, <3>5 DEF EnqueueKnows
      <4>2. node[tail.pointer].next = l.next
        BY <1>5, <1>8, <1>12, <2>1, <3>4, <3>5, <4>1 DEF PairType, Pair
      <4> QED BY <1>2, <2>1, <2>2, <3>4, <4>2 DEF LinkSound
    <3>7. TailFresh(t)' => node'[tail'.pointer].next.pointer = l.next.pointer
      BY <1>2, <3>4, <3>5
    <3>8. EnqueueKnows(t)'
      BY <2>2, <3>6, <3>7 DEF EnqueueKnows, Behind
    <3> QED BY <3>1, <3>2, <3>3, <3>8 DEF ThreadInv
  <2> QED BY <1>2, <1>12, <2>1, <2>2, LocalStep DEF l
<1>13. CASE /\ pc[t] = "e_check1" /\ pc' = [pc EXCEPT ![t] = "e_check2"]
            /\ loc' = [loc EXCEPT ![t] = [loc[t] EXCEPT !.again = Pair(loc[t].again.pointer, tail.counter)]]
  <2> DEFINE l == [loc[t] EXCEPT !.again = Pair(loc[t].again.pointer, tail.counter)]
  <2>0. TailKnown(t) /\ EnqueueKnows(t)
    BY <1>1 DEF ThreadInv
  <2>1. /\ l \in LocalsType /\ l.new = loc[t].new /\ l.tail = loc[t].tail /\ l.next = loc[t].next
        /\ l.again.counter = tail.counter
    BY <1>4 DEF LocalsType, PairType, Pair
  <2> HIDE DEF l
  <2>2. ASSUME pc'[t] = "e_check2", loc'[t] = l
        PROVE  ThreadInv(t)'
    <3>1. HeadKnown(t)' /\ DequeueKnows(t)'
      BY <2>2 DEF HeadKnown, DequeueKnows, HeadRead, HeadCounterRead
    <3>2. NodeKnown(t)'
      BY <1>2, <1>7, <1>13, <2>1, <2>2 DEF NodeKnown
    <3>3. TailKnown(t)'
      BY <1>2, <1>13, <2>0, <2>1, <2>2 DEF TailKnown, TailFresh, TailCounterRead, TailRead
    <3>4. LinkSound(t) => LinkSound(t)'
      BY <1>2, <2>1, <2>2 DEF LinkSound
    <3>5. EnqueueKnows(t)'
      BY <1>2, <1>13, <2>0, <2>1, <2>2, <3>4 DEF EnqueueKnows, TailFresh, Behind
    <3> QED BY <3>1, <3>2, <3>3, <3>5 DEF ThreadInv
  <2> QED BY <1>2, <1>13, <2>1, <2>2, LocalStep DEF l
<1> QED BY <1>1, <1>9, <1>10, <1>11, <1>12, <1>13, EnqueueReadsCases

\* The tail is compared with what it was.
LEMMA EnqueueCheckStep ==
  ASSUME IInv, NEW t \in Threads, EnqueueCheck(t)
  PROVE  IInv'
<1> USE DEF EnqueueLabels, DequeueLabels
<1> DEFINE again == [loc[t].again EXCEPT !.pointer = tail.pointer]
           q == IF ~checkequals(loc[t].tail, again) THEN "e_tail1"
                ELSE IF loc[t].next.pointer = NULL THEN "e_link" ELSE "e_help"
           l == [loc[t] EXCEPT !.again = Nowhere]
<1>1. /\ Shared /\ Typed /\ TailKnown(t) /\ NodeKnown(t) /\ EnqueueKnows(t)
      /\ pc[t] = "e_check2"
  BY DEF IInv, Shared, ThreadInv, EnqueueCheck
<1>2. UNCHANGED <<head, tail, node, allocated, calls, list, sawEmpty, closed>>
  BY DEF EnqueueCheck, shared, history
<1>3. pc' = [pc EXCEPT ![t] = q] /\ loc' = [loc EXCEPT ![t] = l]
  BY DEF EnqueueCheck
<1>4. /\ l \in LocalsType /\ l.new = loc[t].new /\ l.tail = loc[t].tail /\ l.next = loc[t].next
  BY <1>1, LocalTypes DEF LocalsType, PairType, Pair, Nowhere
<1>5. loc[t].new \in Cells /\ node[loc[t].new].next.pointer = NULL
  BY <1>1 DEF NodeKnown
<1>6. q # "e_tail1" => loc[t].again.counter = loc[t].tail.counter
  <2>1. loc[t].tail.pointer # NULL
    BY <1>1, QueueAssumption DEF TailKnown, TailRead, TailCounterRead
  <2>2. again.counter = loc[t].again.counter
    BY <1>1, LocalTypes DEF PairType
  <2> QED BY <2>1, <2>2 DEF checkequals
<1>7. q \in {"e_tail1", "e_link", "e_help"}
  OBVIOUS
<1>8. /\ q = "e_link" => loc[t].next.pointer = NULL
      /\ q = "e_help" => loc[t].next.pointer # NULL
  OBVIOUS
<1> HIDE DEF q, l
<1>9. ASSUME pc'[t] = q, loc'[t] = l
      PROVE  ThreadInv(t)'
  <2>1. TailKnown(t)' /\ (TailFresh(t)' <=> TailFresh(t))
    BY <1>1, <1>2, <1>4, <1>9, TailKept DEF TailRead, TailCounterRead
  <2>2. HeadKnown(t)' /\ DequeueKnows(t)'
    BY <1>7, <1>9 DEF HeadKnown, DequeueKnows, HeadRead, HeadCounterRead
  <2>3. NodeKnown(t)'
    BY <1>2, <1>4, <1>5, <1>7, <1>9 DEF NodeKnown
  <2>4. q = "e_link" => LinkSound(t)
    BY <1>1, <1>6, <1>8 DEF EnqueueKnows
  <2>5. LinkSound(t)' <=> LinkSound(t)
    BY <1>2, <1>4, <1>9 DEF LinkSound
  <2>6. q = "e_help" => Behind(t, loc[t].next.pointer)
    BY <1>1, <1>8 DEF EnqueueKnows
  <2>7. Behind(t, loc[t].next.pointer) =>
          (TailFresh(t)' => node'[tail'.pointer].next.pointer = loc'[t].next.pointer)
    BY <1>2, <1>4, <1>9, <2>1 DEF Behind
  <2>8. EnqueueKnows(t)'
    BY <1>4, <1>7, <1>8, <1>9, <2>4, <2>5, <2>6, <2>7 DEF EnqueueKnows, Behind
  <2> QED BY <2>1, <2>2, <2>3, <2>8 DEF ThreadInv
<1> QED BY <1>1, <1>2, <1>3, <1>4, <1>7, <1>9, LocalStep

\* Reading the head, the tail, the head's next, and the counter of the head again
LEMMA DequeueReadsStep ==
  ASSUME IInv, NEW t \in Threads, DequeueReads(t)
  PROVE  IInv'
<1> USE DEF EnqueueLabels, DequeueLabels
<1>1. Shared /\ Typed /\ TailKnown(t) /\ HeadKnown(t) /\ NodeKnown(t) /\ DequeueKnows(t)
  BY DEF IInv, Shared, ThreadInv
<1>2. UNCHANGED <<head, tail, node, allocated, calls, list, sawEmpty, closed>>
  BY <1>1, DequeueReadsCases
<1>3. /\ loc[t] \in LocalsType /\ loc[t].head \in PairType /\ loc[t].tail \in PairType
      /\ loc[t].next \in PairType /\ loc[t].again \in PairType
      /\ head \in PairType /\ tail \in PairType /\ head.counter \in Nat /\ tail.counter \in Nat
  BY <1>1, Types, LocalTypes DEF PairType
<1>4. \A c \in Cells : node[c] \in NodeType /\ node[c].next \in PairType
  BY <1>1, Types DEF NodeType
<1>5. pc[t] # "idle" /\ pc[t] \in DequeueLabels
  BY <1>1, DequeueReadsCases
<1>6. /\ head.pointer = list[1] /\ head.pointer \in Cells /\ InList(head.pointer)
      /\ tail.pointer \in Cells /\ Len(list) \in Nat \ {0} /\ list \in Seq(Cells)
  BY <1>1, <1>5, InCall, Types
<1>7. loc[t].new = NULL
  BY <1>1, <1>5 DEF NodeKnown
<1>8. ASSUME NEW q \in DequeueLabels, NEW l, l.new = loc[t].new, pc'[t] = q, loc'[t] = l
      PROVE  NodeKnown(t)' /\ EnqueueKnows(t)'
  BY <1>7, <1>8 DEF NodeKnown, EnqueueKnows
<1>9. CASE /\ pc[t] = "d_head1" /\ pc' = [pc EXCEPT ![t] = "d_head2"]
           /\ loc' = [loc EXCEPT ![t] = [loc[t] EXCEPT !.head =
                         Pair(loc[t].head.pointer, head.counter)]]
  <2> DEFINE l == [loc[t] EXCEPT !.head =
                     Pair(loc[t].head.pointer, head.counter)]
  <2>1. /\ l \in LocalsType /\ l.new = loc[t].new
        /\ l.head.counter = head.counter
    BY <1>3, <1>4 DEF LocalsType, PairType, Pair
  <2> HIDE DEF l
  <2>2. ASSUME pc'[t] = "d_head2", loc'[t] = l
        PROVE  ThreadInv(t)'
    <3>1. NodeKnown(t)' /\ EnqueueKnows(t)'
      BY <1>8, <2>1, <2>2
    <3>2. TailKnown(t)'
      BY <2>2 DEF TailKnown, TailRead, TailCounterRead
    <3>3. HeadKnown(t)'
      BY <1>2, <1>3, <2>1, <2>2 DEF HeadKnown, HeadRead, HeadCounterRead
    <3>4. DequeueKnows(t)'
      BY <2>2 DEF DequeueKnows
    <3> QED BY <3>1, <3>2, <3>3, <3>4 DEF ThreadInv
  <2> QED BY <1>2, <1>9, <2>1, <2>2, LocalStep DEF l
<1>10. CASE /\ pc[t] = "d_head2" /\ pc' = [pc EXCEPT ![t] = "d_tail1"]
            /\ loc' = [loc EXCEPT ![t] = [loc[t] EXCEPT !.head =
                         Pair(head.pointer, loc[t].head.counter)]]
  <2> DEFINE l == [loc[t] EXCEPT !.head =
                     Pair(head.pointer, loc[t].head.counter)]
  <2>1. /\ l \in LocalsType /\ l.new = loc[t].new
        /\ l.head.pointer = head.pointer /\ l.head.counter = loc[t].head.counter
    BY <1>3, <1>4 DEF LocalsType, PairType, Pair
  <2> HIDE DEF l
  <2>2. ASSUME pc'[t] = "d_tail1", loc'[t] = l
        PROVE  ThreadInv(t)'
    <3>1. NodeKnown(t)' /\ EnqueueKnows(t)'
      BY <1>8, <2>1, <2>2
    <3>2. TailKnown(t)'
      BY <2>2 DEF TailKnown, TailRead, TailCounterRead
    <3>3. HeadKnown(t)'
      BY <1>1, <1>2, <1>6, <1>10, <2>1, <2>2 DEF HeadKnown, HeadFresh, HeadCounterRead
    <3>4. DequeueKnows(t)'
      BY <2>2 DEF DequeueKnows
    <3> QED BY <3>1, <3>2, <3>3, <3>4 DEF ThreadInv
  <2> QED BY <1>2, <1>10, <2>1, <2>2, LocalStep DEF l
<1>11. CASE /\ pc[t] = "d_tail1" /\ pc' = [pc EXCEPT ![t] = "d_tail2"]
            /\ loc' = [loc EXCEPT ![t] = [loc[t] EXCEPT !.tail =
                         Pair(loc[t].tail.pointer, tail.counter)]]
  <2> DEFINE l == [loc[t] EXCEPT !.tail =
                     Pair(loc[t].tail.pointer, tail.counter)]
  <2>1. /\ l \in LocalsType /\ l.new = loc[t].new
        /\ l.head = loc[t].head /\ l.tail.counter = tail.counter
    BY <1>3, <1>4 DEF LocalsType, PairType, Pair
  <2> HIDE DEF l
  <2>2. ASSUME pc'[t] = "d_tail2", loc'[t] = l
        PROVE  ThreadInv(t)'
    <3>1. NodeKnown(t)' /\ EnqueueKnows(t)'
      BY <1>8, <2>1, <2>2
    <3>2. TailKnown(t)'
      BY <1>2, <1>3, <2>1, <2>2 DEF TailKnown, TailRead, TailCounterRead
    <3>3. HeadKnown(t)' /\ (HeadFresh(t)' <=> HeadFresh(t))
      BY <1>1, <1>2, <1>11, <2>1, <2>2, HeadKept DEF HeadRead, HeadCounterRead
    <3>4. DequeueKnows(t)'
      BY <2>2 DEF DequeueKnows
    <3> QED BY <3>1, <3>2, <3>3, <3>4 DEF ThreadInv
  <2> QED BY <1>2, <1>11, <2>1, <2>2, LocalStep DEF l
<1>12. CASE /\ pc[t] = "d_tail2" /\ pc' = [pc EXCEPT ![t] = "d_next1"]
            /\ loc' = [loc EXCEPT ![t] = [loc[t] EXCEPT !.tail =
                         Pair(tail.pointer, loc[t].tail.counter)]]
  <2> DEFINE l == [loc[t] EXCEPT !.tail =
                     Pair(tail.pointer, loc[t].tail.counter)]
  <2>1. /\ l \in LocalsType /\ l.new = loc[t].new
        /\ l.head = loc[t].head
        /\ l.tail.pointer = tail.pointer /\ l.tail.counter = loc[t].tail.counter
    BY <1>3, <1>4 DEF LocalsType, PairType, Pair
  <2> HIDE DEF l
  <2>2. ASSUME pc'[t] = "d_next1", loc'[t] = l
        PROVE  ThreadInv(t)'
    <3>1. NodeKnown(t)' /\ EnqueueKnows(t)'
      BY <1>8, <2>1, <2>2
    <3>2. TailKnown(t)'
      BY <1>1, <1>2, <1>6, <1>12, <2>1, <2>2 DEF TailKnown, TailFresh, TailCounterRead
    <3>3. HeadKnown(t)' /\ (HeadFresh(t)' <=> HeadFresh(t))
      BY <1>1, <1>2, <1>12, <2>1, <2>2, HeadKept DEF HeadRead, HeadCounterRead
    <3>4. DequeueKnows(t)'
      BY <1>1, <1>2, <1>12, <2>1, <2>2, <3>3 DEF DequeueKnows, TailHasLeft, HeadKnown, HeadRead, HeadCounterRead
    <3> QED BY <3>1, <3>2, <3>3, <3>4 DEF ThreadInv
  <2> QED BY <1>2, <1>12, <2>1, <2>2, LocalStep DEF l
<1>13. CASE /\ pc[t] = "d_next1" /\ pc' = [pc EXCEPT ![t] = "d_next2"]
            /\ loc' = [loc EXCEPT ![t] = [loc[t] EXCEPT !.next =
                         Pair(loc[t].next.pointer, node[loc[t].head.pointer].next.counter)]]
  <2> DEFINE l == [loc[t] EXCEPT !.next =
                     Pair(loc[t].next.pointer, node[loc[t].head.pointer].next.counter)]
  <2>0. loc[t].head.pointer \in Cells
    BY <1>1, <1>13 DEF HeadKnown, HeadRead, HeadCounterRead
  <2>1. /\ l \in LocalsType /\ l.new = loc[t].new
        /\ l.head = loc[t].head /\ l.tail = loc[t].tail
    BY <1>3, <1>4, <2>0 DEF LocalsType, PairType, Pair
  <2> HIDE DEF l
  <2>2. ASSUME pc'[t] = "d_next2", loc'[t] = l
        PROVE  ThreadInv(t)'
    <3>1. NodeKnown(t)' /\ EnqueueKnows(t)'
      BY <1>8, <2>1, <2>2
    <3>2. TailKnown(t)' /\ (TailFresh(t)' <=> TailFresh(t))
      BY <1>1, <1>2, <1>13, <2>1, <2>2, TailKept DEF TailRead, TailCounterRead
    <3>3. HeadKnown(t)' /\ (HeadFresh(t)' <=> HeadFresh(t))
      BY <1>1, <1>2, <1>13, <2>1, <2>2, HeadKept DEF HeadRead, HeadCounterRead
    <3>4. DequeueKnows(t)'
      BY <1>1, <1>2, <1>13, <2>1, <2>2, <3>3 DEF DequeueKnows, TailHasLeft
    <3> QED BY <3>1, <3>2, <3>3, <3>4 DEF ThreadInv
  <2> QED BY <1>2, <1>13, <2>1, <2>2, LocalStep DEF l
<1>14. CASE /\ pc[t] = "d_next2" /\ pc' = [pc EXCEPT ![t] = "d_check1"]
            /\ loc' = [loc EXCEPT ![t] = [loc[t] EXCEPT !.next =
                         Pair(node[loc[t].head.pointer].next.pointer, loc[t].next.counter)]]
  <2> DEFINE l == [loc[t] EXCEPT !.next =
                     Pair(node[loc[t].head.pointer].next.pointer, loc[t].next.counter)]
  <2>0. loc[t].head.pointer \in Cells
    BY <1>1, <1>14 DEF HeadKnown, HeadRead, HeadCounterRead
  <2>1. /\ l \in LocalsType /\ l.new = loc[t].new
        /\ l.head = loc[t].head /\ l.tail = loc[t].tail
        /\ l.next.pointer = node[loc[t].head.pointer].next.pointer
    BY <1>3, <1>4, <2>0 DEF LocalsType, PairType, Pair
  <2> HIDE DEF l
  <2>2. ASSUME pc'[t] = "d_check1", loc'[t] = l
        PROVE  ThreadInv(t)'
    <3>1. NodeKnown(t)' /\ EnqueueKnows(t)'
      BY <1>8, <2>1, <2>2
    <3>2. TailKnown(t)' /\ (TailFresh(t)' <=> TailFresh(t))
      BY <1>1, <1>2, <1>14, <2>1, <2>2, TailKept DEF TailRead, TailCounterRead
    <3>3. HeadKnown(t)' /\ (HeadFresh(t)' <=> HeadFresh(t))
      BY <1>1, <1>2, <1>14, <2>1, <2>2, HeadKept DEF HeadRead, HeadCounterRead
    <3>4. HeadFresh(t)' => NextKnown(t)'
      <4> SUFFICES ASSUME HeadFresh(t)
                   PROVE  NextKnown(t)'
        BY <3>3
      <4>1. loc[t].head.pointer = list[1]
        BY <1>1, <1>6, <1>14 DEF HeadKnown, HeadRead, HeadCounterRead
      <4>2. CASE Len(list) = 1
        <5>1. t \in sawEmpty /\ node[list[1]].next.pointer = NULL
          BY <1>1, <1>5, <4>2 DEF Shared, EmptySeen, Chain
        <5> QED BY <1>2, <2>1, <2>2, <4>1, <5>1 DEF NextKnown
      <4>3. CASE Len(list) >= 2
        <5>1. node[list[1]].next.pointer = list[2] /\ list[2] \in Cells
          BY <1>1, <1>6, <4>3 DEF Shared, Chain
        <5> QED BY <1>2, <2>1, <2>2, <4>1, <4>3, <5>1, QueueAssumption DEF NextKnown
      <4>4. Len(list) = 1 \/ Len(list) >= 2
        <5>1. Len(list) \in Nat \ {0}
          BY <1>6
        <5> QED BY <5>1
      <4> QED BY <4>2, <4>3, <4>4
    <3>5. TailFresh(t)' /\ l.head.pointer = l.tail.pointer =>
            node'[tail'.pointer].next.pointer = l.next.pointer
      BY <1>1, <1>2, <1>14, <2>1, <3>2 DEF TailKnown, TailRead, TailCounterRead
    <3>6. HeadFresh(t)' /\ l.tail.pointer # l.head.pointer => TailHasLeft'
      BY <1>1, <1>2, <1>14, <2>1, <3>3 DEF DequeueKnows, TailHasLeft
    <3>7. DequeueKnows(t)'
      BY <2>2, <3>4, <3>5, <3>6 DEF DequeueKnows, Behind
    <3> QED BY <3>1, <3>2, <3>3, <3>7 DEF ThreadInv
  <2> QED BY <1>2, <1>14, <2>1, <2>2, LocalStep DEF l
<1>15. CASE /\ pc[t] = "d_check1" /\ pc' = [pc EXCEPT ![t] = "d_check2"]
            /\ loc' = [loc EXCEPT ![t] = [loc[t] EXCEPT !.again =
                         Pair(loc[t].again.pointer, head.counter)]]
  <2> DEFINE l == [loc[t] EXCEPT !.again =
                     Pair(loc[t].again.pointer, head.counter)]
  <2>1. /\ l \in LocalsType /\ l.new = loc[t].new
        /\ l.head = loc[t].head /\ l.tail = loc[t].tail /\ l.next = loc[t].next
        /\ l.again.counter = head.counter
    BY <1>3, <1>4 DEF LocalsType, PairType, Pair
  <2> HIDE DEF l
  <2>2. ASSUME pc'[t] = "d_check2", loc'[t] = l
        PROVE  ThreadInv(t)'
    <3>1. NodeKnown(t)' /\ EnqueueKnows(t)'
      BY <1>8, <2>1, <2>2
    <3>2. TailKnown(t)' /\ (TailFresh(t)' <=> TailFresh(t))
      BY <1>1, <1>2, <1>15, <2>1, <2>2, TailKept DEF TailRead, TailCounterRead
    <3>3. HeadKnown(t)' /\ (HeadFresh(t)' <=> HeadFresh(t))
      BY <1>1, <1>2, <1>15, <2>1, <2>2, HeadKept DEF HeadRead, HeadCounterRead
    <3>4. NextKnown(t)' <=> NextKnown(t)
      BY <1>2, <2>1, <2>2 DEF NextKnown
    <3>5. HeadFresh(t)' /\ l.tail.pointer # l.head.pointer => TailHasLeft'
      BY <1>1, <1>2, <1>15, <2>1, <3>3 DEF DequeueKnows, TailHasLeft
    <3>6. HeadFresh(t)' => NextKnown(t)'
      BY <1>1, <1>15, <3>3, <3>4 DEF DequeueKnows
    <3>7. l.again.counter = l.head.counter /\ l.next.pointer = NULL => t \in sawEmpty'
      BY <1>1, <1>2, <1>15, <2>1 DEF DequeueKnows, HeadFresh, NextKnown
    <3>8. l.head.pointer = l.tail.pointer /\ l.next.pointer # NULL /\ TailFresh(t)' =>
            node'[tail'.pointer].next.pointer = l.next.pointer
      BY <1>1, <1>2, <1>15, <2>1, <3>2 DEF DequeueKnows, Behind
    <3>9. DequeueKnows(t)'
      BY <2>2, <3>5, <3>6, <3>7, <3>8 DEF DequeueKnows, Behind
    <3> QED BY <3>1, <3>2, <3>3, <3>9 DEF ThreadInv
  <2> QED BY <1>2, <1>15, <2>1, <2>2, LocalStep DEF l
<1> QED BY <1>1, <1>9, <1>10, <1>11, <1>12, <1>13, <1>14, <1>15, DequeueReadsCases

\* The head is compared with what it was, and with the tail.
LEMMA DequeueCheckStep ==
  ASSUME IInv, NEW t \in Threads, DequeueCheck(t)
  PROVE  IInv'
<1> USE DEF EnqueueLabels, DequeueLabels
<1> DEFINE again == [loc[t].again EXCEPT !.pointer = head.pointer]
           q == IF ~checkequals(loc[t].head, again) THEN "d_head1"
                ELSE IF loc[t].head.pointer = loc[t].tail.pointer THEN "d_same1"
                ELSE Forward(t)
           l == [loc[t] EXCEPT !.again = Nowhere]
<1>1. /\ Shared /\ Typed /\ TailKnown(t) /\ HeadKnown(t) /\ NodeKnown(t) /\ DequeueKnows(t)
      /\ pc[t] = "d_check2"
  BY DEF IInv, Shared, ThreadInv, DequeueCheck
<1>2. UNCHANGED <<head, tail, node, allocated, calls, list, sawEmpty, closed>>
  BY DEF DequeueCheck, shared, history
<1>3. pc' = [pc EXCEPT ![t] = q] /\ loc' = [loc EXCEPT ![t] = l]
  BY DEF DequeueCheck
<1>4. /\ l \in LocalsType /\ l.new = loc[t].new /\ l.head = loc[t].head
      /\ l.tail = loc[t].tail /\ l.next = loc[t].next
  BY <1>1, LocalTypes DEF LocalsType, PairType, Pair, Nowhere
<1>5. q \in {"d_head1", "d_same1", "d_value"}
  BY DEF Forward
<1>6. /\ q = "d_same1" => loc[t].again.counter = loc[t].head.counter
                          /\ loc[t].head.pointer = loc[t].tail.pointer
      /\ q = "d_value" => loc[t].next.pointer # NULL
                          /\ loc[t].head.pointer # loc[t].tail.pointer
  <2>1. loc[t].head.pointer # NULL
    BY <1>1, QueueAssumption DEF HeadKnown, HeadRead, HeadCounterRead
  <2>2. again.counter = loc[t].again.counter
    BY <1>1, LocalTypes DEF PairType
  <2> QED BY <2>1, <2>2 DEF checkequals, Forward
<1> HIDE DEF q, l
<1>7. ASSUME pc'[t] = q, loc'[t] = l
      PROVE  ThreadInv(t)'
  <2>1. TailKnown(t)' /\ (q # "d_head1" => (TailFresh(t)' <=> TailFresh(t)))
    BY <1>1, <1>2, <1>4, <1>7, TailKept DEF TailRead, TailCounterRead
  <2>2. HeadKnown(t)' /\ (q # "d_head1" => (HeadFresh(t)' <=> HeadFresh(t)))
    BY <1>1, <1>2, <1>4, <1>7, HeadKept DEF HeadRead, HeadCounterRead
  <2>3. NodeKnown(t)' /\ EnqueueKnows(t)'
    BY <1>1, <1>4, <1>5, <1>7 DEF NodeKnown, EnqueueKnows
  <2>4. CASE q = "d_head1"
    BY <1>7, <2>1, <2>2, <2>3, <2>4 DEF DequeueKnows, ThreadInv
  <2>5. NextKnown(t)' <=> NextKnown(t)
    BY <1>2, <1>4, <1>7 DEF NextKnown
  <2>6. q # "d_head1" /\ HeadFresh(t)' => NextKnown(t)'
    BY <1>1, <2>2, <2>5 DEF DequeueKnows
  <2>7. CASE q = "d_same1"
    <3>1. l.next.pointer = NULL => t \in sawEmpty'
      BY <1>1, <1>2, <1>4, <1>6, <2>7 DEF DequeueKnows
    <3>2. l.next.pointer # NULL /\ TailFresh(t)' =>
            node'[tail'.pointer].next.pointer = l.next.pointer
      BY <1>1, <1>2, <1>4, <1>6, <2>1, <2>7 DEF DequeueKnows, Behind
    <3>3. DequeueKnows(t)'
      BY <1>4, <1>6, <1>7, <2>6, <2>7, <3>1, <3>2 DEF DequeueKnows, Behind
    <3> QED BY <2>1, <2>2, <2>3, <3>3 DEF ThreadInv
  <2>8. CASE q = "d_value"
    <3>1. HeadFresh(t)' => TailHasLeft'
      BY <1>1, <1>2, <1>6, <2>2, <2>8 DEF DequeueKnows, TailHasLeft
    <3>2. DequeueKnows(t)'
      BY <1>4, <1>6, <1>7, <2>6, <2>8, <3>1 DEF DequeueKnows
    <3> QED BY <2>1, <2>2, <2>3, <3>2 DEF ThreadInv
  <2> QED BY <1>5, <2>4, <2>7, <2>8
<1> QED BY <1>1, <1>2, <1>3, <1>4, <1>5, <1>7, LocalStep

\* equalchecker reads the node that head and tail point to.
LEMMA ReadNodeStep ==
  ASSUME IInv, NEW t \in Threads, ReadNode(t)
  PROVE  IInv'
<1> USE DEF EnqueueLabels, DequeueLabels
<1> DEFINE l == [loc[t] EXCEPT !.read = node[loc[t].head.pointer]]
<1>1. /\ Shared /\ Typed /\ TailKnown(t) /\ HeadKnown(t) /\ NodeKnown(t) /\ DequeueKnows(t)
      /\ pc[t] = "d_same1"
  BY DEF IInv, Shared, ThreadInv, ReadNode, Goto
<1>2. UNCHANGED <<head, tail, node, allocated, calls, list, sawEmpty, closed>>
  BY DEF ReadNode, shared, history
<1>3. loc[t].head.pointer \in Cells /\ (HeadFresh(t) => loc[t].head.pointer = head.pointer)
  BY <1>1 DEF HeadKnown, HeadRead, HeadCounterRead
<1>4. pc' = [pc EXCEPT ![t] = "d_same2"] /\ loc' = [loc EXCEPT ![t] = l]
  BY <1>1, Types DEF ReadNode, Goto, LocalsType
<1>5. /\ l \in LocalsType /\ l.new = loc[t].new /\ l.head = loc[t].head
      /\ l.tail = loc[t].tail /\ l.next = loc[t].next /\ l.read = node[loc[t].head.pointer]
  BY <1>1, <1>3, Types, LocalTypes DEF LocalsType
<1> HIDE DEF l
<1>6. ASSUME pc'[t] = "d_same2", loc'[t] = l
      PROVE  ThreadInv(t)'
  <2>1. TailKnown(t)' /\ (TailFresh(t)' <=> TailFresh(t))
    BY <1>1, <1>2, <1>5, <1>6, TailKept DEF TailRead, TailCounterRead
  <2>2. HeadKnown(t)' /\ (HeadFresh(t)' <=> HeadFresh(t))
    BY <1>1, <1>2, <1>5, <1>6, HeadKept DEF HeadRead, HeadCounterRead
  <2>3. NodeKnown(t)' /\ EnqueueKnows(t)'
    BY <1>1, <1>5, <1>6 DEF NodeKnown, EnqueueKnows
  <2>4. NextKnown(t)' <=> NextKnown(t)
    BY <1>2, <1>5, <1>6 DEF NextKnown
  <2>5. HeadFresh(t)' => NextKnown(t)' /\ l.read = node'[head'.pointer]
    BY <1>1, <1>2, <1>3, <1>5, <2>2, <2>4 DEF DequeueKnows
  <2>6. l.next.pointer # NULL /\ TailFresh(t)' =>
          node'[tail'.pointer].next.pointer = l.next.pointer
    BY <1>1, <1>2, <1>5, <2>1 DEF DequeueKnows, Behind
  <2>7. DequeueKnows(t)'
    BY <1>1, <1>2, <1>5, <1>6, <2>5, <2>6 DEF DequeueKnows, Behind
  <2> QED BY <2>1, <2>2, <2>3, <2>7 DEF ThreadInv
<1> QED BY <1>1, <1>2, <1>4, <1>5, <1>6, LocalStep

\* equalchecker reads it again and finds it the same, or not.
LEMMA RereadNodeStep ==
  ASSUME IInv, NEW t \in Threads, RereadNode(t)
  PROVE  IInv'
<1> USE DEF EnqueueLabels, DequeueLabels
<1> DEFINE q == IF SameNode(t) THEN "d_help" ELSE Forward(t)
           l == [loc[t] EXCEPT !.read = NoLocals.read]
<1>1. /\ Shared /\ Typed /\ TailKnown(t) /\ HeadKnown(t) /\ NodeKnown(t) /\ DequeueKnows(t)
      /\ pc[t] = "d_same2"
  BY DEF IInv, Shared, ThreadInv, RereadNode
<1>2. UNCHANGED <<head, tail, node, allocated, calls, list, sawEmpty, closed>>
  BY DEF RereadNode, shared, history
<1>3. pc' = [pc EXCEPT ![t] = q] /\ loc' = [loc EXCEPT ![t] = l]
  BY <1>1, Types DEF RereadNode, LocalsType
<1>4. /\ l \in LocalsType /\ l.new = loc[t].new /\ l.head = loc[t].head
      /\ l.tail = loc[t].tail /\ l.next = loc[t].next
  BY <1>1, LocalTypes DEF LocalsType, NoLocals, NodeType, PairType, Pair, Nowhere
<1>5. q \in {"d_head1", "d_help", "d_value"}
  BY DEF Forward
<1>6. /\ q = "d_help" => loc[t].next.pointer # NULL
      /\ q = "d_value" => loc[t].next.pointer # NULL /\ ~SameNode(t)
  BY DEF RereadNode, Forward
<1>7. HeadFresh(t) /\ loc[t].next.pointer # NULL => SameNode(t)
  <2>1. HeadFresh(t) => loc[t].head.pointer = head.pointer
    BY <1>1 DEF HeadKnown, HeadRead, HeadCounterRead
  <2> QED BY <1>1, <2>1 DEF DequeueKnows, SameNode, checkequals
<1> HIDE DEF q, l
<1>8. ASSUME pc'[t] = q, loc'[t] = l
      PROVE  ThreadInv(t)'
  <2>1. TailKnown(t)' /\ (q # "d_head1" => (TailFresh(t)' <=> TailFresh(t)))
    BY <1>1, <1>2, <1>4, <1>5, <1>8, TailKept DEF TailRead, TailCounterRead
  <2>2. HeadKnown(t)' /\ (q # "d_head1" => (HeadFresh(t)' <=> HeadFresh(t)))
    BY <1>1, <1>2, <1>4, <1>5, <1>8, HeadKept DEF HeadRead, HeadCounterRead
  <2>3. NodeKnown(t)' /\ EnqueueKnows(t)'
    BY <1>1, <1>4, <1>5, <1>8 DEF NodeKnown, EnqueueKnows
  <2>4. q = "d_help" /\ TailFresh(t)' => node'[tail'.pointer].next.pointer = l.next.pointer
    BY <1>1, <1>2, <1>4, <1>6, <2>1 DEF DequeueKnows, Behind
  <2>5. q = "d_value" => ~HeadFresh(t)'
    BY <1>6, <1>7, <2>2
  <2>6. DequeueKnows(t)'
    BY <1>1, <1>4, <1>5, <1>6, <1>8, <2>4, <2>5 DEF DequeueKnows, Behind
  <2> QED BY <2>1, <2>2, <2>3, <2>6 DEF ThreadInv
<1> QED BY <1>1, <1>2, <1>3, <1>4, <1>5, <1>8, LocalStep

\* The value is read before the cas that makes it the thread's own.
LEMMA ReadValueStep ==
  ASSUME IInv, NEW t \in Threads, ReadValue(t)
  PROVE  IInv'
<1> USE DEF EnqueueLabels, DequeueLabels
<1> DEFINE l == [loc[t] EXCEPT !.value = node[loc[t].next.pointer].value]
<1>1. /\ Shared /\ Typed /\ TailKnown(t) /\ HeadKnown(t) /\ NodeKnown(t) /\ DequeueKnows(t)
      /\ pc[t] = "d_value"
  BY DEF IInv, Shared, ThreadInv, ReadValue, Goto
<1>2. UNCHANGED <<head, tail, node, allocated, calls, list, sawEmpty, closed>>
  BY DEF ReadValue, shared, history
<1>3. loc[t].next.pointer \in Cells
  BY <1>1, LocalTypes DEF DequeueKnows, PairType
<1>4. pc' = [pc EXCEPT ![t] = "d_swing"] /\ loc' = [loc EXCEPT ![t] = l]
  BY <1>1, Types DEF ReadValue, Goto, LocalsType
<1>5. /\ l \in LocalsType /\ l.new = loc[t].new /\ l.head = loc[t].head
      /\ l.tail = loc[t].tail /\ l.next = loc[t].next /\ l.value = node[loc[t].next.pointer].value
  BY <1>1, <1>3, Types, LocalTypes DEF LocalsType, NodeType
<1> HIDE DEF l
<1>6. ASSUME pc'[t] = "d_swing", loc'[t] = l
      PROVE  ThreadInv(t)'
  <2>1. TailKnown(t)'
    BY <1>6 DEF TailKnown, TailRead, TailCounterRead
  <2>2. HeadKnown(t)' /\ (HeadFresh(t)' <=> HeadFresh(t))
    BY <1>1, <1>2, <1>5, <1>6, HeadKept DEF HeadRead, HeadCounterRead
  <2>3. NodeKnown(t)' /\ EnqueueKnows(t)'
    BY <1>1, <1>5, <1>6 DEF NodeKnown, EnqueueKnows
  <2>4. NextKnown(t)' <=> NextKnown(t)
    BY <1>2, <1>5, <1>6 DEF NextKnown
  <2>5. HeadFresh(t)' => NextKnown(t)' /\ TailHasLeft'
    BY <1>1, <1>2, <2>2, <2>4 DEF DequeueKnows, TailHasLeft
  <2>6. DequeueKnows(t)'
    BY <1>1, <1>2, <1>5, <1>6, <2>5 DEF DequeueKnows
  <2> QED BY <2>1, <2>2, <2>3, <2>6 DEF ThreadInv
<1> QED BY <1>1, <1>2, <1>4, <1>5, <1>6, LocalStep

-----------------------------------------------------------------------------
\* The cas on the tail moves it to the node behind, if it does anything.
LEMMA SwingTailMoves ==
  ASSUME Shared, NEW t \in Threads, pc[t] \in TailRead, NEW p \in Cells,
         Behind(t, p), SwingTail(t, p)
  PROVE  TailMoves
BY DEF SwingTail, TailMoves, Incremented, Behind, TailFresh, Pair

\* A thread that has just begun an operation knows nothing yet.
LEMMA BeginsAgain ==
  ASSUME NEW t, NodeKnown(t)', pc'[t] \in {"idle", "e_tail1", "d_head1"}
  PROVE  ThreadInv(t)'
BY DEF ThreadInv, TailKnown, HeadKnown, EnqueueKnows, DequeueKnows, TailRead,
       TailCounterRead, HeadRead, HeadCounterRead, DequeueLabels

LEMMA EnqueueHelpsStep ==
  ASSUME IInv, NEW t \in Threads, EnqueueHelps(t)
  PROVE  IInv'
<1> USE DEF EnqueueLabels, DequeueLabels
<1>1. Shared /\ Typed /\ NodeKnown(t) /\ EnqueueKnows(t) /\ pc[t] = "e_help"
  BY DEF IInv, Shared, ThreadInv, EnqueueHelps, Goto
<1>2. UNCHANGED <<head, node, allocated, loc, calls, list, sawEmpty, closed>>
  BY DEF EnqueueHelps, history
<1>3. loc[t].next.pointer \in Cells /\ Behind(t, loc[t].next.pointer)
  BY <1>1, LocalTypes DEF EnqueueKnows, PairType
<1>4. TailMoves
  BY <1>1, <1>3, SwingTailMoves DEF EnqueueHelps, TailRead, TailCounterRead
<1>5. Quiet(t)
  BY <1>1, <1>2, <1>4 DEF Quiet, Typed, TypeOK
<1>6. loc[t] \in LocalsType /\ loc' = [loc EXCEPT ![t] = loc[t]]
  BY <1>1, <1>2, Types DEF LocalsType
<1>7. Moves(t, "e_tail1", loc[t]) /\ "e_tail1" \in Labels
  BY <1>1, <1>2, <1>6, CallsTyped DEF Moves, EnqueueHelps, Goto, Labels
<1>8. pc'[t] = "e_tail1" /\ loc'[t] = loc[t]
  BY <1>1, <1>6, <1>7, MovesAlone
<1>9. ThreadInv(t)'
  <2>1. NodeKnown(t)'
    BY <1>1, <1>2, <1>8 DEF NodeKnown
  <2> QED BY <1>8, <2>1, BeginsAgain
<1>10. Entering(t)' = Entering(t) /\ Leaving(t)' = Leaving(t)
  BY <1>1, <1>8 DEF Entering, Leaving
<1> QED BY <1>1, <1>5, <1>6, <1>7, <1>9, <1>10, QuietStep

LEMMA DequeueHelpsStep ==
  ASSUME IInv, NEW t \in Threads, DequeueHelps(t)
  PROVE  IInv'
<1> USE DEF EnqueueLabels, DequeueLabels
<1>1. Shared /\ Typed /\ NodeKnown(t) /\ DequeueKnows(t) /\ pc[t] = "d_help"
  BY DEF IInv, Shared, ThreadInv, DequeueHelps, Goto
<1>2. UNCHANGED <<head, node, allocated, loc, calls, list, sawEmpty, closed>>
  BY DEF DequeueHelps, history
<1>3. loc[t].next.pointer \in Cells /\ Behind(t, loc[t].next.pointer)
  BY <1>1, LocalTypes DEF DequeueKnows, PairType
<1>4. TailMoves
  BY <1>1, <1>3, SwingTailMoves DEF DequeueHelps, TailRead, TailCounterRead
<1>5. Quiet(t)
  BY <1>1, <1>2, <1>4 DEF Quiet, Typed, TypeOK
<1>6. loc[t] \in LocalsType /\ loc' = [loc EXCEPT ![t] = loc[t]]
  BY <1>1, <1>2, Types DEF LocalsType
<1>7. Moves(t, "d_head1", loc[t]) /\ "d_head1" \in Labels
  BY <1>1, <1>2, <1>6, CallsTyped DEF Moves, DequeueHelps, Goto, Labels
<1>8. pc'[t] = "d_head1" /\ loc'[t] = loc[t]
  BY <1>1, <1>6, <1>7, MovesAlone
<1>9. ThreadInv(t)'
  <2>1. NodeKnown(t)'
    BY <1>1, <1>2, <1>8 DEF NodeKnown
  <2> QED BY <1>8, <2>1, BeginsAgain
<1>10. Entering(t)' = Entering(t) /\ Leaving(t)' = Leaving(t)
  BY <1>1, <1>8 DEF Entering, Leaving
<1>11. Len(list) = 1 => t \in sawEmpty'
  BY <1>1, <1>2 DEF Shared, EmptySeen
<1> QED BY <1>1, <1>5, <1>6, <1>7, <1>9, <1>10, <1>11, QuietStep

\* No locals are well typed and hold no node.
LEMMA NoLocalsTyped == NoLocals \in LocalsType /\ NoLocals.new = NULL
BY DEF NoLocals, LocalsType, NodeType, PairType, Pair, Nowhere

LEMMA ReturnMoves ==
  ASSUME Typed, NEW t \in Threads, Return(t), calls' = calls
  PROVE  /\ Moves(t, "idle", NoLocals) /\ "idle" \in Labels /\ NoLocals \in LocalsType
         /\ pc'[t] = "idle" /\ loc'[t] = NoLocals
         /\ Entering(t)' = {} /\ Leaving(t)' = {}
         /\ ThreadInv(t)'
<1>1. Moves(t, "idle", NoLocals) /\ "idle" \in Labels
  BY CallsTyped DEF Moves, Return, Labels
<1>2. pc'[t] = "idle" /\ loc'[t] = NoLocals
  BY <1>1, NoLocalsTyped, MovesAlone
<1>3. Entering(t)' = {} /\ Leaving(t)' = {}
  BY <1>2 DEF Entering, Leaving
<1>4. NodeKnown(t)'
  BY <1>2 DEF NodeKnown, EnqueueLabels, DequeueLabels
<1> QED BY <1>1, <1>2, <1>3, <1>4, NoLocalsTyped, BeginsAgain

LEMMA EnqueueReturnsStep ==
  ASSUME IInv, NEW t \in Threads, EnqueueReturns(t)
  PROVE  IInv'
<1> USE DEF EnqueueLabels, DequeueLabels
<1>1. Shared /\ Typed /\ NodeKnown(t) /\ EnqueueKnows(t) /\ pc[t] = "e_swing"
  BY DEF IInv, Shared, ThreadInv, EnqueueReturns
<1>2. UNCHANGED <<head, node, allocated, calls, list, sawEmpty, closed>> /\ Return(t)
  BY DEF EnqueueReturns, history
<1>3. loc[t].new \in Cells /\ Behind(t, loc[t].new)
  BY <1>1 DEF EnqueueKnows, NodeKnown
<1>4. TailMoves
  BY <1>1, <1>3, SwingTailMoves DEF EnqueueReturns, TailRead, TailCounterRead
<1>5. Quiet(t)
  BY <1>1, <1>2, <1>4 DEF Quiet, Typed, TypeOK
<1>6. Entering(t) = {} /\ Leaving(t) = {}
  BY <1>1 DEF Entering, Leaving
<1>7. /\ Moves(t, "idle", NoLocals) /\ "idle" \in Labels /\ NoLocals \in LocalsType
      /\ Entering(t)' = {} /\ Leaving(t)' = {} /\ ThreadInv(t)'
  BY <1>1, <1>2, ReturnMoves
<1> QED BY <1>1, <1>5, <1>6, <1>7, QuietStep

LEMMA CallDequeueStep ==
  ASSUME IInv, NEW t \in Threads, CallDequeue(t)
  PROVE  IInv'
<1> USE DEF EnqueueLabels, DequeueLabels
<1>1. Shared /\ Typed /\ NodeKnown(t) /\ pc[t] = "idle" /\ ~closed
  BY DEF IInv, Shared, ThreadInv, CallDequeue, Goto
<1>2. UNCHANGED <<head, tail, node, allocated, loc, list, closed>>
  BY DEF CallDequeue, shared
<1>3. Quiet(t) /\ (Len(list) = 1 => t \in sawEmpty')
  BY <1>1, <1>2 DEF CallDequeue, Empty, Quiet, TailMoves, Typed, TypeOK
<1>4. loc[t] = NoLocals /\ loc[t] \in LocalsType /\ loc' = [loc EXCEPT ![t] = loc[t]]
  BY <1>1, <1>2, Types DEF LocalsType, NodeKnown
<1>5. CallsCounted'
  BY <1>1, QueueAssumption DEF CallDequeue, Typed, TypeOK, CallsCounted
<1>6. Moves(t, "d_head1", loc[t]) /\ "d_head1" \in Labels
  BY <1>4, <1>5 DEF Moves, CallDequeue, Goto, Labels
<1>7. pc'[t] = "d_head1" /\ loc'[t] = loc[t]
  BY <1>1, <1>4, <1>6, MovesAlone
<1>8. ThreadInv(t)'
  <2>1. NodeKnown(t)'
    BY <1>4, <1>7, NoLocalsTyped DEF NodeKnown
  <2> QED BY <1>7, <2>1, BeginsAgain
<1>9. Entering(t)' = Entering(t) /\ Leaving(t)' = Leaving(t)
  BY <1>1, <1>4, <1>7, NoLocalsTyped DEF Entering, Leaving
<1> QED BY <1>1, <1>3, <1>4, <1>6, <1>8, <1>9, QuietStep

LEMMA DequeueFailsStep ==
  ASSUME IInv, NEW t \in Threads, DequeueFails(t)
  PROVE  IInv'
<1> USE DEF EnqueueLabels, DequeueLabels
<1>1. Shared /\ Typed /\ NodeKnown(t) /\ pc[t] = "d_same2"
  BY DEF IInv, Shared, ThreadInv, DequeueFails
<1>2. /\ UNCHANGED <<head, tail, node, allocated, calls, list, closed>>
      /\ Return(t) /\ sawEmpty' = sawEmpty \ {t}
  BY DEF DequeueFails, shared
<1>3. Quiet(t)
  BY <1>1, <1>2 DEF Quiet, TailMoves, Typed, TypeOK
<1>4. Entering(t) = {} /\ Leaving(t) = {}
  BY <1>1 DEF Entering, Leaving, NodeKnown
<1>5. /\ Moves(t, "idle", NoLocals) /\ "idle" \in Labels /\ NoLocals \in LocalsType
      /\ Entering(t)' = {} /\ Leaving(t)' = {} /\ ThreadInv(t)'
  BY <1>1, <1>2, ReturnMoves
<1> QED BY <1>1, <1>3, <1>4, <1>5, QuietStep

-----------------------------------------------------------------------------
\* malloc's node is nobody's, and keeps its counter.
LEMMA CallEnqueueStep ==
  ASSUME KeepsBytes, IInv, NEW t \in Threads, NEW v \in Values, CallEnqueue(t, v)
  PROVE  IInv'
<1> USE DEF EnqueueLabels, DequeueLabels
<1>1. Shared /\ Typed /\ NodeKnown(t) /\ pc[t] = "idle" /\ ~closed
  BY DEF IInv, Shared, ThreadInv, CallEnqueue, Goto
<1>2. UNCHANGED <<head, tail, list, sawEmpty, closed>>
  BY DEF CallEnqueue, history
<1>3. PICK c \in Cells \ allocated :
        /\ node' = [node EXCEPT ![c] = [value |-> v, next |-> Pair(@.next.pointer, node[c].next.counter)]]
        /\ allocated' = allocated \cup {c}
        /\ loc' = [loc EXCEPT ![t].new = c]
  BY DEF CallEnqueue
<1> DEFINE l == [loc[t] EXCEPT !.new = c]
<1>4. loc[t] = NoLocals /\ l \in LocalsType /\ l.new = c /\ loc' = [loc EXCEPT ![t] = l]
  BY <1>1, <1>3, Types, LocalTypes DEF LocalsType, NodeKnown
<1>5. CallsCounted'
  BY <1>1, QueueAssumption DEF CallEnqueue, Typed, TypeOK, CallsCounted
<1>6. Moves(t, "e_null", l) /\ "e_null" \in Labels
  BY <1>4, <1>5 DEF Moves, CallEnqueue, Goto, Labels
<1>7. /\ pc'[t] = "e_null" /\ loc'[t] = l
      /\ \A u \in Threads : u # t => pc'[u] = pc[u] /\ loc'[u] = loc[u]
  BY <1>1, <1>4, <1>6, MovesAlone
<1> HIDE DEF l
<1>8. node[c] \in NodeType /\ node[c].next \in PairType
  BY <1>1, Types DEF NodeType
<1>9. /\ node' \in [Cells -> NodeType]
      /\ \A d \in Cells : d # c => node'[d] = node[d]
      /\ node'[c].next = node[c].next
  <2>1. Pair(node[c].next.pointer, node[c].next.counter) = node[c].next
    BY <1>8 DEF PairType, Pair
  <2>2. node' = [node EXCEPT ![c] = [value |-> v, next |-> node[c].next]]
    BY <1>3, <2>1
  <2> QED BY <1>1, <1>8, <2>2, Types DEF NodeType
<1>10. Typed'
  <2>1. allocated' \subseteq Cells
    BY <1>1, <1>3 DEF Typed, TypeOK
  <2> QED BY <1>1, <1>2, <1>4, <1>6, <1>9, <2>1, MovesTyped DEF Typed, TypeOK
<1>11. list # <<>> /\ TailInList /\ list \in Seq(Cells) /\ \A i \in 1..Len(list) : list[i] # c
  BY <1>1, Types DEF Shared, Open, Owned
<1>12. \A i \in 1..Len(list) : list[i] \in Cells /\ node'[list[i]] = node[list[i]]
  BY <1>9, <1>11
<1>13. Chain' /\ TailInList'
  BY <1>1, <1>2, <1>11, <1>12 DEF Shared, Chain, TailInList
<1>14. /\ Held(t) = {} /\ Held(t)' = {c}
       /\ \A u \in Threads : u # t => Held(u)' = Held(u)
  <2>1. c # NULL
    BY QueueAssumption
  <2> QED BY <1>1, <1>4, <1>7, <2>1 DEF Held, Entering, Leaving
<1>15. Owned'
  <2>1. Owned
    BY <1>1 DEF Shared
  <2>2. \A d : InList(d)' <=> InList(d)
    BY <1>2 DEF InList
  <2>3. ~InList(c)
    BY <1>11 DEF InList
  <2>4. \A d \in allocated' : InList(d)' \/ \E u \in Threads : d \in Held(u)'
    <3> SUFFICES ASSUME NEW d \in allocated', ~InList(d)
                 PROVE  \E u \in Threads : d \in Held(u)'
      BY <2>2
    <3>1. CASE d = c
      BY <1>14, <3>1
    <3>2. CASE d \in allocated
      <4>1. PICK u \in Threads : d \in Held(u)
        BY <2>1, <3>2 DEF Owned
      <4>2. u # t
        BY <1>14, <4>1
      <4> QED BY <1>14, <4>1, <4>2
    <3> QED BY <1>3, <3>1, <3>2
  <2>5. \A u \in Threads : Held(u)' \subseteq allocated'
    BY <1>3, <1>14, <2>1 DEF Owned
  <2>6. \A u \in Threads : \A d \in Held(u)' : ~InList(d)'
    BY <1>14, <2>1, <2>2, <2>3 DEF Owned
  <2>7. \A u, w \in Threads : u # w => Held(u)' \cap Held(w)' = {}
    <3>1. \A u \in Threads : c \notin Held(u)
      BY <2>1 DEF Owned
    <3> QED BY <1>14, <2>1, <3>1 DEF Owned
  <2>8. \A i \in 1..Len(list) : list[i] \in allocated'
    BY <1>3, <2>1 DEF Owned
  <2> QED BY <1>2, <2>4, <2>5, <2>6, <2>7, <2>8 DEF Owned
<1>16. EmptySeen'
  BY <1>1, <1>2, <1>7 DEF Shared, EmptySeen
<1>17. ASSUME NEW u \in Threads, u # t
       PROVE  Rely(u)
  <2>1. \A d \in Cells : node[d].next.counter \in Nat /\ node'[d].next.counter = node[d].next.counter
    BY <1>1, <1>9, Types DEF NodeType, PairType
  <2>2. \A d \in Cells : InList(d) => d # c
    BY <1>11 DEF InList
  <2>3. \A d \in Entering(u) : d \in Cells /\ d # c
    <3>1. Entering(u) \subseteq Held(u) /\ Held(u) \subseteq allocated
      BY <1>1 DEF Shared, Owned, Held
    <3> QED BY <1>1, <3>1 DEF Typed, TypeOK
  <2>4. Len(list) \in Nat
    BY <1>11
  <2> QED BY <1>2, <1>7, <1>9, <1>17, <2>1, <2>2, <2>3, <2>4 DEF Rely
<1>18. ThreadInv(t)'
  BY <1>4, <1>7 DEF ThreadInv, TailKnown, HeadKnown, NodeKnown, EnqueueKnows, DequeueKnows,
     TailRead, TailCounterRead, HeadRead, HeadCounterRead
<1>19. \A u \in Threads : ThreadInv(u)'
  BY <1>1, <1>10, <1>17, <1>18, Stable DEF IInv
<1> QED BY <1>1, <1>2, <1>10, <1>11, <1>13, <1>15, <1>16, <1>19 DEF IInv, Shared, Open, Closed

\* node->next.pointer = NULL is written to the thread's own node.
LEMMA StoreNullStep ==
  ASSUME IInv, NEW t \in Threads, StoreNull(t)
  PROVE  IInv'
<1> USE DEF EnqueueLabels, DequeueLabels
<1> DEFINE c == loc[t].new
<1>1. Shared /\ Typed /\ NodeKnown(t) /\ pc[t] = "e_null" /\ c \in Cells /\ ~closed
  BY InCall DEF IInv, Shared, ThreadInv, StoreNull, Goto, NodeKnown
<1>2. UNCHANGED <<head, tail, allocated, loc, calls, list, sawEmpty, closed>>
  BY DEF StoreNull, history
<1>3. node' = [node EXCEPT ![c].next.pointer = NULL]
  BY DEF StoreNull
<1>4. loc[t] \in LocalsType /\ loc' = [loc EXCEPT ![t] = loc[t]]
  BY <1>1, <1>2, Types DEF LocalsType
<1>5. Moves(t, "e_tail1", loc[t]) /\ "e_tail1" \in Labels
  BY <1>1, <1>2, <1>4, CallsTyped DEF Moves, StoreNull, Goto, Labels
<1>6. /\ pc'[t] = "e_tail1" /\ loc'[t] = loc[t]
      /\ \A u \in Threads : u # t => pc'[u] = pc[u] /\ loc'[u] = loc[u]
  BY <1>1, <1>4, <1>5, MovesAlone
<1>7. node[c] \in NodeType /\ node[c].next \in PairType
  BY <1>1, Types DEF NodeType
<1>8. /\ node' \in [Cells -> NodeType]
      /\ \A d \in Cells : d # c => node'[d] = node[d]
      /\ node'[c].next.pointer = NULL /\ node'[c].next.counter = node[c].next.counter
  BY <1>1, <1>3, <1>7, Types DEF NodeType, PairType
<1>9. Typed'
  BY <1>1, <1>2, <1>4, <1>5, <1>8, MovesTyped DEF Typed, TypeOK
<1>10. /\ list # <<>> /\ TailInList /\ list \in Seq(Cells)
       /\ c \in Held(t) /\ ~InList(c)
  <2>1. c \in Held(t)
    BY <1>1, QueueAssumption DEF Held, Entering
  <2> QED BY <1>1, <2>1, Types DEF Shared, Open, Owned
<1>11. \A i \in 1..Len(list) : list[i] \in Cells /\ node'[list[i]] = node[list[i]]
  BY <1>8, <1>10 DEF InList
<1>12. Chain' /\ TailInList'
  BY <1>1, <1>2, <1>10, <1>11 DEF Shared, Chain, TailInList
<1>13. \A u \in Threads : Held(u)' = Held(u)
  BY <1>1, <1>6 DEF Held, Entering, Leaving
<1>14. Owned'
  <2>1. \A d : InList(d)' <=> InList(d)
    BY <1>2 DEF InList
  <2> QED BY <1>1, <1>2, <1>13, <2>1 DEF Shared, Owned
<1>15. EmptySeen'
  BY <1>1, <1>2, <1>6 DEF Shared, EmptySeen
<1>16. ASSUME NEW u \in Threads, u # t
       PROVE  Rely(u)
  <2>1. \A d \in Cells : node[d].next.counter \in Nat /\ node'[d].next.counter = node[d].next.counter
    BY <1>1, <1>8, Types DEF NodeType, PairType
  <2>2. \A d \in Cells : InList(d) => d # c
    BY <1>10
  <2>3. \A d \in Entering(u) : d \in Cells /\ d # c
    <3>1. Entering(u) \subseteq Held(u) /\ Held(u) \subseteq allocated /\ c \notin Held(u)
      BY <1>1, <1>10, <1>16 DEF Shared, Owned, Held
    <3> QED BY <1>1, <3>1 DEF Typed, TypeOK
  <2>4. Len(list) \in Nat
    BY <1>10
  <2> QED BY <1>2, <1>6, <1>8, <1>16, <2>1, <2>2, <2>3, <2>4 DEF Rely
<1>17. ThreadInv(t)'
  <2>1. NodeKnown(t)'
    BY <1>1, <1>6, <1>8 DEF NodeKnown
  <2> QED BY <1>6, <2>1, BeginsAgain
<1>18. \A u \in Threads : ThreadInv(u)'
  BY <1>1, <1>9, <1>16, <1>17, Stable DEF IInv
<1> QED BY <1>1, <1>2, <1>9, <1>10, <1>12, <1>14, <1>15, <1>18 DEF IInv, Shared, Open, Closed

\* The cas that links t's node behind the last one
LEMMA LinkStep ==
  ASSUME IInv, NEW t \in Threads, Link(t)
  PROVE  IInv'
<1> USE DEF EnqueueLabels, DequeueLabels
<1> DEFINE last == loc[t].tail.pointer
           new == loc[t].new
<1>1. /\ Shared /\ Typed /\ TailKnown(t) /\ NodeKnown(t) /\ EnqueueKnows(t)
      /\ pc[t] = "e_link" /\ ~closed
  BY InCall DEF IInv, Shared, ThreadInv, Link
<1>2. UNCHANGED <<head, tail, allocated, loc, calls, sawEmpty, closed>>
  BY DEF Link
<1>3. loc[t] \in LocalsType /\ loc' = [loc EXCEPT ![t] = loc[t]]
  BY <1>1, <1>2, Types DEF LocalsType
<1>4. /\ last \in Cells /\ new \in Cells /\ node[new].next.pointer = NULL
      /\ loc[t].next.pointer = NULL /\ LinkSound(t)
  BY <1>1 DEF TailKnown, TailRead, TailCounterRead, NodeKnown, EnqueueKnows
<1>5. CASE node[last].next # loc[t].next
  <2>1. pc' = [pc EXCEPT ![t] = "e_tail1"] /\ UNCHANGED <<node, list>>
    BY <1>5 DEF Link
  <2>2. pc'[t] = "e_tail1" /\ loc'[t] = loc[t] => ThreadInv(t)'
    <3> SUFFICES ASSUME pc'[t] = "e_tail1", loc'[t] = loc[t]
                 PROVE  ThreadInv(t)'
      OBVIOUS
    <3>1. NodeKnown(t)'
      BY <1>4, <2>1 DEF NodeKnown
    <3> QED BY <3>1, BeginsAgain
  <2> QED BY <1>1, <1>2, <1>3, <2>1, <2>2, LocalStep
<1>6. CASE node[last].next = loc[t].next
  <2>1. /\ node' = [node EXCEPT ![last].next = Incremented(loc[t].next, new)]
        /\ list' = Append(list, new)
        /\ pc' = [pc EXCEPT ![t] = "e_swing"]
    BY <1>6 DEF Link
  <2>2. Moves(t, "e_swing", loc[t]) /\ "e_swing" \in Labels
    BY <1>1, <1>2, <1>3, <2>1, CallsTyped DEF Moves, Labels
  <2>3. /\ pc'[t] = "e_swing" /\ loc'[t] = loc[t]
        /\ \A u \in Threads : u # t => pc'[u] = pc[u] /\ loc'[u] = loc[u]
    BY <1>1, <1>3, <2>2, MovesAlone
  <2>4. /\ node[last] \in NodeType /\ node[last].next \in PairType
        /\ node[last].next.counter \in Nat /\ loc[t].next.counter \in Nat
        /\ node[last].next.pointer = NULL
    BY <1>1, <1>4, <1>6, Types, LocalTypes DEF NodeType, PairType
  <2>5. Incremented(loc[t].next, new) \in PairType
        /\ Incremented(loc[t].next, new).pointer = new
        /\ Incremented(loc[t].next, new).counter = node[last].next.counter + 1
    BY <1>4, <1>6, <2>4 DEF Incremented, Pair, PairType
  <2>6. /\ node' \in [Cells -> NodeType]
        /\ \A d \in Cells : d # last => node'[d] = node[d]
        /\ node'[last].next.pointer = new /\ node'[last].value = node[last].value
        /\ node'[last].next.counter = node[last].next.counter + 1
    BY <1>1, <1>4, <2>1, <2>4, <2>5, Types DEF NodeType
  <2>7. /\ list \in Seq(Cells) /\ Len(list) \in Nat \ {0}
        /\ list' \in Seq(Cells) /\ Len(list') = Len(list) + 1
        /\ \A i \in 1..Len(list) : list'[i] = list[i] /\ list[i] \in Cells
        /\ list'[Len(list) + 1] = new
    BY <1>1, <1>4, <2>1, Types, InCall
  <2>8. Typed'
    BY <1>1, <1>2, <1>3, <2>2, <2>6, <2>7, MovesTyped DEF Typed, TypeOK
  <2>9. tail.pointer = last /\ last = list[Len(list)]
    <3>1. tail.pointer = last
      BY <1>4, <1>6, <2>4 DEF LinkSound
    <3>2. PICK i \in 1..Len(list) : tail.pointer = list[i]
      BY <1>1 DEF Shared, Open, TailInList
    <3>3. i # Len(list) => node[list[i]].next.pointer = list[i + 1] /\ i + 1 \in 1..Len(list)
      BY <1>1, <2>7, <3>2 DEF Shared, Chain
    <3>4. i = Len(list)
      BY <2>4, <2>7, <3>1, <3>2, <3>3, QueueAssumption
    <3> QED BY <3>1, <3>2, <3>4
  <2>10. new \in Held(t) /\ ~InList(new) /\ new # last
    <3>1. new \in Held(t)
      BY <1>1, <1>4, QueueAssumption DEF Held, Entering
    <3>2. ~InList(new)
      BY <1>1, <3>1 DEF Shared, Owned
    <3> QED BY <2>7, <2>9, <3>1, <3>2 DEF InList
  <2>11. Chain'
    <3>1. head'.pointer = list'[1] /\ list' # <<>>
      <4>1. head.pointer = list[1] /\ list'[1] = list[1]
        BY <1>1, <2>7, InCall
      <4> QED BY <1>2, <2>7, <4>1
    <3>2. ASSUME NEW i \in 1..Len(list'), NEW j \in 1..Len(list'), i # j
          PROVE  list'[i] # list'[j]
      <4>1. CASE i \in 1..Len(list) /\ j \in 1..Len(list)
        BY <1>1, <2>7, <3>2, <4>1 DEF Shared, Chain
      <4>2. CASE i = Len(list) + 1
        <5>1. j \in 1..Len(list) /\ list'[j] = list[j]
          BY <2>7, <3>2, <4>2
        <5> QED BY <2>7, <2>10, <4>2, <5>1 DEF InList
      <4>3. CASE j = Len(list) + 1
        <5>1. i \in 1..Len(list) /\ list'[i] = list[i]
          BY <2>7, <3>2, <4>3
        <5> QED BY <2>7, <2>10, <4>3, <5>1 DEF InList
      <4> QED BY <2>7, <4>1, <4>2, <4>3
    <3>3. ASSUME NEW i \in 1..Len(list')
          PROVE  node'[list'[i]].next.pointer = IF i = Len(list') THEN NULL ELSE list'[i + 1]
      <4>1. CASE i = Len(list) + 1
        BY <1>4, <2>6, <2>7, <2>10, <4>1
      <4>2. CASE i = Len(list)
        BY <2>6, <2>7, <2>9, <4>2
      <4>3. CASE i \in 1..Len(list) /\ i # Len(list)
        <5>1. list[i] # last /\ list'[i] = list[i] /\ list'[i + 1] = list[i + 1]
          BY <1>1, <2>7, <2>9, <4>3 DEF Shared, Chain
        <5>2. node'[list'[i]] = node[list[i]]
          BY <2>6, <2>7, <4>3, <5>1
        <5>3. node[list[i]].next.pointer = list[i + 1]
          BY <1>1, <4>3 DEF Shared, Chain
        <5> QED BY <2>7, <4>3, <5>1, <5>2, <5>3
      <4> QED BY <2>7, <4>1, <4>2, <4>3
    <3> QED BY <3>1, <3>2, <3>3 DEF Chain
  <2>12. TailInList' /\ list' # <<>>
    <3>1. Len(list) \in 1..Len(list') /\ Len(list) >= Len(list') - 1
          /\ tail'.pointer = list'[Len(list)]
      BY <1>2, <2>7, <2>9
    <3> QED BY <2>7, <3>1 DEF TailInList
  <2>13. Held(t) = {new} /\ Held(t)' = {} /\ \A u \in Threads : u # t => Held(u)' = Held(u)
    BY <1>1, <1>4, <2>3, QueueAssumption DEF Held, Entering, Leaving
  <2>14. \A d : InList(d)' <=> InList(d) \/ d = new
    <3>1. ASSUME NEW d, InList(d)'
          PROVE  InList(d) \/ d = new
      <4>1. PICK i \in 1..Len(list') : list'[i] = d
        BY <3>1 DEF InList
      <4> QED BY <2>7, <4>1 DEF InList
    <3>2. ASSUME NEW d, InList(d) \/ d = new
          PROVE  InList(d)'
      <4>1. CASE d = new
        <5>1. Len(list) + 1 \in 1..Len(list')
          BY <2>7
        <5> QED BY <2>7, <4>1, <5>1 DEF InList
      <4>2. CASE InList(d)
        <5>1. PICK i \in 1..Len(list) : list[i] = d
          BY <4>2 DEF InList
        <5>2. i \in 1..Len(list') /\ list'[i] = d
          BY <2>7, <5>1
        <5> QED BY <5>2 DEF InList
      <4> QED BY <3>2, <4>1, <4>2
    <3> QED BY <3>1, <3>2
  <2>15. Owned'
    <3>1. Owned
      BY <1>1 DEF Shared
    <3>2. \A d \in allocated' : InList(d)' \/ \E u \in Threads : d \in Held(u)'
      BY <1>2, <2>13, <2>14, <3>1 DEF Owned
    <3>3. \A i \in 1..Len(list') : list'[i] \in allocated'
      <4>1. new \in allocated
        BY <2>10, <3>1 DEF Owned
      <4> QED BY <1>2, <2>7, <3>1, <4>1 DEF Owned
    <3>4. \A u \in Threads : \A d \in Held(u)' : ~InList(d)'
      BY <2>10, <2>13, <2>14, <3>1 DEF Owned
    <3>5. /\ \A u \in Threads : Held(u)' \subseteq allocated'
          /\ \A u, w \in Threads : u # w => Held(u)' \cap Held(w)' = {}
      BY <1>2, <2>13, <3>1 DEF Owned
    <3> QED BY <3>2, <3>3, <3>4, <3>5 DEF Owned
  <2>16. EmptySeen'
    BY <2>7 DEF EmptySeen
  <2>17. ASSUME NEW u \in Threads, u # t
         PROVE  Rely(u)
    <3>1. \A d \in Cells : node[d].next.counter \in Nat
      BY <1>1, Types DEF NodeType, PairType
    <3>2. \A d \in Entering(u) : d \in Cells /\ d # last
      <4>1. Entering(u) \subseteq Held(u) /\ Held(u) \subseteq allocated
        BY <1>1 DEF Shared, Owned, Held
      <4>2. InList(last)
        BY <2>7, <2>9 DEF InList
      <4> QED BY <1>1, <4>1, <4>2 DEF Typed, TypeOK, Shared, Owned
    <3>3. Len(list') >= Len(list)
      BY <2>7
    <3>4. \A d \in Cells : node'[d].next.counter >= node[d].next.counter
      BY <2>6, <3>1
    <3>5. node'[last].next.counter > node[last].next.counter
      BY <2>4, <2>6
    <3> QED BY <1>2, <1>4, <2>3, <2>4, <2>6, <2>7, <2>17, <3>2, <3>3, <3>4, <3>5 DEF Rely
  <2>18. ThreadInv(t)'
    <3>1. TailKnown(t)'
      BY <1>1, <1>2, <2>3, TailKept DEF TailRead, TailCounterRead
    <3>2. HeadKnown(t)' /\ NodeKnown(t)' /\ DequeueKnows(t)'
      BY <1>4, <2>3 DEF HeadKnown, NodeKnown, DequeueKnows, HeadRead, HeadCounterRead
    <3>3. EnqueueKnows(t)'
      BY <1>2, <2>3, <2>6, <2>9 DEF EnqueueKnows, Behind
    <3> QED BY <3>1, <3>2, <3>3 DEF ThreadInv
  <2>19. \A u \in Threads : ThreadInv(u)'
    BY <1>1, <2>8, <2>17, <2>18, Stable DEF IInv
  <2> QED BY <1>1, <1>2, <2>8, <2>11, <2>12, <2>15, <2>16, <2>19 DEF IInv, Shared, Open, Closed
<1> QED BY <1>5, <1>6

\* The cas that makes the next node the dummy
LEMMA SwingHeadStep ==
  ASSUME IInv, NEW t \in Threads, SwingHead(t)
  PROVE  IInv'
<1> USE DEF EnqueueLabels, DequeueLabels
<1>1. /\ Shared /\ Typed /\ HeadKnown(t) /\ NodeKnown(t) /\ DequeueKnows(t)
      /\ pc[t] = "d_swing" /\ ~closed
  BY InCall DEF IInv, Shared, ThreadInv, SwingHead
<1>2. UNCHANGED <<tail, node, allocated, loc, calls, closed>>
  BY DEF SwingHead
<1>3. loc[t] \in LocalsType /\ loc' = [loc EXCEPT ![t] = loc[t]]
  BY <1>1, <1>2, Types DEF LocalsType
<1>4. CASE head # loc[t].head
  <2>1. pc' = [pc EXCEPT ![t] = "d_head1"] /\ UNCHANGED <<head, list, sawEmpty>>
    BY <1>4 DEF SwingHead, history
  <2>2. pc'[t] = "d_head1" /\ loc'[t] = loc[t] => ThreadInv(t)'
    <3> SUFFICES ASSUME pc'[t] = "d_head1", loc'[t] = loc[t]
                 PROVE  ThreadInv(t)'
      OBVIOUS
    <3>1. NodeKnown(t)'
      BY <1>1 DEF NodeKnown
    <3> QED BY <3>1, BeginsAgain
  <2> QED BY <1>1, <1>2, <1>3, <2>1, <2>2, LocalStep
<1>5. CASE head = loc[t].head
  <2>1. /\ head' = Incremented(loc[t].head, loc[t].next.pointer)
        /\ list' = Tail(list)
        /\ sawEmpty' = (IF Len(list) = 2 THEN Dequeuers ELSE sawEmpty) \ {t}
        /\ pc' = [pc EXCEPT ![t] = "d_free"]
    BY <1>5 DEF SwingHead
  <2>2. Moves(t, "d_free", loc[t]) /\ "d_free" \in Labels
    BY <1>1, <1>2, <1>3, <2>1, CallsTyped DEF Moves, Labels
  <2>3. /\ pc'[t] = "d_free" /\ loc'[t] = loc[t]
        /\ \A u \in Threads : u # t => pc'[u] = pc[u] /\ loc'[u] = loc[u]
    BY <1>1, <1>3, <2>2, MovesAlone
  <2>4. HeadFresh(t) /\ TailHasLeft /\ NextKnown(t) /\ loc[t].next.pointer # NULL
    BY <1>1, <1>5 DEF HeadFresh, DequeueKnows
  <2>5. /\ head \in PairType /\ loc[t].next \in PairType /\ head.counter \in Nat
        /\ list \in Seq(Cells) /\ Len(list) \in Nat \ {0} /\ head.pointer = list[1]
    BY <1>1, Types, LocalTypes, InCall DEF PairType
  <2>6. Len(list) >= 2 /\ loc[t].next.pointer = list[2]
    BY <2>4 DEF NextKnown
  <2>7. /\ head' \in PairType /\ head'.pointer = list[2] /\ head'.counter = head.counter + 1
    BY <1>5, <2>1, <2>5, <2>6 DEF Incremented, Pair, PairType
  <2>8. /\ list' \in Seq(Cells) /\ Len(list') = Len(list) - 1
        /\ \A i \in 1..Len(list') : list'[i] = list[i + 1] /\ i + 1 \in 1..Len(list)
    BY <2>1, <2>5, <2>6
  <2>9. Typed'
    <3>1. sawEmpty' \subseteq Threads
      BY <1>1, <2>1 DEF Typed, TypeOK, Dequeuers
    <3> QED BY <1>1, <1>2, <1>3, <2>2, <2>7, <2>8, <3>1, MovesTyped DEF Typed, TypeOK
  <2>10. Chain' /\ list' # <<>>
    <3>1. list' # <<>> /\ head'.pointer = list'[1]
      BY <2>6, <2>7, <2>8
    <3>2. ASSUME NEW i \in 1..Len(list'), NEW j \in 1..Len(list'), i # j
          PROVE  list'[i] # list'[j]
      <4>1. /\ list'[i] = list[i + 1] /\ list'[j] = list[j + 1]
            /\ i + 1 \in 1..Len(list) /\ j + 1 \in 1..Len(list) /\ i + 1 # j + 1
        BY <2>8, <3>2
      <4> QED BY <1>1, <4>1 DEF Shared, Chain
    <3>3. ASSUME NEW i \in 1..Len(list')
          PROVE  node'[list'[i]].next.pointer = IF i = Len(list') THEN NULL ELSE list'[i + 1]
      <4>1. list'[i] = list[i + 1] /\ i + 1 \in 1..Len(list)
        BY <2>8
      <4>2. node[list[i + 1]].next.pointer = IF i + 1 = Len(list) THEN NULL ELSE list[i + 2]
        BY <1>1, <4>1 DEF Shared, Chain
      <4>3. CASE i = Len(list')
        BY <1>2, <2>5, <2>8, <4>1, <4>2, <4>3
      <4>4. CASE i # Len(list')
        <5>1. i + 1 \in 1..Len(list') /\ i + 1 # Len(list)
          BY <2>5, <2>8, <4>4
        <5>2. list'[i + 1] = list[i + 2]
          BY <2>8, <5>1
        <5> QED BY <1>2, <4>1, <4>2, <4>4, <5>1, <5>2
      <4> QED BY <4>3, <4>4
    <3> QED BY <3>1, <3>2, <3>3 DEF Chain
  <2>11. TailInList'
    <3>1. PICK i \in 1..Len(list) : i >= Len(list) - 1 /\ tail.pointer = list[i]
      BY <1>1 DEF Shared, Open, TailInList
    <3>2. i # 1
      BY <2>4, <2>5, <3>1 DEF TailHasLeft
    <3>3. i - 1 \in 1..Len(list') /\ i - 1 >= Len(list') - 1 /\ tail'.pointer = list'[i - 1]
      BY <1>2, <2>5, <2>8, <3>1, <3>2
    <3> QED BY <3>3 DEF TailInList
  <2>12. loc[t].head.pointer = list[1] /\ list[1] \in Cells /\ InList(list[1])
    BY <1>1, <1>5, <2>5, InCall
  <2>13. Held(t)' = {list[1]} /\ \A u \in Threads : u # t => Held(u)' = Held(u)
    BY <1>1, <2>3, <2>12 DEF Held, Entering, Leaving, NodeKnown
  <2>14. \A d : InList(d) <=> InList(d)' \/ d = list[1]
    <3>1. ASSUME NEW d, InList(d), d # list[1]
          PROVE  InList(d)'
      <4>1. PICK i \in 1..Len(list) : list[i] = d
        BY <3>1 DEF InList
      <4>2. i # 1
        BY <3>1, <4>1
      <4>3. i - 1 \in 1..Len(list') /\ list'[i - 1] = d
        BY <2>5, <2>8, <4>1, <4>2
      <4> QED BY <4>3 DEF InList
    <3>2. ASSUME NEW d, InList(d)'
          PROVE  InList(d)
      <4>1. PICK i \in 1..Len(list') : list'[i] = d
        BY <3>2 DEF InList
      <4>2. i + 1 \in 1..Len(list) /\ list[i + 1] = d
        BY <2>8, <4>1
      <4> QED BY <4>2 DEF InList
    <3> QED BY <2>12, <3>1, <3>2
  <2>15. \A d : d = list[1] => ~InList(d)'
    <3> SUFFICES ASSUME NEW i \in 1..Len(list'), list'[i] = list[1]
                 PROVE  FALSE
      BY DEF InList
    <3>1. list[i + 1] = list[1] /\ i + 1 \in 1..Len(list) /\ i + 1 # 1 /\ 1 \in 1..Len(list)
      BY <2>5, <2>8
    <3> QED BY <1>1, <3>1 DEF Shared, Chain
  <2>16. Owned'
    <3>1. Owned
      BY <1>1 DEF Shared
    <3>2. list[1] \in allocated /\ \A u \in Threads : list[1] \notin Held(u)
      BY <2>5, <2>12, <3>1 DEF Owned
    <3>3. \A d \in allocated' : InList(d)' \/ \E u \in Threads : d \in Held(u)'
      <4> SUFFICES ASSUME NEW d \in allocated, ~InList(d)'
                   PROVE  \E u \in Threads : d \in Held(u)'
        BY <1>2
      <4>1. CASE d = list[1]
        BY <2>13, <4>1
      <4>2. CASE d # list[1]
        <5>1. PICK u \in Threads : d \in Held(u)
          BY <2>14, <3>1, <4>2 DEF Owned
        <5>2. u # t
          BY <1>1, <5>1 DEF Held, Entering, Leaving, NodeKnown
        <5> QED BY <2>13, <5>1, <5>2
      <4> QED BY <4>1, <4>2
    <3>4. \A i \in 1..Len(list') : list'[i] \in allocated'
      BY <1>2, <2>8, <3>1 DEF Owned
    <3>5. \A u \in Threads : Held(u)' \subseteq allocated'
      BY <1>2, <2>13, <3>1, <3>2 DEF Owned
    <3>6. ASSUME NEW u \in Threads, NEW d \in Held(u)'
          PROVE  ~InList(d)'
      <4>1. CASE u = t
        BY <2>13, <2>15, <3>6, <4>1
      <4>2. CASE u # t
        BY <2>13, <2>14, <3>1, <3>6, <4>2 DEF Owned
      <4> QED BY <4>1, <4>2
    <3>7. \A u, w \in Threads : u # w => Held(u)' \cap Held(w)' = {}
      BY <2>13, <3>1, <3>2 DEF Owned
    <3> QED BY <3>3, <3>4, <3>5, <3>6, <3>7 DEF Owned
  <2>17. EmptySeen'
    <3>0. Len(list') = 1 => Len(list) = 2
      <4>1. Len(list) \in Nat /\ Len(list') = Len(list) - 1
        BY <2>5, <2>8
      <4> DEFINE m == Len(list)
                 n == Len(list')
      <4>2. m \in Nat /\ n = m - 1
        BY <4>1
      <4> HIDE DEF m, n
      <4>3. n = 1 => m = 2
        BY <4>2
      <4> QED BY <4>3 DEF m, n
    <3> SUFFICES ASSUME Len(list') = 1, NEW u \in Threads, pc'[u] \in DequeueLabels
                 PROVE  u \in sawEmpty'
      BY DEF EmptySeen
    <3>1. u # t /\ pc[u] = pc'[u]
      BY <2>3
    <3>2. Len(list) = 2
      BY <3>0
    <3>3. u \in Dequeuers
      BY <3>1 DEF Dequeuers
    <3> QED BY <2>1, <3>1, <3>2, <3>3
  <2>18. ASSUME NEW u \in Threads, u # t
         PROVE  Rely(u)
    <3>1. \A d \in Cells : node[d].next.counter \in Nat
      BY <1>1, Types DEF NodeType, PairType
    <3>2. u \in sawEmpty /\ pc[u] \in DequeueLabels => u \in sawEmpty'
      BY <2>1, <2>18 DEF Dequeuers
    <3>3. head'.counter > head.counter
      BY <2>5, <2>7
    <3> QED BY <1>2, <2>3, <2>18, <3>1, <3>2, <3>3 DEF Rely
  <2>19. ThreadInv(t)'
    BY <1>1, <2>3 DEF ThreadInv, TailKnown, HeadKnown, NodeKnown, EnqueueKnows, DequeueKnows,
       TailRead, TailCounterRead, HeadRead, HeadCounterRead
  <2>20. \A u \in Threads : ThreadInv(u)'
    BY <1>1, <2>9, <2>18, <2>19, Stable DEF IInv
  <2> QED BY <1>1, <1>2, <2>9, <2>10, <2>11, <2>16, <2>17, <2>20 DEF IInv, Shared, Open, Closed
<1> QED BY <1>4, <1>5

\* free takes a node from the thread that alone has it.
LEMMA DequeueReturnsStep ==
  ASSUME IInv, NEW t \in Threads, DequeueReturns(t)
  PROVE  IInv'
<1> USE DEF EnqueueLabels, DequeueLabels
<1> DEFINE p == loc[t].head.pointer
<1>1. Shared /\ Typed /\ NodeKnown(t) /\ pc[t] = "d_free" /\ ~closed
  BY InCall DEF IInv, Shared, ThreadInv, DequeueReturns
<1>2. UNCHANGED <<head, tail, calls, list, sawEmpty, closed>> /\ Return(t)
  BY DEF DequeueReturns, history
<1>3. allocated' = allocated \ {p} /\ node' = [node EXCEPT ![p].value = GARBAGE]
  BY DEF DequeueReturns, Free
<1>4. p \in Held(t) /\ p \in Cells /\ ~InList(p) /\ Held(t) = {p}
  <2>1. Held(t) = {p}
    BY <1>1 DEF Held, Leaving, Entering, NodeKnown
  <2>2. Held(t) \subseteq allocated /\ allocated \subseteq Cells
    BY <1>1 DEF Shared, Owned, Typed, TypeOK
  <2> QED BY <1>1, <2>1, <2>2 DEF Shared, Owned
<1>5. /\ Moves(t, "idle", NoLocals) /\ "idle" \in Labels /\ NoLocals \in LocalsType
      /\ pc'[t] = "idle" /\ loc'[t] = NoLocals
      /\ Entering(t)' = {} /\ Leaving(t)' = {} /\ ThreadInv(t)'
  BY <1>1, <1>2, ReturnMoves
<1>6. \A u \in Threads : u # t => pc'[u] = pc[u] /\ loc'[u] = loc[u]
  BY <1>1, <1>5, MovesAlone
<1>7. /\ node' \in [Cells -> NodeType]
      /\ \A d \in Cells : d # p => node'[d] = node[d]
      /\ node'[p].next = node[p].next
  BY <1>1, <1>3, <1>4, Types DEF NodeType
<1>8. Typed'
  <2>1. allocated' \subseteq Cells
    BY <1>1, <1>3 DEF Typed, TypeOK
  <2> QED BY <1>1, <1>2, <1>5, <1>7, <2>1, MovesTyped DEF Typed, TypeOK
<1>9. list # <<>> /\ TailInList /\ list \in Seq(Cells) /\ \A i \in 1..Len(list) : list[i] # p
  BY <1>1, <1>4, Types DEF Shared, Open, InList
<1>10. \A i \in 1..Len(list) : list[i] \in Cells /\ node'[list[i]] = node[list[i]]
  BY <1>7, <1>9
<1>11. Chain' /\ TailInList'
  BY <1>1, <1>2, <1>9, <1>10 DEF Shared, Chain, TailInList
<1>12. Held(t)' = {} /\ \A u \in Threads : u # t => Held(u)' = Held(u)
  BY <1>5, <1>6 DEF Held, Entering, Leaving
<1>13. Owned'
  <2>1. Owned
    BY <1>1 DEF Shared
  <2>2. \A d : InList(d)' <=> InList(d)
    BY <1>2 DEF InList
  <2>3. \A d \in allocated' : InList(d)' \/ \E u \in Threads : d \in Held(u)'
    <3> SUFFICES ASSUME NEW d \in allocated, d # p, ~InList(d)
                 PROVE  \E u \in Threads : d \in Held(u)'
      BY <1>3, <2>2
    <3>1. PICK u \in Threads : d \in Held(u)
      BY <2>1 DEF Owned
    <3>2. u # t
      BY <1>4, <3>1
    <3> QED BY <1>12, <3>1, <3>2
  <2>4. \A u \in Threads : Held(u)' \subseteq allocated'
    <3>1. \A u \in Threads : u # t => p \notin Held(u)
      BY <1>4, <2>1 DEF Owned
    <3> QED BY <1>3, <1>12, <2>1, <3>1 DEF Owned
  <2>5. /\ \A u \in Threads : \A d \in Held(u)' : ~InList(d)'
        /\ \A u, w \in Threads : u # w => Held(u)' \cap Held(w)' = {}
    BY <1>12, <2>1, <2>2 DEF Owned
  <2>6. \A i \in 1..Len(list) : list[i] \in allocated'
    BY <1>3, <1>9, <2>1 DEF Owned
  <2> QED BY <1>2, <2>3, <2>4, <2>5, <2>6 DEF Owned
<1>14. EmptySeen'
  BY <1>1, <1>2, <1>5, <1>6 DEF Shared, EmptySeen
<1>15. ASSUME NEW u \in Threads, u # t
       PROVE  Rely(u)
  <2>1. \A d \in Cells : node[d].next.counter \in Nat /\ node'[d].next.counter = node[d].next.counter
    BY <1>1, <1>7, Types DEF NodeType, PairType
  <2>2. \A d \in Cells : InList(d) => d # p
    BY <1>4
  <2>3. \A d \in Entering(u) : d \in Cells /\ d # p
    <3>1. Entering(u) \subseteq Held(u) /\ Held(u) \subseteq allocated /\ p \notin Held(u)
      BY <1>1, <1>4, <1>15 DEF Shared, Owned, Held
    <3> QED BY <1>1, <3>1 DEF Typed, TypeOK
  <2>4. Len(list) \in Nat
    BY <1>9
  <2> QED BY <1>2, <1>6, <1>7, <1>15, <2>1, <2>2, <2>3, <2>4 DEF Rely
<1>16. \A u \in Threads : ThreadInv(u)'
  BY <1>1, <1>5, <1>8, <1>15, Stable DEF IInv
<1> QED BY <1>1, <1>2, <1>8, <1>9, <1>11, <1>13, <1>14, <1>16 DEF IInv, Shared, Open, Closed

\* destroy frees the first node, and the rest is a chain still.
LEMMA DestroyStep ==
  ASSUME IInv, Destroy
  PROVE  IInv'
<1> DEFINE p == head.pointer
<1>1. Shared /\ Typed /\ \A t \in Threads : ThreadInv(t) /\ pc[t] = "idle"
  BY DEF IInv, Shared, Destroy
<1>2. /\ UNCHANGED <<tail, pc, loc, calls, sawEmpty>> /\ closed'
      /\ allocated' = allocated \ {p} /\ node' = [node EXCEPT ![p].value = GARBAGE]
      /\ head' = node[p].next /\ list' = Tail(list) /\ p # NULL
  BY DEF Destroy, Free
<1>3. list # <<>> /\ p = list[1] /\ list \in Seq(Cells) /\ Len(list) \in Nat \ {0} /\ p \in Cells
  BY <1>1, <1>2, Types DEF Shared, Chain
<1>4. /\ list' \in Seq(Cells) /\ Len(list') = Len(list) - 1
      /\ \A i \in 1..Len(list') : list'[i] = list[i + 1] /\ i + 1 \in 1..Len(list)
  BY <1>2, <1>3
<1>5. /\ node' \in [Cells -> NodeType] /\ head' \in PairType
      /\ \A d \in Cells : node'[d].next = node[d].next
  BY <1>1, <1>2, <1>3, Types DEF NodeType
<1>6. Typed'
  <2>1. closed' \in BOOLEAN
    BY DEF Destroy
  <2> QED BY <1>1, <1>2, <1>4, <1>5, <2>1 DEF Typed, TypeOK
<1>7. Chain'
  <2>1. head'.pointer = IF list' = <<>> THEN NULL ELSE list'[1]
    <3>1. head'.pointer = IF 1 = Len(list) THEN NULL ELSE list[2]
      <4>1. node[list[1]].next.pointer = IF 1 = Len(list) THEN NULL ELSE list[1 + 1]
        <5>1. 1 \in 1..Len(list)
          BY <1>3
        <5> QED BY <1>1, <5>1 DEF Shared, Chain
      <4>2. head' = node[list[1]].next /\ 1 + 1 = 2
        BY <1>2, <1>3
      <4> QED BY <4>1, <4>2
    <3>2. CASE Len(list) = 1
      <4>1. list' = <<>>
        BY <1>4, <3>2
      <4> QED BY <3>1, <3>2, <4>1
    <3>3. CASE Len(list) # 1
      <4>1. list' # <<>> /\ list'[1] = list[2]
        BY <1>3, <1>4, <3>3
      <4> QED BY <3>1, <3>3, <4>1
    <3> QED BY <3>2, <3>3
  <2>2. ASSUME NEW i \in 1..Len(list'), NEW j \in 1..Len(list'), i # j
        PROVE  list'[i] # list'[j]
    <3>1. /\ list'[i] = list[i + 1] /\ list'[j] = list[j + 1]
          /\ i + 1 \in 1..Len(list) /\ j + 1 \in 1..Len(list) /\ i + 1 # j + 1
      BY <1>4, <2>2
    <3> QED BY <1>1, <3>1 DEF Shared, Chain
  <2>3. ASSUME NEW i \in 1..Len(list')
        PROVE  node'[list'[i]].next.pointer = IF i = Len(list') THEN NULL ELSE list'[i + 1]
    <3>1. list'[i] = list[i + 1] /\ i + 1 \in 1..Len(list) /\ list[i + 1] \in Cells
      BY <1>3, <1>4
    <3>2. node[list[i + 1]].next.pointer = IF i + 1 = Len(list) THEN NULL ELSE list[i + 2]
      BY <1>1, <3>1 DEF Shared, Chain
    <3>3. node'[list'[i]].next.pointer = node[list[i + 1]].next.pointer
      BY <1>5, <3>1
    <3>4. CASE i = Len(list')
      BY <1>3, <1>4, <3>2, <3>3, <3>4
    <3>5. CASE i # Len(list')
      <4>1. i + 1 \in 1..Len(list') /\ i + 1 # Len(list)
        BY <1>3, <1>4, <3>5
      <4>2. list'[i + 1] = list[i + 2]
        BY <1>4, <4>1
      <4> QED BY <3>2, <3>3, <3>5, <4>1, <4>2
    <3> QED BY <3>4, <3>5
  <2> QED BY <2>1, <2>2, <2>3 DEF Chain
<1>8. \A t \in Threads : Held(t) = {} /\ Held(t)' = {}
  BY <1>1, <1>2 DEF Held, Entering, Leaving
<1>9. Owned'
  <2>1. Owned
    BY <1>1 DEF Shared
  <2>2. \A i \in 1..Len(list') : list'[i] \in allocated'
    <3> SUFFICES ASSUME NEW i \in 1..Len(list')
                 PROVE  list'[i] \in allocated /\ list'[i] # list[1]
      BY <1>2, <1>3
    <3>1. /\ list'[i] = list[i + 1] /\ i + 1 \in 1..Len(list)
          /\ 1 \in 1..Len(list) /\ i + 1 # 1
      BY <1>3, <1>4
    <3> QED BY <1>1, <2>1, <3>1 DEF Shared, Chain, Owned
  <2>3. \A d \in allocated' : InList(d)'
    <3> SUFFICES ASSUME NEW d \in allocated, d # list[1]
                 PROVE  InList(d)'
      BY <1>2, <1>3
    <3>1. PICK i \in 1..Len(list) : list[i] = d
      BY <1>8, <2>1 DEF Owned, InList
    <3>2. i # 1
      BY <3>1
    <3>3. i - 1 \in 1..Len(list') /\ list'[i - 1] = d
      BY <1>3, <1>4, <3>1, <3>2
    <3> QED BY <3>3 DEF InList
  <2> QED BY <1>8, <2>2, <2>3 DEF Owned
<1>10. \A t \in Threads : ThreadInv(t)'
  BY <1>1, <1>2 DEF ThreadInv, TailKnown, HeadKnown, NodeKnown, EnqueueKnows, DequeueKnows,
     TailRead, TailCounterRead, HeadRead, HeadCounterRead, EnqueueLabels, DequeueLabels
<1>11. EmptySeen'
  BY <1>1, <1>2 DEF EmptySeen, DequeueLabels
<1> QED BY <1>1, <1>2, <1>6, <1>7, <1>9, <1>10, <1>11 DEF IInv, Shared, Open, Closed

-----------------------------------------------------------------------------
LEMMA InitIInv == Init => IInv
<1> SUFFICES ASSUME Init PROVE IInv
  OBVIOUS
<1> USE DEF EnqueueLabels, DequeueLabels
<1>1. PICK c \in Cells : head = Pair(c, 0) /\ allocated = {c} /\ list = <<c>>
  BY DEF Init
<1>2. /\ tail = head /\ pc = [t \in Threads |-> "idle"] /\ loc = [t \in Threads |-> NoLocals]
      /\ node = [d \in Cells |-> [value |-> GARBAGE, next |-> Nowhere]]
      /\ calls = [t \in Threads |-> 0] /\ sawEmpty = {} /\ closed = FALSE
  BY DEF Init
<1>3. head \in PairType /\ Nowhere \in PairType /\ Nowhere.pointer = NULL
  BY <1>1 DEF PairType, Pair, Nowhere
<1>4. Typed
  <2>1. node \in [Cells -> NodeType]
    BY <1>2, <1>3 DEF NodeType
  <2>2. loc \in [Threads -> LocalsType]
    BY <1>2, NoLocalsTyped
  <2>3. list \in Seq(Cells) /\ allocated \subseteq Cells /\ tail \in PairType
    BY <1>1, <1>2, <1>3
  <2>4. CallsCounted /\ pc \in [Threads -> Labels]
    BY <1>2, QueueAssumption DEF CallsCounted, Labels
  <2> QED BY <1>2, <1>3, <2>1, <2>2, <2>3, <2>4 DEF Typed, TypeOK, CallsCounted, LocalsType
<1>5. list \in Seq(Cells) /\ Len(list) = 1 /\ list[1] = c
  BY <1>1
<1>6. Chain /\ list # <<>> /\ TailInList
  <2>1. head.pointer = c
    BY <1>1 DEF Pair
  <2>2. node[c].next.pointer = NULL
    BY <1>2, <1>3
  <2>3. \A i \in 1..Len(list) : i = 1 /\ i = Len(list)
    BY <1>5
  <2>4. Chain
    BY <1>5, <2>1, <2>2, <2>3 DEF Chain
  <2>5. 1 \in 1..Len(list) /\ 1 >= Len(list) - 1 /\ tail.pointer = list[1]
    BY <1>2, <1>5, <2>1
  <2> QED BY <1>5, <2>4, <2>5 DEF TailInList
<1>7. Owned
  <2>1. \A t \in Threads : Held(t) = {}
    BY <1>2 DEF Held, Entering, Leaving
  <2> QED BY <1>1, <1>5, <2>1 DEF Owned, InList
<1>8. EmptySeen /\ \A t \in Threads : ThreadInv(t)
  BY <1>2 DEF EmptySeen, ThreadInv, TailKnown, HeadKnown, NodeKnown, EnqueueKnows,
     DequeueKnows, TailRead, TailCounterRead, HeadRead, HeadCounterRead
<1> QED BY <1>2, <1>4, <1>6, <1>7, <1>8 DEF IInv, Shared, Open, Closed

\* A step that changes nothing
LEMMA StutterStep ==
  ASSUME IInv, UNCHANGED vars
  PROVE  IInv'
<1>1. UNCHANGED <<head, tail, node, allocated, pc, loc, calls, list, sawEmpty, closed>>
  BY DEF vars, shared, history
<1>2. Typed' /\ Chain' /\ TailInList' = TailInList /\ EmptySeen'
  BY <1>1 DEF IInv, Shared, Typed, TypeOK, Chain, TailInList, EmptySeen
<1>3. Owned'
  <2>1. \A t : Held(t)' = Held(t)
    BY <1>1 DEF Held, Entering, Leaving
  <2>2. \A c : InList(c)' <=> InList(c)
    BY <1>1 DEF InList
  <2>3. Owned
    BY DEF IInv, Shared
  <2> HIDE DEF Held, InList
  <2> QED BY <1>1, <2>1, <2>2, <2>3 DEF Owned
<1>4. ASSUME NEW t \in Threads PROVE ThreadInv(t)'
  <2>1. TailKnown(t) /\ HeadKnown(t) /\ NodeKnown(t) /\ EnqueueKnows(t) /\ DequeueKnows(t)
    BY DEF IInv, ThreadInv
  <2>2. TailKnown(t)' /\ HeadKnown(t)' /\ NodeKnown(t)'
    BY <1>1, <2>1 DEF TailKnown, HeadKnown, NodeKnown, TailFresh, HeadFresh
  <2>3. EnqueueKnows(t)'
    BY <1>1, <2>1 DEF EnqueueKnows, LinkSound, Behind, TailFresh
  <2>4. DequeueKnows(t)'
    BY <1>1, <2>1, SMTT(30)
       DEF DequeueKnows, HeadFresh, NextKnown, TailHasLeft, Behind, TailFresh
  <2> QED BY <2>2, <2>3, <2>4 DEF ThreadInv
<1> QED BY <1>1, <1>2, <1>3, <1>4 DEF IInv, Shared, Open, Closed

LEMMA NextIInv ==
  ASSUME KeepsBytes, IInv, [Next]_vars
  PROVE  IInv'
<1>1. ASSUME NEW t \in Threads, Step(t)
      PROVE  IInv'
  BY <1>1, StoreNullStep, EnqueueReadsStep, EnqueueCheckStep, LinkStep, EnqueueHelpsStep,
     EnqueueReturnsStep, DequeueReadsStep, DequeueCheckStep, ReadNodeStep, DequeueFailsStep,
     RereadNodeStep, DequeueHelpsStep, ReadValueStep, SwingHeadStep, DequeueReturnsStep
     DEF Step
<1>2. ASSUME NEW t \in Threads, CallDequeue(t)
      PROVE  IInv'
  BY <1>2, CallDequeueStep
<1>3. ASSUME NEW t \in Threads, NEW v \in Values, CallEnqueue(t, v)
      PROVE  IInv'
  BY <1>3, CallEnqueueStep
<1>4. ASSUME Destroyed
      PROVE  IInv'
  BY <1>4, StutterStep DEF Destroyed
<1> QED BY <1>1, <1>2, <1>3, <1>4, DestroyStep, StutterStep DEF Next

\* The inductive invariant holds in every reachable state.
THEOREM QueueInvariant ==
  ASSUME KeepsBytes
  PROVE  Spec => []IInv
<1>1. IInv /\ [Next]_vars => IInv'
  BY NextIInv
<1> QED BY <1>1, InitIInv, PTL DEF Spec

LEMMA InvariantListLinked ==
  ASSUME IInv
  PROVE  ListLinked
<1>1. Shared /\ TypeOK
  BY DEF IInv, Shared, Typed
<1>2. ~closed => head.pointer = list[1] /\ TailInList
  BY <1>1 DEF Shared, Open, Chain
<1> QED BY <1>1, <1>2 DEF ListLinked, Shared, Chain, TailInList

LEMMA InvariantNodes ==
  ASSUME IInv
  PROVE  NodesAccountedFor
<1> DEFINE held(t) == Entering(t) \cup Leaving(t)
<1>1. Owned
  BY DEF IInv, Shared
<1>2. \A c : c \in Listed <=> InList(c)
  BY DEF Listed, InList
<1>3. allocated = Listed \cup UNION {held(t) : t \in Threads}
  <2>1. ASSUME NEW c \in allocated
        PROVE  c \in Listed \cup UNION {held(t) : t \in Threads}
    BY <1>1, <1>2 DEF Owned, Held
  <2>2. ASSUME NEW c \in Listed
        PROVE  c \in allocated
    BY <1>1 DEF Owned, Listed
  <2>3. ASSUME NEW c \in UNION {held(t) : t \in Threads}
        PROVE  c \in allocated
    BY <1>1 DEF Owned, Held
  <2> QED BY <2>1, <2>2, <2>3
<1>4. \A t \in Threads : held(t) \cap Listed = {}
  BY <1>1, <1>2 DEF Owned, Held
<1>5. \A t, u \in Threads : t # u => held(t) \cap held(u) = {}
  BY <1>1 DEF Owned, Held
<1> QED BY <1>3, <1>4, <1>5 DEF NodesAccountedFor

LEMMA InvariantLinks ==
  ASSUME IInv
  PROVE  LinksBehindLast
<1> SUFFICES ASSUME NEW t \in Threads, pc[t] = "e_link",
                    node[loc[t].tail.pointer].next = loc[t].next
             PROVE  loc[t].tail.pointer = list[Len(list)]
  BY DEF LinksBehindLast
<1> DEFINE c == loc[t].tail.pointer
<1>1. Shared /\ Typed /\ c \in Cells /\ LinkSound(t) /\ loc[t].next.pointer = NULL /\ ~closed
  BY InCall DEF IInv, Shared, ThreadInv, TailKnown, EnqueueKnows, TailRead, TailCounterRead
<1>2. node[c].next.counter \in Nat /\ loc[t].next.counter = node[c].next.counter
  BY <1>1, Types DEF NodeType, PairType
<1>3. tail.pointer = c
  BY <1>1, <1>2 DEF LinkSound
<1>4. PICK i \in 1..Len(list) : tail.pointer = list[i]
  BY <1>1 DEF Shared, Open, TailInList
<1>5. list \in Seq(Cells) /\ Len(list) \in Nat
  BY <1>1, Types
<1>6. ASSUME i # Len(list)
      PROVE  FALSE
  <2>1. node[c].next.pointer = list[i + 1]
    BY <1>1, <1>3, <1>4, <1>6 DEF Shared, Chain
  <2>2. list[i + 1] \in Cells
    BY <1>4, <1>5, <1>6
  <2> QED BY <1>1, <2>1, <2>2, QueueAssumption
<1> QED BY <1>3, <1>4, <1>6

LEMMA InvariantDestroy ==
  ASSUME IInv
  PROVE  DestroyFreesAll
<1> SUFFICES ASSUME head.pointer = NULL
             PROVE  allocated = {}
  BY DEF DestroyFreesAll
<1>1. Shared /\ list \in Seq(Cells)
  BY Types DEF IInv, Shared
<1>2. list = <<>>
  <2>1. list # <<>> => list[1] \in Cells
    BY <1>1
  <2> QED BY <1>1, <2>1, QueueAssumption DEF Shared, Chain
<1>3. \A t \in Threads : pc[t] = "idle"
  BY <1>1, <1>2 DEF Shared, Open, Closed
<1>4. \A c : ~InList(c)
  BY <1>2 DEF InList
<1> QED BY <1>1, <1>3, <1>4 DEF Shared, Owned, Held, Entering, Leaving

\* In memory the queue is one chain of distinct nodes, from head to the last one
\* (ListLinked; queue.c, enqueue and dequeue).
THEOREM QueueIsSound ==
  ASSUME KeepsBytes
  PROVE  Spec => []ListLinked
<1>1. IInv => ListLinked
  BY InvariantListLinked
<1> QED BY <1>1, QueueInvariant, PTL

\* No cas that succeeds is misled by a node that was dequeued, freed and allocated
\* again (LinksBehindLast; queue.c, enqueue): ABA is excluded if malloc keeps the
\* counters.
THEOREM NoABA ==
  ASSUME KeepsBytes
  PROVE  Spec => []LinksBehindLast
<1>1. IInv => LinksBehindLast
  BY InvariantLinks
<1> QED BY <1>1, QueueInvariant, PTL

\* No node leaks, is freed twice or is in two hands (NodesAccountedFor; queue.c, the
\* malloc of enqueue and the free of dequeue).
THEOREM NodesAreSound ==
  ASSUME KeepsBytes
  PROVE  Spec => []NodesAccountedFor
<1>1. IInv => NodesAccountedFor
  BY InvariantNodes
<1> QED BY <1>1, QueueInvariant, PTL

\* destroy leaves no node allocated (DestroyFreesAll; queue.c, destroy).
THEOREM NothingIsLeft ==
  ASSUME KeepsBytes
  PROVE  Spec => []DestroyFreesAll
<1>1. IInv => DestroyFreesAll
  BY InvariantDestroy
<1> QED BY <1>1, QueueInvariant, PTL

-----------------------------------------------------------------------------
\* Only a dequeue under way has seen the queue empty.
Seen == \A t \in sawEmpty : pc[t] \in DequeueLabels

LEMMA NextSeen ==
  ASSUME Typed, Seen, [Next]_vars
  PROVE  Seen'
<1>0. pc \in [Threads -> Labels] /\ sawEmpty \subseteq Threads
  BY DEF Typed, TypeOK
<1>1. pc \in [Threads -> Labels] /\ sawEmpty \subseteq Threads
      /\ \A t \in Dequeuers : t \in Threads /\ pc[t] \in DequeueLabels
  BY <1>0 DEF Dequeuers, Labels, EnqueueLabels, DequeueLabels
<1>2. ASSUME NEW t \in Threads, NEW q, pc' = [pc EXCEPT ![t] = q],
             \/ sawEmpty' = sawEmpty /\ (q \in DequeueLabels \/ pc[t] \notin DequeueLabels)
             \/ sawEmpty' = sawEmpty \ {t}
             \/ sawEmpty' = sawEmpty \cup {t} /\ q \in DequeueLabels
             \/ sawEmpty' = Dequeuers \ {t}
      PROVE  Seen'
  <2>1. /\ t \in Threads /\ pc'[t] = q
        /\ \A u \in Threads : u # t => pc'[u] = pc[u]
    BY <1>1, <1>2
  <2>2. CASE sawEmpty' = sawEmpty /\ (q \in DequeueLabels \/ pc[t] \notin DequeueLabels)
    BY <1>1, <2>1, <2>2 DEF Seen
  <2>3. CASE sawEmpty' = sawEmpty \ {t}
    BY <1>1, <2>1, <2>3 DEF Seen
  <2>4. CASE sawEmpty' = sawEmpty \cup {t} /\ q \in DequeueLabels
    BY <1>1, <2>1, <2>4 DEF Seen
  <2>5. CASE sawEmpty' = Dequeuers \ {t}
    BY <1>1, <2>1, <2>5 DEF Seen
  <2> QED BY <1>2, <2>2, <2>3, <2>4, <2>5
<1> USE DEF DequeueLabels
<1>3. ASSUME NEW t \in Threads, Step(t)
      PROVE  Seen'
  <2>1. CASE StoreNull(t) \/ EnqueueReads(t) \/ EnqueueCheck(t) \/ EnqueueHelps(t) \/ EnqueueReturns(t)
    BY <1>1, <1>2, <2>1 DEF StoreNull, EnqueueReads, EnqueueCheck, EnqueueHelps, EnqueueReturns,
       Read, Goto, Return, history
  <2>2. CASE Link(t)
    BY <1>1, <1>2, <2>2 DEF Link
  <2>3. CASE DequeueReads(t) \/ DequeueCheck(t) \/ ReadNode(t) \/ RereadNode(t)
    BY <1>1, <1>2, <2>3 DEF DequeueReads, DequeueCheck, ReadNode, RereadNode, Forward, Read, Goto, history
  <2>4. CASE DequeueHelps(t) \/ ReadValue(t)
    BY <1>1, <1>2, <2>4 DEF DequeueHelps, ReadValue, Goto, history
  <2>5. CASE DequeueFails(t)
    BY <1>1, <1>2, <2>5 DEF DequeueFails, Return
  <2>6. CASE SwingHead(t)
    BY <1>1, <1>2, <2>6 DEF SwingHead, history
  <2>7. CASE DequeueReturns(t)
    BY <1>1, <1>2, <2>7 DEF DequeueReturns, Return, history
  <2> QED BY <1>3, <2>1, <2>2, <2>3, <2>4, <2>5, <2>6, <2>7 DEF Step
<1>4. ASSUME NEW t \in Threads, CallDequeue(t)
      PROVE  Seen'
  BY <1>1, <1>2, <1>4 DEF CallDequeue, Goto
<1>5. ASSUME NEW t \in Threads, NEW v \in Values, CallEnqueue(t, v)
      PROVE  Seen'
  BY <1>1, <1>2, <1>5 DEF CallEnqueue, Goto, history
<1>6. CASE Destroy \/ Destroyed \/ UNCHANGED vars
  BY <1>6 DEF Seen, Destroy, Destroyed, vars, history
<1> QED BY <1>3, <1>4, <1>5, <1>6 DEF Next

-----------------------------------------------------------------------------
\* The refinement mapping, named
ValuesOf(l, n) == [i \in 1..(Len(l) - 1) |-> n[l[i + 1]].value]
Queue == ValuesOf(list, node)
Ops == [t \in Threads |-> AbstractOp(t)]

LEMMA AbstractOps ==
  ASSUME NEW t
  PROVE  /\ pc[t] = "idle" => AbstractOp(t) = Fifo!Idle
         /\ pc[t] \in EnqueueLabels \ {"e_swing"} =>
              AbstractOp(t) = Fifo!Enqueuing(node[loc[t].new].value)
         /\ pc[t] = "e_swing" => AbstractOp(t) = Fifo!Enqueued
         /\ pc[t] = "d_free" => AbstractOp(t) = Fifo!Dequeued(loc[t].value)
         /\ pc[t] \in DequeueLabels => AbstractOp(t) = Fifo!Dequeuing(t \in sawEmpty)
BY DEF AbstractOp, Fifo!Idle, Fifo!Enqueuing, Fifo!Enqueued, Fifo!Dequeued, Fifo!Dequeuing,
       EnqueueLabels, DequeueLabels

LEMMA AbstractOpsNext ==
  ASSUME NEW t
  PROVE  /\ pc'[t] = "idle" => AbstractOp(t)' = Fifo!Idle
         /\ pc'[t] \in EnqueueLabels \ {"e_swing"} =>
              AbstractOp(t)' = Fifo!Enqueuing(node'[loc'[t].new].value)
         /\ pc'[t] = "e_swing" => AbstractOp(t)' = Fifo!Enqueued
         /\ pc'[t] = "d_free" => AbstractOp(t)' = Fifo!Dequeued(loc'[t].value)
         /\ pc'[t] \in DequeueLabels => AbstractOp(t)' = Fifo!Dequeuing(t \in sawEmpty')
BY DEF AbstractOp, Fifo!Idle, Fifo!Enqueuing, Fifo!Enqueued, Fifo!Dequeued, Fifo!Dequeuing,
       EnqueueLabels, DequeueLabels

\* The node that t is about to bring in is a cell of its own.
LEMMA EnteringNode ==
  ASSUME IInv, NEW t \in Threads, pc[t] \in EnqueueLabels \ {"e_swing"}
  PROVE  /\ loc[t].new \in Cells /\ loc[t].new \in allocated
         /\ loc[t].new \in Held(t) /\ ~InList(loc[t].new)
<1>1. Owned /\ NodeKnown(t)
  BY DEF IInv, Shared, ThreadInv
<1>2. loc[t].new \in Cells
  BY <1>1 DEF NodeKnown
<1>3. loc[t].new \in Held(t)
  BY <1>2, QueueAssumption DEF Held, Entering, EnqueueLabels
<1> QED BY <1>1, <1>2, <1>3 DEF Owned

\* A thread that does not move is in the same operation, as long as the value it
\* brings in and whether it has seen the queue empty stay what they are.
LEMMA OthersOps ==
  ASSUME NEW u, pc'[u] = pc[u], loc'[u] = loc[u],
         pc[u] \in EnqueueLabels \ {"e_swing"} =>
           node'[loc[u].new].value = node[loc[u].new].value,
         pc[u] \in DequeueLabels => (u \in sawEmpty' <=> u \in sawEmpty),
         pc[u] \in Labels
  PROVE  AbstractOp(u)' = AbstractOp(u)
<1>1. CASE pc[u] \in EnqueueLabels \ {"e_swing"}
  BY <1>1 DEF AbstractOp, EnqueueLabels
<1>2. CASE pc[u] \in DequeueLabels
  BY <1>2 DEF AbstractOp, DequeueLabels
<1>3. CASE pc[u] \in {"idle", "e_swing", "d_free"}
  BY <1>3 DEF AbstractOp
<1> QED BY <1>1, <1>2, <1>3 DEF Labels

\* The abstract queue has one value per listed node behind the dummy.
LEMMA ValuesOfFacts ==
  ASSUME NEW l \in Seq(Cells), NEW n \in [Cells -> NodeType], l # <<>>
  PROVE  /\ ValuesOf(l, n) \in Seq(Values \cup {GARBAGE})
         /\ Len(ValuesOf(l, n)) = Len(l) - 1
         /\ \A i \in 1..(Len(l) - 1) : ValuesOf(l, n)[i] = n[l[i + 1]].value
         /\ Len(l) \in Nat \ {0}
<1>1. Len(l) \in Nat \ {0}
  OBVIOUS
<1>2. \A i \in 1..(Len(l) - 1) : n[l[i + 1]].value \in Values \cup {GARBAGE}
  <2> SUFFICES ASSUME NEW i \in 1..(Len(l) - 1)
               PROVE  n[l[i + 1]].value \in Values \cup {GARBAGE}
    OBVIOUS
  <2>1. l[i + 1] \in Cells
    BY <1>1
  <2> QED BY <2>1 DEF NodeType
<1>3. Len(l) - 1 \in Nat
  BY <1>1
<1>4. ValuesOf(l, n) \in Seq(Values \cup {GARBAGE}) /\ Len(ValuesOf(l, n)) = Len(l) - 1
  BY <1>2, <1>3 DEF ValuesOf
<1> QED BY <1>1, <1>4 DEF ValuesOf

LEMMA QueueEmpty ==
  ASSUME Typed, list # <<>>
  PROVE  Queue = <<>> <=> Len(list) = 1
<1>1. list \in Seq(Cells) /\ node \in [Cells -> NodeType]
  BY Types
<1>2. Queue \in Seq(Values \cup {GARBAGE}) /\ Len(Queue) = Len(list) - 1 /\ Len(list) \in Nat
  BY <1>1, ValuesOfFacts DEF Queue
<1> QED BY <1>2

\* A node behind the last one brings its value to the end.
LEMMA ValuesOfAppend ==
  ASSUME NEW l \in Seq(Cells), NEW n \in [Cells -> NodeType], l # <<>>,
         NEW m \in [Cells -> NodeType], NEW c \in Cells,
         \A i \in 1..Len(l) : m[l[i]].value = n[l[i]].value
  PROVE  ValuesOf(Append(l, c), m) = Append(ValuesOf(l, n), m[c].value)
<1> DEFINE k == Append(l, c)
           q == ValuesOf(l, n)
           r == ValuesOf(k, m)
           S == Values \cup {GARBAGE}
           v == m[c].value
<1>1. Len(l) \in Nat \ {0} /\ k \in Seq(Cells) /\ Len(k) = Len(l) + 1 /\ k # <<>>
      /\ k[Len(l) + 1] = c /\ \A i \in 1..Len(l) : k[i] = l[i]
  BY AppendProperties
<1>2. /\ q \in Seq(S) /\ Len(q) = Len(l) - 1
      /\ \A i \in 1..(Len(l) - 1) : q[i] = n[l[i + 1]].value
  BY ValuesOfFacts
<1> HIDE DEF k, q, r
<1>3. /\ r \in Seq(S) /\ Len(r) = Len(l)
      /\ \A i \in 1..Len(l) : r[i] = m[k[i + 1]].value
  <2>1. r \in Seq(S) /\ Len(r) = Len(k) - 1
        /\ \A i \in 1..(Len(k) - 1) : r[i] = m[k[i + 1]].value
    BY <1>1, ValuesOfFacts DEF r
  <2> QED BY <1>1, <2>1
<1>4. v \in S
  BY DEF NodeType
<1> HIDE DEF S, v
<1> DEFINE a == Append(q, v)
<1>5. a \in Seq(S) /\ Len(a) = Len(l) /\ a[Len(l)] = v
      /\ \A i \in 1..(Len(l) - 1) : a[i] = q[i]
  <2>1. a \in Seq(S) /\ Len(a) = Len(q) + 1 /\ a[Len(q) + 1] = v
        /\ \A i \in 1..Len(q) : a[i] = q[i]
    BY <1>2, <1>4, AppendProperties
  <2> QED BY <1>1, <1>2, <2>1
<1> HIDE DEF a
<1>6. ASSUME NEW i \in 1..Len(l)
      PROVE  r[i] = a[i]
  <2>1. CASE i = Len(l)
    BY <1>1, <1>3, <1>5, <2>1 DEF v
  <2>2. CASE i # Len(l)
    <3>1. i \in 1..(Len(l) - 1) /\ i + 1 \in 1..Len(l)
      BY <1>1, <2>2
    <3>2. k[i + 1] = l[i + 1]
      BY <1>1, <3>1
    <3> QED BY <1>2, <1>3, <1>5, <3>1, <3>2
  <2> QED BY <2>1, <2>2
<1>7. r = a
  BY <1>3, <1>5, <1>6, SeqEqual
<1> QED BY <1>7 DEF r, a, k, q, v

\* Without its dummy the list has lost the first value, if it had one.
LEMMA ValuesOfTail ==
  ASSUME NEW l \in Seq(Cells), NEW n \in [Cells -> NodeType], Len(l) >= 2,
         NEW m \in [Cells -> NodeType],
         \A i \in 2..Len(l) : m[l[i]].value = n[l[i]].value
  PROVE  /\ ValuesOf(Tail(l), m) = Tail(ValuesOf(l, n))
         /\ Head(ValuesOf(l, n)) = n[l[2]].value
<1> DEFINE k == Tail(l)
           q == ValuesOf(l, n)
           r == ValuesOf(k, m)
           S == Values \cup {GARBAGE}
<1>1. /\ Len(l) \in Nat \ {0, 1} /\ l # <<>> /\ k \in Seq(Cells) /\ Len(k) = Len(l) - 1
      /\ k # <<>> /\ \A i \in 1..(Len(l) - 1) : k[i] = l[i + 1]
  <2>1. Len(l) \in Nat \ {0, 1} /\ l # <<>>
    OBVIOUS
  <2>2. /\ k \in Seq(Cells) /\ Len(k) = Len(l) - 1
        /\ \A i \in 1..Len(k) : k[i] = l[i + 1]
    BY <2>1, HeadTailProperties
  <2> HIDE DEF k
  <2>3. k # <<>> /\ 1..Len(k) = 1..(Len(l) - 1)
    BY <2>1, <2>2
  <2> QED BY <2>1, <2>2, <2>3
<1>2. /\ q \in Seq(S) /\ Len(q) = Len(l) - 1
      /\ \A i \in 1..(Len(l) - 1) : q[i] = n[l[i + 1]].value
  BY <1>1, ValuesOfFacts
<1> HIDE DEF k, q, r, S
<1>3. /\ r \in Seq(S) /\ Len(r) = Len(l) - 2
      /\ \A i \in 1..(Len(l) - 2) : r[i] = m[k[i + 1]].value
  <2>1. r \in Seq(S) /\ Len(r) = Len(k) - 1
        /\ \A i \in 1..(Len(k) - 1) : r[i] = m[k[i + 1]].value
    BY <1>1, ValuesOfFacts DEF r, S
  <2> QED BY <1>1, <2>1
<1> DEFINE a == Tail(q)
<1>4. q # <<>> /\ Head(q) = q[1]
  BY <1>1, <1>2
<1>5. /\ a \in Seq(S) /\ Len(a) = Len(l) - 2
      /\ \A i \in 1..(Len(l) - 2) : a[i] = q[i + 1]
  <2>1. /\ a \in Seq(S) /\ Len(a) = Len(q) - 1
        /\ \A i \in 1..Len(a) : a[i] = q[i + 1]
    BY <1>2, <1>4, HeadTailProperties
  <2> QED BY <1>1, <1>2, <2>1
<1> HIDE DEF a
<1>6. ASSUME NEW i \in 1..(Len(l) - 2)
      PROVE  r[i] = a[i]
  <2>1. i + 1 \in 1..(Len(l) - 1) /\ (i + 1) + 1 \in 2..Len(l)
    BY <1>1
  <2>2. k[i + 1] = l[(i + 1) + 1] /\ q[i + 1] = n[l[(i + 1) + 1]].value
    BY <1>1, <1>2, <2>1
  <2> QED BY <1>3, <1>5, <2>1, <2>2
<1>7. r = a
  <2>1. Len(r) = Len(a) /\ \A i \in 1..Len(r) : r[i] = a[i]
    BY <1>3, <1>5, <1>6
  <2> QED BY <1>3, <1>5, <2>1, SeqEqual
<1>8. Head(q) = n[l[2]].value
  <2>1. 1 \in 1..(Len(l) - 1) /\ 1 + 1 = 2
    BY <1>1
  <2> QED BY <1>2, <1>4, <2>1
<1> QED BY <1>7, <1>8 DEF r, a, k, q

\* Steps that leave the list and the listed values alone leave the queue alone.
LEMMA QueueSame ==
  ASSUME list' = list, \A i \in 1..Len(list) : node'[list[i]].value = node[list[i]].value,
         Len(list) \in Nat
  PROVE  Queue' = Queue
<1>1. \A i \in 1..(Len(list) - 1) : i + 1 \in 1..Len(list)
  OBVIOUS
<1> QED BY <1>1 DEF Queue, ValuesOf

\* Such a step of t, if it leaves t in the same operation, is a stutter.
LEMMA StutterRefines ==
  ASSUME IInv, NEW t \in Threads, list' = list, closed' = closed, sawEmpty' = sawEmpty,
         \A u \in Threads : u # t => pc'[u] = pc[u] /\ loc'[u] = loc[u],
         \A c \in Cells : node'[c].value = node[c].value,
         AbstractOp(t)' = AbstractOp(t)
  PROVE  UNCHANGED Fifo!vars
<1>1. /\ list \in Seq(Cells) /\ Len(list) \in Nat /\ \A i \in 1..Len(list) : list[i] \in Cells
      /\ \A u \in Threads : pc[u] \in Labels
  BY Types DEF IInv, Shared
<1>2. Queue' = Queue
  BY <1>1, QueueSame
<1>3. \A u \in Threads : AbstractOp(u)' = AbstractOp(u)
  BY <1>1, OthersOps, EnteringNode
<1>4. Ops' = Ops
  BY <1>3 DEF Ops
<1> QED BY <1>2, <1>4 DEF Fifo!vars, Queue, ValuesOf, Ops

\* So is one that moves t between two labels before, or two labels after, the
\* moment its operation takes effect.
LEMMA StayRefines ==
  ASSUME IInv, NEW t \in Threads, NEW q, NEW l,
         pc' = [pc EXCEPT ![t] = q], loc' = [loc EXCEPT ![t] = l], l.new = loc[t].new,
         \/ pc[t] \in EnqueueLabels \ {"e_swing"} /\ q \in EnqueueLabels \ {"e_swing"}
         \/ pc[t] \in DequeueLabels /\ q \in DequeueLabels,
         UNCHANGED <<list, closed, sawEmpty>>, \A c \in Cells : node'[c].value = node[c].value
  PROVE  UNCHANGED Fifo!vars
<1>1. /\ pc'[t] = q /\ loc'[t] = l
      /\ \A u \in Threads : u # t => pc'[u] = pc[u] /\ loc'[u] = loc[u]
  BY Types DEF IInv, Shared
<1>2. CASE pc[t] \in EnqueueLabels \ {"e_swing"} /\ q \in EnqueueLabels \ {"e_swing"}
  <2>1. AbstractOp(t) = Fifo!Enqueuing(node[loc[t].new].value)
    BY <1>2, AbstractOps
  <2>2. AbstractOp(t)' = Fifo!Enqueuing(node'[loc'[t].new].value)
    BY <1>1, <1>2, AbstractOpsNext
  <2>3. loc[t].new \in Cells
    BY <1>2, EnteringNode
  <2>4. AbstractOp(t)' = AbstractOp(t)
    BY <1>1, <2>1, <2>2, <2>3
  <2> QED BY <1>1, <2>4, StutterRefines
<1>3. CASE pc[t] \in DequeueLabels /\ q \in DequeueLabels
  <2>1. AbstractOp(t) = Fifo!Dequeuing(t \in sawEmpty)
    BY <1>3, AbstractOps
  <2>2. AbstractOp(t)' = Fifo!Dequeuing(t \in sawEmpty')
    BY <1>1, <1>3, AbstractOpsNext
  <2>3. AbstractOp(t)' = AbstractOp(t)
    BY <2>1, <2>2
  <2> QED BY <1>1, <2>3, StutterRefines
<1> QED BY <1>2, <1>3

LEMMA EnqueueStutters ==
  ASSUME IInv, NEW t \in Threads,
         StoreNull(t) \/ EnqueueReads(t) \/ EnqueueCheck(t) \/ EnqueueHelps(t)
  PROVE  UNCHANGED Fifo!vars
<1> USE DEF EnqueueLabels, DequeueLabels
<1>0. Typed
  BY DEF IInv, Shared
<1>1. loc[t] \in LocalsType /\ loc \in [Threads -> LocalsType] /\ node \in [Cells -> NodeType]
  BY Types DEF IInv, Shared
<1>2. loc = [loc EXCEPT ![t] = loc[t]]
  BY <1>1
<1>3. CASE StoreNull(t)
  <2>1. \A c \in Cells : node'[c].value = node[c].value
    BY <1>1, <1>3 DEF StoreNull, NodeType
  <2> QED BY <1>2, <1>3, <2>1, StayRefines DEF StoreNull, Goto, history
<1>4. CASE EnqueueReads(t)
  <2> DEFINE Moved == \E l : loc' = [loc EXCEPT ![t] = l] /\ l.new = loc[t].new
  <2>1. \A x : /\ loc' = [loc EXCEPT ![t] = [loc[t] EXCEPT !.tail = x]] => Moved
               /\ loc' = [loc EXCEPT ![t] = [loc[t] EXCEPT !.next = x]] => Moved
               /\ loc' = [loc EXCEPT ![t] = [loc[t] EXCEPT !.again = x]] => Moved
    <3>1. \A x : /\ [loc[t] EXCEPT !.tail = x].new = loc[t].new
                 /\ [loc[t] EXCEPT !.next = x].new = loc[t].new
                 /\ [loc[t] EXCEPT !.again = x].new = loc[t].new
      BY <1>1 DEF LocalsType
    <3> QED BY <3>1
  <2> HIDE DEF Moved
  <2>2. PICK q \in EnqueueLabels \ {"e_swing"} : pc' = [pc EXCEPT ![t] = q]
    BY <1>0, <1>4, EnqueueReadsCases
  <2>3. Moved
    BY <1>0, <1>4, <2>1, EnqueueReadsCases
  <2>4. pc[t] \in EnqueueLabels \ {"e_swing"} /\ UNCHANGED <<list, closed, sawEmpty, node>>
    BY <1>0, <1>4, EnqueueReadsCases
  <2> QED BY <2>2, <2>3, <2>4, StayRefines DEF Moved
<1>5. CASE EnqueueCheck(t)
  <2>1. loc' = [loc EXCEPT ![t] = [loc[t] EXCEPT !.again = Nowhere]]
    BY <1>1, <1>5 DEF EnqueueCheck
  <2>2. [loc[t] EXCEPT !.again = Nowhere].new = loc[t].new
    BY <1>1 DEF LocalsType
  <2>3. PICK q \in {"e_tail1", "e_link", "e_help"} : pc' = [pc EXCEPT ![t] = q]
    BY <1>5 DEF EnqueueCheck
  <2>4. pc[t] = "e_check2" /\ UNCHANGED <<list, closed, sawEmpty, node>>
    BY <1>5 DEF EnqueueCheck, shared, history
  <2> QED BY <2>1, <2>2, <2>3, <2>4, StayRefines
<1>6. CASE EnqueueHelps(t)
  BY <1>2, <1>6, StayRefines DEF EnqueueHelps, Goto, history
<1> QED BY <1>3, <1>4, <1>5, <1>6

LEMMA DequeueStutters ==
  ASSUME IInv, NEW t \in Threads,
         \/ DequeueReads(t) \/ DequeueCheck(t) \/ ReadNode(t) \/ RereadNode(t)
         \/ DequeueHelps(t) \/ ReadValue(t)
  PROVE  UNCHANGED Fifo!vars
<1> USE DEF EnqueueLabels, DequeueLabels
<1>0. Typed
  BY DEF IInv, Shared
<1>1. loc[t] \in LocalsType /\ loc \in [Threads -> LocalsType]
  BY Types DEF IInv, Shared
<1>2. loc = [loc EXCEPT ![t] = loc[t]]
  BY <1>1
<1>3. CASE DequeueReads(t)
  <2> DEFINE Moved == \E l : loc' = [loc EXCEPT ![t] = l] /\ l.new = loc[t].new
  <2>1. \A x : /\ loc' = [loc EXCEPT ![t] = [loc[t] EXCEPT !.head = x]] => Moved
               /\ loc' = [loc EXCEPT ![t] = [loc[t] EXCEPT !.tail = x]] => Moved
               /\ loc' = [loc EXCEPT ![t] = [loc[t] EXCEPT !.next = x]] => Moved
               /\ loc' = [loc EXCEPT ![t] = [loc[t] EXCEPT !.again = x]] => Moved
    <3>1. \A x : /\ [loc[t] EXCEPT !.head = x].new = loc[t].new
                 /\ [loc[t] EXCEPT !.tail = x].new = loc[t].new
                 /\ [loc[t] EXCEPT !.next = x].new = loc[t].new
                 /\ [loc[t] EXCEPT !.again = x].new = loc[t].new
      BY <1>1 DEF LocalsType
    <3> QED BY <3>1
  <2> HIDE DEF Moved
  <2>2. PICK q \in DequeueLabels : pc' = [pc EXCEPT ![t] = q]
    BY <1>0, <1>3, DequeueReadsCases
  <2>3. Moved
    BY <1>0, <1>3, <2>1, DequeueReadsCases
  <2>4. pc[t] \in DequeueLabels /\ UNCHANGED <<list, closed, sawEmpty, node>>
    BY <1>0, <1>3, DequeueReadsCases
  <2> QED BY <2>2, <2>3, <2>4, StayRefines DEF Moved
<1>4. CASE DequeueCheck(t)
  <2>1. loc' = [loc EXCEPT ![t] = [loc[t] EXCEPT !.again = Nowhere]]
    BY <1>1, <1>4 DEF DequeueCheck
  <2>2. [loc[t] EXCEPT !.again = Nowhere].new = loc[t].new
    BY <1>1 DEF LocalsType
  <2>3. PICK q \in {"d_head1", "d_same1", "d_value"} : pc' = [pc EXCEPT ![t] = q]
    BY <1>4 DEF DequeueCheck, Forward
  <2>4. pc[t] = "d_check2" /\ UNCHANGED <<list, closed, sawEmpty, node>>
    BY <1>4 DEF DequeueCheck, shared, history
  <2> QED BY <2>1, <2>2, <2>3, <2>4, StayRefines
<1>5. CASE ReadNode(t)
  <2>1. loc' = [loc EXCEPT ![t] = [loc[t] EXCEPT !.read = node[loc[t].head.pointer]]]
    BY <1>1, <1>5 DEF ReadNode
  <2>2. [loc[t] EXCEPT !.read = node[loc[t].head.pointer]].new = loc[t].new
    BY <1>1 DEF LocalsType
  <2> QED BY <1>5, <2>1, <2>2, StayRefines DEF ReadNode, Goto, shared, history
<1>6. CASE RereadNode(t)
  <2>1. loc' = [loc EXCEPT ![t] = [loc[t] EXCEPT !.read = NoLocals.read]]
    BY <1>1, <1>6 DEF RereadNode
  <2>2. [loc[t] EXCEPT !.read = NoLocals.read].new = loc[t].new
    BY <1>1 DEF LocalsType
  <2>3. PICK q \in {"d_help", "d_value", "d_head1"} : pc' = [pc EXCEPT ![t] = q]
    BY <1>6 DEF RereadNode, Forward
  <2>4. pc[t] = "d_same2" /\ UNCHANGED <<list, closed, sawEmpty, node>>
    BY <1>6 DEF RereadNode, shared, history
  <2> QED BY <2>1, <2>2, <2>3, <2>4, StayRefines
<1>7. CASE DequeueHelps(t)
  BY <1>2, <1>7, StayRefines DEF DequeueHelps, Goto, history
<1>8. CASE ReadValue(t)
  <2>1. loc' = [loc EXCEPT ![t] = [loc[t] EXCEPT !.value = node[loc[t].next.pointer].value]]
    BY <1>1, <1>8 DEF ReadValue
  <2>2. [loc[t] EXCEPT !.value = node[loc[t].next.pointer].value].new = loc[t].new
    BY <1>1 DEF LocalsType
  <2> QED BY <1>8, <2>1, <2>2, StayRefines DEF ReadValue, Goto, shared, history
<1> QED BY <1>3, <1>4, <1>5, <1>6, <1>7, <1>8

\* An operation of t leaves those of the others alone.
LEMMA OpsMove ==
  ASSUME NEW t \in Threads, NEW o, AbstractOp(t)' = o,
         \A u \in Threads : u # t => AbstractOp(u)' = AbstractOp(u)
  PROVE  Ops' = [Ops EXCEPT ![t] = o]
BY DEF Ops

\* A return frees at most a node that is neither listed nor entering.
LEMMA ReturnRefines ==
  ASSUME IInv, NEW t \in Threads, EnqueueReturns(t) \/ DequeueFails(t) \/ DequeueReturns(t)
  PROVE  Fifo!Return(t)
<1> USE DEF EnqueueLabels, DequeueLabels
<1>1. Shared /\ Typed /\ Owned /\ list \in Seq(Cells) /\ node \in [Cells -> NodeType]
  BY Types DEF IInv, Shared
<1>2. Return(t) /\ list' = list /\ closed' = closed /\ (sawEmpty' = sawEmpty \/ sawEmpty' = sawEmpty \ {t})
  BY DEF EnqueueReturns, DequeueFails, DequeueReturns, history
<1>3. /\ pc'[t] = "idle"
      /\ \A u \in Threads : u # t => pc'[u] = pc[u] /\ loc'[u] = loc[u]
  BY <1>1, <1>2, Types DEF Return
<1>4. \A c \in Cells : node'[c].value = node[c].value \/ c \in Leaving(t)
  BY <1>1 DEF EnqueueReturns, DequeueFails, DequeueReturns, Free, Leaving, shared, NodeType
<1>5. Queue' = Queue
  <2>1. \A i \in 1..Len(list) : list[i] \in Cells /\ list[i] \notin Leaving(t)
    BY <1>1 DEF Owned, Held, InList
  <2> QED BY <1>1, <1>2, <1>4, <2>1, QueueSame
<1>6. ASSUME NEW u \in Threads, u # t
      PROVE  AbstractOp(u)' = AbstractOp(u)
  <2>1. pc[u] \in EnqueueLabels \ {"e_swing"} => loc[u].new \in Cells /\ loc[u].new \notin Leaving(t)
    BY <1>1, <1>6, EnteringNode DEF Owned, Held
  <2>2. pc[u] \in Labels
    BY <1>1, Types
  <2> QED BY <1>2, <1>3, <1>4, <1>6, <2>1, <2>2, OthersOps
<1>7. Ops' = [Ops EXCEPT ![t] = Fifo!Idle]
  BY <1>3, <1>6, AbstractOpsNext, OpsMove
<1>8. Ops[t].kind \in {"enqueued", "dequeued"} \/ Ops[t] = Fifo!Dequeuing(TRUE)
  <2>1. Ops[t] = AbstractOp(t)
    BY DEF Ops
  <2>2. CASE EnqueueReturns(t)
    <3>1. AbstractOp(t) = Fifo!Enqueued
      BY <2>2, AbstractOps DEF EnqueueReturns
    <3> QED BY <2>1, <3>1 DEF Fifo!Enqueued
  <2>3. CASE DequeueReturns(t)
    <3>1. AbstractOp(t) = Fifo!Dequeued(loc[t].value)
      BY <2>3, AbstractOps DEF DequeueReturns
    <3> QED BY <2>1, <3>1 DEF Fifo!Dequeued
  <2>4. CASE DequeueFails(t)
    <3>1. t \in sawEmpty
      BY <2>4 DEF DequeueFails, IInv, ThreadInv, DequeueKnows
    <3>2. AbstractOp(t) = Fifo!Dequeuing(t \in sawEmpty)
      BY <2>4, AbstractOps DEF DequeueFails
    <3> QED BY <2>1, <3>1, <3>2
  <2> QED BY <2>2, <2>3, <2>4
<1> QED BY <1>2, <1>5, <1>7, <1>8 DEF Fifo!Return, Queue, ValuesOf, Ops

LEMMA CallEnqueueRefines ==
  ASSUME IInv, NEW t \in Threads, NEW v \in Values, CallEnqueue(t, v)
  PROVE  Fifo!CallEnqueue(t, v)
<1> USE DEF EnqueueLabels, DequeueLabels
<1>1. Typed /\ Owned /\ list \in Seq(Cells) /\ node \in [Cells -> NodeType] /\ loc \in [Threads -> LocalsType]
  BY Types DEF IInv, Shared
<1>2. UNCHANGED <<list, sawEmpty, closed>> /\ ~closed /\ pc[t] = "idle"
  BY DEF CallEnqueue, Goto, history
<1>3. PICK c \in Cells \ allocated :
        /\ \E k : node' = [node EXCEPT ![c] = [value |-> v, next |-> Pair(@.next.pointer, k)]]
        /\ loc' = [loc EXCEPT ![t].new = c]
  BY DEF CallEnqueue
<1>4. /\ pc'[t] = "e_null" /\ loc'[t].new = c /\ node'[c].value = v
      /\ \A u \in Threads : u # t => pc'[u] = pc[u] /\ loc'[u] = loc[u]
  BY <1>1, <1>3, Types DEF CallEnqueue, Goto, LocalsType
<1>5. \A d \in allocated : node'[d] = node[d]
  BY <1>1, <1>3 DEF Typed, TypeOK
<1>6. Queue' = Queue
  <2>1. \A i \in 1..Len(list) : list[i] \in allocated
    BY <1>1 DEF Owned
  <2> QED BY <1>1, <1>2, <1>5, <2>1, QueueSame
<1>7. \A u \in Threads : u # t => AbstractOp(u)' = AbstractOp(u)
  <2>1. \A u \in Threads : pc[u] \in Labels
    BY <1>1, Types
  <2> QED BY <1>2, <1>4, <1>5, <2>1, EnteringNode, OthersOps
<1>8. AbstractOp(t)' = Fifo!Enqueuing(v)
  BY <1>4, AbstractOpsNext
<1>9. Ops' = [Ops EXCEPT ![t] = Fifo!Enqueuing(v)]
  BY <1>7, <1>8, OpsMove
<1>10. Ops[t] = Fifo!Idle
  BY <1>2, AbstractOps DEF Ops
<1> QED BY <1>2, <1>6, <1>9, <1>10 DEF Fifo!CallEnqueue, Queue, ValuesOf, Ops

\* A call sees the queue empty if it is.
LEMMA CallDequeueRefines ==
  ASSUME IInv, Seen, NEW t \in Threads, CallDequeue(t)
  PROVE  Fifo!CallDequeue(t)
<1> USE DEF EnqueueLabels, DequeueLabels
<1>1. Typed /\ list \in Seq(Cells)
  BY Types DEF IInv, Shared
<1>2. /\ UNCHANGED <<node, loc, list, closed>> /\ ~closed /\ pc[t] = "idle"
      /\ sawEmpty' = IF Empty THEN sawEmpty \cup {t} ELSE sawEmpty
  BY DEF CallDequeue, Goto, shared
<1>3. /\ pc'[t] = "d_head1"
      /\ \A u \in Threads : u # t => pc'[u] = pc[u] /\ loc'[u] = loc[u]
  BY <1>1, <1>2, Types DEF CallDequeue, Goto
<1>4. Queue' = Queue
  BY <1>1, <1>2, QueueSame
<1>5. t \in sawEmpty' <=> Queue = <<>>
  <2>1. t \notin sawEmpty
    BY <1>2 DEF Seen
  <2>2. list # <<>>
    BY <1>2 DEF IInv, Shared, Open
  <2>3. Queue = <<>> <=> Len(list) = 1
    BY <1>1, <2>2, QueueEmpty
  <2> QED BY <1>2, <2>1, <2>3 DEF Empty
<1>6. \A u \in Threads : u # t => AbstractOp(u)' = AbstractOp(u)
  <2>1. \A u \in Threads : pc[u] \in Labels
    BY <1>1, Types
  <2> QED BY <1>2, <1>3, <2>1, OthersOps
<1>7. AbstractOp(t)' = Fifo!Dequeuing(Queue = <<>>)
  <2>1. AbstractOp(t)' = Fifo!Dequeuing(t \in sawEmpty')
    BY <1>3, AbstractOpsNext
  <2>2. CASE Queue = <<>>
    BY <1>5, <2>1, <2>2 DEF Fifo!Dequeuing
  <2>3. CASE Queue # <<>>
    BY <1>5, <2>1, <2>3 DEF Fifo!Dequeuing
  <2> QED BY <2>2, <2>3
<1>8. Ops' = [Ops EXCEPT ![t] = Fifo!Dequeuing(Queue = <<>>)]
  BY <1>6, <1>7, OpsMove
<1>9. Ops[t] = Fifo!Idle
  BY <1>2, AbstractOps DEF Ops
<1> QED BY <1>2, <1>4, <1>8, <1>9 DEF Fifo!CallDequeue, Queue, ValuesOf, Ops

\* The successful cas behind the last node is the moment of an enqueue.
LEMMA LinkRefines ==
  ASSUME IInv, IInv', NEW t \in Threads, Link(t)
  PROVE  Fifo!Enqueue(t) \/ UNCHANGED Fifo!vars
<1> USE DEF EnqueueLabels, DequeueLabels
<1> DEFINE last == loc[t].tail.pointer
           new == loc[t].new
<1>1. /\ Typed /\ list \in Seq(Cells) /\ node \in [Cells -> NodeType] /\ loc \in [Threads -> LocalsType]
      /\ list # <<>>
  BY Types, InCall DEF IInv, Shared, Link
<1>2. UNCHANGED <<loc, sawEmpty, closed>> /\ pc[t] = "e_link"
  BY DEF Link
<1>3. new \in Cells /\ new \in allocated /\ last \in Cells
  BY <1>2, EnteringNode DEF IInv, ThreadInv, TailKnown, TailRead, TailCounterRead
<1>4. CASE node[last].next # loc[t].next
  <2>1. pc' = [pc EXCEPT ![t] = "e_tail1"] /\ UNCHANGED <<node, list>>
    BY <1>4 DEF Link
  <2>2. loc' = [loc EXCEPT ![t] = loc[t]]
    BY <1>1, <1>2
  <2> QED BY <1>2, <2>1, <2>2, StayRefines
<1>5. CASE node[last].next = loc[t].next
  <2>1. /\ node' = [node EXCEPT ![last].next = Incremented(loc[t].next, new)]
        /\ list' = Append(list, new)
        /\ pc' = [pc EXCEPT ![t] = "e_swing"]
    BY <1>5 DEF Link
  <2>2. node' \in [Cells -> NodeType]
    BY TypesNext DEF IInv, Shared
  <2>3. \A c \in Cells : node'[c].value = node[c].value
    BY <1>1, <1>3, <2>1 DEF NodeType
  <2>4. pc'[t] = "e_swing" /\ \A u \in Threads : u # t => pc'[u] = pc[u]
    BY <1>1, <2>1, Types
  <2>5. Queue' = Append(Queue, node[new].value)
    <3>1. \A i \in 1..Len(list) : list[i] \in Cells
      BY <1>1
    <3>2. ValuesOf(Append(list, new), node') = Append(ValuesOf(list, node), node'[new].value)
      BY <1>1, <1>3, <2>2, <2>3, <3>1, ValuesOfAppend
    <3> QED BY <1>3, <2>1, <2>3, <3>2 DEF Queue
  <2>6. \A u \in Threads : u # t => AbstractOp(u)' = AbstractOp(u)
    <3>1. \A u \in Threads : pc[u] \in Labels
      BY <1>1, Types
    <3> QED BY <1>2, <2>3, <2>4, <3>1, EnteringNode, OthersOps
  <2>7. Ops' = [Ops EXCEPT ![t] = Fifo!Enqueued]
    BY <2>4, <2>6, AbstractOpsNext, OpsMove
  <2>8. Ops[t] = Fifo!Enqueuing(node[new].value)
    BY <1>2, AbstractOps DEF Ops
  <2>9. Ops[t].kind = "enqueuing" /\ Ops[t].value = node[new].value
    BY <2>8 DEF Fifo!Enqueuing
  <2> QED BY <1>2, <2>5, <2>7, <2>9 DEF Fifo!Enqueue, Queue, ValuesOf, Ops
<1> QED BY <1>4, <1>5

\* The successful cas on the head is the moment of a dequeue: the value read
\* before is the first in the queue.
LEMMA SwingHeadRefines ==
  ASSUME IInv, IInv', NEW t \in Threads, SwingHead(t)
  PROVE  Fifo!Dequeue(t) \/ UNCHANGED Fifo!vars
<1> USE DEF EnqueueLabels, DequeueLabels
<1>1. /\ Typed /\ list \in Seq(Cells) /\ node \in [Cells -> NodeType] /\ loc \in [Threads -> LocalsType]
      /\ list # <<>> /\ Len(list) \in Nat
  BY Types, InCall DEF IInv, Shared, SwingHead
<1>2. UNCHANGED <<node, loc, closed>> /\ pc[t] = "d_swing"
  BY DEF SwingHead
<1>3. CASE head # loc[t].head
  <2>1. pc' = [pc EXCEPT ![t] = "d_head1"] /\ UNCHANGED <<list, sawEmpty>>
    BY <1>3 DEF SwingHead, history
  <2>2. loc' = [loc EXCEPT ![t] = loc[t]]
    BY <1>1, <1>2
  <2> QED BY <1>2, <2>1, <2>2, StayRefines
<1>4. CASE head = loc[t].head
  <2>1. /\ list' = Tail(list)
        /\ sawEmpty' = (IF Len(list) = 2 THEN Dequeuers ELSE sawEmpty) \ {t}
        /\ pc' = [pc EXCEPT ![t] = "d_free"]
    BY <1>4 DEF SwingHead
  <2>2. pc'[t] = "d_free" /\ \A u \in Threads : u # t => pc'[u] = pc[u]
    BY <1>1, <2>1, Types
  <2>3. Len(list) >= 2 /\ loc[t].value = node[list[2]].value
    <3>1. HeadFresh(t)
      BY <1>4 DEF HeadFresh
    <3> QED BY <1>2, <3>1 DEF IInv, ThreadInv, DequeueKnows, NextKnown
  <2>4. Queue' = Tail(Queue) /\ Head(Queue) = loc[t].value
    <3>1. ValuesOf(Tail(list), node) = Tail(ValuesOf(list, node))
          /\ Head(ValuesOf(list, node)) = node[list[2]].value
      BY <1>1, <2>3, ValuesOfTail
    <3> QED BY <1>2, <2>1, <2>3, <3>1 DEF Queue
  <2>5. Queue # <<>> /\ (Len(Queue) = 1 <=> Len(list) = 2)
    <3>1. Queue \in Seq(Values \cup {GARBAGE}) /\ Len(Queue) = Len(list) - 1
      BY <1>1, ValuesOfFacts DEF Queue
    <3> QED BY <1>1, <2>3, <3>1
  <2>6. ASSUME NEW u \in Threads, u # t
        PROVE  AbstractOp(u)' = IF AbstractOp(u).kind = "dequeuing" /\ Len(Queue) = 1
                                THEN Fifo!Dequeuing(TRUE) ELSE AbstractOp(u)
    <3>1. pc[u] \in Labels /\ pc'[u] = pc[u] /\ loc'[u] = loc[u]
      BY <1>1, <1>2, <2>2, <2>6, Types
    <3>2. CASE pc[u] \in DequeueLabels
      <4>1. AbstractOp(u) = Fifo!Dequeuing(u \in sawEmpty)
            /\ AbstractOp(u)' = Fifo!Dequeuing(u \in sawEmpty')
        BY <3>1, <3>2, AbstractOps, AbstractOpsNext
      <4>2. AbstractOp(u).kind = "dequeuing"
        BY <4>1 DEF Fifo!Dequeuing
      <4>3. CASE Len(list) = 2
        <5>1. u \in sawEmpty'
          BY <2>1, <2>6, <3>2, <4>3 DEF Dequeuers
        <5> QED BY <2>5, <4>1, <4>2, <4>3, <5>1 DEF Fifo!Dequeuing
      <4>4. CASE Len(list) # 2
        <5>1. u \in sawEmpty' <=> u \in sawEmpty
          BY <2>1, <2>6, <4>4
        <5>2. AbstractOp(u)' = AbstractOp(u)
          BY <1>2, <3>1, <5>1, OthersOps
        <5> QED BY <2>5, <4>4, <5>2
      <4> QED BY <4>3, <4>4
    <3>3. CASE pc[u] \notin DequeueLabels
      <4>1. AbstractOp(u)' = AbstractOp(u)
        BY <1>2, <3>1, <3>3, OthersOps
      <4>2. AbstractOp(u) \in {Fifo!Idle, Fifo!Enqueued, Fifo!Dequeued(loc[u].value),
                               Fifo!Enqueuing(node[loc[u].new].value)}
        BY <3>1, <3>3, AbstractOps DEF Labels
      <4>3. AbstractOp(u).kind # "dequeuing"
        BY <4>2 DEF Fifo!Idle, Fifo!Enqueued, Fifo!Dequeued, Fifo!Enqueuing
      <4> QED BY <4>1, <4>3
    <3> QED BY <3>2, <3>3
  <2>7. AbstractOp(t)' = Fifo!Dequeued(Head(Queue)) /\ Ops[t].kind = "dequeuing"
    <3>1. AbstractOp(t)' = Fifo!Dequeued(loc[t].value)
      BY <1>2, <2>2, AbstractOpsNext
    <3>2. AbstractOp(t) = Fifo!Dequeuing(t \in sawEmpty)
      BY <1>2, AbstractOps
    <3> QED BY <2>4, <3>1, <3>2 DEF Ops, Fifo!Dequeuing
  <2>8. Ops' = [u \in Threads |->
                  IF u = t THEN Fifo!Dequeued(Head(Queue))
                  ELSE IF Ops[u].kind = "dequeuing" /\ Len(Queue) = 1 THEN Fifo!Dequeuing(TRUE)
                  ELSE Ops[u]]
    BY <2>6, <2>7 DEF Ops
  <2> QED BY <1>2, <2>4, <2>5, <2>7, <2>8 DEF Fifo!Dequeue, Queue, ValuesOf, Ops
<1> QED BY <1>3, <1>4

\* An iteration of destroy throws the first value away, if there is one.
LEMMA DestroyRefines ==
  ASSUME IInv, IInv', Destroy
  PROVE  Fifo!Destroy
<1>1. Typed /\ Chain /\ list \in Seq(Cells) /\ node \in [Cells -> NodeType]
  BY Types DEF IInv, Shared
<1>2. /\ \A t \in Threads : pc[t] = "idle" /\ pc'[t] = "idle"
      /\ closed' = TRUE /\ list' = Tail(list) /\ head.pointer # NULL
      /\ node' = [node EXCEPT ![head.pointer].value = GARBAGE]
  BY DEF Destroy, Free
<1>3. list # <<>> /\ head.pointer = list[1] /\ Len(list) \in Nat \ {0}
  BY <1>1, <1>2 DEF Chain
<1>4. node' \in [Cells -> NodeType] /\ list' \in Seq(Cells)
  BY TypesNext DEF IInv, Shared
<1>5. (Queue' = Tail(Queue) /\ Queue # <<>>) \/ Queue' = <<>>
  <2>0. \A n \in Nat \ {0} : (n = 1 \/ n >= 2) /\ (n >= 2 => n # 1)
    OBVIOUS
  <2>1. CASE Len(list) >= 2
    <3>1. ASSUME NEW i \in 2..Len(list)
          PROVE  node'[list[i]].value = node[list[i]].value
      <4>1. i \in 1..Len(list) /\ 1 \in 1..Len(list) /\ i # 1
        BY <1>3
      <4>2. list[i] \in Cells /\ list[i] # list[1]
        BY <1>1, <4>1 DEF Chain
      <4> QED BY <1>1, <1>2, <1>3, <4>2
    <3>2. ValuesOf(Tail(list), node') = Tail(ValuesOf(list, node))
      BY <1>1, <1>4, <2>1, <3>1, ValuesOfTail
    <3>3. Queue # <<>>
      <4>1. Queue = <<>> <=> Len(list) = 1
        BY <1>1, <1>3, QueueEmpty
      <4>2. Len(list) # 1
        BY <1>3, <2>0, <2>1, Zenon
      <4> QED BY <4>1, <4>2, Zenon
    <3> QED BY <1>2, <3>2, <3>3 DEF Queue
  <2>2. CASE Len(list) = 1
    <3>1. Len(list') = 0
      BY <1>1, <1>2, <1>3, <2>2
    <3> QED BY <3>1 DEF Queue, ValuesOf
  <2>3. Len(list) = 1 \/ Len(list) >= 2
    BY <1>3, <2>0, Zenon
  <2> QED BY <2>1, <2>2, <2>3, Zenon
<1>6. Ops' = Ops /\ \A t \in Threads : Ops[t] = Fifo!Idle
  BY <1>2, AbstractOps, AbstractOpsNext DEF Ops
<1> QED BY <1>2, <1>5, <1>6 DEF Fifo!Destroy, Queue, ValuesOf, Ops

LEMMA InitRefines == Init => Fifo!Init
<1> SUFFICES ASSUME Init PROVE Fifo!Init
  OBVIOUS
<1>1. PICK c \in Cells : list = <<c>>
  BY DEF Init
<1>2. Queue = <<>>
  BY <1>1 DEF Queue, ValuesOf
<1>3. closed = FALSE /\ \A t \in Threads : pc[t] = "idle"
  BY DEF Init
<1>4. Ops = [t \in Threads |-> Fifo!Idle]
  BY <1>3, AbstractOps DEF Ops
<1> QED BY <1>2, <1>3, <1>4 DEF Fifo!Init, Queue, ValuesOf, Ops

LEMMA NextRefines ==
  ASSUME IInv, IInv', Seen, [Next]_vars
  PROVE  [Fifo!Next]_(Fifo!vars)
<1>1. ASSUME NEW t \in Threads, Step(t)
      PROVE  [Fifo!Next]_(Fifo!vars)
  <2>1. CASE StoreNull(t) \/ EnqueueReads(t) \/ EnqueueCheck(t) \/ EnqueueHelps(t)
    BY <2>1, EnqueueStutters
  <2>2. CASE \/ DequeueReads(t) \/ DequeueCheck(t) \/ ReadNode(t) \/ RereadNode(t)
             \/ DequeueHelps(t) \/ ReadValue(t)
    BY <2>2, DequeueStutters
  <2>3. CASE EnqueueReturns(t) \/ DequeueFails(t) \/ DequeueReturns(t)
    BY <2>3, ReturnRefines DEF Fifo!Next
  <2>4. CASE Link(t)
    BY <2>4, LinkRefines DEF Fifo!Next
  <2>5. CASE SwingHead(t)
    BY <2>5, SwingHeadRefines DEF Fifo!Next
  <2> QED BY <1>1, <2>1, <2>2, <2>3, <2>4, <2>5 DEF Step
<1>2. ASSUME NEW t \in Threads, CallDequeue(t)
      PROVE  Fifo!Next
  BY <1>2, CallDequeueRefines DEF Fifo!Next
<1>3. ASSUME NEW t \in Threads, NEW v \in Values, CallEnqueue(t, v)
      PROVE  Fifo!Next
  BY <1>3, CallEnqueueRefines DEF Fifo!Next
<1>4. ASSUME Destroy
      PROVE  Fifo!Next
  BY <1>4, DestroyRefines DEF Fifo!Next
<1>5. CASE UNCHANGED vars
  BY <1>5 DEF vars, shared, history, Fifo!vars, AbstractOp
<1> QED BY <1>1, <1>2, <1>3, <1>4, <1>5 DEF Next, Destroyed

\* Every behaviour of queue.c is one of a concurrent first-in first-out queue:
\* what is enqueued is dequeued once, in the order in which the nodes were
\* linked, and DEQUEUE_FAIL is only returned by a call during which the queue was
\* empty (queue.c, enqueue and dequeue).
THEOREM QueueRefinement ==
  ASSUME KeepsBytes
  PROVE  Spec => ImplementsFifoQueue
<1>1. Init => Seen
  BY DEF Init, Seen
<1>2. Typed /\ Seen /\ [Next]_vars => Seen'
  BY NextSeen
<1>3. IInv => Typed
  BY DEF IInv, Shared
<1>4. IInv /\ IInv' /\ Seen /\ [Next]_vars => [Fifo!Next]_(Fifo!vars)
  BY NextRefines
<1> QED BY <1>1, <1>2, <1>3, <1>4, InitRefines, QueueInvariant, PTL
        DEF Spec, ImplementsFifoQueue, Fifo!Spec
=============================================================================
