--------------------------- MODULE LockFreeQueue ---------------------------
(***************************************************************************)
(* queue.c: enqueue and dequeue by threads that share nothing but memory   *)
(* and compare-and-swap.  A pointer_t is read with two loads: g++ without  *)
(* optimisation, as the Makefile calls it, loads the counter first.  Each  *)
(* load of shared memory, each store and each cas is a step, but the two   *)
(* words that equalchecker reads through the same pointer are read at once *)
(* (twice): a torn pair there compares unequal, and so it does if the      *)
(* write falls between the two reads.  malloc takes any free cell, so      *)
(* memory is reused at once.                                               *)
(***************************************************************************)
EXTENDS Integers, Sequences, FiniteSets

CONSTANTS
  Threads,
  Cells,         \* the nodes malloc can return
  Values,        \* what is enqueued; DEQUEUE_FAIL is not
  NULL, GARBAGE, \* no node, and the value of a node never written or freed
  OPS,           \* bound: how many calls each thread makes
  KeepsBytes,    \* does malloc return a node's counter as it was when freed?
  Fair           \* the threads that the scheduler lets run

ASSUME QueueAssumption ==
  /\ NULL \notin Cells /\ GARBAGE \notin Values
  /\ OPS \in [Threads -> Nat]
  /\ KeepsBytes \in BOOLEAN
  /\ Fair \subseteq Threads

VARIABLES
  head, tail,   \* queue_t
  node,         \* memory: each cell's value and next
  allocated,    \* the cells malloc has given out
  pc,
  loc,          \* each thread's locals
  calls,        \* how many calls each thread has made
  list,         \* history: the cells linked into the queue, the dummy first
  sawEmpty,     \* history: the dequeues during which the queue has been empty
  closed        \* destroy has begun

shared == <<head, tail, node, allocated>>
history == <<list, sawEmpty>>
vars == <<shared, pc, loc, calls, history, closed>>

Pair(p, c) == [pointer |-> p, counter |-> c]
Nowhere == Pair(NULL, 0)

\* the locals node, dummy_head, tail and next, the second copy that a check
\* reads, what equalchecker has read, and return_val
NoLocals == [new |-> NULL, head |-> Nowhere, tail |-> Nowhere, next |-> Nowhere,
             again |-> Nowhere, read |-> [value |-> GARBAGE, next |-> Nowhere],
             value |-> GARBAGE]

\* initialize: one dummy node
Init ==
  /\ \E c \in Cells : /\ head = Pair(c, 0)
                      /\ allocated = {c}
                      /\ list = <<c>>
  /\ tail = head
  /\ node = [c \in Cells |-> [value |-> GARBAGE, next |-> Nowhere]]
  /\ pc = [t \in Threads |-> "idle"]
  /\ loc = [t \in Threads |-> NoLocals]
  /\ calls = [t \in Threads |-> 0]
  /\ sawEmpty = {}
  /\ closed = FALSE

-----------------------------------------------------------------------------
Goto(t, from, to) == pc[t] = from /\ pc' = [pc EXCEPT ![t] = to]

\* The two loads of a pointer_t into one of t's locals
LoadCounter(t, field, src) == loc' = [loc EXCEPT ![t][field].counter = src.counter]
LoadPointer(t, field, src) == loc' = [loc EXCEPT ![t][field].pointer = src.pointer]

\* checkequals
checkequals(a, b) == a = b \/ (a.pointer = NULL /\ b.pointer = NULL)

\* A thread reads the pointer_t src into a local between two labels.
Read(t, field, src, counter, pointer, next) ==
  \/ Goto(t, counter, pointer) /\ LoadCounter(t, field, src)
  \/ Goto(t, pointer, next) /\ LoadPointer(t, field, src)

\* Faulty variant: the counter stays the same.
IncrementedNot(old, new) == Pair(new, old.counter)

\* What update_and_increment stores
Incremented(old, new) == Pair(new, old.counter + 1)

\* A call returns.
Return(t) ==
  /\ pc' = [pc EXCEPT ![t] = "idle"]
  /\ loc' = [loc EXCEPT ![t] = NoLocals]

-----------------------------------------------------------------------------
\* enqueue(v): malloc and the store of the value.  The counter is not written:
\* what it is depends on malloc.
CallEnqueue(t, v) ==
  /\ ~closed
  /\ calls[t] < OPS[t]
  /\ calls' = [calls EXCEPT ![t] = @ + 1]
  /\ Goto(t, "idle", "e_null")
  /\ \E c \in Cells \ allocated :
     \E k \in {node[c].next.counter} \cup (IF KeepsBytes THEN {} ELSE {0}) :
       /\ node' = [node EXCEPT ![c] = [value |-> v, next |-> Pair(@.next.pointer, k)]]
       /\ allocated' = allocated \cup {c}
       /\ loc' = [loc EXCEPT ![t].new = c]
  /\ UNCHANGED <<head, tail, history, closed>>

\* node->next.pointer = NULL
StoreNull(t) ==
  /\ Goto(t, "e_null", "e_tail1")
  /\ node' = [node EXCEPT ![loc[t].new].next.pointer = NULL]
  /\ UNCHANGED <<head, tail, allocated, loc, calls, history, closed>>

EnqueueReads(t) ==
  /\ \/ Read(t, "tail", tail, "e_tail1", "e_tail2", "e_next1")
     \/ Read(t, "next", node[loc[t].tail.pointer].next, "e_next1", "e_next2", "e_check1")
     \/ Goto(t, "e_check1", "e_check2") /\ LoadCounter(t, "again", tail)
  /\ UNCHANGED <<shared, calls, history, closed>>

\* The tail is read again and compared; what to do next depends on next.
EnqueueCheck(t) ==
  LET again == [loc[t].again EXCEPT !.pointer = tail.pointer]
  IN /\ pc[t] = "e_check2"
     /\ pc' = [pc EXCEPT ![t] = IF ~checkequals(loc[t].tail, again) THEN "e_tail1"
                                ELSE IF loc[t].next.pointer = NULL THEN "e_link"
                                ELSE "e_help"]
     /\ loc' = [loc EXCEPT ![t].again = Nowhere]
     /\ UNCHANGED <<shared, calls, history, closed>>

\* The cas that links the node behind the last one
Link(t) ==
  LET last == loc[t].tail.pointer IN
  /\ pc[t] = "e_link"
  /\ IF node[last].next = loc[t].next
     THEN /\ node' = [node EXCEPT ![last].next = Incremented(loc[t].next, loc[t].new)]
          /\ list' = Append(list, loc[t].new)
          /\ pc' = [pc EXCEPT ![t] = "e_swing"]
     ELSE /\ pc' = [pc EXCEPT ![t] = "e_tail1"]
          /\ UNCHANGED <<node, list>>
  /\ UNCHANGED <<head, tail, allocated, loc, calls, sawEmpty, closed>>

\* Faulty variant: a plain store instead of the cas
SwingTailBlindly(t, p) == tail' = Incremented(loc[t].tail, p)

\* The cas that moves the tail on from what t read to p
SwingTail(t, p) ==
  tail' = IF tail = loc[t].tail THEN Incremented(loc[t].tail, p) ELSE tail

\* Faulty variant: it waits for the other thread to do so.
EnqueueHelpsNot(t) ==
  /\ Goto(t, "e_help", "e_tail1")
  /\ UNCHANGED <<shared, loc, calls, history, closed>>

\* Another thread has linked a node: its tail update is done for it.
EnqueueHelps(t) ==
  /\ Goto(t, "e_help", "e_tail1")
  /\ SwingTail(t, loc[t].next.pointer)
  /\ UNCHANGED <<head, node, allocated, loc, calls, history, closed>>

EnqueueReturns(t) ==
  /\ pc[t] = "e_swing"
  /\ SwingTail(t, loc[t].new)
  /\ Return(t)
  /\ UNCHANGED <<head, node, allocated, calls, history, closed>>

-----------------------------------------------------------------------------
Empty == Len(list) = 1

\* dequeue()
CallDequeue(t) ==
  /\ ~closed
  /\ calls[t] < OPS[t]
  /\ calls' = [calls EXCEPT ![t] = @ + 1]
  /\ Goto(t, "idle", "d_head1")
  /\ sawEmpty' = IF Empty THEN sawEmpty \cup {t} ELSE sawEmpty
  /\ UNCHANGED <<shared, loc, list, closed>>

DequeueReads(t) ==
  /\ \/ Read(t, "head", head, "d_head1", "d_head2", "d_tail1")
     \/ Read(t, "tail", tail, "d_tail1", "d_tail2", "d_next1")
     \/ Read(t, "next", node[loc[t].head.pointer].next, "d_next1", "d_next2", "d_check1")
     \/ Goto(t, "d_check1", "d_check2") /\ LoadCounter(t, "again", head)
  /\ UNCHANGED <<shared, calls, history, closed>>

\* Where dequeue goes on when head and tail are found different (line 264)
Forward(t) == IF loc[t].next.pointer # NULL THEN "d_value" ELSE "d_head1"

\* The head is read again and compared, and then the two node pointers.
DequeueCheck(t) ==
  LET again == [loc[t].again EXCEPT !.pointer = head.pointer]
  IN /\ pc[t] = "d_check2"
     /\ pc' = [pc EXCEPT ![t] = IF ~checkequals(loc[t].head, again) THEN "d_head1"
                                ELSE IF loc[t].head.pointer = loc[t].tail.pointer THEN "d_same1"
                                ELSE Forward(t)]
     /\ loc' = [loc EXCEPT ![t].again = Nowhere]
     /\ UNCHANGED <<shared, calls, history, closed>>

\* equalchecker, when both point to the same node: it compares what it reads
\* through the one with what it reads through the other.
ReadNode(t) ==
  /\ Goto(t, "d_same1", "d_same2")
  /\ loc' = [loc EXCEPT ![t].read = node[loc[t].head.pointer]]
  /\ UNCHANGED <<shared, calls, history, closed>>

SameNode(t) ==
  LET read == node[loc[t].head.pointer]
  IN read.value = loc[t].read.value /\ checkequals(loc[t].read.next, read.next)

\* Faulty variant: the queue is taken for empty as soon as head and tail agree.
DequeueFailsOnTail(t) ==
  /\ pc[t] = "d_same2"
  /\ SameNode(t)
  /\ Return(t)
  /\ sawEmpty' = sawEmpty \ {t}
  /\ UNCHANGED <<shared, calls, list, closed>>

\* The queue is empty: DEQUEUE_FAIL.
DequeueFails(t) ==
  /\ pc[t] = "d_same2"
  /\ SameNode(t)
  /\ loc[t].next.pointer = NULL
  /\ Return(t)
  /\ sawEmpty' = sawEmpty \ {t}
  /\ UNCHANGED <<shared, calls, list, closed>>

RereadNode(t) ==
  /\ pc[t] = "d_same2"
  /\ ~(SameNode(t) /\ loc[t].next.pointer = NULL)
  /\ pc' = [pc EXCEPT ![t] = IF SameNode(t) THEN "d_help" ELSE Forward(t)]
  /\ loc' = [loc EXCEPT ![t].read = NoLocals.read]
  /\ UNCHANGED <<shared, calls, history, closed>>

DequeueHelps(t) ==
  /\ Goto(t, "d_help", "d_head1")
  /\ SwingTail(t, loc[t].next.pointer)
  /\ UNCHANGED <<head, node, allocated, loc, calls, history, closed>>

\* return_val = next.pointer->value
ReadValue(t) ==
  /\ Goto(t, "d_value", "d_swing")
  /\ loc' = [loc EXCEPT ![t].value = node[loc[t].next.pointer].value]
  /\ UNCHANGED <<shared, calls, history, closed>>

Dequeuers == {t \in Threads : pc[t] \notin {"idle", "d_free", "e_null", "e_tail1", "e_tail2",
                "e_next1", "e_next2", "e_check1", "e_check2", "e_link", "e_help", "e_swing"}}

\* Faulty variant: what the cas returns is ignored.
SwingHeadOrNot(t) ==
  /\ Goto(t, "d_swing", "d_free")
  /\ IF head = loc[t].head
     THEN /\ head' = Incremented(loc[t].head, loc[t].next.pointer)
          /\ list' = Tail(list)
          /\ sawEmpty' = (IF Len(list) = 2 THEN Dequeuers ELSE sawEmpty) \ {t}
     ELSE UNCHANGED <<head, history>>
  /\ UNCHANGED <<tail, node, allocated, loc, calls, closed>>

\* The cas that makes the next node the dummy
SwingHead(t) ==
  /\ pc[t] = "d_swing"
  /\ IF head = loc[t].head
     THEN /\ head' = Incremented(loc[t].head, loc[t].next.pointer)
          /\ list' = Tail(list)
          /\ sawEmpty' = (IF Len(list) = 2 THEN Dequeuers ELSE sawEmpty) \ {t}
          /\ pc' = [pc EXCEPT ![t] = "d_free"]
     ELSE /\ pc' = [pc EXCEPT ![t] = "d_head1"]
          /\ UNCHANGED <<head, history>>
  /\ UNCHANGED <<tail, node, allocated, loc, calls, closed>>

\* free(p) overwrites the value, and keeps the second half of the node.
Free(p) ==
  /\ allocated' = allocated \ {p}
  /\ node' = [node EXCEPT ![p].value = GARBAGE]

\* Faulty variant: the old dummy is not freed.
DequeueReturnsOnly(t) ==
  /\ pc[t] = "d_free"
  /\ Return(t)
  /\ UNCHANGED <<shared, calls, history, closed>>

DequeueReturns(t) ==
  /\ pc[t] = "d_free"
  /\ Free(loc[t].head.pointer)
  /\ Return(t)
  /\ UNCHANGED <<head, tail, calls, history, closed>>

-----------------------------------------------------------------------------
\* One iteration of destroy, once all threads have been joined
Destroy ==
  /\ \A t \in Threads : pc[t] = "idle"
  /\ head.pointer # NULL
  /\ closed' = TRUE
  /\ Free(head.pointer)
  /\ head' = node[head.pointer].next
  /\ list' = Tail(list)
  /\ UNCHANGED <<tail, pc, loc, calls, sawEmpty>>

Step(t) ==
  \/ StoreNull(t) \/ EnqueueReads(t) \/ EnqueueCheck(t) \/ Link(t)
  \/ EnqueueHelps(t) \/ EnqueueReturns(t)
  \/ DequeueReads(t) \/ DequeueCheck(t) \/ ReadNode(t) \/ DequeueFails(t) \/ RereadNode(t)
  \/ DequeueHelps(t) \/ ReadValue(t) \/ SwingHead(t) \/ DequeueReturns(t)

Destroyed == closed /\ head.pointer = NULL /\ UNCHANGED vars

Next ==
  \/ \E t \in Threads : Step(t) \/ CallDequeue(t) \/ \E v \in Values : CallEnqueue(t, v)
  \/ Destroy
  \/ Destroyed

\* The threads in Fair are scheduled again and again; the others may stop
\* anywhere, for ever.
Spec == Init /\ [][Next]_vars /\ \A t \in Fair : WF_vars(Step(t))

-----------------------------------------------------------------------------
PairType == [pointer : Cells \cup {NULL}, counter : Nat]
NodeType == [value : Values \cup {GARBAGE}, next : PairType]

TypeOK ==
  /\ head \in PairType /\ tail \in PairType
  /\ node \in [Cells -> NodeType]
  /\ allocated \subseteq Cells
  /\ loc \in [Threads -> [new : Cells \cup {NULL}, head : PairType, tail : PairType,
                          next : PairType, again : PairType, read : NodeType,
                          value : Values \cup {GARBAGE}]]
  /\ calls \in [Threads -> Nat] /\ \A t \in Threads : calls[t] <= OPS[t]
  /\ list \in Seq(Cells)
  /\ sawEmpty \subseteq Threads
  /\ closed \in BOOLEAN

Listed == {list[i] : i \in 1..Len(list)}

\* In memory the queue is what the successful cas made it: a chain of distinct
\* nodes from the dummy to the last one, behind which there is nothing, and the
\* tail is at most one node behind.
ListLinked ==
  /\ TypeOK
  /\ ~closed =>
       /\ head.pointer = list[1]
       /\ \A i, j \in 1..Len(list) : i # j => list[i] # list[j]
       /\ \A i \in 1..Len(list) :
            node[list[i]].next.pointer = IF i = Len(list) THEN NULL ELSE list[i + 1]
       /\ \E i \in 1..Len(list) : i >= Len(list) - 1 /\ tail.pointer = list[i]

\* The nodes malloc has given out and not got back are those in the queue, those
\* on their way in, and those on their way out: none leaks, none is freed twice,
\* and no thread has one that another thread or the queue uses.
Entering(t) == IF pc[t] \in {"idle", "e_swing"} THEN {} ELSE {loc[t].new} \ {NULL}
Leaving(t) == IF pc[t] = "d_free" THEN {loc[t].head.pointer} ELSE {}
NodesAccountedFor ==
  ~closed =>
    LET held(t) == Entering(t) \cup Leaving(t)
    IN /\ allocated = Listed \cup UNION {held(t) : t \in Threads}
       /\ \A t \in Threads : held(t) \cap Listed = {}
       /\ \A t, u \in Threads : t # u => held(t) \cap held(u) = {}

\* A cas on a node's next succeeds only if the node is the last of the queue:
\* "if other threads change the pointer in the meantime, even if they reset to
\* its original value we'll still get a cas failure" (README.md:57-60).
LinksBehindLast ==
  \A t \in Threads :
    pc[t] = "e_link" /\ node[loc[t].tail.pointer].next = loc[t].next =>
      loc[t].tail.pointer = list[Len(list)]

\* destroy frees every node that is left (queue.h:34).
DestroyFreesAll == head.pointer = NULL => allocated = {}

\* A thread that keeps running returns from its calls wherever the others stand
\* still: "none of them need to wait" (README.md:5).
CallsReturn == \A t \in Fair : pc[t] # "idle" ~> pc[t] = "idle"

\* Linearizability: an enqueue takes effect when its node is linked, a dequeue
\* when the head moves.
AbstractOp(t) ==
  CASE pc[t] = "idle" -> [kind |-> "idle"]
    [] pc[t] \in {"e_null", "e_tail1", "e_tail2", "e_next1", "e_next2", "e_check1",
                  "e_check2", "e_link", "e_help"} ->
         [kind |-> "enqueuing", value |-> node[loc[t].new].value]
    [] pc[t] = "e_swing" -> [kind |-> "enqueued"]
    [] pc[t] = "d_free" -> [kind |-> "dequeued", value |-> loc[t].value]
    [] OTHER -> [kind |-> "dequeuing", sawEmpty |-> t \in sawEmpty]

Fifo == INSTANCE FifoQueue WITH
          queue <- [i \in 1..(Len(list) - 1) |-> node[list[i + 1]].value],
          op <- [t \in Threads |-> AbstractOp(t)]
ImplementsFifoQueue == Fifo!Spec
=============================================================================
