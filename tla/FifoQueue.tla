----------------------------- MODULE FifoQueue -----------------------------
(***************************************************************************)
(* What a concurrent queue promises: every enqueue and every dequeue takes *)
(* effect at one moment between its call and its return, in first-in       *)
(* first-out order, and a dequeue may fail if the queue was empty at some  *)
(* moment of the call.                                                     *)
(***************************************************************************)
EXTENDS Sequences

CONSTANTS Threads, Values

VARIABLES
  queue,   \* the values, oldest first
  op,      \* each thread's operation
  closed   \* the queue is being, or has been, destroyed

vars == <<queue, op, closed>>

Idle == [kind |-> "idle"]
Enqueuing(v) == [kind |-> "enqueuing", value |-> v]
Enqueued == [kind |-> "enqueued"]
Dequeuing(sawEmpty) == [kind |-> "dequeuing", sawEmpty |-> sawEmpty]
Dequeued(v) == [kind |-> "dequeued", value |-> v]

Init ==
  /\ queue = <<>>
  /\ op = [t \in Threads |-> Idle]
  /\ closed = FALSE

CallEnqueue(t, v) ==
  /\ ~closed
  /\ op[t] = Idle
  /\ op' = [op EXCEPT ![t] = Enqueuing(v)]
  /\ UNCHANGED <<queue, closed>>

Enqueue(t) ==
  /\ op[t].kind = "enqueuing"
  /\ queue' = Append(queue, op[t].value)
  /\ op' = [op EXCEPT ![t] = Enqueued]
  /\ UNCHANGED closed

CallDequeue(t) ==
  /\ ~closed
  /\ op[t] = Idle
  /\ op' = [op EXCEPT ![t] = Dequeuing(queue = <<>>)]
  /\ UNCHANGED <<queue, closed>>

\* The oldest value leaves; if it was the only one, every dequeue under way has
\* now seen the queue empty.
Dequeue(t) ==
  /\ op[t].kind = "dequeuing"
  /\ queue # <<>>
  /\ queue' = Tail(queue)
  /\ op' = [u \in Threads |->
              IF u = t THEN Dequeued(Head(queue))
              ELSE IF op[u].kind = "dequeuing" /\ Len(queue) = 1 THEN Dequeuing(TRUE)
              ELSE op[u]]
  /\ UNCHANGED closed

Return(t) ==
  /\ \/ op[t].kind \in {"enqueued", "dequeued"}
     \/ op[t] = Dequeuing(TRUE)    \* DEQUEUE_FAIL
  /\ op' = [op EXCEPT ![t] = Idle]
  /\ UNCHANGED <<queue, closed>>

\* When nobody uses the queue any more, what it holds is thrown away.
Destroy ==
  /\ \A t \in Threads : op[t] = Idle
  /\ closed' = TRUE
  /\ queue' \in {queue, <<>>} \cup (IF queue = <<>> THEN {} ELSE {Tail(queue)})
  /\ UNCHANGED op

Next ==
  \/ \E t \in Threads :
       \/ \E v \in Values : CallEnqueue(t, v)
       \/ Enqueue(t) \/ CallDequeue(t) \/ Dequeue(t) \/ Return(t)
  \/ Destroy

Spec == Init /\ [][Next]_vars
=============================================================================
