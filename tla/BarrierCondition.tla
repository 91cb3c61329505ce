-------------------------- MODULE BarrierCondition --------------------------
(***************************************************************************)
(* barrier_condition.c: the same barrier from a mutex and a condition      *)
(* variable.  threads_at_barrier is only touched with the mutex held;      *)
(* barrier_opening_count is also read without it, by the check on entry.   *)
(***************************************************************************)
EXTENDS Authors

VARIABLES
  threads_at_barrier,
  barrier_opening_count,
  mutex                   \* the threads that hold it

vars == <<pc, paper, threads_at_barrier, barrier_opening_count, mutex>>
counts == <<threads_at_barrier, barrier_opening_count>>
shared == <<counts, mutex>>

\* initialize_barrier
Init ==
  /\ AuthorInit
  /\ threads_at_barrier = 0
  /\ barrier_opening_count = 0
  /\ mutex = {}

\* The sanity check on entry, made without the mutex.
CheckUnopened(t) ==
  /\ pc[t] = "enter"
  /\ Goto(t, IF barrier_opening_count = paper[t] THEN "lock" ELSE "aborted")
  /\ UNCHANGED <<paper, shared>>

\* pthread_mutex_lock, by a thread that arrives or inside pthread_cond_wait
\* by one that has been woken
Lock(t, from, to) ==
  /\ pc[t] = from
  /\ mutex = {}
  /\ mutex' = {t}
  /\ Goto(t, to)
  /\ UNCHANGED <<paper, counts>>

LockToArrive(t) == Lock(t, "lock", "count")
LockToRecheck(t) == Lock(t, "woken", "recheck")

\* Faulty variant: the barrier opens one thread short.
CountOffByOne(t) ==
  /\ pc[t] = "count"
  /\ threads_at_barrier' = threads_at_barrier + 1
  /\ Goto(t, IF threads_at_barrier + 1 >= THREADNUM - 1 THEN "open" ELSE "wait")
  /\ UNCHANGED <<paper, barrier_opening_count, mutex>>

Count(t) ==
  /\ pc[t] = "count"
  /\ threads_at_barrier' = threads_at_barrier + 1
  /\ Goto(t, IF threads_at_barrier + 1 = THREADNUM THEN "open" ELSE "wait")
  /\ UNCHANGED <<paper, barrier_opening_count, mutex>>

\* Faulty variant: the counter is not reset for the next use.
OpenWithoutReset(t) ==
  /\ pc[t] = "open"
  /\ barrier_opening_count' = barrier_opening_count + 1
  /\ Goto(t, "broadcast")
  /\ UNCHANGED <<paper, threads_at_barrier, mutex>>

\* The last to arrive opens the barrier.
Open(t) ==
  /\ pc[t] = "open"
  /\ threads_at_barrier' = 0
  /\ barrier_opening_count' = barrier_opening_count + 1
  /\ Goto(t, "broadcast")
  /\ UNCHANGED <<paper, mutex>>

\* Faulty variant: pthread_cond_signal in place of pthread_cond_broadcast.
SignalOne(t) ==
  /\ pc[t] = "broadcast"
  /\ \/ \E u \in Threads : /\ pc[u] = "asleep"
                           /\ pc' = [pc EXCEPT ![t] = "unlock", ![u] = "woken"]
     \/ /\ \A u \in Threads : pc[u] # "asleep"
        /\ Goto(t, "unlock")
  /\ UNCHANGED <<paper, shared>>

Broadcast(t) ==
  /\ pc[t] = "broadcast"
  /\ pc' = [u \in Threads |-> IF u = t THEN "unlock"
                              ELSE IF pc[u] = "asleep" THEN "woken" ELSE pc[u]]
  /\ UNCHANGED <<paper, shared>>

\* Both ways out release the mutex and return.
Unlock(t) ==
  /\ pc[t] = "unlock"
  /\ mutex' = mutex \ {t}
  /\ Goto(t, "proofreading")
  /\ UNCHANGED <<paper, counts>>

\* pthread_cond_wait releases the mutex and goes to sleep in one step.
CondWait(t) ==
  /\ pc[t] = "wait"
  /\ mutex' = mutex \ {t}
  /\ Goto(t, "asleep")
  /\ UNCHANGED <<paper, counts>>

\* "it is possible though unlikely to wake up early"
SpuriousWakeup(t) ==
  /\ pc[t] = "asleep"
  /\ Goto(t, "woken")
  /\ UNCHANGED <<paper, shared>>

\* Faulty variant: `if' in place of the loop around pthread_cond_wait.
RecheckNothing(t) ==
  /\ pc[t] = "recheck"
  /\ Goto(t, "unlock")
  /\ UNCHANGED <<paper, shared>>

Recheck(t) ==
  /\ pc[t] = "recheck"
  /\ Goto(t, IF barrier_opening_count > paper[t] THEN "unlock" ELSE "wait")
  /\ UNCHANGED <<paper, shared>>

AuthorStep(t) == (FinishWriting(t) \/ FinishProofreading(t)) /\ UNCHANGED shared

Step(t) ==
  \/ AuthorStep(t)
  \/ CheckUnopened(t) \/ Count(t) \/ Open(t) \/ Broadcast(t) \/ Unlock(t)
  \/ CondWait(t) \/ Recheck(t)

Acquire(t) == LockToArrive(t) \/ LockToRecheck(t)

Terminated == AllJoined /\ UNCHANGED vars

Next ==
  \/ Alive /\ \E t \in Threads : Step(t) \/ Acquire(t) \/ SpuriousWakeup(t)
  \/ Terminated

\* A thread that can run does.  A mutex is not handed over in order, so a
\* thread is only sure to get it if it is free again and again.
Spec ==
  /\ Init /\ [][Next]_vars
  /\ \A t \in Threads : /\ WF_vars(Alive /\ Step(t))
                        /\ SF_vars(Alive /\ Acquire(t))

-----------------------------------------------------------------------------
Labels == {"writing", "enter", "lock", "count", "open", "broadcast", "unlock",
           "wait", "asleep", "woken", "recheck", "proofreading", "joined",
           "aborted"}

\* Types and ranges; the counter never exceeds the number of threads.
TypeOK ==
  /\ pc \in [Threads -> Labels]
  /\ paper \in [Threads -> 0..PAPERNUM]
  /\ threads_at_barrier \in 0..THREADNUM
  /\ barrier_opening_count \in Nat
  /\ mutex \in SUBSET Threads

\* The control points at which a thread holds the mutex
Critical(t) ==
  pc[t] \in {"count", "open", "broadcast", "unlock", "wait", "recheck"}

\* The threads counted in threads_at_barrier: inside, for an iteration whose
\* barrier has not opened
Counted ==
  {t \in Threads : /\ pc[t] \in {"open", "wait", "asleep", "woken", "recheck"}
                   /\ paper[t] = barrier_opening_count}

MutexInv == \A t \in Threads : Critical(t) <=> mutex = {t}

CountInv ==
  /\ threads_at_barrier = Cardinality(Counted)
  /\ \A t \in Threads : pc[t] = "open" => Counted = Threads

\* Where a thread may be, relative to the number of openings: it works on the
\* iteration that has not opened yet, or is on its way out of the last one.
PhaseInv ==
  \A t \in Threads :
    /\ paper[t] \in {barrier_opening_count, barrier_opening_count - 1}
    /\ pc[t] \in {"writing", "enter", "lock", "count", "open", "wait", "joined"}
         => paper[t] = barrier_opening_count
    /\ pc[t] \in {"broadcast", "unlock", "proofreading"}
         => paper[t] = barrier_opening_count - 1
    /\ pc[t] = "joined" \/ paper[t] < PAPERNUM

\* Nobody sleeps through an opening: a sleeper of an iteration that has opened
\* is about to be woken by the thread that opened it (barrier_condition.c:63-81).
NoLostWakeup ==
  \A t \in Threads :
    pc[t] = "asleep" /\ barrier_opening_count > paper[t] =>
      \E u \in Threads : pc[u] = "broadcast"

\* The inductive invariant: types, mutual exclusion, what the counter counts,
\* the phase each thread is in, and the two properties that follow with it.
IInv ==
  TypeOK /\ MutexInv /\ CountInv /\ PhaseInv /\ NoAssertionFails /\ NoLostWakeup

\* Seen from the authors, this is a barrier.
ImplementsBarrier == Promise!Spec
=============================================================================
