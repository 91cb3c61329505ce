---------------------------- MODULE BarrierFutex ----------------------------
(***************************************************************************)
(* barrier_futex.c: a reusable barrier from two atomic integers and the    *)
(* futex calls of futex.c.  Each atomic access, and each system call, is a *)
(* step; in particular the increment of threads_at_barrier and the load    *)
(* that decides who opens the barrier are two steps.                       *)
(***************************************************************************)
EXTENDS Authors

VARIABLES
  threads_at_barrier,
  barrier_opening_count

vars == <<pc, paper, threads_at_barrier, barrier_opening_count>>
shared == <<threads_at_barrier, barrier_opening_count>>

\* initialize_barrier, called by main before it creates the threads
Init ==
  /\ AuthorInit
  /\ threads_at_barrier = 0
  /\ barrier_opening_count = 0

\* The sanity check on entry.
CheckUnopened(t) ==
  /\ pc[t] = "enter"
  /\ Goto(t, IF barrier_opening_count = paper[t] THEN "add" ELSE "aborted")
  /\ UNCHANGED <<paper, shared>>

Add(t) ==
  /\ pc[t] = "add"
  /\ threads_at_barrier' = threads_at_barrier + 1
  /\ Goto(t, "load")
  /\ UNCHANGED <<paper, barrier_opening_count>>

\* The count is loaded again, and only this second access is compared.
LoadCount(t) ==
  /\ pc[t] = "load"
  /\ Goto(t, IF threads_at_barrier = THREADNUM THEN "reset" ELSE "wait")
  /\ UNCHANGED <<paper, shared>>

Reset(t) ==
  /\ pc[t] = "reset"
  /\ threads_at_barrier' = 0
  /\ Goto(t, "open")
  /\ UNCHANGED <<paper, barrier_opening_count>>

Open(t) ==
  /\ pc[t] = "open"
  /\ barrier_opening_count' = barrier_opening_count + 1
  /\ Goto(t, "wake")
  /\ UNCHANGED <<paper, threads_at_barrier>>

\* FUTEX_WAKE of THREADNUM waiters, which is all that can be asleep.
WakeAll(t, next) ==
  pc' = [u \in Threads |-> IF u = t THEN next
                           ELSE IF pc[u] = "asleep" THEN "recheck" ELSE pc[u]]

\* Faulty variant: the barrier is opened, but nobody is told.
OpenerWakesNobody(t) ==
  /\ pc[t] = "wake"
  /\ Goto(t, "leave")
  /\ UNCHANGED <<paper, shared>>

OpenerWakes(t) ==
  /\ pc[t] = "wake"
  /\ WakeAll(t, "leave")
  /\ UNCHANGED <<paper, shared>>

\* The closing sanity check of the thread that opened.
CheckLeaving(t) ==
  /\ pc[t] = "leave"
  /\ Goto(t, IF threads_at_barrier \in 0..(THREADNUM - 1)
             THEN "proofreading" ELSE "aborted")
  /\ UNCHANGED <<paper, shared>>

\* Faulty variant: the wait does not compare the count before it sleeps.
FutexWaitBlindly(t) ==
  /\ pc[t] = "wait"
  /\ Goto(t, "asleep")
  /\ UNCHANGED <<paper, shared>>

\* FUTEX_WAIT sleeps only if the count still equals the iteration; otherwise
\* it returns EAGAIN at once.
FutexWait(t) ==
  /\ pc[t] = "wait"
  /\ Goto(t, IF barrier_opening_count = paper[t] THEN "asleep" ELSE "recheck")
  /\ UNCHANGED <<paper, shared>>

\* "Sprious wakeups can happen" (futex.c:31).
SpuriousWakeup(t) ==
  /\ pc[t] = "asleep"
  /\ Goto(t, "recheck")
  /\ UNCHANGED <<paper, shared>>

\* Faulty variant: a wakeup is taken for an opening.
RecheckNothing(t) ==
  /\ pc[t] = "recheck"
  /\ Goto(t, "rewake")
  /\ UNCHANGED <<paper, shared>>

\* Faulty variant: a thread that is woken too early begins again.
RecheckBeginsAgain(t) ==
  /\ pc[t] = "recheck"
  /\ Goto(t, IF barrier_opening_count > paper[t] THEN "rewake" ELSE "add")
  /\ UNCHANGED <<paper, shared>>

Recheck(t) ==
  /\ pc[t] = "recheck"
  /\ Goto(t, IF barrier_opening_count > paper[t] THEN "rewake" ELSE "wait")
  /\ UNCHANGED <<paper, shared>>

\* A thread that leaves wakes the others once more.
WaiterWakes(t) ==
  /\ pc[t] = "rewake"
  /\ WakeAll(t, "proofreading")
  /\ UNCHANGED <<paper, shared>>

AuthorStep(t) == (FinishWriting(t) \/ FinishProofreading(t)) /\ UNCHANGED shared

\* What thread t does when it is scheduled.
Step(t) ==
  \/ AuthorStep(t)
  \/ CheckUnopened(t) \/ Add(t) \/ LoadCount(t)
  \/ Reset(t) \/ Open(t) \/ OpenerWakes(t) \/ CheckLeaving(t)
  \/ FutexWait(t) \/ Recheck(t) \/ WaiterWakes(t)

Terminated == AllJoined /\ UNCHANGED vars

Next ==
  \/ Alive /\ \E t \in Threads : Step(t) \/ SpuriousWakeup(t)
  \/ Terminated

\* The scheduler runs every thread that can run; nothing is promised about
\* spurious wakeups.
Spec == Init /\ [][Next]_vars /\ \A t \in Threads : WF_vars(Alive /\ Step(t))

-----------------------------------------------------------------------------
\* Types and ranges: a thread counts itself once and opens the barrier once, at
\* most, each time it uses it.  After a double opening threads_at_barrier may
\* still pass THREADNUM.
TypeOK ==
  /\ pc \in [Threads -> {"writing", "enter", "add", "load", "reset", "open",
                         "wake", "leave", "wait", "asleep", "recheck",
                         "rewake", "proofreading", "joined", "aborted"}]
  /\ paper \in [Threads -> 0..PAPERNUM]
  /\ threads_at_barrier \in 0..(THREADNUM * PAPERNUM)
  /\ barrier_opening_count \in 0..(THREADNUM * PAPERNUM)

\* A thread asleep on a count that has already moved on is never forgotten:
\* some thread is still about to wake it (barrier_futex.c:88-101).
NoLostWakeup ==
  \A t \in Threads :
    pc[t] = "asleep" /\ barrier_opening_count > paper[t] =>
      \E u \in Threads : pc[u] \in {"wake", "rewake"}

\* The first time it is used it is a barrier, although two threads may both open
\* it (barrier_futex.c:82-88).
Once(n) == [t \in Threads |-> IF n[t] > 0 THEN 1 ELSE 0]
First == INSTANCE Barrier WITH Rounds <- 1, arrived <- Once(Arrived), passed <- Once(Passed)
FirstUseIsBarrier == First!Init /\ [][First!Next]_(First!vars)
=============================================================================
