------------------------------ MODULE Authors ------------------------------
(***************************************************************************)
(* The program both barriers are linked into (authors.c): THREADNUM author *)
(* threads, each of which writes PAPERNUM papers and, after the barrier,   *)
(* proofreads everybody's.  The modules of the two barriers extend this    *)
(* one and add the control points of their wait_at_barrier to pc.          *)
(***************************************************************************)
EXTENDS Integers, FiniteSets

CONSTANTS
  Threads,    \* the author threads
  PAPERNUM    \* papers per author

ASSUME AuthorsAssumption ==
  /\ IsFiniteSet(Threads)
  /\ Threads # {}
  /\ PAPERNUM \in Nat \ {0}

VARIABLES
  pc,     \* where each thread is
  paper   \* the loop variable i of author(): the paper, and the iteration
          \* the thread passes to wait_at_barrier

THREADNUM == Cardinality(Threads)

AuthorInit ==
  /\ pc = [t \in Threads |-> "writing"]
  /\ paper = [t \in Threads |-> 0]

Goto(t, label) == pc' = [pc EXCEPT ![t] = label]

\* A failed assert() aborts the process: no thread takes another step.
Alive == \A t \in Threads : pc[t] # "aborted"

\* The paper is written; wait_at_barrier(i) is called.
FinishWriting(t) ==
  /\ pc[t] = "writing"
  /\ Goto(t, "enter")
  /\ UNCHANGED paper

\* The end of the loop body: the next paper, or the thread returns.
FinishProofreading(t) ==
  /\ pc[t] = "proofreading"
  /\ paper' = [paper EXCEPT ![t] = @ + 1]
  /\ Goto(t, IF paper[t] + 1 < PAPERNUM THEN "writing" ELSE "joined")

\* main() has joined every author; the process is over.
AllJoined == \A t \in Threads : pc[t] = "joined"

-----------------------------------------------------------------------------
\* The abstract barrier the authors see: a thread has arrived from its call
\* on, and has passed once wait_at_barrier has returned.
Arrived ==
  [t \in Threads |-> paper[t] + IF pc[t] \in {"writing", "joined"} THEN 0 ELSE 1]
Passed == [t \in Threads |-> paper[t] + IF pc[t] = "proofreading" THEN 1 ELSE 0]

Promise == INSTANCE Barrier WITH
             Rounds <- PAPERNUM, arrived <- Arrived, passed <- Passed

\* "they can't start proofreading again until all the other authors have
\* finished writing for that step" (authors.c:37-41).
ProofreadAfterWriting ==
  \A t, u \in Threads :
    pc[t] = "proofreading" =>
      \/ paper[u] > paper[t]
      \/ paper[u] = paper[t] /\ pc[u] # "writing"

\* No assert of wait_at_barrier fails.
NoAssertionFails == Alive

\* Every run of the program comes to "All done".
AllDone == <>AllJoined

\* "Once the last thread calls wait_at_barrier, the barrier is considered open
\* and the threads waiting will unblock" (barrier_futex.c:61-63).
WaitersUnblock ==
  \A t \in Threads, r \in 1..PAPERNUM :
    (\A u \in Threads : Arrived[u] >= r) ~> (Passed[t] >= r \/ ~Alive)
=============================================================================
