----------------------- MODULE BarrierConditionProofs -----------------------
(***************************************************************************)
(* For any number of threads and papers, the barrier of barrier_condition.c *)
(* keeps its counter right, never lets a thread through early, loses no    *)
(* wakeup, fails no assertion, and takes only steps the abstract barrier   *)
(* allows.                                                                 *)
(***************************************************************************)
EXTENDS BarrierCondition, FiniteSetTheorems, TLAPS

\* The number of threads is a positive natural number.
LEMMA ThreadnumNat == THREADNUM \in Nat \ {0}
<1>1. Cardinality(Threads) \in Nat
  BY AuthorsAssumption, FS_CardinalityType
<1>2. Cardinality(Threads) # 0
  BY AuthorsAssumption, FS_EmptySet
<1> QED BY <1>1, <1>2 DEF THREADNUM

\* At most THREADNUM threads are counted, and all of them when the count says so.
LEMMA CountedBounds ==
  /\ Counted \in SUBSET Threads
  /\ IsFiniteSet(Counted)
  /\ Cardinality(Counted) \in 0..THREADNUM
  /\ Cardinality(Counted) = THREADNUM => Counted = Threads
<1>1. Counted \in SUBSET Threads
  BY DEF Counted
<1> QED BY <1>1, AuthorsAssumption, ThreadnumNat, FS_Subset, FS_CardinalityType
        DEF THREADNUM

-----------------------------------------------------------------------------
\* The invariant holds initially.
LEMMA InitIInv == Init => TypeOK /\ IInv
<1> SUFFICES ASSUME Init PROVE TypeOK /\ IInv
  OBVIOUS
<1> USE DEF Init, AuthorInit
<1>1. TypeOK
  BY AuthorsAssumption, ThreadnumNat DEF TypeOK, Labels
<1>2. MutexInv
  BY DEF MutexInv, Critical
<1>3. CountInv
  <2>1. Counted = {}
    BY DEF Counted
  <2> QED BY <2>1, FS_EmptySet DEF CountInv
<1>4. PhaseInv
  BY AuthorsAssumption DEF PhaseInv
<1>5. NoAssertionFails /\ NoLostWakeup
  BY DEF NoAssertionFails, Alive, NoLostWakeup
<1> QED BY <1>1, <1>2, <1>3, <1>4, <1>5 DEF IInv

\* Arriving counts the thread: it adds one element to Counted.
LEMMA CountStep ==
  ASSUME TypeOK, IInv, NEW t \in Threads, Count(t)
  PROVE  TypeOK' /\ IInv'
<1> USE DEF Count, Goto, IInv
<1>a. Counted' = Counted \cup {t} /\ t \notin Counted
  BY DEF TypeOK, Counted, PhaseInv
<1>b. threads_at_barrier' = Cardinality(Counted')
  BY <1>a, CountedBounds, FS_AddElement DEF CountInv
<1>c. threads_at_barrier' \in 0..THREADNUM
      /\ (threads_at_barrier' = THREADNUM => Counted' = Threads)
  <2>1. Counted' \in SUBSET Threads
    BY <1>a, CountedBounds
  <2>2. /\ Cardinality(Counted') <= THREADNUM
        /\ Cardinality(Counted') = THREADNUM => Counted' = Threads
    BY <2>1, AuthorsAssumption, FS_Subset DEF THREADNUM
  <2> QED BY <2>2, <1>b, ThreadnumNat DEF TypeOK
<1>1. TypeOK'
  BY <1>c DEF TypeOK, Labels
<1>2. MutexInv'
  BY DEF TypeOK, MutexInv, Critical
<1>3. CountInv'
  <2>1. ASSUME NEW u \in Threads, pc'[u] = "open"
        PROVE  Counted' = Threads
    <3>1. CASE u = t
      BY <2>1, <3>1, <1>c DEF TypeOK
    <3>2. CASE u # t
      BY <2>1, <3>2, <1>a, CountedBounds DEF TypeOK, CountInv
    <3> QED BY <3>1, <3>2
  <2> QED BY <1>b, <2>1 DEF CountInv
<1>4. PhaseInv'
  BY DEF TypeOK, PhaseInv
<1>5. NoAssertionFails' /\ NoLostWakeup'
  BY DEF TypeOK, NoAssertionFails, Alive, NoLostWakeup
<1> QED BY <1>1, <1>2, <1>3, <1>4, <1>5

\* Opening releases exactly the threads that were counted.
LEMMA OpenStep ==
  ASSUME TypeOK, IInv, NEW t \in Threads, Open(t)
  PROVE  TypeOK' /\ IInv'
<1> USE DEF Open, Goto, IInv
<1>a. Counted = Threads
  BY DEF CountInv
<1>b. \A u \in Threads :
        /\ paper[u] = barrier_opening_count
        /\ pc[u] \in {"open", "wait", "asleep", "woken", "recheck"}
        /\ u # t => pc[u] \in {"asleep", "woken"}
  BY <1>a DEF Counted, MutexInv, Critical
<1>1. TypeOK'
  BY ThreadnumNat DEF TypeOK, Labels
<1>2. MutexInv'
  BY DEF TypeOK, MutexInv, Critical
<1>3. CountInv'
  <2>1. Counted' = {}
    BY <1>b DEF TypeOK, Counted
  <2>2. \A u \in Threads : pc'[u] # "open"
    BY <1>b DEF TypeOK
  <2> QED BY <2>1, <2>2, FS_EmptySet DEF CountInv
<1>4. PhaseInv'
  BY <1>b DEF TypeOK, PhaseInv
<1>5. NoAssertionFails' /\ NoLostWakeup'
  BY DEF TypeOK, NoAssertionFails, Alive, NoLostWakeup
<1> QED BY <1>1, <1>2, <1>3, <1>4, <1>5

\* Every other step leaves the set of counted threads as it is.
LEMMA OtherSteps ==
  ASSUME TypeOK, IInv, NEW t \in Threads,
         \/ AuthorStep(t) \/ CheckUnopened(t) \/ Broadcast(t) \/ Unlock(t)
         \/ CondWait(t) \/ Recheck(t) \/ Acquire(t) \/ SpuriousWakeup(t)
  PROVE  TypeOK' /\ IInv'
<1> USE DEF Goto, IInv, shared, counts
<1>0. /\ Counted' = Counted
      /\ UNCHANGED counts
      /\ \A u \in Threads : pc'[u] = "open" => pc[u] = "open"
      => CountInv'
  BY DEF CountInv
<1>1. CASE FinishWriting(t) /\ UNCHANGED shared
  <2>1. TypeOK' /\ MutexInv'
    BY <1>1 DEF FinishWriting, TypeOK, Labels, MutexInv, Critical
  <2>2. CountInv'
    BY <1>0, <1>1 DEF FinishWriting, TypeOK, Counted
  <2>3. PhaseInv' /\ NoAssertionFails' /\ NoLostWakeup'
    BY <1>1 DEF FinishWriting, TypeOK, PhaseInv, NoAssertionFails, Alive, NoLostWakeup
  <2> QED BY <2>1, <2>2, <2>3
<1>2. CASE FinishProofreading(t) /\ UNCHANGED shared
  <2>1. TypeOK' /\ MutexInv'
    BY <1>2, AuthorsAssumption
       DEF FinishProofreading, TypeOK, Labels, MutexInv, Critical, PhaseInv
  <2>2. CountInv'
    BY <1>0, <1>2 DEF FinishProofreading, TypeOK, Counted
  <2>3. PhaseInv'
    BY <1>2, AuthorsAssumption DEF FinishProofreading, TypeOK, PhaseInv
  <2>4. NoAssertionFails' /\ NoLostWakeup'
    BY <1>2 DEF FinishProofreading, TypeOK, NoAssertionFails, Alive, NoLostWakeup
  <2> QED BY <2>1, <2>2, <2>3, <2>4
<1>3. CASE CheckUnopened(t)
  <2>0. barrier_opening_count = paper[t]
    BY <1>3 DEF CheckUnopened, PhaseInv
  <2>1. TypeOK' /\ MutexInv'
    BY <1>3 DEF CheckUnopened, TypeOK, Labels, MutexInv, Critical
  <2>2. CountInv'
    BY <1>0, <1>3, <2>0 DEF CheckUnopened, TypeOK, Counted
  <2>3. PhaseInv' /\ NoAssertionFails' /\ NoLostWakeup'
    BY <1>3, <2>0
       DEF CheckUnopened, TypeOK, PhaseInv, NoAssertionFails, Alive, NoLostWakeup
  <2> QED BY <2>1, <2>2, <2>3
<1>4. CASE Broadcast(t)
  <2>1. TypeOK' /\ MutexInv'
    BY <1>4 DEF Broadcast, TypeOK, Labels, MutexInv, Critical
  <2>2. CountInv'
    BY <1>0, <1>4 DEF Broadcast, TypeOK, Counted
  <2>3. PhaseInv' /\ NoAssertionFails' /\ NoLostWakeup'
    BY <1>4 DEF Broadcast, TypeOK, PhaseInv, NoAssertionFails, Alive, NoLostWakeup
  <2> QED BY <2>1, <2>2, <2>3
<1>5. CASE Unlock(t)
  <2>1. TypeOK' /\ MutexInv'
    BY <1>5 DEF Unlock, TypeOK, Labels, MutexInv, Critical
  <2>2. CountInv'
    BY <1>0, <1>5 DEF Unlock, TypeOK, Counted
  <2>3. PhaseInv' /\ NoAssertionFails' /\ NoLostWakeup'
    BY <1>5 DEF Unlock, TypeOK, PhaseInv, NoAssertionFails, Alive, NoLostWakeup
  <2> QED BY <2>1, <2>2, <2>3
<1>6. CASE CondWait(t)
  <2>1. TypeOK' /\ MutexInv'
    BY <1>6 DEF CondWait, TypeOK, Labels, MutexInv, Critical
  <2>2. CountInv'
    BY <1>0, <1>6 DEF CondWait, TypeOK, Counted
  <2>3. PhaseInv' /\ NoAssertionFails' /\ NoLostWakeup'
    BY <1>6 DEF CondWait, TypeOK, PhaseInv, NoAssertionFails, Alive, NoLostWakeup
  <2> QED BY <2>1, <2>2, <2>3
<1>7. CASE Recheck(t)
  <2>1. TypeOK' /\ MutexInv'
    BY <1>7 DEF Recheck, TypeOK, Labels, MutexInv, Critical
  <2>2. CountInv'
    BY <1>0, <1>7 DEF Recheck, TypeOK, Counted
  <2>3. PhaseInv' /\ NoAssertionFails' /\ NoLostWakeup'
    BY <1>7 DEF Recheck, TypeOK, PhaseInv, NoAssertionFails, Alive, NoLostWakeup
  <2> QED BY <2>1, <2>2, <2>3
<1>8. CASE Acquire(t)
  <2>1. TypeOK' /\ MutexInv'
    BY <1>8 DEF Acquire, LockToArrive, LockToRecheck, Lock, TypeOK, Labels,
                MutexInv, Critical
  <2>2. CountInv'
    BY <1>0, <1>8
       DEF Acquire, LockToArrive, LockToRecheck, Lock, TypeOK, Counted
  <2>3. PhaseInv' /\ NoAssertionFails' /\ NoLostWakeup'
    BY <1>8 DEF Acquire, LockToArrive, LockToRecheck, Lock, TypeOK, PhaseInv,
                NoAssertionFails, Alive, NoLostWakeup
  <2> QED BY <2>1, <2>2, <2>3
<1>9. CASE SpuriousWakeup(t)
  <2>1. TypeOK' /\ MutexInv'
    BY <1>9 DEF SpuriousWakeup, TypeOK, Labels, MutexInv, Critical
  <2>2. CountInv'
    BY <1>0, <1>9 DEF SpuriousWakeup, TypeOK, Counted
  <2>3. PhaseInv' /\ NoAssertionFails' /\ NoLostWakeup'
    BY <1>9 DEF SpuriousWakeup, TypeOK, PhaseInv, NoAssertionFails, Alive, NoLostWakeup
  <2> QED BY <2>1, <2>2, <2>3
<1> QED
  BY <1>1, <1>2, <1>3, <1>4, <1>5, <1>6, <1>7, <1>8, <1>9 DEF AuthorStep

\* Every step keeps the invariant.
LEMMA NextIInv == TypeOK /\ IInv /\ [Next]_vars => TypeOK' /\ IInv'
<1> SUFFICES ASSUME TypeOK, IInv, [Next]_vars PROVE TypeOK' /\ IInv'
  OBVIOUS
<1>1. ASSUME NEW t \in Threads, Step(t) \/ Acquire(t) \/ SpuriousWakeup(t)
      PROVE  TypeOK' /\ IInv'
  BY <1>1, CountStep, OpenStep, OtherSteps DEF Step
<1>2. CASE UNCHANGED vars
  BY <1>2 DEF vars, TypeOK, IInv, MutexInv, CountInv, PhaseInv, NoAssertionFails,
              NoLostWakeup, Counted, Critical, Alive
<1> QED BY <1>1, <1>2 DEF Next, Terminated

-----------------------------------------------------------------------------
\* In every reachable state the types are right and the counter is in range;
\* mutual exclusion, the meaning of the counter, the phase of every thread, no
\* failed assertion and no lost wakeup (barrier_condition.c:52-87).
THEOREM InductiveInvariant == Spec => [](TypeOK /\ IInv)
<1> QED BY InitIInv, NextIInv, PTL DEF Spec

\* No author starts proofreading paper i before every author has written its
\* paper i (authors.c:37-41), for any number of authors and papers.
THEOREM BarrierSafety == Spec => []ProofreadAfterWriting
<1>1. TypeOK /\ IInv => ProofreadAfterWriting
  BY DEF TypeOK, IInv, PhaseInv, ProofreadAfterWriting
<1> QED BY <1>1, InductiveInvariant, PTL

\* Every step of the program is, for the abstract barrier, an arrival, a passage
\* or no step at all.
LEMMA StepSimulation ==
  ASSUME TypeOK, IInv, [Next]_vars
  PROVE  [Promise!Next]_(Promise!vars)
<1> USE DEF Goto, shared, counts
<1>1. ASSUME NEW t \in Threads, FinishWriting(t), UNCHANGED shared
      PROVE  Promise!Arrive(t)
  <2>1. Arrived[t] = Passed[t] /\ Arrived[t] < PAPERNUM
    BY <1>1 DEF FinishWriting, TypeOK, IInv, PhaseInv, Arrived, Passed
  <2>2. \A u \in Threads : /\ Arrived'[u] = IF u = t THEN Arrived[u] + 1 ELSE Arrived[u]
                           /\ Passed'[u] = Passed[u]
    BY <1>1 DEF FinishWriting, TypeOK, Arrived, Passed
  <2>3. Arrived' = [Arrived EXCEPT ![t] = @ + 1] /\ Passed' = Passed
    BY <2>2 DEF Arrived, Passed
  <2> QED BY <2>1, <2>3 DEF Promise!Arrive
<1>2. ASSUME NEW t \in Threads, Unlock(t)
      PROVE  Promise!Pass(t)
  <2>1. Passed[t] < Arrived[t] /\ \A u \in Threads : Arrived[u] >= Arrived[t]
    BY <1>2 DEF Unlock, TypeOK, IInv, PhaseInv, Arrived, Passed
  <2>2. \A u \in Threads : /\ Passed'[u] = IF u = t THEN Passed[u] + 1 ELSE Passed[u]
                           /\ Arrived'[u] = Arrived[u]
    BY <1>2 DEF Unlock, TypeOK, Arrived, Passed
  <2>3. Passed' = [Passed EXCEPT ![t] = @ + 1] /\ Arrived' = Arrived
    BY <2>2 DEF Arrived, Passed
  <2> QED BY <2>1, <2>3 DEF Promise!Pass
<1>3. ASSUME NEW t \in Threads, FinishProofreading(t), UNCHANGED shared
      PROVE  Arrived' = Arrived /\ Passed' = Passed
  BY <1>3, AuthorsAssumption DEF FinishProofreading, TypeOK, Arrived, Passed
<1>4. ASSUME NEW t \in Threads,
             \/ CheckUnopened(t) \/ Count(t) \/ Open(t) \/ Broadcast(t)
             \/ CondWait(t) \/ Recheck(t) \/ Acquire(t) \/ SpuriousWakeup(t)
      PROVE  Arrived' = Arrived /\ Passed' = Passed
  BY <1>4 DEF CheckUnopened, Count, Open, Broadcast, CondWait, Recheck, Acquire,
              LockToArrive, LockToRecheck, Lock, SpuriousWakeup, TypeOK,
              Arrived, Passed
<1>5. CASE UNCHANGED vars
  BY <1>5 DEF vars, Arrived, Passed, Promise!vars
<1> QED
  BY <1>1, <1>2, <1>3, <1>4, <1>5
     DEF Next, Terminated, Step, AuthorStep, Promise!Next, Promise!vars

\* The program implements the abstract barrier (its safety part) for any
\* number of threads and papers.
THEOREM BarrierRefinement ==
  Spec => Promise!Init /\ [][Promise!Next]_(Promise!vars)
<1>1. Init => Promise!Init
  BY DEF Init, AuthorInit, Arrived, Passed, Promise!Init
<1>2. TypeOK /\ IInv /\ [Next]_vars => [Promise!Next]_(Promise!vars)
  BY StepSimulation
<1> QED BY <1>1, <1>2, InductiveInvariant, PTL DEF Spec
=============================================================================
