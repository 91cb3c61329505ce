------------------------- MODULE BarrierFutexProofs -------------------------
(***************************************************************************)
(* For any number of threads and papers, the barrier of barrier_futex.c    *)
(* counts each use of a thread once at most, forgets no sleeper, and is a  *)
(* barrier the first time it is used.                                      *)
(***************************************************************************)
EXTENDS BarrierFutex, FiniteSetTheorems, TLAPS

Labels == {"writing", "enter", "add", "load", "reset", "open", "wake", "leave", "wait",
           "asleep", "recheck", "rewake", "proofreading", "joined", "aborted"}

Typed ==
  /\ pc \in [Threads -> Labels] /\ paper \in [Threads -> 0..PAPERNUM]
  /\ threads_at_barrier \in Nat /\ barrier_opening_count \in Nat
  /\ \A t \in Threads : paper[t] = PAPERNUM <=> pc[t] = "joined"

\* The uses, a thread and its paper each, that may have been counted, and those
\* that may have opened the barrier
Uses == Threads \X (0..(PAPERNUM - 1))
Since(before) == {u \in Uses : u[2] < paper[u[1]] \/ (u[2] = paper[u[1]] /\ pc[u[1]] \notin before)}
NotCounted == {"writing", "enter", "add"}
NotOpened == NotCounted \cup {"load", "reset", "open"}

Counts ==
  /\ threads_at_barrier <= Cardinality(Since(NotCounted))
  /\ barrier_opening_count <= Cardinality(Since(NotOpened))

\* Until all threads have been counted for the first time, the counter says how
\* many have been, and none is let out.
AllCounted == \A t \in Threads : paper[t] > 0 \/ pc[t] \notin NotCounted
Waiting == {t \in Threads : pc[t] \in {"load", "wait", "asleep", "recheck"}}
Gathering ==
  /\ \A t \in Threads : paper[t] = 0 /\ pc[t] \in NotCounted \cup {"load", "wait", "asleep", "recheck"}
  /\ threads_at_barrier = Cardinality(Waiting)
  /\ barrier_opening_count = 0

IInv == Typed /\ Counts /\ NoLostWakeup /\ (AllCounted \/ Gathering)


-----------------------------------------------------------------------------
\* The number of threads is a natural number.
LEMMA ThreadnumNat == THREADNUM \in Nat
BY AuthorsAssumption, FS_CardinalityType DEF THREADNUM

LEMMA UsesFinite == IsFiniteSet(Uses) /\ Cardinality(Uses) = THREADNUM * PAPERNUM
<1>1. PAPERNUM - 1 \in Int /\ PAPERNUM \in Nat \ {0}
  BY AuthorsAssumption
<1>2. IsFiniteSet(0..(PAPERNUM - 1)) /\ Cardinality(0..(PAPERNUM - 1)) = PAPERNUM
  BY <1>1, FS_Interval
<1> DEFINE Papers == 0..(PAPERNUM - 1)
<1> HIDE DEF Papers
<1>3. IsFiniteSet(Papers) /\ Cardinality(Papers) = PAPERNUM
  BY <1>2 DEF Papers
<1>4. IsFiniteSet(Threads \X Papers) /\ Cardinality(Threads \X Papers) = Cardinality(Threads) * Cardinality(Papers)
  BY <1>3, AuthorsAssumption, FS_Product, Zenon
<1>5. Uses = Threads \X Papers
  BY DEF Uses, Papers
<1> QED BY <1>3, <1>4, <1>5 DEF THREADNUM

LEMMA SinceFinite ==
  ASSUME NEW before
  PROVE  /\ IsFiniteSet(Since(before)) /\ Cardinality(Since(before)) \in Nat
         /\ Cardinality(Since(before)) <= THREADNUM * PAPERNUM
<1>1. Since(before) \subseteq Uses
  BY DEF Since
<1>2. IsFiniteSet(Since(before)) /\ Cardinality(Since(before)) <= Cardinality(Uses)
  BY <1>1, UsesFinite, FS_Subset
<1> QED BY <1>2, UsesFinite, FS_CardinalityType

LEMMA SinceFiniteNext ==
  ASSUME NEW before
  PROVE  IsFiniteSet(Since(before)') /\ Cardinality(Since(before)') \in Nat
<1>1. Since(before)' \subseteq Uses
  BY DEF Since, Uses
<1>2. IsFiniteSet(Since(before)')
  BY <1>1, UsesFinite, FS_Subset
<1> QED BY <1>2, FS_CardinalityType

\* No thread goes back, other than to its next paper.
Progresses ==
  \A u \in Threads :
    \/ /\ paper'[u] = paper[u]
       /\ pc[u] \notin NotCounted => pc'[u] \notin NotCounted
       /\ pc[u] \notin NotOpened => pc'[u] \notin NotOpened
    \/ paper'[u] > paper[u]

LEMMA SinceGrows ==
  ASSUME Typed, Typed', Progresses, NEW before \in {NotCounted, NotOpened}
  PROVE  /\ Since(before) \subseteq Since(before)'
         /\ Cardinality(Since(before)) <= Cardinality(Since(before)')
<1>1. ASSUME NEW u \in Since(before)
      PROVE  u \in Since(before)'
  <2>1. /\ u \in Uses /\ u[1] \in Threads /\ u[2] \in Int
        /\ u[2] < paper[u[1]] \/ (u[2] = paper[u[1]] /\ pc[u[1]] \notin before)
    BY DEF Since, Uses
  <2>2. paper[u[1]] \in Int /\ paper'[u[1]] \in Int
    BY <2>1, AuthorsAssumption DEF Typed
  <2>3. \/ paper'[u[1]] = paper[u[1]] /\ (pc[u[1]] \notin before => pc'[u[1]] \notin before)
        \/ paper'[u[1]] > paper[u[1]]
    BY <2>1 DEF Progresses
  <2>4. u[2] < paper'[u[1]] \/ (u[2] = paper'[u[1]] /\ pc'[u[1]] \notin before)
    BY <2>1, <2>2, <2>3
  <2>5. u \in Uses'
    BY <2>1 DEF Uses
  <2> QED BY <2>4, <2>5 DEF Since
<1>2. Since(before) \subseteq Since(before)'
  BY <1>1
<1> QED BY <1>2, SinceFiniteNext, FS_Subset

\* A thread that counts itself, or opens, does so for the first time in this use.
LEMMA SinceGains ==
  ASSUME Typed, Typed', Progresses, NEW before \in {NotCounted, NotOpened},
         NEW t \in Threads, pc[t] \in before, pc'[t] \notin before,
         paper'[t] = paper[t], pc[t] # "joined"
  PROVE  Cardinality(Since(before)) + 1 <= Cardinality(Since(before)')
<1> DEFINE u == <<t, paper[t]>>
<1>1. paper[t] \in 0..(PAPERNUM - 1)
  BY AuthorsAssumption DEF Typed
<1>2. u \in Uses /\ u[1] = t /\ u[2] = paper[t]
  BY <1>1 DEF Uses
<1>3. u \notin Since(before)
  BY <1>1, <1>2 DEF Since
<1>4. u \in Since(before)'
  <2>1. u \in Uses' /\ u[2] = paper'[u[1]] /\ pc'[u[1]] \notin before
    BY <1>2 DEF Uses
  <2> QED BY <2>1 DEF Since
<1> HIDE DEF u
<1>5. Since(before) \cup {u} \subseteq Since(before)'
  BY <1>4, SinceGrows
<1>6. Cardinality(Since(before) \cup {u}) = Cardinality(Since(before)) + 1
  BY <1>3, SinceFinite, FS_AddElement
<1>7. Cardinality(Since(before) \cup {u}) <= Cardinality(Since(before)')
  BY <1>5, SinceFiniteNext, FS_Subset
<1> QED BY <1>6, <1>7

-----------------------------------------------------------------------------
\* Steps that only move the thread that takes them
Moves(t) ==
  \/ FinishWriting(t) /\ UNCHANGED shared
  \/ CheckUnopened(t) \/ LoadCount(t) \/ CheckLeaving(t)
  \/ FutexWait(t) \/ SpuriousWakeup(t) \/ Recheck(t)
Wakes(t) == OpenerWakes(t) \/ WaiterWakes(t)
Finishes(t) == FinishProofreading(t) /\ UNCHANGED shared

LEMMA MovesStep ==
  ASSUME Typed, NEW t \in Threads, Moves(t)
  PROVE  /\ Typed' /\ Progresses
         /\ UNCHANGED <<paper, threads_at_barrier, barrier_opening_count>>
         /\ \A u \in Threads : u # t => pc'[u] = pc[u]
<1> USE DEF Typed, Labels, Goto, shared, Progresses, NotCounted, NotOpened
<1>1. CASE FinishWriting(t) /\ UNCHANGED shared
  BY <1>1 DEF FinishWriting
<1>2. CASE CheckUnopened(t)
  BY <1>2 DEF CheckUnopened
<1>3. CASE LoadCount(t)
  BY <1>3 DEF LoadCount
<1>4. CASE CheckLeaving(t)
  BY <1>4 DEF CheckLeaving
<1>5. CASE FutexWait(t)
  BY <1>5 DEF FutexWait
<1>6. CASE SpuriousWakeup(t)
  BY <1>6 DEF SpuriousWakeup
<1>7. CASE Recheck(t)
  BY <1>7 DEF Recheck
<1> QED BY <1>1, <1>2, <1>3, <1>4, <1>5, <1>6, <1>7 DEF Moves

LEMMA WakesStep ==
  ASSUME Typed, NEW t \in Threads, Wakes(t)
  PROVE  /\ Typed' /\ Progresses
         /\ UNCHANGED <<paper, threads_at_barrier, barrier_opening_count>>
         /\ \A u \in Threads : pc'[u] # "asleep"
         /\ \A u \in Threads : u # t => pc'[u] = pc[u] \/ (pc[u] = "asleep" /\ pc'[u] = "recheck")
         /\ pc[t] \in {"wake", "rewake"} /\ pc'[t] \in {"leave", "proofreading"}
<1> USE DEF Typed, Labels, shared, Progresses, NotCounted, NotOpened
<1>1. CASE OpenerWakes(t)
  BY <1>1 DEF OpenerWakes, WakeAll
<1>2. CASE WaiterWakes(t)
  BY <1>2 DEF WaiterWakes, WakeAll
<1> QED BY <1>1, <1>2 DEF Wakes

LEMMA OtherSteps ==
  ASSUME Typed, NEW t \in Threads, Finishes(t) \/ Add(t) \/ Reset(t) \/ Open(t)
  PROVE  /\ Typed' /\ Progresses
         /\ \A u \in Threads : u # t => pc'[u] = pc[u] /\ paper'[u] = paper[u]
<1> USE DEF Typed, Labels, Goto, shared, Progresses, NotCounted, NotOpened
<1>1. CASE Finishes(t)
  <2>1. paper[t] \in 0..(PAPERNUM - 1) /\ PAPERNUM \in Nat
    BY <1>1, AuthorsAssumption DEF Finishes, FinishProofreading
  <2> QED BY <1>1, <2>1 DEF Finishes, FinishProofreading
<1>2. CASE Add(t)
  BY <1>2 DEF Add
<1>3. CASE Reset(t)
  BY <1>3 DEF Reset
<1>4. CASE Open(t)
  BY <1>4 DEF Open
<1> QED BY <1>1, <1>2, <1>3, <1>4

LEMMA StepKinds ==
  ASSUME NEW t \in Threads, Step(t) \/ SpuriousWakeup(t)
  PROVE  Moves(t) \/ Wakes(t) \/ Finishes(t) \/ Add(t) \/ Reset(t) \/ Open(t)
BY DEF Step, AuthorStep, Moves, Wakes, Finishes

LEMMA StepTyped ==
  ASSUME Typed, NEW t \in Threads, Step(t) \/ SpuriousWakeup(t)
  PROVE  Typed' /\ Progresses
BY StepKinds, MovesStep, WakesStep, OtherSteps

LEMMA StepCounts ==
  ASSUME IInv, NEW t \in Threads, Step(t) \/ SpuriousWakeup(t)
  PROVE  Counts'
<1>1. Typed /\ Typed' /\ Progresses /\ Counts
  BY StepTyped DEF IInv
<1> DEFINE C == Cardinality(Since(NotCounted))
           O == Cardinality(Since(NotOpened))
<1>2. C <= C' /\ O <= O'
  BY <1>1, SinceGrows
<1>3. C \in Nat /\ O \in Nat /\ C' \in Nat /\ O' \in Nat
  BY SinceFinite, SinceFiniteNext
<1>4. threads_at_barrier <= C /\ barrier_opening_count <= O
      /\ threads_at_barrier \in Nat /\ barrier_opening_count \in Nat
  BY <1>1 DEF Counts, Typed
<1>5. Add(t) => C + 1 <= C'
  <2> SUFFICES ASSUME Add(t) PROVE C + 1 <= C'
    OBVIOUS
  <2>1. pc[t] = "add" /\ pc'[t] = "load" /\ paper'[t] = paper[t]
    BY <1>1 DEF Add, Goto, Typed
  <2>2. pc[t] \in NotCounted /\ pc'[t] \notin NotCounted
    BY <2>1 DEF NotCounted
  <2> QED BY <1>1, <2>1, <2>2, SinceGains
<1>6. Open(t) => O + 1 <= O'
  <2> SUFFICES ASSUME Open(t) PROVE O + 1 <= O'
    OBVIOUS
  <2>1. pc[t] = "open" /\ pc'[t] = "wake" /\ paper'[t] = paper[t]
    BY <1>1 DEF Open, Goto, Typed
  <2>2. pc[t] \in NotOpened /\ pc'[t] \notin NotOpened
    BY <2>1 DEF NotOpened, NotCounted
  <2> QED BY <1>1, <2>1, <2>2, SinceGains
<1>7. /\ threads_at_barrier' \in {0, threads_at_barrier}
         \/ (Add(t) /\ threads_at_barrier' = threads_at_barrier + 1)
      /\ \/ barrier_opening_count' = barrier_opening_count
         \/ Open(t) /\ barrier_opening_count' = barrier_opening_count + 1
  <2>1. CASE Moves(t) \/ Wakes(t)
    BY <1>1, <2>1, MovesStep, WakesStep
  <2>2. CASE Finishes(t)
    BY <2>2 DEF Finishes, shared
  <2>3. CASE Add(t)
    BY <2>3 DEF Add
  <2>4. CASE Reset(t)
    BY <2>4 DEF Reset
  <2>5. CASE Open(t)
    BY <2>5 DEF Open
  <2> QED BY <2>1, <2>2, <2>3, <2>4, <2>5, StepKinds
<1> HIDE DEF C, O
<1>8. threads_at_barrier' <= C' /\ barrier_opening_count' <= O'
  BY <1>2, <1>3, <1>4, <1>5, <1>6, <1>7
<1> QED BY <1>8 DEF Counts, C, O

LEMMA StepWakeup ==
  ASSUME IInv, NEW t \in Threads, Step(t) \/ SpuriousWakeup(t)
  PROVE  NoLostWakeup'
<1> SUFFICES ASSUME NEW s \in Threads, pc'[s] = "asleep", barrier_opening_count' > paper'[s]
             PROVE  \E u \in Threads : pc'[u] \in {"wake", "rewake"}
  BY DEF NoLostWakeup
<1>1. Typed /\ Typed' /\ NoLostWakeup
  BY StepTyped DEF IInv
<1>2. CASE Moves(t)
  <2>1. /\ UNCHANGED <<paper, barrier_opening_count>>
        /\ \A u \in Threads : u # t => pc'[u] = pc[u]
    BY <1>1, <1>2, MovesStep
  <2>2. pc[t] \notin {"wake", "rewake"}
    BY <1>2 DEF Moves, FinishWriting, CheckUnopened, LoadCount, CheckLeaving, FutexWait,
                SpuriousWakeup, Recheck
  <2>3. s = t => FALSE
    <3> SUFFICES ASSUME s = t PROVE FALSE
      OBVIOUS
    <3>1. FutexWait(t)
      BY <1>1, <1>2 DEF Moves, FinishWriting, CheckUnopened, LoadCount, CheckLeaving,
                        SpuriousWakeup, Recheck, Goto, Typed
    <3>2. barrier_opening_count = paper[t]
      BY <1>1, <3>1 DEF FutexWait, Goto, Typed
    <3> QED BY <1>1, <2>1, <3>2 DEF Typed
  <2>4. PICK u \in Threads : pc[u] \in {"wake", "rewake"}
    BY <1>1, <2>1, <2>3 DEF NoLostWakeup
  <2> QED BY <2>1, <2>2, <2>4
<1>3. CASE Wakes(t)
  BY <1>1, <1>3, WakesStep
<1>4. CASE Open(t)
  BY <1>1, <1>4 DEF Open, Goto, Typed
<1>5. CASE Finishes(t) \/ Add(t) \/ Reset(t)
  <2>1. \A u \in Threads : u # t => pc'[u] = pc[u] /\ paper'[u] = paper[u]
    BY <1>1, <1>5, OtherSteps
  <2>2. barrier_opening_count' = barrier_opening_count /\ pc[t] \notin {"wake", "rewake"}
        /\ pc'[t] # "asleep"
    BY <1>1, <1>5 DEF Finishes, FinishProofreading, Add, Reset, shared, Goto, Typed
  <2>3. PICK u \in Threads : pc[u] \in {"wake", "rewake"}
    BY <1>1, <2>1, <2>2 DEF NoLostWakeup
  <2> QED BY <2>1, <2>2, <2>3
<1> QED BY <1>2, <1>3, <1>4, <1>5, StepKinds

-----------------------------------------------------------------------------
\* The first use

LEMMA WaitingFinite ==
  /\ Waiting \subseteq Threads /\ IsFiniteSet(Waiting) /\ Cardinality(Waiting) \in Nat
  /\ Cardinality(Waiting) = THREADNUM => Waiting = Threads
<1>1. Waiting \subseteq Threads
  BY DEF Waiting
<1> QED BY <1>1, AuthorsAssumption, FS_Subset, FS_CardinalityType DEF THREADNUM

LEMMA StepGathering ==
  ASSUME IInv, NEW t \in Threads, Step(t) \/ SpuriousWakeup(t)
  PROVE  (AllCounted \/ Gathering)'
<1>1. Typed /\ Typed' /\ Progresses
  BY StepTyped DEF IInv
<1>2. CASE AllCounted
  <2>1. AllCounted'
    BY <1>1, <1>2 DEF AllCounted, Progresses, Typed
  <2> QED BY <2>1
<1>3. CASE Gathering
  <2>1. /\ \A u \in Threads : /\ paper[u] = 0
                              /\ pc[u] \in {"writing", "enter", "add", "load", "wait", "asleep", "recheck"}
        /\ threads_at_barrier = Cardinality(Waiting) /\ barrier_opening_count = 0
    BY <1>3 DEF Gathering, NotCounted
  <2>2. CASE LoadCount(t)
    <3>1. CASE threads_at_barrier = THREADNUM
      <4>1. Waiting = Threads
        BY <2>1, <3>1, WaitingFinite
      <4>2. AllCounted
        BY <4>1 DEF AllCounted, Waiting, NotCounted
      <4> QED BY <1>2, <4>2
    <3>2. CASE threads_at_barrier # THREADNUM
      <4>1. /\ pc' = [pc EXCEPT ![t] = "wait"] /\ pc[t] = "load"
            /\ UNCHANGED <<paper, threads_at_barrier, barrier_opening_count>>
        BY <2>2, <3>2 DEF LoadCount, Goto, shared
      <4>2. Waiting' = Waiting
        BY <1>1, <4>1 DEF Waiting, Typed
      <4>3. Gathering'
        BY <1>1, <2>1, <4>1, <4>2 DEF Gathering, Typed, NotCounted
      <4> QED BY <4>3
    <3> QED BY <3>1, <3>2
  <2>3. CASE Add(t)
    <3>1. /\ pc' = [pc EXCEPT ![t] = "load"] /\ pc[t] = "add"
          /\ threads_at_barrier' = threads_at_barrier + 1
          /\ UNCHANGED <<paper, barrier_opening_count>>
      BY <2>3 DEF Add, Goto
    <3>2. Waiting' = Waiting \cup {t} /\ t \notin Waiting
      BY <1>1, <3>1 DEF Waiting, Typed
    <3>3. Cardinality(Waiting') = Cardinality(Waiting) + 1
      BY <3>2, WaitingFinite, FS_AddElement
    <3>4. Gathering'
      BY <1>1, <2>1, <3>1, <3>3 DEF Gathering, Typed, NotCounted
    <3> QED BY <3>4
  <2>4. CASE ~LoadCount(t) /\ ~Add(t)
    <3>1. \E to \in {"enter", "add", "wait", "asleep", "recheck"} :
            /\ pc' = [pc EXCEPT ![t] = to]
            /\ to \in NotCounted <=> pc[t] \in NotCounted
            /\ UNCHANGED <<paper, threads_at_barrier, barrier_opening_count>>
      <4>1. \/ FinishWriting(t) /\ UNCHANGED shared
            \/ CheckUnopened(t) \/ FutexWait(t) \/ SpuriousWakeup(t) \/ Recheck(t)
        BY <2>1, <2>4 DEF Step, AuthorStep, FinishProofreading, Reset, Open, OpenerWakes,
                          CheckLeaving, WaiterWakes
      <4>2. CASE FinishWriting(t) /\ UNCHANGED shared
        BY <4>2 DEF FinishWriting, shared, Goto, NotCounted
      <4>3. CASE CheckUnopened(t)
        BY <2>1, <4>3 DEF CheckUnopened, shared, Goto, NotCounted
      <4>4. CASE FutexWait(t)
        BY <2>1, <4>4 DEF FutexWait, shared, Goto, NotCounted
      <4>5. CASE SpuriousWakeup(t)
        BY <4>5 DEF SpuriousWakeup, shared, Goto, NotCounted
      <4>6. CASE Recheck(t)
        <5>1. pc[t] = "recheck" /\ paper[t] = 0 /\ barrier_opening_count = 0
          BY <2>1, <4>6 DEF Recheck
        <5>2. pc' = [pc EXCEPT ![t] = "wait"]
              /\ UNCHANGED <<paper, threads_at_barrier, barrier_opening_count>>
          BY <4>6, <5>1 DEF Recheck, shared, Goto
        <5> QED BY <5>1, <5>2 DEF NotCounted
      <4> QED BY <4>1, <4>2, <4>3, <4>4, <4>5, <4>6
    <3>2. Waiting' = Waiting
      BY <1>1, <2>1, <3>1 DEF Waiting, NotCounted, Typed
    <3>3. Gathering'
      BY <1>1, <2>1, <3>1, <3>2 DEF Gathering, NotCounted, Typed
    <3> QED BY <3>3
  <2> QED BY <2>2, <2>3, <2>4
<1> QED BY <1>2, <1>3 DEF IInv

-----------------------------------------------------------------------------
LEMMA InitIInv == Init => IInv
<1> SUFFICES ASSUME Init PROVE IInv
  OBVIOUS
<1>1. /\ pc = [t \in Threads |-> "writing"] /\ paper = [t \in Threads |-> 0]
      /\ threads_at_barrier = 0 /\ barrier_opening_count = 0
  BY DEF Init, AuthorInit
<1>2. Typed
  BY <1>1, AuthorsAssumption DEF Typed, Labels
<1>3. Counts
  BY <1>1, SinceFinite DEF Counts
<1>4. NoLostWakeup
  BY <1>1 DEF NoLostWakeup
<1>5. Gathering
  <2>1. Waiting = {}
    BY <1>1 DEF Waiting
  <2> QED BY <1>1, <2>1, FS_EmptySet DEF Gathering, NotCounted
<1> QED BY <1>2, <1>3, <1>4, <1>5 DEF IInv

LEMMA NextIInv == IInv /\ [Next]_vars => IInv'
<1> SUFFICES ASSUME IInv, [Next]_vars PROVE IInv'
  OBVIOUS
<1>1. ASSUME NEW t \in Threads, Step(t) \/ SpuriousWakeup(t)
      PROVE  IInv'
  <2>1. Typed' /\ Counts' /\ NoLostWakeup' /\ (AllCounted \/ Gathering)'
    BY <1>1, StepTyped, StepCounts, StepWakeup, StepGathering DEF IInv
  <2> QED BY <2>1 DEF IInv
<1>2. CASE UNCHANGED vars
  <2>1. UNCHANGED <<pc, paper, threads_at_barrier, barrier_opening_count>>
    BY <1>2 DEF vars
  <2>2. Typed' /\ NoLostWakeup'
    BY <2>1 DEF IInv, Typed, NoLostWakeup
  <2>3. Counts'
    BY <2>1 DEF IInv, Counts, Since
  <2>4. (AllCounted \/ Gathering)'
    BY <2>1 DEF IInv, AllCounted, Gathering, Waiting
  <2> QED BY <2>2, <2>3, <2>4 DEF IInv
<1> QED BY <1>1, <1>2 DEF Next, Terminated

\* IInv is an invariant of the barrier.
THEOREM FutexInvariant == Spec => []IInv
<1> QED BY InitIInv, NextIInv, PTL DEF Spec

\* A thread counts itself once, and opens the barrier once, in each of its uses
\* at most (TypeOK; barrier_futex.c:82-103).
THEOREM CountsAreBounded == Spec => []TypeOK
<1>1. IInv => TypeOK
  <2> SUFFICES ASSUME IInv PROVE TypeOK
    OBVIOUS
  <2>1. /\ Cardinality(Since(NotCounted)) \in Nat /\ Cardinality(Since(NotOpened)) \in Nat
        /\ Cardinality(Since(NotCounted)) <= THREADNUM * PAPERNUM
        /\ Cardinality(Since(NotOpened)) <= THREADNUM * PAPERNUM
    BY SinceFinite
  <2>2. THREADNUM * PAPERNUM \in Nat
    BY ThreadnumNat, AuthorsAssumption
  <2>3. /\ threads_at_barrier \in 0..(THREADNUM * PAPERNUM)
        /\ barrier_opening_count \in 0..(THREADNUM * PAPERNUM)
    BY <2>1, <2>2 DEF IInv, Counts, Typed
  <2> QED BY <2>3 DEF TypeOK, IInv, Typed, Labels
<1> QED BY <1>1, FutexInvariant, PTL

\* A thread that sleeps although the barrier has been opened will be woken
\* (NoLostWakeup; barrier_futex.c:82-103).
THEOREM NobodyIsForgotten == Spec => []NoLostWakeup
<1>1. IInv => NoLostWakeup
  BY DEF IInv
<1> QED BY <1>1, FutexInvariant, PTL

-----------------------------------------------------------------------------
\* The first use as the abstract barrier sees it
LEMMA OnceIs ==
  ASSUME Typed, NEW u \in Threads
  PROVE  /\ Once(Arrived)[u] = IF paper[u] = 0 /\ pc[u] = "writing" THEN 0 ELSE 1
         /\ Once(Passed)[u] = IF paper[u] = 0 /\ pc[u] # "proofreading" THEN 0 ELSE 1
<1>1. paper[u] \in Nat /\ (pc[u] = "joined" => paper[u] > 0)
  BY AuthorsAssumption DEF Typed
<1> QED BY <1>1 DEF Once, Arrived, Passed

LEMMA OnceIsNext ==
  ASSUME Typed', NEW u \in Threads
  PROVE  /\ Once(Arrived')[u] = IF paper'[u] = 0 /\ pc'[u] = "writing" THEN 0 ELSE 1
         /\ Once(Passed')[u] = IF paper'[u] = 0 /\ pc'[u] # "proofreading" THEN 0 ELSE 1
<1>1. paper'[u] \in Nat /\ (pc'[u] = "joined" => paper'[u] > 0)
  BY AuthorsAssumption DEF Typed
<1> QED BY <1>1 DEF Once, Arrived, Passed

LEMMA OnceSame ==
  ASSUME Typed, Typed',
         \A u \in Threads :
           /\ paper'[u] = 0 /\ pc'[u] = "writing" <=> paper[u] = 0 /\ pc[u] = "writing"
           /\ paper'[u] = 0 /\ pc'[u] # "proofreading"
                <=> paper[u] = 0 /\ pc[u] # "proofreading"
  PROVE  UNCHANGED First!vars
<1>1. \A u \in Threads : Once(Arrived')[u] = Once(Arrived)[u] /\ Once(Passed')[u] = Once(Passed)[u]
  BY OnceIs, OnceIsNext
<1>2. Once(Arrived') = Once(Arrived) /\ Once(Passed') = Once(Passed)
  BY <1>1 DEF Once
<1> QED BY <1>2 DEF First!vars, Once

LEMMA OnceType == ASSUME NEW n PROVE Once(n) \in [Threads -> {0, 1}]
BY DEF Once

LEMMA OneMore ==
  ASSUME NEW f \in [Threads -> {0, 1}], NEW g \in [Threads -> {0, 1}], NEW t \in Threads,
         f[t] = 0, \A u \in Threads : g[u] = IF u = t THEN 1 ELSE f[u]
  PROVE  g = [f EXCEPT ![t] = @ + 1]
OBVIOUS

LEMMA ArriveOnce ==
  ASSUME Typed, Typed', NEW t \in Threads, FinishWriting(t), paper[t] = 0
  PROVE  First!Arrive(t)
<1>1. pc[t] = "writing" /\ pc' = [pc EXCEPT ![t] = "enter"] /\ paper' = paper
  BY DEF FinishWriting, Goto
<1>2. Once(Arrived)[t] = 0 /\ Once(Passed)[t] = 0
  BY <1>1, OnceIs
<1>3. \A u \in Threads : /\ Once(Arrived')[u] = IF u = t THEN 1 ELSE Once(Arrived)[u]
                         /\ Once(Passed')[u] = Once(Passed)[u]
  BY <1>1, OnceIs, OnceIsNext DEF Typed
<1>4. Once(Arrived') = [Once(Arrived) EXCEPT ![t] = @ + 1]
  BY <1>2, <1>3, OnceType, OneMore
<1>5. Once(Passed') = Once(Passed)
  BY <1>3 DEF Once
<1> QED BY <1>2, <1>4, <1>5 DEF First!Arrive, Once

LEMMA PassOnce ==
  ASSUME Typed, Typed', AllCounted, NEW t \in Threads, paper[t] = 0, paper' = paper,
         pc[t] \in {"leave", "rewake"}, pc'[t] = "proofreading",
         \A u \in Threads : u # t => pc'[u] = pc[u] \/ (pc[u] = "asleep" /\ pc'[u] = "recheck")
  PROVE  First!Pass(t)
<1>1. \A u \in Threads : Once(Arrived)[u] = 1
  BY OnceIs DEF AllCounted, NotCounted
<1>2. Once(Passed)[t] = 0
  BY OnceIs
<1>3. \A u \in Threads : /\ Once(Passed')[u] = IF u = t THEN 1 ELSE Once(Passed)[u]
                         /\ Once(Arrived')[u] = Once(Arrived)[u]
  BY OnceIs, OnceIsNext
<1>4. Once(Passed') = [Once(Passed) EXCEPT ![t] = @ + 1]
  BY <1>2, <1>3, OnceType, OneMore
<1>5. Once(Arrived') = Once(Arrived)
  BY <1>3 DEF Once
<1> QED BY <1>1, <1>2, <1>4, <1>5 DEF First!Pass, Once

LEMMA StepFirst ==
  ASSUME IInv, NEW t \in Threads, Step(t) \/ SpuriousWakeup(t)
  PROVE  [First!Next]_(First!vars)
<1>1. Typed /\ Typed'
  BY StepTyped DEF IInv
<1>2. CASE FinishWriting(t) /\ UNCHANGED shared
  <2>1. CASE paper[t] = 0
    BY <1>1, <1>2, <2>1, ArriveOnce DEF First!Next
  <2>2. CASE paper[t] # 0
    <3>1. pc' = [pc EXCEPT ![t] = "enter"] /\ paper' = paper /\ pc[t] = "writing"
      BY <1>2 DEF FinishWriting, Goto
    <3>2. UNCHANGED First!vars
      BY <1>1, <2>2, <3>1, OnceSame DEF Typed
    <3> QED BY <3>2
  <2> QED BY <2>1, <2>2
<1>3. CASE Finishes(t)
  <2>1. /\ \A u \in Threads : u # t => pc'[u] = pc[u] /\ paper'[u] = paper[u]
        /\ paper[t] \in Nat /\ paper'[t] = paper[t] + 1 /\ pc[t] = "proofreading"
    <3>1. \A u \in Threads : u # t => pc'[u] = pc[u] /\ paper'[u] = paper[u]
      BY <1>1, <1>3, OtherSteps
    <3> QED BY <1>1, <1>3, <3>1, AuthorsAssumption DEF Finishes, FinishProofreading, Typed
  <2>2. UNCHANGED First!vars
    BY <1>1, <2>1, OnceSame
  <2> QED BY <2>2
<1>4. CASE /\ CheckLeaving(t) \/ Wakes(t)
           /\ pc'[t] = "proofreading" /\ paper[t] = 0
  <2>1. /\ pc[t] \in {"leave", "rewake"} /\ paper' = paper
        /\ \A u \in Threads : u # t => pc'[u] = pc[u] \/ (pc[u] = "asleep" /\ pc'[u] = "recheck")
    <3>1. CASE CheckLeaving(t)
      BY <1>1, <3>1 DEF CheckLeaving, Goto, Typed
    <3>2. CASE OpenerWakes(t)
      BY <1>1, <1>4, <3>2 DEF OpenerWakes, WakeAll
    <3>3. CASE WaiterWakes(t)
      BY <1>1, <3>3 DEF WaiterWakes, WakeAll
    <3> QED BY <1>4, <3>1, <3>2, <3>3 DEF Wakes
  <2>2. AllCounted
    BY <2>1 DEF IInv, Gathering, NotCounted
  <2>3. First!Pass(t)
    BY <1>1, <1>4, <2>1, <2>2, PassOnce
  <2> QED BY <2>3 DEF First!Next
<1>5. CASE /\ ~(FinishWriting(t) /\ UNCHANGED shared) /\ ~Finishes(t)
           /\ ~((CheckLeaving(t) \/ Wakes(t)) /\ pc'[t] = "proofreading" /\ paper[t] = 0)
  <2>1. \A u \in Threads : u # t => paper'[u] = paper[u]
          /\ (pc'[u] = pc[u] \/ (pc[u] = "asleep" /\ pc'[u] = "recheck"))
    BY <1>1, <1>5, StepKinds, MovesStep, WakesStep, OtherSteps
  <2>2. /\ paper'[t] = paper[t] /\ pc[t] \notin {"writing", "proofreading"}
        /\ pc'[t] # "writing" /\ (paper[t] = 0 => pc'[t] # "proofreading")
    <3>1. CASE CheckUnopened(t) \/ Add(t) \/ LoadCount(t) \/ Reset(t) \/ Open(t)
               \/ FutexWait(t) \/ SpuriousWakeup(t) \/ Recheck(t)
      BY <1>1, <3>1 DEF CheckUnopened, Add, LoadCount, Reset, Open, FutexWait, SpuriousWakeup,
                        Recheck, Goto, Typed
    <3>2. CASE CheckLeaving(t) \/ Wakes(t)
      BY <1>1, <1>5, <3>2 DEF CheckLeaving, Wakes, OpenerWakes, WaiterWakes, WakeAll, Goto, Typed
    <3> QED BY <1>5, <3>1, <3>2 DEF Step, AuthorStep, Finishes, Wakes
  <2>3. UNCHANGED First!vars
    BY <1>1, <2>1, <2>2, OnceSame
  <2> QED BY <2>3
<1> QED BY <1>2, <1>3, <1>4, <1>5

\* The first time it is used, it is a barrier: no thread gets out before all
\* have arrived, although two may open it (barrier_futex.c:82-88).
THEOREM FirstUse == Spec => FirstUseIsBarrier
<1>1. Init => First!Init
  BY DEF Init, AuthorInit, Arrived, Passed, Once, First!Init
<1>2. IInv /\ [Next]_vars => [First!Next]_(First!vars)
  <2> SUFFICES ASSUME IInv, [Next]_vars PROVE [First!Next]_(First!vars)
    OBVIOUS
  <2>1. CASE UNCHANGED vars
    BY <2>1 DEF vars, Arrived, Passed, Once, First!vars
  <2> QED BY <2>1, StepFirst DEF Next, Terminated
<1> QED BY <1>1, <1>2, FutexInvariant, PTL DEF Spec, FirstUseIsBarrier
=============================================================================
