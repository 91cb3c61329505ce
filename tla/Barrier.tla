------------------------------ MODULE Barrier ------------------------------
(***************************************************************************)
(* What a reusable barrier promises its callers, as the comments above     *)
(* wait_at_barrier put it: it "does not open until all threads are ready   *)
(* to pass", then "the threads waiting will unblock", and after opening it *)
(* can be used again for the next iteration.  A thread is described by how *)
(* often it has called wait_at_barrier and how often it has returned.      *)
(***************************************************************************)
EXTENDS Naturals

CONSTANTS
  Threads,   \* the threads that share the barrier
  Rounds     \* how many times each of them uses it

VARIABLES
  arrived,   \* arrived[t]: calls of wait_at_barrier by t
  passed     \* passed[t]: returns from wait_at_barrier to t

vars == <<arrived, passed>>

Init ==
  /\ arrived = [t \in Threads |-> 0]
  /\ passed  = [t \in Threads |-> 0]

Arrive(t) ==
  /\ arrived[t] = passed[t]
  /\ arrived[t] < Rounds
  /\ arrived' = [arrived EXCEPT ![t] = @ + 1]
  /\ UNCHANGED passed

\* A waiting thread leaves once every thread has arrived as often as it has.
Pass(t) ==
  /\ passed[t] < arrived[t]
  /\ \A u \in Threads : arrived[u] >= arrived[t]
  /\ passed' = [passed EXCEPT ![t] = @ + 1]
  /\ UNCHANGED arrived

Next == \E t \in Threads : Arrive(t) \/ Pass(t)

\* An open barrier lets every waiting thread out; nobody is obliged to arrive.
Spec == Init /\ [][Next]_vars /\ \A t \in Threads : WF_vars(Pass(t))
=============================================================================
