-------------------------- MODULE MCLockFreeQueue --------------------------
(***************************************************************************)
(* Instances of LockFreeQueue for TLC.                                     *)
(***************************************************************************)
EXTENDS LockFreeQueue

\* The thread that may stop anywhere makes one call more than the one that runs.
MCOps == [t \in Threads |-> IF t \in Fair THEN 2 ELSE 3]
=============================================================================
