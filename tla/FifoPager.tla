----------------------------- MODULE FifoPager -----------------------------
(***************************************************************************)
(* A pager that keeps at most limit pages in memory and makes room by      *)
(* throwing out the one that has been there the longest.                   *)
(***************************************************************************)
EXTENDS Integers, Sequences, SequencesExt

CONSTANTS Pages, Limits

VARIABLES
  limit,
  resident   \* the pages in memory, the oldest first

vars == <<limit, resident>>

Init == limit = 0 /\ resident = <<>>

\* A new instance starts with no page.
Start == limit' \in Limits /\ resident' = <<>>

Load(p) ==
  /\ limit > 0
  /\ p \notin ToSet(resident)
  /\ resident' = Append(IF Len(resident) < limit THEN resident ELSE Tail(resident), p)
  /\ UNCHANGED limit

Next == Start \/ \E p \in Pages : Load(p)

Spec == Init /\ [][Next]_vars
=============================================================================
