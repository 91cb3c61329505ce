----------------------------- MODULE InputQueue -----------------------------
(***************************************************************************)
(* What cons_getc gives to its caller: the characters received, in order,  *)
(* until SIZE of them are waiting; then all of them are forgotten.         *)
(***************************************************************************)
EXTENDS Integers, Sequences

CONSTANTS
  Characters,   \* what may be received; 0 is none
  SIZE

VARIABLES
  queue,    \* the characters waiting
  result    \* what the last call has returned

vars == <<queue, result>>

Init == queue = <<>> /\ result = 0

Receive(c) ==
  /\ queue' = IF Len(queue) + 1 < SIZE THEN Append(queue, c) ELSE <<>>
  /\ UNCHANGED result

Take == queue # <<>> /\ queue' = Tail(queue) /\ result' = Head(queue)

NothingThere == queue = <<>> /\ result' = 0 /\ UNCHANGED queue

Next == (\E c \in Characters : Receive(c)) \/ Take \/ NothingThere

Spec == Init /\ [][Next]_vars
=============================================================================
