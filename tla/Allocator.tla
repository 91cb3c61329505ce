----------------------------- MODULE Allocator -----------------------------
(***************************************************************************)
(* What a program expects of malloc and free: a successful malloc(n) gives *)
(* it n bytes that belong to the heap, are aligned, and overlap nothing it *)
(* already has, and free takes them back.                                  *)
(***************************************************************************)
EXTENDS Integers

CONSTANTS
  Requests,    \* the sizes the program asks for
  HeapBytes,   \* the addresses of the heap are 0 .. HeapBytes - 1
  Alignment

VARIABLE client   \* client[p] = n: the program holds the n bytes from p on

Disjoint(p, n, q, m) == p + n <= q \/ q + m <= p

Init == client = <<>>

Malloc(n, p) ==
  /\ p \in 0..(HeapBytes - n)
  /\ p % Alignment = 0
  /\ p \notin DOMAIN client
  /\ \A q \in DOMAIN client : Disjoint(p, n, q, client[q])
  /\ client' = [q \in DOMAIN client \cup {p} |-> IF q = p THEN n ELSE client[q]]

Free(p) ==
  /\ p \in DOMAIN client
  /\ client' = [q \in DOMAIN client \ {p} |-> client[q]]

Next ==
  \/ \E n \in Requests, p \in 0..HeapBytes : Malloc(n, p)
  \/ \E p \in DOMAIN client : Free(p)

Spec == Init /\ [][Next]_client
=============================================================================
