---------------------------- MODULE ForthSession ----------------------------
(***************************************************************************)
(* What a driver of the Forth interpreter promises: every line of input is *)
(* run, in order, and what the lines emit is shown in batches, in order;   *)
(* at the end nothing is left.  What is shown of a batch ends at the first *)
(* character that ends a string; what follows in that batch is lost.  A    *)
(* line that fails ends the session at once.                               *)
(***************************************************************************)
EXTENDS Integers, Sequences

CONSTANTS
  Lines,             \* a line is a file and its place in it
  Characters,        \* what a line may emit ...
  NUL,               \* ... besides the character that ends a string
  Noise              \* something that nobody has emitted

VARIABLES
  todo,    \* the set of the lines still to run
  begun,   \* whether one has been run
  pending, \* what has been emitted and is not yet shown
  shown,   \* what the user has seen
  over     \* "no", "ended" or "failed"

vars == <<todo, begun, pending, shown, over>>

Init ==
  /\ todo \in SUBSET Lines /\ begun = FALSE
  /\ pending = <<>> /\ shown = <<>> /\ over = "no"

\* Files in their order, and each from its beginning.
Before(l, m) == l[1] < m[1] \/ (l[1] = m[1] /\ l[2] < m[2])

RunLine(l) ==
  /\ \A m \in todo \ {l} : Before(l, m)
  /\ todo' = todo \ {l}
  /\ begun' = TRUE
  /\ UNCHANGED <<pending, shown, over>>

Emit(c) ==
  /\ begun
  /\ pending' = Append(pending, c)
  /\ UNCHANGED <<todo, begun, shown, over>>

\* Once, before the first line, something meaningless may be shown.
ShowNoise ==
  /\ ~begun /\ shown = <<>>
  /\ shown' = <<Noise>>
  /\ UNCHANGED <<todo, begun, pending, over>>

\* n characters of s come before the first that ends it.
EndsAt(s, n) == (\A i \in 1..n : s[i] # NUL) /\ (n = Len(s) \/ s[n + 1] = NUL)
Cut(s) == SubSeq(s, 1, CHOOSE n \in 0..Len(s) : EndsAt(s, n))

ShowBatch == shown' = shown \o Cut(pending) /\ pending' = <<>>

Show == ShowBatch /\ UNCHANGED <<todo, begun, over>>

\* All is shown now, if not before.
End ==
  /\ todo = {}
  /\ over' = "ended"
  /\ ShowBatch
  /\ UNCHANGED <<todo, begun>>

\* The rest of the input is not run, and the rest of the output not shown.
Fail == over' = "failed" /\ UNCHANGED <<todo, begun, pending, shown>>

Next ==
  /\ over = "no"
  /\ \/ \E l \in todo : RunLine(l)
     \/ \E c \in Characters \cup {NUL} : Emit(c)
     \/ ShowNoise \/ Show \/ End \/ Fail

Spec == Init /\ [][Next]_vars
=============================================================================
