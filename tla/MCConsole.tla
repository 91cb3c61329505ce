------------------------------ MODULE MCConsole ------------------------------
(* A few keys of a PC keyboard and what is printed on them, for TLC. *)
EXTENDS Console

Key(c, e, f, p, s, t) ==
  [code |-> c, extended |-> e, flags |-> f, plain |-> p, shifted |-> s, control |-> t]

MCKeys ==
  {Key(42, FALSE, {"SHIFT"}, 0, 0, 0),
   Key(29, TRUE, {"CTL"}, 0, 0, 0), Key(56, FALSE, {"ALT"}, 0, 0, 0),
   Key(58, FALSE, {"CAPSLOCK"}, 0, 0, 0),
   Key(30, FALSE, {}, 97, 65, 1), Key(83, TRUE, {}, 233, 233, 233)}

ASSUME MCKeysInTables == \A k \in MCKeys : InTables(k)

MCChars == {"x", "BS", "NL", "CR", "TAB"}

\* Output and input do not depend on each other.
MCBudgets == {[prints |-> 4, events |-> 0], [prints |-> 0, events |-> 4]}
=============================================================================
