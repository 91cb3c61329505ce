------------------------------ MODULE Terminal ------------------------------
(***************************************************************************)
(* What the console shows and sends, apart from any buffer: text on an     *)
(* endless roll, of which the screen shows the last ROWS rows.             *)
(***************************************************************************)
EXTENDS Integers, Sequences

CONSTANTS
  ROWS, COLS,   \* the size of the screen
  Chars,        \* what may be printed, among it BS, NL, CR and TAB
  Blank

VARIABLES
  roll,   \* all cells, the first row first
  pos,    \* the cursor: how many cells are before it
  line    \* what has been sent to the serial line and to the printer

vars == <<roll, pos, line>>

Top == Len(roll) - ROWS * COLS     \* the first cell on the screen

Init ==
  /\ Len(roll) = ROWS * COLS
  /\ pos \in 0..(ROWS * COLS - 1)
  /\ line = <<>>

\* Where the cursor goes.
Target(c) ==
  CASE c = "BS"  -> IF pos > Top THEN pos - 1 ELSE pos
    [] c = "NL"  -> pos - (pos % COLS) + COLS
    [] c = "CR"  -> pos - (pos % COLS)
    [] c = "TAB" -> pos + 5
    [] OTHER     -> pos + 1

\* The cells that are written, and with what.
Written(c) ==
  CASE c = "BS"         -> Target(c)..(pos - 1)
    [] c \in {"NL", "CR"} -> {}
    [] OTHER            -> pos..(Target(c) - 1)

Ink(c) == IF c \in {"BS", "TAB"} THEN Blank ELSE c

\* A tab is sent as it is and once more as blanks.
Type(c) ==
  LET row == Target(c) \div COLS + 1
      new == IF row * COLS > Len(roll) THEN row * COLS ELSE Len(roll)
  IN  /\ roll' = [i \in 1..new |-> IF i - 1 \in Written(c) THEN Ink(c)
                                   ELSE IF i <= Len(roll) THEN roll[i] ELSE Blank]
      /\ pos' = Target(c)
      /\ line' = line \o (IF c = "TAB" THEN <<c, Blank, Blank, Blank, Blank, Blank>>
                          ELSE <<c>>)

Next == \E c \in Chars : Type(c)

Spec == Init /\ [][Next]_vars
=============================================================================
