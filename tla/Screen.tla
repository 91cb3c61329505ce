------------------------------- MODULE Screen -------------------------------
(***************************************************************************)
(* The output half of kern/console.c: cons_putc sends a character to the   *)
(* serial line and to the printer, which are sent the same, and puts it on *)
(* the screen.  A cell is the character in it; attributes are left out.    *)
(***************************************************************************)
EXTENDS Integers, Sequences

CONSTANTS
  CRT_ROWS, CRT_COLS,   \* 25 and 80
  Chars,                \* what is printed, among it BS, NL, CR and TAB
  Cursors               \* where the BIOS may have left the cursor

VARIABLE screen   \* [buf, pos, gone, line]: the cells, the cursor, and as
                  \* history the cells scrolled away and what has been sent

CRT_SIZE == CRT_ROWS * CRT_COLS
Cells == 0..(CRT_SIZE - 1)
Blank == " "

ASSUME ScreenAssumption ==
  /\ CRT_ROWS \in Nat \ {0} /\ CRT_COLS \in Nat \ {0}
  /\ Cursors \subseteq Cells

\* What the BIOS has left on the screen.
CgaInit ==
  screen \in [buf : {[i \in Cells |-> "bios"]}, pos : Cursors, gone : {<<>>}, line : {<<>>}]

\* Faulty variant: the screen scrolls when the cursor has passed its end.
ScrolledLate(s) ==
  IF s.pos <= CRT_SIZE THEN s ELSE
  [s EXCEPT
     !.buf  = [i \in Cells |-> IF i + CRT_COLS < CRT_SIZE THEN s.buf[i + CRT_COLS] ELSE Blank],
     !.pos  = @ - CRT_COLS,
     !.gone = @ \o [i \in 1..CRT_COLS |-> s.buf[i - 1]]]

\* Faulty variant: the last row is not cleared.
ScrolledUncleared(s) ==
  IF s.pos < CRT_SIZE THEN s ELSE
  [s EXCEPT
     !.buf  = [i \in Cells |-> IF i + CRT_COLS < CRT_SIZE THEN s.buf[i + CRT_COLS] ELSE s.buf[i]],
     !.pos  = @ - CRT_COLS,
     !.gone = @ \o [i \in 1..CRT_COLS |-> s.buf[i - 1]]]

\* One row up, if the cursor has left the screen.
Scrolled(s) ==
  IF s.pos < CRT_SIZE THEN s ELSE
  [s EXCEPT
     !.buf  = [i \in Cells |-> IF i + CRT_COLS < CRT_SIZE THEN s.buf[i + CRT_COLS] ELSE Blank],
     !.pos  = @ - CRT_COLS,
     !.gone = @ \o [i \in 1..CRT_COLS |-> s.buf[i - 1]]]

RowStart(p) == p - (p % CRT_COLS)

\* cga_putc of anything but a tab, up to the scrolling.
Placed(s, c) ==
  CASE c = "BS" -> IF s.pos > 0 THEN [s EXCEPT !.pos = @ - 1, !.buf[s.pos - 1] = Blank] ELSE s
    [] c = "NL" -> [s EXCEPT !.pos = RowStart(@ + CRT_COLS)]
    [] c = "CR" -> [s EXCEPT !.pos = RowStart(@)]
    [] OTHER    -> [s EXCEPT !.pos = @ + 1, !.buf[s.pos] = c]

\* serial_putc and lpt_putc, which wait only so long for the device to be ready.
Sent(s, c) == [s EXCEPT !.line = Append(@, c)]

Put(s, c) == Scrolled(Placed(Sent(s, c), c))

\* A tab comes back to cons_putc as five blanks.
ConsPutc(s, c) ==
  IF c # "TAB" THEN Put(s, c)
  ELSE Scrolled(Put(Put(Put(Put(Put(Sent(s, c), Blank), Blank), Blank), Blank), Blank))

Cputchar(c) == screen' = ConsPutc(screen, c)

-----------------------------------------------------------------------------
\* The cursor never leaves the screen, so that every character is written
\* inside the buffer (console.c:163-202).
CursorInside == screen.pos \in Cells /\ DOMAIN screen.buf = Cells

Paper == INSTANCE Terminal WITH
           ROWS <- CRT_ROWS, COLS <- CRT_COLS,
           roll <- screen.gone \o [i \in 1..CRT_SIZE |-> screen.buf[i - 1]],
           pos <- Len(screen.gone) + screen.pos,
           line <- screen.line

\* The screen is a window on an endless roll: scrolling loses, repeats and
\* moves nothing, also in the middle of a tab.
ImplementsTerminal == Paper!Spec
=============================================================================
