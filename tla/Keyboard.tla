------------------------------ MODULE Keyboard ------------------------------
(***************************************************************************)
(* kbd_proc_data of kern/console.c: what the codes of a PC keyboard mean.  *)
(* A character is its ASCII code, or one of the KEY_ codes of kbdreg.h.    *)
(* shift is the set of the flags that are on.                              *)
(***************************************************************************)
EXTENDS Integers, Sequences

NO == 0
KEY_HOME == 224
KEY_DEL == 233

\* <<code, KEY_UP>> and so on, but for the code of KEY_HOME.
CursorKeys ==
  {<<207, 225>>, <<200, 226>>, <<208, 227>>, <<203, 228>>, <<205, 229>>,
   <<201, 230>>, <<209, 231>>, <<210, 232>>, <<211, KEY_DEL>>}

Keypad == CursorKeys \cup {<<199, KEY_HOME>>, <<156, 10>>, <<181, 47>>}

\* A C array with its first elements, and others by index.
Table(first, others) ==
  [d \in 0..255 |->
     IF d < Len(first) THEN first[d + 1]
     ELSE IF \E p \in others : p[1] = d THEN (CHOOSE p \in others : p[1] = d)[2]
     ELSE NO]

normalkeys ==
  <<NO, 27, 49, 50, 51, 52, 53, 54, 55, 56, 57, 48, 45, 61, 8, 9,
    113, 119, 101, 114, 116, 121, 117, 105, 111, 112, 91, 93, 10, NO, 97, 115,
    100, 102, 103, 104, 106, 107, 108, 59, 39, 96, NO, 92, 122, 120, 99, 118,
    98, 110, 109, 44, 46, 47, NO, 42, NO, 32, NO, NO, NO, NO, NO, NO,
    NO, NO, NO, NO, NO, NO, NO, 55, 56, 57, 45, 52, 53, 54, 43, 49,
    50, 51, 48, 46>>

normalmap == Table(normalkeys, Keypad)

shiftkeys ==
  <<NO, 27, 33, 64, 35, 36, 37, 94, 38, 42, 40, 41, 95, 43, 8, 9,
    81, 87, 69, 82, 84, 89, 85, 73, 79, 80, 123, 125, 10, NO, 65, 83,
    68, 70, 71, 72, 74, 75, 76, 58, 34, 126, NO, 124, 90, 88, 67, 86,
    66, 78, 77, 60, 62, 63, NO, 42, NO, 32, NO, NO, NO, NO, NO, NO,
    NO, NO, NO, NO, NO, NO, NO, 55, 56, 57, 45, 52, 53, 54, 43, 49,
    50, 51, 48, 46>>

shiftmap == Table(shiftkeys, Keypad)

\* C('/') is '/' - '@' in a byte.
ctlkeys ==
  <<NO, NO, NO, NO, NO, NO, NO, NO, NO, NO, NO, NO, NO, NO, NO, NO,
    17, 23, 5, 18, 20, 25, 21, 9, 15, 16, NO, NO, 13, NO, 1, 19,
    4, 6, 7, 8, 10, 11, 12, NO, NO, NO, NO, 28, 26, 24, 3, 22,
    2, 14, 13, NO, NO, 239>>

\* Home is at index 0x97, not at 0xC7.
ctlmap == Table(ctlkeys, CursorKeys \cup {<<151, KEY_HOME>>, <<181, 239>>})

shiftcode(d) ==
  CASE d \in {29, 157} -> {"CTL"}
    [] d \in {42, 54}  -> {"SHIFT"}
    [] d \in {56, 184} -> {"ALT"}
    [] OTHER           -> {}

togglecode(d) ==
  CASE d = 58 -> {"CAPSLOCK"}
    [] d = 69 -> {"NUMLOCK"}
    [] d = 70 -> {"SCROLLLOCK"}
    [] OTHER  -> {}

charcode(shift) ==
  IF "CTL" \in shift THEN ctlmap ELSE IF "SHIFT" \in shift THEN shiftmap ELSE normalmap

SwapCase(c) == IF c \in 97..122 THEN c - 32 ELSE IF c \in 65..90 THEN c + 32 ELSE c

Toggled(shift, d) == (shift \ togglecode(d)) \cup (togglecode(d) \ shift)

\* What the code data does to shift, and which character it completes, if any.
Meaning(shift, char) == [shift |-> shift, char |-> char]

\* Faulty variant: the escape stays in force after a release.
ReleasedKeepsEscape(shift, data) ==
  LET d == IF "E0ESC" \in shift THEN data ELSE data - 128
  IN  Meaning(shift \ shiftcode(d), NO)

Released(shift, data) ==
  LET d == IF "E0ESC" \in shift THEN data ELSE data - 128
  IN  Meaning(shift \ (shiftcode(d) \cup {"E0ESC"}), NO)

Pressed(shift, data) ==
  LET d  == IF "E0ESC" \in shift THEN data + 128 ELSE data
      on == Toggled((shift \ {"E0ESC"}) \cup shiftcode(d), d)
      c  == charcode(on)[d]
  IN  Meaning(on, IF "CAPSLOCK" \in on THEN SwapCase(c) ELSE c)

Decoded(shift, data) ==
  CASE data = 224             -> Meaning(shift \cup {"E0ESC"}, NO)
    [] data # 224 /\ data >= 128 -> Released(shift, data)
    [] OTHER                  -> Pressed(shift, data)

\* Ctrl-Alt-Del
Reboots(m) == {"CTL", "ALT"} \subseteq m.shift /\ m.char = KEY_DEL
=============================================================================
