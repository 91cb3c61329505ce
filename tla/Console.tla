------------------------------- MODULE Console -------------------------------
(***************************************************************************)
(* The console of kern/console.c: the screen, and the input from keyboard  *)
(* and serial line through the ring cons.  Interrupts are off in JOS: a    *)
(* call runs to its end, while the devices go on.                          *)
(***************************************************************************)
EXTENDS Screen, Keyboard

CONSTANTS
  CONSBUFSIZE,   \* 512
  Keys,          \* [code, extended, flags, plain, shifted, control]: the codes
                 \* of a key, the flags it stands for, and what it types
  SerialChars,   \* what the serial line brings
  Budgets        \* bounds: [prints, events], characters printed and events
                 \* of the input devices

Flags == {"SHIFT", "CTL", "ALT", "CAPSLOCK", "NUMLOCK", "SCROLLLOCK"}

ASSUME ConsoleAssumption ==
  /\ CONSBUFSIZE \in Nat /\ CONSBUFSIZE > 1
  /\ Keys \subseteq [code : 0..127, extended : BOOLEAN, flags : SUBSET Flags,
                     plain : 0..255, shifted : 0..255, control : 0..255]
  /\ SerialChars \subseteq 0..255

VARIABLES
  buf, rpos, wpos,   \* cons
  shift,             \* of kbd_proc_data
  serial_exists,
  at,                \* the loop that the current call is in, or "idle"
  caller,            \* who made it: "cons_getc", "getchar", an interrupt, or "nobody"
  result,            \* what the last call of cons_getc or getchar returned
  rebooted,
  kbd, com,          \* codes and characters that the devices have to offer
  held, mods,        \* history: keys held down, flags as the user means them
  decoded,           \* history: the last code decoded, and what was meant by it
  left               \* what is left of the budget

cons == <<buf, rpos, wpos>>
devices == <<kbd, com, held, mods>>
inputvars == <<cons, shift, serial_exists, at, caller, result, rebooted, devices, decoded>>
vars == <<screen, inputvars, left>>

Init ==
  /\ CgaInit
  /\ buf = [i \in 0..(CONSBUFSIZE - 1) |-> 0] /\ rpos = 0 /\ wpos = 0
  /\ shift = {}
  /\ serial_exists \in BOOLEAN
  /\ at = "idle" /\ caller = "nobody" /\ result = 0 /\ rebooted = FALSE
  /\ kbd = <<>> /\ com = <<>> /\ held = {} /\ mods = {}
  /\ decoded = [got |-> NO, meant |-> NO]
  /\ left \in Budgets

-----------------------------------------------------------------------------
(* The devices (external). *)

Event == left.events > 0 /\ left' = [left EXCEPT !.events = @ - 1]

\* A code, whether it is the mouse's, and what it is meant to type.
Code(data, meant) == [data |-> data, mouse |-> FALSE, meant |-> meant]
Escape(k) == IF k.extended THEN <<Code(224, NO)>> ELSE <<>>

Toggles == {"CAPSLOCK", "NUMLOCK", "SCROLLLOCK"}

Typed(k, on) ==
  LET c == IF "CTL" \in on THEN k.control ELSE IF "SHIFT" \in on THEN k.shifted ELSE k.plain
  IN  IF "CAPSLOCK" \in on THEN SwapCase(c) ELSE c

\* A key that is held is not pressed again: the codes that a keyboard repeats
\* while it is held (a held CAPS LOCK would toggle once for each) are left out.
PressKey(k) ==
  LET on == IF k.flags \subseteq mods /\ k.flags \subseteq Toggles
            THEN mods \ k.flags ELSE mods \cup k.flags
  IN  /\ k \notin held
      /\ held' = held \cup {k}
      /\ mods' = on
      /\ kbd' = kbd \o Escape(k) \o <<Code(k.code, Typed(k, on))>>
      /\ UNCHANGED com

\* One of two keys for the same flag is enough to end it.
ReleaseKey(k) ==
  /\ k \in held
  /\ held' = held \ {k}
  /\ mods' = mods \ (k.flags \ Toggles)
  /\ kbd' = kbd \o Escape(k) \o <<Code(k.code + 128, NO)>>
  /\ UNCHANGED com

MouseMoves ==
  /\ kbd' = Append(kbd, [data |-> 8, mouse |-> TRUE, meant |-> NO])
  /\ UNCHANGED <<com, held, mods>>

SerialArrives(c) == com' = Append(com, c) /\ UNCHANGED <<kbd, held, mods>>

DeviceStep ==
  /\ Event
  /\ \/ \E k \in Keys : PressKey(k) \/ ReleaseKey(k)
     \/ MouseMoves
     \/ serial_exists /\ \E c \in SerialChars : SerialArrives(c)
  /\ UNCHANGED <<screen, cons, shift, serial_exists, at, caller, result, rebooted, decoded>>

-----------------------------------------------------------------------------
(* The calls. *)

Call(by, loop) ==
  /\ at = "idle"
  /\ at' = loop /\ caller' = by
  /\ UNCHANGED <<screen, cons, shift, serial_exists, result, rebooted, devices, decoded, left>>

ConsGetc == Call("cons_getc", "serial")
Getchar == Call("getchar", "serial")
SerialIntr == Call("intr", "serial")
KbdIntr == Call("intr", "kbd")

\* The loop ends: for an interrupt that is all, cons_getc goes on.
LoopEnds(next) ==
  IF caller = "intr" THEN at' = "idle" /\ caller' = "nobody" ELSE at' = next /\ UNCHANGED caller

\* Faulty variant: the position goes on to the end of the buffer.
StoredUnwrapped(c) ==
  IF c = 0 THEN UNCHANGED cons
  ELSE /\ buf' = [buf EXCEPT ![wpos] = c]
       /\ wpos' = IF wpos = CONSBUFSIZE THEN 0 ELSE wpos + 1
       /\ UNCHANGED rpos

\* The loop body of cons_intr; it does not look at rpos.
Stored(c) ==
  IF c = 0 THEN UNCHANGED cons
  ELSE /\ buf' = [buf EXCEPT ![wpos] = c]
       /\ wpos' = IF wpos + 1 = CONSBUFSIZE THEN 0 ELSE wpos + 1
       /\ UNCHANGED rpos

SerialProcData ==
  /\ at = "serial" /\ serial_exists /\ com # <<>>
  /\ Stored(Head(com))
  /\ com' = Tail(com)
  /\ UNCHANGED <<screen, shift, serial_exists, at, caller, result, rebooted,
                 kbd, held, mods, decoded, left>>

\* No data, or no serial port at all.
SerialDone ==
  /\ at = "serial" /\ ~(serial_exists /\ com # <<>>)
  /\ LoopEnds("kbd")
  /\ UNCHANGED <<screen, cons, shift, serial_exists, result, rebooted,
                 devices, decoded, left>>

\* The status: data, and not from the mouse.
CodeWaits == kbd # <<>> /\ ~Head(kbd).mouse

\* A byte of the keyboard.  The machine resets at once if it is to reboot.
KbdProcData ==
  /\ at = "kbd" /\ CodeWaits
  /\ LET m == Decoded(shift, Head(kbd).data) IN
       /\ shift' = m.shift
       /\ Stored(m.char)
       /\ rebooted' = Reboots(m)
       /\ decoded' = [got |-> m.char, meant |-> Head(kbd).meant]
  /\ kbd' = Tail(kbd)
  /\ UNCHANGED <<screen, serial_exists, at, caller, result, com, held, mods, left>>

\* Faulty variant: kbd_proc_data returns 0 where it ignores the mouse.
KbdIgnoresMouse ==
  /\ at = "kbd" /\ ~CodeWaits
  /\ IF kbd # <<>> THEN UNCHANGED <<at, caller>> ELSE LoopEnds("take")
  /\ UNCHANGED <<screen, cons, shift, serial_exists, result, rebooted,
                 devices, decoded, left>>

\* No data, or a byte of the mouse: it is not taken, and stays.
KbdDone ==
  /\ at = "kbd" /\ ~CodeWaits
  /\ LoopEnds("take")
  /\ UNCHANGED <<screen, cons, shift, serial_exists, result, rebooted,
                 devices, decoded, left>>

TakeChar ==
  /\ at = "take" /\ rpos # wpos
  /\ result' = buf[rpos]
  /\ rpos' = IF rpos + 1 = CONSBUFSIZE THEN 0 ELSE rpos + 1
  /\ at' = "idle" /\ caller' = "nobody"
  /\ UNCHANGED <<screen, buf, wpos, shift, serial_exists, rebooted, devices,
                 decoded, left>>

\* cons_getc returns 0, and getchar calls it again.
NoChar ==
  /\ at = "take" /\ rpos = wpos
  /\ IF caller = "getchar" THEN at' = "serial" /\ UNCHANGED <<caller, result>>
     ELSE at' = "idle" /\ caller' = "nobody" /\ result' = 0
  /\ UNCHANGED <<screen, cons, shift, serial_exists, rebooted, devices, decoded, left>>

Step == SerialProcData \/ SerialDone \/ KbdProcData \/ KbdDone \/ TakeChar \/ NoChar

Output ==
  /\ at = "idle" /\ left.prints > 0
  /\ \E c \in Chars : Cputchar(c)
  /\ left' = [left EXCEPT !.prints = @ - 1]
  /\ UNCHANGED inputvars

Next ==
  \/ ~rebooted /\ (DeviceStep \/ ConsGetc \/ Getchar \/ SerialIntr \/ KbdIntr \/ Step \/ Output)
  \/ rebooted /\ UNCHANGED vars

\* A call that has begun runs on; nobody is obliged to type or to call.
Spec == Init /\ [][Next]_vars /\ WF_vars(~rebooted /\ Step)

-----------------------------------------------------------------------------
\* The ring and the cursor stay inside their buffers.
TypeOK ==
  /\ CursorInside
  /\ rpos \in 0..(CONSBUFSIZE - 1) /\ wpos \in 0..(CONSBUFSIZE - 1)
  /\ at \in {"idle", "serial", "kbd", "take"}
  /\ caller = "nobody" <=> at = "idle"

\* The tables have for key k what is printed on it.  Code 96 is no key's: its
\* release would be an escape.
InTables(k) ==
  LET d == IF k.extended THEN k.code + 128 ELSE k.code
  IN  /\ k.code # 96
      /\ k.flags = shiftcode(d) \cup togglecode(d)
      /\ k.plain = normalmap[d] /\ k.shifted = shiftmap[d] /\ k.control = ctlmap[d]

\* Every code types what the user means by it, whatever came before: escapes,
\* modifiers pressed and released in any order, CAPS LOCK (console.c:331-364);
\* and no modifier stays on when all codes are read and its keys are up.
DecodedAsTyped ==
  /\ decoded.got = decoded.meant
  /\ kbd = <<>> =>
       \A f \in {"SHIFT", "CTL", "ALT"} : f \in shift => \E k \in held : f \in k.flags

Waiting == (wpos - rpos) % CONSBUFSIZE

Queue == INSTANCE InputQueue WITH
           Characters <- 1..255,
           SIZE <- CONSBUFSIZE,
           queue <- [i \in 1..Waiting |-> buf[(rpos + i - 1) % CONSBUFSIZE]]

\* Characters come out in the order in which the devices gave them, and are lost
\* only together, when the ring is full (console.c:400-427).
ImplementsInputQueue == Queue!Spec

\* Every call returns, whatever the devices bring, except for a getchar that
\* finds nothing (console.c:400, :466).
CallsReturn ==
  at # "idle" ~> (at = "idle" \/ rebooted \/ (caller = "getchar" /\ rpos = wpos))
=============================================================================
