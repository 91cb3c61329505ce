----------------------------- MODULE UserMachine -----------------------------
(***************************************************************************)
(* The machine a user program sees: it starts with a fresh stack and       *)
(* interrupts off; a system call that returns has changed nothing but eax; *)
(* any other trap, and the end of the program, is the end of everything.   *)
(***************************************************************************)
EXTENDS Integers

CONSTANTS
  Registers,    \* what the registers may hold when the program traps
  Entries,      \* what they hold when it starts
  NoRegisters

VARIABLES
  state,   \* "booting", "running", "calling" or "stopped"
  regs     \* the registers, from the last time they were looked at

vars == <<state, regs>>

Init == state = "booting" /\ regs = NoRegisters

Start == state = "booting" /\ state' = "running" /\ regs' \in Entries

Call == state = "running" /\ state' = "calling" /\ regs' \in Registers

\* Only cputs (0) and test (4) return.
Return ==
  /\ state = "calling"
  /\ regs.regs.eax \in {0, 4}
  /\ state' = "running"
  /\ regs' = [regs EXCEPT !.regs.eax = 0]

Stop == state # "stopped" /\ state' = "stopped"

\* After the end the kernel may still trap, but the program never runs again.
Stopped == state = "stopped" /\ state' = "stopped"

Next == Start \/ Call \/ Return \/ Stop \/ Stopped

Spec == Init /\ [][Next]_vars
=============================================================================
