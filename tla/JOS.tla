--------------------------------- MODULE JOS ---------------------------------
(***************************************************************************)
(* The whole of JOS: boot loader, kernel and user program on one machine,  *)
(* from the first sector read to the end of the program.                   *)
(***************************************************************************)
EXTENDS ProgramLoader

vars == <<machine, bootvars, trapvars, loadvars>>

Init == BootInit /\ TrapInit /\ LoaderInit

KernelStep ==
  \/ BootStep /\ UNCHANGED <<trapvars, loadvars>>
  \/ LoaderStep /\ UNCHANGED bootvars
  \/ TrapStep /\ UNCHANGED <<bootvars, loadvars>>

Halted == pc \in {"off", "spin", "lost"}

Next ==
  \/ KernelStep
  \/ (DiskDelivers \/ DiskFails) /\ UNCHANGED <<bootvars, trapvars, loadvars>>
  \/ (UserStep \/ Nmi) /\ UNCHANGED <<bootvars, loadvars>>
  \/ Halted /\ UNCHANGED vars

\* The processor runs on, and the disk answers.
Spec ==
  /\ Init /\ [][Next]_vars
  /\ WF_vars(KernelStep)
  /\ WF_vars((DiskDelivers \/ DiskFails) /\ UNCHANGED <<bootvars, trapvars, loadvars>>)

-----------------------------------------------------------------------------
\* In the kernel that is entered every byte is the one of the file, at its place,
\* but for one sector for each error of the disk, which nobody sees; and only an
\* error keeps the kernel from being entered (main.c:77-80, :96-148).
KernelLoaded ==
  /\ pc = "i386_init" =>
       /\ \A a \in KernelFileCells \ Holes : ram[a] = KernelAt(a)
       /\ Cardinality(LostSectors) <= disk.faults
  /\ pc \in {"spin", "lost"} => disk.faults > 0

\* Once the kernel has been entered, nothing but the buffer and the BSS changes
\* in its memory: not by what the program writes, nor by what is loaded as a
\* program, of which the loader sees only where each segment begins
\* (entrypgdir.c, init.c:78-88).
KernelIsolated ==
  [][(pc \in {"load", "user", "trap", "dispatch", "cputs", "run", "panic"}) =>
       \A a \in 0..(UTEXT - 1) : ram'[a] = ram[a]]_vars

\* The buffer holds the first sectors of the file and, after an error, zeros in
\* place of the others (ide.c:46-50, whose result init.c:39 ignores).
PrefixRead ==
  pc = "load" =>
    \E n \in 0..MAX_RW :
      /\ n = MAX_RW \/ disk.faults > 0
      /\ \A i \in 0..(MAX_RW * SECTSIZE - 1) :
           ram[PhysAddr(binary_to_load + i)] =
             IF i < n * SECTSIZE THEN ProgramByte(i) ELSE Zero

\* What the segments ask to have at address la: the last that covers la decides.
Covers(s, la) ==
  /\ s.type = ELF_PROG_LOAD
  /\ la \in s.va..(s.va + s.memsz - 1) \/ la \in s.va..(s.va + s.filesz - 1)

\* No segment is loaded over bytes of the file that one is read from.
Apart(p) ==
  \A i, j \in DOMAIN p.segs : Loads(p.segs[i]) =>
    \A n \in 0..(p.segs[i].filesz - 1) : ~Covers(p.segs[j], Source(p.segs[i]) + n)

InImage(la) ==
  LET last == CHOOSE i \in DOMAIN program.segs :
                /\ Covers(program.segs[i], la)
                /\ \A j \in DOMAIN program.segs : j > i => ~Covers(program.segs[j], la)
      s == program.segs[last]
  IN  IF la - s.va < s.filesz THEN ram[PhysAddr(Source(s) + la - s.va)] ELSE Zero

\* What the disk delivers is the beginning of the file and nothing else, even if
\* it fails; and when the program starts, its segments are in memory as its
\* headers describe them, made of what has been delivered, and nothing else is
\* (ide.c:47-49, init.c:39, :76-92).
ProgramLoaded ==
  /\ PrefixRead
  /\ pc = "load" /\ IsElf /\ LoadedAll =>
       \A la \in UTEXT..(3 * PTSIZE - 1) :
         ram[PhysAddr(la)] =
           IF \E i \in DOMAIN program.segs : Covers(program.segs[i], la)
           THEN InImage(la) ELSE Garbage

\* Vectors whose entry point expects an error code that no processor pushes.
Misframed == {2, 4, 5, 6, 7, 16, 18, 19}

\* The handler is told the trap that came, and for all other vectors the
\* registers it interrupted (trapentry.S:65-85, trap.h:56-75).
FrameIsTrue ==
  pc = "dispatch" =>
    /\ tf.trapno = raised.vec
    /\ raised.vec \notin Misframed =>
         LET c == raised.from IN
           /\ tf.eip = c.eip /\ tf.cs = c.cs /\ tf.eflags = c.eflags
           /\ tf.regs = c.regs /\ tf.ds = c.ds /\ tf.es = c.es
           /\ FromUser(c.cs) => tf.esp = c.esp /\ tf.ss = c.ss

\* Interrupts are off from the boot loader on, though the gate of int 3 does not
\* turn them off: the assertion in trap() holds (trap.c:241, :97).
InterruptsOff == ~Set(cpu.eflags, FL_IF)

\* At most one panic speaks, also when an NMI comes during the first
\* (init.c:113).
PanicsOnce == messages = IF panicstr THEN 1 ELSE 0

\* The format that sys_cputs hands to cprintf is read from the program's memory
\* alone, whatever len was, whether s + len wraps, wherever the string ends and
\* whatever its conversions are (syscall.c:23-28).
FormatIsUsers ==
  pc = "cputs" /\ KernelMay(str[Len(str)]) => UserMay(str[Len(str)])

\* Nothing is printed that the program may not read itself: "user programs always
\* can only access memory in the range 0x800000-0xB00000, if the application wants
\* to print outside its memory region print INVALID_POINTER" (syscall.c:32-35).
PrintsOnlyUserMemory == pc = "cputs" /\ KernelMay(str[1]) => UserMay(str[1])

Context ==
  [eip : Nat, cs : {GD_KT, GD_UT + 3}, esp : Nat, ss : Nat, ds : Nat, es : Nat,
   regs : [eax : Nat, edx : Nat, ecx : Nat], eflags : Nat]

\* The program cannot change its code and its stack segment: no other selector of
\* its level may be loaded there.
UserSegments(c) == c.cs = GD_UT + 3 /\ c.ss = GD_UD + 3 /\ Set(c.eflags, 2)

\* What the kernel knows of the program while it serves it: it is the program
\* that has called, and its registers are in the frame as they were.
CallInv ==
  /\ pc \in {"trap", "dispatch"} => tf = Trapframe(raised.from, raised.vec, tf.err)
  /\ pc \in {"cputs", "run"} => raised.vec = T_SYSCALL
  /\ pc = "cputs" => /\ tf = Trapframe(raised.from, T_SYSCALL, 0)
                     /\ raised.from.regs.eax = SYS_cputs
  /\ pc = "run" =>
       /\ tf = [Trapframe(raised.from, T_SYSCALL, 0) EXCEPT !.regs.eax = 0]
       /\ raised.from.regs.eax \in {SYS_cputs, SYS_test}

\* The inductive invariant of the traps: the registers, interrupts, panics, and
\* the way from a system call back to the program (trap.c:231-263).
TrapInv ==
  /\ program \in Programs
  /\ cpu \in Context /\ raised \in [vec : Handled, from : Context]
  /\ InterruptsOff /\ ~Set(raised.from.eflags, FL_IF)
  /\ PanicsOnce
  /\ pc = "user" => UserSegments(cpu)
  /\ raised.vec = T_SYSCALL => UserSegments(raised.from)
  /\ CallInv

-----------------------------------------------------------------------------
UserState ==
  CASE pc \in {"readsect", "insl", "i386_init", "ide_read", "ide_data", "load"} -> "booting"
    [] pc = "user" -> "running"
    [] raised.vec = T_SYSCALL /\ pc \in {"trap", "dispatch", "cputs", "run"} -> "calling"
    [] OTHER -> "stopped"

Contents ==
  [eip : {c.eip + 1 : c \in Contexts}, cs : {GD_UT + 3}, esp : {c.esp : c \in Contexts},
   ss : {GD_UD + 3}, ds : {c.ds : c \in Contexts}, es : {c.es : c \in Contexts},
   regs : {[eax |-> a[1], edx |-> a[2], ecx |-> a[3]] : a \in Arguments},
   eflags : {c.eflags : c \in Contexts}]

Fresh ==
  {[NewTrapframe(p.entry) EXCEPT !.eflags = 2] : p \in Programs}

User == INSTANCE UserMachine WITH
          Registers <- Contents,
          Entries <- Fresh,
          NoRegisters <- NullContext,
          state <- UserState,
          regs <- IF pc = "user" THEN cpu ELSE raised.from

\* Seen from the program, the kernel is the abstract user machine: a call
\* returns to where it was made with only eax changed, and nothing else ever
\* returns.
ImplementsUserMachine == User!Spec

\* The kernel always gets back to the program, or comes to an end: whatever the
\* disk reports (ide.c:22), and however long the string is that cputs prints.
KernelReturns == pc \notin {"user", "off"} ~> (pc = "user" \/ Halted)
=============================================================================
