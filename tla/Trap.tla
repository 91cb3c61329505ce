-------------------------------- MODULE Trap --------------------------------
(***************************************************************************)
(* Traps of the JOS kernel: the gates and entry points (kern/trap.c,       *)
(* kern/trapentry.S), the way into and out of the user program             *)
(* (kern/env.c), the system calls (kern/syscall.c) and panic.  The program *)
(* may run any instruction; those of the programs in user/ are named after *)
(* them.  A word of the stack is a number; the eight registers of PushRegs *)
(* are one element, of which eax, edx and ecx are kept.                    *)
(***************************************************************************)
EXTENDS Machine

CONSTANTS
  Contexts,     \* [eip, esp, ds, es, eflags] the program may have at an instruction
  Arguments,    \* <<number, first, second>> of the system calls it makes
  Addresses,    \* addresses it reads and writes, or leaves on the kernel's stack
  Exceptions    \* other exceptions its instructions may raise

VARIABLES
  cpu,          \* the processor's registers
  tf,           \* the trap frame: on the kernel stack, or env_tf
  str,          \* in sys_cputs: the next character of the format and, before
                \* it, what a conversion has to print first
  panicstr,     \* set by the first panic
  nmi,          \* an NMI is being served, so that no other can come
  raised,       \* history: the last trap, and the registers when it came
  messages      \* history: how many panic messages have been printed

trapvars == <<cpu, tf, str, panicstr, nmi, raised, messages>>

GD_KT == 8
GD_KD == 16
GD_UT == 24
GD_UD == 32
GD_TSS0 == 40
FL_IF == 512
FL_DF == 1024

Set(f, flag) == (f \div flag) % 2 = 1
Clear(f, flag) == IF Set(f, flag) THEN f - flag ELSE f
FromUser(cs) == cs % 4 = 3

T_DIVIDE == 0
T_NMI == 2
T_BRKPT == 3
T_GPFLT == 13
T_PGFLT == 14
T_SYSCALL == 48
E_INVAL == 3

-----------------------------------------------------------------------------
(* Segments.  All are flat: they cover all addresses, from 0 on. *)

STA_W == {"W"}
STA_X_R == {"X", "R"}
STS_T32A == {"TSS"}

SEG(type, dpl) == [type |-> type, dpl |-> dpl]

\* Selector 0 is null; trap_init_percpu fills in GD_TSS0.
gdt ==
  [s \in {GD_KT, GD_KD, GD_UT, GD_UD, GD_TSS0} |->
     SEG(CASE s \in {GD_KT, GD_UT} -> STA_X_R
           [] s \in {GD_KD, GD_UD} -> STA_W
           [] OTHER -> STS_T32A,
         IF s \in {GD_UT, GD_UD} THEN 3 ELSE 0)]

\* Selectors the program may load into ds and es; the low two bits are its own level.
Loadable(sel) ==
  LET s == sel - (sel % 4)
  IN  s = 0 \/ (s \in DOMAIN gdt /\ gdt[s].dpl = 3 /\ gdt[s].type # STS_T32A)

\* Where the processor finds the kernel's stack when the program traps.
ts == [esp0 |-> KSTACKTOP, ss0 |-> GD_KD]

-----------------------------------------------------------------------------
(* trap_init, and the entry points of trapentry.S. *)

Handled == 0..8 \cup 10..14 \cup 16..19 \cup {48}

\* Faulty variant: the entry point of system calls expects an error code.
SyscallWithErrorCode == {T_DIVIDE, 1, T_BRKPT}

\* TRAPHANDLER_NOEC pushes a zero in place of the error code.
NoErrorCode == {T_DIVIDE, 1, T_BRKPT, T_SYSCALL}

TRAPHANDLER(num) == [trapno |-> num, zero |-> num \in NoErrorCode]

\* Vectors without a handler are reported as trap 9.
unktraphandler == [trapno |-> 9, zero |-> TRUE]

SETGATE(istrap, entry, dpl) ==
  [istrap |-> istrap, sel |-> GD_KT, entry |-> entry, dpl |-> dpl]

idt ==
  [v \in 0..255 |->
     SETGATE(v = T_BRKPT,
             IF v \in Handled THEN TRAPHANDLER(v) ELSE unktraphandler,
             IF v \in {T_BRKPT, T_SYSCALL} THEN 3 ELSE 0)]

\* The exceptions for which the processor itself pushes an error code.
PushesError == {8, 10, 11, 12, 13, 14, 17}

\* What the stack holds above the registers and segments, lowest word first.
Pushed(c, v, err) ==
  <<idt[v].entry.trapno>>
    \o (IF idt[v].entry.zero THEN <<0>> ELSE <<>>)
    \o (IF v \in PushesError THEN <<err>> ELSE <<>>)
    \o <<c.eip, c.cs, c.eflags>>
    \o (IF FromUser(c.cs) THEN <<c.esp, c.ss>> ELSE <<>>)

\* The same words, read as a struct Trapframe.  What lies above the top of the
\* stack does not matter; it reads as 0.
Trapframe(c, v, err) ==
  LET w == Pushed(c, v, err) \o <<0, 0, 0>>
  IN  [regs |-> c.regs, es |-> c.es, ds |-> c.ds,
       trapno |-> w[1], err |-> w[2], eip |-> w[3], cs |-> w[4] % 65536,
       eflags |-> w[5], esp |-> w[6], ss |-> w[7]]

\* An interrupt gate clears IF, a trap gate leaves it.
KernelContext(v, f) ==
  [eip |-> KERNBASE, cs |-> idt[v].sel, esp |-> ts.esp0, ss |-> ts.ss0,
   ds |-> GD_KD, es |-> GD_KD, regs |-> [eax |-> 0, edx |-> 0, ecx |-> 0],
   eflags |-> IF idt[v].istrap THEN f ELSE Clear(f, FL_IF)]

\* Trap v interrupts the context c: processor, entry point and _alltraps.
TakeTrap(c, v, err) ==
  /\ tf' = Trapframe(c, v, err)
  /\ cpu' = KernelContext(v, c.eflags)
  /\ raised' = [vec |-> v, from |-> c]
  /\ Goto("trap")

\* A program cannot turn interrupts on, and bit 1 of eflags is always set.
ASSUME TrapAssumption ==
  /\ Contexts \subseteq
       [eip : Nat, esp : Nat, eflags : {f \in Nat : ~Set(f, FL_IF) /\ Set(f, 2)},
        ds : {s \in Nat : Loadable(s)}, es : {s \in Nat : Loadable(s)}]
  /\ Arguments \subseteq Nat \X Nat \X Nat
  /\ Addresses \subseteq Nat
  /\ Exceptions \subseteq Handled \ {T_SYSCALL}

-----------------------------------------------------------------------------
(* The user program. *)

\* The program has computed on; its IOPL does not let it change IF.
Computed(c, regs) ==
  [cpu EXCEPT !.eip = c.eip, !.esp = c.esp, !.ds = c.ds, !.es = c.es, !.regs = regs,
              !.eflags = c.eflags + (IF Set(cpu.eflags, FL_IF) THEN FL_IF ELSE 0)]

Instruction(c, v, err) ==
  /\ pc = "user"
  /\ TakeTrap(Computed(c, cpu.regs), v, err)
  /\ UNCHANGED <<ram, disk, kernel, program, str, panicstr, nmi, messages>>

\* int n needs a gate of privilege level 3.
Interrupt(c, n, regs) ==
  /\ pc = "user"
  /\ IF idt[n].dpl = 3
     THEN TakeTrap([Computed(c, regs) EXCEPT !.eip = @ + 1], n, 0)
     ELSE TakeTrap(Computed(c, regs), T_GPFLT, 8 * n + 2)
  /\ UNCHANGED <<ram, disk, kernel, program, str, panicstr, nmi, messages>>

DivZero(c) == Instruction(c, T_DIVIDE, 0)
Breakpoint(c) == Interrupt(c, T_BRKPT, cpu.regs)
SoftInt(c) == Interrupt(c, T_PGFLT, cpu.regs)
BadSegment(c) == \E s \in DOMAIN gdt : ~Loadable(s) /\ Instruction(c, T_GPFLT, s)
OtherException(c) == \E v \in Exceptions : Instruction(c, v, 0)

FaultRead(c) ==
  \E va \in Addresses : ~UserMay(va) /\ Instruction(c, T_PGFLT, FaultCode(va, FALSE, TRUE))

FaultWrite(c) ==
  \E va \in Addresses : ~UserMay(va) /\ Instruction(c, T_PGFLT, FaultCode(va, TRUE, TRUE))

Write ==
  /\ pc = "user"
  /\ \E va \in Addresses :
       /\ UserMay(va)
       /\ ram' = [ram EXCEPT ![PhysAddr(va)] = UserData]
  /\ UNCHANGED <<pc, disk, kernel, program, trapvars>>

SystemCall(c) ==
  \E a \in Arguments :
    Interrupt(c, T_SYSCALL, [eax |-> a[1], edx |-> a[2], ecx |-> a[3]])

UserStep ==
  \/ Write
  \/ \E c \in Contexts :
       \/ DivZero(c) \/ Breakpoint(c) \/ SoftInt(c) \/ BadSegment(c)
       \/ OtherException(c) \/ FaultRead(c) \/ FaultWrite(c) \/ SystemCall(c)

-----------------------------------------------------------------------------
(* trap(), trap_dispatch() and the system calls. *)

\* cld; assert that interrupts are off; use env_tf if the trap is the program's.
TrapEntered ==
  /\ pc = "trap"
  /\ cpu' = [cpu EXCEPT !.eflags = Clear(@, FL_DF)]
  /\ Goto(IF Set(cpu.eflags, FL_IF) THEN "panic" ELSE "dispatch")
  /\ UNCHANGED <<ram, disk, kernel, program, tf, str, panicstr, nmi, raised, messages>>

\* Whoever touched the page, the kernel panics.
PageFaultHandler ==
  /\ pc = "dispatch"
  /\ tf.trapno = T_PGFLT
  /\ Goto("panic")
  /\ UNCHANGED <<ram, disk, kernel, program, trapvars>>

UnhandledTrap ==
  /\ pc = "dispatch"
  /\ tf.trapno \notin {T_PGFLT, T_SYSCALL}
  /\ Goto("panic")
  /\ UNCHANGED <<ram, disk, kernel, program, trapvars>>

SYS_cputs == 0
SYS_env_destroy == 3
SYS_test == 4

IsCall(number) == pc = "dispatch" /\ tf.trapno = T_SYSCALL /\ tf.regs.eax = number

\* What a call returns goes to eax, and anything but -E_INVAL back to the program.
Returning(value) == tf' = [tf EXCEPT !.regs.eax = value] /\ Goto("run")

\* Faulty variant: only the end of the string is checked.
BadPointerEndOnly(s, len) == (s + len) % ADDRESSES >= USTACKTOP

BadPointer(s, len) == s < UTEXT \/ (s + len) % ADDRESSES >= USTACKTOP

SysCputs ==
  /\ IsCall(SYS_cputs)
  /\ IF BadPointer(tf.regs.edx, tf.regs.ecx)
     THEN Returning(0) /\ UNCHANGED str
     ELSE str' = <<tf.regs.edx>> /\ Goto("cputs") /\ UNCHANGED tf
  /\ UNCHANGED <<ram, disk, kernel, program, cpu, panicstr, nmi, raised, messages>>

\* The string is the format of cprintf, which reads one more character of it,
\* whatever len was, and stops at a zero.
CputsChar ==
  /\ pc = "cputs"
  /\ Len(str) = 1 /\ KernelMay(str[1])
  /\ \/ str' = <<(str[1] + 1) % ADDRESSES>> /\ UNCHANGED <<pc, tf>>
     \/ Returning(0) /\ UNCHANGED str
  /\ UNCHANGED <<ram, disk, kernel, program, cpu, panicstr, nmi, raised, messages>>

\* The character ends a conversion, and cprintf has got no argument for it: the
\* next word of the kernel's stack is taken, and either printed as a number or
\* taken for a string.  The program's registers are among these words.
CputsConversion ==
  /\ pc = "cputs"
  /\ Len(str) = 1 /\ KernelMay(str[1])
  /\ \E arg \in Addresses \cup {KSTACKTOP - 1} :
       str' = <<arg, (str[1] + 1) % ADDRESSES>>
  /\ UNCHANGED <<machine, cpu, tf, panicstr, nmi, raised, messages>>

\* What is printed ends somewhere, or goes on to where no memory is.
CputsArgument ==
  /\ pc = "cputs"
  /\ Len(str) = 2 /\ KernelMay(str[1])
  /\ str' \in {<<str[2]>>, <<3 * PTSIZE, str[2]>>}
  /\ UNCHANGED <<machine, cpu, tf, panicstr, nmi, raised, messages>>

CputsFault ==
  /\ pc = "cputs"
  /\ ~KernelMay(str[1])
  /\ TakeTrap(cpu, T_PGFLT, FaultCode(str[1], FALSE, FALSE))
  /\ UNCHANGED <<ram, disk, kernel, program, str, panicstr, nmi, messages>>

SysEnvDestroy ==
  /\ IsCall(SYS_env_destroy)
  /\ Goto("off")
  /\ UNCHANGED <<ram, disk, kernel, program, trapvars>>

SysTest ==
  /\ IsCall(SYS_test)
  /\ Returning(0)
  /\ UNCHANGED <<ram, disk, kernel, program, cpu, str, panicstr, nmi, raised, messages>>

\* -E_INVAL, which trap_dispatch treats like any trap it does not know.
UnknownCall ==
  /\ pc = "dispatch" /\ tf.trapno = T_SYSCALL
  /\ tf.regs.eax \notin {SYS_cputs, SYS_env_destroy, SYS_test}
  /\ tf' = [tf EXCEPT !.regs.eax = ADDRESSES - E_INVAL]
  /\ Goto("panic")
  /\ UNCHANGED <<ram, disk, kernel, program, cpu, str, panicstr, nmi, raised, messages>>

\* Faulty variant: the program's data segment is not restored.
RunTrapframeKeepDs(frame) ==
  /\ cpu' = [eip |-> frame.eip, cs |-> frame.cs, esp |-> frame.esp, ss |-> frame.ss,
             ds |-> GD_UD + 3, es |-> frame.es, regs |-> frame.regs,
             eflags |-> IF Set(frame.eflags, 2) THEN frame.eflags ELSE frame.eflags + 2]
  /\ Goto("user")

\* popal, pop es and ds, skip two words, iret; bit 1 of eflags is always set.
RunTrapframe(frame) ==
  /\ cpu' = [eip |-> frame.eip, cs |-> frame.cs, esp |-> frame.esp, ss |-> frame.ss,
             ds |-> frame.ds, es |-> frame.es, regs |-> frame.regs,
             eflags |-> IF Set(frame.eflags, 2) THEN frame.eflags ELSE frame.eflags + 2]
  /\ Goto("user")

ReturnToProgram ==
  /\ pc = "run"
  /\ RunTrapframe(tf)
  /\ UNCHANGED <<ram, disk, kernel, program, tf, str, panicstr, nmi, raised, messages>>

\* The first panic prints its message; one that comes meanwhile does not.
Panic ==
  /\ pc = "panic"
  /\ IF panicstr THEN Goto("off") /\ UNCHANGED <<panicstr, messages>>
     ELSE panicstr' = TRUE /\ messages' = messages + 1 /\ Goto("panicking")
  /\ UNCHANGED <<ram, disk, kernel, program, cpu, tf, str, nmi, raised>>

Shutdown ==
  /\ pc = "panicking"
  /\ Goto("off")
  /\ UNCHANGED <<ram, disk, kernel, program, trapvars>>

TrapStep ==
  \/ TrapEntered \/ PageFaultHandler \/ UnhandledTrap
  \/ SysCputs \/ CputsChar \/ CputsConversion \/ CputsArgument \/ CputsFault
  \/ SysEnvDestroy \/ SysTest \/ UnknownCall
  \/ ReturnToProgram \/ Panic \/ Shutdown

\* A non-maskable interrupt may come at any moment once there is an IDT, and
\* whatever the carry flag is.  Until iret no other does.
Nmi ==
  /\ ~nmi
  /\ pc \notin {"readsect", "insl", "spin", "lost", "i386_init", "off"}
  /\ nmi' = TRUE
  /\ \E f \in {2, 3} :
       TakeTrap(IF pc = "user" THEN cpu ELSE [cpu EXCEPT !.eflags = f], T_NMI, 0)
  /\ UNCHANGED <<ram, disk, kernel, program, str, panicstr, messages>>

NullContext ==
  [eip |-> 0, cs |-> GD_KT, esp |-> 0, ss |-> GD_KD, ds |-> GD_KD, es |-> GD_KD,
   regs |-> [eax |-> 0, edx |-> 0, ecx |-> 0], eflags |-> 2]

\* The kernel's data before the first trap.
TrapInit ==
  /\ cpu = NullContext
  /\ tf = Trapframe(NullContext, 0, 0)
  /\ str = <<>>
  /\ panicstr = FALSE
  /\ nmi = FALSE
  /\ raised = [vec |-> 0, from |-> NullContext]
  /\ messages = 0
=============================================================================
