------------------------------ MODULE JOSProofs ------------------------------
(***************************************************************************)
(* Proofs about traps in JOS, about who gets at which memory, and about    *)
(* what is loaded into it, for any scale of the map, any programs and any  *)
(* contents of the disk.                                                   *)
(***************************************************************************)
EXTENDS JOS, FiniteSetTheorems, TLAPS

\* The addresses that memlayout.h computes are addresses.
LEMMA Layout ==
  KERNBASE \in Nat /\ KSTACKTOP \in Nat /\ USTACKTOP \in Nat
<1>1. PTSIZE \in Nat /\ PTSIZE >= 4 * PGSIZE
  <2>1. NPTENTRIES \in Nat /\ PGSIZE \in Nat /\ NPTENTRIES >= 4
    BY PageTablesAssumption
  <2>2. PGSIZE * NPTENTRIES \in Nat /\ PGSIZE * NPTENTRIES >= PGSIZE * 4
    BY <2>1, SMT
  <2> QED BY <2>1, <2>2 DEF PTSIZE
<1>2. PGSIZE \in Nat
  BY PageTablesAssumption
<1> QED BY <1>1, <1>2 DEF KERNBASE, KSTACKTOP, USTACKTOP, UTOP, UTEXT

\* Setting bit 1 and clearing a flag leave the other flags alone.
LEMMA Flags ==
  ASSUME NEW f \in Nat
  PROVE  /\ Clear(f, FL_IF) \in Nat /\ ~Set(Clear(f, FL_IF), FL_IF)
         /\ Clear(f, FL_DF) \in Nat
         /\ ~Set(f, FL_IF) => ~Set(Clear(f, FL_DF), FL_IF)
         /\ ~Set(f, FL_IF) /\ ~Set(f, 2) => ~Set(f + 2, FL_IF) /\ Set(f + 2, 2)
BY DEF Clear, Set, FL_IF, FL_DF

-----------------------------------------------------------------------------
(* The frame that processor and entry point build. *)

\* What each gate and entry point does, for the vectors that have one.
LEMMA Gates ==
  ASSUME NEW v \in Handled
  PROVE  /\ idt[v].entry.trapno = v
         /\ idt[v].entry.zero = (v \in NoErrorCode)
         /\ idt[v].istrap = (v = 3) /\ idt[v].sel = GD_KT
         /\ v \notin Misframed => (v \in NoErrorCode <=> v \notin PushesError)
         /\ v \in Misframed => v \notin PushesError /\ v \notin NoErrorCode
<1>1. idt[v] = SETGATE(v = T_BRKPT, TRAPHANDLER(v), IF v \in {T_BRKPT, T_SYSCALL} THEN 3 ELSE 0)
  BY DEF idt, Handled
<1>2. idt[v].entry = TRAPHANDLER(v) /\ idt[v].istrap = (v = 3) /\ idt[v].sel = GD_KT
  BY <1>1 DEF SETGATE, T_BRKPT
<1>3. idt[v].entry.trapno = v /\ idt[v].entry.zero = (v \in NoErrorCode)
  BY <1>2 DEF TRAPHANDLER
<1>4. /\ v \notin Misframed => (v \in NoErrorCode <=> v \notin PushesError)
      /\ v \in Misframed => v \notin PushesError /\ v \notin NoErrorCode
  BY DEF Handled, NoErrorCode, PushesError, Misframed, T_DIVIDE, T_BRKPT, T_SYSCALL
<1> QED BY <1>2, <1>3, <1>4

\* Reading words back from a stack on which one word, and then three or five
\* words, have been pushed behind the trap number.
LEMMA Words ==
  ASSUME NEW n, NEW e, NEW ip, NEW cs, NEW fl, NEW sp, NEW ss
  PROVE  /\ LET w == <<n>> \o <<e>> \o <<>> \o <<ip, cs, fl>> \o <<sp, ss>> \o <<0, 0, 0>>
            IN  w[1] = n /\ w[2] = e /\ w[3] = ip /\ w[4] = cs /\ w[5] = fl
                /\ w[6] = sp /\ w[7] = ss
         /\ LET w == <<n>> \o <<>> \o <<e>> \o <<ip, cs, fl>> \o <<sp, ss>> \o <<0, 0, 0>>
            IN  w[1] = n /\ w[2] = e /\ w[3] = ip /\ w[4] = cs /\ w[5] = fl
                /\ w[6] = sp /\ w[7] = ss
         /\ LET w == <<n>> \o <<e>> \o <<>> \o <<ip, cs, fl>> \o <<>> \o <<0, 0, 0>>
            IN  w[1] = n /\ w[2] = e /\ w[3] = ip /\ w[4] = cs /\ w[5] = fl
                /\ w[6] = 0 /\ w[7] = 0
         /\ LET w == <<n>> \o <<>> \o <<e>> \o <<ip, cs, fl>> \o <<>> \o <<0, 0, 0>>
            IN  w[1] = n /\ w[2] = e /\ w[3] = ip /\ w[4] = cs /\ w[5] = fl
                /\ w[6] = 0 /\ w[7] = 0
OBVIOUS

\* The frame of a vector whose entry point is right is the context that was
\* interrupted.
LEMMA FrameFields ==
  ASSUME NEW c \in Context, NEW v \in Handled, NEW err, v \notin Misframed
  PROVE  Trapframe(c, v, err) =
           [regs |-> c.regs, es |-> c.es, ds |-> c.ds, trapno |-> v,
            err |-> IF v \in PushesError THEN err ELSE 0,
            eip |-> c.eip, cs |-> c.cs, eflags |-> c.eflags,
            esp |-> IF FromUser(c.cs) THEN c.esp ELSE 0,
            ss |-> IF FromUser(c.cs) THEN c.ss ELSE 0]
<1> DEFINE w == Pushed(c, v, err) \o <<0, 0, 0>>
<1>1. c.cs % 65536 = c.cs
  BY DEF Context, GD_KT, GD_UT
<1>2. /\ w[1] = v /\ w[3] = c.eip /\ w[4] = c.cs /\ w[5] = c.eflags
      /\ w[2] = IF v \in PushesError THEN err ELSE 0
      /\ w[6] = IF FromUser(c.cs) THEN c.esp ELSE 0
      /\ w[7] = IF FromUser(c.cs) THEN c.ss ELSE 0
  <2>1. idt[v].entry.trapno = v /\ idt[v].entry.zero = (v \notin PushesError)
    BY Gates
  <2>2. CASE v \in PushesError /\ FromUser(c.cs)
    <3>1. w = <<v>> \o <<>> \o <<err>> \o <<c.eip, c.cs, c.eflags>> \o <<c.esp, c.ss>> \o <<0, 0, 0>>
      BY <2>1, <2>2 DEF Pushed
    <3> QED BY <2>2, <3>1
  <2>3. CASE v \in PushesError /\ ~FromUser(c.cs)
    <3>1. w = <<v>> \o <<>> \o <<err>> \o <<c.eip, c.cs, c.eflags>> \o <<>> \o <<0, 0, 0>>
      BY <2>1, <2>3 DEF Pushed
    <3> QED BY <2>3, <3>1
  <2>4. CASE v \notin PushesError /\ FromUser(c.cs)
    <3>1. w = <<v>> \o <<0>> \o <<>> \o <<c.eip, c.cs, c.eflags>> \o <<c.esp, c.ss>> \o <<0, 0, 0>>
      BY <2>1, <2>4 DEF Pushed
    <3> QED BY <2>4, <3>1
  <2>5. CASE v \notin PushesError /\ ~FromUser(c.cs)
    <3>1. w = <<v>> \o <<0>> \o <<>> \o <<c.eip, c.cs, c.eflags>> \o <<>> \o <<0, 0, 0>>
      BY <2>1, <2>5 DEF Pushed
    <3> QED BY <2>5, <3>1
  <2> QED BY <2>2, <2>3, <2>4, <2>5
<1>3. Trapframe(c, v, err) =
        [regs |-> c.regs, es |-> c.es, ds |-> c.ds, trapno |-> w[1], err |-> w[2],
         eip |-> w[3], cs |-> w[4] % 65536, eflags |-> w[5], esp |-> w[6], ss |-> w[7]]
  BY DEF Trapframe
<1> HIDE DEF w
<1> QED BY <1>1, <1>2, <1>3

\* The trap number is right in every frame.
LEMMA FrameNumber ==
  ASSUME NEW c \in Context, NEW v \in Handled, NEW err
  PROVE  Trapframe(c, v, err).trapno = v
<1>1. CASE v \notin Misframed
  BY <1>1, FrameFields
<1>2. CASE v \in Misframed
  <2>1. Pushed(c, v, err) = <<v>> \o <<>> \o <<>> \o <<c.eip, c.cs, c.eflags>>
                            \o (IF FromUser(c.cs) THEN <<c.esp, c.ss>> ELSE <<>>)
    BY <1>2, Gates DEF Pushed
  <2>2. (Pushed(c, v, err) \o <<0, 0, 0>>)[1] = v
    BY <2>1
  <2> QED BY <2>2 DEF Trapframe
<1> QED BY <1>1, <1>2

\* The error code that is not stored anywhere else can be read from the frame.
LEMMA FrameError ==
  ASSUME NEW c \in Context, NEW v \in Handled, NEW err
  PROVE  Trapframe(c, v, err) = Trapframe(c, v, Trapframe(c, v, err).err)
<1>1. CASE v \in PushesError
  BY <1>1, FrameFields, Gates
<1>2. CASE v \notin PushesError
  BY <1>2 DEF Trapframe, Pushed
<1> QED BY <1>1, <1>2

-----------------------------------------------------------------------------
(* Ways in which a step keeps TrapInv. *)

Served == {"user", "trap", "dispatch", "cputs", "run"}

\* A step that leaves the registers alone and does not go to where they matter.
LEMMA Elsewhere ==
  ASSUME TrapInv, UNCHANGED <<program, trapvars>>, pc' \notin Served \/ pc' = pc
  PROVE  TrapInv'
<1>1. /\ program' = program /\ cpu' = cpu /\ tf' = tf /\ raised' = raised
      /\ panicstr' = panicstr /\ messages' = messages
  BY DEF trapvars
<1>2. UserSegments(cpu)' = UserSegments(cpu) /\ UserSegments(raised.from)' = UserSegments(raised.from)
  BY <1>1 DEF UserSegments
<1>3. CallInv'
  <2>1. CASE pc' \notin Served
    BY <2>1 DEF CallInv, Served
  <2>2. CASE pc' = pc
    BY <1>1, <2>2 DEF TrapInv, CallInv
  <2> QED BY <2>1, <2>2
<1> QED BY <1>1, <1>2, <1>3 DEF TrapInv, Served, InterruptsOff, PanicsOnce

\* What a gate leaves in the registers is a context without interrupts.
LEMMA GateContext ==
  ASSUME NEW v \in Handled, NEW f \in Nat, ~Set(f, FL_IF)
  PROVE  KernelContext(v, f) \in Context /\ ~Set(KernelContext(v, f).eflags, FL_IF)
<1>1. (IF idt[v].istrap THEN f ELSE Clear(f, FL_IF)) \in Nat
  BY Flags
<1>2. ~Set(IF idt[v].istrap THEN f ELSE Clear(f, FL_IF), FL_IF)
  BY Flags
<1> QED BY <1>1, <1>2, Gates, Layout DEF KernelContext, ts, Context, GD_KT, GD_KD

\* Any trap does.
LEMMA Trapped ==
  ASSUME TrapInv, NEW c \in Context, NEW v \in Handled, NEW err \in Nat,
         ~Set(c.eflags, FL_IF), v = T_SYSCALL => UserSegments(c),
         TakeTrap(c, v, err), UNCHANGED <<program, panicstr, messages>>
  PROVE  TrapInv'
<1>1. /\ tf' = Trapframe(c, v, err) /\ cpu' = KernelContext(v, c.eflags)
      /\ raised' = [vec |-> v, from |-> c] /\ pc' = "trap"
  BY DEF TakeTrap, Goto
<1>2. cpu' \in Context /\ ~Set(cpu'.eflags, FL_IF)
  BY <1>1, GateContext DEF Context
<1>3. tf' = Trapframe(raised'.from, raised'.vec, tf'.err)
  BY <1>1, FrameError
<1>4. CallInv'
  BY <1>1, <1>3 DEF CallInv
<1>5. (raised.vec = T_SYSCALL => UserSegments(raised.from))'
  BY <1>1 DEF UserSegments
<1> QED BY <1>1, <1>2, <1>4, <1>5 DEF TrapInv, InterruptsOff, PanicsOnce

\* What the program has computed when it traps.
LEMMA Computes ==
  ASSUME TrapInv, pc = "user", NEW c \in Contexts,
         NEW regs \in [eax : Nat, edx : Nat, ecx : Nat],
         NEW d \in {Computed(c, regs), [Computed(c, regs) EXCEPT !.eip = @ + 1]}
  PROVE  d \in Context /\ ~Set(d.eflags, FL_IF) /\ UserSegments(d)
<1>1. cpu \in Context /\ ~Set(cpu.eflags, FL_IF) /\ UserSegments(cpu)
  BY DEF TrapInv, InterruptsOff
<1>2. c.eip \in Nat /\ c.eip + 1 \in Nat /\ c.eflags \in Nat /\ c.ds \in Nat
      /\ c.es \in Nat /\ c.esp \in Nat /\ ~Set(c.eflags, FL_IF) /\ Set(c.eflags, 2)
  BY TrapAssumption
<1>3. c.eflags + (IF Set(cpu.eflags, FL_IF) THEN FL_IF ELSE 0) = c.eflags
  BY <1>1, <1>2
<1> DEFINE q == Computed(c, regs)
           Like(r) == /\ r \in Context /\ r.eflags = c.eflags /\ r.cs = cpu.cs
                      /\ r.ss = cpu.ss
<1>4. Like(q)
  <2>1. q = [cpu EXCEPT !.eip = c.eip, !.esp = c.esp, !.ds = c.ds, !.es = c.es,
                        !.regs = regs, !.eflags = c.eflags]
    BY <1>3 DEF Computed
  <2> HIDE DEF q
  <2> QED BY <1>1, <1>2, <2>1 DEF Context
<1>5. Like([q EXCEPT !.eip = @ + 1])
  <2> HIDE DEF q
  <2> QED BY <1>4 DEF Context
<1>6. d = q \/ d = [q EXCEPT !.eip = @ + 1]
  OBVIOUS
<1> HIDE DEF q
<1>7. Like(d)
  BY <1>4, <1>5, <1>6
<1> QED BY <1>1, <1>2, <1>7 DEF UserSegments

\* An exception of the program.
LEMMA InstructionTraps ==
  ASSUME TrapInv, NEW c \in Contexts, NEW v \in Handled \ {T_SYSCALL}, NEW err \in Nat,
         Instruction(c, v, err)
  PROVE  TrapInv'
<1>1. pc = "user" /\ cpu.regs \in [eax : Nat, edx : Nat, ecx : Nat]
  BY DEF Instruction, TrapInv, Context
<1>2. Computed(c, cpu.regs) \in Context /\ ~Set(Computed(c, cpu.regs).eflags, FL_IF)
  BY <1>1, Computes
<1> QED BY <1>2, Trapped DEF Instruction

\* An int instruction, with or without a gate for it.
LEMMA InterruptTraps ==
  ASSUME TrapInv, NEW c \in Contexts, NEW n \in {T_BRKPT, T_PGFLT, T_SYSCALL},
         NEW regs \in [eax : Nat, edx : Nat, ecx : Nat], Interrupt(c, n, regs)
  PROVE  TrapInv'
<1> DEFINE d == [Computed(c, regs) EXCEPT !.eip = @ + 1]
<1>1. pc = "user" /\ UNCHANGED <<program, panicstr, messages>>
  BY DEF Interrupt
<1>2. /\ d \in Context /\ ~Set(d.eflags, FL_IF) /\ UserSegments(d)
      /\ Computed(c, regs) \in Context /\ ~Set(Computed(c, regs).eflags, FL_IF)
  BY <1>1, Computes
<1>3. n \in Handled /\ T_GPFLT \in Handled /\ 8 * n + 2 \in Nat /\ T_GPFLT # T_SYSCALL
  BY DEF Handled, T_BRKPT, T_GPFLT, T_PGFLT, T_SYSCALL
<1>4. TakeTrap(d, n, 0) \/ TakeTrap(Computed(c, regs), T_GPFLT, 8 * n + 2)
  BY DEF Interrupt
<1> HIDE DEF d
<1> QED BY <1>1, <1>2, <1>3, <1>4, Trapped

-----------------------------------------------------------------------------
(* TrapInv is inductive. *)

LEMMA InitTrapInv == Init => TrapInv
<1> SUFFICES ASSUME Init PROVE TrapInv
  OBVIOUS
<1>1. pc = "readsect" /\ program \in Programs
  BY DEF Init, BootInit, MachineInit
<1>2. /\ cpu = NullContext /\ raised = [vec |-> 0, from |-> NullContext]
      /\ messages = 0 /\ panicstr = FALSE
  BY DEF Init, TrapInit
<1>3. NullContext \in Context /\ ~Set(NullContext.eflags, FL_IF)
  BY DEF NullContext, Context, Set, FL_IF, GD_KT, GD_KD
<1>4. 0 \in Handled /\ 0 # T_SYSCALL
  BY DEF Handled, T_SYSCALL
<1> QED BY <1>1, <1>2, <1>3, <1>4 DEF TrapInv, InterruptsOff, PanicsOnce, CallInv

LEMMA BootKeepsTrapInv ==
  ASSUME TrapInv, BootStep, UNCHANGED trapvars
  PROVE  TrapInv'
<1> USE DEF Goto, Served
<1>1. CASE ReadsectCommand BY <1>1, Elsewhere DEF ReadsectCommand
<1>2. CASE ReadsectData BY <1>2, Elsewhere DEF ReadsectData
<1>3. CASE BadMagic BY <1>3, Elsewhere DEF BadMagic
<1>4. CASE ReadNextSegment BY <1>4, Elsewhere DEF ReadNextSegment, machine
<1>5. CASE EnterKernel
  <2>1. UNCHANGED program /\ pc' = "i386_init"
    BY <1>5 DEF EnterKernel
  <2> QED BY <2>1, Elsewhere
<1>6. CASE RunsHole BY <1>6, Elsewhere DEF RunsHole
<1> QED BY <1>1, <1>2, <1>3, <1>4, <1>5, <1>6 DEF BootStep

LEMMA FaultCodeNat ==
  ASSUME NEW la, NEW write \in BOOLEAN, NEW user \in BOOLEAN
  PROVE  FaultCode(la, write, user) \in Nat
BY DEF FaultCode

\* The program starts in its own segments, with interrupts off.
LEMMA EnterProgramTrapInv ==
  ASSUME TrapInv, EnterProgram
  PROVE  TrapInv'
<1>1. program.entry \in Nat
  BY ProgramLoaderAssumption DEF TrapInv
<1>2. /\ cpu' = [NewTrapframe(program.entry) EXCEPT !.eflags = 2]
      /\ cpu'.eflags = 2 /\ cpu'.cs = GD_UT + 3 /\ cpu'.ss = GD_UD + 3 /\ pc' = "user"
  BY DEF EnterProgram, RunTrapframe, NewTrapframe, Set, Goto
<1>3. cpu' \in Context
  BY <1>1, <1>2, Layout DEF Context, NewTrapframe, GD_UT, GD_UD
<1>4. UserSegments(cpu)' /\ ~Set(cpu'.eflags, FL_IF)
  BY <1>2 DEF UserSegments, Set, FL_IF
<1>5. UNCHANGED <<program, raised, panicstr, messages>>
  BY DEF EnterProgram
<1>6. (raised.vec = T_SYSCALL => UserSegments(raised.from))'
  BY <1>5 DEF TrapInv, UserSegments
<1> QED BY <1>2, <1>3, <1>4, <1>5, <1>6 DEF TrapInv, InterruptsOff, PanicsOnce, CallInv

LEMMA LoaderKeepsTrapInv ==
  ASSUME TrapInv, LoaderStep
  PROVE  TrapInv'
<1> USE DEF Goto, Served
<1>1. CASE Init386 BY <1>1, Elsewhere DEF Init386
<1>2. CASE IdeReadCommand BY <1>2, Elsewhere DEF IdeReadCommand
<1>3. CASE IdeReadSector BY <1>3, Elsewhere DEF IdeReadSector
<1>4. CASE IdeReadReturns BY <1>4, Elsewhere DEF IdeReadReturns
<1>5. CASE NotElf BY <1>5, Elsewhere DEF NotElf
<1>6. CASE NextHeader BY <1>6, Elsewhere DEF NextHeader, machine
<1>7. CASE RejectSegment BY <1>7, Elsewhere DEF RejectSegment
<1>8. CASE LoadSegment BY <1>8, Elsewhere DEF LoadSegment
<1>9. CASE SegmentFault
  <2>1. /\ \E at : \E w \in BOOLEAN : TakeTrap(cpu, T_PGFLT, FaultCode(at, w, FALSE))
        /\ UNCHANGED <<program, panicstr, messages>>
    BY <1>9 DEF SegmentFault
  <2>2. /\ cpu \in Context /\ ~Set(cpu.eflags, FL_IF)
        /\ T_PGFLT \in Handled /\ T_PGFLT # T_SYSCALL
    BY DEF TrapInv, InterruptsOff, T_PGFLT, T_SYSCALL, Handled
  <2> QED BY <2>1, <2>2, FaultCodeNat, Trapped
<1>10. CASE EnterProgram BY <1>10, EnterProgramTrapInv
<1> QED BY <1>1, <1>2, <1>3, <1>4, <1>5, <1>6, <1>7, <1>8, <1>9, <1>10 DEF LoaderStep

-----------------------------------------------------------------------------
(* System calls. *)

\* A trap that is dispatched as a system call is one, and the frame is what the
\* program had in its registers.
LEMMA Called ==
  ASSUME TrapInv, pc = "dispatch", tf.trapno = T_SYSCALL
  PROVE  /\ raised.vec = T_SYSCALL /\ raised.from \in Context /\ UserSegments(raised.from)
         /\ tf = Trapframe(raised.from, T_SYSCALL, 0)
         /\ tf.regs = raised.from.regs
<1>1. /\ raised.vec \in Handled /\ raised.from \in Context
      /\ tf = Trapframe(raised.from, raised.vec, tf.err)
  BY DEF TrapInv, CallInv
<1>2. raised.vec = T_SYSCALL
  BY <1>1, FrameNumber
<1>3. UserSegments(raised.from)
  BY <1>2 DEF TrapInv
<1>4. T_SYSCALL \in Handled /\ T_SYSCALL \notin Misframed /\ T_SYSCALL \notin PushesError
  BY DEF T_SYSCALL, Handled, Misframed, PushesError
<1>5. Trapframe(raised.from, T_SYSCALL, tf.err) = Trapframe(raised.from, T_SYSCALL, 0)
  BY <1>1, <1>4, FrameFields
<1>6. Trapframe(raised.from, T_SYSCALL, 0).regs = raised.from.regs
  BY <1>1, <1>4, FrameFields
<1> QED BY <1>1, <1>2, <1>3, <1>5, <1>6

\* A step that puts what a call returns into eax.
LEMMA Returns ==
  ASSUME TrapInv, raised.vec = T_SYSCALL, raised.from.regs.eax \in {SYS_cputs, SYS_test},
         tf = Trapframe(raised.from, T_SYSCALL, 0), Returning(0),
         UNCHANGED <<program, cpu, raised, panicstr, messages>>
  PROVE  TrapInv'
<1>1. pc' = "run" /\ tf' = [tf EXCEPT !.regs.eax = 0]
  BY DEF Returning, Goto
<1>2. CallInv'
  BY <1>1 DEF CallInv
<1>3. (raised.vec = T_SYSCALL => UserSegments(raised.from))'
  BY DEF TrapInv, UserSegments
<1> QED BY <1>1, <1>2, <1>3 DEF TrapInv, InterruptsOff, PanicsOnce

\* The program gets back the segments, the stack pointer and the flags it had.
LEMMA Restores ==
  ASSUME TrapInv, pc = "run", RunTrapframe(tf)
  PROVE  cpu' = [raised.from EXCEPT !.regs.eax = 0]
<1> DEFINE c == raised.from
<1>1. /\ c \in Context /\ UserSegments(c) /\ c.cs = GD_UT + 3
      /\ tf = [Trapframe(c, T_SYSCALL, 0) EXCEPT !.regs.eax = 0]
  BY DEF TrapInv, CallInv, UserSegments
<1>2. T_SYSCALL \in Handled /\ T_SYSCALL \notin Misframed
  BY DEF T_SYSCALL, Handled, Misframed
<1>3. FromUser(c.cs)
  BY <1>1 DEF FromUser, GD_UT
<1> DEFINE f == Trapframe(c, T_SYSCALL, 0)
<1>4. /\ f.regs = c.regs /\ f.es = c.es /\ f.ds = c.ds /\ f.eip = c.eip /\ f.cs = c.cs
      /\ f.eflags = c.eflags /\ f.esp = c.esp /\ f.ss = c.ss
      /\ f = [regs |-> f.regs, es |-> f.es, ds |-> f.ds, trapno |-> f.trapno,
              err |-> f.err, eip |-> f.eip, cs |-> f.cs, eflags |-> f.eflags,
              esp |-> f.esp, ss |-> f.ss]
  BY <1>1, <1>2, <1>3, FrameFields
<1> HIDE DEF f
<1>5. /\ tf.regs = [c.regs EXCEPT !.eax = 0] /\ tf.es = c.es /\ tf.ds = c.ds
      /\ tf.eip = c.eip /\ tf.cs = c.cs /\ tf.eflags = c.eflags /\ tf.esp = c.esp
      /\ tf.ss = c.ss
  BY <1>1, <1>4 DEF f
<1>6. cpu' = [eip |-> c.eip, cs |-> c.cs, esp |-> c.esp, ss |-> c.ss, ds |-> c.ds,
              es |-> c.es, regs |-> [c.regs EXCEPT !.eax = 0], eflags |-> c.eflags]
  BY <1>1, <1>5 DEF RunTrapframe, UserSegments
<1> QED BY <1>1, <1>6 DEF Context

-----------------------------------------------------------------------------
LEMMA ReturnToProgramTrapInv ==
  ASSUME TrapInv, ReturnToProgram
  PROVE  TrapInv'
<1>1. /\ pc = "run" /\ pc' = "user" /\ UNCHANGED <<program, raised, panicstr, messages>>
      /\ cpu' = [raised.from EXCEPT !.regs.eax = 0]
  BY Restores DEF ReturnToProgram, RunTrapframe, Goto
<1>2. /\ raised.from \in Context /\ UserSegments(raised.from)
      /\ ~Set(raised.from.eflags, FL_IF)
  BY <1>1 DEF TrapInv, CallInv
<1>3. /\ cpu' \in Context /\ cpu'.eflags = raised.from.eflags
      /\ cpu'.cs = raised.from.cs /\ cpu'.ss = raised.from.ss
  BY <1>1, <1>2 DEF Context
<1>4. UserSegments(cpu)' /\ ~Set(cpu'.eflags, FL_IF)
  BY <1>2, <1>3 DEF UserSegments
<1>5. (raised.vec = T_SYSCALL => UserSegments(raised.from))'
  BY <1>1 DEF TrapInv, UserSegments
<1> QED BY <1>1, <1>3, <1>4, <1>5 DEF TrapInv, InterruptsOff, PanicsOnce, CallInv

LEMMA TrapEnteredTrapInv ==
  ASSUME TrapInv, TrapEntered
  PROVE  TrapInv'
<1>1. /\ pc = "trap" /\ pc' = "dispatch" /\ UNCHANGED <<program, tf, raised, panicstr, messages>>
      /\ cpu' = [cpu EXCEPT !.eflags = Clear(@, FL_DF)]
  BY DEF TrapEntered, TrapInv, InterruptsOff, Goto
<1>2. cpu \in Context /\ ~Set(cpu.eflags, FL_IF) /\ cpu.eflags \in Nat
  BY DEF TrapInv, InterruptsOff, Context
<1>3. cpu' \in Context /\ cpu'.eflags = Clear(cpu.eflags, FL_DF)
  <2>1. Clear(cpu.eflags, FL_DF) \in Nat
    BY <1>2, Flags
  <2> QED BY <1>1, <1>2, <2>1 DEF Context
<1>4. ~Set(cpu'.eflags, FL_IF)
  BY <1>2, <1>3, Flags
<1>5. CallInv' /\ (raised.vec = T_SYSCALL => UserSegments(raised.from))'
  BY <1>1 DEF TrapInv, CallInv, UserSegments
<1> QED BY <1>1, <1>3, <1>4, <1>5 DEF TrapInv, InterruptsOff, PanicsOnce

LEMMA TrapKeepsTrapInv ==
  ASSUME TrapInv, TrapStep
  PROVE  TrapInv'
<1> USE DEF Goto, Served
<1>1. CASE TrapEntered BY <1>1, TrapEnteredTrapInv
<1>2. CASE PageFaultHandler BY <1>2, Elsewhere DEF PageFaultHandler
<1>3. CASE UnhandledTrap BY <1>3, Elsewhere DEF UnhandledTrap
<1>4. CASE SysCputs
  <2>1. /\ pc = "dispatch" /\ tf.trapno = T_SYSCALL /\ tf.regs.eax = SYS_cputs
        /\ UNCHANGED <<program, cpu, raised, panicstr, messages>>
    BY <1>4 DEF SysCputs, IsCall
  <2>2. /\ raised.vec = T_SYSCALL /\ UserSegments(raised.from)
        /\ tf = Trapframe(raised.from, T_SYSCALL, 0)
        /\ raised.from.regs.eax = SYS_cputs
    BY <2>1, Called
  <2>3. CASE Returning(0)
    BY <2>1, <2>2, <2>3, Returns
  <2>4. CASE pc' = "cputs" /\ UNCHANGED tf
    <3>1. CallInv' /\ (raised.vec = T_SYSCALL => UserSegments(raised.from))'
      BY <2>1, <2>2, <2>4 DEF CallInv, UserSegments
    <3> QED BY <2>1, <2>4, <3>1 DEF TrapInv, InterruptsOff, PanicsOnce
  <2> QED BY <1>4, <2>3, <2>4 DEF SysCputs
<1>5. CASE CputsChar
  <2>1. pc = "cputs" /\ UNCHANGED <<program, cpu, raised, panicstr, messages>>
    BY <1>5 DEF CputsChar
  <2>2. CASE UNCHANGED <<pc, tf>>
    <3>1. CallInv' /\ (raised.vec = T_SYSCALL => UserSegments(raised.from))'
      BY <2>1, <2>2 DEF TrapInv, CallInv, UserSegments
    <3> QED BY <2>1, <2>2, <3>1 DEF TrapInv, InterruptsOff, PanicsOnce
  <2>3. CASE Returning(0)
    BY <2>1, <2>3, Returns DEF TrapInv, CallInv
  <2> QED BY <1>5, <2>2, <2>3 DEF CputsChar
<1>6. CASE CputsFault
  <2>1. /\ cpu \in Context /\ ~Set(cpu.eflags, FL_IF)
        /\ T_PGFLT \in Handled /\ T_PGFLT # T_SYSCALL
    BY DEF TrapInv, InterruptsOff, T_PGFLT, T_SYSCALL, Handled
  <2>2. FaultCode(str[1], FALSE, FALSE) \in Nat
    BY FaultCodeNat
  <2> QED BY <1>6, <2>1, <2>2, Trapped DEF CputsFault
<1>7. CASE SysEnvDestroy BY <1>7, Elsewhere DEF SysEnvDestroy
<1>8. CASE SysTest
  <2>1. /\ pc = "dispatch" /\ tf.trapno = T_SYSCALL /\ tf.regs.eax = SYS_test
        /\ Returning(0) /\ UNCHANGED <<program, cpu, raised, panicstr, messages>>
    BY <1>8 DEF SysTest, IsCall
  <2> QED BY <2>1, Called, Returns
<1>9. CASE UnknownCall
  <2>1. pc' = "panic" /\ UNCHANGED <<program, cpu, raised, panicstr, messages>>
    BY <1>9 DEF UnknownCall
  <2>2. CallInv' /\ (raised.vec = T_SYSCALL => UserSegments(raised.from))'
    BY <2>1 DEF TrapInv, CallInv, UserSegments
  <2> QED BY <2>1, <2>2 DEF TrapInv, InterruptsOff, PanicsOnce
<1>10. CASE ReturnToProgram BY <1>10, ReturnToProgramTrapInv
<1>11. CASE Panic
  <2>1. pc' \in {"off", "panicking"} /\ UNCHANGED <<program, cpu, tf, raised>>
    BY <1>11 DEF Panic
  <2>2. PanicsOnce'
    BY <1>11 DEF Panic, TrapInv, PanicsOnce
  <2>3. CallInv' /\ (raised.vec = T_SYSCALL => UserSegments(raised.from))'
    BY <2>1 DEF TrapInv, CallInv, UserSegments
  <2> QED BY <2>1, <2>2, <2>3 DEF TrapInv, InterruptsOff
<1>12. CASE Shutdown BY <1>12, Elsewhere DEF Shutdown
<1>13. CASE CputsConversion \/ CputsArgument
  <2>1. UNCHANGED <<pc, program, cpu, tf, raised, panicstr, messages>>
    BY <1>13 DEF CputsConversion, CputsArgument, machine
  <2>2. CallInv' /\ (raised.vec = T_SYSCALL => UserSegments(raised.from))'
    BY <2>1 DEF TrapInv, CallInv, UserSegments
  <2>3. (pc = "user" => UserSegments(cpu))'
    BY <2>1 DEF TrapInv, UserSegments
  <2> QED BY <2>1, <2>2, <2>3 DEF TrapInv, InterruptsOff, PanicsOnce
<1> QED BY <1>1, <1>2, <1>3, <1>4, <1>5, <1>6, <1>7, <1>8, <1>9, <1>10, <1>11, <1>12, <1>13
        DEF TrapStep

LEMMA UserKeepsTrapInv ==
  ASSUME TrapInv, UserStep
  PROVE  TrapInv'
<1>1. CASE Write
  BY <1>1, Elsewhere DEF Write
<1>2. ASSUME NEW c \in Contexts,
             \/ DivZero(c) \/ Breakpoint(c) \/ SoftInt(c) \/ BadSegment(c)
             \/ OtherException(c) \/ FaultRead(c) \/ FaultWrite(c) \/ SystemCall(c)
      PROVE  TrapInv'
  <2>1. cpu.regs \in [eax : Nat, edx : Nat, ecx : Nat]
    BY DEF TrapInv, Context
  <2>2. {T_DIVIDE, T_GPFLT, T_PGFLT} \subseteq Handled \ {T_SYSCALL}
    BY DEF Handled, T_DIVIDE, T_GPFLT, T_PGFLT, T_SYSCALL
  <2>3. CASE DivZero(c) BY <2>2, <2>3, InstructionTraps DEF DivZero
  <2>4. CASE Breakpoint(c) BY <2>1, <2>4, InterruptTraps DEF Breakpoint
  <2>5. CASE SoftInt(c) BY <2>1, <2>5, InterruptTraps DEF SoftInt
  <2>6. CASE BadSegment(c) BY <2>2, <2>6, InstructionTraps DEF BadSegment, gdt, GD_KT, GD_KD, GD_UT, GD_UD, GD_TSS0
  <2>7. CASE OtherException(c)
    BY <2>7, InstructionTraps, TrapAssumption DEF OtherException
  <2>8. CASE FaultRead(c)
    BY <2>2, <2>8, InstructionTraps, FaultCodeNat DEF FaultRead
  <2>9. CASE FaultWrite(c)
    BY <2>2, <2>9, InstructionTraps, FaultCodeNat DEF FaultWrite
  <2>10. CASE SystemCall(c)
    <3>1. PICK a \in Arguments :
            Interrupt(c, T_SYSCALL, [eax |-> a[1], edx |-> a[2], ecx |-> a[3]])
      BY <2>10 DEF SystemCall
    <3>2. [eax |-> a[1], edx |-> a[2], ecx |-> a[3]] \in [eax : Nat, edx : Nat, ecx : Nat]
      BY TrapAssumption
    <3> QED BY <3>1, <3>2, InterruptTraps
  <2> QED BY <1>2, <2>3, <2>4, <2>5, <2>6, <2>7, <2>8, <2>9, <2>10
<1> QED BY <1>1, <1>2 DEF UserStep

\* A non-maskable interrupt, wherever it comes.
LEMMA NmiKeepsTrapInv ==
  ASSUME TrapInv, Nmi
  PROVE  TrapInv'
<1>1. PICK f \in {2, 3} :
        TakeTrap(IF pc = "user" THEN cpu ELSE [cpu EXCEPT !.eflags = f], T_NMI, 0)
  BY DEF Nmi
<1> DEFINE c == IF pc = "user" THEN cpu ELSE [cpu EXCEPT !.eflags = f]
<1>2. c \in Context /\ ~Set(c.eflags, FL_IF)
  <2>1. cpu \in Context /\ ~Set(cpu.eflags, FL_IF)
    BY DEF TrapInv, InterruptsOff
  <2>2. f \in Nat /\ ~Set(f, FL_IF)
    BY DEF Set, FL_IF
  <2>3. [cpu EXCEPT !.eflags = f] \in Context /\ [cpu EXCEPT !.eflags = f].eflags = f
    BY <2>1, <2>2 DEF Context
  <2> QED BY <2>1, <2>2, <2>3
<1>3. T_NMI \in Handled /\ T_NMI # T_SYSCALL
  BY DEF Handled, T_NMI, T_SYSCALL
<1>4. TakeTrap(c, T_NMI, 0) /\ UNCHANGED <<program, panicstr, messages>>
  BY <1>1 DEF Nmi
<1> HIDE DEF c
<1> QED BY <1>2, <1>3, <1>4, Trapped

LEMMA NextTrapInv == TrapInv /\ [Next]_vars => TrapInv'
<1> SUFFICES ASSUME TrapInv, [Next]_vars PROVE TrapInv'
  OBVIOUS
<1>1. CASE KernelStep
  BY <1>1, BootKeepsTrapInv, LoaderKeepsTrapInv, TrapKeepsTrapInv DEF KernelStep
<1>2. CASE (DiskDelivers \/ DiskFails) /\ UNCHANGED <<bootvars, trapvars, loadvars>>
  BY <1>2, Elsewhere DEF DiskDelivers, DiskFails
<1>3. CASE UserStep \/ Nmi
  BY <1>3, UserKeepsTrapInv, NmiKeepsTrapInv
<1>4. CASE UNCHANGED vars
  BY <1>4, Elsewhere DEF vars, machine
<1> QED BY <1>1, <1>2, <1>3, <1>4 DEF Next

\* In every reachable state interrupts are off, at most one panic has spoken,
\* the program runs in its own segments and on its own stack, and during a
\* system call its registers are in the frame (trap.c:231-263, trapentry.S).
THEOREM TrapInvariant == Spec => []TrapInv
BY InitTrapInv, NextTrapInv, PTL DEF Spec

\* The frame that is dispatched is that of the trap that came and, but for the
\* vectors whose entry point is wrong, holds the registers it interrupted.
THEOREM FramesAreTrue == Spec => []FrameIsTrue
<1>1. TrapInv => FrameIsTrue
  <2> SUFFICES ASSUME TrapInv, pc = "dispatch" PROVE FrameIsTrue!2
    BY DEF FrameIsTrue
  <2>1. /\ raised.vec \in Handled /\ raised.from \in Context
        /\ tf = Trapframe(raised.from, raised.vec, tf.err)
    BY DEF TrapInv, CallInv
  <2>2. tf.trapno = raised.vec
    BY <2>1, FrameNumber
  <2>3. CASE raised.vec \in Misframed
    BY <2>2, <2>3
  <2>4. CASE raised.vec \notin Misframed
    BY <2>1, <2>2, <2>4, FrameFields
  <2> QED BY <2>3, <2>4
<1> QED BY <1>1, TrapInvariant, PTL

-----------------------------------------------------------------------------
(* The kernel implements the abstract user machine. *)

Booting == {"readsect", "insl", "i386_init", "ide_read", "ide_data", "load"}
Serving == {"trap", "dispatch", "cputs", "run"}

StateAt(p, vec) ==
  CASE p \in Booting -> "booting"
    [] p = "user" -> "running"
    [] vec = T_SYSCALL /\ p \in Serving -> "calling"
    [] OTHER -> "stopped"

LEMMA States ==
  /\ UserState = StateAt(pc, raised.vec)
  /\ UserState' = StateAt(pc', raised'.vec)
BY DEF UserState, StateAt, Booting, Serving

LEMMA StateValues ==
  ASSUME NEW p, NEW vec
  PROVE  /\ p \in Booting => StateAt(p, vec) = "booting"
         /\ p = "user" => StateAt(p, vec) = "running"
         /\ p \in Serving /\ vec = T_SYSCALL => StateAt(p, vec) = "calling"
         /\ p \notin Booting \cup {"user"} /\ (p \notin Serving \/ vec # T_SYSCALL)
              => StateAt(p, vec) = "stopped"
BY DEF StateAt, Booting, Serving

\* The program sees nothing of a step within the kernel ...
LEMMA Silent ==
  ASSUME raised' = raised, cpu' = cpu \/ pc # "user",
         \/ pc' = pc
         \/ pc \in Booting /\ pc' \in Booting
         \/ pc \in Serving /\ pc' \in Serving
  PROVE  UNCHANGED User!vars
<1>1. UserState' = UserState
  BY States, StateValues DEF StateAt, Serving, Booting
<1>2. pc' = "user" <=> pc = "user"
  BY DEF Serving, Booting
<1> QED BY <1>1, <1>2 DEF User!vars

\* ... and one that does not go back to it may end everything.
LEMMA Stops ==
  ASSUME pc' \notin Booting \cup {"user"}, pc' \notin Serving \/ raised'.vec # T_SYSCALL
  PROVE  User!Next
<1>1. UserState' = "stopped"
  BY States, StateValues
<1> QED BY <1>1 DEF User!Next, User!Stop, User!Stopped

LEMMA TrapStops ==
  ASSUME NEW c, NEW v, NEW err, v # T_SYSCALL, TakeTrap(c, v, err)
  PROVE  User!Next
<1>1. pc' = "trap" /\ raised'.vec = v
  BY DEF TakeTrap, Goto
<1> QED BY <1>1, Stops DEF Booting

\* The program starts as initialize_new_trapframe has set it up.
LEMMA ProgramStarts ==
  ASSUME TrapInv, EnterProgram
  PROVE  User!Next
<1>1. /\ pc \in Booting /\ pc' = "user"
      /\ cpu' = [NewTrapframe(program.entry) EXCEPT !.eflags = 2]
  BY DEF EnterProgram, RunTrapframe, NewTrapframe, Set, Goto, Booting
<1>2. UserState = "booting" /\ UserState' = "running"
  BY <1>1, States, StateValues
<1>3. cpu' \in Fresh
  BY <1>1 DEF TrapInv, Fresh
<1> QED BY <1>1, <1>2, <1>3 DEF User!Next, User!Start

\* A system call is made from where the program is.
LEMMA ProgramCalls ==
  ASSUME TrapInv, NEW c \in Contexts, SystemCall(c)
  PROVE  User!Next
<1>1. PICK a \in Arguments :
        Interrupt(c, T_SYSCALL, [eax |-> a[1], edx |-> a[2], ecx |-> a[3]])
  BY DEF SystemCall
<1> DEFINE regs == [eax |-> a[1], edx |-> a[2], ecx |-> a[3]]
           d == [Computed(c, regs) EXCEPT !.eip = @ + 1]
<1>2. regs \in [eax : Nat, edx : Nat, ecx : Nat]
  BY TrapAssumption
<1>3. idt[T_SYSCALL].dpl = 3
  BY DEF idt, SETGATE, T_SYSCALL
<1>4. pc = "user" /\ pc' = "trap" /\ raised' = [vec |-> T_SYSCALL, from |-> d]
  BY <1>1, <1>3 DEF Interrupt, TakeTrap, Goto
<1>5. d \in Context /\ UserSegments(d)
  BY <1>2, <1>4, Computes
<1>6. /\ d.eip = c.eip + 1 /\ d.esp = c.esp /\ d.ds = c.ds /\ d.es = c.es
      /\ d.regs = regs /\ d.eflags = c.eflags
  <2>1. cpu \in Context /\ ~Set(cpu.eflags, FL_IF)
    BY DEF TrapInv, InterruptsOff
  <2>2. c.eflags + (IF Set(cpu.eflags, FL_IF) THEN FL_IF ELSE 0) = c.eflags
    BY <2>1, TrapAssumption
  <2> DEFINE q == Computed(c, regs)
  <2>3. q = [cpu EXCEPT !.eip = c.eip, !.esp = c.esp, !.ds = c.ds, !.es = c.es,
                        !.regs = regs, !.eflags = c.eflags]
    BY <2>2 DEF Computed
  <2>4. d = [q EXCEPT !.eip = @ + 1]
    OBVIOUS
  <2> HIDE DEF q, regs, d
  <2> QED BY <2>1, <2>3, <2>4 DEF Context
<1> HIDE DEF d
<1>7. d \in Contents
  BY <1>5, <1>6 DEF Contents, Context, UserSegments
<1>8. UserState = "running" /\ UserState' = "calling"
  BY <1>4, States, StateValues DEF Serving
<1> QED BY <1>4, <1>7, <1>8 DEF User!Next, User!Call

\* A call returns to where it was made, with a zero in eax.
LEMMA CallReturnsToProgram ==
  ASSUME TrapInv, ReturnToProgram
  PROVE  User!Next
<1>1. pc = "run" /\ pc' = "user" /\ cpu' = [raised.from EXCEPT !.regs.eax = 0]
  BY Restores DEF ReturnToProgram, RunTrapframe, Goto
<1>2. raised.vec = T_SYSCALL /\ raised.from.regs.eax \in {0, 4}
  BY <1>1 DEF TrapInv, CallInv, SYS_cputs, SYS_test
<1>3. UserState = "calling" /\ UserState' = "running"
  BY <1>1, <1>2, States, StateValues DEF Serving
<1> QED BY <1>1, <1>2, <1>3 DEF User!Next, User!Return

LEMMA BootRefines ==
  ASSUME TrapInv, BootStep, UNCHANGED trapvars
  PROVE  [User!Next]_User!vars
<1>1. raised' = raised /\ cpu' = cpu
  BY DEF trapvars
<1>2. CASE ReadsectCommand BY <1>1, <1>2, Silent DEF ReadsectCommand, Goto, Booting
<1>3. CASE ReadsectData BY <1>1, <1>3, Silent DEF ReadsectData, Goto, Booting
<1>4. CASE BadMagic
  <2>1. pc' \in {"spin", "lost"}
    BY <1>4 DEF BadMagic, Goto
  <2> QED BY <2>1, Stops DEF Booting, Serving
<1>5. CASE ReadNextSegment BY <1>1, <1>5, Silent DEF ReadNextSegment, machine
<1>6. CASE EnterKernel BY <1>1, <1>6, Silent DEF EnterKernel, Goto, Booting
<1>7. CASE RunsHole BY <1>7, Stops DEF RunsHole, Goto, Booting, Serving
<1> QED BY <1>2, <1>3, <1>4, <1>5, <1>6, <1>7 DEF BootStep

LEMMA LoaderRefines ==
  ASSUME TrapInv, LoaderStep
  PROVE  [User!Next]_User!vars
<1> USE DEF Goto, Booting
<1>1. CASE Init386 BY <1>1, Silent DEF Init386, trapvars
<1>2. CASE IdeReadCommand BY <1>2, Silent DEF IdeReadCommand, trapvars
<1>3. CASE IdeReadSector BY <1>3, Silent DEF IdeReadSector, trapvars
<1>4. CASE IdeReadReturns BY <1>4, Silent DEF IdeReadReturns, trapvars
<1>5. CASE NotElf BY <1>5, Stops DEF NotElf, Serving
<1>6. CASE NextHeader BY <1>6, Silent DEF NextHeader, machine, trapvars
<1>7. CASE RejectSegment BY <1>7, Stops DEF RejectSegment, Serving
<1>8. CASE LoadSegment BY <1>8, Silent DEF LoadSegment, trapvars
<1>9. CASE SegmentFault
  <2>1. \E err : TakeTrap(cpu, T_PGFLT, err)
    BY <1>9 DEF SegmentFault
  <2> QED BY <2>1, TrapStops DEF T_PGFLT, T_SYSCALL
<1>10. CASE EnterProgram BY <1>10, ProgramStarts
<1> QED BY <1>1, <1>2, <1>3, <1>4, <1>5, <1>6, <1>7, <1>8, <1>9, <1>10 DEF LoaderStep

LEMMA TrapRefines ==
  ASSUME TrapInv, TrapStep
  PROVE  [User!Next]_User!vars
<1> USE DEF Goto, Serving
<1>1. CASE TrapEntered
  <2>1. pc = "trap" /\ (pc' = "panic" \/ pc' = "dispatch") /\ raised' = raised
    BY <1>1 DEF TrapEntered
  <2>2. CASE pc' = "panic" BY <2>2, Stops DEF Booting
  <2>3. CASE pc' = "dispatch" BY <2>1, <2>3, Silent
  <2> QED BY <2>1, <2>2, <2>3
<1>2. CASE PageFaultHandler BY <1>2, Stops DEF PageFaultHandler, Booting
<1>3. CASE UnhandledTrap BY <1>3, Stops DEF UnhandledTrap, Booting
<1>4. CASE SysCputs BY <1>4, Silent DEF SysCputs, IsCall, Returning
<1>5. CASE CputsChar BY <1>5, Silent DEF CputsChar, Returning
<1>6. CASE CputsFault
  <2>1. TakeTrap(cpu, T_PGFLT, FaultCode(str[1], FALSE, FALSE))
    BY <1>6 DEF CputsFault
  <2>2. T_PGFLT # T_SYSCALL
    BY DEF T_PGFLT, T_SYSCALL
  <2>3. User!Next
    BY <2>1, <2>2, TrapStops
  <2> QED BY <2>3
<1>7. CASE SysEnvDestroy BY <1>7, Stops DEF SysEnvDestroy, Booting
<1>8. CASE SysTest BY <1>8, Silent DEF SysTest, IsCall, Returning
<1>9. CASE UnknownCall BY <1>9, Stops DEF UnknownCall, Booting
<1>10. CASE ReturnToProgram BY <1>10, CallReturnsToProgram
<1>11. CASE Panic
  <2>1. pc' \in {"off", "panicking"}
    BY <1>11 DEF Panic
  <2> QED BY <2>1, Stops DEF Booting
<1>12. CASE Shutdown BY <1>12, Stops DEF Shutdown, Booting
<1>13. CASE CputsConversion BY <1>13, Silent DEF CputsConversion, machine
<1>14. CASE CputsArgument BY <1>14, Silent DEF CputsArgument, machine
<1> QED BY <1>1, <1>2, <1>3, <1>4, <1>5, <1>6, <1>7, <1>8, <1>9, <1>10, <1>11, <1>12,
           <1>13, <1>14 DEF TrapStep

LEMMA UserRefines ==
  ASSUME TrapInv, UserStep
  PROVE  [User!Next]_User!vars
<1>1. CASE Write BY <1>1, Silent DEF Write, trapvars
<1>2. ASSUME NEW c \in Contexts, NEW v \in Handled \ {T_SYSCALL}, NEW err, Instruction(c, v, err)
      PROVE  User!Next
  BY <1>2, TrapStops DEF Instruction
<1>3. ASSUME NEW c \in Contexts, NEW n \in {T_BRKPT, T_PGFLT}, Interrupt(c, n, cpu.regs)
      PROVE  User!Next
  BY <1>3, TrapStops DEF Interrupt, T_BRKPT, T_GPFLT, T_PGFLT, T_SYSCALL
<1>4. ASSUME NEW c \in Contexts,
             \/ DivZero(c) \/ Breakpoint(c) \/ SoftInt(c) \/ BadSegment(c)
             \/ OtherException(c) \/ FaultRead(c) \/ FaultWrite(c) \/ SystemCall(c)
      PROVE  User!Next
  <2>1. {T_DIVIDE, T_GPFLT, T_PGFLT} \subseteq Handled \ {T_SYSCALL}
    BY DEF Handled, T_DIVIDE, T_GPFLT, T_PGFLT, T_SYSCALL
  <2>2. CASE DivZero(c) BY <1>2, <2>1, <2>2 DEF DivZero
  <2>3. CASE Breakpoint(c) BY <1>3, <2>3 DEF Breakpoint
  <2>4. CASE SoftInt(c) BY <1>3, <2>4 DEF SoftInt
  <2>5. CASE BadSegment(c) BY <1>2, <2>1, <2>5 DEF BadSegment
  <2>6. CASE OtherException(c) BY <1>2, <2>6, TrapAssumption DEF OtherException
  <2>7. CASE FaultRead(c) BY <1>2, <2>1, <2>7 DEF FaultRead
  <2>8. CASE FaultWrite(c) BY <1>2, <2>1, <2>8 DEF FaultWrite
  <2>9. CASE SystemCall(c) BY <2>9, ProgramCalls
  <2> QED BY <1>4, <2>2, <2>3, <2>4, <2>5, <2>6, <2>7, <2>8, <2>9
<1> QED BY <1>1, <1>4 DEF UserStep

\* For every program and every disk: seen from the program, the kernel starts it
\* with fresh registers, returns from a call with only eax changed, and after
\* any other trap never runs it again (env.c:80-114, trap.c:193-263).
THEOREM UserMachineRefinement == Spec => ImplementsUserMachine
<1>1. Init => User!Init
  <2> SUFFICES ASSUME Init PROVE User!Init
    OBVIOUS
  <2>1. pc = "readsect" /\ raised.from = NullContext
    BY DEF Init, BootInit, MachineInit, TrapInit
  <2>2. UserState = "booting"
    BY <2>1 DEF UserState
  <2> QED BY <2>1, <2>2 DEF User!Init
<1>2. TrapInv /\ [Next]_vars => [User!Next]_User!vars
  <2> SUFFICES ASSUME TrapInv, [Next]_vars PROVE [User!Next]_User!vars
    OBVIOUS
  <2>1. CASE KernelStep
    BY <2>1, BootRefines, LoaderRefines, TrapRefines DEF KernelStep
  <2>2. CASE (DiskDelivers \/ DiskFails) /\ UNCHANGED <<bootvars, trapvars, loadvars>>
    BY <2>2, Silent DEF DiskDelivers, DiskFails, trapvars
  <2>3. CASE UserStep
    BY <2>3, UserRefines
  <2>4. CASE Nmi
    BY <2>4, TrapStops DEF Nmi, T_NMI, T_SYSCALL
  <2>5. CASE UNCHANGED vars
    BY <2>5, Silent DEF vars, machine, trapvars
  <2> QED BY <2>1, <2>2, <2>3, <2>4, <2>5 DEF Next
<1> QED BY <1>1, <1>2, TrapInvariant, PTL DEF Spec, ImplementsUserMachine, User!Spec

-----------------------------------------------------------------------------
(* Memory *)

LEMMA Remainder ==
  ASSUME NEW a \in Nat, NEW n \in Nat \ {0}
  PROVE  a % n \in 0..(n - 1)
BY Z3

\* The sizes of the map.
LEMMA Sizes ==
  /\ PGSIZE \in Nat \ {0} /\ NPTENTRIES \in Nat \ {0} /\ NPDENTRIES \in Nat
  /\ PTSIZE \in Nat \ {0} /\ PTSIZE = PGSIZE * NPTENTRIES
  /\ UTEXT = 2 * PTSIZE /\ USTACKTOP \in Nat
  /\ ADDRESSES \in Nat /\ ADDRESSES > 3 * PTSIZE
<1>1. /\ PGSIZE \in Nat \ {0} /\ NPTENTRIES \in Nat \ {0} /\ NPDENTRIES \in Nat
      /\ NPDENTRIES > 3 /\ USTACKTOP \in Nat
  BY PageTablesAssumption, Layout
<1>2. PGSIZE * NPTENTRIES \in Nat \ {0}
  BY <1>1, SMT
<1>3. PTSIZE \in Nat \ {0}
  BY <1>2 DEF PTSIZE
<1>4. NPDENTRIES * PTSIZE > 3 * PTSIZE /\ NPDENTRIES * PTSIZE \in Nat
  BY <1>1, <1>3, SMT
<1> QED BY <1>1, <1>3, <1>4 DEF PTSIZE, UTEXT, ADDRESSES

LEMMA Products ==
  ASSUME NEW a \in Nat, NEW b \in Nat, NEW c \in Nat
  PROVE  /\ a * b \in Nat /\ a * b = b * a
         /\ a * (b * c) = (a * b) * c /\ a * (b + c) = a * b + a * c
         /\ a <= b => c * a <= c * b
<1>1. a * b \in Nat /\ a * b = b * a
  OBVIOUS
<1>2. a * (b * c) = (a * b) * c
  OBVIOUS
<1>3. a * (b + c) = a * b + a * c
  OBVIOUS
<1>4. a <= b => c * a <= c * b
  OBVIOUS
<1> QED BY <1>1, <1>2, <1>3, <1>4

LEMMA Division ==
  ASSUME NEW n \in Nat, NEW d \in Nat \ {0}
  PROVE  n \div d \in Nat /\ n % d \in 0..(d - 1) /\ n = (n \div d) * d + (n % d)
<1>1. n = (n \div d) * d + (n % d)
  BY Z3
<1>2. n \div d \in Nat
  OBVIOUS
<1>3. n % d \in 0..(d - 1)
  OBVIOUS
<1> QED BY <1>1, <1>2, <1>3

LEMMA Quotient ==
  ASSUME NEW n \in Nat, NEW d \in Nat \ {0}, NEW q \in Nat, NEW r \in Nat,
         n = q * d + r, r < d
  PROVE  n \div d = q
BY Z3

\* The three tables, entry by entry.
LEMMA Directory ==
  /\ DOMAIN entry_pgdir = 0..2
  /\ entry_pgdir[0].flags = {"P", "W"} /\ entry_pgdir[1].flags = {"P", "W"}
  /\ entry_pgdir[2].flags = {"U", "P", "W"}
  /\ \A i \in 0..(NPTENTRIES - 1) :
       /\ entry_pgdir[0].table[i] = Entry(i, {"P", "W"})
       /\ entry_pgdir[1].table[i] = Entry(NPTENTRIES + i, {"P", "W"})
       /\ entry_pgdir[2].table[i] = Entry(2 * NPTENTRIES + i, {"U", "P", "W"})
<1>1. /\ entry_pgdir[0].table = entry_pgtable0 /\ entry_pgdir[1].table = entry_pgtable1
      /\ entry_pgdir[2].table = entry_pgtable2
  BY DEF entry_pgdir
<1>2. /\ DOMAIN entry_pgdir = 0..2
      /\ entry_pgdir[0].flags = {"P", "W"} /\ entry_pgdir[1].flags = {"P", "W"}
      /\ entry_pgdir[2].flags = {"U", "P", "W"}
  BY DEF entry_pgdir
<1> QED BY <1>1, <1>2 DEF entry_pgtable0, entry_pgtable1, entry_pgtable2

LEMMA Leaves ==
  ASSUME NEW i \in 0..(NPTENTRIES - 1)
  PROVE  /\ entry_pgdir[0].table[i].flags = {"P", "W"}
         /\ entry_pgdir[1].table[i].flags = {"P", "W"}
         /\ entry_pgdir[2].table[i].flags = {"U", "P", "W"}
         /\ entry_pgdir[0].table[i].page = i
         /\ entry_pgdir[1].table[i].page = NPTENTRIES + i
         /\ entry_pgdir[2].table[i].page = 2 * NPTENTRIES + i
<1>1. /\ entry_pgdir[0].table[i] = Entry(i, {"P", "W"})
      /\ entry_pgdir[1].table[i] = Entry(NPTENTRIES + i, {"P", "W"})
      /\ entry_pgdir[2].table[i] = Entry(2 * NPTENTRIES + i, {"U", "P", "W"})
  BY Directory
<1>2. ASSUME NEW page, NEW flags
      PROVE  Entry(page, flags).page = page /\ Entry(page, flags).flags = flags
  BY DEF Entry
<1> QED BY <1>1, <1>2

\* Which of the three tables an address belongs to.
LEMMA Tables ==
  ASSUME NEW la \in Nat
  PROVE  /\ PDX(la) \in Nat
         /\ PDX(la) \in 0..2 <=> la < 3 * PTSIZE
         /\ PDX(la) = 2 <=> la >= UTEXT /\ la < 3 * PTSIZE
<1> DEFINE q == la \div PTSIZE
<1>1. q \in Nat /\ la % PTSIZE \in 0..(PTSIZE - 1) /\ la = q * PTSIZE + (la % PTSIZE)
  BY Sizes, Division
<1>2. PTSIZE \in Nat \ {0}
  BY Sizes
<1> HIDE DEF q
<1>3. /\ q <= 2 => q * PTSIZE <= 2 * PTSIZE
      /\ q >= 3 => q * PTSIZE >= 3 * PTSIZE
      /\ q <= 1 => q * PTSIZE <= PTSIZE
      /\ q >= 2 => q * PTSIZE >= 2 * PTSIZE
  BY <1>1, <1>2
<1> QED BY <1>1, <1>2, <1>3, Sizes DEF q, PDX

\* The kernel gets at the three tables, the program at the last only.
LEMMA Mapped ==
  ASSUME NEW la \in Nat
  PROVE  /\ KernelMay(la) <=> la < 3 * PTSIZE
         /\ UserMay(la) <=> la \in UTEXT..(3 * PTSIZE - 1)
<1> USE DEF KernelMay, UserMay
<1>1. PTX(la) \in 0..(NPTENTRIES - 1)
  BY Sizes, Division DEF PTX
<1>2. CASE PDX(la) \notin 0..2
  <2>1. Rights(la) = {}
    BY <1>2, Directory DEF Rights
  <2> QED BY <1>2, <2>1, Tables, Sizes
<1>3. CASE PDX(la) = 2
  <2>1. entry_pgdir[2].table[PTX(la)].flags = {"U", "P", "W"}
    BY <1>1, Leaves
  <2>2. Rights(la) = {"U", "P", "W"}
    BY <1>3, <2>1, Directory DEF Rights
  <2> QED BY <1>3, <2>2, Tables, Sizes
<1>4. CASE PDX(la) \in 0..1
  <2>1. entry_pgdir[PDX(la)].table[PTX(la)].flags = {"P", "W"}
    <3>1. CASE PDX(la) = 0
      BY <1>1, <3>1, Leaves
    <3>2. CASE PDX(la) = 1
      BY <1>1, <3>2, Leaves
    <3> QED BY <1>4, <3>1, <3>2
  <2>2. Rights(la) = {"P", "W"}
    BY <1>4, <2>1, Directory DEF Rights
  <2>3. {"P", "W"} \subseteq Rights(la) /\ ~({"U", "P", "W"} \subseteq Rights(la))
    BY <2>2
  <2> QED BY <1>4, <2>3, Tables, Sizes
<1> QED BY <1>2, <1>3, <1>4, Tables

\* Every address that is mapped is mapped to itself.
LEMMA Identity ==
  ASSUME NEW la \in Nat, la < 3 * PTSIZE
  PROVE  PhysAddr(la) = la
<1>1. PDX(la) \in 0..2 /\ PTX(la) \in 0..(NPTENTRIES - 1)
  BY Sizes, Division, Tables DEF PTX
<1>2. entry_pgdir[PDX(la)].table[PTX(la)].page = PDX(la) * NPTENTRIES + PTX(la)
  <2>1. /\ entry_pgdir[0].table[PTX(la)].page = PTX(la)
        /\ entry_pgdir[1].table[PTX(la)].page = NPTENTRIES + PTX(la)
        /\ entry_pgdir[2].table[PTX(la)].page = 2 * NPTENTRIES + PTX(la)
    BY <1>1, Leaves
  <2>2. CASE PDX(la) = 0
    BY <1>1, <2>1, <2>2, Sizes
  <2>3. CASE PDX(la) = 1
    BY <1>1, <2>1, <2>3, Sizes
  <2>4. CASE PDX(la) = 2
    BY <1>1, <2>1, <2>4, Sizes
  <2> QED BY <1>1, <2>2, <2>3, <2>4
<1> DEFINE page == la \div PGSIZE
           pt == page \div NPTENTRIES
           px == page % NPTENTRIES
           off == la % PGSIZE
<1>3. /\ page \in Nat /\ off \in 0..(PGSIZE - 1) /\ la = page * PGSIZE + off
      /\ pt \in Nat /\ px \in 0..(NPTENTRIES - 1) /\ page = pt * NPTENTRIES + px
  BY Sizes, Division
<1>4. PTX(la) = px /\ PGOFF(la) = off
  BY DEF PTX, PGOFF
<1>5. PDX(la) = pt
  <2> HIDE DEF pt, px, page, off
  <2>1. page * PGSIZE = pt * PTSIZE + px * PGSIZE
    <3>1. page * PGSIZE = PGSIZE * (pt * NPTENTRIES) + PGSIZE * px
      BY <1>3, Sizes, Products
    <3>2. PGSIZE * (pt * NPTENTRIES) = PTSIZE * pt
      BY <1>3, Sizes, Products
    <3> QED BY <1>3, <3>1, <3>2, Sizes, Products
  <2>2. px * PGSIZE + PGSIZE <= PTSIZE
    <3>1. PGSIZE * (px + 1) <= PGSIZE * NPTENTRIES
      BY <1>3, Sizes, Products
    <3> QED BY <1>3, <3>1, Sizes, Products
  <2>3. px * PGSIZE + off \in Nat /\ px * PGSIZE + off < PTSIZE
    BY <1>3, <2>2, Sizes, Products
  <2>4. la = pt * PTSIZE + (px * PGSIZE + off)
    BY <1>3, <2>1, Sizes, Products
  <2> QED BY <1>3, <2>3, <2>4, Sizes, Quotient DEF PDX
<1> HIDE DEF pt, px, page, off
<1> QED BY <1>2, <1>3, <1>4, <1>5 DEF PhysAddr

-----------------------------------------------------------------------------
(* How far the kernel gets before it faults. *)

LEMMA Reached ==
  ASSUME NEW la \in 0..(ADDRESSES - 1), NEW n \in Nat
  PROVE  /\ Reach(la, n) \in 0..n
         /\ la <= 3 * PTSIZE => la + Reach(la, n) <= 3 * PTSIZE
         /\ Reach(la, n) > 0 => la < 3 * PTSIZE
<1> DEFINE top == 3 * PTSIZE
           Good(r) == /\ \A i \in 0..(r - 1) : KernelMay((la + i) % ADDRESSES)
                      /\ r = n \/ ~KernelMay((la + r) % ADDRESSES)
<1>1. top \in Nat /\ ADDRESSES \in Nat /\ ADDRESSES > top
  BY Sizes
<1> HIDE DEF top
<1>2. ASSUME NEW i \in Nat, la + i < ADDRESSES
      PROVE  KernelMay((la + i) % ADDRESSES) <=> la + i < top
  <2>1. (la + i) % ADDRESSES = la + i
    BY <1>1, <1>2
  <2> QED BY <2>1, Mapped DEF top
<1>3. \E r \in 0..n : Good(r)
  <2>1. CASE la >= top
    <3>1. Good(0)
      BY <1>1, <1>2, <2>1
    <3> QED BY <3>1
  <2>2. CASE la < top /\ la + n <= top
    <3>1. ASSUME NEW i \in 0..(n - 1) PROVE KernelMay((la + i) % ADDRESSES)
      <4>1. i \in Nat /\ la + i < top /\ la + i < ADDRESSES
        BY <1>1, <2>2
      <4> QED BY <1>2, <4>1
    <3>2. Good(n)
      BY <3>1 DEF Good
    <3> HIDE DEF Good
    <3> QED BY <3>2
  <2>3. CASE la < top /\ la + n > top
    <3>1. top - la \in 0..n /\ la + (top - la) = top
      BY <1>1, <2>3
    <3>2. Good(top - la)
      BY <1>1, <1>2, <2>3, <3>1
    <3> QED BY <3>1, <3>2
  <2> QED BY <1>1, <2>1, <2>2, <2>3
<1>4. Reach(la, n) = CHOOSE r \in 0..n : Good(r)
  BY DEF Reach
<1> HIDE DEF Good
<1>5. Reach(la, n) \in 0..n /\ Good(Reach(la, n))
  BY <1>3, <1>4
<1>6. ASSUME la <= top, la + Reach(la, n) > top PROVE FALSE
  <2>1. top - la \in 0..(Reach(la, n) - 1) /\ top - la \in Nat /\ la + (top - la) = top
    BY <1>1, <1>5, <1>6
  <2>2. KernelMay((la + (top - la)) % ADDRESSES)
    BY <1>5, <2>1 DEF Good
  <2> QED BY <1>1, <1>2, <2>1, <2>2
<1>7. ASSUME Reach(la, n) > 0 PROVE la < top
  <2>1. 0 \in 0..(Reach(la, n) - 1) /\ la + 0 = la /\ la + 0 < ADDRESSES
    BY <1>1, <1>5, <1>7
  <2>2. KernelMay((la + 0) % ADDRESSES)
    BY <1>5, <2>1 DEF Good
  <2> QED BY <1>1, <1>2, <2>1, <2>2
<1> QED BY <1>1, <1>5, <1>6, <1>7 DEF top

\* Bytes stored from an address of the program on stay with the program.
LEMMA StoresAbove ==
  ASSUME DOMAIN ram = 0..(3 * PTSIZE - 1),
         NEW la \in Nat, NEW n \in Nat, la >= UTEXT, la + n <= 3 * PTSIZE,
         NEW bytes, DOMAIN bytes = 0..(n - 1)
  PROVE  /\ DOMAIN Stored(la, bytes) = DOMAIN ram
         /\ \A a \in 0..(UTEXT - 1) : Stored(la, bytes)[a] = ram[a]
<1>1. ASSUME NEW a \in 0..(UTEXT - 1), NEW i \in DOMAIN bytes
      PROVE  PhysAddr(la + i) # a
  <2>1. la + i \in Nat /\ la + i < 3 * PTSIZE /\ la + i >= UTEXT
    BY <1>1, Sizes
  <2> QED BY <2>1, Identity, Sizes
<1>2. 0..(UTEXT - 1) \subseteq DOMAIN ram
  BY Sizes
<1> QED BY <1>1, <1>2 DEF Stored

-----------------------------------------------------------------------------
(* What is known of memory, of the next program header, and of the string. *)

MemoryInv ==
  /\ DOMAIN ram = 0..(3 * PTSIZE - 1)
  /\ pc = "load" => ph \in Nat \ {0}
  /\ pc = "cputs" =>
       \E s \in Nat : s >= UTEXT /\ (str = <<s>> \/ \E arg : str = <<arg, s>>)

\* Loading a segment changes nothing below the program.
LEMMA SegmentAbove ==
  ASSUME TrapInv, MemoryInv, pc = "load", ~LoadedAll,
         NEW s, s = program.segs[ph], ~OutsideRegion(s), SegmentStored(s)
  PROVE  /\ DOMAIN ram' = DOMAIN ram
         /\ \A a \in 0..(UTEXT - 1) : ram'[a] = ram[a]
<1>1. s \in [type : Nat, va : Nat, memsz : Nat, filesz : Nat, offset : Nat]
  <2> DEFINE Header == [type : Nat, va : Nat, memsz : Nat, filesz : Nat, offset : Nat]
  <2>1. program.segs \in Seq(Header)
    BY ProgramLoaderAssumption DEF TrapInv
  <2> HIDE DEF Header
  <2>2. ph \in 1..Len(program.segs)
    <3>1. Len(program.segs) \in Nat
      BY <2>1
    <3> QED BY <3>1 DEF MemoryInv, LoadedAll
  <2>3. program.segs[ph] \in Header
    BY <2>1, <2>2
  <2> QED BY <2>3 DEF Header
<1>2. s.va \in Nat /\ s.va >= UTEXT /\ s.va <= 3 * PTSIZE /\ s.va \in 0..(ADDRESSES - 1)
  <2>1. USTACKTOP <= 3 * PTSIZE
    <3>1. PGSIZE \in Nat /\ PTSIZE \in Nat
      BY Sizes
    <3> QED BY <3>1 DEF USTACKTOP, UTOP, UTEXT
  <2> QED BY <1>1, <2>1, Sizes DEF OutsideRegion
<1>3. Source(s) \in 0..(ADDRESSES - 1)
  <2>1. binary_to_load \in Nat
    BY ProgramLoaderAssumption
  <2>2. ADDRESSES \in Nat \ {0}
    BY Sizes
  <2>3. binary_to_load + s.offset \in Nat
    BY <1>1, <2>1
  <2> QED BY <2>2, <2>3, Remainder DEF Source
<1>4. /\ Cleared(s) \in Nat /\ s.va + Cleared(s) <= 3 * PTSIZE
      /\ Writable(s) \in Nat /\ s.va + Writable(s) <= 3 * PTSIZE
      /\ Readable(s) \in Nat
  BY <1>1, <1>2, <1>3, Reached DEF Cleared, Writable, Readable
<1>5. Copied(s) \in Nat /\ Copied(s) <= Writable(s)
  BY <1>4 DEF Copied
<1> DEFINE touched == IF Copied(s) > Cleared(s) THEN Copied(s) ELSE Cleared(s)
           bytes == [i \in 0..(touched - 1) |->
                      IF i < Copied(s) THEN ram[PhysAddr(Source(s) + i)] ELSE Zero]
<1>6. touched \in Nat /\ s.va + touched <= 3 * PTSIZE
  BY <1>2, <1>4, <1>5, Sizes
<1>7. ram' = Stored(s.va, bytes) /\ DOMAIN bytes = 0..(touched - 1)
  BY DEF SegmentStored
<1> HIDE DEF touched, bytes
<1> QED BY <1>2, <1>6, <1>7, StoresAbove DEF MemoryInv

\* So does what the program writes.
LEMMA WriteAbove ==
  ASSUME MemoryInv, Write
  PROVE  /\ DOMAIN ram' = DOMAIN ram
         /\ \A a \in 0..(UTEXT - 1) : ram'[a] = ram[a]
<1>1. PICK va \in Addresses : UserMay(va) /\ ram' = [ram EXCEPT ![PhysAddr(va)] = UserData]
  BY DEF Write
<1>2. va \in Nat /\ va >= UTEXT /\ va < 3 * PTSIZE
  BY <1>1, Mapped, Sizes, TrapAssumption
<1>3. PhysAddr(va) = va
  BY <1>2, Identity
<1>4. 0..(UTEXT - 1) \subseteq DOMAIN ram
  BY Sizes DEF MemoryInv
<1> QED BY <1>1, <1>2, <1>3, <1>4, Sizes

\* The steps that do not touch memory, and go neither to load_code nor to cputs.
LEMMA MemoryElsewhere ==
  ASSUME MemoryInv, UNCHANGED ram,
         pc' \notin {"load", "cputs"} \/ UNCHANGED <<pc, str, ph>>
  PROVE  MemoryInv'
BY DEF MemoryInv

LEMMA BootKeepsMemoryInv ==
  ASSUME MemoryInv, BootStep
  PROVE  MemoryInv'
<1> USE DEF Goto
<1>1. CASE ReadsectCommand BY <1>1, MemoryElsewhere DEF ReadsectCommand
<1>2. CASE ReadsectData
  <2>1. DOMAIN ram' = DOMAIN ram /\ pc' = "readsect"
    BY <1>2 DEF ReadsectData
  <2> QED BY <2>1 DEF MemoryInv
<1>3. CASE BadMagic BY <1>3, MemoryElsewhere DEF BadMagic
<1>4. CASE ReadNextSegment BY <1>4, MemoryElsewhere DEF ReadNextSegment, machine
<1>5. CASE EnterKernel BY <1>5, MemoryElsewhere DEF EnterKernel
<1>6. CASE RunsHole BY <1>6, MemoryElsewhere DEF RunsHole
<1> QED BY <1>1, <1>2, <1>3, <1>4, <1>5, <1>6 DEF BootStep

LEMMA LoaderKeepsMemoryInv ==
  ASSUME TrapInv, MemoryInv, LoaderStep
  PROVE  MemoryInv'
<1> USE DEF Goto
<1>1. CASE Init386
  <2>1. DOMAIN ram' = DOMAIN ram /\ pc' = "ide_read"
    BY <1>1 DEF Init386
  <2> QED BY <2>1 DEF MemoryInv
<1>2. CASE IdeReadCommand BY <1>2, MemoryElsewhere DEF IdeReadCommand
<1>3. CASE IdeReadSector
  <2>1. DOMAIN ram' = DOMAIN ram /\ pc' = "ide_data"
    BY <1>3 DEF IdeReadSector, Stored
  <2> QED BY <2>1 DEF MemoryInv
<1>4. CASE IdeReadReturns BY <1>4 DEF IdeReadReturns, MemoryInv
<1>5. CASE NotElf BY <1>5, MemoryElsewhere DEF NotElf
<1>6. CASE NextHeader BY <1>6 DEF NextHeader, machine, MemoryInv
<1>7. CASE RejectSegment BY <1>7, MemoryElsewhere DEF RejectSegment
<1>8. CASE LoadSegment
  <2>1. DOMAIN ram' = DOMAIN ram
    BY <1>8, SegmentAbove DEF LoadSegment
  <2>2. pc' = "load" /\ pc = "load" /\ ph' = ph + 1
    BY <1>8 DEF LoadSegment
  <2> QED BY <2>1, <2>2 DEF MemoryInv
<1>9. CASE SegmentFault
  <2>1. DOMAIN ram' = DOMAIN ram
    BY <1>9, SegmentAbove DEF SegmentFault
  <2>2. pc' = "trap"
    BY <1>9 DEF SegmentFault, TakeTrap
  <2> QED BY <2>1, <2>2 DEF MemoryInv
<1>10. CASE EnterProgram BY <1>10, MemoryElsewhere DEF EnterProgram, RunTrapframe
<1> QED BY <1>1, <1>2, <1>3, <1>4, <1>5, <1>6, <1>7, <1>8, <1>9, <1>10 DEF LoaderStep

\* sys_cputs starts within the program, and cprintf stops before the end of
\* what is mapped.
LEMMA TrapKeepsMemoryInv ==
  ASSUME TrapInv, MemoryInv, TrapStep, UNCHANGED loadvars
  PROVE  MemoryInv'
<1> USE DEF Goto
<1>1. CASE TrapEntered
  <2>1. pc' \in {"panic", "dispatch"} /\ UNCHANGED ram
    BY <1>1 DEF TrapEntered
  <2> QED BY <2>1, MemoryElsewhere
<1>2. CASE PageFaultHandler BY <1>2, MemoryElsewhere DEF PageFaultHandler
<1>3. CASE UnhandledTrap BY <1>3, MemoryElsewhere DEF UnhandledTrap
<1>4. CASE SysCputs
  <2>1. CASE BadPointer(tf.regs.edx, tf.regs.ecx)
    BY <1>4, <2>1, MemoryElsewhere DEF SysCputs, Returning
  <2>2. CASE ~BadPointer(tf.regs.edx, tf.regs.ecx)
    <3>1. raised.from \in Context /\ tf = Trapframe(raised.from, T_SYSCALL, 0)
      BY <1>4, Called DEF SysCputs, IsCall
    <3>2. tf.regs = raised.from.regs
      <4>1. T_SYSCALL \in Handled /\ T_SYSCALL \notin Misframed
        BY DEF T_SYSCALL, Handled, Misframed
      <4> QED BY <3>1, <4>1, FrameFields
    <3>3. str' = <<tf.regs.edx>> /\ tf.regs.edx \in Nat /\ tf.regs.edx >= UTEXT
      BY <1>4, <2>2, <3>1, <3>2, Sizes DEF SysCputs, BadPointer, Context
    <3>4. pc' = "cputs" /\ UNCHANGED ram
      BY <1>4, <2>2 DEF SysCputs
    <3> QED BY <3>3, <3>4 DEF MemoryInv
  <2> QED BY <2>1, <2>2
<1>5. CASE CputsChar
  <2>1. CASE pc' = "run"
    BY <1>5, <2>1, MemoryElsewhere DEF CputsChar
  <2>2. CASE pc' # "run"
    <3>1. PICK t \in Nat : t >= UTEXT /\ (str = <<t>> \/ \E arg : str = <<arg, t>>)
      BY <1>5 DEF CputsChar, MemoryInv
    <3>2. str = <<t>> /\ str[1] = t
      BY <1>5, <3>1 DEF CputsChar
    <3>3. t < 3 * PTSIZE
      BY <1>5, <3>2, Mapped DEF CputsChar
    <3>4. str' = <<(t + 1) % ADDRESSES>> /\ UNCHANGED ram
      BY <1>5, <2>2, <3>2 DEF CputsChar, Returning
    <3>5. (t + 1) % ADDRESSES = t + 1 /\ t + 1 >= UTEXT
      BY <3>1, <3>3, Sizes
    <3>6. PICK n \in Nat : n = (t + 1) % ADDRESSES /\ n >= UTEXT
      BY <3>5
    <3>7. pc' = "cputs" /\ str' = <<n>> /\ DOMAIN ram' = DOMAIN ram
      BY <1>5, <2>2, <3>4, <3>6 DEF CputsChar, Returning
    <3> QED BY <3>6, <3>7 DEF MemoryInv
  <2> QED BY <2>1, <2>2
<1>6. CASE CputsFault BY <1>6, MemoryElsewhere DEF CputsFault, TakeTrap
<1>7. CASE SysEnvDestroy BY <1>7, MemoryElsewhere DEF SysEnvDestroy
<1>8. CASE SysTest BY <1>8, MemoryElsewhere DEF SysTest, Returning
<1>9. CASE UnknownCall BY <1>9, MemoryElsewhere DEF UnknownCall
<1>10. CASE ReturnToProgram BY <1>10, MemoryElsewhere DEF ReturnToProgram, RunTrapframe
<1>11. CASE Panic
  <2>1. pc' \in {"off", "panicking"} /\ UNCHANGED ram
    BY <1>11 DEF Panic
  <2> QED BY <2>1, MemoryElsewhere
<1>12. CASE Shutdown BY <1>12, MemoryElsewhere DEF Shutdown
<1>13. CASE CputsConversion \/ CputsArgument
  <2>1. /\ pc = "cputs" /\ UNCHANGED <<pc, ram>>
        /\ \/ Len(str) = 1 /\ \E arg : str' = <<arg, (str[1] + 1) % ADDRESSES>>
                            /\ KernelMay(str[1])
           \/ Len(str) = 2 /\ (str' = <<str[2]>> \/ \E arg : str' = <<arg, str[2]>>)
    BY <1>13 DEF CputsConversion, CputsArgument, machine
  <2>2. PICK t \in Nat : t >= UTEXT /\ (str = <<t>> \/ \E arg : str = <<arg, t>>)
    BY <2>1 DEF MemoryInv
  <2>3. CASE str = <<t>>
    <3>1. str[1] = t /\ Len(str) = 1
      BY <2>3
    <3>2. t < 3 * PTSIZE
      BY <2>1, <3>1, Mapped
    <3>3. (t + 1) % ADDRESSES = t + 1 /\ t + 1 \in Nat /\ t + 1 >= UTEXT
      BY <2>2, <3>2, Sizes
    <3> QED BY <2>1, <3>1, <3>3 DEF MemoryInv
  <2>4. CASE \E arg : str = <<arg, t>>
    <3>1. str[2] = t /\ Len(str) = 2
      BY <2>4
    <3> QED BY <2>1, <2>2, <3>1 DEF MemoryInv
  <2> QED BY <2>2, <2>3, <2>4
<1> QED BY <1>1, <1>2, <1>3, <1>4, <1>5, <1>6, <1>7, <1>8, <1>9, <1>10, <1>11, <1>12, <1>13
        DEF TrapStep

\* The program's own steps: it writes, or it traps.
LEMMA UserSteps ==
  ASSUME UserStep
  PROVE  Write \/ (pc = "user" /\ pc' = "trap" /\ UNCHANGED ram)
<1>1. ASSUME NEW c, NEW v, NEW err, Instruction(c, v, err)
      PROVE  pc = "user" /\ pc' = "trap" /\ UNCHANGED ram
  BY <1>1 DEF Instruction, TakeTrap, Goto
<1>2. ASSUME NEW c, NEW n, NEW regs, Interrupt(c, n, regs)
      PROVE  pc = "user" /\ pc' = "trap" /\ UNCHANGED ram
  BY <1>2 DEF Interrupt, TakeTrap, Goto
<1> QED BY <1>1, <1>2 DEF UserStep, DivZero, Breakpoint, SoftInt, BadSegment,
      OtherException, FaultRead, FaultWrite, SystemCall

LEMMA NextMemoryInv == TrapInv /\ MemoryInv /\ [Next]_vars => MemoryInv'
<1> SUFFICES ASSUME TrapInv, MemoryInv, [Next]_vars PROVE MemoryInv'
  OBVIOUS
<1>1. CASE KernelStep
  BY <1>1, BootKeepsMemoryInv, LoaderKeepsMemoryInv, TrapKeepsMemoryInv DEF KernelStep
<1>2. CASE (DiskDelivers \/ DiskFails) /\ UNCHANGED <<bootvars, trapvars, loadvars>>
  BY <1>2, MemoryElsewhere DEF DiskDelivers, DiskFails, trapvars, loadvars
<1>3. CASE UserStep /\ UNCHANGED <<bootvars, loadvars>>
  <2>1. CASE Write
    <3>1. DOMAIN ram' = DOMAIN ram /\ UNCHANGED <<pc, str, ph>>
      BY <1>3, <2>1, WriteAbove DEF Write, trapvars, loadvars
    <3> QED BY <3>1 DEF MemoryInv
  <2>2. CASE pc' = "trap" /\ UNCHANGED ram
    BY <2>2, MemoryElsewhere
  <2> QED BY <1>3, <2>1, <2>2, UserSteps
<1>4. CASE Nmi
  BY <1>4, MemoryElsewhere DEF Nmi, TakeTrap, Goto
<1>5. CASE UNCHANGED vars
  BY <1>5, MemoryElsewhere DEF vars, machine, trapvars, loadvars
<1> QED BY <1>1, <1>2, <1>3, <1>4, <1>5 DEF Next

LEMMA MemoryInvariant == Spec => []MemoryInv
<1>1. Init => MemoryInv
  BY DEF Init, BootInit, MachineInit, MemoryInv
<1> QED BY <1>1, NextMemoryInv, TrapInvariant, PTL DEF Spec

\* Whatever pointer and length a program passes to sys_cputs, and whatever is in
\* the string, no character of it lies where the program could not read itself
\* (syscall.c:23-28).
THEOREM StringIsUsers == Spec => []FormatIsUsers
<1>1. MemoryInv => FormatIsUsers
  <2> SUFFICES ASSUME MemoryInv, pc = "cputs", KernelMay(str[Len(str)])
               PROVE  UserMay(str[Len(str)])
    BY DEF FormatIsUsers
  <2>1. PICK t \in Nat : t >= UTEXT /\ (str = <<t>> \/ \E arg : str = <<arg, t>>)
    BY DEF MemoryInv
  <2>2. str[Len(str)] = t
    <3>1. CASE str = <<t>> BY <3>1
    <3>2. CASE \E arg : str = <<arg, t>> BY <3>2
    <3> QED BY <2>1, <3>1, <3>2
  <2> QED BY <2>1, <2>2, Mapped, Sizes
<1> QED BY <1>1, MemoryInvariant, PTL

\* No program file and no program changes the kernel's memory, wherever the
\* segments of the file begin and end (init.c:78-88, entrypgdir.c).
THEOREM KernelIsIsolated == Spec => KernelIsolated
<1> DEFINE Guarded == {"load", "user", "trap", "dispatch", "cputs", "run", "panic"}
           Kept == \A a \in 0..(UTEXT - 1) : ram'[a] = ram[a]
<1>1. ASSUME TrapInv, MemoryInv, [Next]_vars, pc \in Guarded
      PROVE  Kept
  <2>1. CASE UNCHANGED ram
    BY <2>1
  <2>2. CASE LoadSegment
    BY <1>1, <2>2, SegmentAbove DEF LoadSegment
  <2>3. CASE SegmentFault
    BY <1>1, <2>3, SegmentAbove DEF SegmentFault
  <2>4. CASE Write
    BY <1>1, <2>4, WriteAbove
  <2>5. CASE BootStep
    BY <1>1, <2>5 DEF BootStep, ReadsectCommand, ReadsectData, BadMagic, ReadNextSegment,
                      EnterKernel, RunsHole, machine
  <2>6. CASE LoaderStep
    <3>1. LoadSegment \/ SegmentFault \/ UNCHANGED ram
      BY <1>1, <2>6 DEF LoaderStep, Init386, IdeReadCommand, IdeReadSector, IdeReadReturns,
                        NotElf, NextHeader, RejectSegment, EnterProgram, machine
    <3> QED BY <2>1, <2>2, <2>3, <3>1
  <2>7. CASE TrapStep
    <3>1. UNCHANGED ram
      BY <2>7 DEF TrapStep, TrapEntered, PageFaultHandler, UnhandledTrap, SysCputs, CputsChar,
                  CputsConversion, CputsArgument, machine, CputsFault, SysEnvDestroy, SysTest, UnknownCall, ReturnToProgram, Panic,
                  Shutdown
    <3> QED BY <2>1, <3>1
  <2>8. CASE DiskDelivers \/ DiskFails \/ Nmi \/ UNCHANGED vars
    BY <2>1, <2>8 DEF DiskDelivers, DiskFails, Nmi, vars, machine
  <2>9. CASE UserStep
    BY <2>1, <2>4, <2>9, UserSteps
  <2> QED BY <1>1, <2>5, <2>6, <2>7, <2>8, <2>9 DEF Next, KernelStep
<1>2. TrapInv /\ MemoryInv /\ [Next]_vars
        => [(pc \in Guarded) => Kept]_vars
  BY <1>1
<1> QED BY <1>2, TrapInvariant, MemoryInvariant, PTL DEF Spec, KernelIsolated

-----------------------------------------------------------------------------
(* The kernel in memory. *)

\* A whole number of sectors.
Whole(n) == \E k \in Nat : n = k * SECTSIZE

\* Byte a of a segment is the one in the file, unless its sector is in H.
InPlace(s, a, H) ==
  \/ ram[a] = KernelByte(s.offset + (a - s.pa))
  \/ ram[a] = Garbage /\ RoundDown(a) \in H

\* There have been errors for all sectors in H, and for the one that is about to
\* be lost.
Pending == IF pc = "insl" /\ disk.status = "error" THEN 1 ELSE 0
Errors(H) == IsFiniteSet(H) /\ Cardinality(H) + Pending <= disk.faults

DiskInv ==
  /\ disk \in [status : {"busy", "data", "error", "ready"}, sec : Nat, left : Int, faults : Nat]
  /\ disk.status = "error" => disk.faults > 0

\* The next sector of the file belongs at the next address.
InStep(s) ==
  /\ pa \in Nat /\ offset \in Nat \ {0} /\ pa >= RoundDown(s.pa)
  /\ (offset - 1) * SECTSIZE + s.pa = pa + s.offset

Arrived(i, a) == i + 1 < seg \/ (i + 1 = seg /\ a < pa)

Reading ==
  /\ seg \in 1..Len(Segments)
  /\ InStep(Segments[seg]) /\ Whole(pa)
  /\ pc = "insl" => disk.sec = offset /\ disk.status # "ready"
  /\ seg = 1 /\ pa > ELFHDR => ram[ELFHDR] = KernelByte(0) \/ disk.faults > 0
  /\ \E H : Errors(H) /\ \A i \in 1..Len(kernel) : \A a \in FilePart(kernel[i]) :
              Arrived(i, a) => InPlace(kernel[i], a, H)

AllRead ==
  \E H : Errors(H) /\ \A i \in 1..Len(kernel) : \A a \in FilePart(kernel[i]) :
           InPlace(kernel[i], a, H)

BootInv ==
  /\ DiskInv
  /\ kernel \in KernelImages /\ DOMAIN ram = 0..(3 * PTSIZE - 1)
  /\ pc \in {"readsect", "insl"} => Reading
  /\ pc = "i386_init" => AllRead
  /\ pc \in {"spin", "lost"} => disk.faults > 0

LEMMA KernelIs ==
  ASSUME kernel \in KernelImages
  PROVE  /\ Len(kernel) \in Nat \ {0}
         /\ \A i \in 1..Len(kernel) :
              /\ kernel[i] \in [pa : Nat, memsz : Nat, filesz : Nat, offset : Nat]
              /\ kernel[i].pa \div PTSIZE = 1 /\ (kernel[i].pa + kernel[i].memsz - 1) \div PTSIZE = 1
              /\ kernel[i].pa % SECTSIZE = kernel[i].offset % SECTSIZE
              /\ kernel[i].filesz <= kernel[i].memsz
              /\ kernel[i].offset + kernel[i].filesz <= (PROGRAM_SECTOR - 1) * SECTSIZE
         /\ \A i, j \in 1..Len(kernel) :
              j < i => RoundDown(kernel[i].pa) >= kernel[j].pa + kernel[j].filesz
<1> DEFINE Segment == [pa : Nat, memsz : Nat, filesz : Nat, offset : Nat]
<1>1. kernel \in Seq(Segment) /\ Len(kernel) > 0 /\ Linked(kernel)
  BY BootLoaderAssumption
<1> HIDE DEF Segment
<1>2. Len(kernel) \in Nat \ {0} /\ DOMAIN kernel = 1..Len(kernel)
      /\ \A i \in 1..Len(kernel) : kernel[i] \in Segment
  BY <1>1
<1> QED BY <1>1, <1>2 DEF Linked, Segment

Header == [pa |-> ELFHDR, memsz |-> ELFHDR_SIZE, filesz |-> ELFHDR_SIZE, offset |-> 0]

LEMMA SegmentsAre ==
  ASSUME kernel \in KernelImages
  PROVE  /\ Len(Segments) = Len(kernel) + 1 /\ Segments[1] = Header
         /\ \A i \in 1..Len(kernel) : Segments[i + 1] = kernel[i]
         /\ \A i \in 1..Len(Segments) :
              Segments[i] \in [pa : Nat, memsz : Nat, filesz : Nat, offset : Nat]
<1> DEFINE Segment == [pa : Nat, memsz : Nat, filesz : Nat, offset : Nat]
<1>1. kernel \in Seq(Segment)
  BY BootLoaderAssumption
<1>2. Header \in Segment
  BY BootLoaderAssumption, Sizes DEF Header
<1> HIDE DEF Segment
<1>3. Segments = <<Header>> \o kernel
  BY DEF Segments, Header
<1> HIDE DEF Header
<1>4. /\ Len(Segments) = Len(kernel) + 1 /\ Segments[1] = Header
      /\ \A i \in 1..Len(kernel) : Segments[i + 1] = kernel[i]
      /\ Segments \in Seq(Segment)
  BY <1>1, <1>2, <1>3
<1>5. \A i \in 1..Len(Segments) : Segments[i] \in Segment
  BY <1>4
<1> QED BY <1>4, <1>5 DEF Segment

\* Rounding to sectors.
LEMMA Rounding ==
  ASSUME NEW a \in Nat
  PROVE  /\ RoundDown(a) \in Nat /\ RoundDown(a) <= a
         /\ a \div SECTSIZE \in Nat /\ a % SECTSIZE \in Nat
         /\ (a \div SECTSIZE) * SECTSIZE = a - (a % SECTSIZE)
         /\ RoundDown(a) = a - (a % SECTSIZE)
<1>1. SECTSIZE \in Nat \ {0}
  BY MachineAssumption
<1>2. a \div SECTSIZE \in Nat /\ a % SECTSIZE \in 0..(SECTSIZE - 1)
      /\ a = (a \div SECTSIZE) * SECTSIZE + (a % SECTSIZE)
  BY <1>1, Division
<1>3. (a \div SECTSIZE) * SECTSIZE \in Nat
  BY <1>1, <1>2, Products
<1> QED BY <1>1, <1>2, <1>3 DEF RoundDown

LEMMA WholeSteps ==
  /\ \A a \in Nat : Whole(RoundDown(a))
  /\ Whole(pa) => Whole(pa + SECTSIZE)
<1>1. SECTSIZE \in Nat \ {0}
  BY MachineAssumption
<1>2. ASSUME NEW a \in Nat PROVE Whole(RoundDown(a))
  <2>1. a \div SECTSIZE \in Nat /\ RoundDown(a) = (a \div SECTSIZE) * SECTSIZE
    BY Rounding
  <2> QED BY <2>1 DEF Whole
<1>3. ASSUME Whole(pa) PROVE Whole(pa + SECTSIZE)
  <2>1. PICK k \in Nat : pa = k * SECTSIZE
    BY <1>3 DEF Whole
  <2>2. /\ SECTSIZE * (k + 1) = SECTSIZE * k + SECTSIZE * 1 /\ SECTSIZE * k = k * SECTSIZE
        /\ SECTSIZE * (k + 1) = (k + 1) * SECTSIZE
    BY <1>1, Products
  <2>3. pa + SECTSIZE = (k + 1) * SECTSIZE /\ k + 1 \in Nat
    BY <1>1, <2>1, <2>2
  <2> QED BY <2>3 DEF Whole
<1> QED BY <1>2, <1>3

\* The bytes of a sector round down to its beginning.
LEMMA OneSector ==
  ASSUME NEW p, Whole(p), NEW a \in p..(p + SECTSIZE - 1)
  PROVE  RoundDown(a) = p
<1>1. SECTSIZE \in Nat \ {0}
  BY MachineAssumption
<1>2. PICK k \in Nat : p = k * SECTSIZE
  BY DEF Whole
<1>3. p \in Nat
  BY <1>1, <1>2, Products
<1>4. PICK r \in Nat : a = p + r /\ r < SECTSIZE /\ a \in Nat
  <2>1. a - p \in Nat /\ a = p + (a - p) /\ a - p < SECTSIZE /\ a \in Nat
    BY <1>1, <1>3
  <2> QED BY <2>1
<1>5. a \div SECTSIZE = k
  BY <1>1, <1>2, <1>4, Quotient
<1>6. p = a - (a % SECTSIZE) /\ RoundDown(a) = a - (a % SECTSIZE)
  BY <1>2, <1>4, <1>5, Rounding
<1> QED BY <1>6

\* A new call of readseg is in step: address and offset agree modulo a sector.
LEMMA StartsInStep ==
  ASSUME kernel \in KernelImages, NEW i \in 1..Len(Segments), Readseg(i, Segments[i]), UNCHANGED kernel
  PROVE  InStep(Segments[i])'
<1> DEFINE s == Segments[i]
<1>1. s.pa \in Nat /\ s.offset \in Nat /\ s.pa % SECTSIZE = s.offset % SECTSIZE
  <2>1. CASE i = 1
    <3>1. s.pa = ELFHDR /\ s.offset = 0
      BY <2>1, SegmentsAre DEF Header
    <3>2. 0 % SECTSIZE = 0
      BY MachineAssumption
    <3> QED BY <3>1, <3>2, BootLoaderAssumption, Sizes
  <2>2. CASE i # 1
    <3>1. i - 1 \in 1..Len(kernel) /\ (i - 1) + 1 = i
      BY <2>2, SegmentsAre, KernelIs
    <3>2. s = kernel[i - 1]
      BY <3>1, SegmentsAre
    <3> QED BY <3>1, <3>2, KernelIs
  <2> QED BY <2>1, <2>2
<1> HIDE DEF s
<1>2. pa' = RoundDown(s.pa) /\ offset' = s.offset \div SECTSIZE + 1
  BY DEF Readseg, s
<1>3. /\ RoundDown(s.pa) \in Nat /\ RoundDown(s.pa) = s.pa - (s.pa % SECTSIZE)
      /\ s.offset \div SECTSIZE \in Nat
      /\ (s.offset \div SECTSIZE) * SECTSIZE = s.offset - (s.offset % SECTSIZE)
      /\ s.pa % SECTSIZE \in Nat
  BY <1>1, Rounding
<1>4. offset' - 1 = s.offset \div SECTSIZE
  BY <1>2, <1>3
<1>5. (offset' - 1) * SECTSIZE + s.pa = pa' + s.offset
  BY <1>1, <1>2, <1>3, <1>4
<1>6. s' = s
  BY DEF s, Segments
<1>7. InStep(s)'
  BY <1>2, <1>3, <1>5, <1>6 DEF InStep, RoundDown
<1> QED BY <1>7 DEF s

LEMMA Shift ==
  ASSUME NEW m \in Nat, NEW o \in Nat, NEW p \in Nat, NEW q \in Nat, NEW a \in Nat,
         m + q = p + o
  PROVE  m + (a - p) = o + (a - q)
OBVIOUS

\* What the disk delivers for an address of a segment is what belongs there.
LEMMA Delivers ==
  ASSUME BootInv, pc = "insl", DiskReady, NEW i \in 1..Len(kernel), seg = i + 1,
         NEW a \in FilePart(kernel[i]), a \in pa..(pa + SECTSIZE - 1)
  PROVE  \/ SectorByte(a - pa) = KernelByte(kernel[i].offset + (a - kernel[i].pa))
         \/ SectorByte(a - pa) = Garbage /\ disk.status = "error"
<1> DEFINE s == kernel[i]
           n == s.offset + (a - s.pa)
<1>1. s \in [pa : Nat, memsz : Nat, filesz : Nat, offset : Nat]
      /\ s.offset + s.filesz <= (PROGRAM_SECTOR - 1) * SECTSIZE
  BY KernelIs DEF BootInv
<1>2. Segments[seg] = s
  BY SegmentsAre DEF BootInv
<1>3. /\ pa \in Nat /\ offset \in Nat \ {0} /\ (offset - 1) * SECTSIZE + s.pa = pa + s.offset
      /\ disk.sec = offset /\ disk.status # "ready"
  BY <1>2 DEF BootInv, Reading, InStep
<1>4. SECTSIZE \in Nat \ {0} /\ PROGRAM_SECTOR \in Nat /\ PROGRAM_SECTOR > 1
  BY MachineAssumption
<1>5. a \in Nat /\ a < s.pa + s.filesz /\ a >= pa
  <2>1. s.pa \in Nat /\ s.filesz \in Nat /\ a \in s.pa..(s.pa + s.filesz - 1)
    BY <1>1 DEF FilePart
  <2> HIDE DEF s
  <2>2. a \in Nat /\ a < s.pa + s.filesz
    BY <2>1
  <2>3. a >= pa
    BY <1>3, <1>4, <2>2
  <2> QED BY <2>2, <2>3
<1>6. CASE disk.status = "data"
  <2>1. (offset - 1) * SECTSIZE \in Nat /\ (PROGRAM_SECTOR - 1) * SECTSIZE \in Nat
    BY <1>3, <1>4, Products
  <2>2. (offset - 1) * SECTSIZE + (a - pa) = n
    <3>1. PICK o \in Nat, q \in Nat : o = s.offset /\ q = s.pa
      BY <1>1
    <3>2. PICK m \in Nat : m = (offset - 1) * SECTSIZE
      BY <2>1
    <3>3. PICK p \in Nat : p = pa
      BY <1>3
    <3>4. m + q = p + o /\ a \in Nat
      BY <1>3, <1>5, <3>1, <3>2, <3>3
    <3>5. m + (a - p) = o + (a - q)
      BY <3>4, Shift
    <3> QED BY <3>1, <3>2, <3>3, <3>5
  <2>3. (offset - 1) * SECTSIZE < (PROGRAM_SECTOR - 1) * SECTSIZE
    <3>1. s.offset \in Nat /\ s.filesz \in Nat /\ s.pa \in Nat /\ (a - pa) \in Nat
      BY <1>1, <1>3, <1>5
    <3> HIDE DEF s
    <3>2. n < s.offset + s.filesz
      BY <1>5, <3>1
    <3>3. n \in Int
      BY <1>5, <3>1
    <3> HIDE DEF n
    <3> QED BY <1>1, <2>1, <2>2, <3>1, <3>2, <3>3
  <2>4. ~(PROGRAM_SECTOR - 1 <= offset - 1)
    <3>1. SUFFICES ASSUME PROGRAM_SECTOR - 1 <= offset - 1 PROVE FALSE
      OBVIOUS
    <3>2. SECTSIZE * (PROGRAM_SECTOR - 1) <= SECTSIZE * (offset - 1)
      BY <1>3, <1>4, <3>1, Products
    <3>3. /\ SECTSIZE * (PROGRAM_SECTOR - 1) = (PROGRAM_SECTOR - 1) * SECTSIZE
          /\ SECTSIZE * (offset - 1) = (offset - 1) * SECTSIZE
      BY <1>3, <1>4, Products
    <3> QED BY <2>1, <2>3, <3>2, <3>3
  <2>5. offset < PROGRAM_SECTOR
    BY <1>3, <1>4, <2>4
  <2>6. SectorByte(a - pa) = KernelByte((offset - 1) * SECTSIZE + (a - pa))
    BY <1>3, <1>6, <2>5 DEF SectorByte, DiskByte
  <2> QED BY <2>2, <2>6
<1>7. CASE disk.status = "error"
  BY <1>7 DEF SectorByte
<1> QED BY <1>3, <1>6, <1>7 DEF DiskReady, BootInv, DiskInv

\* The first byte of the file comes to ELFHDR.
LEMMA DeliversHeader ==
  ASSUME BootInv, pc = "insl", DiskReady, seg = 1, pa <= ELFHDR
  PROVE  /\ pa = ELFHDR
         /\ SectorByte(0) = KernelByte(0) \/ disk.faults > 0
<1>1. Segments[1] = Header
  BY SegmentsAre DEF BootInv
<1>2. /\ pa \in Nat /\ offset \in Nat \ {0} /\ (offset - 1) * SECTSIZE + ELFHDR = pa
      /\ disk.sec = offset /\ disk.status # "ready" /\ pa >= RoundDown(ELFHDR)
  BY <1>1, BootLoaderAssumption, Sizes DEF Header, BootInv, Reading, InStep
<1>3. ELFHDR \in Nat /\ RoundDown(ELFHDR) = ELFHDR /\ SECTSIZE \in Nat \ {0}
      /\ PROGRAM_SECTOR \in Nat /\ PROGRAM_SECTOR > 1
  BY BootLoaderAssumption, MachineAssumption, Sizes DEF RoundDown
<1>4. pa = ELFHDR
  BY <1>2, <1>3
<1>5. offset = 1
  <2>1. (offset - 1) * SECTSIZE = 0
    <3>1. (offset - 1) * SECTSIZE \in Nat
      BY <1>2, <1>3, Products
    <3> QED BY <1>2, <1>3, <1>4, <3>1
  <2>2. offset > 1 => SECTSIZE * 1 <= SECTSIZE * (offset - 1)
    BY <1>2, <1>3, Products
  <2>3. SECTSIZE * (offset - 1) = (offset - 1) * SECTSIZE
    BY <1>2, <1>3, Products
  <2> QED BY <1>2, <1>3, <2>1, <2>2, <2>3
<1>6. CASE disk.status = "data"
  <2>1. SectorByte(0) = KernelByte((1 - 1) * SECTSIZE + 0)
    BY <1>2, <1>3, <1>5, <1>6 DEF SectorByte, DiskByte
  <2>2. (1 - 1) * SECTSIZE + 0 = 0
    BY <1>3
  <2> QED BY <1>4, <2>1, <2>2
<1>7. CASE disk.status = "error"
  BY <1>4, <1>7 DEF BootInv, DiskInv
<1> QED BY <1>2, <1>6, <1>7 DEF DiskReady, BootInv, DiskInv

\* A segment lies behind the files of those before it, also where sectors begin.
LEMMA Behind ==
  ASSUME BootInv, Reading, NEW i \in 1..Len(kernel), i + 1 < seg, NEW a \in FilePart(kernel[i])
  PROVE  a < pa
<1>1. seg \in 1..(Len(kernel) + 1) /\ Len(kernel) \in Nat
  BY SegmentsAre, KernelIs DEF BootInv, Reading
<1>2. seg - 1 \in 1..Len(kernel) /\ i < seg - 1 /\ (seg - 1) + 1 = seg
  BY <1>1
<1>3. Segments[seg] = kernel[seg - 1]
  BY <1>2, SegmentsAre DEF BootInv
<1>4. pa \in Nat /\ pa >= RoundDown(kernel[seg - 1].pa)
  BY <1>3 DEF Reading, InStep
<1>5. RoundDown(kernel[seg - 1].pa) >= kernel[i].pa + kernel[i].filesz
  BY <1>2, KernelIs DEF BootInv
<1>6. RoundDown(kernel[seg - 1].pa) \in Nat
  BY <1>2, KernelIs, Rounding DEF BootInv
<1>7. kernel[i].pa \in Nat /\ kernel[i].filesz \in Nat
  BY KernelIs DEF BootInv
<1> QED BY <1>4, <1>5, <1>6, <1>7 DEF FilePart

\* All of a segment is in memory as the map describes it.
LEMMA CellsInMemory ==
  ASSUME kernel \in KernelImages, NEW i \in 1..Len(kernel), NEW a \in FilePart(kernel[i])
  PROVE  a \in 0..(2 * PTSIZE - 1)
<1> DEFINE s == kernel[i]
           last == s.pa + s.memsz - 1
<1>1. s \in [pa : Nat, memsz : Nat, filesz : Nat, offset : Nat]
      /\ s.filesz <= s.memsz /\ last \div PTSIZE = 1
  BY KernelIs
<1>2. PTSIZE \in Nat \ {0}
  BY Sizes
<1>3. a \in Nat /\ a <= last /\ last \in Nat
  BY <1>1 DEF FilePart
<1> HIDE DEF last, s
<1>4. last < 2 * PTSIZE
  <2>1. last = 1 * PTSIZE + (last % PTSIZE) /\ last % PTSIZE \in 0..(PTSIZE - 1)
    BY <1>1, <1>2, <1>3, Division
  <2> QED BY <1>2, <1>3, <2>1
<1> QED BY <1>2, <1>3, <1>4

LEMMA SectorKeepsDisk ==
  ASSUME DiskInv, SectorRead PROVE DiskInv' /\ disk'.faults = disk.faults
<1> DEFINE Status == {"busy", "data", "error", "ready"}
           next == IF disk.left > 1 THEN "busy" ELSE "ready"
<1>1. disk \in [status : Status, sec : Nat, left : Int, faults : Nat]
  BY DEF DiskInv
<1>2. CASE disk.status # "data"
  BY <1>2 DEF DiskInv, SectorRead
<1>3. CASE disk.status = "data"
  <2>1. disk' = [disk EXCEPT !.sec = @ + 1, !.left = @ - 1, !.status = next]
    BY <1>3 DEF SectorRead
  <2>2. next \in Status /\ next # "error" /\ disk.sec + 1 \in Nat /\ disk.left - 1 \in Int
    BY <1>1
  <2> HIDE DEF next, Status
  <2>3. disk' \in [status : Status, sec : Nat, left : Int, faults : Nat]
        /\ disk'.faults = disk.faults /\ disk'.status = next
    BY <1>1, <2>1, <2>2
  <2> QED BY <2>2, <2>3 DEF DiskInv, Status
<1> QED BY <1>2, <1>3

LEMMA CommandKeepsDisk ==
  ASSUME DiskInv, NEW sec \in Nat, NEW n, ReadCommand(sec, n), SectorCount(n) \in Int
  PROVE  DiskInv' /\ disk'.faults = disk.faults /\ disk'.sec = sec /\ disk'.status = "busy"
         /\ disk'.left = SectorCount(n)
<1> DEFINE c == SectorCount(n)
<1>1. disk' = [disk EXCEPT !.status = "busy", !.sec = sec, !.left = c] /\ c \in Int
  BY DEF ReadCommand
<1> HIDE DEF c
<1>2. /\ disk' \in [status : {"busy", "data", "error", "ready"}, sec : Nat, left : Int, faults : Nat]
      /\ disk'.faults = disk.faults /\ disk'.sec = sec /\ disk'.status = "busy" /\ disk'.left = c
  BY <1>1 DEF DiskInv
<1> QED BY <1>2 DEF DiskInv, c

\* Copying a sector puts its part of the segment in place.
LEMMA DataKeepsBootInv ==
  ASSUME BootInv, ReadsectData
  PROVE  BootInv'
<1>1. /\ pc = "insl" /\ pc' = "readsect" /\ DiskReady
      /\ ram' = [a \in DOMAIN ram |->
                   IF a \in pa..(pa + SECTSIZE - 1) THEN SectorByte(a - pa) ELSE ram[a]]
      /\ SectorRead /\ pa' = pa + SECTSIZE /\ offset' = offset + 1
      /\ UNCHANGED <<seg, kernel>>
  BY DEF ReadsectData, Goto
<1>2. DiskInv /\ Reading /\ kernel \in KernelImages /\ DOMAIN ram = 0..(3 * PTSIZE - 1)
  BY <1>1 DEF BootInv
<1>3. SECTSIZE \in Nat \ {0}
  BY MachineAssumption
<1>4. DiskInv' /\ disk'.faults = disk.faults
  BY <1>1, <1>2, SectorKeepsDisk
<1>5. Segments' = Segments /\ seg \in 1..Len(Segments) /\ InStep(Segments[seg])
  BY <1>1, <1>2 DEF Segments, Reading
<1>6. pa \in Nat /\ offset \in Nat \ {0}
  BY <1>5 DEF InStep
<1>7. InStep(Segments[seg])'
  <2> DEFINE s == Segments[seg]
  <2>1. s' = s /\ s \in [pa : Nat, memsz : Nat, filesz : Nat, offset : Nat]
    BY <1>1, <1>2, <1>5, SegmentsAre
  <2>2. InStep(s)
    BY <1>5
  <2> HIDE DEF s
  <2>3. (offset - 1) * SECTSIZE \in Nat /\ RoundDown(s.pa) \in Nat
    BY <1>3, <1>6, <2>1, Products, Rounding
  <2>4. (offset' - 1) * SECTSIZE = (offset - 1) * SECTSIZE + SECTSIZE
    <3>1. offset' - 1 = (offset - 1) + 1 /\ offset - 1 \in Nat
      BY <1>1, <1>6
    <3>2. SECTSIZE * ((offset - 1) + 1) = SECTSIZE * (offset - 1) + SECTSIZE * 1
      BY <1>3, <3>1, Products
    <3>3. /\ SECTSIZE * ((offset - 1) + 1) = ((offset - 1) + 1) * SECTSIZE
          /\ SECTSIZE * (offset - 1) = (offset - 1) * SECTSIZE
      BY <1>3, <3>1, Products
    <3> QED BY <1>3, <2>3, <3>1, <3>2, <3>3
  <2>5. InStep(s)'
    BY <1>1, <1>3, <1>6, <2>1, <2>2, <2>3, <2>4 DEF InStep, RoundDown
  <2> QED BY <2>5 DEF s
<1>8. ASSUME seg = 1 PROVE ram'[ELFHDR] = KernelByte(0) \/ disk.faults > 0
  <2>1. ELFHDR \in DOMAIN ram /\ ELFHDR \in Nat
    BY <1>2, BootLoaderAssumption, Sizes
  <2>2. CASE pa <= ELFHDR
    <3>1. pa = ELFHDR /\ (SectorByte(0) = KernelByte(0) \/ disk.faults > 0)
      BY <1>1, <1>8, <2>2, DeliversHeader
    <3>2. ELFHDR \in pa..(pa + SECTSIZE - 1) /\ ELFHDR - pa = 0
      BY <1>3, <2>1, <3>1
    <3> QED BY <1>1, <2>1, <3>1, <3>2
  <2>3. CASE pa > ELFHDR
    <3>1. ram'[ELFHDR] = ram[ELFHDR]
      BY <1>1, <1>6, <2>1, <2>3
    <3> QED BY <1>2, <1>8, <2>3, <3>1 DEF Reading
  <2> QED BY <1>6, <2>1, <2>2, <2>3
<1> PICK H : /\ Errors(H)
             /\ \A i \in 1..Len(kernel) : \A a \in FilePart(kernel[i]) :
                  Arrived(i, a) => InPlace(kernel[i], a, H)
  BY <1>2 DEF Reading
<1> PICK lost : lost = (disk.status = "error")
  OBVIOUS
<1> PICK p : p = pa
  OBVIOUS
<1> DEFINE G == IF lost THEN H \cup {p} ELSE H
<1>9. Errors(G)'
  <2>1. IsFiniteSet(H) /\ Cardinality(H) \in Nat /\ disk.faults \in Nat
    BY <1>2, FS_CardinalityType DEF Errors, DiskInv
  <2>2. Pending = (IF lost THEN 1 ELSE 0) /\ Pending' = 0
    BY <1>1 DEF Pending
  <2>3. IsFiniteSet(G) /\ Cardinality(G) <= Cardinality(H) + (IF lost THEN 1 ELSE 0)
        /\ Cardinality(G) \in Nat
    <3>1. IsFiniteSet(H \cup {p}) /\ Cardinality(H \cup {p}) <= Cardinality(H) + 1
          /\ Cardinality(H \cup {p}) \in Nat
      BY <2>1, FS_AddElement
    <3> QED BY <2>1, <3>1
  <2> HIDE DEF G
  <2> QED BY <1>4, <2>1, <2>2, <2>3 DEF Errors
<1>10. H \subseteq G /\ (lost => pa \in G)
  OBVIOUS
<1> HIDE DEF G
<1>11. ASSUME NEW i \in 1..Len(kernel), NEW a \in FilePart(kernel[i]), Arrived(i, a)'
      PROVE  InPlace(kernel[i], a, G)'
  <2>1. a \in DOMAIN ram /\ a \in Nat
    <3>1. a \in 0..(2 * PTSIZE - 1)
      BY <1>2, CellsInMemory
    <3> QED BY <1>2, <3>1, Sizes
  <2>2. CASE a < pa
    <3>1. i + 1 < seg \/ i + 1 = seg
      BY <1>1, <1>11 DEF Arrived
    <3>2. InPlace(kernel[i], a, H)
      BY <2>2, <3>1 DEF Arrived
    <3>3. ram'[a] = ram[a]
      BY <1>1, <1>6, <2>1, <2>2
    <3> QED BY <1>1, <1>10, <3>2, <3>3 DEF InPlace, RoundDown
  <2>3. CASE a >= pa
    <3>1. ~(i + 1 < seg)
      <4>1. SUFFICES ASSUME i + 1 < seg PROVE FALSE
        OBVIOUS
      <4>2. a < pa
        BY <1>2, <4>1, Behind
      <4> QED BY <1>6, <2>1, <2>3, <4>2
    <3>2. seg = i + 1 /\ a \in pa..(pa + SECTSIZE - 1)
      BY <1>1, <1>3, <1>6, <1>11, <2>1, <2>3, <3>1 DEF Arrived
    <3>3. ram'[a] = SectorByte(a - pa)
      BY <1>1, <2>1, <3>2
    <3>4. \/ SectorByte(a - pa) = KernelByte(kernel[i].offset + (a - kernel[i].pa))
          \/ SectorByte(a - pa) = Garbage /\ lost
      BY <1>1, <3>2, Delivers
    <3>5. RoundDown(a) = pa
      BY <1>2, <3>2, OneSector DEF Reading
    <3> QED BY <1>1, <1>10, <3>3, <3>4, <3>5 DEF InPlace, RoundDown
  <2> QED BY <1>6, <2>1, <2>2, <2>3
<1>12. Reading'
  <2>1. seg' \in 1..Len(Segments') /\ InStep(Segments[seg])'
    BY <1>1, <1>5, <1>7
  <2>2. seg' = 1 /\ pa' > ELFHDR => ram'[ELFHDR] = KernelByte(0) \/ disk'.faults > 0
    BY <1>1, <1>4, <1>8
  <2>3. \A i \in 1..Len(kernel') : \A a \in FilePart(kernel[i])' :
          Arrived(i, a)' => InPlace(kernel[i], a, G)'
    BY <1>1, <1>11 DEF FilePart
  <2>4. Whole(pa)'
    <3>1. Whole(pa + SECTSIZE)
      BY <1>2, WholeSteps DEF Reading
    <3> QED BY <1>1, <3>1 DEF Whole
  <2> QED BY <1>1, <1>9, <2>1, <2>2, <2>3, <2>4 DEF Reading
<1>13. DOMAIN ram' = DOMAIN ram
  BY <1>1
<1> QED BY <1>1, <1>2, <1>4, <1>12, <1>13 DEF BootInv

LEMMA CommandKeepsBootInv ==
  ASSUME BootInv, ReadsectCommand
  PROVE  BootInv'
<1>1. /\ pc = "readsect" /\ pc' = "insl" /\ ReadCommand(offset, 1)
      /\ UNCHANGED <<ram, kernel, program, seg, pa, offset>>
  BY DEF ReadsectCommand, Goto, bootvars
<1>2. DiskInv /\ Reading /\ kernel \in KernelImages /\ DOMAIN ram = 0..(3 * PTSIZE - 1)
  BY <1>1 DEF BootInv
<1>3. offset \in Nat
  BY <1>2 DEF Reading, InStep
<1>4. SectorCount(1) \in Int
  BY DEF SectorCount
<1>5. DiskInv' /\ disk'.faults = disk.faults /\ disk'.sec = offset /\ disk'.status = "busy"
  <2>1. DiskInv /\ ReadCommand(offset, 1)
    BY <1>1, <1>2
  <2> QED BY <1>3, <1>4, <2>1, CommandKeepsDisk
<1>6. Reading'
  <2>1. Segments' = Segments
    BY <1>1 DEF Segments
  <2>2. InStep(Segments[seg])'
    BY <1>1, <1>2, <2>1 DEF Reading, InStep, RoundDown
  <2>3. PICK H : /\ Errors(H)
                 /\ \A i \in 1..Len(kernel) : \A a \in FilePart(kernel[i]) :
                      Arrived(i, a) => InPlace(kernel[i], a, H)
    BY <1>2 DEF Reading
  <2>4. Errors(H)'
    BY <1>1, <1>5, <2>3 DEF Errors, Pending
  <2>5. \A i \in 1..Len(kernel') : \A a \in FilePart(kernel[i])' :
          Arrived(i, a)' => InPlace(kernel[i], a, H)'
    BY <1>1, <2>3 DEF Arrived, InPlace, FilePart, RoundDown
  <2>6. Whole(pa)'
    BY <1>1, <1>2 DEF Reading, Whole
  <2> QED BY <1>1, <1>2, <1>5, <2>1, <2>2, <2>4, <2>5, <2>6 DEF Reading
<1> QED BY <1>1, <1>2, <1>5, <1>6 DEF BootInv

\* When readseg returns, the segment is there to its end.
LEMMA SegmentDone ==
  ASSUME BootInv, pc = "readsect", pa >= End, NEW i \in 1..Len(kernel), i + 1 <= seg,
         NEW a \in FilePart(kernel[i])
  PROVE  Arrived(i, a)
<1>1. Reading /\ Segments[i + 1] = kernel[i] /\ pa \in Nat /\ seg \in Nat
  BY SegmentsAre DEF BootInv, Reading, InStep
<1>2. CASE i + 1 < seg
  BY <1>2 DEF Arrived
<1>3. CASE i + 1 = seg
  <2>1. kernel[i] \in [pa : Nat, memsz : Nat, filesz : Nat, offset : Nat]
        /\ kernel[i].filesz <= kernel[i].memsz
    BY KernelIs DEF BootInv
  <2>2. a < pa
    BY <1>1, <1>3, <2>1 DEF End, FilePart
  <2> QED BY <1>3, <2>2 DEF Arrived
<1> QED BY <1>1, <1>2, <1>3

LEMMA NextSegmentKeepsBootInv ==
  ASSUME BootInv, ReadNextSegment
  PROVE  BootInv'
<1>1. /\ pc = "readsect" /\ pa >= End /\ seg < Len(Segments)
      /\ Readseg(seg + 1, Segments[seg + 1])
      /\ UNCHANGED <<pc, ram, disk, kernel, program>>
  BY DEF ReadNextSegment, machine
<1>2. DiskInv /\ Reading /\ kernel \in KernelImages /\ DOMAIN ram = 0..(3 * PTSIZE - 1)
  BY <1>1 DEF BootInv
<1>3. seg \in Nat /\ seg >= 1 /\ seg' = seg + 1 /\ Len(Segments) = Len(kernel) + 1
      /\ Len(kernel) \in Nat /\ Segments' = Segments
  BY <1>1, <1>2, SegmentsAre, KernelIs DEF Reading, Readseg, Segments
<1>4. PICK n \in 1..Len(Segments) : n = seg + 1
  BY <1>1, <1>3
<1>5. InStep(Segments[n])'
  BY <1>1, <1>2, <1>4, StartsInStep
<1> PICK H : /\ Errors(H)
             /\ \A i \in 1..Len(kernel) : \A a \in FilePart(kernel[i]) :
                  Arrived(i, a) => InPlace(kernel[i], a, H)
  BY <1>2 DEF Reading
<1>6. ASSUME NEW i \in 1..Len(kernel), NEW a \in FilePart(kernel[i]),
             i + 1 < seg + 1 \/ (i + 1 = seg + 1 /\ a < pa')
      PROVE  InPlace(kernel[i], a, H)
  <2>1. CASE i + 1 <= seg
    BY <1>1, <2>1, SegmentDone
  <2>2. CASE i = seg /\ a < pa'
    <3>1. Segments[seg + 1] = kernel[i]
      BY <1>2, <2>2, SegmentsAre
    <3>2. pa' = RoundDown(kernel[i].pa)
      BY <1>1, <3>1 DEF Readseg
    <3>3. kernel[i].pa \in Nat /\ kernel[i].filesz \in Nat
      BY <1>2, KernelIs
    <3>4. pa' <= kernel[i].pa /\ pa' \in Nat
      BY <3>2, <3>3, Rounding
    <3> QED BY <2>2, <3>3, <3>4 DEF FilePart
  <2> QED BY <1>3, <1>6, <2>1, <2>2
<1>7. Reading'
  <2>1. InStep(Segments[seg])'
    BY <1>3, <1>4, <1>5
  <2>2. \A i \in 1..Len(kernel') : \A a \in FilePart(kernel[i])' :
          Arrived(i, a)' => InPlace(kernel[i], a, H)'
    BY <1>1, <1>3, <1>6 DEF Arrived, InPlace, FilePart, RoundDown
  <2>3. Errors(H)'
    BY <1>1 DEF Errors, Pending
  <2>4. Whole(pa)'
    <3>1. Segments[n].pa \in Nat /\ pa' = RoundDown(Segments[n].pa)
      BY <1>1, <1>2, <1>4, SegmentsAre DEF Readseg
    <3>2. Whole(RoundDown(Segments[n].pa))
      BY <3>1, WholeSteps
    <3> QED BY <3>1, <3>2 DEF Whole
  <2> QED BY <1>1, <1>3, <1>4, <2>1, <2>2, <2>3, <2>4 DEF Reading
<1> QED BY <1>1, <1>2, <1>7 DEF BootInv, DiskInv

\* Holes are where an error has lost a sector.
LEMMA OnlyLost ==
  ASSUME BootInv, pc = "i386_init"
  PROVE  /\ IsFiniteSet(LostSectors) /\ Cardinality(LostSectors) \in Nat
         /\ Cardinality(LostSectors) <= disk.faults /\ disk.faults \in Nat
         /\ \A i \in 1..Len(kernel) : \A a \in FilePart(kernel[i]) :
              a \notin Holes => ram[a] = KernelByte(kernel[i].offset + (a - kernel[i].pa))
<1> PICK H : /\ Errors(H)
             /\ \A i \in 1..Len(kernel) : \A a \in FilePart(kernel[i]) : InPlace(kernel[i], a, H)
  BY DEF BootInv, AllRead
<1>1. /\ IsFiniteSet(H) /\ Cardinality(H) \in Nat /\ disk.faults \in Nat
      /\ Cardinality(H) <= disk.faults
  <2>1. IsFiniteSet(H) /\ disk.faults \in Nat
    BY DEF Errors, BootInv, DiskInv
  <2>2. Cardinality(H) \in Nat
    BY <2>1, FS_CardinalityType
  <2> QED BY <2>1, <2>2 DEF Errors, Pending
<1>2. \A n : KernelByte(n) # Garbage
  BY DEF KernelByte, Garbage
<1>3. ASSUME NEW a \in Holes PROVE RoundDown(a) \in H
  <2>1. PICK i \in 1..Len(kernel) : a \in FilePart(kernel[i])
    BY DEF Holes, KernelFileCells
  <2>2. InPlace(kernel[i], a, H) /\ ram[a] = Garbage
    BY <2>1 DEF Holes
  <2> QED BY <1>2, <2>2 DEF InPlace
<1>4. LostSectors \subseteq H
  BY <1>3 DEF LostSectors
<1>5. IsFiniteSet(LostSectors) /\ Cardinality(LostSectors) <= Cardinality(H)
  BY <1>1, <1>4, FS_Subset
<1>6. Cardinality(LostSectors) \in Nat
  BY <1>5, FS_CardinalityType
<1>7. ASSUME NEW i \in 1..Len(kernel), NEW a \in FilePart(kernel[i]), a \notin Holes
      PROVE  ram[a] = KernelByte(kernel[i].offset + (a - kernel[i].pa))
  <2>1. ram[a] # Garbage
    BY <1>7 DEF Holes, KernelFileCells
  <2> QED BY <2>1 DEF InPlace
<1> QED BY <1>1, <1>5, <1>6, <1>7

LEMMA EnterKeepsBootInv ==
  ASSUME BootInv, EnterKernel \/ BadMagic \/ RunsHole
  PROVE  BootInv'
<1>1. UNCHANGED <<ram, disk, kernel, program>>
  BY DEF EnterKernel, BadMagic, RunsHole
<1>2. DiskInv /\ kernel \in KernelImages /\ DOMAIN ram = 0..(3 * PTSIZE - 1)
  BY DEF BootInv
<1>3. CASE BadMagic
  <2>1. /\ pc = "readsect" /\ pa >= End
        /\ pc' \in {"spin", "lost"} /\ seg = 1 /\ ram[ELFHDR] # KernelByte(0)
    BY <1>3 DEF BadMagic, Goto
  <2>2. End = ELFHDR + ELFHDR_SIZE
    BY <1>2, <2>1, SegmentsAre DEF End, Header
  <2>3. pa > ELFHDR
    <3>1. pa \in Nat
      BY <2>1 DEF BootInv, Reading, InStep
    <3> QED BY <2>1, <2>2, <3>1, BootLoaderAssumption, Sizes
  <2>4. disk.faults > 0
    BY <2>1, <2>3 DEF BootInv, Reading
  <2> QED BY <1>1, <1>2, <2>1, <2>4 DEF BootInv, DiskInv
<1>4. CASE EnterKernel
  <2>1. /\ pc = "readsect" /\ pa >= End /\ pc' = "i386_init"
        /\ seg = Len(Segments) /\ Len(Segments) = Len(kernel) + 1 /\ Len(kernel) \in Nat
    BY <1>2, <1>4, SegmentsAre, KernelIs DEF EnterKernel, Goto
  <2>2. PICK H : /\ Errors(H)
                 /\ \A i \in 1..Len(kernel) : \A a \in FilePart(kernel[i]) :
                      Arrived(i, a) => InPlace(kernel[i], a, H)
    BY <2>1 DEF BootInv, Reading
  <2>3. \A i \in 1..Len(kernel) : \A a \in FilePart(kernel[i]) : Arrived(i, a)
    BY <2>1, SegmentDone
  <2>4. \A i \in 1..Len(kernel') : \A a \in FilePart(kernel[i])' : InPlace(kernel[i], a, H)'
    BY <1>1, <2>2, <2>3 DEF InPlace, FilePart, RoundDown
  <2>5. Errors(H)'
    BY <1>1, <2>1, <2>2 DEF Errors, Pending
  <2>6. AllRead'
    BY <2>4, <2>5 DEF AllRead
  <2> QED BY <1>1, <1>2, <2>1, <2>6 DEF BootInv, DiskInv
<1>5. CASE RunsHole
  <2>1. pc = "i386_init" /\ pc' = "lost" /\ Holes # {}
    BY <1>5 DEF RunsHole, Goto
  <2>2. LostSectors # {}
    BY <2>1 DEF LostSectors
  <2>3. Cardinality(LostSectors) # 0
    BY <2>1, <2>2, OnlyLost, FS_EmptySet
  <2>4. disk.faults > 0
    BY <2>1, <2>3, OnlyLost
  <2> QED BY <1>1, <1>2, <2>1, <2>4 DEF BootInv, DiskInv
<1> QED BY <1>3, <1>4, <1>5

\* Steps of others, once the kernel runs.
LEMMA AfterBoot ==
  ASSUME BootInv, MemoryInv', DiskInv', UNCHANGED kernel,
         pc' \notin {"readsect", "insl", "i386_init", "spin", "lost"}
  PROVE  BootInv'
BY DEF BootInv, MemoryInv

\* The disk answers: with a sector, or with one more error.
LEMMA AnswerKeepsBootInv ==
  ASSUME BootInv, DiskDelivers \/ DiskFails, UNCHANGED bootvars
  PROVE  BootInv'
<1>1. UNCHANGED <<pc, ram, kernel, program, seg, pa, offset>> /\ disk.status = "busy"
  BY DEF DiskDelivers, DiskFails, bootvars
<1>2. DiskInv
  BY DEF BootInv
<1>3. /\ DiskInv' /\ disk'.sec = disk.sec /\ disk'.status # "ready"
      /\ disk'.faults >= disk.faults
      /\ disk'.status = "error" => disk'.faults > disk.faults
  <2>1. CASE DiskDelivers
    <3>1. disk' = [disk EXCEPT !.status = "data"]
      BY <2>1 DEF DiskDelivers
    <3> QED BY <1>2, <3>1 DEF DiskInv
  <2>2. CASE DiskFails
    <3>1. disk' = [disk EXCEPT !.status = "error", !.faults = @ + 1]
      BY <2>2 DEF DiskFails
    <3> DEFINE Status == {"busy", "data", "error", "ready"}
    <3>2. disk \in [status : Status, sec : Nat, left : Int, faults : Nat]
          /\ "error" \in Status /\ disk.faults + 1 \in Nat
      BY <1>2 DEF DiskInv
    <3> HIDE DEF Status
    <3>3. /\ disk' \in [status : Status, sec : Nat, left : Int, faults : Nat]
          /\ disk'.sec = disk.sec /\ disk'.status = "error" /\ disk'.faults = disk.faults + 1
      BY <3>1, <3>2
    <3> QED BY <1>2, <3>2, <3>3 DEF DiskInv, Status
  <2> QED BY <2>1, <2>2
<1>4. disk.faults > 0 => disk'.faults > 0
  BY <1>2, <1>3 DEF DiskInv
<1>5. ASSUME NEW H, Errors(H) PROVE Errors(H)'
  <2>1. IsFiniteSet(H) /\ Cardinality(H) \in Nat /\ disk.faults \in Nat /\ Pending = 0
    BY <1>1, <1>2, <1>5, FS_CardinalityType DEF Errors, DiskInv, Pending
  <2>2. Pending' = 0 \/ (Pending' = 1 /\ disk'.faults > disk.faults)
    BY <1>1, <1>2, <1>3 DEF Pending
  <2>3. disk'.faults \in Nat
    BY <1>3 DEF DiskInv
  <2> QED BY <1>3, <1>5, <2>1, <2>2, <2>3 DEF Errors
<1>6. ASSUME Reading PROVE Reading'
  <2>1. Segments' = Segments
    BY <1>1 DEF Segments
  <2>2. InStep(Segments[seg])' /\ Whole(pa)'
    BY <1>1, <1>6, <2>1 DEF Reading, InStep, RoundDown, Whole
  <2>3. PICK H : /\ Errors(H)
                 /\ \A i \in 1..Len(kernel) : \A a \in FilePart(kernel[i]) :
                      Arrived(i, a) => InPlace(kernel[i], a, H)
    BY <1>6 DEF Reading
  <2>4. Errors(H)' /\ \A i \in 1..Len(kernel') : \A a \in FilePart(kernel[i])' :
          Arrived(i, a)' => InPlace(kernel[i], a, H)'
    BY <1>1, <1>5, <2>3 DEF Arrived, InPlace, FilePart, RoundDown
  <2> QED BY <1>1, <1>3, <1>4, <1>6, <2>1, <2>2, <2>4 DEF Reading
<1>7. ASSUME AllRead PROVE AllRead'
  <2>1. PICK H : Errors(H) /\ \A i \in 1..Len(kernel) : \A a \in FilePart(kernel[i]) :
          InPlace(kernel[i], a, H)
    BY <1>7 DEF AllRead
  <2>2. Errors(H)' /\ \A i \in 1..Len(kernel') : \A a \in FilePart(kernel[i])' :
          InPlace(kernel[i], a, H)'
    BY <1>1, <1>5, <2>1 DEF InPlace, FilePart, RoundDown
  <2> QED BY <2>2 DEF AllRead
<1> QED BY <1>1, <1>3, <1>4, <1>6, <1>7 DEF BootInv

LEMMA LoaderKeepsBootInv ==
  ASSUME BootInv, MemoryInv', LoaderStep
  PROVE  BootInv'
<1> USE DEF Goto
<1> DEFINE Away == pc' \notin {"readsect", "insl", "i386_init", "spin", "lost"}
<1>1. DiskInv
  BY DEF BootInv
<1>2. ASSUME UNCHANGED <<disk, kernel>>, Away PROVE BootInv'
  BY <1>1, <1>2, AfterBoot DEF DiskInv
<1>3. CASE IdeReadCommand
  <2>1. /\ ReadCommand(PROGRAM_SECTOR, MAX_RW) /\ PROGRAM_SECTOR \in Nat
        /\ SectorCount(MAX_RW) \in Int
    BY <1>3, MachineAssumption, ProgramLoaderAssumption DEF IdeReadCommand, SectorCount
  <2>2. DiskInv'
    BY <1>1, <2>1, CommandKeepsDisk
  <2> QED BY <1>3, <2>2, AfterBoot DEF IdeReadCommand
<1>4. CASE IdeReadSector
  <2>1. DiskInv'
    BY <1>1, <1>4, SectorKeepsDisk DEF IdeReadSector
  <2> QED BY <1>4, <2>1, AfterBoot DEF IdeReadSector
<1>5. CASE Init386
  BY <1>2, <1>5 DEF Init386
<1>6. CASE IdeReadReturns
  BY <1>2, <1>6 DEF IdeReadReturns
<1>7. CASE NotElf \/ RejectSegment
  BY <1>2, <1>7 DEF NotElf, RejectSegment
<1>8. CASE NextHeader
  BY <1>2, <1>8 DEF NextHeader, machine
<1>9. CASE LoadSegment
  BY <1>2, <1>9 DEF LoadSegment
<1>10. CASE SegmentFault
  BY <1>2, <1>10 DEF SegmentFault, TakeTrap
<1>11. CASE EnterProgram
  BY <1>2, <1>11 DEF EnterProgram, RunTrapframe
<1> QED BY <1>3, <1>4, <1>5, <1>6, <1>7, <1>8, <1>9, <1>10, <1>11 DEF LoaderStep

LEMMA TrapKeepsBootInv ==
  ASSUME BootInv, MemoryInv', TrapStep
  PROVE  BootInv'
<1>1. UNCHANGED <<disk, kernel>>
  BY DEF TrapStep, TrapEntered, PageFaultHandler, UnhandledTrap, SysCputs, CputsChar, CputsFault,
         CputsConversion, CputsArgument, machine, SysEnvDestroy, SysTest, UnknownCall, ReturnToProgram, Panic, Shutdown
<1>2. pc' \in {"panic", "dispatch", "run", "cputs", "trap", "off", "user", "panicking"}
  BY DEF TrapStep, TrapEntered, PageFaultHandler, UnhandledTrap, SysCputs, CputsChar, CputsFault,
         CputsConversion, CputsArgument, machine, SysEnvDestroy, SysTest, UnknownCall, ReturnToProgram, Panic, Shutdown, Goto, Returning,
         TakeTrap, RunTrapframe
<1>3. DiskInv'
  BY <1>1 DEF BootInv, DiskInv
<1> QED BY <1>1, <1>2, <1>3, AfterBoot

LEMMA NextBootInv == TrapInv /\ MemoryInv /\ BootInv /\ [Next]_vars => BootInv'
<1> SUFFICES ASSUME TrapInv, MemoryInv, BootInv, [Next]_vars PROVE BootInv'
  OBVIOUS
<1>1. MemoryInv'
  BY NextMemoryInv
<1>2. CASE BootStep
  BY <1>2, CommandKeepsBootInv, DataKeepsBootInv, NextSegmentKeepsBootInv, EnterKeepsBootInv
     DEF BootStep
<1>3. CASE LoaderStep
  BY <1>1, <1>3, LoaderKeepsBootInv
<1>4. CASE TrapStep
  BY <1>1, <1>4, TrapKeepsBootInv
<1>5. CASE (DiskDelivers \/ DiskFails) /\ UNCHANGED bootvars
  BY <1>5, AnswerKeepsBootInv
<1>6. CASE UserStep
  <2>1. pc' \in {"user", "trap"} /\ UNCHANGED <<disk, kernel>>
    <3>1. ASSUME NEW c, NEW v, NEW err, Instruction(c, v, err)
          PROVE  pc' = "trap" /\ UNCHANGED <<disk, kernel>>
      BY <3>1 DEF Instruction, TakeTrap, Goto
    <3>2. ASSUME NEW c, NEW n, NEW regs, Interrupt(c, n, regs)
          PROVE  pc' = "trap" /\ UNCHANGED <<disk, kernel>>
      BY <3>2 DEF Interrupt, TakeTrap, Goto
    <3>3. Write => pc' = "user" /\ UNCHANGED <<disk, kernel>>
      BY DEF Write
    <3> QED BY <1>6, <3>1, <3>2, <3>3 DEF UserStep, DivZero, Breakpoint, SoftInt, BadSegment,
              OtherException, FaultRead, FaultWrite, SystemCall
  <2> QED BY <1>1, <2>1, AfterBoot DEF BootInv, DiskInv
<1>7. CASE Nmi
  <2>1. pc' = "trap" /\ UNCHANGED <<disk, kernel>>
    BY <1>7 DEF Nmi, TakeTrap, Goto
  <2> QED BY <1>1, <2>1, AfterBoot DEF BootInv, DiskInv
<1>8. CASE UNCHANGED vars
  <2>1. UNCHANGED <<kernel, disk, ram, pc, seg, pa, offset>>
    BY <1>8 DEF vars, machine, bootvars
  <2>2. DiskInv'
    BY <2>1 DEF BootInv, DiskInv
  <2>3. ASSUME NEW H PROVE Errors(H)' = Errors(H)
    BY <2>1 DEF Errors, Pending
  <2>4. ASSUME pc \in {"readsect", "insl"} PROVE Reading'
    <3>1. Reading
      BY <2>4 DEF BootInv
    <3> QED BY <2>1, <2>3, <3>1 DEF Reading, InStep, InPlace, Arrived, Segments, RoundDown,
                                    FilePart, Whole
  <2>5. ASSUME pc = "i386_init" PROVE AllRead'
    <3>1. AllRead
      BY <2>5 DEF BootInv
    <3> QED BY <2>1, <2>3, <3>1 DEF AllRead, InPlace, RoundDown, FilePart
  <2> QED BY <2>1, <2>2, <2>4, <2>5 DEF BootInv
<1> QED BY <1>2, <1>3, <1>4, <1>5, <1>6, <1>7, <1>8 DEF Next, KernelStep

LEMMA InitBootInv == Init => BootInv
<1> SUFFICES ASSUME Init PROVE BootInv
  OBVIOUS
<1>1. /\ pc = "readsect" /\ kernel \in KernelImages /\ seg = 1 /\ offset = 1
      /\ pa = RoundDown(ELFHDR) /\ DOMAIN ram = 0..(3 * PTSIZE - 1)
      /\ disk = [status |-> "ready", sec |-> 0, left |-> 0, faults |-> 0]
  BY DEF Init, BootInit, MachineInit
<1>2. DiskInv
  BY <1>1 DEF DiskInv
<1>3. ELFHDR \in Nat /\ RoundDown(ELFHDR) = ELFHDR /\ SECTSIZE \in Nat \ {0}
  BY BootLoaderAssumption, MachineAssumption, Sizes DEF RoundDown
<1>4. Segments[1].pa = ELFHDR /\ Segments[1].offset = 0 /\ 1 \in 1..Len(Segments)
  BY <1>1, SegmentsAre, KernelIs DEF Header
<1>5. (1 - 1) * SECTSIZE = 0
  BY <1>3
<1>6. Whole(pa)
  BY <1>1, <1>3, WholeSteps
<1>7. Errors({}) /\ \A i \in 1..Len(kernel) : \A a \in FilePart(kernel[i]) : ~Arrived(i, a)
  <2>1. \A i \in 1..Len(kernel) : ~(i + 1 <= 1)
    OBVIOUS
  <2>2. Errors({})
    BY <1>1, FS_EmptySet DEF Errors, Pending
  <2> QED BY <1>1, <2>1, <2>2 DEF Arrived
<1>8. Reading
  BY <1>1, <1>3, <1>4, <1>5, <1>6, <1>7 DEF Reading, InStep
<1> QED BY <1>1, <1>2, <1>8 DEF BootInv

\* Whatever number of segments the kernel has, wherever they begin in their
\* sectors and whatever errors the disk reports: what is missing of the kernel
\* that is entered is one sector for each error at most, all else is the file,
\* byte by byte at its place, and only an error keeps it from being entered
\* (main.c:77-80, :96-148).
THEOREM KernelIsLoaded == Spec => []KernelLoaded
<1>1. BootInv => KernelLoaded
  <2> SUFFICES ASSUME BootInv PROVE KernelLoaded
    OBVIOUS
  <2>1. ASSUME pc = "i386_init", NEW a \in KernelFileCells \ Holes PROVE ram[a] = KernelAt(a)
    <3>1. \E i \in 1..Len(kernel) : a \in FilePart(kernel[i])
      BY DEF KernelFileCells
    <3> DEFINE i == CHOOSE i \in 1..Len(kernel) : a \in FilePart(kernel[i])
    <3>2. i \in 1..Len(kernel) /\ a \in FilePart(kernel[i])
      BY <3>1
    <3>3. KernelAt(a) = KernelByte(kernel[i].offset + a - kernel[i].pa)
      BY DEF KernelAt
    <3> HIDE DEF i
    <3>4. ram[a] = KernelByte(kernel[i].offset + (a - kernel[i].pa))
      BY <2>1, <3>2, OnlyLost
    <3>5. kernel[i].offset + (a - kernel[i].pa) = kernel[i].offset + a - kernel[i].pa
      <4>1. kernel[i] \in [pa : Nat, memsz : Nat, filesz : Nat, offset : Nat]
        BY <3>2, KernelIs DEF BootInv
      <4> QED BY <3>2, <4>1 DEF FilePart
    <3> QED BY <3>3, <3>4, <3>5
  <2>2. pc = "i386_init" => Cardinality(LostSectors) <= disk.faults
    BY OnlyLost
  <2>3. pc \in {"spin", "lost"} => disk.faults > 0
    BY DEF BootInv
  <2> QED BY <2>1, <2>2, <2>3 DEF KernelLoaded
<1> QED BY <1>1, InitBootInv, NextBootInv, TrapInvariant, MemoryInvariant, PTL DEF Spec

-----------------------------------------------------------------------------
(* The program in memory. *)

ProgramCells == UTEXT..(3 * PTSIZE - 1)

\* The buffer holds n sectors of the program's file, and zeros behind them.
Prefix(n) ==
  \A i \in 0..(MAX_RW * SECTSIZE - 1) :
    ram[binary_to_load + i] = IF i < n * SECTSIZE THEN ProgramByte(i) ELSE Zero

\* ide_read is where the controller is.
ReadingProgram ==
  /\ nsecs \in 0..MAX_RW
  /\ dst = binary_to_load + (MAX_RW - nsecs) * SECTSIZE
  /\ Prefix(MAX_RW - nsecs)
  /\ disk.left = nsecs /\ disk.sec = PROGRAM_SECTOR + (MAX_RW - nsecs)
  /\ nsecs > 0 => disk.status # "ready"

\* What segment s puts at address la.
Image(s, la) == IF la - s.va < s.filesz THEN ram[Source(s) + (la - s.va)] ELSE Zero

\* Of the segments before ph, the last that covers la decides.
ImageSoFar(la) ==
  \/ /\ ram[la] = Garbage
     /\ \A i \in 1..(ph - 1) : ~Covers(program.segs[i], la)
  \/ \E i \in 1..(ph - 1) :
       /\ Covers(program.segs[i], la)
       /\ \A j \in 1..(ph - 1) : j > i => ~Covers(program.segs[j], la)
       /\ ram[la] = Image(program.segs[i], la)

\* A segment is read from memory that is there.
Sourced(s) == Loads(s) => \A n \in 0..(s.filesz - 1) : Source(s) + n < 3 * PTSIZE

Loading ==
  /\ ph \in 1..(Len(program.segs) + 1)
  /\ \E n \in 0..MAX_RW : (n = MAX_RW \/ disk.faults > 0) /\ Prefix(n)
  /\ \A la \in ProgramCells : ImageSoFar(la)
  /\ \A i \in 1..(ph - 1) : Sourced(program.segs[i])

ImageInv ==
  /\ pc = "insl" => pa < End
  /\ pc \in {"readsect", "insl", "i386_init", "ide_read", "ide_data"} =>
       \A la \in ProgramCells : ram[la] = Garbage
  /\ pc = "ide_read" => Prefix(0)
  /\ pc = "ide_data" => ReadingProgram
  /\ pc = "load" => Loading
-----------------------------------------------------------------------------
(* The buffer and the sectors lie below the program. *)

LEMMA BufferBelow ==
  ASSUME kernel \in KernelImages
  PROVE  /\ binary_to_load \in Nat /\ MAX_RW \in Nat /\ SECTSIZE \in Nat \ {0}
         /\ MAX_RW * SECTSIZE \in Nat
         /\ \A i \in 0..(MAX_RW * SECTSIZE - 1) :
              /\ binary_to_load + i \in 0..(UTEXT - 1)
              /\ binary_to_load + i \in BssPart(kernel[Len(kernel)])
         /\ BssPart(kernel[Len(kernel)]) \subseteq 0..(UTEXT - 1)
<1>1. binary_to_load \in Nat /\ MAX_RW \in Nat /\ SECTSIZE \in Nat \ {0}
  BY ProgramLoaderAssumption, MachineAssumption
<1>2. MAX_RW * SECTSIZE \in Nat
  BY <1>1, Products
<1> DEFINE size == MAX_RW * SECTSIZE
           s == kernel[Len(kernel)]
           last == s.pa + s.memsz - 1
<1>3. Buffer \subseteq BssPart(s) /\ Len(kernel) \in 1..Len(kernel)
  BY ProgramLoaderAssumption, KernelIs
<1>4. s \in [pa : Nat, memsz : Nat, filesz : Nat, offset : Nat]
      /\ s.pa \div PTSIZE = 1 /\ last \div PTSIZE = 1
  BY <1>3, KernelIs
<1>5. PTSIZE \in Nat \ {0} /\ UTEXT = 2 * PTSIZE
  BY Sizes
<1>6. BssPart(s) = (s.pa + s.filesz)..last
  BY DEF BssPart
<1>7. last \in Int
  BY <1>4
<1> HIDE DEF size, s, last
<1>8. ASSUME NEW a \in BssPart(s) PROVE a \in 0..(UTEXT - 1)
  <2>1. a \in Nat /\ a <= last /\ last \in Nat
    BY <1>4, <1>6, <1>7
  <2>2. last = 1 * PTSIZE + (last % PTSIZE) /\ last % PTSIZE \in 0..(PTSIZE - 1)
    BY <1>4, <1>5, <2>1, Division
  <2> QED BY <1>5, <2>1, <2>2
<1>9. ASSUME NEW i \in 0..(size - 1) PROVE binary_to_load + i \in BssPart(s)
  <2>1. binary_to_load + i \in Buffer
    BY <1>1, <1>2 DEF Buffer, size
  <2> QED BY <1>3, <2>1
<1> QED BY <1>1, <1>2, <1>8, <1>9 DEF size, s

LEMMA WholeProgram == Whole(UTEXT)
<1> DEFINE q == PGSIZE \div SECTSIZE
<1>1. PGSIZE \in Nat \ {0} /\ SECTSIZE \in Nat \ {0} /\ NPTENTRIES \in Nat
      /\ PTSIZE = PGSIZE * NPTENTRIES /\ UTEXT = 2 * PTSIZE
  BY Sizes, MachineAssumption
<1>2. q \in Nat /\ PGSIZE = q * SECTSIZE
  <2>1. PGSIZE % SECTSIZE = 0
    BY BootLoaderAssumption
  <2>2. q \in Nat /\ PGSIZE = q * SECTSIZE + (PGSIZE % SECTSIZE) /\ q * SECTSIZE \in Nat
    BY <1>1, Division, Products
  <2> QED BY <2>1, <2>2
<1> HIDE DEF q
<1>3. PTSIZE = (NPTENTRIES * q) * SECTSIZE /\ NPTENTRIES * q \in Nat
  BY <1>1, <1>2, Products
<1>4. UTEXT = (2 * (NPTENTRIES * q)) * SECTSIZE /\ 2 * (NPTENTRIES * q) \in Nat
  BY <1>1, <1>3, Products
<1> QED BY <1>4 DEF Whole

\* The last sector of a segment does not reach the program either.
LEMMA SectorBelow ==
  ASSUME Whole(pa), NEW end \in Nat, end <= UTEXT, pa < end
  PROVE  pa \in Nat /\ pa + SECTSIZE <= UTEXT
<1>1. SECTSIZE \in Nat \ {0} /\ UTEXT \in Nat
  BY Sizes, MachineAssumption
<1>2. PICK k \in Nat : pa = k * SECTSIZE
  BY DEF Whole
<1>3. PICK m \in Nat : UTEXT = m * SECTSIZE
  BY WholeProgram DEF Whole
<1>4. pa \in Nat /\ pa = SECTSIZE * k /\ UTEXT = SECTSIZE * m
  BY <1>1, <1>2, <1>3, Products
<1>5. k < m
  <2>1. SUFFICES ASSUME m <= k PROVE FALSE
    OBVIOUS
  <2>2. SECTSIZE * m <= SECTSIZE * k
    BY <1>1, <2>1, Products
  <2> QED BY <1>1, <1>4, <2>2
<1>6. SECTSIZE * (k + 1) <= SECTSIZE * m
  BY <1>1, <1>5, Products
<1>7. SECTSIZE * (k + 1) = SECTSIZE * k + SECTSIZE * 1
  BY <1>1, Products
<1> QED BY <1>1, <1>4, <1>6, <1>7

LEMMA EndBelow ==
  ASSUME kernel \in KernelImages, seg \in 1..Len(Segments)
  PROVE  End \in Nat /\ End <= UTEXT
<1>1. PTSIZE \in Nat \ {0} /\ UTEXT = 2 * PTSIZE
  BY Sizes
<1>2. CASE seg = 1
  <2>1. Segments[seg].pa = ELFHDR /\ Segments[seg].memsz = ELFHDR_SIZE
    BY <1>2, SegmentsAre DEF Header
  <2> QED BY <1>1, <2>1, BootLoaderAssumption DEF End
<1>3. CASE seg # 1
  <2>1. seg - 1 \in 1..Len(kernel) /\ (seg - 1) + 1 = seg
    BY <1>3, SegmentsAre, KernelIs
  <2> DEFINE s == kernel[seg - 1]
             last == s.pa + s.memsz - 1
  <2>2. Segments[seg] = s
    BY <2>1, SegmentsAre
  <2>3. s \in [pa : Nat, memsz : Nat, filesz : Nat, offset : Nat]
        /\ s.pa \div PTSIZE = 1 /\ last \div PTSIZE = 1
    BY <2>1, KernelIs
  <2>4. last \in Nat /\ End = last + 1
    <3>1. s.pa # 0
      BY <1>1, <2>3
    <3> QED BY <2>2, <2>3, <3>1 DEF End
  <2> HIDE DEF s, last
  <2>5. last = 1 * PTSIZE + (last % PTSIZE) /\ last % PTSIZE \in 0..(PTSIZE - 1)
    BY <1>1, <2>3, <2>4, Division
  <2> QED BY <1>1, <2>4, <2>5
<1> QED BY <1>2, <1>3

-----------------------------------------------------------------------------
(* The boot loader leaves the program's memory alone. *)

LEMMA BootKeepsImageInv ==
  ASSUME BootInv, ImageInv, BootStep
  PROVE  ImageInv'
<1> USE DEF Goto
<1>1. CASE ReadsectCommand
  <2>1. /\ pc = "readsect" /\ pc' = "insl" /\ pa < End
        /\ UNCHANGED <<ram, kernel, seg, pa>>
    BY <1>1 DEF ReadsectCommand, bootvars
  <2>2. (pa < End)' /\ \A la \in ProgramCells : ram'[la] = Garbage
    BY <2>1 DEF ImageInv, End, Segments
  <2> QED BY <2>1, <2>2 DEF ImageInv, ProgramCells
<1>2. CASE ReadsectData
  <2>1. /\ pc = "insl" /\ pc' = "readsect" /\ pa' = pa + SECTSIZE
        /\ ram' = [a \in DOMAIN ram |->
                     IF a \in pa..(pa + SECTSIZE - 1) THEN SectorByte(a - pa) ELSE ram[a]]
    BY <1>2 DEF ReadsectData
  <2>2. pa \in Nat /\ pa + SECTSIZE <= UTEXT
    <3>1. Whole(pa) /\ pa < End
      BY <2>1 DEF ImageInv, BootInv, Reading
    <3>2. kernel \in KernelImages /\ seg \in 1..Len(Segments)
      BY <2>1 DEF BootInv, Reading
    <3>3. End \in Nat /\ End <= UTEXT
      BY <3>2, EndBelow
    <3> QED BY <3>1, <3>3, SectorBelow
  <2>3. ASSUME NEW la \in ProgramCells PROVE ram'[la] = Garbage
    <3>1. la \in DOMAIN ram /\ la \notin pa..(pa + SECTSIZE - 1)
      BY <2>2, Sizes, MachineAssumption DEF ProgramCells, BootInv
    <3>2. ram[la] = Garbage
      BY <2>1 DEF ImageInv
    <3> QED BY <2>1, <3>1, <3>2
  <2> QED BY <2>1, <2>3 DEF ImageInv, ProgramCells
<1>3. CASE BadMagic
  BY <1>3 DEF BadMagic, ImageInv
<1>4. CASE ReadNextSegment
  BY <1>4 DEF ReadNextSegment, machine, ImageInv, ProgramCells
<1>5. CASE EnterKernel
  BY <1>5 DEF EnterKernel, ImageInv, ProgramCells
<1>6. CASE RunsHole
  BY <1>6 DEF RunsHole, ImageInv
<1> QED BY <1>1, <1>2, <1>3, <1>4, <1>5, <1>6 DEF BootStep

-----------------------------------------------------------------------------
(* i386_init and ide_read fill the buffer. *)

\* What is stored is at the addresses it was stored to.
LEMMA StoresAt ==
  ASSUME DOMAIN ram = 0..(3 * PTSIZE - 1),
         NEW la \in Nat, NEW n \in Nat, la + n <= 3 * PTSIZE,
         NEW bytes, DOMAIN bytes = 0..(n - 1)
  PROVE  /\ DOMAIN Stored(la, bytes) = DOMAIN ram
         /\ \A a \in DOMAIN ram :
              Stored(la, bytes)[a] =
                IF la <= a /\ a < la + n THEN bytes[a - la] ELSE ram[a]
<1>1. PTSIZE \in Nat
  BY Sizes
<1>2. ASSUME NEW i \in DOMAIN bytes PROVE PhysAddr(la + i) = la + i /\ i \in Nat
  <2>1. la + i \in Nat /\ la + i < 3 * PTSIZE
    BY <1>1, <1>2
  <2> QED BY <1>2, <2>1, Identity
<1>3. ASSUME NEW a \in DOMAIN ram
      PROVE  Stored(la, bytes)[a] =
               IF la <= a /\ a < la + n THEN bytes[a - la] ELSE ram[a]
  <2> DEFINE Hits(i) == PhysAddr(la + i) = a
  <2>1. Stored(la, bytes)[a] =
          IF \E i \in DOMAIN bytes : Hits(i) THEN bytes[CHOOSE i \in DOMAIN bytes : Hits(i)]
          ELSE ram[a]
    BY <1>3 DEF Stored
  <2>2. a \in Nat
    BY <1>3
  <2>3. CASE la <= a /\ a < la + n
    <3>1. a - la \in DOMAIN bytes /\ la + (a - la) = a
      BY <2>2, <2>3
    <3>2. Hits(a - la)
      BY <1>2, <3>1
    <3>3. \A i \in DOMAIN bytes : Hits(i) => i = a - la
      BY <1>2, <2>2
    <3> HIDE DEF Hits
    <3>4. (CHOOSE i \in DOMAIN bytes : Hits(i)) = a - la
      BY <3>1, <3>2, <3>3
    <3> QED BY <2>1, <2>3, <3>1, <3>2, <3>4
  <2>4. CASE ~(la <= a /\ a < la + n)
    <3>1. \A i \in DOMAIN bytes : ~Hits(i)
      BY <1>2, <2>2, <2>4
    <3> HIDE DEF Hits
    <3> QED BY <2>1, <2>4, <3>1
  <2> QED BY <2>3, <2>4
<1>4. DOMAIN Stored(la, bytes) = DOMAIN ram
  BY DEF Stored
<1> QED BY <1>3, <1>4

LEMMA Init386KeepsImageInv ==
  ASSUME BootInv, ImageInv, Init386
  PROVE  ImageInv'
<1> DEFINE bss == BssPart(kernel[Len(kernel)])
<1>1. /\ pc = "i386_init" /\ pc' = "ide_read"
      /\ ram' = [a \in DOMAIN ram |-> IF a \in bss THEN Zero ELSE ram[a]]
  BY DEF Init386, Goto
<1>2. kernel \in KernelImages /\ DOMAIN ram = 0..(3 * PTSIZE - 1)
  BY DEF BootInv
<1>3. /\ bss \subseteq 0..(UTEXT - 1)
      /\ \A i \in 0..(MAX_RW * SECTSIZE - 1) :
           binary_to_load + i \in 0..(UTEXT - 1) /\ binary_to_load + i \in bss
      /\ MAX_RW * SECTSIZE \in Nat /\ SECTSIZE \in Nat
  BY <1>2, BufferBelow
<1> HIDE DEF bss
<1>4. ASSUME NEW la \in ProgramCells PROVE ram'[la] = Garbage
  <2>1. la \in DOMAIN ram /\ la \notin bss
    BY <1>2, <1>3, Sizes DEF ProgramCells
  <2>2. ram[la] = Garbage
    BY <1>1 DEF ImageInv
  <2> QED BY <1>1, <2>1, <2>2
<1>5. ASSUME NEW i \in 0..(MAX_RW * SECTSIZE - 1)
      PROVE  ram'[binary_to_load + i] = Zero
  <2>1. binary_to_load + i \in DOMAIN ram
    BY <1>2, <1>3, Sizes
  <2> QED BY <1>1, <1>3, <2>1
<1>6. Prefix(0)'
  <2>1. 0 * SECTSIZE = 0
    BY <1>3
  <2> QED BY <1>3, <1>5, <2>1 DEF Prefix
<1> QED BY <1>1, <1>4, <1>6 DEF ImageInv, ProgramCells

LEMMA IdeReadCommandKeepsImageInv ==
  ASSUME BootInv, ImageInv, IdeReadCommand
  PROVE  ImageInv'
<1>1. /\ pc = "ide_read" /\ pc' = "ide_data" /\ ReadCommand(PROGRAM_SECTOR, MAX_RW)
      /\ nsecs' = MAX_RW /\ dst' = binary_to_load /\ UNCHANGED ram
  BY DEF IdeReadCommand, Goto
<1>2. /\ DiskInv /\ PROGRAM_SECTOR \in Nat /\ MAX_RW \in 1..256 /\ SECTSIZE \in Nat \ {0}
      /\ binary_to_load \in Nat
  BY MachineAssumption, ProgramLoaderAssumption DEF BootInv
<1>3. SectorCount(MAX_RW) = MAX_RW
  BY <1>2 DEF SectorCount
<1>4. disk'.sec = PROGRAM_SECTOR /\ disk'.status = "busy" /\ disk'.left = MAX_RW
  <2>1. SectorCount(MAX_RW) \in Int
    BY <1>2, <1>3
  <2>2. disk'.sec = PROGRAM_SECTOR /\ disk'.status = "busy" /\ disk'.left = SectorCount(MAX_RW)
    BY <1>1, <1>2, <2>1, CommandKeepsDisk
  <2> QED BY <1>3, <2>2
<1>5. MAX_RW - nsecs' = 0 /\ 0 * SECTSIZE = 0 /\ nsecs' \in 0..MAX_RW
  BY <1>1, <1>2
<1>6. Prefix(MAX_RW - nsecs)'
  BY <1>1, <1>5 DEF ImageInv, Prefix
<1>7. ReadingProgram'
  BY <1>1, <1>2, <1>4, <1>5, <1>6 DEF ReadingProgram
<1> QED BY <1>1, <1>7 DEF ImageInv, ProgramCells

\* One more sector: the prefix grows by it.
LEMMA PrefixGrows ==
  ASSUME BootInv, NEW n \in 0..(MAX_RW - 1), Prefix(n),
         disk.status = "data", disk.sec = PROGRAM_SECTOR + n,
         NEW at, at = binary_to_load + n * SECTSIZE,
         ram' = Stored(at, [j \in 0..(SECTSIZE - 1) |-> SectorByte(j)])
  PROVE  /\ Prefix(n + 1)'
         /\ \A la \in ProgramCells : ram'[la] = ram[la]
<1> DEFINE size == MAX_RW * SECTSIZE
           bytes == [j \in 0..(SECTSIZE - 1) |-> SectorByte(j)]
<1>1. kernel \in KernelImages /\ DOMAIN ram = 0..(3 * PTSIZE - 1)
  BY DEF BootInv
<1>2. /\ binary_to_load \in Nat /\ MAX_RW \in Nat /\ SECTSIZE \in Nat \ {0} /\ size \in Nat
      /\ \A i \in 0..(size - 1) : binary_to_load + i \in 0..(UTEXT - 1)
  BY <1>1, BufferBelow
<1>3. n \in Nat /\ n * SECTSIZE \in Nat /\ (n + 1) * SECTSIZE = n * SECTSIZE + SECTSIZE
      /\ n * SECTSIZE + SECTSIZE <= size
  <2>1. n \in Nat /\ n + 1 \in Nat /\ n + 1 <= MAX_RW
    BY <1>2
  <2>2. SECTSIZE * (n + 1) = SECTSIZE * n + SECTSIZE * 1 /\ SECTSIZE * n = n * SECTSIZE
        /\ SECTSIZE * (n + 1) = (n + 1) * SECTSIZE /\ n * SECTSIZE \in Nat
    BY <1>2, <2>1, Products
  <2>3. SECTSIZE * (n + 1) <= SECTSIZE * MAX_RW /\ SECTSIZE * MAX_RW = size
    BY <1>2, <2>1, Products
  <2> QED BY <1>2, <2>1, <2>2, <2>3
<1> DEFINE start == n * SECTSIZE
<1>4. /\ start \in Nat /\ start + SECTSIZE <= size /\ at = binary_to_load + start
      /\ (n + 1) * SECTSIZE = start + SECTSIZE
  BY <1>3
<1> HIDE DEF size, start
<1>5. at \in Nat /\ at + SECTSIZE <= UTEXT /\ UTEXT \in Nat /\ UTEXT <= 3 * PTSIZE
  <2>1. start + (SECTSIZE - 1) \in 0..(size - 1)
    BY <1>2, <1>4
  <2>2. binary_to_load + (start + (SECTSIZE - 1)) \in 0..(UTEXT - 1)
    BY <1>2, <2>1
  <2> QED BY <1>2, <1>4, <2>2, Sizes
<1>6. \A a \in DOMAIN ram :
        ram'[a] = IF at <= a /\ a < at + SECTSIZE THEN bytes[a - at] ELSE ram[a]
  <2>1. DOMAIN bytes = 0..(SECTSIZE - 1) /\ ram' = Stored(at, bytes)
    OBVIOUS
  <2> HIDE DEF bytes
  <2>2. SECTSIZE \in Nat /\ at \in Nat /\ at + SECTSIZE <= 3 * PTSIZE
    BY <1>2, <1>5, Sizes
  <2> QED BY <1>1, <2>1, <2>2, StoresAt
<1>7. ASSUME NEW la \in ProgramCells PROVE ram'[la] = ram[la]
  <2>1. la \in DOMAIN ram /\ ~(la < at + SECTSIZE)
    BY <1>1, <1>2, <1>5, Sizes DEF ProgramCells
  <2> QED BY <1>6, <2>1
<1>8. ASSUME NEW j \in 0..(SECTSIZE - 1) PROVE bytes[j] = ProgramByte(start + j)
  <2>1. PROGRAM_SECTOR \in Nat
    BY MachineAssumption
  <2>2. disk.sec >= PROGRAM_SECTOR /\ disk.sec - PROGRAM_SECTOR = n
    BY <1>3, <2>1
  <2>3. DiskByte(disk.sec, j) = ProgramByte(n * SECTSIZE + j)
    BY <1>3, <2>1, <2>2 DEF DiskByte
  <2> QED BY <2>3 DEF SectorByte, start
<1> HIDE DEF bytes
<1>9. ASSUME NEW i \in 0..(size - 1)
      PROVE  ram'[binary_to_load + i] = IF i < start + SECTSIZE THEN ProgramByte(i) ELSE Zero
  <2>1. binary_to_load + i \in DOMAIN ram /\ i \in Nat
    <3>1. i \in Nat /\ binary_to_load + i \in 0..(UTEXT - 1)
      BY <1>2
    <3>2. 0..(UTEXT - 1) \subseteq 0..(3 * PTSIZE - 1)
      BY <1>5, Sizes
    <3> QED BY <1>1, <3>1, <3>2
  <2>2. ram[binary_to_load + i] = IF i < start THEN ProgramByte(i) ELSE Zero
    BY DEF Prefix, size, start
  <2>3. CASE i < start
    <3>1. ~(at <= binary_to_load + i)
      BY <1>2, <1>4, <2>1, <2>3
    <3>2. ram'[binary_to_load + i] = ram[binary_to_load + i]
      BY <1>6, <2>1, <3>1
    <3>3. i < start + SECTSIZE
      BY <1>2, <1>4, <2>1, <2>3
    <3> QED BY <2>2, <2>3, <3>2, <3>3
  <2>4. CASE i >= start /\ i < start + SECTSIZE
    <3>1. /\ at <= binary_to_load + i /\ binary_to_load + i < at + SECTSIZE
          /\ (binary_to_load + i) - at = i - start
      BY <1>2, <1>4, <2>1, <2>4
    <3>2. i - start \in 0..(SECTSIZE - 1) /\ start + (i - start) = i
      BY <1>2, <1>4, <2>1, <2>4
    <3>3. ram'[binary_to_load + i] = bytes[i - start]
      BY <1>6, <2>1, <3>1
    <3>4. bytes[i - start] = ProgramByte(i)
      BY <1>8, <3>2
    <3> QED BY <2>4, <3>3, <3>4
  <2>5. CASE i >= start + SECTSIZE
    <3>1. ~(binary_to_load + i < at + SECTSIZE)
      BY <1>2, <1>4, <2>1, <2>5
    <3>2. ram'[binary_to_load + i] = ram[binary_to_load + i]
      BY <1>6, <2>1, <3>1
    <3>3. ~(i < start)  /\ ~(i < start + SECTSIZE)
      BY <1>2, <1>4, <2>1, <2>5
    <3> QED BY <2>2, <3>2, <3>3
  <2> QED BY <1>2, <1>4, <2>1, <2>3, <2>4, <2>5
<1>10. Prefix(n + 1)'
  BY <1>4, <1>9 DEF Prefix, size
<1> QED BY <1>7, <1>10

LEMMA IdeReadSectorKeepsImageInv ==
  ASSUME BootInv, ImageInv, IdeReadSector
  PROVE  ImageInv'
<1>1. /\ pc = "ide_data" /\ pc' = pc /\ DiskReady /\ disk.status # "error" /\ nsecs > 0
      /\ ram' = Stored(dst, [j \in 0..(SECTSIZE - 1) |-> SectorByte(j)])
      /\ SectorRead /\ nsecs' = nsecs - 1 /\ dst' = dst + SECTSIZE
  BY DEF IdeReadSector
<1>2. DiskInv /\ ReadingProgram
  BY <1>1 DEF BootInv, ImageInv
<1>3. /\ MAX_RW \in Nat /\ SECTSIZE \in Nat \ {0} /\ nsecs \in 0..MAX_RW /\ binary_to_load \in Nat
      /\ PROGRAM_SECTOR \in Nat
  BY <1>2, MachineAssumption, ProgramLoaderAssumption DEF ReadingProgram
<1>4. PICK n \in 0..(MAX_RW - 1) : n = MAX_RW - nsecs
  BY <1>1, <1>3
<1>5. /\ n + 1 = MAX_RW - nsecs' /\ nsecs' \in 0..MAX_RW /\ nsecs' = disk.left - 1
      /\ nsecs' > 0 <=> disk.left > 1
  BY <1>1, <1>2, <1>3, <1>4 DEF ReadingProgram
<1>6. disk.status = "data"
  BY <1>1, <1>2 DEF DiskInv, DiskReady, ReadingProgram
<1>7. Prefix(n + 1)' /\ \A la \in ProgramCells : ram'[la] = ram[la]
  <2>1. Prefix(n) /\ disk.sec = PROGRAM_SECTOR + n /\ dst = binary_to_load + n * SECTSIZE
    BY <1>2, <1>4 DEF ReadingProgram
  <2> QED BY <1>1, <1>6, <2>1, PrefixGrows
<1>8. /\ disk'.left = disk.left - 1 /\ disk'.sec = disk.sec + 1
      /\ disk'.status = IF disk.left > 1 THEN "busy" ELSE "ready"
  BY <1>1, <1>2, <1>6 DEF SectorRead, DiskInv
<1>9. dst' = binary_to_load + (n + 1) * SECTSIZE
  <2>1. /\ SECTSIZE * (n + 1) = SECTSIZE * n + SECTSIZE * 1 /\ SECTSIZE * n = n * SECTSIZE
        /\ SECTSIZE * (n + 1) = (n + 1) * SECTSIZE /\ n * SECTSIZE \in Nat
    BY <1>3, Products
  <2>2. dst = binary_to_load + n * SECTSIZE
    BY <1>2, <1>4 DEF ReadingProgram
  <2> QED BY <1>1, <1>3, <2>1, <2>2
<1>10. disk'.sec = PROGRAM_SECTOR + (n + 1)
  BY <1>2, <1>3, <1>4, <1>8 DEF ReadingProgram
<1>11. ReadingProgram'
  <2>1. Prefix(MAX_RW - nsecs)'
    BY <1>5, <1>7 DEF Prefix
  <2> QED BY <1>5, <1>8, <1>9, <1>10, <2>1 DEF ReadingProgram
<1> QED BY <1>1, <1>7, <1>11 DEF ImageInv, ProgramCells

LEMMA IdeReadReturnsKeepsImageInv ==
  ASSUME TrapInv, BootInv, ImageInv, IdeReadReturns
  PROVE  ImageInv'
<1>1. /\ pc = "ide_data" /\ pc' = "load" /\ ph' = 1 /\ UNCHANGED <<ram, disk, program>>
      /\ nsecs = 0 \/ disk.status = "error"
  BY DEF IdeReadReturns, Goto
<1>2. DiskInv /\ ReadingProgram /\ MAX_RW \in Nat
  BY <1>1, ProgramLoaderAssumption DEF BootInv, ImageInv
<1>3. PICK n \in 0..MAX_RW : n = MAX_RW - nsecs
  BY <1>2 DEF ReadingProgram
<1>4. (n = MAX_RW \/ disk.faults > 0) /\ Prefix(n)
  BY <1>1, <1>2, <1>3 DEF DiskInv, ReadingProgram
<1>5. Len(program.segs) \in Nat
  BY ProgramLoaderAssumption DEF TrapInv
<1>6. Prefix(n)'
  BY <1>1, <1>4 DEF Prefix
<1>7. 1..(ph' - 1) = {}
  BY <1>1
<1>8. Loading'
  <2>1. \A la \in ProgramCells : ImageSoFar(la)'
    BY <1>1, <1>7 DEF ImageInv, ImageSoFar
  <2>2. ph' \in 1..(Len(program'.segs) + 1)
    BY <1>1, <1>5
  <2> QED BY <1>1, <1>4, <1>6, <1>7, <2>1, <2>2 DEF Loading, ProgramCells
<1> QED BY <1>1, <1>8 DEF ImageInv

-----------------------------------------------------------------------------
(* load_code puts one segment after the other over what is there. *)

LEMMA SegmentIs ==
  ASSUME TrapInv, NEW i \in 1..Len(program.segs)
  PROVE  program.segs[i] \in [type : Nat, va : Nat, memsz : Nat, filesz : Nat, offset : Nat]
<1> DEFINE Segment == [type : Nat, va : Nat, memsz : Nat, filesz : Nat, offset : Nat]
<1>1. program.segs \in Seq(Segment)
  BY ProgramLoaderAssumption DEF TrapInv
<1> HIDE DEF Segment
<1>2. program.segs[i] \in Segment
  BY <1>1
<1> QED BY <1>2 DEF Segment

\* A segment that loads without a fault is where it is asked to be.
LEMMA SegmentImage ==
  ASSUME DOMAIN ram = 0..(3 * PTSIZE - 1),
         NEW s \in [type : Nat, va : Nat, memsz : Nat, filesz : Nat, offset : Nat],
         Loads(s), ~OutsideRegion(s), ~SegmentFaults(s), SegmentStored(s)
  PROVE  /\ \A a \in DOMAIN ram : ram'[a] = IF Covers(s, a) THEN Image(s, a) ELSE ram[a]
         /\ Sourced(s) /\ Source(s) \in Nat
<1>1. s.va \in Nat /\ s.memsz \in Nat /\ s.filesz \in Nat /\ s.offset \in Nat
      /\ s.va >= UTEXT /\ s.va <= 3 * PTSIZE /\ s.va \in 0..(ADDRESSES - 1) /\ PTSIZE \in Nat
  <2>1. USTACKTOP <= 3 * PTSIZE
    <3>1. PGSIZE \in Nat /\ PTSIZE \in Nat
      BY Sizes
    <3> QED BY <3>1 DEF USTACKTOP, UTOP, UTEXT
  <2> QED BY <2>1, Sizes DEF OutsideRegion
<1>2. Source(s) \in 0..(ADDRESSES - 1)
  <2>1. binary_to_load \in Nat
    BY ProgramLoaderAssumption
  <2>2. ADDRESSES \in Nat \ {0}
    BY Sizes
  <2>3. binary_to_load + s.offset \in Nat
    BY <1>1, <2>1
  <2> QED BY <2>2, <2>3, Remainder DEF Source
<1>3. /\ Cleared(s) \in 0..s.memsz /\ s.va + Cleared(s) <= 3 * PTSIZE
      /\ Writable(s) \in 0..s.filesz /\ s.va + Writable(s) <= 3 * PTSIZE
      /\ Readable(s) \in 0..s.filesz
      /\ Readable(s) > 0 => Source(s) + Readable(s) <= 3 * PTSIZE
  <2>1. /\ Cleared(s) \in 0..s.memsz /\ s.va + Cleared(s) <= 3 * PTSIZE
        /\ Writable(s) \in 0..s.filesz /\ s.va + Writable(s) <= 3 * PTSIZE
    BY <1>1, Reached DEF Cleared, Writable
  <2>2. /\ Readable(s) \in 0..s.filesz
        /\ Source(s) <= 3 * PTSIZE => Source(s) + Readable(s) <= 3 * PTSIZE
        /\ Readable(s) > 0 => Source(s) < 3 * PTSIZE
    BY <1>1, <1>2, Reached DEF Readable
  <2>3. Source(s) < 3 * PTSIZE => Source(s) <= 3 * PTSIZE
    BY <1>1, <1>2, Sizes
  <2> QED BY <2>1, <2>2, <2>3
<1>4. Cleared(s) = s.memsz /\ Copied(s) = s.filesz
  BY <1>1, <1>3 DEF SegmentFaults, Copied
<1>5. Writable(s) = s.filesz /\ Readable(s) = s.filesz
  BY <1>1, <1>3, <1>4 DEF Copied
<1> DEFINE touched == IF Copied(s) > Cleared(s) THEN Copied(s) ELSE Cleared(s)
           bytes == [i \in 0..(touched - 1) |->
                      IF i < Copied(s) THEN ram[PhysAddr(Source(s) + i)] ELSE Zero]
<1>6. /\ touched \in Nat /\ s.va + touched <= 3 * PTSIZE
      /\ touched = IF s.filesz > s.memsz THEN s.filesz ELSE s.memsz
  BY <1>1, <1>3, <1>4, <1>5
<1>7. ram' = Stored(s.va, bytes) /\ DOMAIN bytes = 0..(touched - 1)
  BY DEF SegmentStored
<1>8. ASSUME NEW n \in 0..(s.filesz - 1)
      PROVE  Source(s) + n \in Nat /\ Source(s) + n < 3 * PTSIZE
  BY <1>1, <1>2, <1>3, <1>5, Sizes
<1>9. ASSUME NEW i \in 0..(touched - 1)
      PROVE  bytes[i] = IF i < s.filesz THEN ram[Source(s) + i] ELSE Zero
  <2>1. bytes[i] = IF i < s.filesz THEN ram[PhysAddr(Source(s) + i)] ELSE Zero
    BY <1>4
  <2>2. i < s.filesz => PhysAddr(Source(s) + i) = Source(s) + i
    <3>1. i < s.filesz => i \in 0..(s.filesz - 1)
      BY <1>1, <1>6
    <3> QED BY <3>1, <1>8, Identity
  <2> QED BY <2>1, <2>2
<1> HIDE DEF touched, bytes
<1>10. \A a \in DOMAIN ram :
         ram'[a] = IF s.va <= a /\ a < s.va + touched THEN bytes[a - s.va] ELSE ram[a]
  <2>1. \A a \in DOMAIN ram :
          Stored(s.va, bytes)[a] =
            IF s.va <= a /\ a < s.va + touched THEN bytes[a - s.va] ELSE ram[a]
    <3> DEFINE va == s.va
    <3>1. /\ va \in Nat /\ touched \in Nat /\ va + touched <= 3 * PTSIZE
          /\ DOMAIN bytes = 0..(touched - 1)
      BY <1>1, <1>6, <1>7
    <3> HIDE DEF va
    <3>2. \A a \in DOMAIN ram :
            Stored(va, bytes)[a] =
              IF va <= a /\ a < va + touched THEN bytes[a - va] ELSE ram[a]
      BY <3>1, StoresAt
    <3> QED BY <3>2 DEF va
  <2> QED BY <1>7, <2>1
<1>11. ASSUME NEW a \in DOMAIN ram
       PROVE  ram'[a] = IF Covers(s, a) THEN Image(s, a) ELSE ram[a]
  <2>1. a \in Nat
    BY <1>1
  <2>2. Covers(s, a) <=> s.va <= a /\ a < s.va + touched
    BY <1>1, <1>6, <2>1 DEF Covers, Loads
  <2>3. CASE Covers(s, a)
    <3>1. a - s.va \in 0..(touched - 1)
      BY <1>1, <1>6, <2>1, <2>2, <2>3
    <3>2. bytes[a - s.va] = Image(s, a)
      BY <1>9, <3>1 DEF Image
    <3> QED BY <1>10, <2>2, <2>3, <3>2
  <2>4. CASE ~Covers(s, a)
    BY <1>10, <2>2, <2>4
  <2> QED BY <2>3, <2>4
<1> QED BY <1>2, <1>8, <1>11 DEF Sourced

LEMMA NextHeaderKeepsImageInv ==
  ASSUME TrapInv, ImageInv, NextHeader
  PROVE  ImageInv'
<1>1. /\ pc = "load" /\ ~LoadedAll /\ ~Loads(program.segs[ph])
      /\ ph' = ph + 1 /\ UNCHANGED <<pc, ram, disk, program>>
  BY DEF NextHeader, machine
<1>2. Loading
  BY <1>1 DEF ImageInv
<1>3. Len(program.segs) \in Nat
  BY ProgramLoaderAssumption DEF TrapInv
<1>4. ph \in 1..Len(program.segs) /\ 1..(ph' - 1) = 1..(ph - 1) \cup {ph}
  BY <1>1, <1>2, <1>3 DEF Loading, LoadedAll
<1>5. \A la : ~Covers(program.segs[ph], la)
  BY <1>1 DEF Covers, Loads
<1>6. ASSUME NEW la \in ProgramCells PROVE ImageSoFar(la)'
  <2>1. ImageSoFar(la)
    BY <1>2 DEF Loading
  <2> QED BY <1>1, <1>4, <1>5, <2>1 DEF ImageSoFar, Image
<1>7. \A i \in 1..(ph' - 1) : Sourced(program.segs[i])
  BY <1>1, <1>2, <1>4 DEF Loading, Sourced
<1>8. ph' \in 1..(Len(program'.segs) + 1)
  BY <1>1, <1>3, <1>4
<1>9. \E n \in 0..MAX_RW : (n = MAX_RW \/ disk'.faults > 0) /\ Prefix(n)'
  BY <1>1, <1>2 DEF Loading, Prefix
<1>10. Loading'
  BY <1>1, <1>6, <1>7, <1>8, <1>9 DEF Loading, ProgramCells
<1> QED BY <1>1, <1>10 DEF ImageInv

LEMMA LoadSegmentKeepsImageInv ==
  ASSUME TrapInv, MemoryInv, BootInv, ImageInv, LoadSegment,
         \A p \in Programs : Apart(p)
  PROVE  ImageInv'
<1> DEFINE s == program.segs[ph]
<1>1. /\ pc = "load" /\ ~LoadedAll /\ Loads(s) /\ ~OutsideRegion(s) /\ ~SegmentFaults(s)
      /\ SegmentStored(s) /\ ph' = ph + 1 /\ UNCHANGED <<pc, disk, kernel, program>>
  BY DEF LoadSegment
<1>2. Loading /\ DOMAIN ram = 0..(3 * PTSIZE - 1) /\ kernel \in KernelImages
      /\ program \in Programs
  BY <1>1 DEF ImageInv, BootInv, TrapInv
<1>3. Len(program.segs) \in Nat /\ DOMAIN program.segs = 1..Len(program.segs)
  BY ProgramLoaderAssumption DEF TrapInv
<1>4. ph \in 1..Len(program.segs) /\ 1..(ph' - 1) = 1..(ph - 1) \cup {ph}
      /\ 1..(ph - 1) \subseteq 1..Len(program.segs)
  BY <1>1, <1>2, <1>3 DEF Loading, LoadedAll
<1>5. /\ \A a \in DOMAIN ram : ram'[a] = IF Covers(s, a) THEN Image(s, a) ELSE ram[a]
      /\ Sourced(s)
  BY <1>1, <1>2, <1>4, SegmentIs, SegmentImage
<1>6. ASSUME NEW i \in 1..ph, Sourced(program.segs[i]), NEW la \in ProgramCells,
             Covers(program.segs[i], la)
      PROVE  Image(program.segs[i], la)' = Image(program.segs[i], la)
  <2> DEFINE t == program.segs[i]
  <2>1. i \in 1..Len(program.segs) /\ t \in [type : Nat, va : Nat, memsz : Nat, filesz : Nat, offset : Nat]
    BY <1>3, <1>4, SegmentIs
  <2>2. la \in Nat /\ la >= t.va /\ Loads(t) /\ t' = t
    BY <1>1, <1>6, <2>1, Sizes DEF ProgramCells, Covers, Loads
  <2>3. CASE la - t.va < t.filesz
    <3>1. la - t.va \in 0..(t.filesz - 1)
      BY <2>1, <2>2, <2>3
    <3>2. Source(t) \in Nat /\ Source(t) + (la - t.va) < 3 * PTSIZE
      <4>1. t.offset \in Nat /\ binary_to_load \in Nat
        BY <2>1, ProgramLoaderAssumption
      <4>2. Source(t) \in Nat
        BY <4>1, Sizes DEF Source
      <4> QED BY <1>6, <2>2, <3>1, <4>2 DEF Sourced
    <3>3. ~Covers(s, Source(t) + (la - t.va))
      BY <1>2, <1>3, <1>4, <2>1, <2>2, <3>1 DEF Apart
    <3>4. Source(t) + (la - t.va) \in DOMAIN ram
      <4>1. la - t.va \in Nat
        BY <2>1, <2>2
      <4> HIDE DEF t
      <4>2. Source(t) + (la - t.va) \in Nat
        BY <3>2, <4>1
      <4> QED BY <1>2, <3>2, <4>2, Sizes
    <3>5. ram'[Source(t) + (la - t.va)] = ram[Source(t) + (la - t.va)]
      BY <1>5, <3>3, <3>4
    <3> QED BY <2>2, <2>3, <3>5 DEF Image, Source
  <2>4. CASE ~(la - t.va < t.filesz)
    BY <2>2, <2>4 DEF Image
  <2> QED BY <2>3, <2>4
<1>7. ASSUME NEW i \in 1..(ph' - 1) PROVE Sourced(program.segs[i]) /\ i \in 1..ph
  BY <1>2, <1>4, <1>5 DEF Loading
<1>8. ASSUME NEW la \in ProgramCells PROVE ImageSoFar(la)'
  <2>1. ImageSoFar(la) /\ la \in DOMAIN ram
    BY <1>2, Sizes DEF Loading, ProgramCells
  <2>2. CASE Covers(s, la)
    <3>1. PICK k \in 1..ph : k = ph
      BY <1>4
    <3>2. Image(program.segs[k], la)' = Image(program.segs[k], la)
      BY <1>5, <1>6, <2>2, <3>1
    <3>3. ram'[la] = Image(program.segs[k], la)'
      BY <1>5, <2>1, <2>2, <3>1, <3>2
    <3>4. k \in 1..(ph' - 1) /\ \A j \in 1..(ph' - 1) : ~(j > k)
      BY <1>1, <1>4, <3>1
    <3>5. Covers(program'.segs[k], la)
      BY <1>1, <2>2, <3>1
    <3> QED BY <3>3, <3>4, <3>5 DEF ImageSoFar
  <2>3. CASE ~Covers(s, la)
    <3>1. ram'[la] = ram[la]
      BY <1>5, <2>1, <2>3
    <3>2. CASE ram[la] = Garbage /\ \A i \in 1..(ph - 1) : ~Covers(program.segs[i], la)
      BY <1>1, <1>4, <2>3, <3>1, <3>2 DEF ImageSoFar
    <3>3. CASE \E i \in 1..(ph - 1) :
                 /\ Covers(program.segs[i], la)
                 /\ \A j \in 1..(ph - 1) : j > i => ~Covers(program.segs[j], la)
                 /\ ram[la] = Image(program.segs[i], la)
      <4>1. PICK i \in 1..(ph - 1) :
               /\ Covers(program.segs[i], la)
               /\ \A j \in 1..(ph - 1) : j > i => ~Covers(program.segs[j], la)
               /\ ram[la] = Image(program.segs[i], la)
        BY <3>3
      <4>2. i \in 1..(ph' - 1)
        BY <1>4
      <4>3. Image(program.segs[i], la)' = Image(program.segs[i], la)
        BY <1>6, <1>7, <4>1, <4>2
      <4>4. \A j \in 1..(ph' - 1) : j > i => ~Covers(program.segs[j], la)
        BY <1>4, <2>3, <4>1
      <4> QED BY <1>1, <3>1, <4>1, <4>2, <4>3, <4>4 DEF ImageSoFar
    <3> QED BY <2>1, <3>2, <3>3 DEF ImageSoFar
  <2> QED BY <2>2, <2>3
<1>9. \E n \in 0..MAX_RW : (n = MAX_RW \/ disk'.faults > 0) /\ Prefix(n)'
  <2>1. PICK n \in 0..MAX_RW : (n = MAX_RW \/ disk.faults > 0) /\ Prefix(n)
    BY <1>2 DEF Loading
  <2>2. \A a \in 0..(UTEXT - 1) : ram'[a] = ram[a]
    BY <1>1, SegmentAbove
  <2>3. Prefix(n)'
    BY <1>2, <2>1, <2>2, BufferBelow DEF Prefix
  <2> QED BY <1>1, <2>1, <2>3
<1>10. ph' \in 1..(Len(program'.segs) + 1)
  BY <1>1, <1>3, <1>4
<1>11. Loading'
  BY <1>1, <1>7, <1>8, <1>9, <1>10 DEF Loading, ProgramCells, Sourced
<1> QED BY <1>1, <1>11 DEF ImageInv

-----------------------------------------------------------------------------

LEMMA AnswerKeepsImageInv ==
  ASSUME BootInv, ImageInv, DiskDelivers \/ DiskFails, UNCHANGED <<bootvars, loadvars>>
  PROVE  ImageInv'
<1>1. /\ UNCHANGED <<pc, ram, kernel, program, seg, pa, nsecs, dst, ph>>
      /\ disk.status = "busy"
  BY DEF DiskDelivers, DiskFails, bootvars, loadvars
<1>2. /\ disk'.sec = disk.sec /\ disk'.left = disk.left /\ disk'.status # "ready"
      /\ disk.faults > 0 => disk'.faults > 0
  <2>1. CASE DiskDelivers
    BY <2>1 DEF DiskDelivers, BootInv, DiskInv
  <2>2. CASE DiskFails
    <3>1. disk' = [disk EXCEPT !.status = "error", !.faults = @ + 1]
      BY <2>2 DEF DiskFails
    <3> DEFINE Status == {"busy", "data", "error", "ready"}
    <3>2. disk \in [status : Status, sec : Nat, left : Int, faults : Nat]
      BY DEF BootInv, DiskInv
    <3> HIDE DEF Status
    <3>3. /\ disk'.sec = disk.sec /\ disk'.left = disk.left /\ disk'.status = "error"
          /\ disk'.faults = disk.faults + 1 /\ disk.faults \in Nat
      BY <3>1, <3>2
    <3> QED BY <3>3
  <2> QED BY <2>1, <2>2
<1>3. Prefix(0) => Prefix(0)'
  BY <1>1 DEF Prefix
<1>4. ReadingProgram => ReadingProgram'
  BY <1>1, <1>2 DEF ReadingProgram, Prefix
<1>5. ASSUME Loading PROVE Loading'
  <2>1. \E n \in 0..MAX_RW : (n = MAX_RW \/ disk'.faults > 0) /\ Prefix(n)'
    BY <1>1, <1>2, <1>5 DEF Loading, Prefix
  <2>2. \A la \in ProgramCells : ImageSoFar(la)'
    BY <1>1, <1>5 DEF Loading, ImageSoFar, Image
  <2> QED BY <1>1, <1>5, <2>1, <2>2 DEF Loading, ProgramCells
<1>6. (pa < End)' = (pa < End)
  BY <1>1 DEF End, Segments
<1> QED BY <1>1, <1>3, <1>4, <1>5, <1>6 DEF ImageInv, ProgramCells

LEMMA LoaderKeepsImageInv ==
  ASSUME TrapInv, MemoryInv, BootInv, ImageInv, LoaderStep,
         \A p \in Programs : Apart(p)
  PROVE  ImageInv'
<1> DEFINE Loader == {"readsect", "insl", "i386_init", "ide_read", "ide_data", "load"}
<1>1. ASSUME pc' \notin Loader PROVE ImageInv'
  BY <1>1 DEF ImageInv
<1>2. CASE NotElf \/ RejectSegment \/ SegmentFault \/ EnterProgram
  <2>1. pc' \in {"panic", "trap", "user"}
    BY <1>2 DEF NotElf, RejectSegment, SegmentFault, EnterProgram, TakeTrap, RunTrapframe, Goto
  <2> QED BY <1>1, <2>1
<1> QED BY <1>2, Init386KeepsImageInv, IdeReadCommandKeepsImageInv, IdeReadSectorKeepsImageInv,
           IdeReadReturnsKeepsImageInv, NextHeaderKeepsImageInv, LoadSegmentKeepsImageInv
           DEF LoaderStep

LEMMA NextImageInv ==
  ASSUME \A p \in Programs : Apart(p)
  PROVE  TrapInv /\ MemoryInv /\ BootInv /\ ImageInv /\ [Next]_vars => ImageInv'
<1> SUFFICES ASSUME TrapInv, MemoryInv, BootInv, ImageInv, [Next]_vars PROVE ImageInv'
  OBVIOUS
<1>1. ASSUME pc' \in {"panic", "dispatch", "run", "cputs", "trap", "off", "user", "panicking"}
      PROVE  ImageInv'
  BY <1>1 DEF ImageInv
<1>2. CASE BootStep
  BY <1>2, BootKeepsImageInv
<1>3. CASE LoaderStep
  BY <1>3, LoaderKeepsImageInv
<1>4. CASE TrapStep
  <2>1. pc' \in {"panic", "dispatch", "run", "cputs", "trap", "off", "user", "panicking"}
    BY <1>4 DEF TrapStep, TrapEntered, PageFaultHandler, UnhandledTrap, SysCputs, CputsChar,
                CputsConversion, CputsArgument, CputsFault, machine, SysEnvDestroy, SysTest, UnknownCall, ReturnToProgram, Panic,
                Shutdown, Goto, Returning, TakeTrap, RunTrapframe
  <2> QED BY <1>1, <2>1
<1>5. CASE (DiskDelivers \/ DiskFails) /\ UNCHANGED <<bootvars, trapvars, loadvars>>
  BY <1>5, AnswerKeepsImageInv
<1>6. CASE UserStep
  <2>1. pc' \in {"user", "trap"}
    BY <1>6, UserSteps DEF Write
  <2> QED BY <1>1, <2>1
<1>7. CASE Nmi
  <2>1. pc' = "trap"
    BY <1>7 DEF Nmi, TakeTrap, Goto
  <2> QED BY <1>1, <2>1
<1>8. CASE UNCHANGED vars
  <2>1. UNCHANGED <<pc, ram, disk, kernel, program, seg, pa, nsecs, dst, ph>>
    BY <1>8 DEF vars, machine, bootvars, loadvars
  <2> QED BY <2>1 DEF ImageInv, End, Segments, Prefix, ReadingProgram, Loading,
                      ImageSoFar, Image, ProgramCells
<1> QED BY <1>2, <1>3, <1>4, <1>5, <1>6, <1>7, <1>8 DEF Next, KernelStep

LEMMA InitImageInv == Init => ImageInv
<1> SUFFICES ASSUME Init PROVE ImageInv
  OBVIOUS
<1>1. /\ pc = "readsect" /\ pa = RoundDown(ELFHDR)
      /\ ram = [a \in 0..(3 * PTSIZE - 1) |-> Garbage]
  BY DEF Init, BootInit, MachineInit
<1>2. \A la \in ProgramCells : ram[la] = Garbage
  BY <1>1, Sizes DEF ProgramCells
<1> QED BY <1>1, <1>2 DEF ImageInv

LEMMA ImageIsLoaded ==
  ASSUME TrapInv, BootInv, ImageInv
  PROVE  ProgramLoaded
<1>1. CASE pc # "load"
  BY <1>1 DEF ProgramLoaded, PrefixRead
<1>2. CASE pc = "load"
  <2>1. Loading /\ kernel \in KernelImages
    BY <1>2 DEF ImageInv, BootInv
  <2>2. DOMAIN program.segs = 1..Len(program.segs) /\ Len(program.segs) \in Nat
    BY ProgramLoaderAssumption DEF TrapInv
  <2>3. PrefixRead
    <3>1. PICK n \in 0..MAX_RW : (n = MAX_RW \/ disk.faults > 0) /\ Prefix(n)
      BY <2>1 DEF Loading
    <3>2. ASSUME NEW i \in 0..(MAX_RW * SECTSIZE - 1)
          PROVE  PhysAddr(binary_to_load + i) = binary_to_load + i
      <4>1. binary_to_load + i \in 0..(UTEXT - 1)
        BY <2>1, <3>2, BufferBelow
      <4>2. binary_to_load + i \in Nat /\ binary_to_load + i < 3 * PTSIZE
        BY <4>1, Sizes
      <4> QED BY <4>2, Identity
    <3> QED BY <3>1, <3>2 DEF PrefixRead, Prefix
  <2>4. ASSUME LoadedAll, NEW la \in ProgramCells
        PROVE  ram[PhysAddr(la)] =
                 IF \E i \in DOMAIN program.segs : Covers(program.segs[i], la)
                 THEN InImage(la) ELSE Garbage
    <3>1. 1..(ph - 1) = DOMAIN program.segs
      BY <2>1, <2>2, <2>4 DEF Loading, LoadedAll
    <3>2. PhysAddr(la) = la /\ la \in Nat
      BY Identity, Sizes DEF ProgramCells
    <3>3. CASE \A i \in DOMAIN program.segs : ~Covers(program.segs[i], la)
      BY <2>1, <3>1, <3>2, <3>3 DEF Loading, ImageSoFar
    <3>4. CASE \E i \in DOMAIN program.segs : Covers(program.segs[i], la)
      <4> DEFINE Last(i) == /\ Covers(program.segs[i], la)
                            /\ \A j \in DOMAIN program.segs :
                                 j > i => ~Covers(program.segs[j], la)
      <4>1. PICK k \in DOMAIN program.segs : Last(k) /\ ram[la] = Image(program.segs[k], la)
        BY <2>1, <3>1, <3>4 DEF Loading, ImageSoFar
      <4>2. (CHOOSE i \in DOMAIN program.segs : Last(i)) = k
        <5>1. ASSUME NEW i \in DOMAIN program.segs, Last(i) PROVE i = k
          BY <2>2, <4>1, <5>1
        <5> HIDE DEF Last
        <5> QED BY <4>1, <5>1
      <4> DEFINE s == program.segs[k]
      <4>3. InImage(la) =
              IF la - s.va < s.filesz THEN ram[PhysAddr(Source(s) + la - s.va)] ELSE Zero
        <5> DEFINE last == CHOOSE i \in DOMAIN program.segs : Last(i)
                   At(i) == IF la - program.segs[i].va < program.segs[i].filesz
                            THEN ram[PhysAddr(Source(program.segs[i]) + la - program.segs[i].va)]
                            ELSE Zero
        <5>1. InImage(la) = At(last)
          BY DEF InImage
        <5> HIDE DEF last
        <5> QED BY <4>2, <5>1 DEF last
      <4>4. s \in [type : Nat, va : Nat, memsz : Nat, filesz : Nat, offset : Nat]
        BY <2>2, SegmentIs
      <4>5. Source(s) \in Nat
        <5>1. s.offset \in Nat /\ binary_to_load \in Nat
          BY <4>4, ProgramLoaderAssumption
        <5> QED BY <5>1, Sizes DEF Source
      <4>6. CASE la - s.va < s.filesz
        <5>1. la - s.va \in 0..(s.filesz - 1) /\ Loads(s)
          BY <3>2, <4>1, <4>4, <4>6 DEF Covers, Loads
        <5>2. Source(s) + (la - s.va) < 3 * PTSIZE
          BY <2>1, <3>1, <5>1 DEF Loading, Sourced
        <5>3. /\ Source(s) + (la - s.va) = Source(s) + la - s.va
              /\ Source(s) + (la - s.va) \in Nat
          BY <3>2, <4>4, <4>5, <5>1
        <5>4. PhysAddr(Source(s) + la - s.va) = Source(s) + (la - s.va)
          BY <5>2, <5>3, Identity
        <5> QED BY <3>2, <3>4, <4>1, <4>3, <4>6, <5>4 DEF Image
      <4>7. CASE ~(la - s.va < s.filesz)
        BY <3>2, <3>4, <4>1, <4>3, <4>7 DEF Image
      <4> QED BY <4>6, <4>7
    <3> QED BY <3>3, <3>4
  <2> QED BY <2>3, <2>4 DEF ProgramLoaded, ProgramCells
<1> QED BY <1>1, <1>2

\* Whatever a program's headers say, however many of its sectors the disk has
\* delivered and however its segments overlap: as long as none is loaded over what
\* one is read from, memory holds the last segment that covers an address, zeros
\* where it has no file part, and nothing else; the buffer holds the sectors that
\* came, and zeros (init.c:39, :76-92, ide.c:46-50).
THEOREM ProgramIsLoaded ==
  ASSUME \A p \in Programs : Apart(p)
  PROVE  Spec => []ProgramLoaded
<1>1. TrapInv /\ MemoryInv /\ BootInv /\ ImageInv /\ [Next]_vars => ImageInv'
  BY NextImageInv
<1>2. TrapInv /\ MemoryInv /\ BootInv /\ [Next]_vars => BootInv'
  BY NextBootInv
<1>3. TrapInv /\ BootInv /\ ImageInv => ProgramLoaded
  BY ImageIsLoaded
<1> QED BY <1>1, <1>2, <1>3, InitBootInv, InitImageInv, TrapInvariant, MemoryInvariant, PTL
        DEF Spec
=============================================================================
