---------------------------- MODULE ProgramLoader ----------------------------
(***************************************************************************)
(* kern/init.c and kern/ide.c: i386_init clears the kernel's BSS, reads    *)
(* the program's file into a buffer there, and load_code copies the        *)
(* segments to where they belong.  The program is then entered.            *)
(***************************************************************************)
EXTENDS Trap, BootLoader

CONSTANTS
  MAX_RW,           \* sectors of the buffer: 255
  binary_to_load    \* the address of the buffer

VARIABLES
  nsecs,    \* in ide_read: sectors still to read
  dst,      \* in ide_read: where the next one goes
  ph        \* in load_code: the next program header

loadvars == <<nsecs, dst, ph>>

Buffer == binary_to_load..(binary_to_load + MAX_RW * SECTSIZE - 1)

ASSUME ProgramLoaderAssumption ==
  /\ MAX_RW \in 1..256 /\ binary_to_load \in Nat
  /\ \A p \in Programs :
       /\ p.entry \in Nat
       /\ p.segs \in Seq([type : Nat, va : Nat, memsz : Nat, filesz : Nat, offset : Nat])
  /\ \A k \in KernelImages : Buffer \subseteq BssPart(k[Len(k)])

\* Memory after the bytes are written to address la and those that follow it.
Stored(la, bytes) ==
  [a \in DOMAIN ram |->
     IF \E i \in DOMAIN bytes : PhysAddr(la + i) = a
     THEN bytes[CHOOSE i \in DOMAIN bytes : PhysAddr(la + i) = a]
     ELSE ram[a]]

\* i386_init up to ide_read, in a kernel that is whole.  The BSS is in the last
\* segment of the kernel.
Init386 ==
  /\ pc = "i386_init"
  /\ Holes = {}
  /\ LET bss == BssPart(kernel[Len(kernel)])
     IN  ram' = [a \in DOMAIN ram |-> IF a \in bss THEN Zero ELSE ram[a]]
  /\ Goto("ide_read")
  /\ UNCHANGED <<disk, kernel, program, trapvars, loadvars>>

IdeReadCommand ==
  /\ pc = "ide_read"
  /\ DiskReady
  /\ ReadCommand(PROGRAM_SECTOR, MAX_RW)
  /\ nsecs' = MAX_RW
  /\ dst' = binary_to_load
  /\ Goto("ide_data")
  /\ UNCHANGED <<ram, kernel, program, trapvars, ph>>

IdeReadSector ==
  /\ pc = "ide_data"
  /\ DiskReady /\ disk.status # "error"
  /\ nsecs > 0
  /\ ram' = Stored(dst, [j \in 0..(SECTSIZE - 1) |-> SectorByte(j)])
  /\ SectorRead
  /\ nsecs' = nsecs - 1
  /\ dst' = dst + SECTSIZE
  /\ UNCHANGED <<pc, kernel, program, trapvars, ph>>

\* Faulty variant: ide_read waits for an error to pass.
IdeReadInsists ==
  /\ pc = "ide_data"
  /\ nsecs = 0
  /\ ph' = 1
  /\ Goto("load")
  /\ UNCHANGED <<ram, disk, kernel, program, trapvars, nsecs, dst>>

\* All is read, or an error was seen; i386_init does not look at the result.
IdeReadReturns ==
  /\ pc = "ide_data"
  /\ nsecs = 0 \/ disk.status = "error"
  /\ ph' = 1
  /\ Goto("load")
  /\ UNCHANGED <<ram, disk, kernel, program, trapvars, nsecs, dst>>

-----------------------------------------------------------------------------
(* load_code.  The headers are in the first sector of the file. *)

IsElf == program.magic /\ ram[PhysAddr(binary_to_load)] = ProgramByte(0)

LoadedAll == ph > Len(program.segs)

NotElf ==
  /\ pc = "load" /\ ph = 1
  /\ ~IsElf
  /\ Goto("panic")
  /\ UNCHANGED <<ram, disk, kernel, program, trapvars, loadvars>>

ELF_PROG_LOAD == 1

Loads(s) == s.type = ELF_PROG_LOAD

\* Faulty variant: the start of the region is not checked.
AboveRegion(s) == s.va > USTACKTOP

\* The region ends at USTACKTOP, which is accepted, and the size is not looked at.
OutsideRegion(s) == s.va < UTEXT \/ s.va > USTACKTOP

\* The headers are taken to lie in the first sector of the file, which has come
\* whole if it has come at all.
NextHeader ==
  /\ pc = "load" /\ IsElf /\ ~LoadedAll
  /\ ~Loads(program.segs[ph])
  /\ ph' = ph + 1
  /\ UNCHANGED <<machine, trapvars, nsecs, dst>>

RejectSegment ==
  /\ pc = "load" /\ IsElf /\ ~LoadedAll
  /\ Loads(program.segs[ph]) /\ OutsideRegion(program.segs[ph])
  /\ Goto("panic")
  /\ UNCHANGED <<ram, disk, kernel, program, trapvars, loadvars>>

\* How many of n bytes from la on the kernel gets at before it faults.
Reach(la, n) ==
  CHOOSE r \in 0..n :
    /\ \A i \in 0..(r - 1) : KernelMay((la + i) % ADDRESSES)
    /\ r = n \/ ~KernelMay((la + r) % ADDRESSES)

Source(s) == (binary_to_load + s.offset) % ADDRESSES
Cleared(s) == Reach(s.va, s.memsz)
Readable(s) == Reach(Source(s), s.filesz)
Writable(s) == Reach(s.va, s.filesz)
Copied(s) ==
  CASE Cleared(s) < s.memsz -> 0
    [] Readable(s) < Writable(s) -> Readable(s)
    [] OTHER -> Writable(s)

\* Faulty variant: what the file does not fill is left as it was.
SegmentStoredUncleared(s) ==
  ram' = Stored(s.va, [i \in 0..(Copied(s) - 1) |-> ram[PhysAddr(Source(s) + i)]])

\* memset of memsz bytes, then memcpy of filesz bytes, as far as they get.
SegmentStored(s) ==
  LET touched == IF Copied(s) > Cleared(s) THEN Copied(s) ELSE Cleared(s)
  IN  ram' = Stored(s.va, [i \in 0..(touched - 1) |->
                            IF i < Copied(s) THEN ram[PhysAddr(Source(s) + i)] ELSE Zero])

SegmentFaults(s) == Cleared(s) < s.memsz \/ Copied(s) < s.filesz

LoadSegment ==
  /\ pc = "load" /\ IsElf /\ ~LoadedAll
  /\ LET s == program.segs[ph] IN
       /\ Loads(s) /\ ~OutsideRegion(s) /\ ~SegmentFaults(s)
       /\ SegmentStored(s)
  /\ ph' = ph + 1
  /\ UNCHANGED <<pc, disk, kernel, program, trapvars, nsecs, dst>>

\* A page that is not there stops the kernel in the middle of a segment.
SegmentFault ==
  /\ pc = "load" /\ IsElf /\ ~LoadedAll
  /\ LET s == program.segs[ph]
         reads == Cleared(s) = s.memsz /\ Readable(s) < Writable(s)
         at == CASE Cleared(s) < s.memsz -> s.va + Cleared(s)
                 [] reads -> Source(s) + Copied(s)
                 [] OTHER -> s.va + Copied(s)
     IN  /\ Loads(s) /\ ~OutsideRegion(s) /\ SegmentFaults(s)
         /\ SegmentStored(s)
         /\ TakeTrap(cpu, T_PGFLT, FaultCode(at % ADDRESSES, ~reads, FALSE))
  /\ UNCHANGED <<disk, kernel, program, str, panicstr, nmi, messages, loadvars>>

\* Faulty variant: the program starts with interrupts on.
NewTrapframeWithInterrupts(entry) ==
  [regs |-> [eax |-> 0, edx |-> 0, ecx |-> 0], es |-> GD_UD + 3, ds |-> GD_UD + 3,
   eip |-> entry, cs |-> GD_UT + 3, eflags |-> FL_IF, esp |-> USTACKTOP, ss |-> GD_UD + 3]

\* initialize_new_trapframe of nTrap, which was cleared with the BSS.
NewTrapframe(entry) ==
  [regs |-> [eax |-> 0, edx |-> 0, ecx |-> 0], es |-> GD_UD + 3, ds |-> GD_UD + 3,
   eip |-> entry, cs |-> GD_UT + 3, eflags |-> 0, esp |-> USTACKTOP, ss |-> GD_UD + 3]

EnterProgram ==
  /\ pc = "load" /\ IsElf /\ LoadedAll
  /\ RunTrapframe(NewTrapframe(program.entry))
  /\ UNCHANGED <<ram, disk, kernel, program, tf, str, panicstr, nmi, raised, messages, loadvars>>

LoaderStep ==
  \/ Init386 \/ IdeReadCommand \/ IdeReadSector \/ IdeReadReturns
  \/ NotElf \/ NextHeader \/ RejectSegment \/ LoadSegment \/ SegmentFault
  \/ EnterProgram

LoaderInit == nsecs = 0 /\ dst = 0 /\ ph = 0
=============================================================================
