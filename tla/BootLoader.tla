----------------------------- MODULE BootLoader -----------------------------
(***************************************************************************)
(* boot/main.c: bootmain reads the first page of the kernel's file, then   *)
(* every segment to its physical address, sector by sector, and jumps to   *)
(* the kernel.  Paging is still off.                                       *)
(***************************************************************************)
EXTENDS Machine, FiniteSets

CONSTANTS
  ELFHDR,       \* where the first page of the file goes: 0x10000
  ELFHDR_SIZE   \* bytes read to it: 8 sectors

VARIABLES
  seg,      \* the call of readseg: 1 for the page with the header, then the
            \* segments of the kernel
  pa,       \* in readseg: the next address
  offset    \* in readseg: the next sector

bootvars == <<seg, pa, offset>>

\* Where a kernel segment puts its bytes, those in the file and those after.
FilePart(s) == s.pa..(s.pa + s.filesz - 1)
BssPart(s) == (s.pa + s.filesz)..(s.pa + s.memsz - 1)

KernelFileCells == UNION {FilePart(kernel[i]) : i \in 1..Len(kernel)}
KernelBssCells == UNION {BssPart(kernel[i]) : i \in 1..Len(kernel)}

RoundDown(a) == a - (a % SECTSIZE)

Segments ==
  <<[pa |-> ELFHDR, memsz |-> ELFHDR_SIZE, filesz |-> ELFHDR_SIZE, offset |-> 0]>>
    \o kernel

\* Faulty variant: the address is not rounded down to a sector.
ReadsegUnrounded(i, s) ==
  /\ seg' = i
  /\ pa' = s.pa
  /\ offset' = s.offset \div SECTSIZE + 1

\* The arguments of readseg, rounded: addresses to a sector, and the offset
\* from bytes to sectors, of which the kernel's first is number 1.
Readseg(i, s) ==
  /\ seg' = i
  /\ pa' = RoundDown(s.pa)
  /\ offset' = s.offset \div SECTSIZE + 1

BootInit ==
  /\ MachineInit
  /\ seg = 1
  /\ pa = RoundDown(ELFHDR)
  /\ offset = 1

End == Segments[seg].pa + Segments[seg].memsz

\* readsect waits for the disk and asks it for one sector ...
ReadsectCommand ==
  /\ pc = "readsect"
  /\ pa < End
  /\ DiskReady
  /\ ReadCommand(offset, 1)
  /\ Goto("insl")
  /\ UNCHANGED <<ram, kernel, program, bootvars>>

\* ... waits again, without looking for an error, and copies it.
ReadsectData ==
  /\ pc = "insl"
  /\ DiskReady
  /\ ram' = [a \in DOMAIN ram |->
               IF a \in pa..(pa + SECTSIZE - 1) THEN SectorByte(a - pa) ELSE ram[a]]
  /\ SectorRead
  /\ pa' = pa + SECTSIZE
  /\ offset' = offset + 1
  /\ Goto("readsect")
  /\ UNCHANGED <<seg, kernel, program>>

\* The page with the header is there: is it an ELF file?  If not, bootmain
\* returns to boot.S, which spins.  What was in memory before the page was read
\* may pass for a header; nobody knows where that leads.  The program headers
\* are taken to lie in the sector of the ELF header, where the linker puts them.
BadMagic ==
  /\ pc = "readsect" /\ pa >= End
  /\ seg = 1
  /\ ram[ELFHDR] # KernelByte(0)
  /\ Goto("spin") \/ (ram[ELFHDR] = Garbage /\ Goto("lost"))
  /\ UNCHANGED <<ram, disk, kernel, program, bootvars>>

ReadNextSegment ==
  /\ pc = "readsect" /\ pa >= End
  /\ seg = 1 => ram[ELFHDR] = KernelByte(0)
  /\ seg < Len(Segments)
  /\ Readseg(seg + 1, Segments[seg + 1])
  /\ UNCHANGED machine

\* The jump to the kernel, whatever has been read; entry.S turns paging on and
\* calls i386_init.
EnterKernel ==
  /\ pc = "readsect" /\ pa >= End
  /\ seg = Len(Segments)
  /\ Goto("i386_init")
  /\ UNCHANGED <<ram, disk, kernel, program, bootvars>>

\* Bytes of the kernel that an error of the disk has kept out of memory, and the
\* sectors they were in.
Holes == {a \in KernelFileCells : ram[a] = Garbage}
LostSectors == {RoundDown(a) : a \in Holes}

\* What the processor does in a kernel with a hole, nobody knows.
RunsHole ==
  /\ pc = "i386_init"
  /\ Holes # {}
  /\ Goto("lost")
  /\ UNCHANGED <<ram, disk, kernel, program, bootvars>>

BootStep ==
  \/ ReadsectCommand \/ ReadsectData
  \/ BadMagic \/ ReadNextSegment \/ EnterKernel \/ RunsHole

-----------------------------------------------------------------------------
\* What memory has to hold of the kernel: segment by segment, its part of the
\* file.
KernelAt(a) ==
  LET i == CHOOSE i \in 1..Len(kernel) : a \in FilePart(kernel[i])
  IN  KernelByte(kernel[i].offset + a - kernel[i].pa)

\* What kernel.ld has to see to, for sectors to be copied whole: address and
\* offset agree modulo a sector, and segments do not share a sector.  The file
\* ends before the program's begins.
Linked(k) ==
  /\ \A i \in DOMAIN k :
       /\ k[i].pa \div PTSIZE = 1 /\ (k[i].pa + k[i].memsz - 1) \div PTSIZE = 1
       /\ k[i].pa % SECTSIZE = k[i].offset % SECTSIZE
       /\ k[i].filesz <= k[i].memsz
       /\ k[i].offset + k[i].filesz <= (PROGRAM_SECTOR - 1) * SECTSIZE
  /\ \A i, j \in DOMAIN k : j < i => RoundDown(k[i].pa) >= k[j].pa + k[j].filesz

ASSUME BootLoaderAssumption ==
  /\ PGSIZE % SECTSIZE = 0
  /\ ELFHDR \in Nat /\ ELFHDR % SECTSIZE = 0
  /\ ELFHDR_SIZE \in Nat \ {0} /\ ELFHDR + ELFHDR_SIZE <= PTSIZE
  /\ KernelImages \subseteq Seq([pa : Nat, memsz : Nat, filesz : Nat, offset : Nat])
  /\ \A k \in KernelImages : Len(k) > 0 /\ Linked(k)
=============================================================================
