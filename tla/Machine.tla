------------------------------ MODULE Machine ------------------------------
(***************************************************************************)
(* What the boot loader and the kernel run on: memory, and one IDE disk    *)
(* with its controller (external).  The disk holds the boot loader in      *)
(* sector 0, the file of the kernel from sector 1 and the file of the user *)
(* program from sector PROGRAM_SECTOR.  A byte of memory is known by where *)
(* it came from: <<file, position>>.                                       *)
(***************************************************************************)
EXTENDS PageTables, Sequences

CONSTANTS
  SECTSIZE,         \* bytes of a sector: 512
  PROGRAM_SECTOR,   \* where i386_init looks for the program: 2000
  KernelImages,     \* ELF files the kernel may be linked to: sequences of
                    \* [pa, memsz, filesz, offset], one for each segment
  Programs,         \* ELF files the disk may hold as the program
  DISKFAULTS        \* bound: how often the disk reports an error

ASSUME MachineAssumption ==
  /\ SECTSIZE \in Nat \ {0}
  /\ PROGRAM_SECTOR \in Nat /\ PROGRAM_SECTOR > 1   \* sector 1 is the kernel's
  /\ DISKFAULTS \in Nat

VARIABLES
  pc,       \* what the processor is executing
  ram,      \* physical memory
  disk,     \* the controller: status, current sector, sectors left to deliver
  kernel,   \* the file in sector 1
  program   \* the file in sector PROGRAM_SECTOR

machine == <<pc, ram, disk, kernel, program>>

Goto(label) == pc' = label

KernelByte(n) == <<"kernel", n>>
ProgramByte(n) == <<"program", n>>
Zero == <<"zero", 0>>
Garbage == <<"garbage", 0>>
UserData == <<"user", 0>>

DiskByte(sec, j) ==
  IF sec < PROGRAM_SECTOR THEN KernelByte((sec - 1) * SECTSIZE + j)
  ELSE ProgramByte((sec - PROGRAM_SECTOR) * SECTSIZE + j)

-----------------------------------------------------------------------------
(* The controller. *)

\* The sector count register has 8 bits, and 0 stands for 256.
SectorCount(n) == IF n % 256 = 0 THEN 256 ELSE n % 256

\* outb of count, sector and command 0x20.
ReadCommand(sec, n) ==
  disk' = [disk EXCEPT !.status = "busy", !.sec = sec, !.left = SectorCount(n)]

\* The next sector is in the controller's buffer.
DiskDelivers ==
  /\ disk.status = "busy"
  /\ disk' = [disk EXCEPT !.status = "data"]
  /\ UNCHANGED <<pc, ram, kernel, program>>

DiskFails ==
  /\ disk.status = "busy"
  /\ disk.faults < DISKFAULTS
  /\ disk' = [disk EXCEPT !.status = "error", !.faults = @ + 1]
  /\ UNCHANGED <<pc, ram, kernel, program>>

\* BSY is clear and DRDY set; an error does not change that.
DiskReady == disk.status # "busy"

\* insl of a sector: what it reads, and what it does to the controller.
SectorByte(j) == IF disk.status = "data" THEN DiskByte(disk.sec, j) ELSE Garbage

SectorRead ==
  disk' = IF disk.status # "data" THEN disk
          ELSE [disk EXCEPT !.sec = @ + 1, !.left = @ - 1,
                            !.status = IF disk.left > 1 THEN "busy" ELSE "ready"]

MachineInit ==
  /\ pc = "readsect"
  /\ ram = [a \in 0..(3 * PTSIZE - 1) |-> Garbage]
  /\ disk = [status |-> "ready", sec |-> 0, left |-> 0, faults |-> 0]
  /\ kernel \in KernelImages
  /\ program \in Programs
=============================================================================
