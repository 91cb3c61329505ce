-------------------------------- MODULE MCJOS --------------------------------
(* Files and programs for TLC: tables of 8 pages of 2 bytes. *)
EXTENDS UserPrograms

KernelSegment(a, m, f, o) == [pa |-> a, memsz |-> m, filesz |-> f, offset |-> o]
Segment(t, v, m, f, o) == [type |-> t, va |-> v, memsz |-> m, filesz |-> f, offset |-> o]
File(m, s) == [magic |-> m, entry |-> 33, segs |-> s]

\* Two segments that begin in the middle of a sector; the second has the BSS.
MCKernelImages == {<<KernelSegment(17, 3, 3, 7), KernelSegment(21, 11, 3, 11)>>}

MCPrograms ==
  {File(TRUE, <<Segment(1, 33, 3, 2, 2), Segment(6, 36, 2, 2, 0), Segment(1, 35, 3, 1, 4)>>),
   File(FALSE, <<>>),                          \* not an ELF file
   File(TRUE, <<Segment(1, 20, 2, 2, 2)>>),    \* in the kernel's memory
   File(TRUE, <<Segment(1, 34, 1, 1, 2), Segment(1, 41, 1, 1, 2)>>),    \* above the stack
   File(TRUE, <<Segment(1, 40, 10, 2, 2)>>),   \* over the end of the program's memory
   File(TRUE, <<Segment(1, 36, 1, 3, 5)>>),    \* a file longer than the buffer
   File(TRUE, <<Segment(1, 40, 2, 10, 2)>>),   \* more in the file than in memory
   File(TRUE, <<Segment(1, 36, 4, 4, 20)>>)}   \* an offset beyond all memory

ASSUME MCProgramsApart == \A p \in MCPrograms : Apart(p)

MCContexts ==
  {[eip |-> 33, esp |-> USTACKTOP, eflags |-> 2, ds |-> GD_UD + 3, es |-> GD_UD + 3],
   [eip |-> 35, esp |-> USTACKTOP - 3, eflags |-> FL_DF + 3, ds |-> 0, es |-> GD_UT + 3]}

MCAddresses == {faultread, faultreadkernel, faultwrite, faultwritekernel, test4, bigarray}

\* The calls of user/, a string at the end of the region, a length that wraps,
\* and a call that there is not.
MCArguments ==
  {goodhello, buggyhello, buggyhello2, evilhello, test1, test2, test5,
   <<SYS_cputs, USTACKTOP - 1, 1>>, <<SYS_cputs, hello, ADDRESSES - 2>>, <<7, 0, 0>>}
=============================================================================
