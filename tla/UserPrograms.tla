---------------------------- MODULE UserPrograms ----------------------------
(***************************************************************************)
(* What the programs of user/ hand to the processor and to the kernel, on  *)
(* a map of any scale.  cprintf and exit of the user library (external)    *)
(* end in the system calls cputs and env_destroy.                          *)
(***************************************************************************)
EXTENDS JOS

\* 0xB8000, which testers look for in the kernel's memory, and 0xF0100000,
\* where other kernels are.
VIDEO_MEMORY == (23 * PTSIZE) \div 128
HighKernel == 15 * (ADDRESSES \div 16)

\* Addresses that are read or written.
faultread == 0
faultreadkernel == HighKernel
faultwrite == 0
faultwritekernel == HighKernel
test4 == VIDEO_MEMORY
bigarray == UTEXT + PGSIZE

\* System calls.
hello == UTEXT + PGSIZE
goodhello == <<SYS_cputs, hello, 1>>
buggyhello == <<SYS_cputs, 1, 1>>
buggyhello2 == <<SYS_cputs, hello, PTSIZE \div 4>>
evilhello == <<SYS_cputs, HighKernel, 1>>
test1 == <<SYS_env_destroy, 0, 0>>
test2 == <<SYS_test, 0, 0>>
test5 == <<SYS_cputs, VIDEO_MEMORY, 1>>
=============================================================================
