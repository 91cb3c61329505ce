----------------------------- MODULE PageTables -----------------------------
(***************************************************************************)
(* The address map of the JOS kernel (inc/memlayout.h), and the page       *)
(* tables that entry.S installs and nothing changes afterwards             *)
(* (kern/entrypgdir.c).  NPTENTRIES and PGSIZE scale the map; its          *)
(* proportions are those of the code: the kernel is in the second of       *)
(* three page tables, the program in the third.                            *)
(***************************************************************************)
EXTENDS Integers

CONSTANTS
  NPDENTRIES,  \* entries of the page directory: 1024
  NPTENTRIES,  \* entries of a page table: 1024
  PGSIZE       \* bytes of a page: 4096

ASSUME PageTablesAssumption ==
  /\ NPDENTRIES \in Nat /\ NPDENTRIES > 3
  /\ NPTENTRIES \in Nat /\ NPTENTRIES >= 4 /\ NPTENTRIES % 4 = 0
  /\ PGSIZE \in Nat \ {0}

PTSIZE == PGSIZE * NPTENTRIES
KERNBASE == PTSIZE
KSTACKTOP == KERNBASE
UTEXT == 2 * PTSIZE
UTOP == UTEXT + 3 * (PTSIZE \div 4)     \* 0xB00000
USTACKTOP == UTOP - 2 * PGSIZE
ADDRESSES == NPDENTRIES * PTSIZE        \* 2^32: uint32_t arithmetic wraps here

PDX(la) == la \div PTSIZE
PTX(la) == (la \div PGSIZE) % NPTENTRIES
PGOFF(la) == la % PGSIZE

Entry(page, flags) == [page |-> page, flags |-> flags]

\* The three tables map their four megabytes each to themselves.
entry_pgtable0 == [i \in 0..(NPTENTRIES - 1) |-> Entry(i, {"P", "W"})]
entry_pgtable1 ==
  [i \in 0..(NPTENTRIES - 1) |-> Entry(NPTENTRIES + i, {"P", "W"})]
entry_pgtable2 ==
  [i \in 0..(NPTENTRIES - 1) |-> Entry(2 * NPTENTRIES + i, {"U", "P", "W"})]

\* The other entries of the directory are zero, which is: not present.
entry_pgdir ==
  [d \in 0..2 |-> [table |-> <<entry_pgtable0, entry_pgtable1, entry_pgtable2>>[d + 1],
                   flags |-> IF d = 2 THEN {"U", "P", "W"} ELSE {"P", "W"}]]

\* What both levels allow at address la.
Rights(la) ==
  IF PDX(la) \in DOMAIN entry_pgdir
  THEN entry_pgdir[PDX(la)].flags \cap entry_pgdir[PDX(la)].table[PTX(la)].flags
  ELSE {}

\* CR0_WP is set: the kernel, too, writes only where "W" is given.
KernelMay(la) == {"P", "W"} \subseteq Rights(la)
UserMay(la) == {"U", "P", "W"} \subseteq Rights(la)

PhysAddr(la) ==
  entry_pgdir[PDX(la)].table[PTX(la)].page * PGSIZE + PGOFF(la)

\* The error code of a page fault: FEC_PR, FEC_WR, FEC_U.
FaultCode(la, write, user) ==
  (IF "P" \in Rights(la) THEN 1 ELSE 0)
    + (IF write THEN 2 ELSE 0) + (IF user THEN 4 ELSE 0)
=============================================================================
