----------------------------- MODULE PagedForth -----------------------------
(***************************************************************************)
(* paged_forth_lib.c: the stack and heap of Forth are NUM_PAGES pages of   *)
(* which at most max_pages are mapped.  The SIGSEGV handler maps the page  *)
(* that is missing, onto its file page_N.dat, and the instruction runs     *)
(* again.  Addresses count from STACKHEAP_MEM_START.  A page is mapped     *)
(* MAP_SHARED: what the program writes is in the file.                     *)
(***************************************************************************)
EXTENDS Integers, FiniteSets, FiniteSetsExt, SequencesExt

CONSTANTS
  NUM_PAGES,
  PAGE_SIZE,   \* getpagesize()
  INT_MOD,     \* 2^32: the values of an int
  Limits,      \* the values of max_pages_input
  Addresses,   \* what the program uses
  Bytes,       \* the values it writes
  Reach,       \* bound: the addresses one instruction uses
  STARTS,      \* bound: the calls of initialize_forth
  FAULTS       \* bound: no instruction begins with which totcount may exceed this

ASSUME PagedForthAssumption ==
  /\ NUM_PAGES \in Nat \ {0} /\ PAGE_SIZE \in Nat \ {0} /\ INT_MOD \in Nat \ {0}
  /\ Reach \in Nat \ {0} /\ STARTS \in Nat /\ FAULTS \in Nat
  /\ Limits \subseteq Nat \ {0}
  /\ Addresses \subseteq Int /\ IsFiniteSet(Addresses)
  /\ Bytes \subseteq Nat

VARIABLES
  max_pages, totcount,
  lifearr, namearr,   \* by slot: its age in faults, and the page in it (-1: none)
  loadarr,            \* by page: has this instance mapped it before?
  mapped,             \* the pages that are mapped
  file,               \* the contents of the page_N.dat
  instr,              \* what the program is executing
  written,            \* history: the last byte this instance wrote at an address
  faults,             \* history: the pages mapped for the current instruction
  starts,
  status              \* of the process: "running" or "exited"

globals == <<max_pages, totcount, lifearr, namearr, loadarr>>
vars == <<globals, mapped, file, instr, written, faults, starts, status>>

Slots == 0..(max_pages - 1)
NO_UNMAP == -1
NoFile == <<>>
NoInstr == [addrs |-> {}, to |-> 0, byte |-> 0]

\* An instruction writes one byte, and uses other addresses: its own, or what
\* it reads.
Instr(addrs, to, byte) == [addrs |-> addrs, to |-> to, byte |-> byte]

\* The page an address is on, and its place there
PageOf(a) == a \div PAGE_SIZE
Offset(a) == a % PAGE_SIZE

\* What an int can hold of n
ToInt(n) == ((n + INT_MOD \div 2) % INT_MOD) - INT_MOD \div 2

Blank == [o \in 0..(PAGE_SIZE - 1) |-> 0]

\* The files may be there already, with what an earlier process wrote.
Init ==
  /\ max_pages = 0 /\ totcount = 0
  /\ lifearr = <<>> /\ namearr = <<>>
  /\ loadarr = <<>>
  /\ mapped = {}
  /\ \E f \in {NoFile} \cup {[Blank EXCEPT ![0] = b] : b \in Bytes} :
       file = [p \in 0..NUM_PAGES |-> f]
  /\ instr = NoInstr
  /\ written = <<>>
  /\ faults = 0
  /\ starts = 0
  /\ status = "running"

-----------------------------------------------------------------------------
\* The program, between two instructions
Ready == status = "running" /\ instr = NoInstr

\* initialize_forth: the region is unmapped and the books begin anew, totcount
\* excepted.  initialize_forth_data then stores fstart below the stack's bottom.
InitializeForth(m) ==
  /\ Ready
  /\ starts < STARTS /\ totcount + 1 <= FAULTS
  /\ starts' = starts + 1
  /\ max_pages' = m
  /\ lifearr' = [s \in 0..(m - 1) |-> 0]
  /\ namearr' = [s \in 0..(m - 1) |-> -1]
  /\ loadarr' = [p \in 0..(NUM_PAGES - 1) |-> FALSE]
  /\ mapped' = mapped \ (0..(NUM_PAGES - 1))
  /\ written' = <<>>
  /\ LET last == NUM_PAGES * PAGE_SIZE - 1
     IN \E b \in Bytes : instr' = Instr({last}, last, b)
  /\ UNCHANGED <<totcount, file, faults, status>>

\* munmap or sigaction fails: the process exits, its books and memory with it.
InitializeFails ==
  /\ Ready /\ starts < STARTS
  /\ status' = "exited"
  /\ UNCHANGED <<globals, mapped, file, instr, written, faults, starts>>

\* The Forth program goes on to its next instruction, whatever that is.
Fetch(addrs, to, byte) ==
  /\ Ready
  /\ starts > 0 /\ totcount + Cardinality(addrs) <= FAULTS
  /\ to \in addrs
  /\ instr' = Instr(addrs, to, byte)
  /\ UNCHANGED <<globals, mapped, file, written, faults, starts, status>>

\* An instruction completes when all it uses is there.
Execute ==
  LET a == instr.to IN
  /\ status = "running" /\ instr # NoInstr
  /\ \A b \in instr.addrs : PageOf(b) \in mapped /\ file[PageOf(b)] # NoFile
  /\ file' = [file EXCEPT ![PageOf(a)][Offset(a)] = instr.byte]
  /\ written' = [b \in DOMAIN written \cup {a} |-> IF b = a THEN instr.byte ELSE written[b]]
  /\ instr' = NoInstr
  /\ faults' = 0
  /\ UNCHANGED <<globals, mapped, starts, status>>

-----------------------------------------------------------------------------
Faulting(a) == status = "running" /\ a \in instr.addrs /\ PageOf(a) \notin mapped

\* distance, pagenum and the test of line 31
Distance(a) == ToInt(a)
pagenum(a) == Distance(a) \div PAGE_SIZE
InRegion(a) == Distance(a) >= 0 /\ Distance(a) <= NUM_PAGES * PAGE_SIZE

Counted == ToInt(totcount + 1)
Full == Counted > max_pages
Aged == [s \in Slots |-> lifearr[s] + 1]

\* Faulty variant: "always swaps out the smallest numbered block" (README.md:195)
Smallest == CHOOSE s \in Slots : \A t \in Slots : namearr[s] <= namearr[t]

\* The first of the slots that have been there the longest
Oldest == Min({s \in Slots : \A t \in Slots : Aged[t] <= Aged[s]})

\* Faulty variant: a slot need not be free.
AnySlots == Slots
FreeSlots == {s \in Slots : namearr[s] = -1}

\* The file is made long enough, by a zero at its end, and mapped.
MapNewFile(p) ==
  file' = [file EXCEPT ![p] = [(IF @ = NoFile THEN Blank ELSE @) EXCEPT ![PAGE_SIZE - 1] = 0]]

\* The file is mapped as it is.
MapOldFile(p) == UNCHANGED file

\* Faulty variant: every page is taken for a new one.
NeverLoaded(p) == {FALSE}

\* loadarr[p], and its update.  Beyond the array is what malloc left there.
LoadedBefore(p) == IF p \in DOMAIN loadarr THEN {loadarr[p]} ELSE BOOLEAN
MarkLoaded(p) == loadarr' = [q \in DOMAIN loadarr \cup {p} |-> q = p \/ loadarr[q]]

\* Line 117: there is room.
MapPage(a) ==
  LET p == pagenum(a)
      slot == IF FreeSlots # {} THEN Min(FreeSlots) ELSE 0
  IN
  /\ Faulting(a) /\ InRegion(a) /\ ~Full
  /\ totcount' = Counted
  /\ namearr' = IF FreeSlots # {} THEN [namearr EXCEPT ![slot] = p] ELSE namearr
  /\ lifearr' = [Aged EXCEPT ![slot] = 0]
  /\ MarkLoaded(p)
  /\ MapNewFile(p)
  /\ mapped' = mapped \cup {p}
  /\ faults' = faults + 1
  /\ UNCHANGED <<max_pages, instr, written, starts, status>>

\* Line 40: the oldest page is unmapped to make room.
ReplacePage(a) ==
  LET p == pagenum(a) IN
  /\ Faulting(a) /\ InRegion(a) /\ Full
  /\ totcount' = Counted
  /\ mapped' = (mapped \ {namearr[Oldest]}) \cup {p}
  /\ \E before \in LoadedBefore(p) : IF before THEN MapOldFile(p) ELSE MapNewFile(p)
  /\ MarkLoaded(p)
  /\ lifearr' = [Aged EXCEPT ![Oldest] = 0]
  /\ namearr' = [namearr EXCEPT ![Oldest] = p]
  /\ faults' = faults + 1
  /\ UNCHANGED <<max_pages, instr, written, starts, status>>

\* Faulty variant: it is only reported.
RejectAddressOnly(a) == Faulting(a) /\ ~InRegion(a) /\ UNCHANGED vars

\* "address not within expected page!"
RejectAddress(a) ==
  /\ Faulting(a) /\ ~InRegion(a)
  /\ totcount' = Counted
  /\ status' = "exited"
  /\ UNCHANGED <<max_pages, lifearr, namearr, loadarr, mapped, file, instr, written, faults, starts>>

\* mmap or munmap fails; or a page is used whose file is empty (SIGBUS).
Die(a) ==
  /\ \/ Faulting(a) /\ InRegion(a)
     \/ status = "running" /\ a \in instr.addrs /\ PageOf(a) \in mapped /\ file[PageOf(a)] = NoFile
  /\ status' = "exited"
  /\ UNCHANGED <<globals, mapped, file, instr, written, faults, starts>>

\* What the processor does about the instruction it is at
Progress ==
  \/ Execute
  \/ \E a \in instr.addrs : MapPage(a) \/ ReplacePage(a) \/ RejectAddress(a) \/ Die(a)

\* The program has ended, or the bounds are reached.
Done == (status = "exited" \/ Ready) /\ UNCHANGED vars

Next ==
  \/ \E m \in Limits : InitializeForth(m)
  \/ InitializeFails
  \/ \E addrs \in UNION {kSubset(k, Addresses) : k \in 1..Reach} :
       \E to \in addrs, byte \in Bytes : Fetch(addrs, to, byte)
  \/ Progress
  \/ Done

Spec == Init /\ [][Next]_vars /\ WF_vars(Progress)

-----------------------------------------------------------------------------
TypeOK ==
  /\ max_pages \in Limits \cup {0}
  /\ totcount \in ToInt(0)..(INT_MOD \div 2)
  /\ lifearr \in [Slots -> Nat]
  /\ namearr \in [Slots -> {-1} \cup 0..NUM_PAGES]
  /\ loadarr \in UNION {[0..n -> BOOLEAN] : n \in {-1, NUM_PAGES - 1, NUM_PAGES}}
  /\ mapped \subseteq 0..NUM_PAGES
  /\ file \in [0..NUM_PAGES -> {NoFile} \cup [0..(PAGE_SIZE - 1) -> Nat]]
  /\ instr.addrs \subseteq Int
  /\ status \in {"running", "exited"}

\* The books agree with what is mapped: no page is in two slots, none is mapped
\* that no slot knows, and a page that is mapped has been recorded as loaded.
SlotsHoldMapped ==
  /\ TypeOK
  /\ mapped = {namearr[s] : s \in Slots} \ {-1}
  /\ \A s, t \in Slots : namearr[s] = namearr[t] => s = t \/ namearr[s] = -1
  /\ \A p \in mapped : loadarr[p]

\* What the program wrote is what it will read, whether the page has been
\* swapped out since or not (paged_forth.c:43-47 tests one byte).
DataSurvives == \A a \in DOMAIN written : file[PageOf(a)][Offset(a)] = written[a]

\* The memory that is handed out is "20 page[s]" (README.md:78-110): a fault
\* beyond them is not repaired.
OnlyTheRegion == mapped \subseteq 0..(NUM_PAGES - 1)

\* An instruction faults once at most for each page it uses: no page that has
\* been fetched for it is thrown out again before it completes.
OneFaultPerPage == faults <= Cardinality({PageOf(a) : a \in instr.addrs})

\* Every instruction completes, or the process has exited: "if we always swap
\* the oldest block, we can avoid" the infinite loop (README.md:207-210).
InstructionCompletes == instr # NoInstr ~> instr = NoInstr \/ status = "exited"

\* The oldest page goes: "We'll probably have to update some metadata to keep
\* track of what pages have been in memory the longest" (README.md:173).
Held == {s \in Slots : namearr[s] # -1}
Older(s) == {t \in Held : lifearr[t] > lifearr[s]}
Loaded == [i \in 1..Cardinality(Held) |-> CHOOSE s \in Held : Cardinality(Older(s)) = i - 1]
Pager == INSTANCE FifoPager WITH
           Pages <- 0..NUM_PAGES,
           limit <- max_pages,
           resident <- [i \in 1..Cardinality(Held) |-> namearr[Loaded[i]]]
ImplementsFifoPager == Pager!Spec
=============================================================================
