# Verification of duke-operatingsystems

TLA+ models of the programs in this repository, checked with TLC and proved,
in part, with TLAPS. File names below are relative to the repository; the lines
of every modelled definition are in `PROJECT.json` under `map`.

The repository holds four separate programs. They share no code and do not run
together, so nothing composes them across directories; inside `JOSSimulation`
the parts are composed on one machine.

| Directory | Program |
| --- | --- |
| `src/AtomicInstructions` | two barriers (futex, condition variable) with the authors program, and a lock-free queue |
| `src/HeapManagerSimulation` | a heap manager: `dmalloc`, `dfree` |
| `src/VirtualMemoryAllocator` | Forth whose memory is paged by a SIGSEGV handler; the driver of the interpreter |
| `src/JOSSimulation` | a small x86 kernel that boots, loads one program from disk and serves its traps; its console |

## 1. Inventory

### Authors and barriers (`authors.c`, `barrier_futex.c`, `futex.c`, `barrier_condition.c`)

*State.* `threads_at_barrier` and `barrier_opening_count`, shared; for the
condition variable also a mutex; each author's loop variable `i` (the paper).
*Operations.* `initialize_barrier`, `wait_at_barrier(iteration)`;
`futex_wait`/`futex_wake`; `author()` writes, waits, proofreads; `main` joins.
*Interaction.* Authors meet only in the barrier, and sleep and are woken
through the kernel (external: futex, pthread mutex and condition variable).
*What is hard.* Threads race on the counters, a fast thread is already in the
next iteration while a slow one leaves the last, wakeups are spurious, a sleeper
may be missed, the sanity checks `assert` on values that others change.
*What makes it correct.* Nobody proofreads a paper before everybody has written
it; no sleeper is forgotten; the program ends; no assertion fails.

### Lock-free queue (`queue.c`, `queue.h`)

*State.* `head` and `tail`, each a pointer with a counter, and nodes that
`malloc` hands out again as soon as they are freed.
*Operations.* `initialize`, `enqueue`, `dequeue`, `destroy`; the 16-byte cas
`update_and_increment`, `checkequals`, `equalchecker`.
*Interaction.* Shared memory only; `malloc` and `free` are external.
*What is hard.* A pointer and its counter are read with two loads; a node may be
dequeued, freed and allocated again between a read and the cas that relies on
it (ABA); a thread may stop half-way and others must finish its work.
*What makes it correct.* Linearizability, no node lost or freed twice,
lock-freedom, everything freed by `destroy`.

### Heap manager (`dmm.c`, `dmm.h`)

*State.* One `mmap`ed slab and a doubly linked list of headers in address order.
*Operations.* `dmalloc` (initialise on the first call, search first fit, split),
`dfree` (five cases of free neighbours), `dmalloc_init`, the failing `mmap`.
*Interaction.* Called by one sequential program; the only system call is `mmap`.
*What is hard.* Link surgery over long sequences of calls; leftovers exactly at
or below the size of a header; `size_t` arithmetic; the call after a failure.
*What makes it correct.* The blocks tile the slab, coalescing is complete, the
program's blocks are aligned, large enough and disjoint, every call returns.

### Paged Forth memory (`paged_forth_lib.c`, `paged_forth.h`, `paged_forth.c`)

*State.* `max_pages`, `totcount`, per slot `lifearr` and `namearr`, per page
`loadarr`, the mapped pages, and the files `page_N.dat`.
*Operations.* `handler` (SIGSEGV): reject, map, or replace a page;
`initialize_forth`, which may be called again.
*Interaction.* The processor calls the handler when Forth uses a page that is
not mapped, and runs the same instruction again.
*What is hard.* An instruction that needs several pages while only a few may be
mapped; contents that must survive being swapped out; books that several calls
keep in step; a second `initialize_forth`; the end of the region.
*What makes it correct.* The books agree with the mapping, no byte is lost,
pages leave first in first out, every instruction completes, only the region is
ever mapped.

### Forth driver (`forth/jf_intepret.c`, `forth/forth_embed.c`, `paged_forth.c`)

*State.* The current file of the command line, the output buffer with its
position and limit, `buffer_flushed`, the result of the last line.
*Operations.* `executeForth`, `f_run`, `load_starter_forth_at_path`, `test2and4`.
*Interaction.* `fcontinue` runs the interpreter, which emits characters and
returns one of several results; `fgets` reads files and at last the terminal.
*What is hard.* The order of flushing and reading over a list of files some of
which are missing; a buffer that is shared by several lines; its terminator.
*What makes it correct.* All lines run in order and what they emit is printed
once and in order, each batch up to the first zero in it; nothing is written
outside a buffer.

### JOS: boot loader (`boot/main.c`)

*State.* The segment, the next address and the next sector. *Operations.*
`bootmain`, `readseg`, `readsect`, `waitdisk`. *Interaction.* The disk; then it
jumps to the kernel. *What is hard.* Addresses and offsets are rounded to sectors,
so a segment is copied with what lies around it; a sector that the disk could
not read is copied like any other, and the kernel is entered all the same. *What
makes it correct.* The kernel is in memory byte by byte as its file says, but for
one sector for each error of the disk.

### JOS: initialisation and program loader (`kern/init.c`, `kern/ide.c`)

*State.* The buffer in the kernel's BSS, the next program header. *Operations.*
`i386_init`, `ide_read`, `load_code`, `initialize_new_trapframe`, `_panic`.
*Interaction.* Polls the controller; enters the program through `run_trapframe`.
*What is hard.* An error in the middle of a transfer whose result nobody reads; a
segment whose start alone is checked; a page that is not there. *What makes it
correct.* The program starts with the memory its file asks for, and the
kernel's memory stays as it was.

### JOS: traps, environment, system calls (`kern/trap.c`, `trapentry.S`, `env.c`, `syscall.c`)

*State.* The processor's registers, the frame on the stack or in `env_tf`,
`panicstr`. *Operations.* `trap_init`, the entry points, `trap`, `trap_dispatch`,
`page_fault_handler`, `run_trapframe`; `sys_cputs`, `sys_env_destroy`, `sys_test`.
*Interaction.* The program traps, the kernel reads its memory. *What is hard.* The
frame is built by processor and entry point together, word by word; an NMI may
come at any time, also during a panic; one gate leaves interrupts on; the range
check of `sys_cputs` wraps, and the string it has checked is the format of `cprintf`.
*What makes it correct.* The frame is that of the trap that came, a call returns
with only `eax` changed, and the format is read from the program's own memory (what its
conversions print is not, see `jos_format`).

### JOS: page tables and address map (`kern/entrypgdir.c`, `inc/memlayout.h`, `inc/mmu.h`)

A directory and three tables that never change; they decide who may touch what.

### JOS: console (`kern/console.c`, `inc/kbdreg.h`)

*State.* The screen buffer and the cursor, the ring `cons`, the keyboard's
`shift`. *Operations.* `cons_putc` and the three devices it writes, `cons_intr`
with `serial_proc_data` and `kbd_proc_data`, `cons_getc`, `getchar`, `cputchar`.
*Interaction.* Keyboard, mouse and serial line go on while a call runs. *What is
hard.* Codes that build on each other, a ring that cannot tell full from empty,
scrolling after the fact. *What makes it correct.* The screen is the end of what
was printed, the codes type what was meant, and input comes out in order.

### JOS: user programs (`user/`, `fs/`)

Small programs that trap, call and touch memory; their library is not here.

### The rest

The Forth interpreter (JonesForth, assembly), the `mmap` examples, the tests
(`queue_test.c`, `test_*.c`, `basicdmmtest.c`), the vendored CuTest and the built
files under `obj/` are not parts that have a model of their own.

## 2. Modules

| Module | What it is |
| --- | --- |
| `Authors` | the authors program, its control points, and its properties; both barriers extend it |
| `Barrier` | abstract: a reusable barrier |
| `BarrierFutex`, `BarrierFutexProofs` | `barrier_futex.c` and `futex.c`, and the proofs |
| `BarrierCondition`, `BarrierConditionProofs` | `barrier_condition.c`, and the proofs about it |
| `Allocator` | abstract: what a program expects of malloc and free |
| `Heap`, `HeapProofs` | `dmm.c`, and the proofs about it |
| `FifoQueue` | abstract: a linearizable queue |
| `LockFreeQueue`, `MCLockFreeQueue`, `LockFreeQueueProofs` | `queue.c`, the number of calls for TLC, and the proofs |
| `FifoPager` | abstract: a pager that throws out the oldest page |
| `PagedForth`, `PagedForthProofs` | `paged_forth_lib.c`, and the proofs |
| `ForthSession` | abstract: lines are run in order and their output is shown in batches, in order, each up to its first zero |
| `ForthDriver`, `MCForthDriver`, `ForthDriverProofs` | `jf_intepret.c`, `forth_embed.c`, `paged_forth.c`, command lines for TLC, and the proofs |
| `PageTables` | address map, page tables, what they allow |
| `Machine` | memory, the disk and its controller (extends `PageTables`) |
| `BootLoader` | `boot/main.c` (extends `Machine`) |
| `Trap` | `trap.c`, `trapentry.S`, `env.c`, `syscall.c`, panics, and what a program may do (extends `Machine`) |
| `ProgramLoader` | `init.c`, `ide.c` (extends `Trap` and `BootLoader`) |
| `UserMachine` | abstract: the machine a user program sees |
| `JOS` | boot loader, kernel and program on one machine: `Next`, fairness, properties |
| `UserPrograms`, `MCJOS` | the addresses and calls of `user/*.c`, and files for TLC |
| `JOSProofs` | the proofs about traps, memory and loading |
| `Terminal` | abstract: text on an endless roll, of which the screen shows the end |
| `Screen` | output: `cons_putc` and below |
| `Keyboard` | `kbd_proc_data` and its tables |
| `InputQueue` | abstract: a queue that is emptied when it overflows |
| `Console`, `MCConsole`, `ConsoleProofs` | `console.c` with its devices, a few keys for TLC, and the proofs |

Eight refinements tie the detailed modules to the abstract ones:
`ImplementsBarrier` (condition variable), `ImplementsAllocator`,
`ImplementsFifoQueue`, `ImplementsFifoPager`, `ImplementsSession`,
`ImplementsUserMachine`, `ImplementsTerminal`, `ImplementsInputQueue`.

The detailed modules hold, before some definitions, a *faulty variant*: a mutated form
of the code (a dropped guard, a missing reset, an off-by-one). No specification
uses one. Each is paired in `PROJECT.json` (`mutants`) with a property that is
violated when it takes the place of the definition it precedes, so that every
property is known to depend on the code it is about.

### Authors, BarrierFutex, BarrierCondition

`pc[t]` is the line a thread is at and `paper[t]` its loop variable, which is
also the `iteration` it passes. In `BarrierFutex` each access to an atomic and
each system call is one action. `threads_at_barrier++` and the comparison that
follows are `Add` and `LoadCount`, two accesses in the code, so several threads
may find the count complete and all open the barrier. `FutexWait` compares and
sleeps in one step, as the kernel does; `SpuriousWakeup` may end any sleep.
A failed `assert` sets `pc` to `"aborted"`, and then no thread moves (`Alive`).
In `BarrierCondition`, `Lock` acquires the mutex, for a thread that arrives or
one that `pthread_cond_wait` brings back; `CondWait` releases it and sleeps in
one step. Printing and the random delays of the authors are left out.

### Heap

`hdr` maps the address of each block to its header. A header swallowed by
coalescing leaves `hdr`: the program owns those bytes and may overwrite them.
`client` is what the program holds. `CallDmalloc` and `FirstDmalloc` start a
search, `Walk` is one iteration of its loop, and `TakeWhole`, `Split` and
`NotFound` end it; nothing can interleave, but the search is a step at a time so
that a search which runs in a circle would show. `Dfree` is the whole of
`dfree`: the five cases of the code are the two independent merges
`AbsorbNext` and `AbsorbInPrev`. `ALIGN` and `Need` compute modulo
`SIZE_MOD`. Addresses are offsets from the slab.

### LockFreeQueue

One action per load, store and cas of shared memory, in the order in which the
compiled code makes them; a `pointer_t` is loaded counter first. The two words
that `equalchecker` reads through one pointer are read at once, so it takes two
steps: it compares the node with itself, and a write in between makes it
unequal whether it falls within a pair of reads or between the two. `list`
(the linked nodes, dummy first) and `sawEmpty` (dequeues during which the queue
has been empty) are history variables for the properties. `malloc` chooses any
free cell; `KeepsBytes` says whether the counter of a freed node is still there
when the node is allocated again, which the code relies on and malloc does not
promise.

### PagedForth

An instruction is a set of addresses it uses, one of which it writes; the
program is any sequence of instructions. `Execute` needs all its pages;
otherwise `MapPage`, `ReplacePage` or `RejectAddress`, one call of the handler
each, is taken for some missing page. `Die` stands for a failing `mmap` or
`munmap`, after which the handler exits, and for the bus error on an empty
file; `InitializeFails` for the failing `munmap` or `sigaction` of
`initialize_forth`. The pages are mapped `MAP_SHARED`, so the model keeps one content per
page, that of its file. `loadarr` is read past its end when the address just
above the region comes in; `LoadedBefore` then returns either value.

### ForthDriver

`pc` is `"switch"` at the `switch` of `executeForth`, `"fgets"` in its inner loop,
`"load..."` and `"test..."` in the other program, and `"forth"` or `"full"` inside
`fcontinue`; `caller` says where that returns to. A file is the number of its
lines. `out` stands for `output_current` and `output_max`: which buffer, how far,
up to where. The interpreter is reduced to its effects: `Emit` stores one character,
which may be a zero, and stops at equality with the limit, `LineEnds` and
`PauseWithCode` return a result. `PrintBuffer` prints up to the first zero, be it the
terminator or one that was emitted; before the first line the buffer is uninitialized,
and what is printed then is a choice (`Noise`). `text` is what has been emitted and not
yet been printed, which `ForthSession` calls `pending`. The abstract session shows each batch
up to its first zero, drops the rest of the batch, and admits noise once, before the first
line and before anything else is shown: that is what the code does, and the refinement says
that it does nothing worse.

### JOS

*One machine.* `pc` is what the processor executes: a point of the boot loader
(`"readsect"`, `"insl"`), of the kernel (`"i386_init"`, `"ide_read"`, `"load"`,
`"trap"`, `"dispatch"`, `"cputs"`, `"run"`, `"panic"`...), or `"user"`. `ram` gives
for each physical address where its byte came from: a position of the kernel's
or of the program's file, zero, the program, or unknown. The controller
(`disk`) is an actor of its own: after a command it delivers a sector or reports
an error (`DiskDelivers`, `DiskFails`).

*BootLoader.* One call of `readseg` per segment after the first page, and in it
two steps per sector: the command, and `insl`, which copies whatever the
controller offers, as the code does not look at the error bit. `EnterKernel` jumps
whatever has been read. `Holes` are the bytes of the kernel's file that an error
has kept out of memory; if there are any, the kernel may run on as if nothing had
happened, when it does not come upon them, or the processor does what nobody knows
(`RunsHole`, `"lost"`). The program headers are taken to lie in the first sector of the file,
where the linker puts them.

*ProgramLoader.* `Init386` clears the BSS; `IdeReadCommand`, `IdeReadSector` and
`IdeReadReturns` are `ide_read`; each program header is one of `NextHeader`,
`RejectSegment`, `LoadSegment` and `SegmentFault`. `Reach` says how far memset and
memcpy get before a page is missing; the trap then comes from the kernel itself.
Addresses are taken modulo `ADDRESSES`, the 2^32 of the code.

*Trap.* `idt` is the table that `trap_init` fills, `Pushed` the words that
processor and entry point leave on the stack, and `Trapframe` the same words read
as the C structure: with an entry point that expects an error code the processor
does not push, every field is one word off. `TakeTrap` is used for the program's
traps, for faults of the kernel and for NMIs. `trap_dispatch` is split into the
branches it takes; `sys_cputs` reads one character a step, so that an NMI or a
fault can fall in between. The string is the format of `cprintf`: any character may
end a conversion (`CputsConversion`), for which `cprintf` takes a word of the kernel's
stack, because it was given no arguments. The word may be any address, as the
program's registers are among these words, or one of the stack itself; it is printed, or followed
(`CputsArgument`) to a string that ends somewhere or runs into memory that is not there.
`str` is what is being read: the format, and before it the argument. The conversions
themselves are `vprintfmt`, whose source is not in the repository (`obj/kern/kernel.asm` has it
compiled). `RunTrapframe` is `run_trapframe`. The program may run
any instruction in any order: those of `user/*.c` are `DivZero`, `Breakpoint`,
`SoftInt`, `BadSegment`, `FaultRead`, `FaultWrite`, `Write` and `SystemCall`, with
the addresses and arguments of `UserPrograms`. Between traps its registers, its stack
pointer, `ds` and `es` may become any of `Contexts`; `cs` and `ss` cannot change, since
no other selector of its level may be loaded there.

*PageTables.* `entry_pgtable0` to `2` are functions in place of 3072 lines of
numbers; `Rights` combines the flags of both levels, and `KernelMay` and `UserMay`
are what the processor allows.

### Console

*Screen.* A character goes to the serial line, the printer and the screen in one
step (`Cputchar`), since interrupts are off and nobody reads in between; a tab is
five recursive calls in the code, each of which may scroll. `gone` keeps the rows
that have left the top, for the refinement of `Terminal`.

*Keyboard.* `Decoded` is `kbd_proc_data` after the byte is read: escape, release
or press. Characters are numbers, because `SwapCase` and `C()` compute with them.

*Console.* `at` is the loop a call is in: `serial` and `kbd` are the two `cons_intr`
that `cons_getc` polls, `take` its end; an interrupt runs one of the loops only.
Each turn of a loop takes one byte from a device, and devices may bring more in
between. `held` and `mods` say which keys the user holds and what is meant by
the next one; `decoded` pairs what came out with what was meant.

## 3. Runs

| Run | Bounds | Distinct states | What it shows |
| --- | --- | --- | --- |
| `futex` | 3 threads, 3 papers | 48,359 | used once, the futex barrier is a barrier; used again, no sleeper is forgotten, nobody is counted twice in one use, and the waiters get out unless an assertion aborts the process first |
| `futex_early` | 2 threads, 2 papers | violation | used again, it lets an author proofread too early |
| `condition` | 3 threads, 3 papers | 2,551 | the inductive invariant, the barrier property, termination and the refinement |
| `heap` | slab of 256 bytes, sizes 5, 16, 40 | 40,813 | any sequence of calls: tiling, coalescing, first fit, the program's blocks, termination, refinement |
| `heap_crash` | slab of 104 bytes | violation | the call after a failed `mmap` faults |
| `queue` | 2 threads, 3 nodes, 2 values, 2 calls of the thread that is scheduled and 3 of the one that may stop for ever | 1,629,261 | linearizability, node accounting, no link behind the last node, everything freed, the scheduled thread returns from its calls |
| `paged` | 4 pages of 2 bytes, 3 or 4 in memory, 2 starts, 7 faults | 149,262 | books, contents, replacement order, completion |
| `paged_end` | as `paged`, with the address just above the region | violation | that address is taken for one more page |
| `forth` | buffer of 3, 5 characters, 2 results a line asks for, 10 inputs of up to 3 files | 76,691 | lines run in order, output shown once and in order up to the first zero of each batch, nothing outside a buffer, the session ends or asks |
| `jos` | 8 entries of 2 bytes per table, sectors of 2, 3 sectors read, 1 error of the disk, 8 program files | 376,301 | from the first sector to the end: what is loaded, who may change what, where the format of `cputs` is read, the frames, the refinement, the kernel gets back to the program or ends |
| `jos_format` | as `jos`, without errors of the disk | violation | what the format makes `cprintf` print need not be the program's |
| `console` | screen of 2 by 3, ring of 3, 4 characters printed or 4 events of the devices | 389,472 | the screen is the end of the roll, codes type what is meant, the ring is a queue, calls return |

**Why the bounds are enough.** *Barriers:* three threads allow one that opens,
one that sleeps and one that is already in the next iteration, and three papers
let the same counter be reused twice: after two openings of the second use a count
of the third survives, and `threads_at_barrier` passes `THREADNUM`. *Heap:* 256 bytes hold up to five blocks, so all five cases of
`dfree` occur with the first, a middle and the last block; the three sizes give
leftovers above, at and below the 32 bytes of a header. `SIZE_MOD` is 512 in
place of 2^64: the slab is smaller than the modulus in both. *Queue:* with three nodes, two
calls of one thread and three of the other, a freed node is allocated again while the
other thread holds its old address and counter; the thread that may stop is the one
with three, so that it can stop in the middle of each kind of call and after each. *Paged memory:* an instruction uses up to
three pages and at least three may be mapped; four pages, more than fit, and
seven faults let a page go out and come back, also after a second
`initialize_forth`. `INT_MOD` is 256 in place of 2^32; the addresses used are
far below either. *Forth:* five characters fill a buffer of three twice, in the
middle of a line, across lines and across files, and each of them may be a zero; missing files come first,
between others, and as the only one. *JOS:* the map keeps the proportions of the
real one (kernel in the second table, program in the third, the stack below its
end), so that each limit falls at a page and off it. The kernel's file has two
segments that begin inside a sector; the programs reach every outcome of
`load_code`: no ELF file, below and above the region, over its end, a segment in
the file longer than in memory, longer than the buffer, and beyond all memory.
One error of the disk may fall on any sector of either file. *Console:* the
cursor starts two cells before the end, so that four characters scroll
the screen more than once; a ring of three is full after two characters, and
four events are enough for a modifier with an escape around another key.

`CHECK_DEADLOCK FALSE` stands in `futex` and `futex_early` only: a failed
assertion aborts the process there, and nothing runs after that.

**Fairness.** *Barriers:* a thread that can run is scheduled (`WF` on each
thread's steps). A pthread mutex is not handed over in order, so acquiring it
is only assumed of a thread for which it is free again and again (`SF`); nothing
is assumed of spurious wakeups. *Heap:* a call that has begun runs on
(`WF(Search)`); the program need not call. *Queue:* only the threads in `Fair` are scheduled, and the others may stop
anywhere. `CallsReturn` speaks of lock-freedom, not wait-freedom: `OPS` bounds how
often the other thread interferes. *Paged memory:* the processor goes
on with the instruction it is at (`WF(Progress)`); the program need not have a
next one. *Forth:* the driver and the interpreter run on, but `fgets` on the
terminal may wait for ever. *JOS:* the processor runs on in the kernel, and the
controller answers a command with data or an error; the program need not trap,
and no NMI need come. *Console:* a call that has begun runs on; nobody is
obliged to type or to call.

### Where code and documents disagree

* `futex_early`: between `threads_at_barrier++` and the load that follows it,
  another thread may count itself; then both find the barrier complete and both
  open it. The opening count is then one ahead, and a thread of the next
  iteration leaves at once, or the sanity check on entry aborts the process. Its
  arrival is in one count while the threads it has left behind are still in
  the other, so with a third paper `threads_at_barrier` may pass
  `THREADNUM` and the check on leaving (`barrier_futex.c:106-110`) may abort too.
* `heap_crash`: when `mmap` fails, `freelist` keeps `MAP_FAILED`; the next
  `dmalloc` finds it not `NULL`, skips the initialisation and dereferences it.
* `paged_end`: the test of the handler is `>` where the region ends before, so
  the first address above it is mapped as a 21st page.
* `jos_format`: `sys_cputs` checks the range of the string, and the comment in it says that a
  program may not print outside of its memory; but the string is the format of `cprintf`, and
  its conversions print words of the kernel's stack, or the strings they point to.

Smaller things that came up, all modelled as the code has them:

* `ALIGN` wraps to 0 for the seven largest sizes, and `dmalloc` returns a block
  with no payload where malloc returns `NULL` (excluded by `NoWrap` in the proofs).
* `enqueue` does not write the counter of a new node and relies on what malloc
  left there (`KeepsBytes`).
* EMIT stores a zero like any other byte, and `printf("%s")` stops there: what the
  buffer holds behind it is never shown (`myjf.S:743`, `jf_intepret.c:31`, `:77`).
* `executeForth` prints its buffer before anything has been written to it if no
  file of the command line has a line (`jf_intepret.c:31`).
* `bootmain` enters the kernel also when a sector of it could not be read
  (`boot/main.c:80`); `i386_init` loads what has arrived of the program (`init.c:39`).
* The comment at `syscall.c:15` says that exactly `len` characters are printed
  and that errors panic; `sys_cputs` prints to the first zero and prints
  `INVALID_POINTER`. `user/buggyhello.c:2` expects the program to be destroyed; it
  runs on. `user/buggyhello2.c` passes a length that stays inside the region and is
  accepted.
* The entry points of vectors 2, 4 to 7, 16, 18 and 19 expect an error code that the
  processor does not push (`Misframed`): all of their frame is one word off. All
  of them end in a panic, so the program never notices. Vectors without an
  entry point of their own are reported as trap 9.
* In `ctlmap` the Home key is at 0x97, not at 0xC7: Ctrl-Home types nothing.
  Releasing one of two Shift keys ends Shift for both. A tab reaches the serial
  line as a tab and again as five blanks.
* Nobody calls `cons_getc`, `getchar` or `ide_write`.
* The TODO at `jf_intepret.c:17` is done.

## 4. Proofs

`BarrierConditionProofs`, for any finite non-empty set of threads and any
positive number of papers (`AuthorsAssumption`):

* `InductiveInvariant`: `Spec => [](TypeOK /\ IInv)`. The barrier property is not
  inductive. What has to be known of a state is who may hold the mutex
  (`MutexInv`), that `threads_at_barrier` counts exactly the threads inside whose
  iteration has not opened (`CountInv`), and that every thread is in the
  iteration that is open or on its way out of the last (`PhaseInv`). From these
  follow that the unprotected sanity check cannot fail (`NoAssertionFails`) and
  that a sleeper of an opened iteration is about to be woken (`NoLostWakeup`).
  One lemma treats the count, one the opening, one all other steps.
* `BarrierSafety`: `Spec => []ProofreadAfterWriting`, from `PhaseInv`.
* `BarrierRefinement`: the safety part of `ImplementsBarrier`.

`BarrierFutexProofs`, under the same assumption, for the barrier that is one only the
first time:

* `FutexInvariant`: `Spec => []IInv`. The counters mean little once the barrier
  has opened twice, so `IInv` bounds them by what has happened instead: a *use* is a
  thread with its paper, `Since` is the set of uses that have got as far as being counted,
  or as opening, and each counter is at most the size of its set (`Counts`). No step takes
  a use out of a set (`SinceGrows`), and an `Add` or an `Open` puts one in
  (`SinceGains`). For the first use the counter is still exact: until
  everyone has been counted it is the number of threads that have, and nobody has got past
  `LoadCount` (`Gathering`).
* `CountsAreBounded`: `Spec => []TypeOK`, the types with those bounds.
* `NobodyIsForgotten`: `Spec => []NoLostWakeup`, for all uses: between an opening and
  the sleep stand the comparison of `FutexWait` and the opener's wakeup, whatever the count
  was when the barrier opened.
* `FirstUse`: `Spec => FirstUseIsBarrier`, in full. Whoever gets to proofread paper 0
  finds `Gathering` over, so all have arrived.

`HeapProofs`, for any slab that holds a header and any set of sizes
(`HeapAssumption`), provided that no size overflows (`NoWrap`, see
above):

* `HeapInvariant`: `Spec => []IInv`, where `IInv` joins the types, the tiling
  with its links in both directions, complete coalescing, agreement of the
  program's blocks with the allocated headers, first fit and the state of a
  call. None is inductive alone: a split keeps the tiling only because what is left
  over can hold a header, coalescing is complete only because `prev` is
  right, and a block is large enough only because it was chosen by size. The
  work is in three lemmas about headers as values, apart from any state:
  `SplitHeaplike`, `AbsorbHeaplike` and `DfreeHeaplike`.
* `FreedHeapIsWhole`: when the program has freed everything, one block is left.
* `HeapRefinement`: `Spec => ImplementsAllocator`, in full (the abstract
  allocator promises no liveness).

`LockFreeQueueProofs`, for any threads, nodes, values and number of calls
(`QueueAssumption`), provided that `malloc` leaves the counter of a freed node
alone (`KeepsBytes`, see above):

* `QueueInvariant`: `Spec => []IInv`. Of the shared state, `IInv` says that the list is
  a chain in memory from `head` (`Chain`) with the tail on one of its last two nodes
  (`TailInList`), and who owns which node (`Owned`). Of each thread it says what its
  locals are worth (`ThreadInv`): a counter that was read is never ahead of the
  memory it was read from, and *as long as the two are equal* so are the pointers,
  although the second was loaded later (`TailFresh`, `HeadFresh`). `LinkSound` is the
  heart of the matter, the reason why ABA cannot happen: the node a thread takes for the
  last one either has a higher counter by now, or is still the one the tail points to
  with nothing behind it. It survives that the node is dequeued, freed and allocated
  again, because no step lowers the counter of a node, wherever the node is; without
  `KeepsBytes` the call of `enqueue` is such a step. `Rely` is what each
  step leaves the others to rely on, and `Stable` that their knowledge survives it, so
  that each action is proved once for the thread that takes it.
* `QueueIsSound`, `NoABA`, `NodesAreSound` and `NothingIsLeft`: the four invariants that
  `queue` checks.
* `QueueRefinement`: `Spec => ImplementsFifoQueue`, in full. The successful cas of `Link`
  appends a value, that of `SwingHead` takes the first one, which the thread has read
  before, and `DEQUEUE_FAIL` is returned only with the thread in `sawEmpty`: when it
  read a `next` that was `NULL`, the queue was empty.

`PagedForthProofs`, for a region, limits, programs and numbers of starts and faults of
any size, provided that `totcount` and the distances fit an `int` (`IntsFit`), that no
instruction uses more pages than may be mapped (`EnoughPages`; otherwise no
replacement could help), and that nobody uses the address just above the region
(`EndUnused`; `paged_end` shows what happens then):

* `PagerInvariant`: `Spec => []IInv`. `MapPage` and `ReplacePage` write different slots for
  different reasons; `Fetches` is what both do (`MapFetches`, `ReplaceFetches`), so
  that each part of `IInv` is proved once for a fault. What makes it inductive is about
  the ages: free slots are older than those that hold a page and no two pages have the same
  age (`Ages`), so that after a second `initialize_forth`, when `totcount` is already
  high, replacing the oldest fills the free slots first; before `totcount` reaches
  `max_pages` there is a free slot and nothing has been thrown out (`Counts`), so that line
  117 never overwrites a page that comes back; and the slots younger than the faults of the
  current instruction hold pages it needs (`Recent`). If such a slot were the
  oldest, all of them would be, and the instruction would need `max_pages` pages and
  one more (`NotFetched`).
* `BooksAreTrue`: `SlotsHoldMapped`, with the type invariant; `DataIsKept`: `DataSurvives`.
* `NoRefault`: `OneFaultPerPage`.
* `PagerRefinement`: `Spec => ImplementsFifoPager`, in full. `Listed` says that there is
  a list of the slots with strictly falling ages; there is only one
  (`ListIsUnique`), which is `Loaded`. A fault appends to it (`ListGrows`) or moves its
  head to its end (`ListTurns`).

`JOSProofs`, for any map, files, programs, arguments and NMIs that the
assumptions of the modules admit:

* `TrapInvariant`: `Spec => []TrapInv`. What the kernel promises the program is
  about a frame that was written at the trap and is read at the return; in between
  come an assertion, a dispatch and possibly many characters of a string. `TrapInv`
  carries the frame through them (`CallInv`), and with it that the program's
  code and stack segments never change, that interrupts are off although one
  gate does not turn them off (the program cannot turn them on), and that a
  second panic is silent.
* `FramesAreTrue`: the frame that is dispatched has the vector that came, and for
  all vectors but the misframed ones the registers that were interrupted.
* `UserMachineRefinement`: `Spec => ImplementsUserMachine`, from `TrapInv`: every
  step is one of the abstract machine or invisible to the program.
* `StringIsUsers`: `Spec => []FormatIsUsers`. The check of `sys_cputs`
  leaves the format at or above `UTEXT` (`MemoryInv`), and no conversion moves it back; every
  page above `UTEXT` that is present is one of the program's, and the first that is not
  stops the kernel. It says nothing of what the conversions print: `jos_format`
  shows that this may be anything.
* `KernelIsIsolated`: `Spec => KernelIsolated`. All writes go through addresses at or above
  `UTEXT`, and the tables map each such address to itself (`Identity`), so
  no write arrives below, wherever a segment ends.
* `KernelIsLoaded`: `Spec => []KernelLoaded`, for a kernel of any number of segments.
  `readseg` rounds addresses down and sizes up, so that a sector also brings bytes that do
  not belong to the segment. `BootInv` says that the next sector of the file always belongs at
  the next address (`InStep`), and that each byte read so far is the one in the file, or
  an error of the disk kept it out (`InPlace`). Each error accounts for at most one sector of bytes
  kept out (`OnlyLost`). `Delivers` shows it of the bytes that a
  sector brings, and `Behind` that a segment is read to addresses behind the files of those
  before it, for which the assumption on linked kernels (`Linked`) is needed: no
  segment begins in a sector in which the file of one before it ends.
* `ProgramIsLoaded`: `Spec => []ProgramLoaded`. `ImageInv` follows the file from the
  controller to the buffer, sector by sector (`ReadingProgram`; `Prefix` says how much of it
  has come), and from there to its place. `ImageSoFar` is the property before all headers
  are done: the last segment *before `ph`* that covers an address decides, and
  `SegmentImage` shows that loading one more moves it on by one, whether it ends
  in memory or beyond. `SectorBelow` says that the last sector of the kernel does not
  reach the program either. The hypothesis, `Apart` for each program, is that no segment is
  loaded over bytes that one is read from, as an offset of gigabytes would have it:
  these would change what "the file says". `MCJOS` checks that its programs satisfy it.

`ConsoleProofs`, for any screen, ring, keyboard and text:

* `ConsoleInside`: `Spec => []TypeOK`. A newline, and each blank of a tab, moves the cursor by up to one
  row beyond the screen before it scrolls; the proof follows the cursor
  through `Placed`, `Scrolled` and the five blanks (`OnPage`).
* `RingIsQueue`: `Spec => ImplementsInputQueue`. What waits is the arc from `rpos` to
  `wpos`, which `StoredInQueue` and `TakenFromQueue` show to grow at one end, to
  shrink at the other, and to become empty when it would be full.
* `ScreenIsTerminal`: `Spec => ImplementsTerminal`. The roll is the rows that have scrolled
  away with the buffer below them (`View`). Only whole rows leave, so a position keeps
  its column (`RowsMod`), and `Scrolled` changes nothing but where the buffer begins
  (`ScrolledRolls`). `Shows` says of a text which cells it changed and how long the roll
  is; it is proved for each kind of character (`CellShows`, `MoveShows`), and for the five
  blanks of a tab one after the other (`MoreBlanks`), any of which may scroll.
* `KeysAreUnderstood`: `Spec => []DecodedAsTyped`. The user knows which modifiers are held, the
  driver what the codes read so far said, and any number of codes may wait between the two.
  `Reads` is what links them: the waiting codes lead from the driver's `shift` to the
  modifiers as the user means them, through states in which each code types what was meant
  by it (`Through`). `PressDecoded` and `ReleaseDecoded` show it of the one or two codes of a
  key, `ReadsMore` of a key behind others, `ReadsOne` of the code that is read. The
  hypothesis (`InTables`) is that the tables have for each key what its legend says,
  which `MCKeysInTables` checks for the keys of the run. Keys for which they have
  something else, such as Ctrl with Home, are outside of it.

`ForthDriverProofs`, for any command line and starter file, any interpreter and a buffer
of any size (`DriverAssumption`: a file is missing or has a number of lines, and there
is at least the standard input):

* `WritesInsideBuffer`: `Spec => []InsideBuffer`. The only test is for equality with the limit, so a
  line must never begin in a full buffer. `BufferInv` says why: a result other than
  "flush" comes with room left (`Room`), and after a flush the buffer begins anew.
* `SessionRefinement`: `Spec => ImplementsSession`, in full. `InputInv` says that all that is
  left to run is in the file that is open and in those after it, so that `fgets` gives
  the first of the lines in `ToRun` (`TakesLine`). `OutputInv` says that the buffer
  holds exactly what has been emitted and not shown, zeros included (`HoldsRest`), whatever
  flushes, lines and files came between, with a terminator behind it when it is printed
  (`Pending`). What `printf` then prints, up to the first zero of the buffer, is the batch up to
  its first zero (`Least`, `PrintsCut`, `PrintsRest`). While `buffer_flushed` is still set
  from the beginning, no line has been run and nobody has written to the buffer
  (`Untouched`): only then may noise be printed.

What stays with TLC: liveness (`AllDone`, `WaitersUnblock`, `CallReturns`,
`CallsReturn`, `InstructionCompletes`, `KernelReturns`, `EndsOrAsks`) and the fairness part of
`ImplementsBarrier`, which the installed provers do not reach. All other properties of the
passing runs are stated by a theorem. The proofs need no induction over data and the modules
declare no recursive operator.

## 5. Not modelled

*Left out of modelled parts.* Queue: the counters do not wrap after 2^64 updates,
malloc does not fail (the code asserts), and `DEQUEUE_FAIL` (-99) is not
enqueued, as it could not be told from failure. Heap: `dfree` of anything but a
block the program holds, and sizes whose `ALIGN` fits `size_t` while their sum
with a header does not leave room for the second header of a split (within 40
of 2^64). Paged memory: `fdarr`, which is written and never read, the signal
stack, the return stack, `totcount` beyond 2^31, distances that an `int`
cannot hold, and the call `munmap` of a slot that holds no page, which goes to
the page below the region. Forth driver: the contents of lines, so that one
longer than 199 characters, which `fgets` splits, counts as several lines; the
addresses that `initialize_forth_data` stores. JOS: `boot.S` and `entry.S` (straight
lines of instructions that set up the mode and the stack), the
digits that the boot loader's `putchar` writes to the screen, printing other than
that of `sys_cputs`, what `vprintfmt` makes of a conversion (it prints a word or
follows it), program headers beyond the first sector of a file (`e_phoff`), what a
kernel with a hole in it does (`"lost"`), and stack addresses: a frame is a value, not a
place. Console: colours, the delays of the serial and parallel ports, the message before a
reboot, and the codes that a keyboard repeats while a key is held (a repeated code
of CAPS LOCK would toggle it again).
All: what is printed, and time.

*Whole parts.* The Forth interpreter, a third-party interpreter in
assembly with its library in Forth; the `mmap` examples, one straight line each; the
tests and CuTest, whose calls are among those the models make. `fs/test.c` and
`user/sendpage.c` need a file system, fork and IPC that the repository does not have.

## 6. Plan

1. Done: barriers, heap, queue, paged memory, Forth driver, JOS from boot to halt,
   console; proofs of every invariant, action property and refinement that the
   passing runs check.
2. Models: `boot.S` if the processor's modes are added to `Machine`, and the words
   of the interpreter that the driver depends on (`EMIT`, `KEY`, `PAUSE`).
