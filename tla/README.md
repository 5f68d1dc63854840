# SkinnyArm: specifications, model checking and proofs

SkinnyArm is a small kernel for the Raspberry Pi 3b+ (AArch64, four cores,
1 GB). This directory holds TLA+ specifications of its core, the TLC
configurations that check them on small instances, and TLAPS proofs of the
most important results for every size. Line numbers refer to `src/`.

## The system

| component | state it keeps | operations | correct when |
|---|---|---|---|
| spin lock (`lock.c`) | `locked`, `cpu` of the lock; interrupt mask of the core | `spinlock_init`, `acquire`, `holds`, `release` | one owner; a release by anybody else is refused; owner's interrupts masked; some spinner gets it |
| sleep lock (`lock.c`, `sleep`/`wakeup` of `process.c`) | `locked`, `pid`, an inner spin lock; `state` and `wait_on` of processes | `sleeplock_init`, `acquire`, `release`, `holds` | one owner; nobody left asleep; its fields only stored to under the spin lock |
| frame allocator (`kalloc.c`) | list head; `next` word inside every free frame | `kalloc_init`, `kalloc`, `kfree`, `clear_page` | the list is exactly the frames nobody holds; frames arrive zeroed; only RAM that is free is handed out |
| process table (`process.c`) | 64 slots: state, pid, stack and trap frame, saved registers, `wait_on`; `tpidr_el1` | `create_first_process`, `sys_fork`, `getpid`, `kill_process`, `scheduler`, `sleep`, `wakeup` | pids distinct; frames neither shared nor lost; dead processes stay dead; every runnable process runs |
| page tables (`vmem.c`) | four levels of tables in frames of the allocator | `make_kpagetable`, `map_region`, `map_page`, `get_physical_page`, `unmap_region`, `free_page`, `free_pagetable`, `clone_pagetable`, `copy_from_user`, `copy_to_user` | tables form a tree outside the free list; a region maps to its pages and to nothing else; a failed call undoes itself |
| exceptions (`exception_vector.S`, `user_context.S`, `exceptions.c`) | registers, trap frame, kernel stack | `uservec`, `userret`, `kernel_entry`, `kernel_exit`, `switch_to`, `handle_syscall`, `handle_irq`, `exception_handler` | interrupted code finds its registers and stack as they were |
| root file system (`rootfs.c`, `string.c`) | `files`, `inodes`, read from the cpio archive | `init_ramfs`, `search_file`, `read`, `ls` | the tree is that of the archive; every file leads to its own data |
| mini UART (`uart.c`, `handle_irq`) | the FIFOs of the device, the timer | `uart_init`, `send`, `getc`, `puts`, `interrupt` | what is put out and echoed leaves once and in order; everything received is echoed |
| boot (`boot.S`, `main.c`) | stacks, page table registers | start the cores; allocator, page table, archive, interrupts on core 0 | each step finds what it needs intact |
| system calls, user programs (`sysfile.c`, `user/`) | - | wrappers around `svc` | - |

How they interact: `vmem.c` and `process.c` take their frames from `kalloc.c`,
whose list lies inside the frames themselves. `sleeplock_acquire` and
`sleeplock_release` hold their spin lock around `sleep` and `wakeup`, which
change the process table and, in `sleep`, release the spin lock. `uservec` finds
the trap frame through `tpidr_el1`, which the scheduler's `switch_to` sets.
`main` calls the allocator, the page tables and the archive reader in that
order, then sets up the UART and the timer, whose interrupt is what echoes
input from then on.

What is hard here: the steps of different cores inside the locks; `sleep` and
`wakeup` on one process from two cores; a list whose links lie in memory that
other code overwrites; allocation that fails half-way through a fork or a
mapping; long sequences of forks, kills and ticks; saving and loading 31
registers in two different layouts; pointers into an archive that is read with a
prefix test for equality and a word that is a list or an inode; a handler and main
that both feed the transmitter. `PROJECT.json` lists these hazards line by
line with the properties aimed at them.

The repository is work in progress: the calls of `scheduler` in `handle_irq`, of
the system calls in `handle_syscall` and of `create_first_process` in `main` are
commented out, and cores 1 to 3 only loop. The specifications describe the
functions as they are written, called the way the commented code calls them. The
locks are modelled on several cores, as that is what they are for. Memory is
sequentially consistent: the barriers in `lock.c` and the caches, which
`enable_vmem` turns off, are not in the model.

## Modules

| module | models |
|---|---|
| `Mutex` | abstract: at most one owner |
| `SpinLock` | `spinlock_*`; a step per access to `locked` or `cpu` |
| `SpinLockProofs` | theorems about `SpinLock` |
| `SleepLock` | `sleeplock_*`, `sleep`, `wakeup`; composed with `SpinLock` for the inner lock |
| `SleepLockProofs` | theorems about `SleepLock`, from those of `SpinLockProofs` |
| `FramePool` | abstract: a set of free frames |
| `FreeList` | the list of `kalloc.c` as a value, shared by the modules that allocate |
| `Kalloc` | the allocator and its callers |
| `KallocProofs` | theorems about `Kalloc` |
| `Process` | the process table, over `FreeList` |
| `ContextSwitch` | `Process` composed with the registers: `switch_to`, `free_registers`, the copies of `sys_fork` |
| `ProcessProofs` | theorems about `Process` and `ContextSwitch` |
| `Vmem`, `MCVmem` | page tables, over `FreeList` |
| `VmemProofs` | theorems about `Vmem` |
| `Context` | registers and kernel stack through exceptions |
| `Rootfs`, `MCRootfs` | the archive reader and its callers |
| `RootfsProofs` | theorems about `Rootfs` |
| `Uart`, `MCUart` | the UART between `main` and `handle_irq` |
| `ExceptionProofs` | theorems about `Context` and `Uart`, the two sides of the exception handlers |
| `Iteration` | induction over the rounds of a loop, walks along the free list |
| `Boot` | `main` up to the archive, composed with `Kalloc` |

Operators named `X_Something` directly before an operator `X` are faulty
variants of it. The specifications do not use them; they document, for each
property, a change to the code that the property catches.

**SpinLock.** `locked` and `cpu` are the fields of the lock, `masked` the DAIF
bits of each core. `pc` says which access of an operation comes next and `held`
that `spinlock_acquire` has returned. `spinlock_release` is split at its
test, at the store `cpu = 0` and at the clear. `int8_t` is a plain `char`, which
AArch64 makes unsigned, so the -1 of `spinlock_init` reads as 255 (`NoCpu`).
`Strays` is the set of cores that may release without owning the lock:
`sleeplock_acquire` does so.

**SleepLock.** Process `c` runs on core `c`. `at` is the place in the sleep lock's
functions; while `pc` is not `run` the core is inside an operation of the spin
lock. The loop of `wakeup` visits the slots in order, a step for its
test and for each of its stores. `lk->pid` receives the low byte of a pointer
(`PtrByte`).

**Kalloc.** Frames are page numbers, NULL is page 0. `list.next` is the first word
of every frame, `dirty` the frames with other data in them. Callers free what they
were given, once, and may overwrite the link word of a frame they hold (`write`).
`turn` changes with every answer, so that a frame handed out twice in a row is a step
and not a stutter. `depth` is auxiliary too: it makes "is a list without cycles" a property of single
links, which is what the proof needs.

**Process.** Handlers run to their end with interrupts masked on one core, so each
is one step; `sys_fork` has one action per outcome. Reading or freeing through a
null pointer is a choice between going on (page 0 is memory) and a fault, on which
`exception_handler` returns to the same instruction for ever (`stuck`).
`killed` and `passed` are auxiliary.

**ContextSwitch.** Each action that touches the saved registers is the one of
`Process` with what it does to them: `tick` is `scheduler` with `switch_to`, `fork`
and `kill` zero and copy. x19 to x28, fp and lr always move together, so they are
one value, the slot whose process computed them, or `Zero`. `sys_fork` reads the
registers saved when its caller was last switched away from, after it has zeroed
those of the child, which is the caller's own slot if that was killed.

**Vmem.** Addresses are page numbers. An entry is abstracted to bit 10, its
physical page and the macro that built it. A round of the loop of `map_region` and
of `unmap_region` is a step; `get_physical_page` is a function of list and tables
that does `Level` once for each of the four levels. One page table stands for any.
`free_page` passes a frame where `kfree` takes a pointer to one, so what it frees
is the address in the frame's first word: 0, or something that is taken to be no
address. `copy_to_user` returns after the first page or goes on with a size that
contains a physical address (`vmem.c:417`), eight pages further in each round, until
the size is 0 or a wild address faults; a size that is no multiple of a page steps over
0 and the loop goes on. `strcpy` itself ends for every size: its `int` wraps at `-O0` and
is compared as an unsigned word.

**Context.** Values in registers are tokens, all different. `uservec` and `userret`
are modelled by the word of the trap frame in which each register is stored
(`SaveWord`) and from which it is loaded (`LoadWord`), in the order of the stores.
`used` counts the kernel stack in units of 16 bytes. At `-O0`, `handle_syscall` has
a frame of 16 bytes that its branch to `userret` leaves behind. C code leaves junk
in the registers it may clobber. `RegistersKept` says which registers survive;
`UserStateKept`, that all do, is what the comments say and is false.

**Rootfs.** A step is a round of the loop of `init_ramfs`, for an entry chosen
when it is read, so the behaviours are the archives. `files` and `inodes` are the
arrays; a pointer is a tuple of array and index, as `children` and `ino` share a
word and the code follows the one as the other (`next_file` of an inode reads
the inode behind it). Names are short sequences, because `strequal` is a prefix test
(`string.c:8`) and names wrap around in their field. Positions in the archive are
byte counts with the code's padding on one side (`pos`) and cpio's on the other
(`header`), so that a header that is missed shows. The two sizes in a header are
digits, which `int_from_string` reads (`rootfs.c:229`, `233`) and cpio means (`Value`);
the code goes on with the -1 it gets for a digit a-f. `read` and `ls` are asked
once per archive. A walk over siblings that does not end is the stage `astray`. What
tree and answers should be is only clear for names that are no prefixes of one another, fit
their field and follow their directory: `WellNamed` says so, of the entries alone.
Entries without a directory are linked to nothing, although `rootfs.c:51` says that
`next_file` "points to next file at given level": for one of them `ls` puts out that one
alone, and `AnswersMatchArchive` says so.

**Uart.** Waiting for the transmitter and storing are two steps, in `main` and in the
handler. No code enables the UART's line in the interrupt controller, so the
handler runs when the timer has run out and only then. The device (FIFOs, line,
timer) is external. The UART's -1 for "nothing there" is 255, which may also be
received. `ier` and `cntl` are the two enable registers, in which `uart_init` leaves
0b10 and 1. What these values make the device do is not in the code and is a
parameter: `RxShown` are the values of AUX_MU_IER with which AUX_IRQ and AUX_MU_IIR, which
`handle_irq` and `uart_interrupt` ask, show a received byte (bit 1 in the manual's table,
bit 0 in its errata), and `TxOn` the values of AUX_MU_CNTL with which the transmitter
works (bit 1 in the manual, any value in QEMU). The passing run assumes the printed
table and a transmitter that is always on. `EverythingEchoed` rests on that assumption;
`OutputExact` does not, and is proved for every `RxShown` and `TxOn`.

**Boot.** The calls of `main` in their order over the frames of `Kalloc`. What is
followed is the first word of the archive, at `RAMFS_START`: it is a frame's link
word. `make_kpagetable` maps the kernel and the peripherals (`Mapped`), so the first
read of `init_ramfs` faults, with no vector table set up: `main` comes no further.
`Rootfs` and `Uart` describe the code from there on as it would run with the archive
mapped and intact.

## Runs

Runs that pass:

| run | instance | shows |
|---|---|---|
| `spinlock` | 4 cores, as the board has; cores 1-3 stray | exclusion, word set exactly while owned, stray releases refused, owner known and masked; implements `Mutex`; some spinner acquires |
| `kalloc` | 4 frames | list exact, implements `FramePool`, frames arrive zeroed |
| `sleeplock` | cores 0 and 1 | inner lock exclusive in spite of stray releases, until core 0 sleeps; exclusive until somebody waits; nobody stays registered; somebody gets it |
| `process` | 3 slots, 4 pids, 2 to 6 frames | distinct pids, waiting bounded by a round, frames exclusive and conserved until a killed slot lives again, registers found again |
| `vmem` | tables of 2 entries (16 pages), 0 to 12 frames of which the last is the first page of the peripherals, 4 regions, copies to 3 user pages | tree of tables apart from the free list, regions in place, other pages and earlier mappings untouched |
| `context` | 6 system calls, any interrupts | registers restored, apart from x18 and x19 after a system call; interrupts leave nothing on the kernel stack, every system call 16 bytes |
| `rootfs` | all archives of up to 5 out of 10 entries, 4 files, 4 inodes, names of up to 3 characters | files lead to their data and size, no header is missed unless a size is in lower case, walks end; with unambiguous names the tree and the answers are the archive's |
| `uart` | FIFOs of 2, the 13 bytes of "Hello World!\n", 6 bytes of input; bit 1 of AUX_MU_IER shows received bytes, transmitter always on | every byte once and in order, 255 costs nothing behind it, everything is echoed in the end |

Runs that end in a counterexample: each states what a comment or document of the
repository says, and the code does otherwise. `PROJECT.json` quotes the line.

| run | the counterexample |
|---|---|
| `sleeplock_exclusive` | a process that has slept tests `lk->locked` without the spin lock, sees it free, and owns the sleep lock together with one that acquires it in the regular way |
| `vmem_free` | frames taken out of the page table are not on the free list |
| `context_syscall` | x18 and x19 hold x16 and x17 after a system call |
| `boot` | `kalloc_init` links the page of the archive and so overwrites its first word |

The models contain more that disagrees with what one expects of the code, each
described at its definition and under the hazards:

- a release stores `cpu = 0`, which names core 0, so a stray release by core 0
  passes the test of `spinlock_release` (`ReleasedCpu`). `sleeplock_acquire` strays after every `sleep`: once the
  process on core 0 has slept, its second release clears the word under another owner,
  and `SpinProtects` no longer holds;
- `kill_process` answers -1 for a process in any slot but the first: `=` for `==` in
  `process.c:100` (`kill_process_refused`);
- `init_ramfs` reads a page that is not mapped, before `irq_vector_init`
  (`main_init_ramfs_fault`);
- on a device where bit 0 of AUX_MU_IER is the receive interrupt, QEMU's among them,
  the 0b10 that `uart_init` stores never shows the handler a received byte, and nothing
  is echoed; where bit 1 of AUX_MU_CNTL is the transmitter, nothing leaves;
- `kalloc_init` links the first page of the peripherals (`<=` in `kalloc.c:36`;
  `Frames`), so that page is mapped by `make_kpagetable` and can be handed out as well:
  `TablesExclusive` leaves out the pages that callers name (`Given`). The models take
  it for memory like the other frames;
- a `sleep` that interleaves with a `wakeup` leaves a process WAITING with
  `wait_on` NULL;
- a tick makes the current slot RUNNABLE although it was freed, and killing the first
  process frees a null pointer and cuts off the list;
- a forked process starts with registers its caller had one switch earlier (`Copied`);
- a kernel page mapped to a given physical page gets the entry of a table
  (`vmem.c:113`; `MacroOf`);
- a copy that leaves its page runs on over unrelated pages (`copy_round`);
- 256 system calls use up the 4096 bytes of the kernel stack;
- a file without data that shares its numbers with another, a hard link, gets the data
  of the file before that one: numbers and data go to different inodes (`Link`);
- a size, of data or of a name, with a hexadecimal digit a-f is refused and loses the
  rest of the archive (`int_from_char`);
- `clear_bss` moves on by 16 bytes for every 8 it clears (`boot.S:14`). The modules
  take `.bss` to be zero, as memory is under QEMU.

Bounds. The lock bugs need two cores. Four frames give the allocator
every order of list and an empty one. Three slots and between two and six frames
let forks run out of slots, of the first and of the second frame, and leave room for
a process, its child and its grandchild. Tables of two
entries make the four levels independent of each other, and the number of
frames is chosen in `Init` so that allocation fails at every point; `SizePages`
bounds the size of a copy above every physical address, so that one below zero shows. `SyscallBound`
bounds the system calls, six of which show what one leaves to the next. Five entries
are one more than there are slots for files, two files with data fill
the inodes and a third goes round; the names contain a prefix, a repetition and two
that are too long. FIFOs of two fill up and empty within the message, and six bytes of input fill the receive FIFO three times over.
No state constraint and no symmetry is used: core and page numbers are compared
and stored by the code.

Deadlock is checked in every run.

Fairness. `SpinLock`: a core inside a lock operation takes its next step (weak
fairness of `Inside`), and a holder comes to its release, as the code under the lock
is straight-line with interrupts masked. Nobody has to ask for the lock, and
no core is promised to win the test-and-set: the property is that some core gets
it. `SleepLock`: a core keeps executing inside the functions, and a process
that owns the lock releases it. `Uart`: core 0 goes on with `main` and with the
handler, the timer runs out after it was started, and the transmitter sends what
is in its FIFO. Nothing has to be received.

## Proofs

`SpinLockProofs`: type correctness; mutual exclusion, the lock word set exactly
while there is an owner, refusal of stray releases, a holder that is known and
masked, and the refinement of `Mutex`, all for every set of cores whose numbers fit a byte,
provided core 0 does not release without owning (`0 \notin Strays`). The proviso is
needed: a released lock carries the number of core 0. The inductive invariant
`IInv` conjoins the safety properties of the run with three facts: a `cpu` field
other than 0 names a core that holds the lock, which is why a stray release on any
core but 0 fails its test; a holder about to clear the word has already stored
`cpu = 0`; and a core enters `spinlock_acquire` without holding the lock. Without
them an arbitrary state lets a stray release pass the test.

`KallocProofs`: the free list is exact, the allocator implements `FramePool`, and
frames arrive zeroed, for every range of frames above page 0. `FreeListExact`
with the types and "nothing is held before `kalloc_init`" is inductive; `depth` turns
reachability along `next` into an order on single links, so no induction over the
list is needed. `Pop`, `Push` and `Chain` each have a lemma.

`SleepLockProofs`, for every set of cores: types; the inner spin lock stays exclusive,
its word set exactly while it is owned, although `sleeplock_acquire` releases it a second
time after `sleep`, until a process on core 0 has slept (from then on it does not); nobody is registered as waiting while outside the lock's functions;
and the sleep lock is exclusive until the first `sleep`. A core's
steps inside the spin lock are steps of `SpinLock`, so its inductive invariant is
used as it stands, with all cores but core 0 straying (`Some`); that core 0 does not stray
before it sleeps is `ZeroKeeps`. `QuietInv` adds where the spin lock is held in the sleep lock's functions
and that the test of `locked` still stands between it and the store. `WakeInv`
adds that a process inside `wakeup` that is still registered itself has its own slot
still before it in the loop.

`ProcessProofs`: types, distinct pids and bounded waiting, for every number of
slots up to the number of pids and every memory size. `PidInv` adds to
`PidsDistinct` that a process outside slot 0 has a positive pid, that slot 0 has
pid 0 while it is FREE, and that the current slot is live unless it is slot 0: so a
tick that revives slot 0 brings back pid 0, which nobody else has. `WaitInv` says that the number of ticks that
passed a slot over plus the distance from the current slot to it is at most a
round; `DistStep` is the arithmetic of the ring.

The frames of processes, in the same module, for every number of slots and frames:
`FramesExclusive` and `ForkTakesTwoOrNone`. As no other frame is ever given back
before slot 0 is killed (the only process that can be, `process.c:100`), the list stays
the upper rest of memory: `FrameInv` says so (`RestListed`, `UsedBelow`), and after the
kill, which frees the null pointer of slot 0's stack, that at most its trap frame
is left on the list, so that every later fork fails for want of a frame.

`ContextSwitch` implements `Process` (`SwitchImplementsProcess`), and
`RegistersFollow` holds in it. A child gets the values of the last switch away from its
caller, so the invariant must speak of the stale `saved` fields too (`RegInv`), and
must know that a parent's slot is below its child's (`LineInv`), so that the line of
ancestors is a walk of bounded length.

`ExceptionProofs`: of `Context`, the types, registers through exceptions, and the growth
of the stack, for any number of system calls. `ContextInv` says for each step of the two
ways in and out where the registers of the interrupted code are: of the words of the
trap frame, all but those of x18 and x19. Of `Uart`, types and `OutputExact` for FIFOs,
messages and inputs of any length. `ControlInv` says which of `main` and the handler can
be about to store, and that there is room when they are. `OutputInv` adds what is in
flight: what is on the line, in the FIFO and in the handler's hand, followed by the echo
of what is still to be read, is the message followed by the echo of everything received.

`VmemProofs`: types, `TablesExclusive`, `MappingsStable`, `RegionInPlace` and
`RegionOnly`, for tables of any size, any range of frames and any regions and user
pages within the address space. `VmemInv` conjoins the last two with the
shape of memory (`TreeInv`): the list is the upper rest of the frames (`RestListed`;
`free_page` can only put page 0 in front of it), and there is an assignment of levels
to frames (`Tree`) under which a table of level i points to tables of level i + 1,
all below the head of the list and each through one entry. The level of a
table is not determined by what the root reaches: a table that `free_page` has
taken out keeps its level, and its frame, for ever. `IndicesUnique` says that
the four indices determine a page, `PathUnique` that two paths to one table of the
last level took the same indices, so that an entry that is set belongs to one page.
`TableRound` and `LeafRound` are the rounds of `get_physical_page`, `GetPage` the
whole of it (`Mapped`): it translates every other page, and a page already mapped, as
before and by the same entry. An action with a call of it then needs a few lines.

`RootfsProofs`: all six invariants of the run, for archives of any length and with any
names, sizes and modes, and for any number of slots for files and inodes. `RoundIs`
says what a round of `init_ramfs` does to each array, word by word (`IsRound`), so the
invariants need not look into the nested updates. They build on one another:

- types (`RootfsTypeOK`): inductive as they stand, with the fact that a walk over siblings that
  ends does so at a file or an inode, so that the store behind it stays in an array
  (`WalkEndsAt`);
- `HeaderInv`, for `HeadersFound`: unless a size was refused, `pos` is `header` and a
  multiple of four. `ValueIs` shows that `int_from_string`, which reads digits from the
  front, computes what cpio means by the places of the digits, or -1; `TotalIsSum`
  is the loop invariant between the two. `PaddedFrom` moves the padding, which the code
  counts from the entry, to the beginning of the archive, from which cpio counts;
- `AscendInv`, for `SiblingsAscend`: while the files fit, no pointer that may be followed
  as a file leads to the slot of the next file or above. It must cover the words of the inodes
  too, since a lookup by prefix may take a file for a directory;
- `DataInv`, for `DataInPlace`: the inodes of the files so far lie below the index the
  next one is sought at, which is at most twice the number of files with data;
- `TreeInv`, for `TreeOfArchive`: in an archive that is well named so far, each slot leads to
  the next of its directory, if there is one, a directory to its first, and the
  parents are right (`Tree`). `JoinsDirectory` shows that the search for the parent finds
  the directory and the walk its last entry (`WalkAlong`), so `init_ramfs` never goes
  astray here;
- `AnswerInv`, for `AnswersMatchArchive`: no answer is given before the archive has been
  read. `SearchFinds` and `WalkLists` are what `read` and `ls` use;
- `AstrayInv`, for `NeverAstray`, which the module states in addition to those of the run
  (in a well named archive the stage is never `astray`): `JoinsDirectory` for `init_ramfs`,
  and for `ls`, whatever slot it starts from, that a walk to ever higher slots ends
  (`AscentEnds`).

TLC has checked these invariants on the instance of the run `rootfs`, with `x` in `DataInv`
ranging over the numbers up to its bound.

`Iteration` has what these share. A loop is a function on `0..N`; there is exactly one
with a given start and round (`LoopUnique`, `LoopExists`), and induction over it takes
the set of rounds with the property in place of a predicate (`RoundInduction`), which
the provers can instantiate. The lemmas about `Listed`, `Line`, `Echo`, the digits
of a size and the walk over siblings rest on it.

Only model-checked: liveness (`SomeoneAcquires`, `SomeoneGetsIt`,
`EverythingEchoed`), which needs fairness and is out of the prover's reach. Every
invariant and every other property of the passing runs is proved. The constants' assumptions
(`CpuAssumption`, `CoreAssumption`, `KallocAssumption`, `ProcessAssumption`,
`ContextAssumption`, `RootfsAssumption`, `UartAssumption`, `VmemAssumption`) are checked by
TLC in the runs and, with the provisos named above, are all the proofs use.

## Not modelled

- `free_pagetable`, `clone_pagetable`: nothing calls them, and they pass pointers that
  were never set to `kalloc` and `kfree`, so that every outcome is possible.
- `copy_from_user`: the loop of `copy_to_user` with a store through the address that
  runs astray, which may change anything.
- the saved stack pointer and page table of a process: `sys_fork` points the former
  behind the new stack (`process.c:208` counts in frames) and nothing sets the latter.
- `uart_getc_sync` and `sleeplock_holds`, which have no caller: without effect
  on any state.
- `boot.S` and the rest of `low_level.c`: writes to system registers.
- the printing of `exception_handler`; `sysfile.c` and `sys_execve`, which have no
  code; the wrappers and demonstration programs under `user/`.
