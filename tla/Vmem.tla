-------------------------------- MODULE Vmem --------------------------------
(***************************************************************************)
(* The page tables of kernel/vmem.c: the kernel page table that main()     *)
(* builds, the mapping of regions and of single pages, and what            *)
(* map_region undoes when it runs out of frames.                           *)
(*                                                                         *)
(* Addresses are page numbers.  An entry of a table is abstracted to the   *)
(* fields the code reads back or chooses between: bit 10, the physical     *)
(* page, and which macro built it.  The physical address is stored shifted *)
(* left by 12 and read shifted right by 12, which is exact below 2^36.     *)
(* The code runs on one core with interrupts masked; each round of a loop  *)
(* over pages is a step.                                                   *)
(***************************************************************************)
EXTENDS FreeList, Integers, FiniteSets

CONSTANTS
    PENTRY_CNT,     \* entries of a table
    KernelPages,    \* [start, end): pages of _start.._end
    MmioPages,      \* [start, end): pages of MMIO_BASE..MMIO_END
    FirstFrame,     \* the frames of kalloc are FirstFrame..LastFrame
    LastFrame,
    Requests,       \* regions that callers map: [va, end, pa, kind]
    UserPages       \* user addresses that are copied to

Frames == FirstFrame..LastFrame
Index == 0..(PENTRY_CNT - 1)

\* Four levels of tables.
PageCount == PENTRY_CNT * (PENTRY_CNT * (PENTRY_CNT * PENTRY_CNT))
Pages == 0..(PageCount - 1)

\* Bound: sizes are counted in pages modulo this, 2^52 in the code: more than
\* there are pages, so that a size below zero is no physical address.
SizePages == PageCount + 1

\* A region [va, end) and the physical pages from pa on.
IsRegion(va, end, pa) ==
    /\ va \in Nat /\ end \in Nat /\ pa \in Nat
    /\ va <= end /\ end <= PageCount
    /\ pa + (end - va) <= PageCount

ASSUME VmemAssumption ==
    /\ PENTRY_CNT \in Nat \ {0}
    /\ FirstFrame \in Nat \ {0}
    /\ LastFrame \in Nat
    /\ Frames \subseteq Pages
    /\ IsRegion(KernelPages[1], KernelPages[2], KernelPages[1])
    /\ IsRegion(MmioPages[1], MmioPages[2], MmioPages[1])
    /\ \A r \in Requests : IsRegion(r.va, r.end, r.pa) /\ r.kind \in 0..3
    /\ UserPages \subseteq Pages

\* Which macro built an entry.  kind 0, 1, 2 of a request is KERNEL, DEVICE,
\* USER; any other kind is refused.
Entries ==
    [set : BOOLEAN, pa : Pages, as : {"NONE", "PGDPUD", "PMD", "KERNEL", "DEVICE", "USER"}]

KindName(kind) == <<"KERNEL", "DEVICE", "USER">>[kind + 1]

\* Memory and page table 0: nothing set.
Unset == [set |-> FALSE, pa |-> 0, as |-> "NONE"]
EmptyTable == [i \in Index |-> Unset]

VARIABLES
    list,       \* the free list
    table,      \* table[f]: frame f as a page table
    root,       \* the page table; NULL before it is allocated
    boot,       \* how far make_kpagetable is: start, kernel, mmio; then
                \* ready, failed or stuck (see free_page)
    job,        \* the loop that runs: op, the bounds of its region, the page
                \* it is at, its physical page and kind; in a copy these two
                \* are the size that is left, in pages and part of a page
    was         \* auxiliary: the translation when the loop began

vars == <<list, table, root, boot, job, was>>

Ops == {"idle", "map", "unmap", "copy"}
Idle == [op |-> "idle", start |-> 0, end |-> 0, va |-> 0, pa |-> 0, kind |-> 0]

Job(op, start, end, pa, kind) ==
    [op |-> op, start |-> start, end |-> end, va |-> start, pa |-> pa, kind |-> kind]

TypeOK ==
    /\ list \in Lists(Frames)
    /\ table \in [Frames -> [Index -> Entries]]
    /\ root \in Frames \cup {NULL}
    /\ boot \in {"start", "kernel", "mmio", "ready", "failed", "stuck"}
    /\ job \in [op : Ops, start : Nat, end : Nat, va : Nat, pa : Nat, kind : 0..3]
    /\ was \in [Pages -> Pages]

-----------------------------------------------------------------------------
GET_PAGE_SET_ByLevelBits(e) == e.as \in {"PGDPUD", "PMD"}

\* Bit 10 of an entry; the entries of pages have both level bits 0.
GET_PAGE_SET(e) == e.set

\* va shifted right by the indices of n levels.
Shifted(va, n) ==
    CASE n = 0 -> va
      [] n = 1 -> va \div PENTRY_CNT
      [] n = 2 -> (va \div PENTRY_CNT) \div PENTRY_CNT
      [] n = 3 -> ((va \div PENTRY_CNT) \div PENTRY_CNT) \div PENTRY_CNT

LVL_ADDR_ShiftTooFar(va, level) == Shifted(va \div PENTRY_CNT, 3 - level) % PENTRY_CNT

\* The index of va in a table of the given level.
LVL_ADDR(va, level) == Shifted(va, 3 - level) % PENTRY_CNT

\* What GET_PHYSICAL_ADDR finds in entry x of table f; NULL is no table.
Hop(t, f, x) == IF f = NULL THEN NULL ELSE t[f][x].pa

\* The tables on the way to va in the page table at rt and, at 4, its page;
\* NULL behind an entry that is not set.
Path(t, rt, va) ==
    LET f1 == Hop(t, rt, LVL_ADDR(va, 0))
        f2 == Hop(t, f1, LVL_ADDR(va, 1))
        f3 == Hop(t, f2, LVL_ADDR(va, 2))
        f4 == Hop(t, f3, LVL_ADDR(va, 3))
    IN  [i \in 0..4 |-> CASE i = 0 -> rt [] i = 1 -> f1 [] i = 2 -> f2
                          [] i = 3 -> f3 [] i = 4 -> f4]

Levels(va) == Path(table, root, va)

\* The page va is mapped to, or NULL.
Lookup(va) == Levels(va)[4]

\* The tables and pages reached from the root, by level.
Reached ==
    LET below(S) == {table[f][x].pa : f \in S, x \in Index} \ {NULL}
        r0 == {root} \ {NULL}
        r1 == below(r0)
        r2 == below(r1)
        r3 == below(r2)
    IN  [i \in 0..4 |-> CASE i = 0 -> r0 [] i = 1 -> r1 [] i = 2 -> r2
                           [] i = 3 -> r3 [] i = 4 -> below(r3)]

FreeFrames == Listed(list, LastFrame)

\* The macro for a table entry.  A leaf with a given physical page and kind 0
\* gets PGDPUD_ENTRY; an allocated one gets KERNEL_ENTRY.
MacroOf(level, pa, kind) ==
    CASE level < 2 -> "PGDPUD"
      [] level = 2 -> "PMD"
      [] level = 3 /\ pa # 0 /\ kind = 0 -> "PGDPUD"
      [] OTHER -> KindName(kind)

\* The entry for page p in a table of level i.
NewEntry(p, i, pa, kind) == [set |-> TRUE, pa |-> p, as |-> MacroOf(i, pa, kind)]

Cleared_Skipped(t, f) == t

\* kalloc clears the frame it hands out.
Cleared(t, f) == [t EXCEPT ![f] = EmptyTable]

\* What get_physical_page works on is a record: list, table, the table it is
\* at, and whether it has returned.  It can go on to a table or return a page;
\* set an entry of the table it is at; and take a frame from the list.
GoTo(w, p) == [w EXCEPT !.at = p]
Return(w, p) == [w EXCEPT !.at = p, !.returned = TRUE]
SetEntry(w, x, e) == [w EXCEPT !.table[w.at][x] = e]
Allocate(w) == [w EXCEPT !.list = Pop(w.list), !.table = Cleared(w.table, w.list.head)]

\* One round of its loop.  A kind it does not know makes it return NULL, after
\* kfree of the frame it may have allocated, which leaves the list as it was.
Level(w, i, va, pa, kind) ==
    LET x == LVL_ADDR(va, i)
        e == w.table[w.at][x]
        f == w.list.head
        known == i < 3 \/ kind \in 0..2
        given == i = 3 /\ pa # 0
    IN  IF w.returned THEN w
        ELSE IF GET_PAGE_SET(e) THEN GoTo(w, e.pa)
        ELSE IF known /\ given THEN Return(SetEntry(w, x, NewEntry(pa, i, pa, kind)), pa)
        ELSE IF known /\ ~given /\ f # NULL
             THEN GoTo(SetEntry(Allocate(w), x, NewEntry(f, i, pa, kind)), f)
        ELSE Return(w, NULL)

\* The whole of get_physical_page; its answer is in the field at.
get_physical_page(va, pa, kind) ==
    LET w0 == [list |-> list, table |-> table, at |-> root, returned |-> FALSE]
        w1 == Level(w0, 0, va, pa, kind)
        w2 == Level(w1, 1, va, pa, kind)
        w3 == Level(w2, 2, va, pa, kind)
    IN  Level(w3, 3, va, pa, kind)

-----------------------------------------------------------------------------
\* Memory holds anything before kalloc clears it: here, entries that point
\* to their own frame.  There are any number of frames, from none.
Init ==
    /\ \/ \E first \in Frames : list = Chain(Frames, first, LastFrame)
       \/ list = [head |-> NULL, next |-> [f \in Frames \cup {NULL} |-> NULL]]
    /\ table = [f \in Frames |-> [i \in Index |->
                    [set |-> TRUE, pa |-> f, as |-> "PGDPUD"]]]
    /\ root = NULL
    /\ boot = "start"
    /\ job = Idle
    /\ was = [va \in Pages |-> NULL]

\* The loop of map_region starts.  The translation before it is remembered.
Begin(start, end, pa, kind) ==
    /\ job' = Job("map", start, end, pa, kind)
    /\ was' = [va \in Pages |-> Lookup(va)]

\* make_kpagetable: the root, then map_region of the kernel image.
make_kpagetable ==
    /\ boot = "start"
    /\ list.head # NULL
    /\ root' = list.head
    /\ list' = Pop(list)
    /\ table' = Cleared(table, list.head)
    /\ boot' = "kernel"
    /\ Begin(KernelPages[1], KernelPages[2], KernelPages[1], 0)

\* make_kpagetable answers NULL.
make_kpagetable_failed ==
    /\ boot = "start"
    /\ list.head = NULL
    /\ boot' = "failed"
    /\ UNCHANGED <<list, table, root, job, was>>

\* A caller maps a region of its own.  Addresses here are whole pages; others
\* make map_region answer -1 with nothing changed.
map_region(r) ==
    /\ boot = "ready" /\ job.op = "idle"
    /\ Begin(r.va, r.end, r.pa, r.kind)
    /\ UNCHANGED <<list, table, root, boot>>

NextPage_SamePa(j) == [j EXCEPT !.va = @ + 1]
NextPage_PaInBytes(j) == [j EXCEPT !.va = @ + 1, !.pa = @ + 4096]

NextPage(j) == [j EXCEPT !.va = @ + 1, !.pa = @ + 1]

\* One round of map_region's loop: map_page of the next page.  If it fails,
\* unmap_region of the pages before it; the tables that this call of
\* get_physical_page has added stay.
map_page ==
    /\ job.op = "map" /\ job.va < job.end
    /\ LET w == get_physical_page(job.va, job.pa, job.kind)
       IN  /\ list' = w.list
           /\ table' = w.table
           /\ job' = IF w.at # NULL
                     THEN NextPage(job)
                     ELSE [job EXCEPT !.op = "unmap", !.va = job.start, !.end = job.va]
    /\ UNCHANGED <<root, boot, was>>

\* map_region ends without a return statement: what its caller finds is the
\* low half of the end address the loop compared last, which is not -1.
\* make_kpagetable goes on to the peripherals and then returns.
map_region_done ==
    /\ job.op = "map" /\ job.va = job.end
    /\ \/ /\ boot = "kernel"
          /\ boot' = "mmio"
          /\ Begin(MmioPages[1], MmioPages[2], MmioPages[1], 1)
       \/ /\ boot # "kernel"
          /\ boot' = "ready"
          /\ job' = Idle
          /\ UNCHANGED was
    /\ UNCHANGED <<list, table, root>>

\* unmap_region ends and map_region answers -1, on which make_kpagetable
\* answers NULL.
unmap_region_done ==
    /\ job.op = "unmap" /\ job.va = job.end
    /\ job' = Idle
    /\ boot' = IF boot = "ready" THEN "ready" ELSE "failed"
    /\ UNCHANGED <<list, table, root, was>>

\* free_page looks for the indices of all levels in the root.
Skips(va) == \E i \in 0..3 : ~GET_PAGE_SET(table[root][LVL_ADDR(va, i)])

\* The levels whose entry for va free_page resets: 3, and each one above a
\* table in which no other entry is set.
Resets(va) ==
    {i \in 0..3 : \A j \in (i + 1)..3 : \A x \in Index \ {LVL_ADDR(va, j)} :
                        ~GET_PAGE_SET(table[Levels(va)[j]][x])}

\* Whether the table of level i has nothing set once its entry is reset.
Empties(va, i) ==
    \A x \in Index \ {LVL_ADDR(va, i)} : ~GET_PAGE_SET(table[Levels(va)[i]][x])

\* One round of unmap_region's loop: free_page.  It calls kfree with a
\* pointer to the page where kfree takes a pointer to a pointer, so what is
\* freed is the address in the first word of the page.  That word is 0 in
\* the tables and in a page not written to: page 0 becomes the head of the
\* list, or the access faults.  Another word is taken to be no address of
\* memory, so that the access faults.
free_page ==
    /\ job.op = "unmap" /\ job.va < job.end
    /\ boot # "stuck"
    /\ \/ /\ Skips(job.va)
          /\ job' = [job EXCEPT !.va = @ + 1]
          /\ UNCHANGED <<list, table, boot>>
       \/ /\ ~Skips(job.va)
          /\ LET at == Levels(job.va)
                 frees == 1 + Cardinality({i \in Resets(job.va) : Empties(job.va, i)})
             IN  /\ table' = [f \in Frames |-> [x \in Index |->
                        IF \E i \in Resets(job.va) : f = at[i] /\ x = LVL_ADDR(job.va, i)
                        THEN Unset ELSE table[f][x]]]
                 /\ list' = IF frees = 1 THEN Push(list, NULL)
                            ELSE Push(Push(list, NULL), NULL)
          /\ job' = [job EXCEPT !.va = @ + 1]
          /\ UNCHANGED boot
       \/ /\ ~Skips(job.va)
          /\ boot' = "stuck"
          /\ UNCHANGED <<list, table, job>>
    /\ UNCHANGED <<root, was>>

\* copy_to_user of n pages and, if part is not 0, a part of one, counted from
\* the start of the page of its user address.  It returns if the bytes end in
\* the page of the kernel address, which need not be where they end in the
\* user's; else the size becomes size - PageSize plus a physical address.
\* Where there is no frame, the store to address 0 succeeds or faults.
copy_to_user(va, n, part) ==
    /\ boot = "ready" /\ job.op = "idle"
    /\ LET w == get_physical_page(va, 0, 2)
       IN  /\ list' = w.list
           /\ table' = w.table
           /\ \/ job' = Idle /\ UNCHANGED boot
              \/ /\ job' = Job("copy", va, 0, (w.at + n - 1) % SizePages, part)
                 /\ UNCHANGED boot
              \/ w.at = NULL /\ boot' = "stuck" /\ UNCHANGED job
    /\ UNCHANGED <<root, was>>

\* One round of its loop.  va is a pointer to words, so it moves on by eight
\* pages; the kernel address moves on by the size, to where there may be no
\* memory.  strcpy stores to one byte and ends for every size: its int wraps
\* and is compared as an unsigned word.  A size that is no multiple of a page
\* steps over zero, and the loop goes on.
copy_round ==
    /\ job.op = "copy" /\ boot = "ready"
    /\ job.pa # 0 \/ job.kind # 0
    /\ LET va == (job.va + 8) % PageCount
           w == get_physical_page(va, 0, 2)
       IN  /\ list' = w.list
           /\ table' = w.table
           /\ \/ /\ job' = [job EXCEPT !.va = va, !.pa = (@ - 1) % SizePages]
                 /\ UNCHANGED boot
              \/ boot' = "stuck" /\ UNCHANGED job
    /\ UNCHANGED <<root, was>>

copy_to_user_done ==
    /\ job.op = "copy"
    /\ job.pa = 0 /\ job.kind = 0
    /\ job' = Idle
    /\ UNCHANGED <<list, table, root, boot, was>>

\* After a fault, or a boot without page table, nothing more happens.
halted ==
    /\ boot \in {"failed", "stuck"}
    /\ UNCHANGED vars

Next ==
    \/ make_kpagetable \/ make_kpagetable_failed
    \/ \E r \in Requests : map_region(r)
    \/ map_page
    \/ map_region_done
    \/ free_page
    \/ unmap_region_done
    \/ \E va \in UserPages, n \in 0..1, part \in 0..1 : copy_to_user(va, n, part)
    \/ copy_round
    \/ copy_to_user_done
    \/ halted

Spec == Init /\ [][Next]_vars

-----------------------------------------------------------------------------
\* The physical pages that callers name.  kalloc_init links the first page of
\* the peripherals too, so that one of them can be a frame.
Span(va, end, pa) == pa..(pa + (end - va) - 1)
Given ==
    UNION {Span(KernelPages[1], KernelPages[2], KernelPages[1]),
           Span(MmioPages[1], MmioPages[2], MmioPages[1]),
           UNION {Span(r.va, r.end, r.pa) : r \in Requests}}

\* The frames that no caller names.
Own == Frames \ Given

\* The tables of level i and, for 4, the frames that were allocated as pages.
Owned(i) == IF i < 4 THEN Reached[i] ELSE Reached[4] \cap Own

\* The tables form a tree and nothing in it can be handed out again: every
\* frame is reached at one level, through one entry, and none is on the free
\* list.
TablesExclusive ==
    /\ \A i, j \in 0..4 : i # j => Owned(i) \cap Owned(j) = {}
    /\ \A i \in 0..3 : \A f, g \in Owned(i), x, y \in Index :
          /\ table[f][x].pa = table[g][y].pa
          /\ table[f][x].pa \in Owned(i + 1)
          => f = g /\ x = y
    /\ \A i \in 0..4 : Owned(i) \cap FreeFrames = {}

\* The entry of level 3 of a page that is mapped.
Leaf(va) == table[Levels(va)[3]][LVL_ADDR(va, 3)]

\* While nothing is unmapped, a page that is mapped stays mapped to the same
\* physical page by the same kind of entry, whatever else is mapped, over it
\* too: no two addresses share an entry.
MappingsStable ==
    [][job.op # "unmap" =>
          \A va \in Pages : Lookup(va) # NULL =>
              Lookup(va)' = Lookup(va) /\ Leaf(va)' = Leaf(va)]_vars

\* map_region maps the pages of its region one after the other to the
\* physical pages from pa on.  A page that was mapped before keeps its old
\* physical page, and a page asked for at 0 gets some frame.
RegionInPlace ==
    job.op = "map" =>
        \A va \in job.start..(job.va - 1) :
            LET pa == job.pa - (job.va - va)
            IN  Lookup(va) = IF was[va] # NULL THEN was[va]
                             ELSE IF pa # 0 THEN pa ELSE Lookup(va)

\* Pages outside the region, and those that map_region has not come to, are
\* as they were.
RegionOnly ==
    job.op = "map" =>
        \A va \in Pages \ (job.start..(job.va - 1)) : Lookup(va) = was[va]

-----------------------------------------------------------------------------
\* The frames of the page table and those it maps.
InTree == UNION {Reached[i] : i \in 0..4} \cap Frames

\* "free physical frame corresponding to vmaddr pages after that check if we
\* can free indirect pages if so do that too" (vmem.c:206): a frame that
\* free_page takes out of the page table can be allocated again.
FreedFramesReturn ==
    [][InTree \ InTree' \subseteq FreeFrames']_vars
=============================================================================
