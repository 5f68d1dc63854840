-------------------------------- MODULE Boot --------------------------------
(***************************************************************************)
(* main() of kernel/main.c on core 0 up to the archive: the allocator of   *)
(* Kalloc is set up, make_kpagetable takes frames from it, enable_vmem     *)
(* turns on the MMU, and init_ramfs looks for the archive, which was       *)
(* loaded at RAMFS_START before.  Page numbers keep the order of the       *)
(* memory map: kernel image, frames, archive (0x8000000), frames,          *)
(* peripherals (0x3F000000).                                               *)
(***************************************************************************)
EXTENDS Kalloc, FiniteSets

CONSTANTS
    RamfsPage,  \* page of RAMFS_START - VKERN_START
    Tables,     \* frames that the kernel page table takes
    Mapped      \* pages that make_kpagetable maps: _start to _end and the
                \* peripherals

VARIABLES
    main,       \* the call main is at; failed: main has returned -1; fault:
                \* an exception while there is no vector table
    magic,      \* the first word of the archive is the one that was loaded
    ramfs       \* the answer of init_ramfs

BootInit ==
    /\ Init
    /\ main = "kalloc_init"
    /\ magic = TRUE
    /\ ramfs = "none"

\* kalloc_init stores a next pointer in the first word of all its frames.
main_kalloc_init ==
    /\ main = "kalloc_init"
    /\ kalloc_init
    /\ main' = "make_kpagetable"
    /\ magic' = (magic /\ RamfsPage \notin Frames)
    /\ UNCHANGED ramfs

\* A frame for the page table: kalloc clears it, the table is written to it.
main_kalloc ==
    /\ main = "make_kpagetable"
    /\ Cardinality(held) < Tables
    /\ kalloc
    /\ magic' = (magic /\ got' # RamfsPage)
    /\ UNCHANGED <<main, ramfs>>

\* make_kpagetable answers NULL, and main returns.
main_failed ==
    /\ main = "make_kpagetable"
    /\ Cardinality(held) < Tables
    /\ kalloc_empty
    /\ main' = "failed"
    /\ UNCHANGED <<magic, ramfs>>

main_enable_vmem ==
    /\ main = "make_kpagetable"
    /\ Cardinality(held) = Tables
    /\ main' = "init_ramfs"
    /\ UNCHANGED <<vars, magic, ramfs>>

\* check_magic reads the first header with the MMU on.  On -1 main goes on
\* without an archive.
main_init_ramfs ==
    /\ main = "init_ramfs"
    /\ RamfsPage \in Mapped
    /\ main' = "loop"
    /\ ramfs' = IF magic THEN "0" ELSE "-1"
    /\ UNCHANGED <<vars, magic>>

\* irq_vector_init is a later call of main.  "this is falls in range <_start,
\* _end>" (memory_map.h:41) is not so of RAMFS_START.
main_init_ramfs_fault ==
    /\ main = "init_ramfs"
    /\ RamfsPage \notin Mapped
    /\ main' = "fault"
    /\ UNCHANGED <<vars, magic, ramfs>>

main_loop ==
    /\ main \in {"loop", "failed", "fault"}
    /\ UNCHANGED <<vars, main, magic, ramfs>>

BootNext ==
    \/ main_kalloc_init
    \/ main_kalloc
    \/ main_failed
    \/ main_enable_vmem
    \/ main_init_ramfs
    \/ main_init_ramfs_fault
    \/ main_loop

BootSpec == BootInit /\ [][BootNext]_<<vars, main, magic, ramfs>>

-----------------------------------------------------------------------------
\* "init vm skip rootfs space" (kalloc.c:19), "vmem starts after rootfs_end so
\* we are good" (main.c:22): the archive is as it was loaded when init_ramfs
\* is called.
ArchiveIntact == main = "init_ramfs" => magic
=============================================================================
