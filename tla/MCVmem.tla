------------------------------- MODULE MCVmem -------------------------------
(***************************************************************************)
(* An instance of Vmem: tables of two entries, so 16 pages.  Page 1 is the *)
(* kernel image, pages 2 to 13 are frames, 13 to 15 the peripherals: the   *)
(* first page of the peripherals is the last frame of kalloc_init.         *)
(***************************************************************************)
EXTENDS Vmem

MCKernelPages == <<1, 2>>
MCMmioPages == <<13, 16>>

\* Two pages across the boundary between two tables of level 3, given the
\* peripherals; two pages of which the first is the kernel's; two pages from
\* physical address 0, in different halves; one of a kind that does not exist.
MCRequests ==
    {[va |-> 3, end |-> 5, pa |-> 14, kind |-> 1],
     [va |-> 1, end |-> 3, pa |-> 14, kind |-> 2],
     [va |-> 7, end |-> 9, pa |-> 0, kind |-> 0],
     [va |-> 9, end |-> 10, pa |-> 15, kind |-> 3]}

\* Pages in the table of a region and in one of their own.
MCUserPages == {0, 5, 12}
=============================================================================
