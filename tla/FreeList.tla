------------------------------ MODULE FreeList ------------------------------
(***************************************************************************)
(* The linked list of free page frames of kernel/kalloc.c as a value:      *)
(* page_frame_linked_list, and the next pointer that occupies the first    *)
(* word of every frame.  Frames are physical page numbers; NULL is page 0, *)
(* the address C calls NULL, and has a first word like any other page.     *)
(***************************************************************************)
EXTENDS Naturals

NULL == 0

Lists(Frames) ==
    [head : Frames \cup {NULL}, next : [Frames \cup {NULL} -> Frames \cup {NULL}]]

Chain_Unterminated(Frames, first, last) ==
    [head |-> first,
     next |-> [f \in Frames \cup {NULL} |-> IF f # NULL THEN f + 1 ELSE NULL]]

\* The list of kalloc_init: the frames first..last in ascending order.
Chain(Frames, first, last) ==
    [head |-> first,
     next |-> [f \in Frames \cup {NULL} |->
                  IF f # NULL /\ f < last THEN f + 1 ELSE NULL]]

Pop_KeepsHead(l) == l

\* kalloc's update when the list is not empty: unlink the head, and
\* clear_page zeroes its first word.
Pop(l) ==
    [head |-> l.next[l.head], next |-> [l.next EXCEPT ![l.head] = NULL]]

Push_Lost(l, f) == l

\* kfree: link the page in front of the list.
Push(l, f) ==
    [head |-> f, next |-> [l.next EXCEPT ![f] = l.head]]

\* The pages that calls of kalloc would hand out one after the other, n + 1
\* of them at most: the list ends at the first null pointer.
Listed(l, n) ==
    LET walk[i \in 0..n] ==
            IF i = 0 THEN l.head
            ELSE IF walk[i - 1] = NULL THEN NULL ELSE l.next[walk[i - 1]]
    IN  {walk[i] : i \in 0..n} \ {NULL}
=============================================================================
