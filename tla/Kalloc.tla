------------------------------- MODULE Kalloc -------------------------------
(***************************************************************************)
(* The page frame allocator of kernel/kalloc.c with callers that free what *)
(* they were given, once, and meanwhile write what they like into it.  The *)
(* list is threaded through the first word of the frames themselves.       *)
(*                                                                         *)
(* The kernel runs on one core with interrupts masked while it allocates,  *)
(* so each call is one step.                                               *)
(***************************************************************************)
EXTENDS FreeList

CONSTANTS
    kalloc_start,   \* page number of _kalloc_start, page aligned by link.ld
    kalloc_end      \* page number of MMIO_BASE - VKERN_START

\* The kernel image is below the first frame, so that frame is not page 0.
ASSUME KallocAssumption ==
    /\ kalloc_start \in Nat \ {0}
    /\ kalloc_end \in Nat

\* The frames kalloc_init links.  The loop runs while current_address <=
\* kalloc_end, so the page at kalloc_end is one of them.
Frames ==
    IF kalloc_start + 1 < kalloc_end THEN kalloc_start .. kalloc_end ELSE {}

VARIABLES
    stage,      \* "boot" until kalloc_init has run, then "run"
    list,       \* page_frame_linked_list and the next words
    dirty,      \* frames whose data is not all zero
    held,       \* frames handed out and not freed
    got,        \* the answer of the latest kalloc: a frame, NULL for -1
    turn,       \* auxiliary: 0 or 1, changes with every answer of kalloc
    depth       \* auxiliary: how many frames of the list start at this one

vars == <<stage, list, dirty, held, got, turn, depth>>

\* The frames that should be in the list.
Pool == IF stage = "run" THEN Frames \ held ELSE {}

TypeOK ==
    /\ stage \in {"boot", "run"}
    /\ list \in Lists(Frames)
    /\ dirty \subseteq Frames
    /\ held \subseteq Frames
    /\ got \in Frames \cup {NULL}
    /\ turn \in {0, 1}
    /\ depth \in [Frames -> Nat]

-----------------------------------------------------------------------------
\* RAM holds anything; the list head, in .bss, is taken to be zero, which
\* matters only if kalloc_init finds no frames.
Init ==
    /\ stage = "boot"
    /\ list = [head |-> NULL, next |-> [f \in Frames \cup {NULL} |-> NULL]]
    /\ dirty = Frames
    /\ held = {}
    /\ got = NULL
    /\ turn = 0
    /\ depth = [f \in Frames |-> 0]

kalloc_init ==
    /\ stage = "boot"
    /\ stage' = "run"
    /\ list' = IF Frames = {} THEN list
               ELSE Chain(Frames, kalloc_start, kalloc_end)
    /\ depth' = [f \in Frames |-> kalloc_end + 1 - f]
    /\ UNCHANGED <<dirty, held, got, turn>>

clear_page_Skipped(f) == UNCHANGED dirty

clear_page(f) == dirty' = dirty \ {f}

kalloc ==
    /\ stage = "run"
    /\ list.head # NULL
    /\ got' = list.head
    /\ turn' = 1 - turn
    /\ held' = held \cup {list.head}
    /\ list' = Pop(list)
    /\ clear_page(list.head)
    /\ depth' = [depth EXCEPT ![list.head] = 0]
    /\ UNCHANGED stage

\* kalloc returns -1.
kalloc_empty ==
    /\ stage = "run"
    /\ list.head = NULL
    /\ got' = NULL
    /\ turn' = 1 - turn
    /\ UNCHANGED <<stage, list, dirty, held, depth>>

kfree(f) ==
    /\ f \in held
    /\ held' = held \ {f}
    /\ list' = Push(list, f)
    /\ clear_page(f)
    /\ depth' = [depth EXCEPT ![f] =
                    1 + IF list.head = NULL THEN 0 ELSE depth[list.head]]
    /\ UNCHANGED <<stage, got, turn>>

\* The holder of a frame writes into it, over the next pointer as well.
write(f, word) ==
    /\ f \in held
    /\ dirty' = dirty \cup {f}
    /\ list' = [list EXCEPT !.next[f] = word]
    /\ UNCHANGED <<stage, held, got, turn, depth>>

Next ==
    \/ kalloc_init
    \/ kalloc
    \/ kalloc_empty
    \/ \E f \in Frames : kfree(f)
    \/ \E f \in Frames, word \in Frames \cup {NULL} : write(f, word)

Spec == Init /\ [][Next]_vars

-----------------------------------------------------------------------------
\* From the head, the next pointers run through exactly the frames nobody
\* holds, each of them once, and end in NULL, whatever the holders of the
\* other frames wrote over theirs: every link leads one frame down, depths
\* are distinct, the head is the deepest and depth 1 is the end.
FreeListExact ==
    /\ \A f \in Frames : f \in Pool <=> depth[f] > 0
    /\ \A f, g \in Pool : depth[f] = depth[g] => f = g
    /\ list.head = NULL <=> Pool = {}
    /\ list.head # NULL => /\ list.head \in Pool
                           /\ \A f \in Pool : depth[f] <= depth[list.head]
    /\ \A f \in Pool :
          \/ depth[f] = 1 /\ list.next[f] = NULL
          \/ list.next[f] \in Pool /\ depth[list.next[f]] = depth[f] - 1

Abstract == INSTANCE FramePool WITH Refused <- NULL, free <- Pool

\* kalloc hands out only frames nobody holds and fails only when all are
\* held; kfree makes a frame available again and no other frame.
ImplementsFramePool == Abstract!Spec

\* A frame reaches its new holder all zero: nothing its former holder or the
\* list wrote into it is left, as page tables built in it require.
FreshFrameIsZero ==
    [][\A f \in held' \ held : f \notin dirty' /\ list'.next[f] = NULL]_vars
=============================================================================
