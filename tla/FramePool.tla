----------------------------- MODULE FramePool ------------------------------
(***************************************************************************)
(* What the page frame allocator promises: it hands out a frame nobody     *)
(* else has, and refuses only when there is none.  Kalloc is shown to      *)
(* implement this specification.                                           *)
(***************************************************************************)
EXTENDS Naturals

CONSTANTS
    Frames,     \* the page frames the allocator manages
    Refused     \* the answer when there is no frame

VARIABLES
    free,       \* frames that can be handed out
    held,       \* frames handed out and not given back
    got,        \* answer of the latest request: a frame or Refused
    turn        \* 0 or 1, changes with every answer: two answers that are
                \* the same are two steps

Init ==
    /\ free = {}
    /\ held = {}
    /\ got = Refused
    /\ turn = 0

Fill ==
    /\ free = {} /\ held = {}
    /\ free' = Frames
    /\ UNCHANGED <<held, got, turn>>

Take(f) ==
    /\ f \in free
    /\ free' = free \ {f}
    /\ held' = held \cup {f}
    /\ got' = f
    /\ turn' = 1 - turn

Refuse ==
    /\ free = {}
    /\ got' = Refused
    /\ turn' = 1 - turn
    /\ UNCHANGED <<free, held>>

Give(f) ==
    /\ f \in held
    /\ held' = held \ {f}
    /\ free' = free \cup {f}
    /\ UNCHANGED <<got, turn>>

Next ==
    \/ Fill
    \/ Refuse
    \/ \E f \in Frames : Take(f) \/ Give(f)

vars == <<free, held, got, turn>>

Spec == Init /\ [][Next]_vars
=============================================================================
