------------------------------- MODULE Mutex -------------------------------
(***************************************************************************)
(* What a lock promises its callers: at any time at most one of them owns  *)
(* it.  SpinLock is shown to implement this specification.                 *)
(***************************************************************************)
CONSTANT Agents       \* those who compete for the lock

VARIABLE owners       \* the agents that own the lock: {} or a singleton

Init == owners = {}

Acquire(a) ==
    /\ owners = {}
    /\ owners' = {a}

Release(a) ==
    /\ owners = {a}
    /\ owners' = {}

Next == \E a \in Agents : Acquire(a) \/ Release(a)

Spec == Init /\ [][Next]_owners
=============================================================================
