------------------------------ MODULE SpinLock ------------------------------
(***************************************************************************)
(* The spin lock of kernel/lock.c, one step per access to the shared lock  *)
(* word or to its cpu field, so that the steps of different cores          *)
(* interleave as they do on the machine.                                   *)
(*                                                                         *)
(* A caller takes the lock and later gives it back.  One caller in the     *)
(* kernel does not keep to that: the loop in sleeplock_acquire calls       *)
(* sleep() again, and with it spinlock_release, when the lock has already  *)
(* been given back.  Strays is the set of cores whose callers may do so.   *)
(***************************************************************************)
EXTENDS Integers

CONSTANTS
    CPUS,       \* core numbers, as get_cpu_id returns them
    Strays      \* cores that may call spinlock_release without the lock

\* spinlock_init stores -1 in the cpu field.  Its type int8_t is a plain
\* char, which AArch64 makes unsigned, so the byte reads as 255.
NoCpu == 255

\* Core numbers are bytes that differ from NoCpu.
ASSUME CpuAssumption ==
    /\ CPUS \subseteq 0..(NoCpu - 1)
    /\ Strays \subseteq CPUS

VARIABLES
    locked,     \* lk->locked: 0 or 1
    cpu,        \* lk->cpu
    masked,     \* masked[c]: interrupts are disabled on core c (DAIF)
    pc,         \* pc[c]: the next step of core c inside a lock operation
    held        \* held[c]: core c returned from spinlock_acquire and not
                \* yet from spinlock_release

vars == <<locked, cpu, masked, pc, held>>

\* run:   outside the lock operations        tas:   __atomic_test_and_set
\* own:   about to store lk->cpu             reset: about to store cpu = 0
\* clear: about to do __atomic_clear
Steps == {"run", "tas", "own", "reset", "clear"}

TypeOK ==
    /\ locked \in {0, 1}
    /\ cpu \in CPUS \cup {0, NoCpu}
    /\ masked \in [CPUS -> BOOLEAN]
    /\ pc \in [CPUS -> Steps]
    /\ held \in [CPUS -> BOOLEAN]

-----------------------------------------------------------------------------
Goto(c, from, to) ==
    /\ pc[c] = from
    /\ pc' = [pc EXCEPT ![c] = to]

\* The core has the lock word set on its behalf.
Owns(c) == pc[c] = "own" \/ held[c]

\* spinlock_init, on a machine whose cores run with interrupts enabled.
Init ==
    /\ locked = 0
    /\ cpu = NoCpu
    /\ masked = [c \in CPUS |-> FALSE]
    /\ pc = [c \in CPUS |-> "run"]
    /\ held = [c \in CPUS |-> FALSE]

disable_interrupts_Skipped(c) == UNCHANGED masked

disable_interrupts(c) == masked' = [masked EXCEPT ![c] = TRUE]

\* spinlock_acquire: mask interrupts, then spin.
spinlock_acquire(c) ==
    /\ ~held[c]
    /\ Goto(c, "run", "tas")
    /\ disable_interrupts(c)
    /\ UNCHANGED <<locked, cpu, held>>

LockFree_Unchecked == TRUE

LockFree == locked = 0

\* The iteration of the spin loop that finds the lock free.  The others
\* store 1 over 1 and change nothing.
test_and_set(c) ==
    /\ LockFree
    /\ Goto(c, "tas", "own")
    /\ locked' = 1
    /\ UNCHANGED <<cpu, masked, held>>

get_cpu_id_Zero(c) == 0

get_cpu_id_FromOne(c) == c + 1

get_cpu_id(c) == c

\* lck->cpu = get_cpu_id(), and spinlock_acquire returns.
set_cpu(c) ==
    /\ Goto(c, "own", "run")
    /\ cpu' = get_cpu_id(c)
    /\ held' = [held EXCEPT ![c] = TRUE]
    /\ UNCHANGED <<locked, masked>>

spinlock_holds_Any(c) == TRUE

spinlock_holds(c) == cpu = get_cpu_id(c)

\* spinlock_release up to its test.  A caller that fails it gets -1, which
\* no caller in the kernel looks at: it goes on as if the lock were released.
spinlock_release(c) ==
    /\ held[c] \/ c \in Strays
    /\ \/ /\ spinlock_holds(c)
          /\ Goto(c, "run", "reset")
          /\ UNCHANGED held
       \/ /\ ~spinlock_holds(c)
          /\ pc[c] = "run"
          /\ held' = [held EXCEPT ![c] = FALSE]
          /\ UNCHANGED pc
    /\ UNCHANGED <<locked, cpu, masked>>

\* lck->cpu = 0: not the -1 of spinlock_init but the number of core 0.
ReleasedCpu == 0

reset_cpu(c) ==
    /\ Goto(c, "reset", "clear")
    /\ cpu' = ReleasedCpu
    /\ UNCHANGED <<locked, masked, held>>

Cleared_Kept == locked

Cleared == 0

\* __atomic_clear, and spinlock_release returns 0.
atomic_clear(c) ==
    /\ Goto(c, "clear", "run")
    /\ locked' = Cleared
    /\ held' = [held EXCEPT ![c] = FALSE]
    /\ UNCHANGED <<cpu, masked>>

\* Return to EL0: the saved program state has interrupts enabled.  Nothing in
\* lock.c unmasks them.
eret(c) ==
    /\ pc[c] = "run" /\ ~held[c]
    /\ masked' = [masked EXCEPT ![c] = FALSE]
    /\ UNCHANGED <<locked, cpu, pc, held>>

\* The steps a core takes by itself once it is inside a lock operation.
Inside(c) ==
    test_and_set(c) \/ set_cpu(c) \/ reset_cpu(c) \/ atomic_clear(c)

Next ==
    \E c \in CPUS :
        spinlock_acquire(c) \/ spinlock_release(c) \/ eret(c) \/ Inside(c)

Spec == Init /\ [][Next]_vars

\* A core keeps executing, and code that took the lock runs on to its
\* release: it is straight-line code with interrupts masked.  Nobody has to
\* ask for the lock, and no core is promised to win a race for the lock word.
Fairness ==
    \A c \in CPUS : /\ WF_vars(Inside(c))
                    /\ WF_vars(held[c] /\ spinlock_release(c))

FairSpec == Spec /\ Fairness

-----------------------------------------------------------------------------
\* At most one core is between the test-and-set that took the lock and the
\* clear that gives it back, even with stray releases from other cores.
MutualExclusion ==
    \A c, d \in CPUS : Owns(c) /\ Owns(d) => c = d

\* The lock word is set exactly while some core owns the lock: it is never
\* left set by a release that failed, nor cleared under its owner.
LockedIffOwned ==
    locked = 1 <=> \E c \in CPUS : Owns(c)

\* Only the holder gets past the test in spinlock_release; any other caller
\* is told -1, which lock.c calls a critical error.
StrayRefused ==
    \A c \in CPUS : pc[c] \in {"reset", "clear"} => held[c]

\* The holder's own release never fails: from the return of spinlock_acquire
\* to its own store of 0 the cpu field names the holder.
HolderKnown ==
    \A c \in CPUS : held[c] /\ pc[c] # "clear" => cpu = c

\* "disable interrupts to avoid deadlock" (lock.c): a core that spins for or
\* owns the lock cannot be interrupted by a handler that wants it as well.
OwnerMasked ==
    \A c \in CPUS : pc[c] = "tas" \/ Owns(c) => masked[c]

\* The lock implements the abstract one.
Abstract == INSTANCE Mutex WITH Agents <- CPUS, owners <- {c \in CPUS : Owns(c)}

ImplementsMutex == Abstract!Spec

\* When cores spin for the lock one of them gets it.  Which one is not said:
\* a test-and-set lock may pass over the same core for ever.
SomeoneAcquires ==
    (\E c \in CPUS : pc[c] = "tas") ~> (\E c \in CPUS : pc[c] = "own")
=============================================================================
