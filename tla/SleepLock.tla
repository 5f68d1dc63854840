----------------------------- MODULE SleepLock -----------------------------
(***************************************************************************)
(* The sleep lock of kernel/lock.c with sleep() and wakeup() of            *)
(* kernel/process.c, on top of the spin lock inside it, whose steps are    *)
(* those of SpinLock.  One process runs on each core: nothing in these     *)
(* functions moves a process, so process c is the current process of core  *)
(* c, and lk is the one sleep lock.  Every store to a shared field is a    *)
(* step of its own.                                                        *)
(***************************************************************************)
EXTENDS Integers, FiniteSetsExt

CONSTANT CPUS           \* core numbers, as get_cpu_id returns them

VARIABLES
    locked, cpu, masked, pc, held,  \* the spin lock lk->spin_lk: see SpinLock
    lk_locked,  \* lk->locked: 0 or 1
    lk_pid,     \* lk->pid
    state,      \* state[p]: RUNNABLE or WAITING
    wait_on,    \* wait_on[p]: "lk" or "NULL"
    at,         \* at[c]: where core c is in the sleep lock operations
    todo,       \* todo[c]: processes the wakeup loop of core c has not visited
    slept       \* auxiliary: the processes that have called sleep()

spin_vars == <<locked, cpu, masked, pc, held>>
lock_vars == <<lk_locked, lk_pid>>
proc_vars == <<state, wait_on>>
vars == <<spin_vars, lock_vars, proc_vars, at, todo, slept>>

\* Any core may reach spinlock_release without the lock, through sleep().
Spin == INSTANCE SpinLock WITH Strays <- CPUS

ASSUME CoreAssumption == CPUS \subseteq 0..(Spin!NoCpu - 1)

\* idle: not in the lock             test:  while (lk->locked)
\* wait1, wait2, wait3: sleep()      take1, take2, take3: after the loop
\* cs: sleeplock_acquire returned    free1, free2: sleeplock_release
\* wake1, wake2, wake3: wakeup(), then the last line of sleeplock_release
Places == {"idle", "test", "wait1", "wait2", "wait3", "take1", "take2", "take3",
           "cs", "free1", "free2", "wake1", "wake2", "wake3"}

\* sizeof(struct process); process_array is aligned to 256 here.
ProcSize == 152

\* The low byte of &process_array[p].
PtrByte(p) == (p * ProcSize) % 256

TypeOK ==
    /\ Spin!TypeOK
    /\ lk_locked \in {0, 1}
    /\ lk_pid \in 0..255
    /\ state \in [CPUS -> {"RUNNABLE", "WAITING"}]
    /\ wait_on \in [CPUS -> {"lk", "NULL"}]
    /\ at \in [CPUS -> Places]
    /\ todo \in [CPUS -> SUBSET CPUS]
    /\ slept \subseteq CPUS

\* sleeplock_init.
Init ==
    /\ Spin!Init
    /\ lk_locked = 0
    /\ lk_pid = 0
    /\ state = [p \in CPUS |-> "RUNNABLE"]
    /\ wait_on = [p \in CPUS |-> "NULL"]
    /\ at = [c \in CPUS |-> "idle"]
    /\ todo = [c \in CPUS |-> {}]
    /\ slept = {}

-----------------------------------------------------------------------------
\* Core c goes on from one place to the next; it is not inside an operation
\* of the spin lock.
Step(c, from, to) ==
    /\ pc[c] = "run"
    /\ at[c] = from
    /\ at' = [at EXCEPT ![c] = to]

\* A step inside an operation of the spin lock.
spin(c) ==
    /\ Spin!Inside(c)
    /\ UNCHANGED <<lock_vars, proc_vars, at, todo, slept>>

sleeplock_acquire(c) ==
    /\ Step(c, "idle", "test")
    /\ Spin!spinlock_acquire(c)
    /\ UNCHANGED <<lock_vars, proc_vars, todo, slept>>

Taken_Ignored == FALSE

Taken == lk_locked = 1

\* while (lk->locked) sleep(lk, &lk->spin_lk).  After the first sleep() the
\* test runs without the spin lock.
test_locked(c) ==
    /\ \/ ~Taken /\ Step(c, "test", "take1") /\ UNCHANGED slept
       \/ Taken /\ Step(c, "test", "wait1") /\ slept' = slept \cup {c}
    /\ UNCHANGED <<spin_vars, lock_vars, proc_vars, todo>>

\* sleep(): p->state = WAITING; p->wait_on = lk; spinlock_release, and the
\* caller goes on, as the switch to another process is still to be written.
sleep_state(c) ==
    /\ Step(c, "wait1", "wait2")
    /\ state' = [state EXCEPT ![c] = "WAITING"]
    /\ UNCHANGED <<spin_vars, lock_vars, wait_on, todo, slept>>

sleep_wait_on(c) ==
    /\ Step(c, "wait2", "wait3")
    /\ wait_on' = [wait_on EXCEPT ![c] = "lk"]
    /\ UNCHANGED <<spin_vars, lock_vars, state, todo, slept>>

sleep_release(c) ==
    /\ Step(c, "wait3", "test")
    /\ Spin!spinlock_release(c)
    /\ UNCHANGED <<lock_vars, proc_vars, todo, slept>>

take_locked(c) ==
    /\ Step(c, "take1", "take2")
    /\ lk_locked' = 1
    /\ UNCHANGED <<spin_vars, lk_pid, proc_vars, todo, slept>>

\* lk->pid = get_current_process(): the low byte of a pointer.
take_pid(c) ==
    /\ Step(c, "take2", "take3")
    /\ lk_pid' = PtrByte(c)
    /\ UNCHANGED <<spin_vars, lk_locked, proc_vars, todo, slept>>

take_release(c) ==
    /\ Step(c, "take3", "cs")
    /\ Spin!spinlock_release(c)
    /\ UNCHANGED <<lock_vars, proc_vars, todo, slept>>

sleeplock_release(c) ==
    /\ Step(c, "cs", "free1")
    /\ Spin!spinlock_acquire(c)
    /\ UNCHANGED <<lock_vars, proc_vars, todo, slept>>

Freed_Kept == lk_locked

Freed == 0

free_locked(c) ==
    /\ Step(c, "free1", "free2")
    /\ lk_locked' = Freed
    /\ UNCHANGED <<spin_vars, lk_pid, proc_vars, todo, slept>>

Visits_Short == CPUS \ {Max(CPUS)}

Visits_PastEnd == CPUS \cup {Max(CPUS) + 1}

\* The processes that the loop of wakeup goes through.
Visits == CPUS

\* lk->pid = 0, and wakeup(lk) begins at process_array.
free_pid(c) ==
    /\ Step(c, "free2", "wake1")
    /\ lk_pid' = 0
    /\ todo' = [todo EXCEPT ![c] = Visits]
    /\ UNCHANGED <<spin_vars, lk_locked, proc_vars, slept>>

\* The process the wakeup loop is at: the array is in the order of slots.
visited(c) == Min(todo[c])

\* if (p->state == WAITING && p->wait_on == lk)
wakeup_test(c) ==
    /\ todo[c] # {}
    /\ IF state[visited(c)] = "WAITING" /\ wait_on[visited(c)] = "lk"
       THEN Step(c, "wake1", "wake2") /\ UNCHANGED todo
       ELSE /\ Step(c, "wake1", "wake1")
            /\ todo' = [todo EXCEPT ![c] = @ \ {visited(c)}]
    /\ UNCHANGED <<spin_vars, lock_vars, proc_vars, slept>>

wakeup_state(c) ==
    /\ Step(c, "wake2", "wake3")
    /\ state' = [state EXCEPT ![visited(c)] = "RUNNABLE"]
    /\ UNCHANGED <<spin_vars, lock_vars, wait_on, todo, slept>>

wakeup_wait_on(c) ==
    /\ Step(c, "wake3", "wake1")
    /\ wait_on' = [wait_on EXCEPT ![visited(c)] = "NULL"]
    /\ todo' = [todo EXCEPT ![c] = @ \ {visited(c)}]
    /\ UNCHANGED <<spin_vars, lock_vars, state, slept>>

\* wakeup() returns; the spin lock is given back.
free_release(c) ==
    /\ todo[c] = {}
    /\ Step(c, "wake1", "idle")
    /\ Spin!spinlock_release(c)
    /\ UNCHANGED <<lock_vars, proc_vars, todo, slept>>

Acquiring(c) ==
    \/ test_locked(c) \/ sleep_state(c) \/ sleep_wait_on(c) \/ sleep_release(c)
    \/ take_locked(c) \/ take_pid(c) \/ take_release(c)

Releasing(c) ==
    \/ sleeplock_release(c) \/ free_locked(c) \/ free_pid(c)
    \/ wakeup_test(c) \/ wakeup_state(c) \/ wakeup_wait_on(c) \/ free_release(c)

Next ==
    \E c \in CPUS :
        spin(c) \/ sleeplock_acquire(c) \/ Acquiring(c) \/ Releasing(c)

\* A core keeps executing inside the lock operations, and a process that has
\* the sleep lock gives it back.  Nobody has to ask for the lock.
Fairness ==
    \A c \in CPUS : WF_vars(spin(c) \/ Acquiring(c) \/ Releasing(c))

Spec == Init /\ [][Next]_vars /\ Fairness

-----------------------------------------------------------------------------
\* The process has the sleep lock: from its store lk->locked = 1 to the one
\* that clears it.
Owns(p) == at[p] \in {"take2", "take3", "cs", "free1"}

\* "spin lock protecting this SleepLock" (definitions.h:50): whoever has taken
\* the spin lock has it, alone, until its own release.
SpinProtects == Spin!MutualExclusion /\ Spin!LockedIffOwned

\* The spin lock inside stays a lock although processes that sleep release it
\* again and again without owning it, as long as the one on core 0 has not
\* slept: the released lock keeps the number of core 0 in its cpu field.
SpinStaysExclusive == 0 \notin slept => SpinProtects

\* As long as nobody had to wait, the sleep lock is a lock, and lk->locked
\* says so: the test and the stores of sleeplock_acquire and the stores of
\* sleeplock_release are one critical section of the spin lock.
ExclusiveUntilSleep ==
    slept = {} =>
        /\ \A p, q \in CPUS : Owns(p) /\ Owns(q) => p = q
        /\ lk_locked = 1 <=> \E p \in CPUS : Owns(p)

\* A process that is done with the lock is not registered as waiting for it:
\* whoever sets lk->locked to 0 wakes itself too if it was still registered.
NotRegisteredWhenIdle ==
    \A p \in CPUS : at[p] = "idle" => ~(state[p] = "WAITING" /\ wait_on[p] = "lk")

\* When processes wait for the sleep lock one of them gets it.
SomeoneGetsIt ==
    (\E p \in CPUS : at[p] = "test") ~> (\E p \in CPUS : at[p] = "cs")

-----------------------------------------------------------------------------
\* "Locking primitives are implemented" (Readme.md:26): two processes do not
\* have the sleep lock at the same time.
SleepLockExclusive ==
    \A p, q \in CPUS : at[p] = "cs" /\ at[q] = "cs" => p = q
=============================================================================
