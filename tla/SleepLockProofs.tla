-------------------------- MODULE SleepLockProofs --------------------------
(***************************************************************************)
(* The sleep lock for every set of cores.  What the spin lock inside it    *)
(* guarantees comes from SpinLockProofs, used in two ways: once every core *)
(* may have called sleep(), any of them may release the spin lock without  *)
(* owning it (All); before the process on core 0 has called sleep(), any   *)
(* but core 0 may (Some).                                                  *)
(***************************************************************************)
EXTENDS SleepLock, TLAPS

All == INSTANCE SpinLockProofs WITH Strays <- CPUS

Some == INSTANCE SpinLockProofs WITH Strays <- CPUS \ {0}

LEMMA AllAssumption == All!CpuAssumption
  BY CoreAssumption DEF All!CpuAssumption, All!NoCpu, Spin!NoCpu

LEMMA SomeAssumption == Some!CpuAssumption
  BY CoreAssumption DEF Some!CpuAssumption, Some!NoCpu, Spin!NoCpu

\* The operations of the spin lock that the sleep lock uses, as steps of the
\* spin lock of SpinLockProofs.
LEMMA SpinStep ==
    ASSUME NEW c \in CPUS
    PROVE  /\ Spin!Inside(c) => All!Inside(c) /\ Some!Inside(c)
           /\ Spin!spinlock_acquire(c) =>
                 All!spinlock_acquire(c) /\ Some!spinlock_acquire(c)
           /\ Spin!spinlock_release(c) => All!spinlock_release(c)
           /\ Spin!spinlock_release(c) /\ (held[c] \/ c # 0) =>
                 Some!spinlock_release(c)
<1> USE DEF Spin!Goto, All!Goto, Some!Goto
<1>1. Spin!Inside(c) => All!Inside(c)
  BY DEF Spin!Inside, Spin!test_and_set, Spin!set_cpu, Spin!reset_cpu,
         Spin!atomic_clear, Spin!LockFree, Spin!get_cpu_id, Spin!ReleasedCpu,
         Spin!Cleared,
         All!Inside, All!test_and_set, All!set_cpu, All!reset_cpu,
         All!atomic_clear, All!LockFree, All!get_cpu_id, All!ReleasedCpu,
         All!Cleared
<1>2. Spin!Inside(c) => Some!Inside(c)
  BY DEF Spin!Inside, Spin!test_and_set, Spin!set_cpu, Spin!reset_cpu,
         Spin!atomic_clear, Spin!LockFree, Spin!get_cpu_id, Spin!ReleasedCpu,
         Spin!Cleared,
         Some!Inside, Some!test_and_set, Some!set_cpu, Some!reset_cpu,
         Some!atomic_clear, Some!LockFree, Some!get_cpu_id, Some!ReleasedCpu,
         Some!Cleared
<1>3. Spin!spinlock_acquire(c) =>
         All!spinlock_acquire(c) /\ Some!spinlock_acquire(c)
  BY DEF Spin!spinlock_acquire, Spin!disable_interrupts,
         All!spinlock_acquire, All!disable_interrupts,
         Some!spinlock_acquire, Some!disable_interrupts
<1>4. Spin!spinlock_release(c) => All!spinlock_release(c)
  BY DEF Spin!spinlock_release, Spin!spinlock_holds, Spin!get_cpu_id,
         All!spinlock_release, All!spinlock_holds, All!get_cpu_id
<1>5. Spin!spinlock_release(c) /\ (held[c] \/ c # 0) => Some!spinlock_release(c)
  BY DEF Spin!spinlock_release, Spin!spinlock_holds, Spin!get_cpu_id,
         Some!spinlock_release, Some!spinlock_holds, Some!get_cpu_id
<1> QED
  BY <1>1, <1>2, <1>3, <1>4, <1>5

\* Every step of the sleep lock is a step of the spin lock inside it or
\* leaves that alone.
LEMMA SpinOrStutter ==
    ASSUME [Next]_vars
    PROVE  [All!Next]_(All!vars)
<1>1. CASE UNCHANGED vars
  BY <1>1 DEF vars, spin_vars, All!vars
<1>2. ASSUME NEW c \in CPUS,
             spin(c) \/ sleeplock_acquire(c) \/ sleeplock_release(c)
             \/ sleep_release(c) \/ take_release(c) \/ free_release(c)
      PROVE  All!Next
  <2>1. Spin!Inside(c) \/ Spin!spinlock_acquire(c) \/ Spin!spinlock_release(c)
    BY <1>2 DEF spin, sleeplock_acquire, sleeplock_release, sleep_release,
                take_release, free_release
  <2> QED
    BY <2>1, SpinStep DEF All!Next
<1>3. ASSUME NEW c \in CPUS,
             \/ test_locked(c) \/ sleep_state(c) \/ sleep_wait_on(c)
             \/ take_locked(c) \/ take_pid(c) \/ free_locked(c) \/ free_pid(c)
             \/ wakeup_test(c) \/ wakeup_state(c) \/ wakeup_wait_on(c)
      PROVE  UNCHANGED All!vars
  BY <1>3 DEF test_locked, sleep_state, sleep_wait_on, take_locked, take_pid,
              free_locked, free_pid, wakeup_test, wakeup_state, wakeup_wait_on,
              spin_vars, All!vars
<1> QED
  BY <1>1, <1>2, <1>3 DEF Next, Acquiring, Releasing

-----------------------------------------------------------------------------
LEMMA InitTypeOK == Init => TypeOK
<1> SUFFICES ASSUME Init PROVE TypeOK
  OBVIOUS
<1>1. Spin!TypeOK
  BY DEF Init, Spin!Init, Spin!TypeOK, Spin!Steps
<1> QED
  BY <1>1 DEF Init, TypeOK, Places

LEMMA NextTypeOK ==
    ASSUME TypeOK, [Next]_vars
    PROVE  TypeOK'
<1>1. Spin!TypeOK'
  <2>1. All!TypeOK
    BY DEF TypeOK, Spin!TypeOK, Spin!Steps, Spin!NoCpu,
           All!TypeOK, All!Steps, All!NoCpu
  <2>2. All!TypeOK'
    BY <2>1, SpinOrStutter, AllAssumption, All!NextTypeOK
  <2> QED
    BY <2>2 DEF Spin!TypeOK, Spin!Steps, Spin!NoCpu,
                All!TypeOK, All!Steps, All!NoCpu
<1> USE DEF TypeOK, Places, Step, lock_vars, proc_vars
<1>2. ASSUME NEW c \in CPUS, spin(c) \/ sleeplock_acquire(c)
      PROVE  TypeOK'
  BY <1>1, <1>2 DEF spin, sleeplock_acquire
<1>3. ASSUME NEW c \in CPUS, Acquiring(c)
      PROVE  TypeOK'
  <2>1. ASSUME test_locked(c) PROVE TypeOK'
    BY <1>1, <2>1 DEF test_locked
  <2>2. ASSUME sleep_state(c) \/ sleep_wait_on(c) \/ sleep_release(c)
        PROVE  TypeOK'
    BY <1>1, <2>2 DEF sleep_state, sleep_wait_on, sleep_release
  <2>3. ASSUME take_locked(c) \/ take_release(c) PROVE TypeOK'
    BY <1>1, <2>3 DEF take_locked, take_release
  <2>4. ASSUME take_pid(c) PROVE TypeOK'
    <3>1. c \in Int
      BY CoreAssumption DEF Spin!NoCpu
    <3>2. lk_pid' \in 0..255
      BY <2>4, <3>1 DEF take_pid, PtrByte, ProcSize
    <3> QED
      BY <1>1, <2>4, <3>2 DEF take_pid
  <2> QED
    BY <1>3, <2>1, <2>2, <2>3, <2>4 DEF Acquiring
<1>4. ASSUME NEW c \in CPUS, Releasing(c)
      PROVE  TypeOK'
  <2>1. ASSUME sleeplock_release(c) \/ free_locked(c) \/ free_release(c)
        PROVE  TypeOK'
    BY <1>1, <2>1 DEF sleeplock_release, free_locked, free_release, Freed
  <2>2. ASSUME free_pid(c) PROVE TypeOK'
    BY <1>1, <2>2 DEF free_pid, Visits
  <2>3. ASSUME wakeup_test(c) PROVE TypeOK'
    BY <1>1, <2>3 DEF wakeup_test
  <2>4. ASSUME wakeup_state(c) \/ wakeup_wait_on(c) PROVE TypeOK'
    BY <1>1, <2>4 DEF wakeup_state, wakeup_wait_on
  <2> QED
    BY <1>4, <2>1, <2>2, <2>3, <2>4 DEF Releasing
<1>5. CASE UNCHANGED vars
  BY <1>1, <1>5 DEF vars
<1> QED
  BY <1>2, <1>3, <1>4, <1>5 DEF Next

\* The fields keep their types for any set of cores: the process pointer
\* stored in lk->pid is cut to a byte.
THEOREM SleepLockTypeOK == Spec => []TypeOK
<1>1. TypeOK /\ [Next]_vars => TypeOK'
  BY NextTypeOK
<1> QED
  BY InitTypeOK, <1>1, PTL DEF Spec

-----------------------------------------------------------------------------
Registered(p) == state[p] = "WAITING" /\ wait_on[p] = "lk"

Waking(p) == at[p] \in {"wake1", "wake2", "wake3"}

\* Inductive invariant for NotRegisteredWhenIdle: a process in its own wakeup
\* loop that is still registered is yet to be visited by that loop.
WakesItself ==
    \A p \in CPUS : Waking(p) /\ Registered(p) => p \in todo[p]

WakeInv == TypeOK /\ WakesItself /\ NotRegisteredWhenIdle

LEMMA NextWakeInv ==
    ASSUME WakeInv, [Next]_vars
    PROVE  WakeInv'
<1>1. TypeOK /\ TypeOK'
  BY NextTypeOK DEF WakeInv
<1> USE DEF WakesItself, NotRegisteredWhenIdle, Registered, Waking, Step,
            lock_vars, proc_vars
<1> SUFFICES WakesItself' /\ NotRegisteredWhenIdle'
  BY <1>1 DEF WakeInv
<1>2. /\ at \in [CPUS -> Places] /\ todo \in [CPUS -> SUBSET CPUS]
      /\ state \in [CPUS -> {"RUNNABLE", "WAITING"}]
      /\ wait_on \in [CPUS -> {"lk", "NULL"}]
      /\ WakesItself /\ NotRegisteredWhenIdle
  BY <1>1 DEF TypeOK, WakeInv
<1>3. CASE UNCHANGED vars
  BY <1>2, <1>3 DEF vars
<1>4. ASSUME NEW c \in CPUS, spin(c) \/ sleeplock_acquire(c)
      PROVE  WakesItself' /\ NotRegisteredWhenIdle'
  BY <1>2, <1>4 DEF spin, sleeplock_acquire
<1>5. ASSUME NEW c \in CPUS, Acquiring(c)
      PROVE  WakesItself' /\ NotRegisteredWhenIdle'
  BY <1>2, <1>5
  DEF Acquiring, test_locked, sleep_state, sleep_wait_on, sleep_release,
      take_locked, take_pid, take_release
<1>6. ASSUME NEW c \in CPUS,
             \/ sleeplock_release(c) \/ free_locked(c) \/ free_pid(c)
             \/ free_release(c)
      PROVE  WakesItself' /\ NotRegisteredWhenIdle'
  BY <1>2, <1>6
  DEF sleeplock_release, free_locked, free_pid, free_release, Visits
<1>7. ASSUME NEW c \in CPUS, wakeup_test(c)
      PROVE  WakesItself' /\ NotRegisteredWhenIdle'
  \* The loop passes over a process only if that is not registered.
  BY <1>2, <1>7 DEF wakeup_test
<1>8. ASSUME NEW c \in CPUS, wakeup_state(c) \/ wakeup_wait_on(c)
      PROVE  WakesItself' /\ NotRegisteredWhenIdle'
  BY <1>2, <1>8 DEF wakeup_state, wakeup_wait_on
<1> QED
  BY <1>3, <1>4, <1>5, <1>6, <1>7, <1>8 DEF Next, Releasing

\* Nobody leaves the sleep lock registered as waiting for it, on any set of
\* cores and whatever becomes of the spin lock.
THEOREM SleepLockNotRegisteredWhenIdle == Spec => []NotRegisteredWhenIdle
<1>1. Init => WakeInv
  BY InitTypeOK
  DEF Init, WakeInv, WakesItself, NotRegisteredWhenIdle, Registered, Waking
<1>2. WakeInv /\ [Next]_vars => WakeInv'
  BY NextWakeInv
<1>3. WakeInv => NotRegisteredWhenIdle
  BY DEF WakeInv
<1> QED
  BY <1>1, <1>2, <1>3, PTL DEF Spec

-----------------------------------------------------------------------------
\* The places between the acquire and the release of the spin lock, as long
\* as nobody sleeps, and the places outside.
Section == {"test", "take1", "take2", "take3", "free1", "free2",
            "wake1", "wake2", "wake3"}

Outside == {"idle", "cs"}

\* Process c is inside a section exactly while its core holds the spin lock,
\* enters it for the lock and leaves it with the release under way.
KeepsSection(c) ==
    /\ at[c] \in Section \cup Outside
    /\ pc[c] = "run" => (held[c] <=> at[c] \in Section)
    /\ pc[c] \in {"tas", "own"} => at[c] \in {"test", "free1"}
    /\ pc[c] \in {"reset", "clear"} => at[c] \in Outside

SectionsHeld == \A c \in CPUS : KeepsSection(c)

ZeroKeeps == 0 \in CPUS => KeepsSection(0)

\* Inductive invariant for SpinStaysExclusive: before it sleeps, the process
\* on core 0 releases the spin lock only at the end of a section.
SpinInv ==
    /\ TypeOK
    /\ 0 \notin slept => Some!IInv /\ ZeroKeeps

LEMMA ZeroStep ==
    ASSUME ZeroKeeps, [Next]_vars, 0 \notin slept'
    PROVE  [Some!Next]_(Some!vars)
<1>1. CASE UNCHANGED vars
  BY <1>1 DEF vars, spin_vars, Some!vars
<1>2. ASSUME NEW c \in CPUS, spin(c) \/ sleeplock_acquire(c) \/ sleeplock_release(c)
      PROVE  Some!Next
  <2>1. Spin!Inside(c) \/ Spin!spinlock_acquire(c)
    BY <1>2 DEF spin, sleeplock_acquire, sleeplock_release
  <2> QED
    BY <2>1, SpinStep DEF Some!Next
<1>3. ASSUME NEW c \in CPUS, take_release(c) \/ free_release(c) \/ sleep_release(c)
      PROVE  Some!Next
  <2>1. /\ pc[c] = "run" /\ at[c] \in Section \cup {"wait3"}
        /\ Spin!spinlock_release(c)
    BY <1>3 DEF take_release, free_release, sleep_release, Step, Section
  <2>2. c = 0 => held[c]
    BY <2>1 DEF ZeroKeeps, KeepsSection, Section, Outside
  <2> QED
    BY <2>1, <2>2, SpinStep DEF Some!Next
<1>4. ASSUME NEW c \in CPUS,
             \/ test_locked(c) \/ sleep_state(c) \/ sleep_wait_on(c)
             \/ take_locked(c) \/ take_pid(c) \/ free_locked(c) \/ free_pid(c)
             \/ wakeup_test(c) \/ wakeup_state(c) \/ wakeup_wait_on(c)
      PROVE  UNCHANGED Some!vars
  BY <1>4 DEF test_locked, sleep_state, sleep_wait_on, take_locked, take_pid,
              free_locked, free_pid, wakeup_test, wakeup_state, wakeup_wait_on,
              spin_vars, Some!vars
<1> QED
  BY <1>1, <1>2, <1>3, <1>4 DEF Next, Acquiring, Releasing

\* Holders of the spin lock exclude each other, and its own release does not
\* fail.
LEMMA Holder ==
    ASSUME Some!IInv
    PROVE  /\ \A c, d \in CPUS : held[c] /\ held[d] => c = d
           /\ \A c \in CPUS : held[c] /\ pc[c] = "run" => cpu = c
  BY DEF Some!IInv, Some!MutualExclusion, Some!HolderKnown, Some!Owns

\* What a process does keeps its own section, as long as it does not sleep.
LEMMA NextKeeps ==
    ASSUME TypeOK, Some!IInv, [Next]_vars,
           NEW d \in CPUS, KeepsSection(d), d \notin slept'
    PROVE  KeepsSection(d)'
<1>1. /\ at \in [CPUS -> Places] /\ pc \in [CPUS -> Spin!Steps]
      /\ held \in [CPUS -> BOOLEAN]
  BY DEF TypeOK, Spin!TypeOK
<1> USE <1>1 DEF KeepsSection, Step, Section, Outside, Places, Spin!Steps,
        lock_vars, proc_vars
<1>2. CASE UNCHANGED vars
  BY <1>2 DEF vars, spin_vars
<1>3. ASSUME NEW c \in CPUS, spin(c)
      PROVE  KeepsSection(d)'
  BY <1>3
  DEF spin, Spin!Inside, Spin!test_and_set, Spin!set_cpu, Spin!reset_cpu,
      Spin!atomic_clear, Spin!Goto
<1>4. ASSUME NEW c \in CPUS, sleeplock_acquire(c) \/ sleeplock_release(c)
      PROVE  KeepsSection(d)'
  BY <1>4
  DEF sleeplock_acquire, sleeplock_release, Spin!spinlock_acquire, Spin!Goto
<1>5. ASSUME NEW c \in CPUS, take_release(c) \/ free_release(c) \/ sleep_release(c)
      PROVE  KeepsSection(d)'
  <2>1. CASE c # d
    BY <1>5, <2>1 DEF take_release, free_release, sleep_release,
       Spin!spinlock_release, Spin!Goto
  <2>2. CASE c = d
    <3>1. pc[c] = "run" /\ at[c] \in Section /\ Spin!spinlock_release(c)
      BY <1>5, <2>2 DEF take_release, free_release, sleep_release
    <3>2. Spin!spinlock_holds(c)
      BY <2>2, <3>1, Holder DEF Spin!spinlock_holds, Spin!get_cpu_id
    <3>3. /\ pc' = [pc EXCEPT ![c] = "reset"] /\ held' = held
      BY <3>1, <3>2 DEF Spin!spinlock_release, Spin!Goto
    <3> QED
      BY <1>5, <2>2, <3>3 DEF take_release, free_release, sleep_release
  <2> QED
    BY <2>1, <2>2
<1>6. ASSUME NEW c \in CPUS, test_locked(c)
      PROVE  KeepsSection(d)'
  BY <1>6 DEF test_locked, spin_vars
<1>7. ASSUME NEW c \in CPUS,
             \/ sleep_state(c) \/ sleep_wait_on(c) \/ take_locked(c) \/ take_pid(c)
      PROVE  KeepsSection(d)'
  BY <1>7 DEF sleep_state, sleep_wait_on, take_locked, take_pid, spin_vars
<1>8. ASSUME NEW c \in CPUS,
             \/ free_locked(c) \/ free_pid(c)
             \/ wakeup_test(c) \/ wakeup_state(c) \/ wakeup_wait_on(c)
      PROVE  KeepsSection(d)'
  BY <1>8
  DEF free_locked, free_pid, wakeup_test, wakeup_state, wakeup_wait_on, spin_vars
<1> QED
  BY <1>2, <1>3, <1>4, <1>5, <1>6, <1>7, <1>8 DEF Next, Acquiring, Releasing

\* Who has slept stays among those who have.
LEMMA SleptGrows ==
    ASSUME [Next]_vars
    PROVE  slept \subseteq slept'
  BY DEF Next, spin, sleeplock_acquire, Acquiring, test_locked, sleep_state,
         sleep_wait_on, sleep_release, take_locked, take_pid, take_release,
         Releasing, sleeplock_release, free_locked, free_pid, wakeup_test,
         wakeup_state, wakeup_wait_on, free_release, vars

LEMMA InitSome == Init => Some!IInv
<1>1. Init => Some!Init
  BY DEF Init, Spin!Init, Spin!NoCpu, Some!Init, Some!NoCpu
<1> QED
  BY <1>1, SomeAssumption, Some!InitIInv

LEMMA NextSome ==
    ASSUME Some!IInv, ZeroKeeps, [Next]_vars, 0 \notin slept'
    PROVE  Some!IInv'
  BY ZeroStep, SomeAssumption, Some!NextIInv

\* The spin lock inside stays a lock under the stray releases of sleep(), for
\* any set of cores, until the process on core 0 sleeps: only that core's
\* stray release can pass the test of spinlock_release.
THEOREM SleepLockSpinStaysExclusive == Spec => []SpinStaysExclusive
<1>1. Init => SpinInv
  <2> SUFFICES ASSUME Init PROVE SpinInv
    OBVIOUS
  <2>1. ZeroKeeps
    BY DEF Init, Spin!Init, ZeroKeeps, KeepsSection, Section, Outside
  <2> QED
    BY <2>1, InitSome, InitTypeOK DEF SpinInv
<1>2. SpinInv /\ [Next]_vars => SpinInv'
  <2> SUFFICES ASSUME SpinInv, [Next]_vars PROVE SpinInv'
    OBVIOUS
  <2>1. TypeOK /\ TypeOK'
    BY NextTypeOK DEF SpinInv
  <2>2. ASSUME 0 \notin slept' PROVE Some!IInv' /\ ZeroKeeps'
    <3>1. Some!IInv /\ ZeroKeeps
      BY <2>2, SleptGrows DEF SpinInv
    <3>2. Some!IInv'
      BY <2>2, <3>1, NextSome
    <3>3. ZeroKeeps'
      BY <2>1, <2>2, <3>1, NextKeeps DEF ZeroKeeps
    <3> QED
      BY <3>2, <3>3
  <2> QED
    BY <2>1, <2>2 DEF SpinInv
<1>3. SpinInv => SpinStaysExclusive
  BY DEF SpinInv, Some!IInv, Some!MutualExclusion, Some!LockedIffOwned, Some!Owns,
         SpinStaysExclusive, SpinProtects, Spin!MutualExclusion,
         Spin!LockedIffOwned, Spin!Owns
<1> QED
  BY <1>1, <1>2, <1>3, PTL DEF Spec

-----------------------------------------------------------------------------
\* lk->locked, tested in a section, is the truth until the section ends.
TestStands == \A c \in CPUS : at[c] = "take1" => lk_locked = 0

\* Inductive invariant for ExclusiveUntilSleep.  It holds for core 0 as well:
\* before the first sleep() nobody releases what it does not own.
QuietInv ==
    /\ TypeOK
    /\ slept = {} => /\ Some!IInv
                     /\ SectionsHeld
                     /\ TestStands
    /\ ExclusiveUntilSleep

\* Whoever stores lk->locked owns the spin lock, so the stores of different
\* cores do not meet.
LEMMA NextExclusive ==
    ASSUME TypeOK, slept = {}, Some!IInv, SectionsHeld, TestStands,
           ExclusiveUntilSleep, [Next]_vars, slept' = {}
    PROVE  TestStands' /\ ExclusiveUntilSleep'
<1>1. /\ at \in [CPUS -> Places] /\ lk_locked \in {0, 1}
      /\ \A p, q \in CPUS : Owns(p) /\ Owns(q) => p = q
      /\ lk_locked = 1 <=> \E p \in CPUS : Owns(p)
  BY DEF TypeOK, ExclusiveUntilSleep
<1> USE <1>1 DEF TestStands, ExclusiveUntilSleep, Owns, Step, lock_vars, proc_vars
<1>2. ASSUME NEW c \in CPUS, NEW d \in CPUS, pc[c] = "run", pc[d] = "run",
             at[c] \in Section, at[d] \in Section
      PROVE  c = d
  BY <1>2, Holder DEF SectionsHeld, KeepsSection
<1>3. CASE UNCHANGED vars
  BY <1>3 DEF vars
<1>4. ASSUME NEW c \in CPUS, spin(c)
      PROVE  TestStands' /\ ExclusiveUntilSleep'
  BY <1>4 DEF spin
<1>5. ASSUME NEW c \in CPUS,
             sleeplock_acquire(c) \/ sleeplock_release(c)
      PROVE  TestStands' /\ ExclusiveUntilSleep'
  BY <1>5 DEF sleeplock_acquire, sleeplock_release
<1>6. ASSUME NEW c \in CPUS, test_locked(c)
      PROVE  TestStands' /\ ExclusiveUntilSleep'
  BY <1>6 DEF test_locked, Taken
<1>7. ASSUME NEW c \in CPUS, take_locked(c)
      PROVE  TestStands' /\ ExclusiveUntilSleep'
  <2>1. \A p \in CPUS : ~Owns(p)
    BY <1>7 DEF take_locked
  <2>2. \A d \in CPUS : at[d] = "take1" => pc[d] = "run"
    BY DEF SectionsHeld, KeepsSection, TypeOK, Spin!TypeOK, Spin!Steps, Outside
  <2>3. \A d \in CPUS : at[d] = "take1" => d = c
    BY <1>2, <1>7, <2>2 DEF take_locked, Section
  <2> QED
    BY <1>7, <2>1, <2>3 DEF take_locked
<1>8. ASSUME NEW c \in CPUS, take_pid(c) \/ take_release(c)
      PROVE  TestStands' /\ ExclusiveUntilSleep'
  BY <1>8 DEF take_pid, take_release
<1>9. ASSUME NEW c \in CPUS, sleep_state(c) \/ sleep_wait_on(c) \/ sleep_release(c)
      PROVE  FALSE
  BY <1>9 DEF sleep_state, sleep_wait_on, sleep_release, SectionsHeld,
              KeepsSection, Section, Outside
<1>10. ASSUME NEW c \in CPUS, free_locked(c)
       PROVE  TestStands' /\ ExclusiveUntilSleep'
  BY <1>10 DEF free_locked, Freed
<1>11. ASSUME NEW c \in CPUS,
              \/ free_pid(c) \/ wakeup_test(c) \/ wakeup_state(c)
              \/ wakeup_wait_on(c) \/ free_release(c)
       PROVE  TestStands' /\ ExclusiveUntilSleep'
  BY <1>11
  DEF free_pid, wakeup_test, wakeup_state, wakeup_wait_on, free_release
<1> QED
  BY <1>3, <1>4, <1>5, <1>6, <1>7, <1>8, <1>9, <1>10, <1>11
  DEF Next, Acquiring, Releasing

LEMMA NextQuietInv ==
    ASSUME QuietInv, [Next]_vars
    PROVE  QuietInv'
<1>1. TypeOK /\ TypeOK'
  BY NextTypeOK DEF QuietInv
<1>2. slept \subseteq slept'
  BY SleptGrows
<1>3. CASE slept' # {}
  BY <1>1, <1>3 DEF QuietInv, ExclusiveUntilSleep
<1>4. CASE slept' = {}
  <2>1. slept = {} /\ Some!IInv /\ SectionsHeld /\ TestStands /\ ExclusiveUntilSleep
    BY <1>2, <1>4 DEF QuietInv
  <2>2. Some!IInv'
    BY <1>4, <2>1, NextSome DEF SectionsHeld, ZeroKeeps
  <2>3. SectionsHeld'
    <3> SUFFICES ASSUME NEW d \in CPUS PROVE KeepsSection(d)'
      BY DEF SectionsHeld
    <3>1. KeepsSection(d)
      BY <2>1 DEF SectionsHeld
    <3> QED
      BY <1>1, <1>4, <2>1, <3>1, NextKeeps
  <2>4. TestStands' /\ ExclusiveUntilSleep'
    BY <1>1, <1>4, <2>1, NextExclusive
  <2> QED
    BY <1>1, <2>2, <2>3, <2>4 DEF QuietInv
<1> QED
  BY <1>3, <1>4

\* As long as nobody had to wait the sleep lock is a lock, for any set of
\* cores, core 0 included.
THEOREM SleepLockExclusiveUntilSleep == Spec => []ExclusiveUntilSleep
<1>1. Init => QuietInv
  <2> SUFFICES ASSUME Init PROVE QuietInv
    OBVIOUS
  <2>1. Some!IInv
    BY InitSome
  <2>2. SectionsHeld /\ TestStands /\ ExclusiveUntilSleep
    BY DEF Init, Spin!Init, SectionsHeld, KeepsSection, Section, Outside, TestStands,
           ExclusiveUntilSleep, Owns
  <2> QED
    BY <2>1, <2>2, InitTypeOK DEF QuietInv
<1>2. QuietInv /\ [Next]_vars => QuietInv'
  BY NextQuietInv
<1>3. QuietInv => ExclusiveUntilSleep
  BY DEF QuietInv
<1> QED
  BY <1>1, <1>2, <1>3, PTL DEF Spec
=============================================================================
