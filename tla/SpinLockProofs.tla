--------------------------- MODULE SpinLockProofs ---------------------------
(***************************************************************************)
(* The safety of the spin lock for every set of cores, provided that core  *)
(* 0 releases the lock only when it holds it.  The other cores may release *)
(* it whenever they like.                                                  *)
(***************************************************************************)
EXTENDS SpinLock, TLAPS

\* Inductive invariant.  Besides the properties themselves it says that a
\* cpu field other than 0 names a holder, which is why the stray release of
\* a core other than 0 fails, that the holder about to clear the lock word
\* has taken its number out of the cpu field, and that a core enters the lock
\* operations without holding the lock.
CpuNamesHolder == \A c \in CPUS : cpu = c /\ c # 0 => held[c]

ClearsAnonymous == \A c \in CPUS : pc[c] = "clear" => cpu = 0

EntersFree == \A c \in CPUS : pc[c] \in {"tas", "own"} => ~held[c]

IInv ==
    /\ TypeOK
    /\ MutualExclusion
    /\ LockedIffOwned
    /\ StrayRefused
    /\ HolderKnown
    /\ OwnerMasked
    /\ CpuNamesHolder
    /\ ClearsAnonymous
    /\ EntersFree

LEMMA InitTypeOK == Init => TypeOK
  BY CpuAssumption DEF Init, TypeOK, Steps

\* Types are kept by every step of the lock, whoever releases it.
LEMMA NextTypeOK ==
    ASSUME TypeOK, [Next]_vars
    PROVE  TypeOK'
<1> USE DEF TypeOK, Steps, Goto, LockFree, get_cpu_id, ReleasedCpu, Cleared
<1>1. ASSUME NEW c \in CPUS, spinlock_acquire(c)
      PROVE  TypeOK'
  BY <1>1 DEF spinlock_acquire, disable_interrupts
<1>2. ASSUME NEW c \in CPUS, spinlock_release(c)
      PROVE  TypeOK'
  BY <1>2 DEF spinlock_release
<1>3. ASSUME NEW c \in CPUS, eret(c)
      PROVE  TypeOK'
  BY <1>3 DEF eret
<1>4. ASSUME NEW c \in CPUS, Inside(c)
      PROVE  TypeOK'
  BY <1>4 DEF Inside, test_and_set, set_cpu, reset_cpu, atomic_clear
<1>5. CASE UNCHANGED vars
  BY <1>5 DEF vars
<1> QED
  BY <1>1, <1>2, <1>3, <1>4, <1>5 DEF Next

\* The fields of the lock and of the cores keep their types for any number
\* of cores, core 0 and its stray releases included.
THEOREM SpinLockTypeOK == Spec => []TypeOK
<1>1. TypeOK /\ [Next]_vars => TypeOK'
  BY NextTypeOK
<1> QED
  BY InitTypeOK, <1>1, PTL DEF Spec

LEMMA InitIInv == Init => IInv
  BY CpuAssumption DEF Init, IInv, TypeOK, Steps, MutualExclusion,
     LockedIffOwned, StrayRefused, HolderKnown, OwnerMasked,
     CpuNamesHolder, ClearsAnonymous, EntersFree, Owns, NoCpu

\* Core 0 is excluded from the stray callers because a released lock names
\* it as the holder: reset_cpu stores 0.
LEMMA NextIInv ==
    ASSUME 0 \notin Strays, IInv, [Next]_vars
    PROVE  IInv'
<1> USE CpuAssumption DEF IInv, TypeOK, Steps, MutualExclusion,
        LockedIffOwned, StrayRefused, HolderKnown, OwnerMasked,
        CpuNamesHolder, ClearsAnonymous, EntersFree, Owns, NoCpu, Goto,
        LockFree, get_cpu_id, ReleasedCpu, Cleared
<1>1. ASSUME NEW c \in CPUS, spinlock_acquire(c)
      PROVE  IInv'
  BY <1>1 DEF spinlock_acquire, disable_interrupts
<1>2. ASSUME NEW c \in CPUS, spinlock_release(c)
      PROVE  IInv'
  <2>1. CASE cpu = c
    \* The caller gets past the test: it is the holder.
    <3>1. held[c]
      BY <1>2, <2>1 DEF spinlock_release
    <3>2. /\ pc[c] = "run" /\ pc' = [pc EXCEPT ![c] = "reset"]
          /\ UNCHANGED <<locked, cpu, masked, held>>
      BY <1>2, <2>1 DEF spinlock_release, spinlock_holds
    <3> QED
      BY <2>1, <3>1, <3>2
  <2>2. CASE cpu # c
    \* The caller is told -1: it did not hold the lock, nothing changes.
    <3>1. pc[c] = "run" /\ held' = [held EXCEPT ![c] = FALSE]
      BY <1>2, <2>2 DEF spinlock_release, spinlock_holds
    <3>2. ~held[c]
      BY <2>2, <3>1
    <3>3. UNCHANGED vars
      BY <1>2, <2>2, <3>1, <3>2
      DEF spinlock_release, spinlock_holds, vars
    <3> QED
      BY <3>3 DEF vars
  <2> QED
    BY <2>1, <2>2
<1>3. ASSUME NEW c \in CPUS, eret(c)
      PROVE  IInv'
  BY <1>3 DEF eret
<1>4. ASSUME NEW c \in CPUS, test_and_set(c)
      PROVE  IInv'
  BY <1>4 DEF test_and_set
<1>5. ASSUME NEW c \in CPUS, set_cpu(c)
      PROVE  IInv'
  BY <1>5 DEF set_cpu
<1>6. ASSUME NEW c \in CPUS, reset_cpu(c)
      PROVE  IInv'
  BY <1>6 DEF reset_cpu
<1>7. ASSUME NEW c \in CPUS, atomic_clear(c)
      PROVE  IInv'
  BY <1>7 DEF atomic_clear
<1>8. CASE UNCHANGED vars
  BY <1>8 DEF vars
<1> QED
  BY <1>1, <1>2, <1>3, <1>4, <1>5, <1>6, <1>7, <1>8 DEF Next, Inside

\* The lock keeps its invariant for any number of cores, with stray releases
\* from every core but core 0.
THEOREM SpinLockInvariant ==
    ASSUME 0 \notin Strays
    PROVE  Spec => []IInv
<1>1. IInv /\ [Next]_vars => IInv'
  BY NextIInv
<1> QED
  BY InitIInv, <1>1, PTL DEF Spec

\* Mutual exclusion of spinlock_acquire ... spinlock_release.
THEOREM SpinLockMutualExclusion ==
    ASSUME 0 \notin Strays
    PROVE  Spec => []MutualExclusion
<1>1. IInv => MutualExclusion
  BY DEF IInv
<1> QED
  BY SpinLockInvariant, <1>1, PTL

\* A release by a core that does not hold the lock is refused.
THEOREM SpinLockStrayRefused ==
    ASSUME 0 \notin Strays
    PROVE  Spec => []StrayRefused
<1>1. IInv => StrayRefused
  BY DEF IInv
<1> QED
  BY SpinLockInvariant, <1>1, PTL

\* The lock word is set exactly while some core owns the lock.
THEOREM SpinLockLockedIffOwned ==
    ASSUME 0 \notin Strays
    PROVE  Spec => []LockedIffOwned
<1>1. IInv => LockedIffOwned
  BY DEF IInv
<1> QED
  BY SpinLockInvariant, <1>1, PTL

\* The holder's own release never fails.
THEOREM SpinLockHolderKnown ==
    ASSUME 0 \notin Strays
    PROVE  Spec => []HolderKnown
<1>1. IInv => HolderKnown
  BY DEF IInv
<1> QED
  BY SpinLockInvariant, <1>1, PTL

\* A core that spins for or owns the lock has its interrupts masked.
THEOREM SpinLockOwnerMasked ==
    ASSUME 0 \notin Strays
    PROVE  Spec => []OwnerMasked
<1>1. IInv => OwnerMasked
  BY DEF IInv
<1> QED
  BY SpinLockInvariant, <1>1, PTL

\* Every step of the lock is a step of the abstract lock or a stutter: the
\* successful test-and-set acquires it and the clear releases it.
LEMMA StepImplementsMutex ==
    ASSUME 0 \notin Strays, IInv, [Next]_vars
    PROVE  [Abstract!Next]_{c \in CPUS : Owns(c)}
<1> DEFINE O == {c \in CPUS : Owns(c)}
<1> USE CpuAssumption DEF IInv, TypeOK, Steps, MutualExclusion,
        LockedIffOwned, StrayRefused, HolderKnown, EntersFree, Owns, Goto,
        LockFree, get_cpu_id, ReleasedCpu, Cleared
<1>1. ASSUME NEW c \in CPUS, spinlock_acquire(c)
      PROVE  O' = O
  BY <1>1 DEF spinlock_acquire
<1>2. ASSUME NEW c \in CPUS, spinlock_release(c)
      PROVE  O' = O
  <2>1. held' = held
    <3>1. CASE spinlock_holds(c)
      BY <1>2, <3>1 DEF spinlock_release
    <3>2. CASE ~spinlock_holds(c)
      <4>1. pc[c] = "run" /\ held' = [held EXCEPT ![c] = FALSE]
        BY <1>2, <3>2 DEF spinlock_release
      <4>2. held[c] = FALSE
        BY <3>2, <4>1 DEF spinlock_holds
      <4> QED
        BY <4>1, <4>2
    <3> QED
      BY <3>1, <3>2
  <2>2. pc' = pc \/ (pc[c] = "run" /\ pc' = [pc EXCEPT ![c] = "reset"])
    BY <1>2 DEF spinlock_release
  <2> QED
    BY <2>1, <2>2
<1>3. ASSUME NEW c \in CPUS, eret(c)
      PROVE  O' = O
  BY <1>3 DEF eret
<1>4. ASSUME NEW c \in CPUS, test_and_set(c)
      PROVE  Abstract!Acquire(c)
  <2>1. \A d \in CPUS : ~Owns(d)
    BY <1>4 DEF test_and_set
  <2>2. \A d \in CPUS : Owns(d)' <=> d = c
    BY <1>4, <2>1 DEF test_and_set
  <2> QED
    BY <2>1, <2>2 DEF Abstract!Acquire
<1>5. ASSUME NEW c \in CPUS, set_cpu(c)
      PROVE  O' = O
  BY <1>5 DEF set_cpu
<1>6. ASSUME NEW c \in CPUS, reset_cpu(c)
      PROVE  O' = O
  BY <1>6 DEF reset_cpu
<1>7. ASSUME NEW c \in CPUS, atomic_clear(c)
      PROVE  Abstract!Release(c)
  <2>1. \A d \in CPUS : Owns(d) <=> d = c
    BY <1>7 DEF atomic_clear
  <2>2. \A d \in CPUS : ~Owns(d)'
    BY <1>7, <2>1 DEF atomic_clear
  <2> QED
    BY <2>1, <2>2 DEF Abstract!Release
<1>8. CASE UNCHANGED vars
  BY <1>8 DEF vars
<1> QED
  BY <1>1, <1>2, <1>3, <1>4, <1>5, <1>6, <1>7, <1>8
  DEF Next, Inside, Abstract!Next

\* The spin lock implements the abstract lock.
THEOREM SpinLockImplementsMutex ==
    ASSUME 0 \notin Strays
    PROVE  Spec => ImplementsMutex
<1>1. Init => Abstract!Init
  BY DEF Init, Abstract!Init, Owns
<1>2. IInv /\ [Next]_vars => [Abstract!Next]_{c \in CPUS : Owns(c)}
  BY StepImplementsMutex
<1> QED
  BY SpinLockInvariant, <1>1, <1>2, PTL DEF Spec, ImplementsMutex, Abstract!Spec
=============================================================================
