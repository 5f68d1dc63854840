\* The four cores of the board; the callers on cores 1 to 3 also release without the lock.
CONSTANTS
    CPUS = {0, 1, 2, 3}
    Strays = {1, 2, 3}
SPECIFICATION FairSpec
INVARIANTS
    TypeOK
    MutualExclusion
    LockedIffOwned
    StrayRefused
    HolderKnown
    OwnerMasked
PROPERTIES
    ImplementsMutex
    SomeoneAcquires
