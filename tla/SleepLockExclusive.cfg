\* Two cores, neither of them core 0.
CONSTANT CPUS = {1, 2}
SPECIFICATION Spec
INVARIANT SleepLockExclusive
