\* Two cores, one of them core 0.
CONSTANT CPUS = {0, 1}
SPECIFICATION Spec
INVARIANTS
    TypeOK
    SpinStaysExclusive
    ExclusiveUntilSleep
    NotRegisteredWhenIdle
PROPERTY SomeoneGetsIt
