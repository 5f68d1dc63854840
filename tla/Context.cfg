\* Six system calls and any number of interrupts.
CONSTANT SyscallBound = 6
SPECIFICATION ContextSpec
INVARIANTS
    ContextTypeOK
    RegistersKept
    StackLeftBySyscalls
