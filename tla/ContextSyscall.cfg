\* One system call.
CONSTANT SyscallBound = 1
SPECIFICATION ContextSpec
INVARIANT UserStateKept
