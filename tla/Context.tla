------------------------------ MODULE Context ------------------------------
(***************************************************************************)
(* How user and kernel code give way to each other: uservec and userret of *)
(* kernel/user_context.S with the trap frame of the current process, and   *)
(* kernel_entry and kernel_exit of kernel/exception_vector.S with a frame  *)
(* on the kernel stack.  Interrupts are masked from the exception to its   *)
(* eret, so entry, handler and exit follow each other without a break.     *)
(*                                                                         *)
(* Register contents are abstracted to tokens: the values that user code   *)
(* left in the registers are all different, and Junk is what kernel code   *)
(* leaves in them.                                                         *)
(***************************************************************************)
EXTENDS Integers, FiniteSetsExt

CONSTANT SyscallBound   \* bound: user code makes this many system calls

ASSUME ContextAssumption == SyscallBound \in Nat

Registers == 0..30
Junk == 31
Values == 0..31

\* Words of a trap frame and of the frame of kernel_entry.
Words == 0..30

VARIABLES
    mode,       \* user, idle (the loop at the end of main), or the next step
                \* of the exception that is being handled
    from,       \* where the latest exception came from: user or idle
    via,        \* how it came: none yet, svc, irq
    regs,       \* the general registers
    trap,       \* the trap frame of the current process
    frame,      \* the frame kernel_entry made on the kernel stack
    used,       \* kernel stack in use, in units of 16 bytes
    calls,      \* auxiliary: how many system calls there were
    want        \* auxiliary: the registers when the exception was taken

contextVars == <<mode, from, via, regs, trap, frame, used, calls, want>>

Modes == {"user", "idle", "syscall", "userret", "handler", "exit"}

ContextTypeOK ==
    /\ mode \in Modes
    /\ from \in {"user", "idle"}
    /\ via \in {"none", "svc", "irq"}
    /\ regs \in [Registers -> Values]
    /\ trap \in [Words -> Values]
    /\ frame \in [Words -> Values]
    /\ used \in Nat
    /\ calls \in 0..SyscallBound
    /\ want \in [Registers -> Values]

\* Two ways in which the registers hold different values.
Ascending == [r \in Registers |-> r]
Descending == [r \in Registers |-> 30 - r]

\* main reaches its loop; no process has run.
ContextInit ==
    /\ mode = "idle"
    /\ from = "idle"
    /\ via = "none"
    /\ regs = Ascending
    /\ trap = [w \in Words |-> 0]
    /\ frame = [w \in Words |-> 0]
    /\ used = 0
    /\ calls = 0
    /\ want = Ascending

-----------------------------------------------------------------------------
\* user_start: eret to the first process, which create_first_process, at the
\* end of main, runs.
user_start ==
    /\ mode = "idle"
    /\ mode' = "user"
    /\ via' = "none"
    /\ want' = regs
    /\ UNCHANGED <<from, regs, trap, frame, used, calls>>

\* User code changes its registers.
user_code(values) ==
    /\ mode = "user"
    /\ regs' = values
    /\ want' = values
    /\ via' = "none"
    /\ UNCHANGED <<mode, from, trap, frame, used, calls>>

\* The word of the trap frame in which uservec stores a register: x18, x19
\* and x20, x21 are stored at the same offset, 16 * 9, in that order.
SaveWord(r) == IF r <= 19 THEN r ELSE r - 2

\* Every synchronous exception from user code: uservec.
uservec ==
    /\ mode = "user" /\ calls < SyscallBound
    /\ mode' = "syscall"
    /\ from' = "user"
    /\ via' = "svc"
    /\ want' = regs
    /\ trap' = [w \in Words |->
                   LET stored == {r \in Registers : SaveWord(r) = w}
                   IN  IF stored = {} THEN trap[w] ELSE regs[Max(stored)]]
    /\ regs' = [regs EXCEPT ![0] = regs[8], ![3] = Junk]
    /\ calls' = calls + 1
    /\ UNCHANGED <<frame, used>>

\* Registers that a C function need not preserve.
CallerSaved == 0..18

Clobbered == [r \in Registers |-> IF r \in CallerSaved THEN Junk ELSE regs[r]]

\* handle_syscall has no case enabled and branches to userret from inside
\* the C function, built with -O0: its stack frame of 16 bytes stays.
handle_syscall ==
    /\ mode = "syscall"
    /\ mode' = "userret"
    /\ regs' = Clobbered
    /\ used' = used + 1
    /\ UNCHANGED <<from, via, trap, frame, want, calls>>

LoadWord_Tenth(r) == IF r <= 17 THEN r ELSE IF r <= 19 THEN r - 2 ELSE r

\* The word of the trap frame from which userret loads a register: x18, x19
\* come from the words of x16, x17.
LoadWord(r) == IF r <= 17 THEN r ELSE r - 2

userret ==
    /\ mode = "userret"
    /\ mode' = "user"
    /\ regs' = [r \in Registers |-> trap[LoadWord(r)]]
    /\ UNCHANGED <<from, via, trap, frame, used, want, calls>>

\* An interrupt, or an exception that is only reported: kernel_entry.
kernel_entry ==
    /\ mode \in {"user", "idle"}
    /\ mode' = "handler"
    /\ from' = mode
    /\ via' = "irq"
    /\ want' = regs
    /\ frame' = [w \in Words |-> regs[w]]
    /\ used' = used + 16
    /\ UNCHANGED <<regs, trap, calls>>

\* handle_irq or exception_handler.
handler ==
    /\ mode = "handler"
    /\ mode' = "exit"
    /\ regs' = Clobbered
    /\ UNCHANGED <<from, via, trap, frame, used, want, calls>>

ExitPops_None == 0
ExitPops_Twice == 32

\* The frame of kernel_entry, in units of 16 bytes.
ExitPops == 16

kernel_exit ==
    /\ mode = "exit"
    /\ mode' = from
    /\ regs' = [r \in Registers |-> frame[r]]
    /\ used' = used - ExitPops
    /\ UNCHANGED <<from, via, trap, frame, want, calls>>

ContextNext ==
    \/ user_start
    \/ \E values \in {Ascending, Descending} : user_code(values)
    \/ uservec \/ handle_syscall \/ userret
    \/ kernel_entry \/ handler \/ kernel_exit

ContextSpec == ContextInit /\ [][ContextNext]_contextVars

-----------------------------------------------------------------------------
\* Registers of which the trap frame keeps no copy.
LostRegisters == {18, 19}

\* Code that was interrupted finds its registers as it left them, whatever
\* system calls and interrupts there were before.  Of system calls x18 and
\* x19 are left out: see UserStateKept.
RegistersKept ==
    mode \in {"user", "idle"} =>
        \A r \in Registers :
            (via = "svc" => r \notin LostRegisters) => regs[r] = want[r]

\* "save user state in trap frame" (exception_vector.S:156), "store rest of
\* registers there" (user_context.S:15): user code finds all its registers
\* again, after a system call too.
UserStateKept == mode = "user" => regs = want

\* Back in user code, the kernel stack is lower by the 16 bytes that every
\* system call so far has left on it, and interrupts have left nothing:
\* kernel_entry and kernel_exit are a pair, uservec and userret with
\* handle_syscall between them are not.
StackLeftBySyscalls ==
    mode \in {"user", "idle"} => used = calls

=============================================================================
