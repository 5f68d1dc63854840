--------------------------- MODULE ContextSwitch ---------------------------
(***************************************************************************)
(* The process table of Process together with the registers: switch_to of  *)
(* kernel/user_context.S, which the scheduler calls, and what sys_fork and *)
(* kill_process do to the registers saved in a slot.                       *)
(*                                                                         *)
(* x19 to x28, fp and lr are saved, loaded, copied and zeroed together, so *)
(* they are one value: the slot whose process computed them, or Zero.  The *)
(* stack pointer stays out: sys_fork points it behind the new stack.       *)
(***************************************************************************)
EXTENDS Process

VARIABLES
    regs,       \* the registers of the core
    saved,      \* saved[s]: the fields x19..x28, fp, lr of the slot
    parent,     \* parent[s], or NoProcess
    wrote       \* auxiliary: slots whose process has computed values of its own

switch_vars == <<regs, saved, parent, wrote>>

Zero == -1
NoProcess == -1

SwitchTypeOK ==
    /\ TypeOK
    /\ regs \in Slots \cup {Zero}
    /\ saved \in [Slots -> Slots \cup {Zero}]
    /\ parent \in [Slots -> Slots \cup {NoProcess}]
    /\ wrote \subseteq Slots

SwitchInit ==
    /\ Init
    /\ regs = Zero
    /\ saved = [s \in Slots |-> Zero]
    /\ parent = [s \in Slots |-> NoProcess]
    /\ wrote = {}

-----------------------------------------------------------------------------
free_registers(s) == [saved EXCEPT ![s] = Zero]

first_process ==
    /\ create_first_process
    /\ saved' = free_registers(0)
    /\ UNCHANGED <<regs, parent, wrote>>

\* The registers of the new process: those saved when its caller was last
\* switched away from, read after those of the new process were zeroed.  The
\* two are the same slot when the caller was killed while it was current.
Copied(s) == [free_registers(s) EXCEPT ![s] = free_registers(s)[current]]

\* A fault comes before the copy.
fork(s, p) ==
    /\ sys_fork(s, p)
    /\ \/ /\ stage' = "run"
          /\ saved' = Copied(s)
          /\ parent' = [parent EXCEPT ![s] = current]
          /\ wrote' = wrote \ {s}
       \/ /\ stage' = "stuck"
          /\ saved' = free_registers(s)
          /\ UNCHANGED <<parent, wrote>>
    /\ UNCHANGED regs

kill(p) ==
    /\ kill_process(p)
    /\ saved' = free_registers(0)
    /\ wrote' = wrote \ {0}
    /\ UNCHANGED <<regs, parent>>

Stores_InNext(prev, next) == [saved EXCEPT ![next] = regs]

\* The first half of switch_to, then the second.
Stores(prev, next) == [saved EXCEPT ![prev] = regs]

switch_to(prev, next) ==
    /\ saved' = Stores(prev, next)
    /\ regs' = saved'[next]

tick(n) ==
    /\ scheduler(n)
    /\ switch_to(current, n)
    /\ UNCHANGED <<parent, wrote>>

\* The current process computes.
user_code ==
    /\ stage = "run"
    /\ regs' = current
    /\ wrote' = wrote \cup {current}
    /\ UNCHANGED <<vars, saved, parent>>

SwitchNext ==
    \/ first_process
    \/ \E s \in Slots, p \in Pids : fork(s, p)
    \/ \E p \in Pids : kill(p)
    \/ \E n \in Slots : tick(n)
    \/ user_code
    \/ /\ \/ sys_fork_refused
          \/ \E s \in Slots : sys_fork_undone(s)
          \/ \E p \in Pids : kill_process_refused(p)
          \/ sleep
          \/ wakeup
          \/ fault_again
       /\ UNCHANGED switch_vars

SwitchSpec == SwitchInit /\ [][SwitchNext]_<<vars, switch_vars>>

-----------------------------------------------------------------------------
\* The registers of the process in a slot.
RegistersOf(s) == IF s = current THEN regs ELSE saved[s]

\* The slots that parent pointers lead to from a slot, itself among them.
LineOf(pointers, s) ==
    LET line[i \in 0..PROCCNT] ==
            IF i = 0 THEN {s}
            ELSE line[i - 1] \cup ({pointers[t] : t \in line[i - 1]} \ {NoProcess})
    IN  line[PROCCNT]

\* The processes a process descends from.
Line(s) == LineOf(parent, s)

\* A process finds the values it has computed again after any number of
\* switches, forks, sleeps and wakeups of others.  Before it has computed
\* any, it has zeros or what a process it descends from left behind, never
\* the values of a third.  Only a slot that was killed may be confused.
RegistersFollow ==
    stage = "run" =>
        \A s \in LiveSlots \ killed :
            /\ s \in wrote => RegistersOf(s) = s
            /\ s \notin wrote => RegistersOf(s) \in {Zero} \cup Line(s)
=============================================================================
