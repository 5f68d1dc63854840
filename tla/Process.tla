------------------------------ MODULE Process ------------------------------
(***************************************************************************)
(* The process table of kernel/process.c: creation, fork, kill, sleep,     *)
(* wakeup and the round robin of the timer interrupt, with the page frames *)
(* the processes own taken from the free list of kalloc.c.                 *)
(*                                                                         *)
(* One core runs processes and a handler runs to its end with interrupts   *)
(* masked, so each handler is one step.  The entry points in exceptions.c  *)
(* are commented out for now; here the current process makes the calls.    *)
(***************************************************************************)
EXTENDS FreeList, Integers, FiniteSets

CONSTANTS
    PROCCNT,    \* slots of process_array
    MaxPid,     \* the largest pid a uint8_t holds
    LastFrame   \* page frames are the pages 1..LastFrame

\* There are fewer slots than pids, so getpid finds one that is not in use.
ASSUME ProcessAssumption ==
    /\ PROCCNT \in Nat \ {0}
    /\ MaxPid \in Nat /\ PROCCNT <= MaxPid
    /\ LastFrame \in Nat \ {0, 1}

Slots == 0..(PROCCNT - 1)
Frames == 1..LastFrame
Pids == 0..MaxPid

\* RUNNING is never assigned.
States == {"FREE", "RUNNABLE", "WAITING", "KILLED"}

VARIABLES
    stage,          \* boot; run; stuck: an access through a null pointer
                    \* faulted, and exception_handler returns to it for ever
    list,           \* the free list
    state, pid, stack_frame, trap_frame, wait_on,   \* fields of the slots
    current,        \* tpidr_el1: the slot of the current process
    killed,         \* auxiliary: slots on which kill_process has succeeded
    passed          \* auxiliary: passed[s] counts the ticks that found slot s
                    \* RUNNABLE and chose another, since s last ran

fields == <<state, pid, stack_frame, trap_frame, wait_on>>
vars == <<stage, list, fields, current, killed, passed>>

TypeOK ==
    /\ stage \in {"boot", "run", "stuck"}
    /\ list \in Lists(Frames)
    /\ state \in [Slots -> States]
    /\ pid \in [Slots -> Pids]
    /\ stack_frame \in [Slots -> Frames \cup {NULL}]
    /\ trap_frame \in [Slots -> Frames \cup {NULL}]
    /\ wait_on \in [Slots -> {"lk", "NULL"}]
    /\ current \in Slots
    /\ killed \subseteq Slots
    /\ passed \in [Slots -> Nat]

\* process_array is in .bss: clear_bss zeroes every other word of it and the
\* others are taken to be zero, as memory is under QEMU.  The kernel page table has taken the frames
\* before first; at least two are left.
Init ==
    /\ stage = "boot"
    /\ \E first \in 1..(LastFrame - 1) : list = Chain(Frames, first, LastFrame)
    /\ state = [s \in Slots |-> "FREE"]
    /\ pid = [s \in Slots |-> 0]
    /\ stack_frame = [s \in Slots |-> NULL]
    /\ trap_frame = [s \in Slots |-> NULL]
    /\ wait_on = [s \in Slots |-> "NULL"]
    /\ current = 0
    /\ killed = {}
    /\ passed = [s \in Slots |-> 0]

-----------------------------------------------------------------------------
\* Slot 0 gets a trap frame.  The frame allocated for the stack is not stored
\* in the slot: stack_frame stays null.
create_first_process ==
    /\ stage = "boot"
    /\ stage' = "run"
    /\ list' = Pop(Pop(list))
    /\ trap_frame' = [trap_frame EXCEPT ![0] = Pop(list).head]
    /\ state' = [state EXCEPT ![0] = "RUNNABLE"]
    /\ pid' = [pid EXCEPT ![0] = 0]
    /\ current' = 0
    /\ UNCHANGED <<stack_frame, wait_on, killed, passed>>

getpid_FirstSlotOnly(p) ==
    /\ p # 0
    /\ pid[0] # p
    /\ \A q \in 1..(p - 1) : pid[0] = q

\* getpid answers p: the least positive number no slot has as its pid.
getpid(p) ==
    /\ p # 0
    /\ \A s \in Slots : pid[s] # p
    /\ \A q \in 1..(p - 1) : \E s \in Slots : pid[s] = q

\* The first FREE slot.
FirstFree(s) ==
    /\ state[s] = "FREE"
    /\ \A t \in Slots : t < s => state[t] # "FREE"

\* sys_fork by the current process.  The child's stack receives the first
\* byte of the caller's, read through a null pointer if the caller is the
\* first process: the read succeeds or faults.
sys_fork(s, p) ==
    /\ stage = "run"
    /\ FirstFree(s)
    /\ getpid(p)
    /\ list.head # NULL /\ Pop(list).head # NULL
    /\ list' = Pop(Pop(list))
    /\ stack_frame' = [stack_frame EXCEPT ![s] = list.head]
    /\ trap_frame' = [trap_frame EXCEPT ![s] = Pop(list).head]
    /\ \/ /\ pid' = [pid EXCEPT ![s] = p]
          /\ state' = [state EXCEPT ![s] = "RUNNABLE"]
          /\ UNCHANGED stage
       \/ /\ stack_frame'[current] = NULL
          /\ stage' = "stuck"
          /\ state' = [state EXCEPT ![s] = "WAITING"]
          /\ UNCHANGED pid
    /\ UNCHANGED <<wait_on, current, killed, passed>>

\* sys_fork answers -1 with nothing changed: no FREE slot, or no frame.
sys_fork_refused ==
    /\ stage = "run"
    /\ list.head = NULL \/ \A s \in Slots : state[s] # "FREE"
    /\ UNCHANGED <<stage, list, fields, current, killed, passed>>

\* sys_fork answers -1 after it has given back the frame of the stack.
sys_fork_undone(s) ==
    /\ stage = "run"
    /\ FirstFree(s)
    /\ list.head # NULL /\ Pop(list).head = NULL
    /\ list' = Push(Pop(list), list.head)
    /\ stack_frame' = [stack_frame EXCEPT ![s] = NULL]
    /\ UNCHANGED <<stage, state, pid, trap_frame, wait_on, current, killed, passed>>

\* kill_process finds the pid in slot 0 and frees its frames; the slot keeps
\* its pointers to them.  kfree of a null pointer succeeds, which makes page
\* 0 the head of the list, or faults.
kill_process(p) ==
    /\ stage = "run"
    /\ pid[0] = p
    /\ pid' = [pid EXCEPT ![0] = 0]
    /\ \/ /\ list' = Push(Push(list, stack_frame[0]), trap_frame[0])
          /\ state' = [state EXCEPT ![0] = "FREE"]
          /\ killed' = killed \cup {0}
          /\ passed' = [passed EXCEPT ![0] = 0]
          /\ UNCHANGED stage
       \/ /\ stack_frame[0] = NULL
          /\ stage' = "stuck"
          /\ state' = [state EXCEPT ![0] = "KILLED"]
          /\ UNCHANGED <<list, killed, passed>>
    /\ UNCHANGED <<stack_frame, trap_frame, wait_on, current>>

\* The pid is not in slot 0: the test "i = PROCCNT - 1" assigns and is true,
\* so kill_process answers -1 without a look at the other slots.
kill_process_refused(p) ==
    /\ stage = "run"
    /\ pid[0] # p
    /\ UNCHANGED <<stage, list, fields, current, killed, passed>>

Dist_FromZero(c, s) == IF s = c THEN PROCCNT ELSE s + 1

\* How many slots after c the scheduler's loop comes to s; to c itself last.
Dist(c, s) == IF s > c THEN s - c ELSE s + PROCCNT - c

Resumed_Running == [state EXCEPT ![current] = "RUNNING"]

Resumed == [state EXCEPT ![current] = "RUNNABLE"]

\* The timer interrupt: the current process becomes RUNNABLE, whatever it
\* was, and the next RUNNABLE slot in a round becomes current.
scheduler(n) ==
    /\ stage = "run"
    /\ state' = Resumed
    /\ state'[n] = "RUNNABLE"
    /\ \A s \in Slots : state'[s] = "RUNNABLE" => Dist(current, n) <= Dist(current, s)
    /\ current' = n
    /\ passed' = [s \in Slots |->
                    IF state'[s] = "RUNNABLE" /\ s # n THEN passed[s] + 1 ELSE 0]
    /\ UNCHANGED <<stage, list, pid, stack_frame, trap_frame, wait_on, killed>>

\* sleep(): the process goes on; the switch to another is still to be written.
sleep ==
    /\ stage = "run"
    /\ state' = [state EXCEPT ![current] = "WAITING"]
    /\ wait_on' = [wait_on EXCEPT ![current] = "lk"]
    /\ UNCHANGED <<stage, list, pid, stack_frame, trap_frame, current, killed, passed>>

Sleeper(s) == state[s] = "WAITING" /\ wait_on[s] = "lk"

wakeup ==
    /\ stage = "run"
    /\ state' = [s \in Slots |-> IF Sleeper(s) THEN "RUNNABLE" ELSE state[s]]
    /\ wait_on' = [s \in Slots |-> IF Sleeper(s) THEN "NULL" ELSE wait_on[s]]
    /\ UNCHANGED <<stage, list, pid, stack_frame, trap_frame, current, killed, passed>>

\* The faulting instruction faults again.
fault_again ==
    /\ stage = "stuck"
    /\ UNCHANGED vars

Next ==
    \/ create_first_process
    \/ \E s \in Slots, p \in Pids : sys_fork(s, p)
    \/ sys_fork_refused
    \/ \E s \in Slots : sys_fork_undone(s)
    \/ \E p \in Pids : kill_process(p) \/ kill_process_refused(p)
    \/ \E n \in Slots : scheduler(n)
    \/ sleep
    \/ wakeup
    \/ fault_again

Spec == Init /\ [][Next]_vars

-----------------------------------------------------------------------------
Live(s) == state[s] # "FREE"
LiveSlots == {s \in Slots : Live(s)}

\* Two processes never have the same pid, whatever forks and kills there
\* were, although getpid keeps no record of the pids it has given out.
PidsDistinct ==
    stage = "run" =>
        \A s, t \in Slots : Live(s) /\ Live(t) /\ pid[s] = pid[t] => s = t

\* No process waits for more than one round of the process table: it is
\* chosen before every slot has had a turn.
BoundedWait == \A s \in Slots : passed[s] < PROCCNT

\* The frames kalloc can still hand out.
FreeFrames == Listed(list, LastFrame)

\* The frames a slot points to, with their field.
Uses ==
    {u \in Slots \X Frames \X {"stack", "trap"} :
        /\ state[u[1]] # "FREE"
        /\ u[2] = IF u[3] = "stack" THEN stack_frame[u[1]] ELSE trap_frame[u[1]]}

\* No frame is in two places: the stack and trap frames of the processes are
\* all different and none of them can be handed out again, and every forked
\* process has both.  That survives a kill, which frees a null pointer and
\* with it cuts off the list, until the tick revives the slot or it is used
\* again: kill_process has left its pointers in it.
FramesExclusive ==
    killed \cap LiveSlots = {} =>
        /\ \A u, v \in Uses : u[2] = v[2] => u = v
        /\ \A u \in Uses : u[2] \notin FreeFrames
        /\ \A s \in Slots \ {0} :
              Live(s) => stack_frame[s] # NULL /\ trap_frame[s] # NULL

\* Until a process is killed, each new process costs two frames and nothing
\* else changes their number: a fork that fails half-way loses none.
ForkTakesTwoOrNone ==
    [][stage = "run" /\ stage' = "run" /\ killed' = {} =>
          Cardinality(FreeFrames) - Cardinality(FreeFrames') =
              2 * (Cardinality(LiveSlots') - Cardinality(LiveSlots))]_vars
=============================================================================
