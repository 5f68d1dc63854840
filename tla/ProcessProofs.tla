--------------------------- MODULE ProcessProofs ---------------------------
(***************************************************************************)
(* The process table for every size of it and of the memory: pids, the     *)
(* round robin, the page frames of the processes, and their registers.     *)
(***************************************************************************)
EXTENDS ContextSwitch, Iteration, FiniteSetTheorems

\* Slot 0 is a slot; the distance to a slot is at most a round.
LEMMA SlotZero == 0 \in Slots
  BY ProcessAssumption DEF Slots

LEMMA DistRange ==
    ASSUME NEW c \in Slots, NEW s \in Slots
    PROVE  Dist(c, s) \in 1..PROCCNT
  BY ProcessAssumption DEF Dist, Slots

\* A slot that is farther than the chosen one comes closer by the distance
\* that the scheduler moves.
LEMMA DistStep ==
    ASSUME NEW c \in Slots, NEW n \in Slots, NEW s \in Slots,
           s # n, Dist(c, n) <= Dist(c, s)
    PROVE  Dist(n, s) = Dist(c, s) - Dist(c, n)
  BY ProcessAssumption DEF Dist, Slots

\* Popping and pushing keep the type of the list.
LEMMA ListTypes ==
    ASSUME NEW l \in Lists(Frames)
    PROVE  /\ l.head \in Frames \cup {NULL}
           /\ Pop(l) \in Lists(Frames)
           /\ \A f \in Frames \cup {NULL} : Push(l, f) \in Lists(Frames)
  BY DEF Lists, Pop, Push

LEMMA InitTypeOK == Init => TypeOK
<1> SUFFICES ASSUME Init PROVE TypeOK
  OBVIOUS
<1>1. list \in Lists(Frames)
  <2>1. PICK first \in 1..(LastFrame - 1) : list = Chain(Frames, first, LastFrame)
    BY DEF Init
  <2> QED
    BY <2>1, ProcessAssumption DEF Chain, Lists, Frames, NULL
<1> QED
  BY <1>1, SlotZero, ProcessAssumption DEF Init, TypeOK, States, Pids, NULL

LEMMA NextTypeOK == TypeOK /\ [Next]_vars => TypeOK'
<1> SUFFICES ASSUME TypeOK, [Next]_vars PROVE TypeOK'
  OBVIOUS
<1>a. /\ Pop(list) \in Lists(Frames) /\ Pop(Pop(list)) \in Lists(Frames)
      /\ list.head \in Frames \cup {NULL} /\ Pop(list).head \in Frames \cup {NULL}
  BY ListTypes DEF TypeOK
<1>1. CASE create_first_process
  BY <1>1, <1>a, SlotZero, ProcessAssumption
  DEF create_first_process, TypeOK, States, Pids
<1>2. ASSUME NEW s \in Slots, NEW p \in Pids, sys_fork(s, p) PROVE TypeOK'
  BY <1>2, <1>a DEF sys_fork, TypeOK, States
<1>3. CASE sys_fork_refused
  BY <1>3 DEF sys_fork_refused, fields, TypeOK
<1>4. ASSUME NEW s \in Slots, sys_fork_undone(s) PROVE TypeOK'
  <2>1. Push(Pop(list), list.head) \in Lists(Frames)
    BY <1>a, ListTypes
  <2> QED
    BY <1>4, <2>1 DEF sys_fork_undone, TypeOK
<1>5. ASSUME NEW p \in Pids, kill_process(p) PROVE TypeOK'
  <2>1. Push(Push(list, stack_frame[0]), trap_frame[0]) \in Lists(Frames)
    BY ListTypes, SlotZero DEF TypeOK
  <2> QED
    BY <1>5, <2>1, SlotZero, ProcessAssumption
    DEF kill_process, TypeOK, States, Pids
<1>6. ASSUME NEW p \in Pids, kill_process_refused(p) PROVE TypeOK'
  BY <1>6 DEF kill_process_refused, fields, TypeOK
<1>7. ASSUME NEW n \in Slots, scheduler(n) PROVE TypeOK'
  <2>1. passed' \in [Slots -> Nat]
    BY <1>7 DEF scheduler, Resumed, TypeOK
  <2> QED
    BY <1>7, <2>1 DEF scheduler, Resumed, TypeOK, States
<1>8. CASE sleep
  BY <1>8 DEF sleep, TypeOK, States
<1>9. CASE wakeup
  BY <1>9 DEF wakeup, TypeOK, States
<1>10. CASE UNCHANGED vars
  BY <1>10 DEF vars, fields, TypeOK
<1> QED
  BY <1>1, <1>2, <1>3, <1>4, <1>5, <1>6, <1>7, <1>8, <1>9, <1>10
  DEF Next, fault_again

\* The types of the process table, for every size of it.
THEOREM ProcessTypeOK == Spec => []TypeOK
  BY InitTypeOK, NextTypeOK, PTL DEF Spec

-----------------------------------------------------------------------------
\* What makes PidsDistinct inductive: only slot 0 can have pid 0, or be
\* freed, so a timer interrupt that revives the current slot after it was
\* killed revives a process with a pid nobody else has.
PidInv ==
    /\ TypeOK
    /\ PidsDistinct
    /\ stage = "boot" => \A s \in Slots : state[s] = "FREE"
    /\ stage = "run" =>
          /\ \A s \in Slots \ {0} : Live(s) => pid[s] # 0
          /\ state[0] = "FREE" => pid[0] = 0
          /\ current # 0 => Live(current)

\* Two processes never have the same pid.
THEOREM ProcessPidsDistinct == Spec => []PidsDistinct
<1>1. Init => PidInv
  BY InitTypeOK DEF Init, PidInv, PidsDistinct, Live
<1>2. PidInv /\ [Next]_vars => PidInv'
  <2> SUFFICES ASSUME PidInv, [Next]_vars PROVE PidInv'
    OBVIOUS
  <2>0. TypeOK /\ TypeOK'
    BY NextTypeOK DEF PidInv
  <2> USE SlotZero DEF PidInv, PidsDistinct, Live
  <2>1. CASE create_first_process
    BY <2>1, <2>0 DEF create_first_process, TypeOK
  <2>2. ASSUME NEW s \in Slots, NEW p \in Pids, sys_fork(s, p) PROVE PidInv'
    <3>1. /\ stage = "run" /\ p # 0 /\ \A t \in Slots : pid[t] # p
          /\ current' = current
      BY <2>2 DEF sys_fork, getpid
    <3>2. CASE stage' = "stuck"
      BY <2>0, <3>2
    <3>3. CASE stage' # "stuck"
      <4>1. /\ stage' = "run" /\ pid' = [pid EXCEPT ![s] = p]
            /\ state' = [state EXCEPT ![s] = "RUNNABLE"]
        BY <2>2, <3>3 DEF sys_fork
      <4> QED
        BY <2>0, <3>1, <4>1 DEF TypeOK
    <3> QED
      BY <3>2, <3>3
  <2>3. CASE sys_fork_refused
    BY <2>3, <2>0 DEF sys_fork_refused, fields
  <2>4. ASSUME NEW s \in Slots, sys_fork_undone(s) PROVE PidInv'
    BY <2>4, <2>0 DEF sys_fork_undone
  <2>5. ASSUME NEW p \in Pids, kill_process(p) PROVE PidInv'
    BY <2>5, <2>0 DEF kill_process, TypeOK
  <2>6. ASSUME NEW p \in Pids, kill_process_refused(p) PROVE PidInv'
    BY <2>6, <2>0 DEF kill_process_refused, fields
  <2>7. ASSUME NEW n \in Slots, scheduler(n) PROVE PidInv'
    BY <2>7, <2>0 DEF scheduler, Resumed, TypeOK
  <2>8. CASE sleep
    BY <2>8, <2>0 DEF sleep, TypeOK
  <2>9. CASE wakeup
    BY <2>9, <2>0 DEF wakeup, Sleeper, TypeOK
  <2>10. CASE UNCHANGED vars
    BY <2>10, <2>0 DEF vars, fields
  <2> QED
    BY <2>1, <2>2, <2>3, <2>4, <2>5, <2>6, <2>7, <2>8, <2>9, <2>10
    DEF Next, fault_again
<1>3. PidInv => PidsDistinct
  BY DEF PidInv
<1> QED
  BY <1>1, <1>2, <1>3, PTL DEF Spec

-----------------------------------------------------------------------------
\* What makes BoundedWait inductive: the ticks that have passed a slot over
\* and the slots the round still has to go to reach it add up to at most one
\* round.
WaitInv ==
    /\ TypeOK
    /\ stage = "boot" => current = 0
    /\ passed[current] = 0
    /\ \A s \in Slots : passed[s] + Dist(current, s) <= PROCCNT

\* The round robin passes a RUNNABLE process over less than PROCCNT times.
THEOREM ProcessBoundedWait == Spec => []BoundedWait
<1>1. Init => WaitInv
  BY InitTypeOK, SlotZero, DistRange, ProcessAssumption DEF Init, WaitInv
<1>2. WaitInv /\ [Next]_vars => WaitInv'
  <2> SUFFICES ASSUME WaitInv, [Next]_vars PROVE WaitInv'
    OBVIOUS
  <2>0. TypeOK /\ TypeOK' /\ PROCCNT \in Nat
    BY NextTypeOK, ProcessAssumption DEF WaitInv
  <2>1. ASSUME NEW n \in Slots, scheduler(n) PROVE WaitInv'
    <3>1. /\ current' = n /\ passed'[n] = 0 /\ stage' # "boot"
          /\ current \in Slots /\ passed[current] = 0
      BY <2>0, <2>1 DEF scheduler, Resumed, TypeOK, WaitInv
    <3>2. ASSUME NEW s \in Slots PROVE passed'[s] + Dist(n, s) <= PROCCNT
      <4>1. /\ Dist(n, s) \in 1..PROCCNT /\ Dist(current, s) \in 1..PROCCNT
            /\ Dist(current, n) \in 1..PROCCNT
        BY <3>1, DistRange
      <4>2. CASE passed'[s] = 0
        BY <2>0, <4>1, <4>2
      <4>3. CASE passed'[s] # 0
        <5>1. passed'[s] = passed[s] + 1 /\ s # n /\ Dist(current, n) <= Dist(current, s)
          BY <2>1, <4>3 DEF scheduler, Resumed
        <5>2. Dist(n, s) = Dist(current, s) - Dist(current, n)
          BY <3>1, <5>1, DistStep
        <5>3. passed[s] \in Nat /\ passed[s] + Dist(current, s) <= PROCCNT
          BY <2>0 DEF WaitInv, TypeOK
        <5> QED
          BY <2>0, <4>1, <5>1, <5>2, <5>3
      <4> QED
        BY <4>2, <4>3
    <3> QED
      BY <2>0, <3>1, <3>2 DEF WaitInv
  <2>2. ASSUME NEW p \in Pids, kill_process(p) PROVE WaitInv'
    <3>1. /\ current' = current /\ stage' # "boot"
          /\ passed' = passed \/ passed' = [passed EXCEPT ![0] = 0]
      BY <2>2 DEF kill_process
    <3>2. current \in Slots /\ passed \in [Slots -> Nat]
      BY <2>0 DEF TypeOK
    <3>3. \A s \in Slots : Dist(current, s) \in 1..PROCCNT
      BY <3>2, DistRange
    <3>4. \A s \in Slots : passed'[s] = passed[s] \/ passed'[s] = 0
      BY <3>1, <3>2
    <3> QED
      BY <2>0, <3>1, <3>2, <3>3, <3>4 DEF WaitInv
  <2>3. CASE current' = current /\ passed' = passed /\ (stage' = stage \/ stage' # "boot")
    BY <2>0, <2>3 DEF WaitInv
  <2>4. CASE create_first_process
    <3>1. current' = current /\ passed' = passed /\ stage' = "run"
      BY <2>4 DEF create_first_process, WaitInv
    <3> QED
      BY <2>0, <3>1 DEF WaitInv
  <2> QED
    BY <2>1, <2>2, <2>3, <2>4
    DEF Next, sys_fork, sys_fork_refused, sys_fork_undone, kill_process_refused,
        sleep, wakeup, fault_again, vars
<1>3. WaitInv => BoundedWait
  <2> SUFFICES ASSUME WaitInv, NEW s \in Slots PROVE passed[s] < PROCCNT
    BY DEF BoundedWait
  <2>1. Dist(current, s) \in 1..PROCCNT /\ passed[s] \in Nat
    BY DistRange DEF WaitInv, TypeOK
  <2> QED
    BY <2>1, ProcessAssumption DEF WaitInv
<1> QED
  BY <1>1, <1>2, <1>3, PTL DEF Spec

-----------------------------------------------------------------------------
\* The frame at the head of the free list, past the last one if it is empty.
Top == IF list.head = NULL THEN LastFrame + 1 ELSE list.head

\* The list is what kalloc_init made of it, from its head on.
RestListed ==
    \A f \in Top..LastFrame :
        list.next[f] = IF f < LastFrame THEN f + 1 ELSE NULL

UsedBelow == \A s \in Slots : stack_frame[s] < Top /\ trap_frame[s] < Top

\* No two pointers in the slots, FREE ones too, lead to the same frame.
PointersDistinct ==
    \A s, t \in Slots :
        /\ stack_frame[s] # NULL /\ stack_frame[s] = stack_frame[t] => s = t
        /\ trap_frame[s] # NULL /\ trap_frame[s] = trap_frame[t] => s = t
        /\ stack_frame[s] = trap_frame[t] => stack_frame[s] = NULL

\* A slot other than 0 is used once: it has both frames from then on.
SlotsFilled ==
    \A s \in Slots \ {0} :
        IF Live(s) THEN stack_frame[s] # NULL /\ trap_frame[s] # NULL
        ELSE stack_frame[s] = NULL /\ trap_frame[s] = NULL

\* Inductive invariant for the frames.  Until a process is killed frames are
\* only taken off the list.  The process in slot 0, the only one that can be
\* killed, has no stack frame, so that freeing its frames cuts off the list
\* behind its trap frame: no fork succeeds any more.
FrameInv ==
    /\ TypeOK
    /\ killed \subseteq {0}
    /\ stack_frame[0] = NULL
    /\ stage = "boot" <=> trap_frame[0] = NULL
    /\ stage = "boot" => /\ killed = {} /\ current = 0
                         /\ \A s \in Slots : state[s] = "FREE"
                         /\ Top < LastFrame
    /\ stage = "run" => /\ state[0] = "FREE" => 0 \in killed
                        /\ current # 0 => Live(current)
    /\ SlotsFilled
    /\ PointersDistinct
    /\ killed = {} => RestListed /\ UsedBelow
    /\ killed # {} /\ list.head # NULL =>
          list.head = trap_frame[0] /\ list.next[list.head] = NULL

LEMMA FramesPositive == Frames \subseteq Nat \ {0} /\ NULL \notin Frames
  BY DEF Frames, NULL

LEMMA InitFrameInv == Init => FrameInv
<1> SUFFICES ASSUME Init PROVE FrameInv
  OBVIOUS
<1>1. PICK first \in 1..(LastFrame - 1) : list = Chain(Frames, first, LastFrame)
  BY DEF Init
<1>2. Top = first /\ Top < LastFrame
  BY <1>1, ProcessAssumption DEF Top, Chain, NULL
<1>3. RestListed
  BY <1>1, <1>2, ProcessAssumption DEF RestListed, Chain, Frames, NULL
<1>4. UsedBelow
  BY <1>1, <1>2 DEF UsedBelow, Init, NULL
<1> QED
  BY <1>2, <1>3, <1>4, InitTypeOK, SlotZero
  DEF Init, FrameInv, SlotsFilled, PointersDistinct, Live

\* Two frames are taken off a list that kalloc has not got back anything for.
LEMMA TakeTwo ==
    ASSUME TypeOK, RestListed, list.head # NULL, Pop(list).head # NULL
    PROVE  LET l == Pop(Pop(list))
           IN  /\ list.head \in Frames /\ Pop(list).head = list.head + 1
               /\ list.head + 1 <= LastFrame
               /\ l.head = IF list.head + 2 <= LastFrame THEN list.head + 2 ELSE NULL
               /\ \A f \in (list.head + 2)..LastFrame :
                     l.next[f] = IF f < LastFrame THEN f + 1 ELSE NULL
<1> DEFINE h == list.head
           l1 == Pop(list)
           l == Pop(l1)
<1>1. h \in Frames /\ list.next \in [Frames \cup {NULL} -> Frames \cup {NULL}]
  BY DEF TypeOK, Lists
<1>2. /\ l1.head = list.next[h] /\ l1.next = [list.next EXCEPT ![h] = NULL]
  BY DEF Pop
<1>3. list.next[h] = IF h < LastFrame THEN h + 1 ELSE NULL
  BY <1>1, ProcessAssumption DEF RestListed, Top, Frames
<1>4. h < LastFrame /\ l1.head = h + 1 /\ h \in Nat \ {0} /\ h + 1 \in Frames
  BY <1>1, <1>2, <1>3, ProcessAssumption DEF Frames, NULL
<1>5. /\ l.head = l1.next[h + 1] /\ l.next = [l1.next EXCEPT ![h + 1] = NULL]
  BY <1>4 DEF Pop
<1>6. l1.next[h + 1] = list.next[h + 1]
  BY <1>1, <1>2, <1>4
<1>7. \A f \in (h + 1)..LastFrame :
         list.next[f] = IF f < LastFrame THEN f + 1 ELSE NULL
  BY <1>4, ProcessAssumption DEF RestListed, Top
<1>8. l.head = IF h + 2 <= LastFrame THEN h + 2 ELSE NULL
  BY <1>4, <1>5, <1>6, <1>7, ProcessAssumption
<1>9. ASSUME NEW f \in (h + 2)..LastFrame
      PROVE  l.next[f] = IF f < LastFrame THEN f + 1 ELSE NULL
  <2>1. f \in Frames /\ f # h /\ f # h + 1 /\ f \in (h + 1)..LastFrame
    BY <1>4, ProcessAssumption DEF Frames
  <2>2. l.next[f] = list.next[f]
    BY <1>1, <1>2, <1>5, <2>1
  <2> QED
    BY <1>7, <2>1, <2>2
<1>10. h + 1 <= LastFrame
  BY <1>4, ProcessAssumption
<1> QED
  BY <1>1, <1>4, <1>8, <1>9, <1>10, Zenon

LEMMA TopAfterTwo ==
    ASSUME TypeOK, RestListed, list.head # NULL, Pop(list).head # NULL,
           list' = Pop(Pop(list))
    PROVE  list.head \in Nat \ {0} /\ Top = list.head /\ Top' = list.head + 2
<1> DEFINE h == list.head
<1>1. /\ h \in Frames /\ h + 1 <= LastFrame
      /\ list'.head = IF h + 2 <= LastFrame THEN h + 2 ELSE NULL
  BY TakeTwo
<1>2. h \in Nat \ {0} /\ LastFrame \in Nat
  BY <1>1, FramesPositive, ProcessAssumption
<1>3. Top = h
  BY DEF Top
<1>4. CASE h + 2 <= LastFrame
  <2>1. list'.head = h + 2 /\ h + 2 # NULL
    BY <1>1, <1>2, <1>4 DEF NULL
  <2> QED
    BY <1>2, <1>3, <2>1 DEF Top
<1>5. CASE ~(h + 2 <= LastFrame)
  <2>1. list'.head = NULL /\ h + 2 = LastFrame + 1
    BY <1>1, <1>2, <1>5
  <2> QED
    BY <1>2, <1>3, <2>1 DEF Top
<1> QED
  BY <1>4, <1>5

\* A fork finds its two frames only as long as nothing has been killed, and
\* then slot 0 is in use.
LEMMA ForkBeforeKill ==
    ASSUME FrameInv, NEW s \in Slots, NEW p \in Pids, sys_fork(s, p)
    PROVE  killed = {} /\ s # 0 /\ RestListed /\ UsedBelow
<1>1. stage = "run" /\ list.head # NULL /\ Pop(list).head # NULL /\ state[s] = "FREE"
  BY DEF sys_fork, FirstFree
<1>2. Pop(list).head = list.next[list.head]
  BY DEF Pop
<1>3. killed = {}
  BY <1>1, <1>2 DEF FrameInv
<1> QED
  BY <1>1, <1>3 DEF FrameInv

\* What the handlers do to a list that kill_process has cut off.
LEMMA CutList ==
    ASSUME NEW l \in Lists(Frames), NEW t \in Frames
    PROVE  /\ Push(Push(l, NULL), t).head = t
           /\ Push(Push(l, NULL), t).next[t] = NULL
  BY FramesPositive DEF Lists, Push, NULL

LEMMA UndoneList ==
    ASSUME NEW l \in Lists(Frames), l.head # NULL, Pop(l).head = NULL
    PROVE  /\ Push(Pop(l), l.head).head = l.head
           /\ \A f \in Frames : Push(Pop(l), l.head).next[f] = l.next[f]
  BY DEF Lists, Push, Pop

LEMMA NextFrameInv == FrameInv /\ [Next]_vars => FrameInv'
<1> SUFFICES ASSUME FrameInv, [Next]_vars PROVE FrameInv'
  OBVIOUS
<1>0. TypeOK /\ TypeOK'
  BY NextTypeOK DEF FrameInv
<1>a. /\ list \in Lists(Frames) /\ state \in [Slots -> States]
      /\ stack_frame \in [Slots -> Frames \cup {NULL}]
      /\ trap_frame \in [Slots -> Frames \cup {NULL}]
      /\ current \in Slots /\ killed \subseteq Slots
  BY <1>0 DEF TypeOK
<1> USE SlotZero
<1>1. CASE create_first_process
  <2> DEFINE h == list.head
  <2>1. /\ stage = "boot" /\ stage' = "run" /\ killed = {} /\ killed' = {}
        /\ list' = Pop(Pop(list)) /\ current' = 0
        /\ trap_frame' = [trap_frame EXCEPT ![0] = Pop(list).head]
        /\ state' = [state EXCEPT ![0] = "RUNNABLE"]
        /\ stack_frame' = stack_frame
        /\ \A s \in Slots : state[s] = "FREE"
    BY <1>1 DEF create_first_process, FrameInv
  <2>2. Top < LastFrame /\ RestListed /\ UsedBelow
    BY <2>1 DEF FrameInv
  <2>3. h # NULL /\ Pop(list).head # NULL
    <3>1. h # NULL
      BY <2>2, ProcessAssumption DEF Top
    <3>2. Pop(list).head = list.next[h] /\ Top = h /\ h \in 1..LastFrame
      BY <1>a, <3>1 DEF Pop, Top, Lists, Frames
    <3>3. list.next[h] = h + 1
      BY <2>2, <3>2, ProcessAssumption DEF RestListed
    <3> QED
      BY <3>1, <3>2, <3>3 DEF NULL
  <2>4. /\ h \in Frames /\ Pop(list).head = h + 1 /\ h + 1 <= LastFrame
        /\ list'.head = IF h + 2 <= LastFrame THEN h + 2 ELSE NULL
        /\ \A f \in (h + 2)..LastFrame :
              list'.next[f] = IF f < LastFrame THEN f + 1 ELSE NULL
    BY <1>0, <2>1, <2>2, <2>3, TakeTwo
  <2>5. h \in Nat \ {0} /\ Top = h /\ Top' = h + 2
    BY <1>0, <2>1, <2>2, <2>3, TopAfterTwo
  <2>6. RestListed'
    BY <2>4, <2>5 DEF RestListed
  <2>b. \A t \in Slots : /\ stack_frame[t] \in Nat /\ stack_frame[t] < h
                         /\ trap_frame[t] \in Nat /\ trap_frame[t] < h
    <3>1. Frames \cup {NULL} \subseteq Nat
      BY FramesPositive DEF NULL
    <3> QED
      BY <1>a, <2>2, <2>5, <3>1 DEF UsedBelow
  <2>7. UsedBelow'
    <3> SUFFICES ASSUME NEW t \in Slots
                 PROVE  stack_frame'[t] < h + 2 /\ trap_frame'[t] < h + 2
      BY <2>5 DEF UsedBelow
    <3>1. stack_frame'[t] \in {stack_frame[t], h} /\ trap_frame'[t] \in {trap_frame[t], h + 1}
      BY <1>a, <2>1, <2>4
    <3> HIDE DEF h
    <3> QED
      BY <2>5, <2>b, <3>1
  <2>8. \A s \in Slots \ {0} : stack_frame[s] = NULL /\ trap_frame[s] = NULL
    BY <2>1 DEF FrameInv, SlotsFilled, Live
  <2>9. SlotsFilled' /\ PointersDistinct'
    BY <1>a, <2>1, <2>4, <2>5, <2>8 DEF FrameInv, SlotsFilled, PointersDistinct, Live, NULL
  <2> QED
    BY <1>0, <1>a, <2>1, <2>4, <2>5, <2>6, <2>7, <2>9 DEF FrameInv, NULL
<1>2. ASSUME NEW s \in Slots, NEW p \in Pids, sys_fork(s, p) PROVE FrameInv'
  <2> DEFINE h == list.head
  <2>1. /\ stage = "run" /\ h # NULL /\ Pop(list).head # NULL /\ state[s] = "FREE"
        /\ list' = Pop(Pop(list)) /\ current' = current /\ killed' = killed
        /\ stack_frame' = [stack_frame EXCEPT ![s] = h]
        /\ trap_frame' = [trap_frame EXCEPT ![s] = Pop(list).head]
        /\ stage' \in {"run", "stuck"}
        /\ \E x \in {"RUNNABLE", "WAITING"} : state' = [state EXCEPT ![s] = x]
    BY <1>2 DEF sys_fork, FirstFree
  <2>2. killed = {} /\ s # 0 /\ RestListed /\ UsedBelow
    BY <1>2, ForkBeforeKill
  <2>4. /\ h \in Frames /\ Pop(list).head = h + 1 /\ h + 1 <= LastFrame
        /\ list'.head = IF h + 2 <= LastFrame THEN h + 2 ELSE NULL
        /\ \A f \in (h + 2)..LastFrame :
              list'.next[f] = IF f < LastFrame THEN f + 1 ELSE NULL
    BY <1>0, <2>1, <2>2, TakeTwo
  <2>5. h \in Nat \ {0} /\ Top = h /\ Top' = h + 2
    BY <1>0, <2>1, <2>2, TopAfterTwo
  <2>6. RestListed'
    BY <2>4, <2>5 DEF RestListed
  <2>b. \A t \in Slots : /\ stack_frame[t] \in Nat /\ stack_frame[t] < h
                         /\ trap_frame[t] \in Nat /\ trap_frame[t] < h
    <3>1. Frames \cup {NULL} \subseteq Nat
      BY FramesPositive DEF NULL
    <3> QED
      BY <1>a, <2>2, <2>5, <3>1 DEF UsedBelow
  <2>7. UsedBelow'
    <3> SUFFICES ASSUME NEW t \in Slots
                 PROVE  stack_frame'[t] < h + 2 /\ trap_frame'[t] < h + 2
      BY <2>5 DEF UsedBelow
    <3>1. stack_frame'[t] \in {stack_frame[t], h} /\ trap_frame'[t] \in {trap_frame[t], h + 1}
      BY <1>a, <2>1, <2>4
    <3> HIDE DEF h
    <3> QED
      BY <2>5, <2>b, <3>1
  <2>9. PointersDistinct'
    BY <1>a, <2>1, <2>4, <2>5, <2>b DEF FrameInv, PointersDistinct, NULL
  <2>10. SlotsFilled'
    BY <1>a, <2>1, <2>2, <2>4, <2>5 DEF FrameInv, SlotsFilled, Live, NULL
  <2>11. /\ stack_frame'[0] = NULL /\ trap_frame'[0] # NULL
         /\ state'[0] = state[0] /\ (current # 0 => Live(current)')
    BY <1>a, <2>1, <2>2 DEF FrameInv, Live
  <2> QED
    BY <1>0, <2>1, <2>2, <2>6, <2>7, <2>9, <2>10, <2>11 DEF FrameInv
<1>3. ASSUME NEW s \in Slots, sys_fork_undone(s) PROVE FrameInv'
  <2>1. /\ stack_frame[s] = NULL /\ stack_frame' = stack_frame
    <3>1. state[s] = "FREE" /\ stack_frame' = [stack_frame EXCEPT ![s] = NULL]
      BY <1>3 DEF sys_fork_undone, FirstFree
    <3>2. stack_frame[s] = NULL
      BY <3>1 DEF FrameInv, SlotsFilled, Live
    <3> QED
      BY <1>a, <3>1, <3>2
  <2>2. /\ list'.head = list.head
        /\ \A f \in Frames : list'.next[f] = list.next[f]
    BY <1>3, <1>a, UndoneList DEF sys_fork_undone
  <2>3. list.head \in Frames
    BY <1>3, <1>a DEF sys_fork_undone, Lists
  <2>4. Top' = Top /\ Top..LastFrame \subseteq Frames
    BY <2>2, <2>3, ProcessAssumption DEF Top, Frames
  <2> QED
    BY <1>0, <1>3, <2>1, <2>2, <2>3, <2>4
    DEF sys_fork_undone, FrameInv, SlotsFilled, PointersDistinct, RestListed, UsedBelow,
        Live
<1>4. ASSUME NEW p \in Pids, kill_process(p) PROVE FrameInv'
  <2>1. /\ stage = "run" /\ UNCHANGED <<stack_frame, trap_frame, current>>
        /\ \E x \in {"FREE", "KILLED"} : state' = [state EXCEPT ![0] = x]
    BY <1>4 DEF kill_process
  <2>2. SlotsFilled' /\ PointersDistinct' /\ \A s \in Slots \ {0} : state'[s] = state[s]
    BY <1>a, <2>1 DEF FrameInv, SlotsFilled, PointersDistinct, Live
  <2>3. stack_frame[0] = NULL /\ trap_frame[0] \in Frames
    BY <1>a, <2>1 DEF FrameInv
  <2>4. CASE stage' = "stuck"
    <3>1. list' = list /\ killed' = killed
      BY <1>4, <2>1, <2>4 DEF kill_process
    <3> QED
      BY <1>0, <2>1, <2>2, <2>4, <3>1 DEF FrameInv, RestListed, UsedBelow, Top
  <2>5. CASE stage' # "stuck"
    <3>1. /\ list' = Push(Push(list, stack_frame[0]), trap_frame[0])
          /\ killed' = killed \cup {0} /\ stage' = "run"
      BY <1>4, <2>1, <2>5 DEF kill_process
    <3>2. list'.head = trap_frame[0] /\ list'.next[trap_frame[0]] = NULL
      BY <1>a, <2>3, <3>1, CutList
    <3>3. current # 0 => Live(current)'
      BY <1>a, <2>1, <2>2 DEF FrameInv, Live
    <3> QED
      BY <1>0, <2>1, <2>2, <2>3, <3>1, <3>2, <3>3 DEF FrameInv
  <2> QED
    BY <2>4, <2>5
<1>5. ASSUME UNCHANGED <<stage, list, stack_frame, trap_frame, killed>>,
             current' \in Slots, state' \in [Slots -> States],
             \A s \in Slots \ {0} : Live(s)' <=> Live(s),
             stage = "run" => (Live(0) => Live(0)'),
             stage = "run" => (current' # 0 => Live(current')),
             stage = "boot" => current' = current /\ state' = state
      PROVE  FrameInv'
  BY <1>0, <1>5
  DEF FrameInv, SlotsFilled, PointersDistinct, RestListed, UsedBelow, Top, Live
<1>6. ASSUME NEW n \in Slots, scheduler(n) PROVE FrameInv'
  <2>1. /\ stage = "run" /\ current' = n
        /\ UNCHANGED <<stage, list, stack_frame, trap_frame, killed>>
        /\ state' = [state EXCEPT ![current] = "RUNNABLE"] /\ state'[n] = "RUNNABLE"
    BY <1>6 DEF scheduler, Resumed
  <2>2. state' \in [Slots -> States]
    BY <1>0 DEF TypeOK
  <2>3. \A s \in Slots \ {0} : Live(s)' <=> Live(s)
    BY <1>a, <2>1 DEF FrameInv, Live
  <2>4. (Live(0) => Live(0)') /\ (current' # 0 => Live(current'))
    BY <1>a, <2>1, <2>3 DEF Live
  <2> QED
    BY <1>5, <2>1, <2>2, <2>3, <2>4
<1>7. CASE sleep
  <2>1. /\ stage = "run" /\ current' = current
        /\ UNCHANGED <<stage, list, stack_frame, trap_frame, killed>>
        /\ state' = [state EXCEPT ![current] = "WAITING"]
    BY <1>7 DEF sleep
  <2>2. state' \in [Slots -> States]
    BY <1>0 DEF TypeOK
  <2>3. \A s \in Slots \ {0} : Live(s)' <=> Live(s)
    BY <1>a, <2>1 DEF FrameInv, Live
  <2>4. (Live(0) => Live(0)') /\ (current' # 0 => Live(current'))
    BY <1>a, <2>1 DEF Live, FrameInv
  <2> QED
    BY <1>5, <1>a, <2>1, <2>2, <2>3, <2>4
<1>8. CASE wakeup
  <2>1. /\ stage = "run" /\ current' = current
        /\ UNCHANGED <<stage, list, stack_frame, trap_frame, killed>>
        /\ \A s \in Slots : Live(s)' <=> Live(s)
    BY <1>8, <1>a DEF wakeup, Sleeper, Live
  <2>2. state' \in [Slots -> States]
    BY <1>0 DEF TypeOK
  <2> QED
    BY <1>5, <1>a, <2>1, <2>2 DEF FrameInv
<1>9. CASE UNCHANGED <<stage, list, fields, current, killed>>
  BY <1>0, <1>9
  DEF FrameInv, SlotsFilled, PointersDistinct, RestListed, UsedBelow, Top, Live, fields
<1> QED
  BY <1>1, <1>2, <1>3, <1>4, <1>6, <1>7, <1>8, <1>9
  DEF Next, sys_fork_refused, kill_process_refused, fault_again, vars

\* Until a process is killed, kalloc can hand out the frames from the head of
\* the list to the last one.
RestIsFree ==
    killed = {} => FreeFrames = Top..LastFrame /\ Top \in 1..(LastFrame + 1)

LEMMA FreeIsRest == FrameInv => RestIsFree
<1> SUFFICES ASSUME FrameInv, killed = {}
             PROVE  FreeFrames = Top..LastFrame /\ Top \in 1..(LastFrame + 1)
  BY DEF RestIsFree
<1>1. list \in Lists(1..LastFrame) /\ list.head \in Frames \cup {NULL}
  BY DEF FrameInv, TypeOK, Frames, Lists
<1>2. Top \in 1..(LastFrame + 1) /\ list.head = IF Top <= LastFrame THEN Top ELSE NULL
  BY <1>1, ProcessAssumption DEF Top, Frames, NULL
<1>3. \A f \in Top..LastFrame :
         list.next[f] = IF f < LastFrame THEN f + 1 ELSE NULL
  BY DEF FrameInv, RestListed
<1>4. LastFrame \in Nat
  BY ProcessAssumption
<1> HIDE DEF Top
<1>5. Listed(list, LastFrame) = Top..LastFrame
  BY <1>1, <1>2, <1>3, <1>4, ListedRange
<1> QED
  BY <1>2, <1>5 DEF FreeFrames

\* After that it can hand out the trap frame of slot 0, and no other.
LEMMA FreeIsTrapFrame ==
    ASSUME FrameInv, killed # {}
    PROVE  FreeFrames \subseteq {trap_frame[0]} \ {NULL}
<1> DEFINE S == {trap_frame[0]} \ {NULL}
<1>1. list \in Lists(Frames) /\ S \in SUBSET Frames
  BY SlotZero DEF FrameInv, TypeOK
<1>2. list.head \in S \cup {NULL}
  BY DEF FrameInv
<1>3. CASE list.head = NULL
  <2> DEFINE E == {}
  <2>1. /\ E \in SUBSET Frames /\ list.head \in E \cup {NULL}
        /\ \A f \in E : list.next[f] \in E \cup {NULL}
    BY <1>3
  <2>2. LastFrame \in Nat
    BY ProcessAssumption
  <2> HIDE DEF E
  <2>3. Listed(list, LastFrame) \subseteq E
    BY <1>1, <2>1, <2>2, ListedWithin
  <2> QED
    BY <2>3 DEF FreeFrames, E
<1>4. CASE list.head # NULL
  <2>1. \A f \in S : list.next[f] \in S \cup {NULL}
    BY <1>4 DEF FrameInv
  <2>2. LastFrame \in Nat
    BY ProcessAssumption
  <2> HIDE DEF S
  <2>3. Listed(list, LastFrame) \subseteq S
    BY <1>1, <1>2, <2>1, <2>2, ListedWithin
  <2> QED
    BY <2>3 DEF FreeFrames, S
<1> QED
  BY <1>3, <1>4

\* The stack and trap frames of the processes are all different, and kalloc
\* cannot hand out any of them again.
THEOREM ProcessFramesExclusive == Spec => []FramesExclusive
<1>1. FrameInv => FramesExclusive
  <2> SUFFICES ASSUME FrameInv, killed \cap LiveSlots = {}
               PROVE  /\ \A u, v \in Uses : u[2] = v[2] => u = v
                      /\ \A u \in Uses : u[2] \notin FreeFrames
                      /\ \A s \in Slots \ {0} :
                            Live(s) => stack_frame[s] # NULL /\ trap_frame[s] # NULL
    BY DEF FramesExclusive
  <2>1. ASSUME NEW u \in Uses
        PROVE  /\ u = <<u[1], u[2], u[3]>> /\ u[1] \in Slots /\ u[2] \in Frames
               /\ u[3] \in {"stack", "trap"} /\ Live(u[1])
               /\ u[3] = "stack" => u[2] = stack_frame[u[1]]
               /\ u[3] = "trap" => u[2] = trap_frame[u[1]]
    BY DEF Uses, Live
  <2>2. ASSUME NEW u \in Uses, NEW v \in Uses, u[2] = v[2] PROVE u = v
    <3>1. u[2] # NULL
      BY <2>1, FramesPositive
    <3>2. u[1] = v[1] /\ u[3] = v[3]
      BY <2>1, <2>2, <3>1 DEF FrameInv, PointersDistinct
    <3> QED
      BY <2>1, <2>2, <3>2, Zenon
  <2>3. ASSUME NEW u \in Uses PROVE u[2] \notin FreeFrames
    <3>1. CASE killed = {}
      <4>1. FreeFrames = Top..LastFrame /\ Top \in Int
        BY <3>1, FreeIsRest DEF RestIsFree
      <4>2. u[2] < Top /\ u[2] \in Nat
        BY <2>1, <3>1, FramesPositive DEF FrameInv, UsedBelow
      <4> QED
        BY <4>1, <4>2
    <3>2. CASE killed # {}
      <4>1. u[1] # 0
        <5>1. 0 \notin LiveSlots
          BY <3>2 DEF FrameInv
        <5> QED
          BY <2>1, <5>1, SlotZero DEF LiveSlots
      <4>2. u[2] # trap_frame[0]
        BY <2>1, <4>1, SlotZero, FramesPositive DEF FrameInv, PointersDistinct
      <4> QED
        BY <3>2, <4>2, FreeIsTrapFrame
    <3> QED
      BY <3>1, <3>2
  <2>4. \A s \in Slots \ {0} :
           Live(s) => stack_frame[s] # NULL /\ trap_frame[s] # NULL
    BY DEF FrameInv, SlotsFilled
  <2> QED
    BY <2>2, <2>3, <2>4
<1> QED
  BY <1>1, InitFrameInv, NextFrameInv, PTL DEF Spec

\* Before a kill the frames and the processes are counted together: a fork
\* takes two frames for one slot, and a fork that fails gives its frame back.
THEOREM ProcessForkTakesTwoOrNone == Spec => ForkTakesTwoOrNone
<1> DEFINE Counted ==
             stage = "run" /\ stage' = "run" /\ killed' = {} =>
                Cardinality(FreeFrames) - Cardinality(FreeFrames') =
                    2 * (Cardinality(LiveSlots') - Cardinality(LiveSlots))
<1>1. FrameInv /\ FrameInv' /\ [Next]_vars => [Counted]_vars
  <2> SUFFICES ASSUME FrameInv, FrameInv', Next,
                      stage = "run", stage' = "run", killed' = {}
               PROVE  Cardinality(FreeFrames) - Cardinality(FreeFrames') =
                         2 * (Cardinality(LiveSlots') - Cardinality(LiveSlots))
    OBVIOUS
  <2>1. killed = {} /\ ~create_first_process /\ \A p \in Pids : ~kill_process(p)
    BY DEF Next, create_first_process, sys_fork, sys_fork_refused, sys_fork_undone,
           kill_process, kill_process_refused, scheduler, sleep, wakeup, fault_again, vars
  <2>2. /\ FreeFrames = Top..LastFrame /\ Top \in 1..(LastFrame + 1)
        /\ FreeFrames' = Top'..LastFrame /\ Top' \in 1..(LastFrame + 1)
    <3>1. RestIsFree /\ RestIsFree'
      BY FreeIsRest, PTL
    <3> QED
      BY <2>1, <3>1 DEF RestIsFree
  <2>3. Cardinality(FreeFrames) - Cardinality(FreeFrames') = Top' - Top
    <3>1. ASSUME NEW t \in 1..(LastFrame + 1)
          PROVE  Cardinality(t..LastFrame) = LastFrame - t + 1
      BY ProcessAssumption, FS_Interval
    <3> HIDE DEF Top
    <3>2. /\ Cardinality(FreeFrames) = LastFrame - Top + 1
          /\ Cardinality(FreeFrames') = LastFrame - Top' + 1
      BY <2>2, <3>1
    <3> QED
      BY <2>2, <3>2, ProcessAssumption
  <2>4. IsFiniteSet(LiveSlots) /\ Cardinality(LiveSlots) \in Nat
    <3>1. IsFiniteSet(Slots) /\ LiveSlots \subseteq Slots
      BY FS_Interval, ProcessAssumption DEF Slots, LiveSlots
    <3> QED
      BY <3>1, FS_Subset, FS_CardinalityType
  <2>5. /\ TypeOK /\ TypeOK' /\ list \in Lists(Frames) /\ state \in [Slots -> States]
        /\ current \in Slots /\ Live(current)
    BY <2>1, SlotZero DEF FrameInv, TypeOK, Live
  <2>6. ASSUME NEW s \in Slots, NEW p \in Pids, sys_fork(s, p)
        PROVE  Top' = Top + 2 /\ Cardinality(LiveSlots') = Cardinality(LiveSlots) + 1
    <3>1. Top' = Top + 2
      <4>1. list' = Pop(Pop(list)) /\ list.head # NULL /\ Pop(list).head # NULL
        BY <2>6 DEF sys_fork
      <4> QED
        BY <2>5, <2>6, <4>1, ForkBeforeKill, TopAfterTwo
    <3>2. state[s] = "FREE" /\ state' = [state EXCEPT ![s] = "RUNNABLE"]
      BY <2>6 DEF sys_fork, FirstFree
    <3>3. LiveSlots' = LiveSlots \cup {s} /\ s \notin LiveSlots
      BY <2>5, <3>2 DEF LiveSlots, Live
    <3> QED
      BY <2>4, <3>1, <3>3, FS_AddElement
  <2>7. CASE Top' = Top /\ LiveSlots' = LiveSlots
    <3>1. Top' - Top = 0 /\ 2 * (Cardinality(LiveSlots') - Cardinality(LiveSlots)) = 0
      BY <2>2, <2>4, <2>7
    <3> QED
      BY <2>3, <3>1
  <2>8. ASSUME NEW s \in Slots, NEW p \in Pids, sys_fork(s, p)
        PROVE  Top' - Top = 2 * (Cardinality(LiveSlots') - Cardinality(LiveSlots))
    BY <2>2, <2>4, <2>6, <2>8
  <2>9. ASSUME NEW s \in Slots, sys_fork_undone(s)
        PROVE  Top' = Top /\ LiveSlots' = LiveSlots
    BY <2>5, <2>9, UndoneList DEF sys_fork_undone, Top, LiveSlots, Live
  <2>10. ASSUME NEW n \in Slots, scheduler(n)
         PROVE  Top' = Top /\ LiveSlots' = LiveSlots
    BY <2>5, <2>10 DEF scheduler, Resumed, Top, LiveSlots, Live
  <2>11. CASE sleep
    <3>1. Top' = Top /\ LiveSlots' = LiveSlots
      BY <2>5, <2>11 DEF sleep, Top, LiveSlots, Live
    <3> QED
      BY <2>7, <3>1
  <2>12. CASE wakeup
    <3>1. Top' = Top /\ LiveSlots' = LiveSlots
      BY <2>5, <2>12 DEF wakeup, Sleeper, Top, LiveSlots, Live
    <3> QED
      BY <2>7, <3>1
  <2>13. CASE UNCHANGED <<list, fields>>
    <3>1. Top' = Top /\ LiveSlots' = LiveSlots
      BY <2>13 DEF fields, Top, LiveSlots, Live
    <3> QED
      BY <2>7, <3>1
  <2> QED
    BY <2>1, <2>3, <2>7, <2>8, <2>9, <2>10, <2>11, <2>12, <2>13
    DEF Next, sys_fork_refused, kill_process_refused, fault_again, vars
<1>2. Spec => [][Counted]_vars
  BY <1>1, InitFrameInv, NextFrameInv, PTL DEF Spec
<1> QED
  BY <1>2 DEF ForkTakesTwoOrNone

-----------------------------------------------------------------------------
\* With the registers every step is a step of the process table, or user
\* code, which leaves the table as it is.
LEMMA SwitchStep == SwitchNext => [Next]_vars
  BY DEF SwitchNext, first_process, fork, kill, tick, user_code, Next

THEOREM SwitchImplementsProcess == SwitchSpec => Spec
<1>1. SwitchInit => Init
  BY DEF SwitchInit
<1>2. [SwitchNext]_<<vars, switch_vars>> => [Next]_vars
  BY SwitchStep
<1> QED
  BY <1>1, <1>2, PTL DEF SwitchSpec, Spec

LEMMA InitSwitchTypeOK == SwitchInit => SwitchTypeOK
  BY InitTypeOK DEF SwitchInit, SwitchTypeOK

LEMMA NextSwitchTypeOK ==
    SwitchTypeOK /\ [SwitchNext]_<<vars, switch_vars>> => SwitchTypeOK'
<1> SUFFICES ASSUME SwitchTypeOK, [SwitchNext]_<<vars, switch_vars>> PROVE SwitchTypeOK'
  OBVIOUS
<1>0. TypeOK' /\ current \in Slots /\ current' \in Slots
  <2>1. TypeOK'
    BY NextTypeOK, SwitchStep DEF SwitchTypeOK
  <2> QED
    BY <2>1 DEF SwitchTypeOK, TypeOK
<1>1. CASE first_process
  BY <1>0, <1>1 DEF first_process, free_registers, SwitchTypeOK
<1>2. ASSUME NEW s \in Slots, NEW p \in Pids, fork(s, p) PROVE SwitchTypeOK'
  BY <1>0, <1>2 DEF fork, Copied, free_registers, SwitchTypeOK
<1>3. ASSUME NEW p \in Pids, kill(p) PROVE SwitchTypeOK'
  BY <1>0, <1>3 DEF kill, free_registers, SwitchTypeOK
<1>4. ASSUME NEW n \in Slots, tick(n) PROVE SwitchTypeOK'
  BY <1>0, <1>4 DEF tick, switch_to, Stores, SwitchTypeOK
<1>5. CASE user_code
  BY <1>0, <1>5 DEF user_code, SwitchTypeOK
<1>6. CASE UNCHANGED switch_vars
  BY <1>0, <1>6 DEF switch_vars, SwitchTypeOK
<1> QED
  BY <1>1, <1>2, <1>3, <1>4, <1>5, <1>6 DEF SwitchNext

\* The types of the process table and of the registers, for every size.
THEOREM ProcessSwitchTypeOK == SwitchSpec => []SwitchTypeOK
  BY InitSwitchTypeOK, NextSwitchTypeOK, PTL DEF SwitchSpec

-----------------------------------------------------------------------------
\* The rounds that follow the parent pointers.
IsLine(line, par, s) ==
    /\ LineOf(par, s) = line[PROCCNT]
    /\ line[0] = {s}
    /\ \A i \in 1..PROCCNT :
          line[i] = line[i - 1] \cup ({par[t] : t \in line[i - 1]} \ {NoProcess})

Pointers == [Slots -> Slots \cup {NoProcess}]

LEMMA LineRounds ==
    ASSUME NEW par \in Pointers, NEW s \in Slots
    PROVE  \E line \in [0..PROCCNT -> SUBSET Slots] : IsLine(line, par, s)
<1> DEFINE V == SUBSET Slots
           More(S) == S \cup ({par[t] : t \in S} \ {NoProcess})
           step == [iv \in (1..PROCCNT) \X V |-> More(iv[2])]
           line == CHOOSE w : w = [i \in 0..PROCCNT |->
                      IF i = 0 THEN {s}
                      ELSE w[i - 1] \cup ({par[t] : t \in w[i - 1]} \ {NoProcess})]
<1>0. PROCCNT \in Nat
  BY ProcessAssumption
<1>1. {s} \in V /\ \A S \in V : More(S) \in V
  BY DEF Pointers
<1>2. step \in [(1..PROCCNT) \X V -> V]
  <2> HIDE DEF More, V
  <2> QED
    BY <1>1
<1>3. PICK f \in [0..PROCCNT -> V] : IsLoop(f, PROCCNT, {s}, step)
  <2> HIDE DEF step, V
  <2> QED
    BY <1>0, <1>1, <1>2, LoopExists
<1>4. f[0] = {s}
  BY <1>3 DEF IsLoop
<1>5. ASSUME NEW i \in 1..PROCCNT PROVE f[i] = More(f[i - 1])
  <2>1. f[i] = step[<<i, f[i - 1]>>]
    BY <1>3 DEF IsLoop
  <2>2. <<i, f[i - 1]>> \in (1..PROCCNT) \X V
    BY <1>0
  <2> HIDE DEF V, More
  <2> QED
    BY <2>1, <2>2
<1>6. f = [i \in 0..PROCCNT |->
             IF i = 0 THEN {s}
             ELSE f[i - 1] \cup ({par[t] : t \in f[i - 1]} \ {NoProcess})]
  <2>1. f = [i \in 0..PROCCNT |-> IF i = 0 THEN {s} ELSE More(f[i - 1])]
    <3> HIDE DEF V, More
    <3> QED
      BY <1>0, <1>4, <1>5
  <2> QED
    BY <2>1, Zenon
<1>7. line = [i \in 0..PROCCNT |->
                IF i = 0 THEN {s}
                ELSE line[i - 1] \cup ({par[t] : t \in line[i - 1]} \ {NoProcess})]
  BY <1>6, Zenon
<1>8. LineOf(par, s) = line[PROCCNT]
  BY Zenon DEF LineOf
<1> HIDE DEF line
<1>9. line[0] = {s}
  BY <1>0, <1>7
<1>10. ASSUME NEW i \in 1..PROCCNT PROVE line[i] = More(line[i - 1])
  <2>1. i \in 0..PROCCNT /\ i # 0
    BY <1>0
  <2> QED
    BY <1>7, <2>1, Zenon
<1>11. line \in [0..PROCCNT -> V]
  <2> DEFINE T == {i \in 0..PROCCNT : line[i] \in V}
  <2>1. 0 \in T
    BY <1>0, <1>1, <1>9
  <2>2. \A i \in 1..PROCCNT : i - 1 \in T => i \in T
    <3> HIDE DEF More, V
    <3> QED
      BY <1>0, <1>1, <1>10
  <2> HIDE DEF T
  <2>3. \A i \in 0..PROCCNT : i \in T
    BY <1>0, <2>1, <2>2, RoundInduction
  <2> QED
    BY <1>7, <2>3 DEF T
<1>12. IsLine(line, par, s)
  BY <1>8, <1>9, <1>10 DEF IsLine
<1> QED
  BY <1>11, <1>12

\* A slot is in its own line.
LEMMA LineHasSelf ==
    ASSUME NEW par \in Pointers, NEW s \in Slots
    PROVE  s \in LineOf(par, s) /\ LineOf(par, s) \subseteq Slots
<1>0. PICK line \in [0..PROCCNT -> SUBSET Slots] : IsLine(line, par, s)
  BY LineRounds
<1> DEFINE T == {i \in 0..PROCCNT : s \in line[i]}
<1>1. 0 \in T
  BY <1>0, ProcessAssumption DEF IsLine
<1>2. \A i \in 1..PROCCNT : i - 1 \in T => i \in T
  BY <1>0, ProcessAssumption DEF IsLine
<1>3. PROCCNT \in Nat
  BY ProcessAssumption
<1> HIDE DEF T
<1>4. \A i \in 0..PROCCNT : i \in T
  BY <1>1, <1>2, <1>3, RoundInduction
<1> QED
  BY <1>0, <1>3, <1>4 DEF T, IsLine

\* The line of a slot is in every set that has the slot and that the parent
\* pointers do not leave.
LEMMA LineLeast ==
    ASSUME NEW par \in Pointers, NEW s \in Slots, NEW S \in SUBSET Slots,
           s \in S, \A t \in S : par[t] \in S \cup {NoProcess}
    PROVE  LineOf(par, s) \subseteq S
<1>0. PICK line \in [0..PROCCNT -> SUBSET Slots] : IsLine(line, par, s)
  BY LineRounds
<1> DEFINE T == {i \in 0..PROCCNT : line[i] \subseteq S}
<1>1. 0 \in T
  BY <1>0, ProcessAssumption DEF IsLine
<1>2. \A i \in 1..PROCCNT : i - 1 \in T => i \in T
  BY <1>0, ProcessAssumption DEF IsLine
<1>3. PROCCNT \in Nat
  BY ProcessAssumption
<1> HIDE DEF T
<1>4. \A i \in 0..PROCCNT : i \in T
  BY <1>1, <1>2, <1>3, RoundInduction
<1> QED
  BY <1>0, <1>3, <1>4 DEF T, IsLine

\* Pointers to lower slots: the rounds are enough to follow them to the end.
LEMMA LineClosed ==
    ASSUME NEW par \in Pointers, NEW s \in Slots, \A t \in Slots : par[t] < t
    PROVE  \A t \in LineOf(par, s) : par[t] \in LineOf(par, s) \cup {NoProcess}
<1>0. PICK line \in [0..PROCCNT -> SUBSET Slots] : IsLine(line, par, s)
  BY LineRounds
<1>a. PROCCNT \in Nat \ {0} /\ Slots = 0..(PROCCNT - 1)
  BY ProcessAssumption DEF Slots
<1> DEFINE Done(i) ==
             \A t \in line[i] : t <= s - i \/ par[t] \in line[i] \cup {NoProcess}
           T == {i \in 0..PROCCNT : Done(i)}
<1>1. 0 \in T
  BY <1>0, <1>a DEF IsLine
<1>2. ASSUME NEW i \in 1..PROCCNT, i - 1 \in T PROVE i \in T
  <2>1. i - 1 \in 0..PROCCNT /\ i \in 0..PROCCNT /\ Done(i - 1)
    BY <1>2, <1>a
  <2>2. line[i] = line[i - 1] \cup ({par[t] : t \in line[i - 1]} \ {NoProcess})
    BY <1>0 DEF IsLine
  <2>3. ASSUME NEW t \in line[i] PROVE t <= s - i \/ par[t] \in line[i] \cup {NoProcess}
    <3>1. CASE t \in line[i - 1]
      BY <2>2, <3>1
    <3>2. CASE t \notin line[i - 1]
      <4>1. PICK u \in line[i - 1] : t = par[u] /\ t # NoProcess
        BY <2>2, <3>2
      <4>2. u \in Slots /\ t \in Slots /\ t < u
        BY <2>1, <4>1 DEF Pointers
      <4>3. u <= s - (i - 1)
        BY <2>1, <3>2, <4>1
      <4> QED
        BY <1>a, <4>2, <4>3
    <3> QED
      BY <3>1, <3>2
  <2> QED
    BY <2>1, <2>3
<1> HIDE DEF T
<1>3. \A i \in 0..PROCCNT : i \in T
  BY <1>1, <1>2, <1>a, RoundInduction
<1>4. Done(PROCCNT) /\ line[PROCCNT] \subseteq Slots
  BY <1>3, <1>a DEF T
<1>5. ASSUME NEW t \in line[PROCCNT] PROVE ~(t <= s - PROCCNT)
  BY <1>4, <1>a
<1> QED
  BY <1>0, <1>4, <1>5 DEF IsLine

\* More pointers make longer lines.
LEMMA LineGrows ==
    ASSUME NEW par \in Pointers, NEW more \in Pointers, NEW s \in Slots, NEW r \in Slots,
           \A t \in Slots : more[t] < t,
           \A t \in Slots : par[t] # NoProcess => more[t] = par[t],
           r \in LineOf(more, s)
    PROVE  LineOf(par, r) \subseteq LineOf(more, s)
<1> DEFINE S == LineOf(more, s)
<1>1. S \in SUBSET Slots
  BY LineHasSelf
<1>2. \A t \in S : more[t] \in S \cup {NoProcess}
  BY LineClosed
<1>3. \A t \in S : par[t] \in S \cup {NoProcess}
  BY <1>1, <1>2
<1> HIDE DEF S
<1>4. LineOf(par, r) \subseteq S
  BY <1>1, <1>3, LineLeast DEF S
<1> QED
  BY <1>4 DEF S

-----------------------------------------------------------------------------
\* The slots fill from the bottom, slot 0 apart, and a process is created by
\* one in a lower slot.
LineInv ==
    /\ \A s, t \in Slots \ {0} : s < t /\ Live(t) => Live(s)
    /\ \A s \in Slots : parent[s] < s
    /\ \A s \in Slots \ {0} : ~Live(s) => parent[s] = NoProcess

\* Inductive invariant for the registers.  The fields of the slot of the
\* running process are stale, but a child that gets a copy of them gets zeros
\* or values from its line.
RegInv ==
    /\ SwitchTypeOK
    /\ FrameInv
    /\ stage = "boot" =>
          /\ regs = Zero /\ wrote = {}
          /\ parent = [s \in Slots |-> NoProcess]
    /\ stage = "run" =>
          /\ LineInv
          /\ \A s \in LiveSlots \ killed : saved[s] \in {Zero} \cup Line(s)
    /\ RegistersFollow

LEMMA InitRegInv == SwitchInit => RegInv
<1> SUFFICES ASSUME SwitchInit PROVE RegInv
  OBVIOUS
<1>1. stage = "boot" /\ FrameInv /\ SwitchTypeOK
  BY InitFrameInv, InitSwitchTypeOK DEF SwitchInit, Init
<1> QED
  BY <1>1 DEF SwitchInit, RegInv, RegistersFollow

\* A step that does not touch the registers, nor the set of processes.
LEMMA RegistersUntouched ==
    ASSUME RegInv, SwitchTypeOK', FrameInv',
           UNCHANGED <<stage, killed, switch_vars, current>>,
           stage = "run" => \A s \in Slots \ killed : Live(s)' <=> Live(s),
           killed \subseteq {0}
    PROVE  RegInv'
<1>1. CASE stage # "run"
  BY <1>1 DEF RegInv, RegistersFollow, switch_vars
<1>2. CASE stage = "run"
  <2>1. \A s \in Slots \ {0} : Live(s)' <=> Live(s)
    BY <1>2
  <2>2. LineInv'
    BY <1>2, <2>1 DEF RegInv, LineInv, switch_vars
  <2>3. LiveSlots' \ killed' = LiveSlots \ killed
    BY <1>2 DEF LiveSlots
  <2>4. \A s \in Slots : Line(s)' = Line(s) /\ RegistersOf(s)' = RegistersOf(s)
    BY DEF Line, LineOf, RegistersOf, switch_vars
  <2>5. LiveSlots \ killed \subseteq Slots
    BY DEF LiveSlots
  <2>6. \A s \in LiveSlots \ killed : saved[s] \in {Zero} \cup Line(s)
    BY <1>2 DEF RegInv
  <2>7. RegistersFollow'
    BY <1>2, <2>3, <2>4, <2>5 DEF RegInv, RegistersFollow, switch_vars
  <2> HIDE DEF Line
  <2> QED
    BY <1>2, <2>2, <2>3, <2>4, <2>5, <2>6, <2>7 DEF RegInv, switch_vars
<1> QED
  BY <1>1, <1>2

LEMMA NextRegInv == RegInv /\ [SwitchNext]_<<vars, switch_vars>> => RegInv'
<1> SUFFICES ASSUME RegInv, [SwitchNext]_<<vars, switch_vars>> PROVE RegInv'
  OBVIOUS
<1>0. /\ FrameInv /\ FrameInv' /\ SwitchTypeOK /\ SwitchTypeOK'
      /\ killed \subseteq {0}
  BY NextFrameInv, NextSwitchTypeOK, SwitchStep DEF RegInv, FrameInv
<1>a. /\ current \in Slots /\ state \in [Slots -> States]
      /\ saved \in [Slots -> Slots \cup {Zero}] /\ parent \in Pointers
      /\ parent' \in Pointers /\ regs \in Slots \cup {Zero} /\ 0 \in Slots
  BY <1>0, SlotZero DEF SwitchTypeOK, TypeOK, Pointers
<1>b. ASSUME stage = "run"
      PROVE  /\ LineInv /\ (Live(current) \/ current \in killed)
             /\ \A s \in LiveSlots \ killed : saved[s] \in {Zero} \cup Line(s)
             /\ \A s \in LiveSlots \ killed :
                   /\ s \in wrote => RegistersOf(s) = s
                   /\ s \notin wrote => RegistersOf(s) \in {Zero} \cup Line(s)
  BY <1>0, <1>b DEF RegInv, FrameInv, Live, RegistersFollow
<1>c. \A s \in Slots : s \in Line(s)
  BY <1>a, LineHasSelf DEF Line
<1>d. LiveSlots = {s \in Slots : Live(s)} /\ LiveSlots' = {s \in Slots : Live(s)'}
  BY DEF LiveSlots
<1> HIDE DEF Line
<1>1. CASE first_process
  <2>1. /\ stage = "boot" /\ stage' = "run" /\ state' = [state EXCEPT ![0] = "RUNNABLE"]
        /\ current' = 0 /\ saved' = [saved EXCEPT ![0] = Zero]
        /\ UNCHANGED <<regs, parent, wrote>>
    BY <1>1 DEF first_process, create_first_process, free_registers
  <2>2. /\ regs = Zero /\ wrote = {} /\ parent = [s \in Slots |-> NoProcess]
        /\ \A s \in Slots : state[s] = "FREE"
    BY <2>1 DEF RegInv, FrameInv
  <2>3. LiveSlots' = {0} /\ \A s \in Slots : Live(s)' <=> s = 0
    BY <1>a, <2>1, <2>2 DEF LiveSlots, Live
  <2>4. LineInv'
    BY <1>a, <2>1, <2>2, <2>3, ProcessAssumption DEF LineInv, NoProcess, Slots
  <2>5. saved'[0] = Zero /\ RegistersOf(0)' = Zero
    BY <1>a, <2>1, <2>2 DEF RegistersOf
  <2> QED
    BY <1>0, <2>1, <2>2, <2>3, <2>4, <2>5 DEF RegInv, RegistersFollow
<1>2. ASSUME NEW s \in Slots, NEW p \in Pids, fork(s, p) PROVE RegInv'
  <2>1. /\ sys_fork(s, p) /\ stage = "run" /\ FirstFree(s) /\ UNCHANGED <<regs, killed, current>>
        /\ killed = {} /\ s # 0
    BY <1>0, <1>2, ForkBeforeKill DEF fork, sys_fork
  <2>2. CASE stage' = "stuck"
    BY <1>0, <2>2 DEF RegInv, RegistersFollow
  <2>3. CASE stage' # "stuck"
    <3>1. /\ stage' = "run" /\ saved' = Copied(s)
          /\ parent' = [parent EXCEPT ![s] = current] /\ wrote' = wrote \ {s}
      BY <1>2, <2>3 DEF fork
    <3>2. state' = [state EXCEPT ![s] = "RUNNABLE"]
      BY <2>1, <3>1 DEF sys_fork
    <3>3. Live(current) /\ ~Live(s) /\ current # s /\ parent[s] = NoProcess
      BY <1>b, <2>1 DEF FirstFree, Live, LineInv
    <3>4. current < s
      BY <1>a, <1>b, <2>1, <3>3, ProcessAssumption DEF LineInv, Slots
    <3>5. \A t \in Slots : Live(t)' <=> t = s \/ Live(t)
      BY <1>a, <3>2 DEF Live
    <3>6. LineInv'
      <4>1. \A t \in Slots : t < s => Live(t)
        BY <2>1 DEF FirstFree, Live
      <4>2. \A t, u \in Slots \ {0} : t < u /\ Live(u)' => Live(t)'
        BY <1>b, <2>1, <3>5, <4>1 DEF LineInv
      <4>3. \A t \in Slots : parent'[t] < t
        BY <1>a, <1>b, <2>1, <3>1, <3>4 DEF LineInv, Pointers
      <4>4. \A t \in Slots \ {0} : ~Live(t)' => parent'[t] = NoProcess
        BY <1>a, <1>b, <2>1, <3>1, <3>5 DEF LineInv, Pointers
      <4> QED
        BY <4>2, <4>3, <4>4 DEF LineInv
    <3>7. \A t \in Slots : parent[t] # NoProcess => parent'[t] = parent[t]
      BY <1>a, <3>1, <3>3 DEF Pointers
    <3>8. ASSUME NEW t \in Slots, NEW r \in Line(t)', r \in Slots PROVE Line(r) \subseteq Line(t)'
      <4>1. \A u \in Slots : parent'[u] < u
        BY <3>6 DEF LineInv
      <4> QED
        BY <1>a, <3>7, <3>8, <4>1, LineGrows DEF Line
    <3>9. \A t \in Slots : t \in Line(t)'
      BY <1>a, LineHasSelf DEF Line
    <3>10. current \in Line(s)'
      <4>1. \A u \in Slots : parent'[u] < u
        BY <3>6 DEF LineInv
      <4>2. parent'[s] \in LineOf(parent', s) \cup {NoProcess}
        BY <1>a, <3>9, <4>1, LineClosed DEF Line
      <4>3. parent'[s] = current /\ current # NoProcess
        BY <1>a, <3>1 DEF Pointers, Slots, NoProcess
      <4> QED
        BY <4>2, <4>3 DEF Line
    <3>11. /\ saved'[s] = saved[current]
           /\ \A t \in Slots \ {s} : saved'[t] = saved[t]
      BY <1>a, <3>1, <3>3 DEF Copied, free_registers
    <3>12. \A t \in LiveSlots' : saved'[t] \in {Zero} \cup Line(t)'
      <4>1. saved[current] \in {Zero} \cup Line(current)
        BY <1>a, <1>b, <1>d, <2>1, <3>3
      <4>2. saved'[s] \in {Zero} \cup Line(s)'
        BY <1>a, <3>8, <3>10, <3>11, <4>1
      <4>3. ASSUME NEW t \in Slots \ {s}, Live(t) PROVE saved'[t] \in {Zero} \cup Line(t)'
        BY <1>b, <1>d, <2>1, <3>8, <3>9, <3>11, <4>3
      <4> QED
        BY <1>d, <3>5, <4>2, <4>3
    <3>13. ASSUME NEW t \in LiveSlots'
           PROVE  /\ t \in wrote' => RegistersOf(t)' = t
                  /\ t \notin wrote' => RegistersOf(t)' \in {Zero} \cup Line(t)'
      <4>1. CASE t = s
        <5>1. RegistersOf(s)' = saved'[s] /\ s \notin wrote'
          BY <2>1, <3>1, <3>3 DEF RegistersOf
        <5> QED
          BY <3>12, <4>1, <5>1
      <4>2. CASE t # s
        <5>1. t \in LiveSlots \ killed /\ t \in Slots
          BY <1>d, <2>1, <3>5, <4>2
        <5>2. RegistersOf(t)' = RegistersOf(t)
          BY <2>1, <3>11, <4>2, <5>1 DEF RegistersOf
        <5>3. t \in wrote' <=> t \in wrote
          BY <3>1, <4>2
        <5> QED
          BY <1>b, <2>1, <3>8, <3>9, <5>1, <5>2, <5>3
      <4> QED
        BY <4>1, <4>2
    <3> QED
      BY <1>0, <3>1, <3>6, <3>12, <3>13 DEF RegInv, RegistersFollow
  <2> QED
    BY <2>2, <2>3
<1>3. ASSUME NEW p \in Pids, kill(p) PROVE RegInv'
  <2>1. /\ stage = "run" /\ UNCHANGED <<regs, parent, current>>
        /\ wrote' = wrote \ {0} /\ saved' = [saved EXCEPT ![0] = Zero]
    BY <1>3 DEF kill, kill_process, free_registers
  <2>2. CASE stage' = "stuck"
    BY <1>0, <2>2 DEF RegInv, RegistersFollow
  <2>3. CASE stage' # "stuck"
    <3>1. /\ stage' = "run" /\ killed' = killed \cup {0}
          /\ state' = [state EXCEPT ![0] = "FREE"]
      BY <1>3, <2>1, <2>3 DEF kill, kill_process
    <3>2. \A t \in Slots \ {0} : Live(t)' <=> Live(t)
      BY <1>a, <3>1 DEF Live
    <3>3. LiveSlots' \ killed' = LiveSlots \ (killed \cup {0})
      BY <1>d, <3>1, <3>2
    <3>4. LineInv'
      BY <1>b, <2>1, <3>2 DEF LineInv
    <3>5. ASSUME NEW t \in LiveSlots \ (killed \cup {0})
          PROVE  /\ t \in Slots /\ Line(t)' = Line(t) /\ saved'[t] = saved[t]
                 /\ RegistersOf(t)' = RegistersOf(t) /\ (t \in wrote' <=> t \in wrote)
      <4>1. t \in Slots /\ saved'[t] = saved[t] /\ (t \in wrote' <=> t \in wrote)
        BY <1>a, <1>d, <2>1
      <4>2. Line(t)' = Line(t)
        BY <2>1 DEF Line, LineOf
      <4> QED
        BY <2>1, <4>1, <4>2 DEF RegistersOf
    <3> QED
      BY <1>0, <1>b, <2>1, <3>1, <3>3, <3>4, <3>5 DEF RegInv, RegistersFollow
  <2> QED
    BY <2>2, <2>3
<1>4. ASSUME NEW n \in Slots, tick(n) PROVE RegInv'
  <2>1. /\ stage = "run" /\ stage' = "run" /\ UNCHANGED <<killed, parent, wrote>>
        /\ current' = n /\ state' = [state EXCEPT ![current] = "RUNNABLE"]
        /\ saved' = [saved EXCEPT ![current] = regs] /\ regs' = saved'[n]
    BY <1>4 DEF tick, scheduler, switch_to, Stores, Resumed
  <2>2. \A t \in Slots \ killed : Live(t)' <=> Live(t)
    BY <1>a, <1>b, <2>1 DEF Live
  <2>3. LineInv'
    <3>1. \A t \in Slots \ {0} : Live(t)' <=> Live(t)
      BY <1>0, <2>2
    <3> QED
      BY <1>b, <2>1, <3>1 DEF LineInv
  <2>4. LiveSlots' \ killed' = LiveSlots \ killed
    BY <1>d, <2>1, <2>2
  <2>5. ASSUME NEW t \in LiveSlots \ killed
        PROVE  /\ t \in Slots /\ Line(t)' = Line(t) /\ saved'[t] = RegistersOf(t)
               /\ RegistersOf(t)' = RegistersOf(t)
    <3>1. t \in Slots /\ saved'[t] = RegistersOf(t)
      BY <1>a, <1>d, <2>1 DEF RegistersOf
    <3>2. Line(t)' = Line(t)
      BY <2>1 DEF Line, LineOf
    <3> QED
      BY <2>1, <3>1, <3>2 DEF RegistersOf
  <2>6. \A t \in LiveSlots \ killed : saved'[t] \in {Zero} \cup Line(t)'
    BY <1>b, <1>c, <2>1, <2>5
  <2> QED
    BY <1>0, <1>b, <2>1, <2>3, <2>4, <2>5, <2>6 DEF RegInv, RegistersFollow
<1>5. CASE user_code
  <2>1. /\ stage = "run" /\ stage' = "run" /\ regs' = current
        /\ wrote' = wrote \cup {current}
        /\ UNCHANGED <<saved, parent, state, killed, current>>
    BY <1>5 DEF user_code, vars, fields
  <2>2. LineInv' /\ LiveSlots' = LiveSlots
    BY <1>b, <2>1 DEF LineInv, LiveSlots, Live
  <2>3. ASSUME NEW t \in LiveSlots \ killed
        PROVE  /\ Line(t)' = Line(t)
               /\ t \in wrote' => RegistersOf(t)' = t
               /\ t \notin wrote' => RegistersOf(t)' \in {Zero} \cup Line(t)
    <3>1. Line(t)' = Line(t)
      BY <2>1 DEF Line, LineOf
    <3> QED
      BY <1>b, <2>1, <3>1 DEF RegistersOf
  <2> QED
    BY <1>0, <1>b, <2>1, <2>2, <2>3 DEF RegInv, RegistersFollow
<1>6. CASE sleep /\ UNCHANGED switch_vars
  <2>1. /\ stage = "run" /\ UNCHANGED <<stage, killed, current>>
        /\ state' = [state EXCEPT ![current] = "WAITING"]
    BY <1>6 DEF sleep
  <2>2. \A s \in Slots \ killed : Live(s)' <=> Live(s)
    BY <1>a, <1>b, <2>1 DEF Live
  <2> QED
    BY <1>0, <1>6, <2>1, <2>2, RegistersUntouched
<1>7. CASE wakeup /\ UNCHANGED switch_vars
  <2>1. UNCHANGED <<stage, killed, current>> /\ \A s \in Slots : Live(s)' <=> Live(s)
    BY <1>7, <1>a DEF wakeup, Sleeper, Live
  <2> QED
    BY <1>0, <1>7, <2>1, RegistersUntouched
<1>8. CASE UNCHANGED <<stage, state, killed, current, switch_vars>>
  <2>1. \A s \in Slots : Live(s)' <=> Live(s)
    BY <1>8 DEF Live
  <2> QED
    BY <1>0, <1>8, <2>1, RegistersUntouched
<1> QED
  BY <1>1, <1>2, <1>3, <1>4, <1>5, <1>6, <1>7, <1>8
  DEF SwitchNext, sys_fork_refused, sys_fork_undone, kill_process_refused, fault_again,
      vars, fields

\* A process finds its registers again, and starts with zeros or with what a
\* process of its line has left behind.
THEOREM ProcessRegistersFollow == SwitchSpec => []RegistersFollow
<1>1. RegInv => RegistersFollow
  BY DEF RegInv
<1> QED
  BY <1>1, InitRegInv, NextRegInv, PTL DEF SwitchSpec
=============================================================================
