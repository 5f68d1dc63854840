-------------------------- MODULE ExceptionProofs --------------------------
(***************************************************************************)
(* What happens around exceptions.  Context: what uservec, userret,        *)
(* kernel_entry and kernel_exit do to the registers and to the kernel      *)
(* stack, for any number of system calls and interrupts.  Uart: what main  *)
(* and the handler of the timer do to the mini UART for FIFOs, messages    *)
(* and input of any length: no byte is lost, doubled or moved.             *)
(***************************************************************************)
EXTENDS Context, Uart, Iteration, SequenceTheorems

\* What uservec has left in the trap frame: x18 and x19 are overwritten by
\* x20 and x21, and the last two words are not written at all.
TrapHolds ==
    /\ \A w \in 0..17 : trap[w] = want[w]
    /\ \A w \in 18..28 : trap[w] = want[w + 2]

\* Inductive invariant: where the registers of the interrupted code are, and
\* how deep the kernel stack is, at every step of the two ways in and out.
ContextInv ==
    /\ ContextTypeOK
    /\ RegistersKept
    /\ StackLeftBySyscalls
    /\ mode = "syscall" => via = "svc" /\ TrapHolds /\ used = calls - 1
    /\ mode = "userret" => via = "svc" /\ TrapHolds /\ used = calls
    /\ mode \in {"handler", "exit"} =>
          /\ via = "irq"
          /\ \A r \in Registers : frame[r] = want[r]
          /\ used = calls + 16

-----------------------------------------------------------------------------
\* The greatest element of a set is the element above all others.
LEMMA MaxIs ==
    ASSUME NEW S \in SUBSET Int, NEW m \in S, \A x \in S : x <= m
    PROVE  Max(S) = m
<1>1. \A y \in S : m >= y
  OBVIOUS
<1>2. ASSUME NEW n \in S, \A y \in S : n >= y
      PROVE  n = m
  BY <1>2
<1> QED
  BY <1>1, <1>2 DEF Max

\* Of the two registers stored in one word of the trap frame the later wins.
LEMMA StoredLast ==
    ASSUME NEW w \in Words
    PROVE  LET stored == {r \in Registers : SaveWord(r) = w}
           IN  /\ w \in 0..17 => stored # {} /\ Max(stored) = w
               /\ w \in 18..28 => stored # {} /\ Max(stored) = w + 2
               /\ w \in 29..30 => stored = {}
<1> DEFINE stored == {r \in Registers : SaveWord(r) = w}
<1>1. stored \subseteq Int
  BY DEF Registers
<1>2. ASSUME w \in 0..17 PROVE stored # {} /\ Max(stored) = w
  <2>1. w \in stored /\ \A x \in stored : x <= w
    BY <1>2 DEF Registers, SaveWord
  <2> QED
    BY <1>1, <2>1, MaxIs
<1>3. ASSUME w \in 18..28 PROVE stored # {} /\ Max(stored) = w + 2
  <2>1. w + 2 \in stored /\ \A x \in stored : x <= w + 2
    BY <1>3 DEF Registers, SaveWord
  <2> QED
    BY <1>1, <2>1, MaxIs
<1>4. ASSUME w \in 29..30 PROVE stored = {}
  BY <1>4 DEF Registers, SaveWord
<1> QED
  BY <1>2, <1>3, <1>4

LEMMA InitContextInv == ContextInit => ContextInv
  BY ContextAssumption
  DEF ContextInit, ContextInv, ContextTypeOK, RegistersKept, StackLeftBySyscalls, Ascending,
      Registers, Words, Values, Modes

\* uservec: the trap frame holds all registers but x18 and x19.
LEMMA EnterSyscall == ContextInv /\ uservec => ContextInv'
<1> SUFFICES ASSUME ContextInv, uservec PROVE ContextInv'
  OBVIOUS
<1>1. /\ mode' = "syscall" /\ via' = "svc" /\ want' = regs
      /\ calls' = calls + 1 /\ used' = used /\ used = calls
  BY DEF uservec, ContextInv, StackLeftBySyscalls
<1>2. \A w \in Words :
         /\ w \in 0..17 => trap'[w] = regs[w]
         /\ w \in 18..28 => trap'[w] = regs[w + 2]
         /\ w \in 29..30 => trap'[w] = trap[w]
  BY StoredLast DEF uservec
<1>3. TrapHolds'
  BY <1>1, <1>2 DEF TrapHolds, Words
<1>4. trap' \in [Words -> Values]
  <2>1. \A w \in Words : trap'[w] \in Values
    BY <1>2 DEF ContextInv, ContextTypeOK, Words, Registers
  <2> QED
    BY <2>1 DEF uservec
<1>5. ContextTypeOK'
  BY <1>1, <1>4, ContextAssumption
  DEF uservec, ContextInv, ContextTypeOK, Modes, Registers, Values, Junk
<1> QED
  BY <1>1, <1>3, <1>5 DEF ContextInv, RegistersKept, StackLeftBySyscalls, ContextTypeOK

\* userret: what the trap frame gives back.
LEMMA LeaveSyscall == ContextInv /\ userret => ContextInv'
<1> SUFFICES ASSUME ContextInv, userret PROVE ContextInv'
  OBVIOUS
<1>1. /\ mode' = "user" /\ via' = "svc" /\ want' = want
      /\ used' = used /\ calls' = calls /\ used = calls /\ TrapHolds
      /\ regs' = [r \in Registers |-> trap[LoadWord(r)]]
  BY DEF userret, ContextInv
<1>2. /\ want \in [Registers -> Values]
      /\ trap \in [Words -> Values]
  BY DEF ContextInv, ContextTypeOK
<1>3. \A r \in Registers \ LostRegisters : regs'[r] = want[r]
  BY <1>1, <1>2 DEF TrapHolds, LoadWord, LostRegisters, Registers, Words
<1>4. RegistersKept'
  BY <1>1, <1>3 DEF RegistersKept
<1>5. regs' \in [Registers -> Values]
  BY <1>1, <1>2 DEF LoadWord, Registers, Words
<1>6. ContextTypeOK'
  BY <1>1, <1>5 DEF userret, ContextInv, ContextTypeOK, Modes
<1> QED
  BY <1>1, <1>4, <1>6 DEF ContextInv, StackLeftBySyscalls

\* kernel_exit: what the frame on the kernel stack gives back.
LEMMA LeaveInterrupt == ContextInv /\ kernel_exit => ContextInv'
<1> SUFFICES ASSUME ContextInv, kernel_exit PROVE ContextInv'
  OBVIOUS
<1>1. /\ mode' \in {"user", "idle"} /\ via' = "irq" /\ want' = want
      /\ used' = calls /\ calls' = calls
      /\ regs' = [r \in Registers |-> frame[r]]
      /\ \A r \in Registers : frame[r] = want[r]
  BY DEF kernel_exit, ContextInv, ContextTypeOK, ExitPops
<1>2. want \in [Registers -> Values]
  BY DEF ContextInv, ContextTypeOK
<1>3. regs' = want
  BY <1>1, <1>2
<1>4. ContextTypeOK'
  BY <1>1, <1>2, <1>3 DEF kernel_exit, ContextInv, ContextTypeOK, Modes
<1> QED
  BY <1>1, <1>3, <1>4 DEF ContextInv, RegistersKept, StackLeftBySyscalls

LEMMA NextContextInv == ContextInv /\ [ContextNext]_contextVars => ContextInv'
<1> SUFFICES ASSUME ContextInv, [ContextNext]_contextVars PROVE ContextInv'
  OBVIOUS
<1> USE DEF ContextInv, ContextTypeOK, RegistersKept, StackLeftBySyscalls, Modes
<1>1. CASE user_start
  BY <1>1 DEF user_start
<1>2. ASSUME NEW values \in {Ascending, Descending}, user_code(values)
      PROVE  ContextInv'
  <2>1. values \in [Registers -> Values]
    BY DEF Ascending, Descending, Registers, Values
  <2> QED
    BY <1>2, <2>1 DEF user_code
<1>3. Clobbered \in [Registers -> Values]
  BY DEF Clobbered, CallerSaved, Registers, Values, Junk
<1>4. CASE handle_syscall
  BY <1>3, <1>4 DEF handle_syscall, TrapHolds
<1>5. CASE kernel_entry
  <2>1. /\ frame' \in [Words -> Values]
        /\ \A r \in Registers : frame'[r] = regs[r]
    BY <1>5 DEF kernel_entry, Words, Registers
  <2> QED
    BY <1>5, <2>1 DEF kernel_entry
<1>6. CASE handler
  BY <1>3, <1>6 DEF handler
<1>7. CASE UNCHANGED contextVars
  BY <1>7 DEF contextVars, TrapHolds
<1> QED
  BY <1>1, <1>2, <1>4, <1>5, <1>6, <1>7, EnterSyscall, LeaveSyscall,
     LeaveInterrupt
  DEF ContextNext

LEMMA ContextInvariance == ContextSpec => []ContextInv
  BY InitContextInv, NextContextInv, PTL DEF ContextSpec

-----------------------------------------------------------------------------
\* The kernel stack never grows above where it began, and every frame read
\* is one of the tokens: used stays a natural number under kernel_exit.
THEOREM ContextTypes == ContextSpec => []ContextTypeOK
<1>1. ContextInv => ContextTypeOK
  BY DEF ContextInv
<1> QED
  BY <1>1, ContextInvariance, PTL

\* Interrupted code gets its registers back, all of them from kernel_exit
\* and all but x18 and x19 from userret.
THEOREM ContextRegistersKept == ContextSpec => []RegistersKept
<1>1. ContextInv => RegistersKept
  BY DEF ContextInv
<1> QED
  BY <1>1, ContextInvariance, PTL

\* Every system call leaves 16 bytes on the kernel stack, and interrupts,
\* however many, leave none.
THEOREM ContextStackLeftBySyscalls == ContextSpec => []StackLeftBySyscalls
<1>1. ContextInv => StackLeftBySyscalls
  BY DEF ContextInv
<1> QED
  BY <1>1, ContextInvariance, PTL

-----------------------------------------------------------------------------
LEMMA MessageType == Message \in Seq(Bytes)
<1>1. 1..255 \subseteq Bytes
  BY DEF Bytes
<1> QED
  BY <1>1, UartAssumption, SeqMonotonic

LEMMA InputBytes == Input \subseteq Bytes /\ Seq(Input) \subseteq Seq(Bytes)
<1>1. Input \subseteq Bytes
  BY DEF Input, Bytes, CR
<1> QED
  BY <1>1, SeqMonotonic

LEMMA InitTypeOK == Init => TypeOK
<1> SUFFICES ASSUME Init PROVE TypeOK
  OBVIOUS
<1>1. <<65>> \in Seq(Input) /\ Len(<<65>>) = 1
  BY DEF Input
<1>2. rx \in Seq(Input) /\ Len(rx) <= FifoSize
  <2>1. CASE rx = <<>>
    BY <2>1, UartAssumption
  <2>2. CASE rx = <<65>>
    BY <1>1, <2>2, UartAssumption
  <2> QED
    BY <2>1, <2>2 DEF Init
<1> QED
  BY <1>2, MessageType, UartAssumption DEF Init, TypeOK, Bytes

\* A step keeps the types if main stores only what it has to put out.
LEMMA NextTypeOK ==
    TypeOK /\ (main = "store" => rest # <<>>) /\ [Next]_vars => TypeOK'
<1> SUFFICES ASSUME TypeOK, main = "store" => rest # <<>>, [Next]_vars PROVE TypeOK'
  OBVIOUS
<1>0. FifoSize \in Nat \ {0}
  BY UartAssumption
<1> USE DEF enables
<1>1. ASSUME NEW b \in Input, Receive(b) PROVE TypeOK'
  BY <1>0, <1>1 DEF Receive, TypeOK
<1>2. CASE Transmit
  BY <1>0, <1>2 DEF Transmit, TypeOK
<1>3. CASE Tick
  BY <1>3 DEF Tick, TypeOK
<1>4. CASE uart_init
  BY <1>0, <1>4 DEF uart_init, IrqsEnabled, MainAt, TypeOK
<1>5. CASE uart_puts_wait \/ uart_puts_end \/ enable_timer_interrupt
  BY <1>5 DEF uart_puts_wait, uart_puts_end, enable_timer_interrupt, TypeOK
<1>6. ASSUME NEW b \in Bytes, Store(b) PROVE tx' \in Seq(Bytes) /\ Len(tx') <= FifoSize
  BY <1>0, <1>6 DEF Store, Ready, TypeOK
<1>7. CASE uart_puts_store
  <2>1. Head(rest) \in Bytes /\ Tail(rest) \in Seq(Bytes)
    BY <1>7 DEF TypeOK, uart_puts_store, MainAt
  <2> QED
    BY <1>6, <1>7, <2>1 DEF uart_puts_store, TypeOK
<1>8. CASE Interrupt \/ handle_irq \/ uart_send_wait
  BY <1>8 DEF Interrupt, handle_irq, uart_send_wait, TypeOK
<1>9. CASE uart_getc
  <2>1. \A b \in Input : Converted(b) \in Bytes
    BY DEF Converted, Input, CR, NL, Bytes
  <2>2. c' \in Bytes /\ rx' \in Seq(Input) /\ Len(rx') <= FifoSize
    <3>1. CASE rx # <<>> /\ c' = Converted(Head(rx)) /\ rx' = Tail(rx)
      BY <1>0, <2>1, <3>1 DEF TypeOK
    <3>2. CASE rx = <<>> /\ c' = NoByte /\ UNCHANGED rx
      BY <3>2 DEF TypeOK, NoByte, Bytes
    <3> QED
      BY <1>9, <3>1, <3>2 DEF uart_getc
  <2> QED
    BY <1>9, <2>2 DEF uart_getc, TypeOK
<1>10. CASE uart_send_store
  BY <1>6, <1>10 DEF uart_send_store, TypeOK
<1>11. CASE handle_irq_timer
  BY <1>11 DEF handle_irq_timer, reprogram, TypeOK
<1>12. CASE UNCHANGED vars
  BY <1>12 DEF vars, TypeOK
<1> QED
  BY <1>1, <1>2, <1>3, <1>4, <1>5, <1>7, <1>8, <1>9, <1>10, <1>11, <1>12
  DEF Next, Main, Handler

\* Where main and the handler can be.  The timer does not run before main is
\* done with the UART, so a test of the transmitter still holds at the store.
ControlInv ==
    /\ TypeOK
    /\ main # "loop" => irq = "none" /\ timer = "off"
    /\ main = "store" => rest # <<>>
    /\ main \in {"timer", "loop"} => rest = <<>>
    /\ main = "store" \/ irq = "store" => Ready

LEMMA InitControlInv == Init => ControlInv
  BY InitTypeOK DEF Init, ControlInv

LEMMA NextControlInv == ControlInv /\ [Next]_vars => ControlInv'
<1> SUFFICES ASSUME ControlInv, [Next]_vars PROVE ControlInv'
  OBVIOUS
<1>0. TypeOK /\ TypeOK'
  BY NextTypeOK DEF ControlInv
<1>1. CASE Transmit
  <2>1. Ready => Ready'
    BY <1>0, <1>1, UartAssumption DEF Transmit, Ready, TypeOK
  <2> QED
    BY <1>0, <1>1, <2>1 DEF Transmit, ControlInv
<1>2. CASE \E b \in Input : Receive(b)
  BY <1>0, <1>2 DEF Receive, ControlInv, Ready
<1>3. CASE Tick
  BY <1>0, <1>3 DEF Tick, ControlInv, Ready
<1>4. CASE Main
  BY <1>0, <1>4
  DEF Main, uart_init, uart_puts_wait, uart_puts_store, uart_puts_end,
      enable_timer_interrupt, MainAt, ControlInv, Ready
<1>5. CASE Handler
  BY <1>0, <1>5
  DEF Handler, Interrupt, handle_irq, uart_getc, uart_send_wait, uart_send_store,
      handle_irq_timer, ControlInv, Ready
<1>6. CASE UNCHANGED vars
  BY <1>0, <1>6 DEF vars, ControlInv, Ready
<1> QED
  BY <1>1, <1>2, <1>3, <1>4, <1>5, <1>6 DEF Next

\* The types of the UART, for every size of the FIFOs and of what it carries.
THEOREM UartTypeOK == Spec => []TypeOK
<1>1. ControlInv => TypeOK
  BY DEF ControlInv
<1> QED
  BY <1>1, InitControlInv, NextControlInv, PTL DEF Spec

-----------------------------------------------------------------------------
\* Concatenation of sequences of bytes.
LEMMA JoinAssociative ==
    \A u, v, w \in Seq(Bytes) : (u \o v) \o w = u \o (v \o w)
  BY ConcatAssociative

LEMMA Joining ==
    /\ \A u, v \in Seq(Bytes) : u \o v \in Seq(Bytes)
    /\ \A u \in Seq(Bytes) : u \o <<>> = u /\ <<>> \o u = u
    /\ \A u \in Seq(Bytes) : \A b \in Bytes :
          Append(u, b) = u \o <<b>> /\ <<b>> \in Seq(Bytes)
    /\ \A u \in Seq(Bytes) : u # <<>> =>
          /\ Head(u) \in Bytes /\ Tail(u) \in Seq(Bytes)
          /\ <<Head(u)>> \o Tail(u) = u
<1>1. ASSUME NEW u \in Seq(Bytes), NEW v \in Seq(Bytes) PROVE u \o v \in Seq(Bytes)
  BY ConcatProperties
<1>2. ASSUME NEW u \in Seq(Bytes) PROVE u \o <<>> = u /\ <<>> \o u = u
  BY ConcatEmptySeq
<1>3. ASSUME NEW u \in Seq(Bytes), NEW b \in Bytes
      PROVE  Append(u, b) = u \o <<b>> /\ <<b>> \in Seq(Bytes)
  BY AppendIsConcat
<1>4. ASSUME NEW u \in Seq(Bytes), u # <<>>
      PROVE  /\ Head(u) \in Bytes /\ Tail(u) \in Seq(Bytes)
             /\ <<Head(u)>> \o Tail(u) = u
  <2>1. Head(u) \in Bytes /\ Tail(u) \in Seq(Bytes)
    BY <1>4
  <2>2. Len(<<Head(u)>> \o Tail(u)) = Len(u)
    BY <1>4, <2>1
  <2>3. \A i \in 1..Len(u) : (<<Head(u)>> \o Tail(u))[i] = u[i]
    BY <1>4, <2>1
  <2>4. <<Head(u)>> \o Tail(u) \in Seq(Bytes)
    BY <2>1
  <2> QED
    BY <2>1, <2>2, <2>3, <2>4, SeqEqual
<1> QED
  BY <1>1, <1>2, <1>3, <1>4

\* The rounds that compute the echo of a sequence.
IsEcho(e, s) ==
    /\ Echo(s) = e[Len(s)]
    /\ e[0] = <<>>
    /\ \A i \in 1..Len(s) : e[i] = e[i - 1] \o Echoed(s[i])

LEMMA EchoedType ==
    ASSUME NEW b \in Bytes
    PROVE  Echoed(b) \in Seq(Bytes)
<1>1. NL \in Bytes
  BY DEF NL, Bytes
<1> QED
  BY <1>1 DEF Echoed

LEMMA EchoRounds ==
    ASSUME NEW s \in Seq(Bytes)
    PROVE  \E e \in [0..Len(s) -> Seq(Bytes)] : IsEcho(e, s)
<1> DEFINE V == Seq(Bytes)
           n == Len(s)
           step == [iv \in (1..n) \X V |-> iv[2] \o Echoed(s[iv[1]])]
           echo == CHOOSE w : w = [i \in 0..n |->
                      IF i = 0 THEN <<>> ELSE w[i - 1] \o Echoed(s[i])]
<1>0. n \in Nat /\ <<>> \in V
  OBVIOUS
<1>1. \A i \in 1..n, v \in V : v \o Echoed(s[i]) \in V
  <2> SUFFICES ASSUME NEW i \in 1..n, NEW v \in V PROVE v \o Echoed(s[i]) \in V
    OBVIOUS
  <2>1. Echoed(s[i]) \in V
    BY EchoedType
  <2> QED
    BY <2>1, ConcatProperties
<1>2. step \in [(1..n) \X V -> V]
  <2> HIDE DEF V, n
  <2> QED
    BY <1>1
<1>3. PICK f \in [0..n -> V] : IsLoop(f, n, <<>>, step)
  <2> HIDE DEF step, V, n
  <2> QED
    BY <1>0, <1>2, LoopExists
<1> HIDE DEF V, n
<1>4. f[0] = <<>>
  BY <1>3 DEF IsLoop
<1>5. ASSUME NEW i \in 1..n PROVE f[i] = f[i - 1] \o Echoed(s[i])
  <2>1. f[i] = step[<<i, f[i - 1]>>]
    BY <1>3 DEF IsLoop
  <2>2. <<i, f[i - 1]>> \in (1..n) \X V
    BY <1>0
  <2>3. step[<<i, f[i - 1]>>] = f[i - 1] \o Echoed(s[i])
    BY <2>2
  <2> QED
    BY <2>1, <2>3
<1>6. f = [i \in 0..n |-> IF i = 0 THEN <<>> ELSE f[i - 1] \o Echoed(s[i])]
  BY <1>0, <1>4, <1>5
<1>7. echo = [i \in 0..n |-> IF i = 0 THEN <<>> ELSE echo[i - 1] \o Echoed(s[i])]
  BY <1>6, Zenon
<1>8. Echo(s) = echo[n]
  BY Zenon DEF Echo, n
<1> HIDE DEF echo
<1>9. echo[0] = <<>>
  BY <1>0, <1>7
<1>10. ASSUME NEW i \in 1..n PROVE echo[i] = echo[i - 1] \o Echoed(s[i])
  <2>1. i \in 0..n /\ i # 0
    BY <1>0
  <2> QED
    BY <1>7, <2>1, Zenon
<1>11. echo \in [0..n -> V]
  <2> DEFINE T == {i \in 0..n : echo[i] \in V}
  <2>1. 0 \in T
    BY <1>0, <1>9
  <2>2. ASSUME NEW i \in 1..n, i - 1 \in T PROVE i \in T
    <3>1. i \in 0..n /\ echo[i - 1] \in V
      BY <1>0, <2>2
    <3>2. echo[i - 1] \o Echoed(s[i]) \in V
      BY <1>1, <3>1
    <3> QED
      BY <1>10, <3>1, <3>2
  <2> HIDE DEF T
  <2>3. \A i \in 0..n : i \in T
    BY <1>0, <2>1, <2>2, RoundInduction
  <2> QED
    BY <1>7, <2>3 DEF T
<1>12. IsEcho(echo, s)
  BY <1>8, <1>9, <1>10 DEF IsEcho, n
<1> QED
  BY <1>11, <1>12 DEF n, V

\* The echo of nothing, of one more byte at the end, and of one at the front.
LEMMA EchoEmpty == Echo(<<>>) = <<>>
<1>1. <<>> \in Seq(Bytes) /\ Len(<<>>) = 0
  OBVIOUS
<1>2. PICK e \in [0..Len(<<>>) -> Seq(Bytes)] : IsEcho(e, <<>>)
  BY <1>1, EchoRounds
<1> QED
  BY <1>1, <1>2 DEF IsEcho

LEMMA EchoType ==
    ASSUME NEW s \in Seq(Bytes)
    PROVE  Echo(s) \in Seq(Bytes)
<1>1. PICK e \in [0..Len(s) -> Seq(Bytes)] : IsEcho(e, s)
  BY EchoRounds
<1>2. Len(s) \in 0..Len(s)
  OBVIOUS
<1> QED
  BY <1>1, <1>2 DEF IsEcho

LEMMA EchoAppend ==
    ASSUME NEW s \in Seq(Bytes), NEW b \in Bytes
    PROVE  Echo(Append(s, b)) = Echo(s) \o Echoed(b)
<1> DEFINE a == Append(s, b)
           n == Len(s)
<1>1. /\ a \in Seq(Bytes) /\ Len(a) = n + 1 /\ a[n + 1] = b /\ n \in Nat
      /\ \A i \in 1..n : a[i] = s[i]
  OBVIOUS
<1>2. PICK e \in [0..Len(s) -> Seq(Bytes)] : IsEcho(e, s)
  BY EchoRounds
<1>3. PICK d \in [0..Len(a) -> Seq(Bytes)] : IsEcho(d, a)
  <2> HIDE DEF a
  <2> QED
    BY <1>1, EchoRounds
<1> DEFINE T == {i \in 0..n : d[i] = e[i]}
<1>4. 0 \in T
  BY <1>1, <1>2, <1>3 DEF IsEcho
<1>5. ASSUME NEW i \in 1..n, i - 1 \in T PROVE i \in T
  <2>1. i \in 0..n /\ i \in 1..(n + 1) /\ d[i - 1] = e[i - 1]
    BY <1>1, <1>5
  <2> HIDE DEF a
  <2>2. e[i] = e[i - 1] \o Echoed(s[i]) /\ d[i] = d[i - 1] \o Echoed(a[i])
    BY <1>1, <1>2, <1>3, <2>1 DEF IsEcho
  <2>3. a[i] = s[i]
    BY <1>1
  <2>4. d[i] = e[i]
    BY <2>1, <2>2, <2>3, Zenon
  <2> QED
    BY <2>1, <2>4
<1> HIDE DEF T, a, n
<1>6. \A i \in 0..n : i \in T
  BY <1>1, <1>4, <1>5, RoundInduction
<1>7. d[n] = e[n]
  <2>1. n \in 0..n
    BY <1>1
  <2> QED
    BY <1>6, <2>1 DEF T
<1>8. d[n + 1] = d[n] \o Echoed(b)
  <2>1. n + 1 \in 1..Len(a) /\ n = (n + 1) - 1
    BY <1>1
  <2>2. \A k \in 1..Len(a) : \A j : j = k - 1 => d[k] = d[j] \o Echoed(a[k])
    BY <1>3, Zenon DEF IsEcho
  <2>3. d[n + 1] = d[n] \o Echoed(a[n + 1])
    BY <2>1, <2>2, Zenon
  <2> QED
    BY <1>1, <2>3, Zenon
<1>9. Echo(a) = d[n + 1] /\ Echo(s) = e[n]
  BY <1>1, <1>2, <1>3 DEF IsEcho, n
<1> QED
  BY <1>7, <1>8, <1>9, Zenon DEF a

LEMMA EchoHead ==
    ASSUME NEW s \in Seq(Bytes), s # <<>>
    PROVE  Echo(s) = Echoed(Head(s)) \o Echo(Tail(s))
<1> DEFINE t == Tail(s)
           n == Len(t)
           h == Echoed(Head(s))
<1>1. /\ t \in Seq(Bytes) /\ Len(s) = n + 1 /\ s[1] = Head(s) /\ n \in Nat
      /\ \A i \in 1..n : t[i] = s[i + 1]
  OBVIOUS
<1>2. h \in Seq(Bytes)
  BY EchoedType
<1>3. PICK e \in [0..Len(s) -> Seq(Bytes)] : IsEcho(e, s)
  BY EchoRounds
<1>4. PICK d \in [0..Len(t) -> Seq(Bytes)] : IsEcho(d, t)
  <2> HIDE DEF t
  <2> QED
    BY <1>1, EchoRounds
<1> HIDE DEF t, h
<1> DEFINE T == {i \in 0..n : e[i + 1] = h \o d[i]}
<1>5. 0 \in T
  <2>1. 1 \in 1..Len(s) /\ 1 - 1 = 0 /\ 0 \in 0..n
    BY <1>1
  <2>2. e[1] = e[1 - 1] \o Echoed(s[1])
    BY <1>3, <2>1, Zenon DEF IsEcho
  <2>3. e[0] = <<>> /\ d[0] = <<>>
    BY <1>3, <1>4 DEF IsEcho
  <2>4. e[1] = <<>> \o h
    BY <1>1, <2>1, <2>2, <2>3, Zenon DEF h
  <2>5. e[0 + 1] = h \o d[0]
    BY <1>2, <2>3, <2>4, ConcatEmptySeq
  <2> QED
    BY <2>1, <2>5
<1>6. ASSUME NEW i \in 1..n, i - 1 \in T PROVE i \in T
  <2>1. /\ i \in 0..n /\ i + 1 \in 1..Len(s) /\ i + 1 - 1 = i /\ i - 1 + 1 = i
        /\ i - 1 \in 0..Len(t) /\ t[i] = s[i + 1] /\ t[i] \in Bytes
    BY <1>1
  <2>2. e[i] = h \o d[i - 1]
    <3>1. e[i - 1 + 1] = h \o d[i - 1]
      BY <1>6
    <3> QED
      BY <2>1, <3>1, Zenon
  <2>3. e[i + 1] = e[i] \o Echoed(s[i + 1])
    <3>1. \A k \in 1..Len(s) : \A j : j = k - 1 => e[k] = e[j] \o Echoed(s[k])
      BY <1>3, Zenon DEF IsEcho
    <3>2. i + 1 \in 1..Len(s) /\ i = (i + 1) - 1
      BY <2>1
    <3> QED
      BY <3>1, <3>2, Zenon
  <2>4. d[i] = d[i - 1] \o Echoed(t[i])
    BY <1>4 DEF IsEcho
  <2>5. e[i + 1] = (h \o d[i - 1]) \o Echoed(t[i])
    BY <2>1, <2>2, <2>3, Zenon
  <2>6. d[i - 1] \in Seq(Bytes) /\ Echoed(t[i]) \in Seq(Bytes)
    BY <2>1, EchoedType
  <2>7. (h \o d[i - 1]) \o Echoed(t[i]) = h \o (d[i - 1] \o Echoed(t[i]))
    BY <1>2, <2>6, JoinAssociative, Zenon
  <2>8. e[i + 1] = h \o d[i]
    BY <2>4, <2>5, <2>7, Zenon
  <2> QED
    BY <2>1, <2>8
<1> HIDE DEF T
<1>7. \A i \in 0..n : i \in T
  BY <1>1, <1>5, <1>6, RoundInduction
<1>8. e[n + 1] = h \o d[n]
  <2>1. n \in 0..n
    BY <1>1
  <2> QED
    BY <1>7, <2>1 DEF T
<1>9. Echo(s) = e[n + 1] /\ Echo(t) = d[n]
  BY <1>1, <1>3, <1>4 DEF IsEcho
<1> QED
  BY <1>8, <1>9, Zenon DEF t, h

-----------------------------------------------------------------------------
\* Inductive invariant for the bytes.  While main puts out its message nothing
\* is echoed, and the receive FIFO has all that was accepted; afterwards a
\* byte is on the line, in a FIFO or in the hands of the handler.
OutputInv ==
    /\ ControlInv
    /\ main = "init" => line = <<>> /\ tx = <<>> /\ accepted = <<>> /\ rest = Message
    /\ main \in {"puts", "store", "timer"} =>
          accepted = rx /\ (line \o tx) \o rest = Message
    /\ main = "loop" =>
          ((line \o tx) \o Held) \o Echo(rx) = Message \o Echo(accepted)

\* The device moves a byte from the transmit FIFO to the line.
LEMMA TransmitMoves ==
    ASSUME NEW u \in Seq(Bytes), NEW v \in Seq(Bytes), v # <<>>
    PROVE  Append(u, Head(v)) \o Tail(v) = u \o v
<1>1. /\ Head(v) \in Bytes /\ Tail(v) \in Seq(Bytes) /\ <<Head(v)>> \o Tail(v) = v
      /\ <<Head(v)>> \in Seq(Bytes) /\ Append(u, Head(v)) = u \o <<Head(v)>>
  BY Joining
<1>2. (u \o <<Head(v)>>) \o Tail(v) = u \o (<<Head(v)>> \o Tail(v))
  BY <1>1, JoinAssociative, Zenon
<1> QED
  BY <1>1, <1>2, Zenon

\* A store puts a byte behind those that are in the transmit FIFO.
LEMMA StoreAppends ==
    ASSUME NEW u \in Seq(Bytes), NEW v \in Seq(Bytes), NEW b \in Bytes
    PROVE  u \o Append(v, b) = (u \o v) \o <<b>>
<1>1. <<b>> \in Seq(Bytes) /\ Append(v, b) = v \o <<b>>
  BY Joining
<1>2. (u \o v) \o <<b>> = u \o (v \o <<b>>)
  BY <1>1, JoinAssociative, Zenon
<1> QED
  BY <1>1, <1>2, Zenon

LEMMA InitOutputInv == Init => OutputInv
  BY InitControlInv DEF Init, OutputInv

LEMMA NextOutputInv == OutputInv /\ [Next]_vars => OutputInv'
<1> SUFFICES ASSUME OutputInv, [Next]_vars PROVE OutputInv'
  OBVIOUS
<1>0. ControlInv /\ ControlInv'
  BY NextControlInv DEF OutputInv
<1>a. /\ line \in Seq(Bytes) /\ tx \in Seq(Bytes) /\ rest \in Seq(Bytes)
      /\ rx \in Seq(Bytes) /\ accepted \in Seq(Bytes) /\ Message \in Seq(Bytes)
      /\ c \in Bytes
  BY <1>0, MessageType, InputBytes DEF ControlInv, TypeOK
<1>b. /\ line \o tx \in Seq(Bytes) /\ Echo(rx) \in Seq(Bytes)
      /\ Echo(accepted) \in Seq(Bytes) /\ Held \in Seq(Bytes)
  BY <1>a, Joining, EchoType DEF Held
<1>1. ASSUME NEW b \in Input, Receive(b) PROVE OutputInv'
  <2>1. /\ rx' = Append(rx, b) /\ accepted' = Append(accepted, b) /\ main # "init"
        /\ UNCHANGED <<main, rest, irq, c, tx, line>>
    BY <1>1 DEF Receive
  <2>2. Held' = Held /\ b \in Bytes /\ Echoed(b) \in Seq(Bytes)
    BY <2>1, InputBytes, EchoedType DEF Held
  <2>3. CASE main = "loop"
    <3>1. Echo(rx') = Echo(rx) \o Echoed(b) /\ Echo(accepted') = Echo(accepted) \o Echoed(b)
      BY <1>a, <2>1, <2>2, EchoAppend
    <3>2. (line \o tx) \o Held \in Seq(Bytes)
      BY <1>b, Joining
    <3>3. (((line \o tx) \o Held) \o Echo(rx)) \o Echoed(b)
             = ((line \o tx) \o Held) \o (Echo(rx) \o Echoed(b))
      BY <1>b, <2>2, <3>2, JoinAssociative, Zenon
    <3>4. (Message \o Echo(accepted)) \o Echoed(b) = Message \o (Echo(accepted) \o Echoed(b))
      <4>1. Message \in Seq(Bytes) /\ Echo(accepted) \in Seq(Bytes) /\ Echoed(b) \in Seq(Bytes)
        BY <1>a, <1>b, <2>2
      <4> QED
        BY <4>1, JoinAssociative, Zenon
    <3>5. ((line \o tx) \o Held) \o Echo(rx) = Message \o Echo(accepted)
      BY <2>3 DEF OutputInv
    <3>6. ((line' \o tx') \o Held') \o Echo(rx') = Message \o Echo(accepted')
      BY <2>1, <2>2, <3>1, <3>3, <3>4, <3>5, Zenon
    <3> QED
      BY <1>0, <2>1, <2>3, <3>6 DEF OutputInv
  <2>4. CASE main # "loop"
    BY <1>0, <2>1, <2>4 DEF OutputInv
  <2> QED
    BY <2>3, <2>4
<1>2. CASE Transmit
  <2>1. /\ tx # <<>> /\ line' = Append(line, Head(tx)) /\ tx' = Tail(tx)
        /\ UNCHANGED <<main, rest, irq, c, rx, accepted>>
    BY <1>2 DEF Transmit
  <2>2. line' \o tx' = line \o tx /\ Held' = Held
    BY <1>a, <2>1, TransmitMoves DEF Held
  <2> QED
    BY <1>0, <2>1, <2>2 DEF OutputInv
<1>3. CASE uart_init
  <2>1. /\ main = "init" /\ main' = "puts" /\ rx' = <<>> /\ tx' = <<>>
        /\ UNCHANGED <<rest, line, accepted>>
    BY <1>3 DEF uart_init, MainAt
  <2>2. (<<>> \o <<>>) \o Message = Message
    BY <1>a, Joining
  <2> QED
    BY <1>0, <2>1, <2>2 DEF OutputInv
<1>4. CASE uart_puts_store
  <2>1. /\ main = "store" /\ main' = "puts" /\ rest' = Tail(rest) /\ rest # <<>>
        /\ tx' = Append(tx, Head(rest)) /\ UNCHANGED <<rx, line, accepted>>
    BY <1>0, <1>4 DEF uart_puts_store, MainAt, Store, ControlInv
  <2>2. /\ Head(rest) \in Bytes /\ Append(line \o tx, Head(rest)) \o Tail(rest) = (line \o tx) \o rest
        /\ Append(line \o tx, Head(rest)) = (line \o tx) \o <<Head(rest)>>
    BY <1>a, <1>b, <2>1, TransmitMoves, Joining
  <2>3. line \o Append(tx, Head(rest)) = (line \o tx) \o <<Head(rest)>>
    BY <1>a, <2>2, StoreAppends
  <2>4. (line' \o tx') \o rest' = (line \o tx) \o rest
    BY <2>1, <2>2, <2>3, Zenon
  <2> QED
    BY <1>0, <2>1, <2>4 DEF OutputInv
<1>5. CASE enable_timer_interrupt
  <2>1. /\ main = "timer" /\ main' = "loop" /\ irq = "none" /\ rest = <<>>
        /\ UNCHANGED <<irq, c, rx, tx, line, accepted>>
    BY <1>0, <1>5 DEF enable_timer_interrupt, MainAt, ControlInv
  <2>2. accepted = rx /\ (line \o tx) \o <<>> = Message
    BY <2>1 DEF OutputInv
  <2>3. Held' = <<>>
    BY <2>1 DEF Held
  <2>4. ((line' \o tx') \o Held') \o Echo(rx') = Message \o Echo(accepted')
    BY <2>1, <2>2, <2>3, Zenon
  <2> QED
    BY <1>0, <2>1, <2>4 DEF OutputInv
<1>6. CASE uart_getc
  <2>1. /\ irq = "getc" /\ irq' = IF c' # 255 THEN "send" ELSE "timer"
        /\ main = "loop" /\ UNCHANGED <<main, rest, tx, line, accepted>>
    BY <1>0, <1>6 DEF uart_getc, ControlInv
  <2>2. Held = <<>> /\ Held' = (IF c' # 255 THEN <<c'>> ELSE <<>>)
    BY <2>1 DEF Held
  <2>3. Held' \o Echo(rx') = Echo(rx) /\ Held' \in Seq(Bytes) /\ Echo(rx') \in Seq(Bytes)
    <3>1. CASE rx # <<>> /\ c' = Converted(Head(rx)) /\ rx' = Tail(rx)
      <4>1. Echo(rx) = Echoed(Head(rx)) \o Echo(Tail(rx))
        BY <1>a, <3>1, EchoHead
      <4>2. Head(rx) \in Bytes /\ Tail(rx) \in Seq(Bytes)
        BY <1>a, <3>1, Joining
      <4>3. Held' = Echoed(Head(rx))
        BY <2>2, <3>1, <4>2 DEF Converted, Echoed, CR, NL
      <4>4. Held' \in Seq(Bytes) /\ Echo(Tail(rx)) \in Seq(Bytes)
        BY <4>2, <4>3, EchoedType, EchoType
      <4> QED
        BY <3>1, <4>1, <4>3, <4>4, Zenon
    <3>2. CASE rx = <<>> /\ c' = NoByte /\ UNCHANGED rx
      <4>1. Held' = <<>>
        BY <2>2, <3>2 DEF NoByte
      <4> QED
        BY <1>a, <1>b, <3>2, <4>1, Joining
    <3> QED
      BY <1>6, <3>1, <3>2 DEF uart_getc
  <2>4. ((line \o tx) \o Held') \o Echo(rx') = (line \o tx) \o (Held' \o Echo(rx'))
    BY <1>b, <2>3, JoinAssociative, Zenon
  <2>5. (line \o tx) \o <<>> = line \o tx
    BY <1>b, Joining
  <2>6. ((line \o tx) \o Held) \o Echo(rx) = Message \o Echo(accepted)
    BY <2>1 DEF OutputInv
  <2>7. ((line' \o tx') \o Held') \o Echo(rx') = Message \o Echo(accepted')
    BY <2>1, <2>2, <2>3, <2>4, <2>5, <2>6, Zenon
  <2> QED
    BY <1>0, <2>1, <2>7 DEF OutputInv
<1>7. CASE uart_send_store
  <2>1. /\ irq = "store" /\ irq' = "getc" /\ main = "loop" /\ tx' = Append(tx, c)
        /\ UNCHANGED <<main, rest, rx, line, accepted>>
    BY <1>0, <1>7 DEF uart_send_store, Store, ControlInv
  <2>2. Held = <<c>> /\ Held' = <<>>
    BY <2>1 DEF Held
  <2>3. line \o Append(tx, c) = (line \o tx) \o <<c>> /\ <<c>> \in Seq(Bytes)
    BY <1>a, StoreAppends, Joining
  <2>4. ((line \o tx) \o <<c>>) \o <<>> = (line \o tx) \o <<c>>
    BY <1>b, <2>3, Joining
  <2>5. ((line \o tx) \o Held) \o Echo(rx) = Message \o Echo(accepted)
    BY <2>1 DEF OutputInv
  <2>6. ((line' \o tx') \o Held') \o Echo(rx') = Message \o Echo(accepted')
    BY <2>1, <2>2, <2>3, <2>4, <2>5, Zenon
  <2> QED
    BY <1>0, <2>1, <2>6 DEF OutputInv
<1>8. CASE uart_puts_wait \/ uart_puts_end
  BY <1>0, <1>8 DEF uart_puts_wait, uart_puts_end, MainAt, OutputInv
<1>9. CASE Interrupt \/ handle_irq \/ uart_send_wait \/ handle_irq_timer
  <2>1. UNCHANGED <<main, rest, c, rx, tx, line, accepted>> /\ Held' = Held
    BY <1>9 DEF Interrupt, handle_irq, uart_send_wait, handle_irq_timer, Held
  <2> QED
    BY <1>0, <2>1 DEF OutputInv
<1>10. CASE Tick \/ UNCHANGED vars
  <2>1. UNCHANGED <<main, rest, c, rx, tx, line, accepted>> /\ Held' = Held
    BY <1>10 DEF Tick, vars, Held
  <2> QED
    BY <1>0, <2>1 DEF OutputInv
<1> QED
  BY <1>1, <1>2, <1>3, <1>4, <1>5, <1>6, <1>7, <1>8, <1>9, <1>10
  DEF Next, Main, Handler

\* What is on the line, in the FIFOs and in the hands of the handler is the
\* message so far and the echo of all that was accepted, for every length.
THEOREM UartOutputExact == Spec => []OutputExact
<1>1. OutputInv => OutputExact
  <2> SUFFICES ASSUME OutputInv, main # "init"
               PROVE  line \o tx \o Held \o Echo(rx) =
                        SubSeq(Message, 1, Len(Message) - Len(rest)) \o Echo(accepted)
    BY DEF OutputExact
  <2>0. /\ line \in Seq(Bytes) /\ tx \in Seq(Bytes) /\ rest \in Seq(Bytes)
        /\ Message \in Seq(Bytes) /\ line \o tx \in Seq(Bytes)
    BY MessageType, Joining DEF OutputInv, ControlInv, TypeOK
  <2>1. CASE main = "loop"
    <3>1. rest = <<>> /\ Len(Message) - Len(rest) = Len(Message)
      BY <2>0, <2>1 DEF OutputInv, ControlInv
    <3>2. SubSeq(Message, 1, Len(Message)) = Message
      BY <2>0, SubSeqFull
    <3>3. ((line \o tx) \o Held) \o Echo(rx) = Message \o Echo(accepted)
      BY <2>1 DEF OutputInv
    <3> QED
      BY <3>1, <3>2, <3>3, Zenon
  <2>2. CASE main # "loop"
    <3>1. accepted = rx /\ (line \o tx) \o rest = Message /\ Held = <<>>
      BY <2>2 DEF OutputInv, ControlInv, TypeOK, Held
    <3>2. SubSeq((line \o tx) \o rest, 1, Len(line \o tx)) = line \o tx
      <4> DEFINE u == line \o tx
                 v == SubSeq(u \o rest, 1, Len(u))
      <4>1. u \in Seq(Bytes)
        BY <2>0
      <4> HIDE DEF u
      <4>2. Len(v) = Len(u) /\ v \in Seq(Bytes) /\ \A i \in 1..Len(u) : v[i] = u[i]
        BY <2>0, <4>1
      <4>3. v = u
        <5> HIDE DEF v
        <5> QED
          BY <4>1, <4>2, SeqEqual
      <4> QED
        BY <4>3 DEF u
    <3>3. Len(Message) = Len(line \o tx) + Len(rest)
      BY <2>0, <3>1, ConcatProperties
    <3>4. Len(Message) - Len(rest) = Len(line \o tx)
      BY <2>0, <3>3
    <3>5. (line \o tx) \o Held = line \o tx
      BY <2>0, <3>1, Joining
    <3> QED
      BY <3>1, <3>2, <3>4, <3>5, Zenon
  <2> QED
    BY <2>1, <2>2
<1> QED
  BY <1>1, InitOutputInv, NextOutputInv, PTL DEF Spec
=============================================================================
