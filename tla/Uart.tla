-------------------------------- MODULE Uart --------------------------------
(***************************************************************************)
(* The mini UART of kernel/uart.c as core 0 uses it: main sets it up, puts *)
(* out a message and starts the timer; from then on handle_irq, at every   *)
(* tick of the timer, echoes what has been received.  No code enables the  *)
(* UART's own line in the interrupt controller, so the timer is the only   *)
(* source of interrupts, and an interrupt may come between any two steps   *)
(* of main once the timer runs.                                            *)
(*                                                                         *)
(* The device is external: two FIFOs, a line on which bytes leave.  What   *)
(* arrives while the receive FIFO is full is lost, and so is what is       *)
(* written while the transmit FIFO is full.  What the values that          *)
(* uart_init stores in two of its registers mean is not in the code:       *)
(* RxShown and TxOn say it.  In the table of the manual bit 1 of           *)
(* AUX_MU_IER enables the receive interrupt and bit 1 of AUX_MU_CNTL the   *)
(* transmitter; its errata exchange the two bits of AUX_MU_IER, and QEMU   *)
(* has a transmitter that is always on.                                    *)
(***************************************************************************)
EXTENDS Integers, Sequences

CONSTANTS
    FifoSize,   \* bytes a FIFO holds
    Message,    \* bytes that main puts out
    RxShown,    \* values of AUX_MU_IER with which AUX_IRQ and AUX_MU_IIR show
                \* that a byte has been received
    TxOn,       \* values of AUX_MU_CNTL with which the transmitter works
    MaxInput    \* bound: bytes that are received

CR == 13
NL == 10
Bytes == 0..255

\* A byte 0 ends the string that uart_puts is given.
ASSUME UartAssumption ==
    /\ FifoSize \in Nat \ {0}
    /\ Message \in Seq(1..255)
    /\ MaxInput \in Nat

\* What arrives: a letter, a carriage return, the byte 255.
Input == {65, CR, 255}

VARIABLES
    main,       \* where main is: uart_init, uart_puts or, after the test of
                \* the status register, its store; then the timer, the loop
    rest,       \* what main has still to put out
    irq,        \* where handle_irq is; none if it does not run
    c,          \* the byte that uart_interrupt holds
    timer,      \* off, counting or expired
    ier, cntl,  \* AUX_MU_IER and AUX_MU_CNTL
    rx, tx,     \* the FIFOs
    line,       \* auxiliary: the bytes that have left
    accepted    \* auxiliary: the bytes that have entered rx

enables == <<ier, cntl>>
vars == <<main, rest, irq, c, timer, enables, rx, tx, line, accepted>>

TypeOK ==
    /\ main \in {"init", "puts", "store", "timer", "loop"}
    /\ rest \in Seq(Bytes)
    /\ irq \in {"none", "test", "getc", "send", "store", "timer"}
    /\ c \in Bytes
    /\ timer \in {"off", "counting", "expired"}
    /\ ier \in 0..3 /\ cntl \in 0..3
    /\ rx \in Seq(Input) /\ Len(rx) <= FifoSize
    /\ tx \in Seq(Bytes) /\ Len(tx) <= FifoSize
    /\ line \in Seq(Bytes)
    /\ accepted \in Seq(Input)

\* The receive FIFO may hold something before uart_init; the registers have
\* the values of a reset.
Init ==
    /\ main = "init"
    /\ rest = Message
    /\ irq = "none"
    /\ c = 255
    /\ timer = "off"
    /\ ier = 0 /\ cntl = 3
    /\ rx \in {<<>>, <<65>>}
    /\ tx = <<>>
    /\ line = <<>>
    /\ accepted = <<>>

-----------------------------------------------------------------------------
\* The device.
Receive(b) ==
    /\ main # "init" /\ cntl % 2 = 1
    /\ Len(accepted) < MaxInput /\ Len(rx) < FifoSize
    /\ rx' = Append(rx, b)
    /\ accepted' = Append(accepted, b)
    /\ UNCHANGED <<enables, main, rest, irq, c, timer, tx, line>>

Transmit ==
    /\ tx # <<>> /\ cntl \in TxOn
    /\ line' = Append(line, Head(tx))
    /\ tx' = Tail(tx)
    /\ UNCHANGED <<enables, main, rest, irq, c, timer, rx, accepted>>

Tick ==
    /\ timer = "counting"
    /\ timer' = "expired"
    /\ UNCHANGED <<enables, main, rest, irq, c, rx, tx, line, accepted>>

\* Bit 5 of the line status register, and a store to AUX_MU_IO.
Ready == Len(tx) < FifoSize
Store(b) == tx' = IF Ready THEN Append(tx, b) ELSE tx

-----------------------------------------------------------------------------
\* main runs while no interrupt is handled.
MainAt(place) == main = place /\ irq = "none"

uart_init_TimerOn ==
    /\ MainAt("init")
    /\ main' = "puts"
    /\ cntl' = 1
    /\ ier' = 2
    /\ rx' = <<>>
    /\ tx' = <<>>
    /\ timer' = "counting"
    /\ UNCHANGED <<rest, irq, c, line, accepted>>

IrqsEnabled_None == 0

\* What uart_init leaves in AUX_MU_IER.
IrqsEnabled == 2

\* The store of 6 to AUX_MU_IIR empties both FIFOs.
uart_init ==
    /\ MainAt("init")
    /\ main' = "puts"
    /\ cntl' = 1
    /\ ier' = IrqsEnabled
    /\ rx' = <<>>
    /\ tx' = <<>>
    /\ UNCHANGED <<rest, irq, c, timer, line, accepted>>

\* uart_send of the next byte: the wait, then the store.
uart_puts_wait ==
    /\ MainAt("puts") /\ rest # <<>>
    /\ Ready
    /\ main' = "store"
    /\ UNCHANGED <<enables, rest, irq, c, timer, rx, tx, line, accepted>>

uart_puts_store ==
    /\ MainAt("store")
    /\ Store(Head(rest))
    /\ rest' = Tail(rest)
    /\ main' = "puts"
    /\ UNCHANGED <<enables, irq, c, timer, rx, line, accepted>>

uart_puts_end ==
    /\ MainAt("puts") /\ rest = <<>>
    /\ main' = "timer"
    /\ UNCHANGED <<enables, rest, irq, c, timer, rx, tx, line, accepted>>

enable_timer_interrupt ==
    /\ MainAt("timer")
    /\ main' = "loop"
    /\ timer' = "counting"
    /\ UNCHANGED <<enables, rest, irq, c, rx, tx, line, accepted>>

-----------------------------------------------------------------------------
\* main enabled interrupts before uart_init.
Interrupt ==
    /\ irq = "none" /\ timer = "expired"
    /\ irq' = "test"
    /\ UNCHANGED <<enables, main, rest, c, timer, rx, tx, line, accepted>>

\* Bit 0 of AUX_IRQ and bit 2 of AUX_MU_IIR.
ReceiveShown == rx # <<>> /\ ier \in RxShown

\* handle_irq, and once more uart_interrupt: has something been received?
handle_irq ==
    /\ irq = "test"
    /\ irq' = IF ReceiveShown THEN "getc" ELSE "timer"
    /\ UNCHANGED <<enables, main, rest, c, timer, rx, tx, line, accepted>>

\* Carriage return becomes newline.
Converted(b) == IF b = CR THEN NL ELSE b

NoByte_Signed == -1

\* The answer of uart_getc for an empty FIFO: char is unsigned.
NoByte == 255

\* The answer 255 ends the loop of uart_interrupt, when it is received too.
uart_getc ==
    /\ irq = "getc"
    /\ \/ rx # <<>> /\ c' = Converted(Head(rx)) /\ rx' = Tail(rx)
       \/ rx = <<>> /\ c' = NoByte /\ UNCHANGED rx
    /\ irq' = IF c' # 255 THEN "send" ELSE "timer"
    /\ UNCHANGED <<enables, main, rest, timer, tx, line, accepted>>

uart_send_wait ==
    /\ irq = "send"
    /\ Ready
    /\ irq' = "store"
    /\ UNCHANGED <<enables, main, rest, c, timer, rx, tx, line, accepted>>

uart_send_store ==
    /\ irq = "store"
    /\ Store(c)
    /\ irq' = "getc"
    /\ UNCHANGED <<enables, main, rest, c, timer, rx, line, accepted>>

reprogram_Off == timer' = "off"

\* cntp_tval: the timer counts again.
reprogram == timer' = "counting"

\* The rest of handle_irq.  Its store to AUX_MU_IIR empties no FIFO.
handle_irq_timer ==
    /\ irq = "timer"
    /\ reprogram
    /\ irq' = "none"
    /\ UNCHANGED <<enables, main, rest, c, rx, tx, line, accepted>>

-----------------------------------------------------------------------------
Main ==
    \/ uart_init \/ uart_puts_wait \/ uart_puts_store \/ uart_puts_end
    \/ enable_timer_interrupt

Handler ==
    \/ Interrupt \/ handle_irq \/ uart_getc
    \/ uart_send_wait \/ uart_send_store \/ handle_irq_timer

Next ==
    \/ \E b \in Input : Receive(b)
    \/ Transmit
    \/ Tick
    \/ Main
    \/ Handler

\* Core 0 goes on, the timer runs out and the transmitter sends.  Nothing has
\* to be received.
Fairness == WF_vars(Main) /\ WF_vars(Handler) /\ WF_vars(Transmit) /\ WF_vars(Tick)

Spec == Init /\ [][Next]_vars /\ Fairness

-----------------------------------------------------------------------------
\* What is echoed of a received byte, and of a sequence of them.
Echoed(b) == IF b = 255 THEN <<>> ELSE IF b = CR THEN <<NL>> ELSE <<b>>

Echo(s) ==
    LET echo[i \in 0..Len(s)] == IF i = 0 THEN <<>> ELSE echo[i - 1] \o Echoed(s[i])
    IN  echo[Len(s)]

Held == IF irq \in {"send", "store"} THEN <<c>> ELSE <<>>

\* The bytes on the line, in the transmit FIFO, in the hands of the handler
\* and in the receive FIFO are the message so far and the echo of all that
\* was accepted, each once and in order: none is lost between main and the
\* handler, which both test the transmitter before they store, and a byte 255
\* does not cost those behind it.
OutputExact ==
    main # "init" =>
        line \o tx \o Held \o Echo(rx) =
            SubSeq(Message, 1, Len(Message) - Len(rest)) \o Echo(accepted)

\* Again and again everything that was accepted has been echoed, also what
\* stood behind a byte 255, on a device whose transmitter is on and which
\* shows with AUX_MU_IER = 0b10 that bytes have been received.
EverythingEchoed == []<>(line = Message \o Echo(accepted))
=============================================================================
