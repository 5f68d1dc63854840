\* FIFOs of two bytes, six bytes received.  Bit 1 of AUX_MU_IER is the receive
\* interrupt, as the manual prints it; the transmitter is always on, as in QEMU.
CONSTANTS
    FifoSize = 2
    Message <- HelloWorld
    RxShown = {2, 3}
    TxOn = {0, 1, 2, 3}
    MaxInput = 6
SPECIFICATION Spec
INVARIANTS
    TypeOK
    OutputExact
PROPERTY EverythingEchoed
