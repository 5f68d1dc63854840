------------------------------- MODULE MCUart -------------------------------
(***************************************************************************)
(* Uart with the message of main().                                        *)
(***************************************************************************)
EXTENDS Uart

\* The 13 bytes of "Hello World!\n".
HelloWorld == <<72, 101, 108, 108, 111, 32, 87, 111, 114, 108, 100, 33, 10>>
=============================================================================
