---------------------------- MODULE MCUartReceive ----------------------------
(* A FIFO of two slots, with a trigger level below full and one at full,    *)
(* and two data values.                                                     *)
EXTENDS UartReceive
=============================================================================
