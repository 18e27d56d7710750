------------------------------- MODULE MCUart -------------------------------
(***************************************************************************)
(* Buffers of two bytes, so that what arrives and what is written, up to   *)
(* three bytes, wraps and overflows; a FIFO of three, trigger level one;   *)
(* the directions share only the opening and closing of the port and are   *)
(* explored one per session.                                               *)
(***************************************************************************)
EXTENDS Uart

OneDirection == {{"read"}, {"write"}}
ReadOnly == {{"read"}}
=============================================================================
