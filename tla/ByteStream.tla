----------------------------- MODULE ByteStream -----------------------------
(***************************************************************************)
(* What each direction of a serial port promises: a bounded stream.  The   *)
(* bytes are numbered in the order in which they were accepted; they are   *)
(* handed out in that order, each once and none left out.  Only when the   *)
(* port is closed or reset are bytes dropped, and then the newest.         *)
(***************************************************************************)
EXTENDS Naturals

CONSTANT Capacity  \* how many bytes the stream holds

VARIABLES put,   \* how many bytes have been accepted
          got,   \* how many of them have been handed out
          last   \* the bytes handed out last

streamVars == <<put, got, last>>

Init == put = 0 /\ got = 0 /\ last = <<>>

Put ==
  /\ put' \in put + 1 .. got + Capacity
  /\ UNCHANGED <<got, last>>

Get ==
  /\ \E n \in 1 .. put - got :
       /\ got' = got + n
       /\ last' = [k \in 1 .. n |-> got + k]
  /\ UNCHANGED put

Drop ==
  /\ put' \in got .. put
  /\ UNCHANGED <<got, last>>

Next == Put \/ Get \/ Drop

Spec == Init /\ [][Next]_streamVars
=============================================================================
