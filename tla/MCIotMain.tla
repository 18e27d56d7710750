----------------------------- MODULE MCIotMain -----------------------------
(* An instance of IotMain for TLC: a block for every slot of the queue,    *)
(* one that IoTMain holds and one that is refused by the full queue.  The  *)
(* handler of a command replies at most once.                              *)
EXTENDS IotMain

Slots == 2
OneReply == 1
=============================================================================
