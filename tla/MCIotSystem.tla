---------------------------- MODULE MCIotSystem ----------------------------
(* The instance of IotSystem for TLC: the smallest queue and the fewest    *)
(* messages with which a session can be busy when the link breaks, and no  *)
(* faults but the loss of working links, from which alone the device can   *)
(* recover.                                                                *)
EXTENDS IotSystem

Slots == 1
OneReply == 1
OnlyLosses == {}
=============================================================================
