----------------------------- MODULE MCWifiSta -----------------------------
(* The instance of WifiSta for TLC.  There are always two tasks, so the    *)
(* only parameter that varies is what may go wrong: calls of the driver    *)
(* that fail and associations that are refused, but no loss of a link      *)
(* that is still being set up and no lost event, under which ScanIsAwaited *)
(* and LossIsNoticed do not hold.                                          *)
EXTENDS WifiSta

StartFaults == {"call", "join"}
=============================================================================
