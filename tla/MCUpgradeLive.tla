--------------------------- MODULE MCUpgradeLive ----------------------------
(* The same instance as MCUpgrade. *)
EXTENDS UpgradeLive, TLC

CONSTANTS small, large, broken, loader

MCKernelLen == [i \in Images \ BootFiles |-> IF i = large THEN 2 ELSE 1]
MCFileLen == [i \in Images |-> IF i = small THEN 2 ELSE 1]
=============================================================================
