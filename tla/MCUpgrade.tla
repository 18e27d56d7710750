----------------------------- MODULE MCUpgrade ------------------------------
(***************************************************************************)
(* Three erase blocks for kernels and files and one for a boot loader.  A  *)
(* kernel and its file may fill the areas to the last block (small,        *)
(* large); while large runs, the file of small is too long.                *)
(***************************************************************************)
EXTENDS Upgrade, TLC

CONSTANTS small, large, broken, loader

MCKernelLen == [i \in Images \ BootFiles |-> IF i = large THEN 2 ELSE 1]
MCFileLen == [i \in Images |-> IF i = small THEN 2 ELSE 1]
=============================================================================
