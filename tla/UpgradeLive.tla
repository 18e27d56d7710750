---------------------------- MODULE UpgradeLive -----------------------------
(***************************************************************************)
(* Firmware upgrade under a power supply that may become steady.  A power  *)
(* cut in the boot loader changes no more than its own global_reset, so    *)
(* that the two cannot be told apart afterwards: steady says which is      *)
(* still possible.                                                         *)
(***************************************************************************)
EXTENDS Upgrade

VARIABLE steady   \* no power cut any more

LiveInit == UpgInit /\ steady = FALSE

PowerSettles == ~steady /\ steady' = TRUE /\ UNCHANGED vars

LiveNext ==
  \/ Step /\ UNCHANGED steady
  \/ ~steady /\ PowerCut /\ UNCHANGED steady
  \/ PowerSettles

(* The processor runs, and no call of the upgrade module hangs.  When to   *)
(* call is up to the application.                                          *)
Working ==
  /\ \/ BootStep /\ UNCHANGED <<app, history>>
     \/ hi_upg_init /\ UNCHANGED <<boot, history>>
     \/ pc \in CallPC /\ CallStep /\ UNCHANGED boot
  /\ UNCHANGED steady

UpgFairSpec ==
  LiveInit /\ [][LiveNext]_<<vars, steady>> /\ WF_<<vars, steady>>(Working)

-----------------------------------------------------------------------------
(* If the power stays, the boot loader does not restart for ever: MaxCnt   *)
(* starts of a file that does not unpack (execute_upg_boot), and the old   *)
(* kernel runs again.                                                      *)
KernelRuns == []<>(steady => pc \in AppPC)

(* A kernel file that was accepted and unpacks is installed by the restart *)
(* that follows, unless hi_upg_stop has begun to destroy it before, or so  *)
(* many restarts are cut short that reset_cnt reaches MaxCnt.              *)
AcceptedIsInstalled ==
  \A i \in KernelImages \ BadInner :
    (/\ pc = "reset" /\ approved = i /\ FileAt(i, nv.addr_write)
     /\ nv.mode = "UPGRADE" /\ nv.file_type = "KERNEL")
      ~> ((pc = "init" /\ KernelAt(i)) \/ nv.reset_cnt = MaxCnt)
=============================================================================
