------------------------------ MODULE Upgrade -------------------------------
(***************************************************************************)
(* Firmware upgrade: the boot loader (FlashBoot) and the upgrade module of *)
(* the kernel (UpgApi) over the storage they share, with the power cut at  *)
(* any moment.                                                             *)
(***************************************************************************)
EXTENDS FlashBoot, UpgApi

VARIABLES
  approved,  \* history: the kernel file last accepted for installation
  saved      \* history: the intact file the application put aside, or None

history == <<approved, saved>>
vars == <<persistent, pc, boot, app, history>>

(* A device as it is delivered: one kernel, factory values in NV.          *)
UpgInit ==
  /\ flash = [a \in Addr |-> IF a \in 1..KernelLen[Factory]
                             THEN Part("kernel", Factory, a) ELSE Erased]
  /\ nv = FactoryCfg
  /\ waitNv = NoWait
  /\ normalNv = Factory
  /\ pc = "reset"
  /\ cfg = FactoryCfg /\ verify_addr = 0 /\ image = None /\ pos = 0
  /\ ctx = ClearedCtx /\ packet = None /\ cont = "idle" /\ cursor = 0
  /\ approved = None /\ saved = None

-----------------------------------------------------------------------------
(* The blocks an erase or a write is working on.                           *)
BusyBlocks ==
  (IF pc \in {"erase", "copy"} THEN {pos} ELSE {})
  \cup (IF pc = "tx_erase" THEN {cursor} ELSE {})
  \cup (IF pc = "tx_write" /\ packet.offset < ctx.file_len
        THEN {ctx.file_addr + packet.offset} \cap Addr ELSE {})
  \cup (IF pc = "stop_erase" /\ nv.mode = "UPGRADE" /\ nv.file_type = "KERNEL"
        THEN {nv.addr_write} ELSE {})

(* RAM is lost and the block in work, or the user NV area that is being    *)
(* refreshed, left in any state; the write of an NV item is atomic.        *)
PowerCut ==
  /\ pc # "reset" /\ pc' = "reset"
  /\ \/ UNCHANGED flash
     \/ \E b \in BusyBlocks : flash' = [flash EXCEPT ![b] = Junk]
  /\ \/ UNCHANGED normalNv
     \/ pc = "init" /\ upg_is_refresh_nv /\ normalNv' = None
  /\ ClearBoot /\ ClearApp
  /\ UNCHANGED <<nv, waitNv, history>>

(* The intact file at address a, or None.                                  *)
FileIn(files, a) == IF \E i \in files : FileAt(i, a)
                    THEN CHOOSE i \in files : FileAt(i, a) ELSE None

(* What a call that sets mode UPGRADE in NV makes of approved.             *)
Accept ==
  approved' = IF nv' # nv /\ nv'.mode = "UPGRADE" /\ nv'.file_type = "KERNEL"
              THEN FileIn(KernelImages, nv'.addr_write) ELSE approved

CallStep ==
  \/ (hi_upg_transmit_finish \/ hi_upg_finish_with_cache) /\ Accept /\ saved' = None
  \/ (\E p \in Packet : hi_upg_transmit(p)) /\ saved' = None /\ UNCHANGED approved
  \/ StopBegin /\ saved' = None /\ UNCHANGED approved
  \/ StopSave /\ approved' = (IF nv'.mode = "NORMAL" THEN None ELSE approved)
     /\ UNCHANGED saved
  \/ /\ SaveWaitMode /\ UNCHANGED approved
     /\ saved' = (IF pc' = "idle" THEN FileIn(Images, ctx.file_addr) ELSE None)
  \/ /\ \/ hi_upg_stop \/ StopErase
        \/ ClearUpgMode \/ StartUpgrade \/ AlreadyStarted \/ EraseCache \/ WriteCache
        \/ hi_upg_finish \/ hi_upg_transmit_finish_save_cache
        \/ ClearAndReboot \/ hi_upg_get_content
     /\ UNCHANGED history

(* What the processor does while it has power.                             *)
Step ==
  \/ BootStep /\ UNCHANGED <<app, history>>
  \/ hi_upg_init /\ UNCHANGED <<boot, history>>
  \/ CallStep /\ UNCHANGED boot

UpgNext == Step \/ PowerCut

UpgSpec == UpgInit /\ [][UpgNext]_vars

-----------------------------------------------------------------------------
UpgTypeOK ==
  /\ flash \in [Addr -> Content]
  /\ nv \in Cfg /\ cfg \in Cfg
  /\ waitNv \in WaitMode
  /\ normalNv \in KernelImages \cup {None}
  /\ pc \in BootPC \cup AppPC
  /\ verify_addr \in 0..(Blocks + BackBlocks)
  /\ image \in KernelImages \cup {None}
  /\ pos \in 0..Blocks /\ cursor \in 0..(Blocks + BackBlocks)
  /\ ctx \in Ctx
  /\ packet \in Packet \cup {None}
  /\ cont \in {"idle", "tx_start"}
  /\ approved \in KernelImages \cup {None}
  /\ saved \in Images \cup {None}

(* The device can always be started: area A holds a whole kernel or the    *)
(* configuration points to a file that unpacks.  boot_upg_kernel_process   *)
(* must not erase area A before all of the file is verified, a download    *)
(* and a stop must keep off what the next start needs, wherever the power  *)
(* is cut.                                                                 *)
Bootable ==
  KernelValid \/ \E i \in KernelImages \ BadInner : FileAt(i, nv.addr_write)

(* The comment on upg_stop promises, among others, "Local global variable  *)
(* recovery": when it returns, no upgrade is in process any more.          *)
StopRecovers ==
  [][(pc \in {"stop", "stop_erase", "stop_save"} /\ pc' \in {"idle", "tx_start"})
       => ~ctx'.is_upg_process]_vars

(* The kernel that runs is whole: no upgrade call destroys it (the length  *)
(* check of upg_start, the erase of upg_stop) and boot_head starts no      *)
(* other.                                                                  *)
RunningKernelIntact == pc \in AppPC => KernelValid

(* boot_upg_kernel_process unpacks only the file that the application had  *)
(* accepted by hi_upg_transmit_finish or hi_upg_finish_with_cache and has  *)
(* not stopped since, whatever the area at addr_write was used for later.  *)
OnlyApprovedInstalled == pc \in {"erase", "copy", "recheck"} => image = approved

(* Once upg_mode_init has forgotten why the start was special, the user NV *)
(* area belongs to the kernel that runs: a cut between boot loader,        *)
(* upg_refresh_nv and upg_mode_init must not lose the refresh.             *)
NvMatchesKernel ==
  pc \in {"idle"} \cup CallPC => normalNv # None /\ KernelAt(normalNv)

(* include/base/hi_upg_api.h: a power cut is allowed between               *)
(* hi_upg_transmit_finish_save_cache and hi_upg_finish_with_cache.  The    *)
(* latter finds the file, intact, and both NV items as they were left.     *)
SavedSurvives ==
  saved # None /\ pc = "idle" =>
    /\ nv.mode = "UPGRADE_WAIT"
    /\ waitNv.is_upg_process /\ waitNv.trans_finish_flag
    /\ waitNv.file_type = FileType(saved)
    /\ FileAt(saved, waitNv.file_addr)

-----------------------------------------------------------------------------
(* What every start ends in: the kernel in area A or, once that has been   *)
(* touched, the file the boot loader unpacks.                              *)
KernelToRun ==
  IF KernelValid THEN CHOOSE i \in KernelImages : KernelAt(i)
                 ELSE FileIn(KernelImages, nv.addr_write)

Device == INSTANCE AtomicUpgrade WITH
  Kernel <- KernelImages, Bad <- BadInner, First <- Factory,
  kernel <- KernelToRun,
  accepted <- approved,
  running <- pc \in AppPC

(* Erasing, unpacking and all the NV items amount to one atomic change of  *)
(* the kernel (AtomicUpgrade), whatever is interrupted: from the first     *)
(* block of area A that execute_upg_boot destroys the device has the new   *)
(* kernel, before it the old one, and at no time neither.                  *)
InstalledAtomically == Device!DeviceSpec
=============================================================================
