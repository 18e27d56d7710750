------------------------ MODULE UpgradeInstallProofs ------------------------
(***************************************************************************)
(* What holds of the upgrade besides CoreInv of UpgradeProofs, as long as  *)
(* NV can be written: the run upgrade_stop shows what happens otherwise.   *)
(* The device can always be started, since a file stands with its head at  *)
(* WriteAddr (so that, by FitAssumption, its own kernel does not reach it) *)
(* and the boot loader erases area A only while the file it unpacks is     *)
(* complete (UpgInv). UpgInv carries what is said of a file of either type *)
(* that is put aside (SavedInv, which without it is proved of kernels      *)
(* only) and of the file that is installed (ApprovedInv). Together they    *)
(* make the upgrade an AtomicUpgrade.                                      *)
(***************************************************************************)
EXTENDS UpgradeProofs, UpgradeLive

(* A head is found only where upg_get_backup_write_addr puts its file.     *)
HeadAtHome ==
  \A i \in Images : \A n \in Addr : flash[n] = Part("file", i, 1) => n = WriteAddr(i)

(* Both NV items speak of the same file.                                   *)
WaitIsNv ==
  waitNv.is_upg_process => waitNv.file_addr = nv.addr_write /\ nv.addr_write > 0

(* Area A is touched only while the file at addr_write is complete.        *)
BootInv ==
  /\ pc \in BootPC => Bootable
  /\ pc \in {"erase", "copy"} => image \notin BadInner /\ FileAt(image, nv.addr_write)

(* The session is about the file that waits, if one does, and its first    *)
(* packet is written where the file belongs.                               *)
SessionInv ==
  /\ ctx.is_upg_process =>
       /\ waitNv.is_upg_process => ctx.file_addr = waitNv.file_addr
       /\ pc \notin StopPC \cup {"tx_write"} => ctx.cache_size > 0
  /\ pc \in TxPC \cup {"stop_erase", "stop_save", "save_wait"} => ~waitNv.is_upg_process
  /\ pc = "tx_start" /\ ctx.is_upg_process => packet.offset = ctx.cache_size
  /\ pc = "tx_erase" => packet.offset = 0 /\ ctx.cache_size = 0 /\ ~ctx.is_upg_process
  /\ pc = "tx_write" =>
       /\ packet.offset = ctx.cache_size
       /\ ctx.cache_size = 0 => ctx.file_addr = WriteAddr(packet.image)

UpgInv == CoreInv /\ HeadCfg /\ HeadAtHome /\ WaitIsNv /\ BootInv /\ SessionInv

-----------------------------------------------------------------------------
(* Saving without a fault, and what upg_check_clear_wait_mode leaves.      *)
LEMMA NoNvFault ==
  ASSUME "nv" \notin Faults
  PROVE  /\ \A c : ~SaveCfgFails(c)
         /\ \A w : ~SaveWaitFails(w)
BY DEF SaveCfgFails, SaveWaitFails

LEMMA WaitCleared ==
  ASSUME UpgTypeOK, "nv" \notin Faults, ClearWaitMode
  PROVE  ~waitNv'.is_upg_process
<1>1. ~NoWait.is_upg_process
  BY DEF NoWait
<1>2. waitNv' = NoWait \/ (waitNv' = waitNv /\ ~waitNv.is_upg_process)
  BY NoNvFault DEF ClearWaitMode, SaveWait
<1>. QED
  BY <1>1, <1>2

LEMMA FileHome ==
  ASSUME HeadAtHome, NEW i \in Images, NEW n \in Nat, FileAt(i, n)
  PROVE  n = WriteAddr(i) /\ n \in Addr
<1>1. 1 \in 1..FileLen[i] /\ n + 1 - 1 = n
  BY Sizes
<1>2. flash[n] = Part("file", i, 1) /\ n \in Addr
  BY <1>1 DEF FileAt
<1>. QED
  BY <1>2 DEF HeadAtHome

(* The file that is unpacked lies behind its own kernel.                   *)
LEMMA UnpackedFile ==
  ASSUME UpgInv, pc \in {"erase", "copy"}
  PROVE  /\ image \in KernelImages \ BadInner /\ image \in Images
         /\ pos \in 1..KernelLen[image] /\ KernelLen[image] \in Nat
         /\ nv.addr_write \in Nat /\ KernelLen[image] < nv.addr_write
         /\ FileAt(image, nv.addr_write) /\ Unpacks(image)
<1>1. pc \in BootPC \ {"reset"}
  BY DEF BootPC
<1>2. /\ image \in KernelImages \ BadInner /\ image \in Images
      /\ FileAt(image, nv.addr_write) /\ cfg.addr_write = nv.addr_write
      /\ nv.addr_write \in Nat
  BY <1>1, Sizes DEF UpgInv, BootInv, CoreInv, BootCore, UpgTypeOK, Cfg
<1>3. /\ pos \in 1..KernelLen[image] /\ KernelLen[image] \in Nat
  BY Unpacking DEF UpgInv
<1>4. nv.addr_write = WriteAddr(image)
  BY <1>2, FileHome DEF UpgInv
<1>5. KernelLen[image] < nv.addr_write
  BY <1>2, <1>4, HomeFits
<1>6. Unpacks(image)
  BY <1>2 DEF Unpacks, FileAt
<1>. QED
  BY <1>2, <1>3, <1>5, <1>6

(* Where the next block of the file goes, and what may be stored there.    *)
LEMMA NextBlock ==
  ASSUME UpgInv, WriteCache
  PROVE  /\ packet.image \in Images /\ packet.offset \in Nat
         /\ packet.offset = ctx.cache_size
         /\ ctx.file_addr \in Addr
         /\ packet.offset = 0 => ctx.file_addr + packet.offset = WriteAddr(packet.image)
         /\ \/ UNCHANGED flash
            \/ \E d \in {Part("file", packet.image, packet.offset + 1), Junk} :
                 flash' = [flash EXCEPT ![ctx.file_addr + packet.offset] = d]
<1>1. pc = "tx_write"
  BY DEF WriteCache
<1>2. /\ ctx \in Ctx /\ packet \in Packet /\ ctx.is_upg_process
      /\ packet.offset = ctx.cache_size /\ ctx.kernel_size < ctx.file_addr
      /\ ctx.cache_size = 0 => ctx.file_addr = WriteAddr(packet.image)
  BY <1>1 DEF UpgInv, CoreInv, UpgTypeOK, SessionCore, SessionInv, TxPC
<1>3. /\ packet.offset \in Nat /\ packet.image \in Images
      /\ ctx.file_addr \in Nat /\ ctx.file_addr \in Addr
  BY <1>2, Sizes DEF Ctx, Packet, Addr
<1>4. packet.offset = 0 => ctx.file_addr + packet.offset = WriteAddr(packet.image)
  BY <1>2, <1>3
<1>5. \/ UNCHANGED flash
      \/ \E d \in {Part("file", packet.image, packet.offset + 1), Junk} :
           flash' = [flash EXCEPT ![ctx.file_addr + packet.offset] = d]
  BY DEF WriteCache, Received, Written
<1>. QED
  BY <1>2, <1>3, <1>4, <1>5

-----------------------------------------------------------------------------
(* HeadAtHome: only the first packet of a session brings a head.           *)
NoNewHead ==
  \A a \in Addr, j \in Images : flash'[a] = Part("file", j, 1) => flash[a] = Part("file", j, 1)

LEMMA OneBlock ==
  ASSUME flash \in [Addr -> Content], NEW n, NEW d, flash' = [flash EXCEPT ![n] = d],
         \A j \in Images : d # Part("file", j, 1)
  PROVE  NoNewHead
BY DEF NoNewHead

LEMMA NoHead ==
  /\ \A j \in Images : Erased # Part("file", j, 1) /\ Junk # Part("file", j, 1)
  /\ \A i \in Images, j \in Images : \A k : Part("kernel", i, k) # Part("file", j, 1)
  /\ \A i \in Images, j \in Images : \A k : k # 1 => Part("file", i, k) # Part("file", j, 1)
  /\ \A i \in Images, j \in Images : Part("file", i, 1) = Part("file", j, 1) => i = j
<1>1. \A j \in Images : Erased # Part("file", j, 1) /\ Junk # Part("file", j, 1)
  BY PartsDiffer
<1>2. \A i \in Images, j \in Images : \A k : Part("kernel", i, k) # Part("file", j, 1)
  BY PartsDiffer
<1>3. \A i \in Images, j \in Images : \A k : k # 1 => Part("file", i, k) # Part("file", j, 1)
  BY PartsDiffer
<1>4. \A i \in Images, j \in Images : Part("file", i, 1) = Part("file", j, 1) => i = j
  BY PartsDiffer
<1>. QED
  BY <1>1, <1>2, <1>3, <1>4

LEMMA HeadsKept ==
  ASSUME UpgInv, UpgNext, ~(WriteCache /\ ctx.cache_size = 0)
  PROVE  NoNewHead
<1>0. flash \in [Addr -> Content]
  BY DEF UpgInv, CoreInv, UpgTypeOK
<1>1. ASSUME UNCHANGED flash PROVE NoNewHead
  BY <1>1 DEF NoNewHead
<1>2. ASSUME NEW n, flash' = [flash EXCEPT ![n] = Erased] \/ flash' = [flash EXCEPT ![n] = Junk]
      PROVE  NoNewHead
  BY <1>0, <1>2, OneBlock, NoHead
<1>3. CASE PowerCut
  BY <1>1, <1>2, <1>3 DEF PowerCut
<1>4. CASE BootStep
  <2>1. CASE EraseTarget
    BY <1>1, <1>2, <2>1 DEF EraseTarget
  <2>2. CASE Decompress
    <3>1. image \in Images
      BY <2>2, UnpackedFile DEF Decompress
    <3>2. \/ flash' = [flash EXCEPT ![pos] = Junk]
          \/ flash' = [flash EXCEPT ![pos] = flash[pos]]
          \/ flash' = [flash EXCEPT ![pos] = Part("kernel", image, pos)]
      BY <2>2 DEF Decompress, Written
    <3>3. CASE flash' = [flash EXCEPT ![pos] = flash[pos]]
      BY <1>0, <3>3 DEF NoNewHead
    <3>4. CASE flash' = [flash EXCEPT ![pos] = Part("kernel", image, pos)]
      BY <1>0, <3>1, <3>4, OneBlock, NoHead
    <3>. QED
      BY <1>2, <3>2, <3>3, <3>4
  <2>. QED
    BY <1>1, <1>4, <2>1, <2>2 DEF BootStep, execute_upg_boot, boot_head,
       boot_upg_kernel_process, Recheck, persistent
<1>5. CASE hi_upg_init
  BY <1>1, <1>5 DEF hi_upg_init, upg_refresh_nv, ForgetRefresh, upg_mode_init
<1>6. CASE CallStep
  <2>1. CASE StopErase \/ EraseCache
    BY <1>1, <1>2, <2>1 DEF StopErase, EraseCache
  <2>2. CASE WriteCache
    <3>1. packet.image \in Images /\ packet.offset \in Nat /\ packet.offset + 1 # 1
      BY <2>2, NextBlock
    <3>2. \A j \in Images : Part("file", packet.image, packet.offset + 1) # Part("file", j, 1)
      BY <3>1, NoHead
    <3>. QED
      BY <1>0, <1>1, <1>2, <2>2, <3>2, NextBlock, OneBlock
  <2>. QED
    BY <1>1, <1>6, <2>1, <2>2, CallActions DEF hi_upg_stop, StopBegin, StopSave,
       hi_upg_transmit, ClearUpgMode, StartUpgrade, AlreadyStarted, hi_upg_transmit_finish,
       hi_upg_finish, hi_upg_transmit_finish_save_cache, SaveWaitMode,
       hi_upg_finish_with_cache, ClearAndReboot, hi_upg_get_content, persistent
<1>. QED
  BY <1>3, <1>4, <1>5, <1>6 DEF UpgNext, Step

LEMMA HeadStep ==
  ASSUME UpgInv, [UpgNext]_vars
  PROVE  HeadAtHome'
<1>1. CASE UNCHANGED vars
  BY <1>1 DEF UpgInv, HeadAtHome, WriteAddr, vars, persistent
<1>2. CASE NoNewHead
  BY <1>2 DEF UpgInv, HeadAtHome, NoNewHead, WriteAddr
<1>3. CASE WriteCache /\ ctx.cache_size = 0
  <2>1. SUFFICES ASSUME NEW i \in Images, NEW n \in Addr, flash'[n] = Part("file", i, 1),
                        flash[n] # Part("file", i, 1)
                 PROVE  n = WriteAddr(i)
    BY DEF UpgInv, HeadAtHome, WriteAddr
  <2>2. flash \in [Addr -> Content]
    BY DEF UpgInv, CoreInv, UpgTypeOK
  <2>3. PICK d \in {Part("file", packet.image, packet.offset + 1), Junk} :
          flash' = [flash EXCEPT ![ctx.file_addr + packet.offset] = d]
    BY <1>3, <2>1, NextBlock
  <2>4. n = ctx.file_addr + packet.offset /\ d = Part("file", i, 1)
    BY <2>1, <2>2, <2>3
  <2>5. packet.offset = 0 /\ packet.image \in Images /\ n = WriteAddr(packet.image)
    BY <1>3, <2>4, NextBlock
  <2>6. d = Part("file", packet.image, 1)
    BY <2>3, <2>4, <2>5, NoHead
  <2>. QED
    BY <2>4, <2>5, <2>6, NoHead
<1>. QED
  BY <1>1, <1>2, <1>3, HeadsKept

-----------------------------------------------------------------------------
(* WaitIsNv: when a file is put aside nv is stored first.                  *)
LEMMA WaitStep ==
  ASSUME UpgInv, "nv" \notin Faults, [UpgNext]_vars
  PROVE  WaitIsNv'
<1>0. nv \in Cfg /\ ctx \in Ctx /\ waitNv \in WaitMode
  BY DEF UpgInv, CoreInv, UpgTypeOK
<1>1. ASSUME ~waitNv'.is_upg_process PROVE WaitIsNv'
  BY <1>1 DEF WaitIsNv
<1>2. ASSUME UNCHANGED waitNv, nv'.addr_write = nv.addr_write PROVE WaitIsNv'
  BY <1>2 DEF UpgInv, WaitIsNv
<1>3. CASE UNCHANGED vars \/ PowerCut
  BY <1>2, <1>3 DEF vars, persistent, PowerCut
<1>4. CASE BootStep \/ hi_upg_init
  BY <1>2, <1>4, StartNv, StepFrom DEF UpgInv
<1>5. CASE CallStep
  <2>1. CASE StopBegin \/ \E p \in Packet : hi_upg_transmit(p)
    BY <1>1, <2>1, WaitCleared DEF StopBegin, hi_upg_transmit, UpgInv, CoreInv
  <2>2. CASE StopSave
    BY <1>1, <2>2 DEF StopSave, UpgInv, SessionInv
  <2>3. CASE ClearUpgMode
    BY <1>0, <1>2, <2>3, NoNvFault DEF ClearUpgMode, SaveCfg, Cfg
  <2>4. CASE hi_upg_transmit_finish
    <3>1. \/ nv' = nv
          \/ \E a \in {nv.addr_write, ctx.file_addr} : \E r \in {nv.refresh_nv, "REFRESH"} :
               \E k \in {nv.reset_cnt, 0} :
                 nv' = [nv EXCEPT !.addr_write = a, !.refresh_nv = r, !.reset_cnt = k,
                                  !.mode = "UPGRADE", !.file_type = ctx.file_type]
      BY <2>4, NoNvFault DEF hi_upg_transmit_finish, SaveCfg
    <3>2. nv'.addr_write \in {nv.addr_write, ctx.file_addr}
      BY <1>0, <3>1 DEF Cfg
    <3>3. waitNv.is_upg_process => ctx.file_addr = nv.addr_write
      BY <2>4 DEF hi_upg_transmit_finish, UpgInv, SessionInv, WaitIsNv
    <3>. QED
      BY <1>1, <1>2, <2>4, <3>2, <3>3 DEF hi_upg_transmit_finish
  <2>5. CASE hi_upg_transmit_finish_save_cache
    BY <1>1, <2>5 DEF hi_upg_transmit_finish_save_cache, UpgInv, CoreInv, WaitKnown
  <2>6. CASE SaveWaitMode
    <3>1. waitNv' = [is_upg_process |-> ctx.is_upg_process, trans_finish_flag |-> TRUE,
                     file_addr |-> ctx.file_addr, file_type |-> ctx.file_type] /\ nv' = nv
      BY <2>6, NoNvFault DEF SaveWaitMode, SaveWait
    <3>2. ctx.file_addr = nv.addr_write /\ ctx.kernel_size < ctx.file_addr
      BY <2>6 DEF SaveWaitMode, UpgInv, CoreInv, SessionCore
    <3>3. ctx.file_addr > 0
      BY <1>0, <3>2, Sizes DEF Ctx
    <3>. QED
      BY <3>1, <3>2, <3>3 DEF WaitIsNv
  <2>7. CASE hi_upg_finish_with_cache
    <3>1. waitNv.file_addr = nv.addr_write
      BY <2>7 DEF hi_upg_finish_with_cache, UpgInv, WaitIsNv
    <3>2. \/ nv' = nv
          \/ \E a \in {nv.addr_write, waitNv.file_addr} : \E r \in {nv.refresh_nv, "REFRESH"} :
               nv' = [nv EXCEPT !.addr_write = a, !.refresh_nv = r, !.mode = "UPGRADE"]
      BY <2>7, NoNvFault DEF hi_upg_finish_with_cache, SaveCfg
    <3>3. nv'.addr_write = nv.addr_write
      BY <1>0, <3>1, <3>2 DEF Cfg
    <3>. QED
      BY <1>2, <2>7, <3>3 DEF hi_upg_finish_with_cache
  <2>8. CASE ClearAndReboot
    BY <1>1, <2>8, NoNvFault DEF ClearAndReboot, SaveWait, NoWait
  <2>. QED
    BY <1>2, <1>5, <2>1, <2>2, <2>3, <2>4, <2>5, <2>6, <2>7, <2>8, CallActions
       DEF hi_upg_stop, StopErase, StartUpgrade, AlreadyStarted, EraseCache, WriteCache,
           hi_upg_finish, hi_upg_get_content, persistent
<1>. QED
  BY <1>3, <1>4, <1>5 DEF UpgNext, Step

-----------------------------------------------------------------------------
(* BootInv: the boot loader stores only before the file it unpacks, and    *)
(* finds a whole kernel in area A when it begins.                          *)
LEMMA FileKept ==
  ASSUME UpgInv, BootStep \/ PowerCut, pc \in {"erase", "copy"}
  PROVE  \E i \in KernelImages \ BadInner : i = image /\ FileAt(i, nv.addr_write)'
<1>1. /\ image \in KernelImages \ BadInner /\ pos \in 1..KernelLen[image] /\ KernelLen[image] \in Nat
      /\ nv.addr_write \in Nat /\ KernelLen[image] < nv.addr_write
      /\ image \in Images /\ FileAt(image, nv.addr_write) /\ flash \in [Addr -> Content]
  BY UnpackedFile DEF UpgInv, CoreInv, UpgTypeOK
<1>2. UNCHANGED flash \/ \E d : flash' = [flash EXCEPT ![pos] = d]
  BY DEF BootStep, execute_upg_boot, boot_head, boot_upg_kernel_process, EraseTarget,
     Decompress, Recheck, PowerCut, BusyBlocks
<1>3. PICK i \in KernelImages \ BadInner, m \in Nat : i = image /\ m = nv.addr_write
  BY <1>1
<1>4. ASSUME NEW k \in 1..FileLen[i]
      PROVE  m + k - 1 \in Addr /\ flash'[m + k - 1] = Part("file", i, k)
  <2>1. m + k - 1 \in Addr /\ flash[m + k - 1] = Part("file", i, k)
    BY <1>1, <1>3 DEF FileAt
  <2>2. m + k - 1 # pos
    BY <1>1, <1>3, Sizes
  <2>. QED
    BY <1>1, <1>2, <2>1, <2>2
<1>5. m \in Addr /\ nv'.addr_write = m /\ FileLen[i]' = FileLen[i]
  <2>1. nv'.addr_write = nv.addr_write
    BY StartNv DEF UpgInv, PowerCut
  <2>. QED
    BY <1>1, <1>3, <2>1 DEF FileAt
<1>6. FileAt(i, m)'
  BY <1>4, <1>5 DEF FileAt
<1>7. FileAt(i, nv.addr_write)'
  BY <1>5, <1>6 DEF FileAt
<1>. QED
  BY <1>3, <1>7

LEMMA ResetKernel ==
  ASSUME CoreInv, hi_upg_init \/ CallStep \/ PowerCut, pc \in AppPC
  PROVE  pc' \in BootPC => pc' = "reset" /\ KernelValid'
<1>1. CASE hi_upg_init
  BY <1>1 DEF hi_upg_init, upg_refresh_nv, ForgetRefresh, upg_mode_init, BootPC
<1>2. CASE CallStep
  <2>1. pc' \in BootPC => pc' = "reset" /\ (hi_upg_finish \/ ClearAndReboot)
    <3>1. pc' \in BootPC => pc' = "reset"
      BY <1>2, CallFrom DEF CoreInv, CallPC, BootPC
    <3>2. cont \in {"idle", "tx_start"}
      BY DEF CoreInv, UpgTypeOK
    <3>. QED
      BY <1>2, <3>1, <3>2, CallActions DEF hi_upg_stop, StopBegin, StopErase, StopSave,
         hi_upg_transmit, ClearUpgMode, StartUpgrade, AlreadyStarted, EraseCache, WriteCache,
         hi_upg_transmit_finish, hi_upg_transmit_finish_save_cache, SaveWaitMode,
         hi_upg_finish_with_cache, hi_upg_get_content, UpgStop, Return
  <2>2. hi_upg_finish \/ ClearAndReboot => UNCHANGED flash
    BY DEF hi_upg_finish, ClearAndReboot, persistent
  <2>3. KernelValid
    BY DEF CoreInv, KernelInv, KernelValid
  <2>. QED
    BY <2>1, <2>2, <2>3, FlashSame DEF KernelValid
<1>3. CASE PowerCut
  <2>1. PICK i \in KernelImages :
          KernelAt(i) /\ (nv.addr_write = 0 \/ KernelLen[i] < nv.addr_write)
    BY Running
  <2>2. pc' = "reset" /\ nv' = nv
    BY <1>3 DEF PowerCut
  <2>3. KernelAt(i)'
    BY <1>3, <2>1, <2>2, PowerCutBehind, AppStep DEF AppPC, InitPC, CallPC
  <2>. QED
    BY <2>2, <2>3 DEF KernelValid
<1>. QED
  BY <1>1, <1>2, <1>3

LEMMA BootInvStep ==
  ASSUME UpgInv, [UpgNext]_vars
  PROVE  BootInv'
<1>1. CASE UNCHANGED vars
  BY <1>1 DEF vars, persistent, boot, UpgInv, BootInv, Bootable, KernelValid, KernelAt, FileAt
<1>2. CASE (hi_upg_init \/ CallStep \/ PowerCut) /\ pc \in AppPC
  BY <1>2, ResetKernel DEF UpgInv, BootInv, Bootable, BootPC
<1>3. CASE (BootStep \/ PowerCut) /\ pc \in {"erase", "copy"}
  <2>1. PICK i \in KernelImages \ BadInner : i = image /\ FileAt(i, nv.addr_write)'
    BY <1>3, FileKept
  <2>4. Bootable'
    BY <2>1 DEF Bootable
  <2>5. pc' \in {"erase", "copy"} => image' = image
    BY <1>3 DEF BootStep, execute_upg_boot, boot_head, boot_upg_kernel_process, EraseTarget,
       Decompress, Recheck, Restart, PowerCut
  <2>6. pc' \in {"erase", "copy"} => image' \notin BadInner /\ FileAt(image, nv.addr_write)'
    BY <2>1, <2>5 DEF FileAt
  <2>. QED
    BY <2>4, <2>6 DEF BootInv
<1>4. CASE (BootStep \/ PowerCut) /\ pc \in BootPC \ {"erase", "copy"}
  <2>1. UNCHANGED flash /\ nv'.addr_write = nv.addr_write
    BY <1>4, StartNv DEF BootStep, execute_upg_boot, boot_head, boot_upg_kernel_process,
       EraseTarget, Decompress, Recheck, PowerCut, BusyBlocks, UpgInv, persistent, BootPC
  <2>2. Bootable'
    BY <1>4, <2>1, FlashSame DEF UpgInv, BootInv, Bootable, KernelValid, FileAt
  <2>3. ASSUME pc' \in {"erase", "copy"}
        PROVE  image' \notin BadInner /\ FileAt(image, nv.addr_write)'
    <3>1. /\ pc = "process" /\ Unpacks(image')
      BY <1>4, <2>3 DEF BootStep, execute_upg_boot, boot_head, boot_upg_kernel_process,
         EraseTarget, Decompress, Recheck, Restart, boot_kernel, PowerCut
    <3>2. cfg.addr_write = nv.addr_write
      BY <3>1 DEF UpgInv, CoreInv, BootCore, BootPC
    <3>. QED
      BY <2>1, <3>1, <3>2 DEF Unpacks, FileAt
  <2>. QED
    BY <2>2, <2>3 DEF BootInv
<1>5. pc \in BootPC \/ pc \in AppPC
  BY DEF UpgInv, CoreInv, UpgTypeOK
<1>6. /\ BootStep => pc \in BootPC
      /\ hi_upg_init \/ CallStep => pc \in AppPC
  BY StepFrom, CallFrom DEF UpgInv, CoreInv, AppPC
<1>. QED
  BY <1>1, <1>2, <1>3, <1>4, <1>5, <1>6 DEF UpgNext, Step

-----------------------------------------------------------------------------
(* SessionInv: a stop ends a session, and a packet that does not follow    *)
(* the last one stops it.                                                  *)
LEMMA SessionStep ==
  ASSUME UpgInv, "nv" \notin Faults, [UpgNext]_vars
  PROVE  SessionInv'
<1>0. /\ ctx \in Ctx /\ waitNv \in WaitMode /\ cont \in {"idle", "tx_start"}
      /\ pc \in BootPC \cup InitPC => ~ctx.is_upg_process
  BY DEF UpgInv, CoreInv, UpgTypeOK, SessionCore
<1>1. ASSUME ~ctx'.is_upg_process, pc' \in BootPC \cup InitPC \cup {"idle"}
      PROVE  SessionInv'
  BY <1>1 DEF SessionInv, BootPC, InitPC, TxPC
<1>2. ASSUME UNCHANGED <<ctx, waitNv>>, pc' \in {"idle", "stop", "clear_wait"},
             pc \notin StopPC \cup {"tx_write"}
      PROVE  SessionInv'
  BY <1>2 DEF UpgInv, SessionInv, TxPC, StopPC
<1>3. CASE UNCHANGED vars
  BY <1>3 DEF vars, persistent, app, UpgInv, SessionInv, WriteAddr
<1>4. CASE PowerCut
  BY <1>1, <1>4 DEF PowerCut, ClearApp, ClearedCtx, BootPC
<1>5. CASE BootStep /\ UNCHANGED app
  BY <1>0, <1>1, <1>5 DEF BootStep, execute_upg_boot, boot_head, boot_upg_kernel_process,
     EraseTarget, Decompress, Recheck, Restart, boot_kernel, BootPC, InitPC, app
<1>6. CASE hi_upg_init
  <2>1. pc \in InitPC /\ pc' \in InitPC \cup {"idle"} /\ ctx'.is_upg_process = ctx.is_upg_process
    BY <1>0, <1>6 DEF hi_upg_init, upg_refresh_nv, ForgetRefresh, upg_mode_init, InitPC, app, Ctx
  <2>. QED
    BY <1>0, <1>1, <2>1
<1>7. CASE CallStep
  <2>1. CASE hi_upg_stop
    BY <1>2, <2>1 DEF hi_upg_stop, UpgStop, StopPC, persistent
  <2>2. CASE StopBegin
    <3>1. ~waitNv'.is_upg_process
      BY <2>2, WaitCleared DEF StopBegin, UpgInv, CoreInv
    <3>. QED
      BY <1>0, <2>2, <3>1 DEF StopBegin, Return, SessionInv, TxPC, StopPC
  <2>3. CASE StopErase
    BY <2>3 DEF StopErase, app, UpgInv, SessionInv, TxPC, StopPC
  <2>4. CASE StopSave
    <3>1. ~ctx'.is_upg_process
      BY <2>4, NoNvFault DEF StopSave, ClearedCtx
    <3>2. ~waitNv'.is_upg_process
      BY <2>4 DEF StopSave, UpgInv, SessionInv
    <3>. QED
      BY <1>0, <2>4, <3>1, <3>2 DEF StopSave, Return, SessionInv
  <2>5. ASSUME NEW p \in Packet, hi_upg_transmit(p) PROVE SessionInv'
    <3>1. ~waitNv'.is_upg_process
      BY <2>5, WaitCleared DEF hi_upg_transmit, UpgInv, CoreInv
    <3>. QED
      BY <2>5, <3>1 DEF hi_upg_transmit, UpgInv, SessionInv, TxPC, StopPC
  <2>6. CASE ClearUpgMode
    BY <2>6 DEF ClearUpgMode, UpgStop, UpgInv, SessionInv, TxPC, StopPC
  <2>7. CASE StartUpgrade
    <3>1. CASE pc' = "tx_erase"
      BY <1>0, <2>7, <3>1 DEF StartUpgrade, UpgStop, Return, persistent, UpgInv, SessionInv,
         TxPC, StopPC, Ctx
    <3>2. CASE pc' # "tx_erase"
      BY <1>2, <2>7, <3>2 DEF StartUpgrade, UpgStop, Return, persistent, StopPC
    <3>. QED
      BY <3>1, <3>2
  <2>8. CASE AlreadyStarted
    <3>1. ctx.cache_size > 0 /\ ctx.cache_size # 0
      BY <1>0, <2>8 DEF AlreadyStarted, UpgInv, SessionInv, StopPC, Ctx
    <3>. QED
      BY <2>8, <3>1 DEF AlreadyStarted, persistent, app, UpgInv, SessionInv, TxPC, StopPC
  <2>9. CASE EraseCache
    <3>1. CASE UNCHANGED ctx /\ pc' # "tx_write"
      BY <2>9, <3>1 DEF EraseCache, UpgStop, UpgInv, SessionInv, TxPC, StopPC
    <3>2. CASE pc' = "tx_write"
      <4>1. packet.image \in Images /\ WriteAddr(packet.image) \in 0..(Blocks + BackBlocks)
        <5>1. /\ pc = "tx_erase" /\ pc \in AppPC /\ pc \notin InitPC
              /\ packet \in Packet /\ FileLen[packet.image] <= MaxFileLen(packet.image)
          BY <2>9 DEF EraseCache, UpgInv, CoreInv, SessionCore, TxPC, AppPC, InitPC, CallPC
        <5>2. PICK i \in KernelImages : KernelAt(i) /\ ctx.kernel_size = KernelLen[i]
          BY <5>1, Running DEF UpgInv
        <5>. QED
          BY <5>1, <5>2, PacketHome, Sizes DEF MaxFileLen
      <4>2. ctx' = [ctx EXCEPT !.file_addr = WriteAddr(packet.image),
                               !.transmit_finish_flag = FALSE, !.is_upg_process = TRUE]
        BY <2>9, <3>2 DEF EraseCache, UpgStop
      <4>3. /\ ctx'.file_addr = WriteAddr(packet.image) /\ ctx'.cache_size = ctx.cache_size
        BY <1>0, <4>2 DEF Ctx
      <4>4. WriteAddr(packet.image)' = WriteAddr(packet.image)
        BY <2>9 DEF EraseCache, WriteAddr
      <4>. QED
        BY <2>9, <3>2, <4>3, <4>4 DEF EraseCache, UpgInv, SessionInv, TxPC, StopPC
    <3>. QED
      BY <2>9, <3>1, <3>2 DEF EraseCache, UpgStop
  <2>10. CASE WriteCache
    <3>1. ~waitNv'.is_upg_process
      BY <2>10 DEF WriteCache, UpgInv, SessionInv, TxPC
    <3>2. pc' = "idle" => ctx'.cache_size > 0
      <4>1. ctx.cache_size \in Nat
        BY <1>0 DEF Ctx
      <4>2. pc' = "idle" => ctx' = [ctx EXCEPT !.cache_size = ctx.cache_size + 1,
                                               !.check_head_flag = TRUE]
        BY <2>10 DEF WriteCache, UpgStop
      <4>3. pc' = "idle" => ctx'.cache_size = ctx.cache_size + 1
        BY <1>0, <4>2 DEF Ctx
      <4>. QED
        BY <4>1, <4>3
    <3>. QED
      BY <2>10, <3>1, <3>2 DEF WriteCache, UpgStop, Return, SessionInv, TxPC, StopPC
  <2>11. CASE hi_upg_transmit_finish
    <3>1. /\ ctx'.is_upg_process = ctx.is_upg_process /\ ctx'.file_addr = ctx.file_addr
          /\ ctx'.cache_size = ctx.cache_size
      BY <1>0, <2>11 DEF hi_upg_transmit_finish, Ctx
    <3>. QED
      BY <2>11, <3>1 DEF hi_upg_transmit_finish, UpgStop, UpgInv, SessionInv, TxPC, StopPC
  <2>12. CASE hi_upg_finish
    BY <1>1, <2>12 DEF hi_upg_finish, Reboot, ClearApp, ClearedCtx, BootPC
  <2>13. CASE hi_upg_transmit_finish_save_cache
    BY <2>13 DEF hi_upg_transmit_finish_save_cache, UpgStop, UpgInv, CoreInv, WaitKnown,
       SessionInv, TxPC, StopPC
  <2>14. CASE SaveWaitMode
    <3>1. waitNv'.file_addr = ctx.file_addr
      BY <2>14, NoNvFault DEF SaveWaitMode, SaveWait
    <3>. QED
      BY <2>14, <3>1, NoNvFault DEF SaveWaitMode, UpgInv, SessionInv, TxPC, StopPC
  <2>15. CASE hi_upg_finish_with_cache
    <3>1. /\ ctx'.is_upg_process = ctx.is_upg_process /\ ctx'.file_addr = waitNv.file_addr
          /\ ctx'.cache_size = ctx.cache_size
      BY <1>0, <2>15 DEF hi_upg_finish_with_cache, Ctx, WaitMode
    <3>. QED
      BY <2>15, <3>1 DEF hi_upg_finish_with_cache, UpgStop, UpgInv, SessionInv, TxPC, StopPC
  <2>16. CASE ClearAndReboot
    BY <1>1, <2>16, NoNvFault DEF ClearAndReboot, Reboot, ClearApp, ClearedCtx, BootPC
  <2>17. CASE hi_upg_get_content
    <3>1. /\ ctx'.is_upg_process = ctx.is_upg_process /\ ctx'.file_addr = waitNv.file_addr
          /\ ctx'.cache_size = ctx.cache_size
      BY <1>0, <2>17 DEF hi_upg_get_content, Ctx, WaitMode
    <3>. QED
      BY <2>17, <3>1 DEF hi_upg_get_content, persistent, UpgInv, SessionInv, TxPC, StopPC
  <2>. QED
    BY <1>7, <2>1, <2>2, <2>3, <2>4, <2>5, <2>6, <2>7, <2>8, <2>9, <2>10, <2>11, <2>12,
       <2>13, <2>14, <2>15, <2>16, <2>17, CallActions
<1>. QED
  BY <1>3, <1>4, <1>5, <1>6, <1>7 DEF UpgNext, Step

-----------------------------------------------------------------------------
LEMMA UpgInitInv == UpgInit => UpgInv
<1>. SUFFICES ASSUME UpgInit PROVE UpgInv
  OBVIOUS
<1>1. HeadAtHome
  <2>. SUFFICES ASSUME NEW i \in Images, NEW n \in Addr, flash[n] = Part("file", i, 1)
                PROVE  FALSE
    BY DEF HeadAtHome
  <2>1. Factory \in Images
    BY ImagesAssumption DEF KernelImages
  <2>2. flash[n] \in {Part("kernel", Factory, n), Erased}
    BY DEF UpgInit
  <2>. QED
    BY <2>1, <2>2, NoHead
<1>2. Bootable
  <2>1. \A k \in 1..KernelLen[Factory] : k \in Addr
    BY ImagesAssumption, KernelFits, Sizes DEF Addr
  <2>2. KernelAt(Factory)
    BY <2>1 DEF UpgInit, KernelAt
  <2>. QED
    BY <2>2, ImagesAssumption DEF Bootable, KernelValid
<1>. QED
  BY <1>1, <1>2, CoreInit
     DEF UpgInit, UpgInv, HeadCfg, WaitIsNv, BootInv, SessionInv, NoWait, ClearedCtx, TxPC

LEMMA UpgNextInv ==
  ASSUME UpgInv, "nv" \notin Faults, [UpgNext]_vars
  PROVE  UpgInv'
BY CoreNext, HeadCfgStep, HeadStep, WaitStep, BootInvStep, SessionStep DEF UpgInv

LEMMA UpgInvInvariant ==
  ASSUME "nv" \notin Faults
  PROVE  UpgSpec => []UpgInv
<1>1. UpgInit => UpgInv
  BY UpgInitInv
<1>2. UpgInv /\ [UpgNext]_vars => UpgInv'
  BY UpgNextInv
<1>. QED
  BY <1>1, <1>2, PTL DEF UpgSpec

(* As long as NV can be written, the device can be started after a power   *)
(* cut at any moment of any upgrade, even if erasing and writing flash     *)
(* fail.                                                                   *)
THEOREM AlwaysBootable ==
  ASSUME "nv" \notin Faults
  PROVE  UpgSpec => []Bootable
<1>1. UpgInv => Bootable
  <2>. SUFFICES ASSUME UpgInv PROVE Bootable
    OBVIOUS
  <2>1. pc \in BootPC \/ pc \in AppPC
    BY DEF UpgInv, CoreInv, UpgTypeOK
  <2>. QED
    BY <2>1 DEF UpgInv, BootInv, CoreInv, KernelInv, Bootable, KernelValid
<1>. QED
  BY <1>1, UpgInvInvariant, PTL

-----------------------------------------------------------------------------
(* The file put aside, when it may be one for the boot loader: a kernel    *)
(* that runs has reset the count of starts, and what the module knows as   *)
(* the type of a file is the type its head says.                           *)
Uncounted == pc \in {"idle"} \cup CallPC => nv.reset_cnt = 0

KnownPC == {"idle", "save_wait", "tx_mode", "tx_start", "tx_write"}

HeadKind ==
  /\ pc \in {"tx_erase", "tx_write"} /\ ctx.cache_size = 0 =>
       ctx.file_type = FileType(packet.image)
  /\ pc \in KnownPC /\ ctx.is_upg_process /\ ctx.cache_size > 0 =>
       \A i \in Images : flash[ctx.file_addr] = Part("file", i, 1) =>
         ctx.file_type = FileType(i)

LEMMA UncountedStep ==
  ASSUME UpgInv, Uncounted, "nv" \notin Faults, [UpgNext]_vars
  PROVE  Uncounted'
<1>0. nv \in Cfg
  BY DEF UpgInv, CoreInv, UpgTypeOK
<1>1. CASE UNCHANGED vars
  BY <1>1 DEF vars, persistent, Uncounted
<1>2. CASE PowerCut \/ BootStep
  BY <1>2, StepFrom DEF PowerCut, UpgInv, Uncounted, CallPC, BootPC
<1>3. CASE upg_mode_init
  <2>1. nv.reset_cnt \in Nat
    BY <1>0, Sizes DEF Cfg
  <2>2. \/ nv' = [nv EXCEPT !.reset_cnt = 0, !.mode = "NORMAL", !.refresh_nv = "NO"]
        \/ nv' = nv /\ nv.reset_cnt = 0
    BY <1>3, <2>1, NoNvFault DEF upg_mode_init, SaveCfg
  <2>. QED
    BY <1>0, <2>2 DEF Uncounted, Cfg
<1>4. CASE upg_refresh_nv \/ ForgetRefresh
  BY <1>4 DEF upg_refresh_nv, ForgetRefresh, Uncounted, CallPC
<1>5. CASE CallStep
  <2>1. pc \in {"idle"} \cup CallPC
    BY <1>5, CallFrom DEF UpgInv, CoreInv
  <2>2. nv'.reset_cnt \in {0, nv.reset_cnt}
    <3>1. CASE StopSave
      BY <1>0, <3>1, NoNvFault DEF StopSave, SaveCfg, Cfg
    <3>2. CASE ClearUpgMode
      BY <1>0, <3>2, NoNvFault DEF ClearUpgMode, SaveCfg, Cfg
    <3>3. CASE hi_upg_transmit_finish
      BY <1>0, <3>3, NoNvFault DEF hi_upg_transmit_finish, SaveCfg, Cfg
    <3>4. CASE hi_upg_transmit_finish_save_cache
      BY <1>0, <3>4, NoNvFault DEF hi_upg_transmit_finish_save_cache, SaveCfg, Cfg
    <3>5. CASE hi_upg_finish_with_cache
      BY <1>0, <3>5, NoNvFault DEF hi_upg_finish_with_cache, SaveCfg, Cfg
    <3>. QED
      BY <1>5, <3>1, <3>2, <3>3, <3>4, <3>5, CallActions DEF hi_upg_stop, StopBegin,
         StopErase, hi_upg_transmit, StartUpgrade, AlreadyStarted, EraseCache, WriteCache,
         hi_upg_finish, SaveWaitMode, ClearAndReboot, hi_upg_get_content, persistent
  <2>. QED
    BY <2>1, <2>2 DEF Uncounted
<1>. QED
  BY <1>1, <1>2, <1>3, <1>4, <1>5 DEF UpgNext, Step, hi_upg_init

(* The first packet brings the head and says the type.                     *)
LEMMA WriteKind ==
  ASSUME UpgInv, HeadKind, WriteCache, pc' # "stop"
  PROVE  HeadKind'
<1>0. ctx \in Ctx /\ flash \in [Addr -> Content]
  BY DEF UpgInv, CoreInv, UpgTypeOK
<1>1. /\ packet.offset = ctx.cache_size /\ packet.offset \in Nat /\ packet.image \in Images
      /\ ctx.file_addr \in Addr
      /\ \/ UNCHANGED flash
         \/ \E d \in {Part("file", packet.image, packet.offset + 1), Junk} :
              flash' = [flash EXCEPT ![ctx.file_addr + packet.offset] = d]
  BY NextBlock
<1>2. pc = "tx_write" /\ ctx.is_upg_process
  BY DEF WriteCache, UpgInv, CoreInv, SessionCore
<1>3. pc' = "idle" /\ ctx'.file_addr = ctx.file_addr /\ ctx'.file_type = ctx.file_type
  BY <1>0 DEF WriteCache, UpgStop, Return, Ctx
<1>4. CASE packet.offset = 0
  <2>1. ctx.file_addr + packet.offset = ctx.file_addr
    BY <1>0, <1>4 DEF Ctx
  <2>2. flash'[ctx.file_addr] \in {Part("file", packet.image, 1), Junk}
    <3>1. \E data \in Received :
            flash' = [flash EXCEPT ![ctx.file_addr] = Written(ctx.file_addr, data)]
      BY <1>1, <2>1 DEF WriteCache, UpgStop
    <3>. QED
      BY <1>0, <1>1, <1>4, <3>1 DEF Received, Written
  <2>3. ASSUME NEW i \in Images, flash'[ctx.file_addr] = Part("file", i, 1)
        PROVE  i = packet.image
    BY <1>1, <2>2, <2>3, NoHead
  <2>4. ctx.file_type = FileType(packet.image)
    BY <1>1, <1>2, <1>4 DEF HeadKind
  <2>. QED
    BY <1>3, <2>3, <2>4 DEF HeadKind, FileType
<1>5. CASE packet.offset # 0
  <2>1. ctx.file_addr + packet.offset # ctx.file_addr /\ ctx.cache_size > 0
    BY <1>0, <1>1, <1>5 DEF Ctx
  <2>2. flash'[ctx.file_addr] = flash[ctx.file_addr]
    BY <1>0, <1>1, <2>1
  <2>. QED
    BY <1>2, <1>3, <2>1, <2>2 DEF HeadKind, FileType, KnownPC
<1>. QED
  BY <1>4, <1>5

LEMMA HeadKindStep ==
  ASSUME UpgInv, HeadKind, "nv" \notin Faults, [UpgNext]_vars
  PROVE  HeadKind'
<1>0. /\ ctx \in Ctx /\ cont \in {"idle", "tx_start"}
      /\ pc \in InitPC => ~ctx.is_upg_process
  BY DEF UpgInv, CoreInv, UpgTypeOK, SessionCore
<1>1. ASSUME pc' \notin KnownPC \cup {"tx_erase"} PROVE HeadKind'
  BY <1>1 DEF HeadKind, KnownPC
<1>2. ASSUME ~ctx'.is_upg_process, pc' \notin {"tx_erase", "tx_write"} PROVE HeadKind'
  BY <1>2 DEF HeadKind
<1>3. ASSUME UNCHANGED <<flash, ctx>>, pc \in KnownPC, pc' \notin {"tx_erase", "tx_write"}
      PROVE  HeadKind'
  BY <1>3 DEF HeadKind, KnownPC, FileType
<1>4. CASE UNCHANGED vars
  BY <1>4 DEF vars, persistent, app, HeadKind, FileType
<1>5. CASE PowerCut \/ BootStep
  BY <1>1, <1>5, StepFrom DEF PowerCut, UpgInv, KnownPC, BootPC
<1>6. CASE hi_upg_init
  <2>1. ctx'.is_upg_process = ctx.is_upg_process
    BY <1>0, <1>6 DEF hi_upg_init, upg_refresh_nv, ForgetRefresh, upg_mode_init, app, Ctx
  <2>. QED
    BY <1>0, <1>2, <1>6, <2>1, StepFrom DEF UpgInv, InitPC
<1>7. CASE CallStep
  <2>1. CASE pc' \in {"stop", "stop_erase", "stop_save", "clear_wait", "reset"}
    BY <1>1, <2>1 DEF KnownPC
  <2>2. CASE StopBegin
    BY <1>0, <1>2, <2>1, <2>2 DEF StopBegin, Return
  <2>3. CASE StopSave
    BY <1>0, <1>2, <2>3, NoNvFault DEF StopSave, Return, ClearedCtx
  <2>4. CASE (\E p \in Packet : hi_upg_transmit(p)) \/ ClearUpgMode
    BY <1>3, <2>1, <2>4 DEF hi_upg_transmit, ClearUpgMode, UpgStop, KnownPC
  <2>5. CASE StartUpgrade
    <3>1. CASE pc' = "tx_erase"
      BY <1>0, <2>5, <3>1
         DEF StartUpgrade, Return, UpgStop, HeadKind, KnownPC, Ctx, FileType
    <3>. QED
      BY <1>2, <2>1, <2>5, <3>1 DEF StartUpgrade, Return, UpgStop
  <2>6. CASE AlreadyStarted
    <3>1. ctx.cache_size > 0 /\ ctx.cache_size # 0
      BY <1>0, <2>6 DEF AlreadyStarted, UpgInv, SessionInv, StopPC, Ctx
    <3>. QED
      BY <2>6, <3>1 DEF AlreadyStarted, persistent, app, HeadKind, KnownPC, FileType
  <2>7. CASE EraseCache
    <3>1. ctx.cache_size = 0
      BY <2>7 DEF EraseCache, UpgInv, SessionInv
    <3>2. ctx'.cache_size = 0 /\ ctx'.file_type = ctx.file_type /\ UNCHANGED packet
      BY <1>0, <2>7, <3>1 DEF EraseCache, Ctx
    <3>. QED
      BY <2>1, <2>7, <3>1, <3>2 DEF EraseCache, HeadKind, FileType
  <2>8. CASE WriteCache
    BY <2>1, <2>8, WriteKind
  <2>9. CASE hi_upg_transmit_finish
    <3>1. CASE pc' # "stop"
      BY <1>0, <2>9, <3>1
         DEF hi_upg_transmit_finish, UpgStop, HeadKind, KnownPC, FileType, Ctx
    <3>. QED
      BY <2>1, <3>1
  <2>10. CASE hi_upg_transmit_finish_save_cache \/ SaveWaitMode
    BY <1>3, <2>1, <2>10 DEF hi_upg_transmit_finish_save_cache, SaveWaitMode, UpgStop, KnownPC
  <2>11. CASE hi_upg_get_content
    <3>1. /\ ctx'.is_upg_process = ctx.is_upg_process /\ ctx'.cache_size = ctx.cache_size
          /\ ctx'.file_type = ctx.file_type /\ ctx'.file_addr = waitNv.file_addr
          /\ pc = "idle" /\ pc' = "idle" /\ UNCHANGED flash /\ waitNv.is_upg_process
      BY <1>0, <2>11 DEF hi_upg_get_content, Ctx, persistent
    <3>2. ctx.is_upg_process => ctx.file_addr = waitNv.file_addr
      BY <3>1 DEF UpgInv, SessionInv
    <3>. QED
      BY <3>1, <3>2 DEF HeadKind, KnownPC, FileType
  <2>12. CASE hi_upg_stop \/ StopErase \/ hi_upg_finish \/ hi_upg_finish_with_cache
              \/ ClearAndReboot
    BY <2>1, <2>12 DEF hi_upg_stop, StopErase, hi_upg_finish, hi_upg_finish_with_cache,
       ClearAndReboot, UpgStop, Reboot
  <2>. QED
    BY <1>7, <2>2, <2>3, <2>4, <2>5, <2>6, <2>7, <2>8, <2>9, <2>10, <2>11, <2>12, CallActions
<1>. QED
  BY <1>4, <1>5, <1>6, <1>7 DEF UpgNext, Step

LEMMA KindKnown ==
  ASSUME UpgInv, Uncounted, HeadKind
  PROVE  SaveReady
<1>. SUFFICES ASSUME pc = "save_wait"
              PROVE  /\ nv.reset_cnt = 0
                     /\ \A i \in Images : FileAt(i, ctx.file_addr) => ctx.file_type = FileType(i)
  BY DEF SaveReady
<1>1. nv.reset_cnt = 0
  BY DEF Uncounted, CallPC
<1>2. ctx.is_upg_process /\ ctx.cache_size > 0 /\ ctx.file_addr \in Nat
  BY Sizes DEF UpgInv, CoreInv, UpgTypeOK, SessionCore, SessionInv, StopPC, Ctx
<1>3. ASSUME NEW i \in Images, FileAt(i, ctx.file_addr)
      PROVE  ctx.file_type = FileType(i)
  <2>1. 1 \in 1..FileLen[i] /\ ctx.file_addr + 1 - 1 = ctx.file_addr
    BY <1>2, Sizes
  <2>2. flash[ctx.file_addr] = Part("file", i, 1)
    BY <1>3, <2>1 DEF FileAt
  <2>. QED
    BY <1>2, <2>2 DEF HeadKind, KnownPC
<1>. QED
  BY <1>1, <1>3

(* The same as SavedKernelSurvives of a device that is sent files of both  *)
(* types, as long as its NV can be written (SavedSurvives).                *)
THEOREM SavedFileSurvives ==
  ASSUME "nv" \notin Faults
  PROVE  UpgSpec => []SavedSurvives
<1>. DEFINE IInv == UpgInv /\ Uncounted /\ HeadKind /\ SavedInv
<1>1. UpgInit => IInv
  BY UpgInitInv DEF UpgInit, Uncounted, HeadKind, SavedInv, CallPC, KnownPC
<1>2. IInv /\ [UpgNext]_vars => IInv'
  BY UpgNextInv, UncountedStep, HeadKindStep, KindKnown, SavedStep DEF UpgInv
<1>3. IInv => SavedSurvives
  BY DEF SavedInv, SavedSurvives
<1>. QED
  BY <1>1, <1>2, <1>3, PTL DEF UpgSpec

-----------------------------------------------------------------------------
(* Without files for the boot loader (KernelFiles): a start in mode        *)
(* UPGRADE has been counted, and while the mode is UPGRADE a session is on *)
(* that writes no head any more.                                           *)
Upgrading ==
  nv.mode = "UPGRADE" =>
    /\ pc \in (BootPC \ {"reset"}) \cup InitPC => nv.reset_cnt > 0
    /\ pc \in {"idle"} \cup CallPC =>
         pc = "clear_wait" \/ (ctx.is_upg_process /\ (pc = "tx_write" => ctx.cache_size > 0))

LEMMA UpgradingStep ==
  ASSUME UpgInv, Upgrading, "nv" \notin Faults, [UpgNext]_vars
  PROVE  Upgrading'
<1>0. /\ ctx \in Ctx /\ nv \in Cfg /\ cfg \in Cfg
  BY DEF UpgInv, CoreInv, UpgTypeOK
<1>1. CASE UNCHANGED vars
  BY <1>1 DEF vars, persistent, app, Upgrading
<1>2. CASE PowerCut
  BY <1>2 DEF PowerCut, Upgrading, InitPC, CallPC, BootPC
<1>3. CASE BootStep
  <2>1. CASE execute_upg_boot
    <3>1. nv.reset_cnt \in Nat /\ (nv.reset_cnt < MaxCnt => nv.reset_cnt + 1 > 0) /\ MaxCnt > 0
      BY <1>0, Sizes DEF Cfg
    <3>2. Counted(nv) > 0 /\ Counted(nv) \in 0..MaxCnt
      BY <1>0, <3>1, Sizes DEF Counted, Cfg
    <3>3. pc' = "head" /\ (nv'.mode = "UPGRADE" => nv'.reset_cnt = Counted(nv))
      BY <1>0, <2>1, NoNvFault DEF execute_upg_boot, SaveCfg, Cfg
    <3>. QED
      BY <3>2, <3>3 DEF Upgrading, InitPC, CallPC
  <2>2. CASE boot_head
    <3>1. cfg = nv /\ pc = "head"
      BY <2>2 DEF boot_head, UpgInv, HeadCfg
    <3>2. nv'.mode = nv.mode /\ nv'.reset_cnt = nv.reset_cnt /\ pc' \in {"process", "reset"}
      BY <1>0, <2>2, <3>1, NoNvFault DEF boot_head, SaveCfg, Restart, Cfg
    <3>. QED
      BY <3>1, <3>2 DEF Upgrading, InitPC, CallPC, BootPC
  <2>. QED
    BY <1>3, <2>1, <2>2 DEF BootStep, boot_upg_kernel_process, EraseTarget, Decompress,
       Recheck, Restart, boot_kernel, persistent, Upgrading, InitPC, CallPC, BootPC
<1>4. CASE hi_upg_init
  <2>1. pc \in InitPC
    BY <1>4, StepFrom DEF UpgInv
  <2>2. CASE upg_refresh_nv
    BY <2>1, <2>2 DEF upg_refresh_nv, Upgrading, InitPC, CallPC, BootPC
  <2>3. CASE ForgetRefresh
    <3>1. pc' = "mode_init2" /\ nv'.mode = nv.mode /\ nv'.reset_cnt = nv.reset_cnt
      BY <1>0, <2>3, NoNvFault DEF ForgetRefresh, SaveCfg, Cfg
    <3>. QED
      BY <2>1, <3>1 DEF Upgrading, InitPC, CallPC, BootPC
  <2>4. CASE upg_mode_init
    <3>1. CASE nv.reset_cnt > 0
      BY <1>0, <2>4, <3>1, NoNvFault DEF upg_mode_init, SaveCfg, Cfg, Upgrading
    <3>2. CASE ~(nv.reset_cnt > 0)
      BY <2>1, <2>4, <3>2 DEF upg_mode_init, Upgrading
    <3>. QED
      BY <3>1, <3>2
  <2>. QED
    BY <1>4, <2>2, <2>3, <2>4 DEF hi_upg_init
<1>5. CASE CallStep
  <2>0. pc \in {"idle"} \cup CallPC /\ pc' \in {"idle", "reset"} \cup CallPC
    BY <1>5, CallFrom DEF UpgInv, CoreInv
  <2>1. ASSUME nv'.mode = "UPGRADE" => nv.mode = "UPGRADE",
               pc # "clear_wait", pc' # "clear_wait",
               nv'.mode = "UPGRADE" /\ pc' # "reset" => ctx'.is_upg_process = ctx.is_upg_process,
               pc' = "tx_write" /\ nv'.mode = "UPGRADE" => ctx'.cache_size > 0
        PROVE  Upgrading'
    BY <2>0, <2>1 DEF Upgrading, InitPC, CallPC, BootPC
  <2>2. CASE hi_upg_stop \/ StopErase \/ SaveWaitMode
    BY <2>1, <2>2, NoNvFault DEF hi_upg_stop, StopErase, SaveWaitMode, UpgStop, persistent, app
  <2>3. CASE StopBegin \/ (\E p \in Packet : hi_upg_transmit(p))
    <3>1. cont \in {"idle", "tx_start"}
      BY DEF UpgInv, CoreInv, UpgTypeOK
    <3>. QED
      BY <2>1, <2>3, <3>1 DEF StopBegin, hi_upg_transmit, Return
  <2>4. CASE StopSave
    BY <1>0, <2>4, NoNvFault DEF StopSave, SaveCfg, Cfg, Upgrading
  <2>5. CASE ClearUpgMode
    <3>1. nv'.mode = "UPGRADE" => nv.mode = "UPGRADE"
      BY <1>0, <2>5, NoNvFault DEF ClearUpgMode, SaveCfg, Cfg
    <3>. QED
      BY <2>1, <2>5, <3>1 DEF ClearUpgMode, UpgStop
  <2>6. CASE StartUpgrade
    BY <2>6 DEF StartUpgrade, persistent, Upgrading, CallPC
  <2>7. CASE AlreadyStarted
    <3>1. ctx.cache_size > 0
      BY <2>7 DEF AlreadyStarted, UpgInv, SessionInv, StopPC
    <3>. QED
      BY <2>1, <2>7, <3>1 DEF AlreadyStarted, persistent, app
  <2>8. CASE EraseCache
    <3>1. ~ctx.is_upg_process
      BY <2>8 DEF EraseCache, UpgInv, SessionInv
    <3>. QED
      BY <2>8, <3>1 DEF EraseCache, Upgrading, CallPC
  <2>9. CASE WriteCache
    <3>1. ctx'.is_upg_process = ctx.is_upg_process /\ pc' \in {"idle", "stop"}
      BY <1>0, <2>9 DEF WriteCache, Return, UpgStop, Ctx
    <3>. QED
      BY <2>1, <2>9, <3>1 DEF WriteCache
  <2>10. CASE hi_upg_transmit_finish
    <3>1. ctx'.is_upg_process /\ pc' \in {"idle", "stop"}
      BY <1>0, <2>10 DEF hi_upg_transmit_finish, UpgStop, Ctx
    <3>. QED
      BY <3>1 DEF Upgrading, InitPC, CallPC, BootPC
  <2>11. CASE hi_upg_finish \/ ClearAndReboot
    BY <2>11, NoNvFault DEF hi_upg_finish, ClearAndReboot, Reboot, Upgrading, InitPC, CallPC
  <2>12. CASE hi_upg_transmit_finish_save_cache
    <3>1. nv'.mode = "UPGRADE" => nv.mode = "UPGRADE"
      BY <1>0, <2>12, NoNvFault DEF hi_upg_transmit_finish_save_cache, SaveCfg, Cfg
    <3>. QED
      BY <2>1, <2>12, <3>1 DEF hi_upg_transmit_finish_save_cache, UpgStop
  <2>13. CASE hi_upg_finish_with_cache
    <3>1. pc' \in {"clear_wait", "stop"} /\ (pc' = "clear_wait" \/ nv'.mode # "UPGRADE")
      BY <2>13, NoNvFault DEF hi_upg_finish_with_cache, UpgStop
    <3>. QED
      BY <3>1 DEF Upgrading, InitPC, BootPC
  <2>14. CASE hi_upg_get_content
    BY <2>14 DEF hi_upg_get_content, persistent, Upgrading
  <2>. QED
    BY <1>5, <2>2, <2>3, <2>4, <2>5, <2>6, <2>7, <2>8, <2>9, <2>10, <2>11, <2>12, <2>13,
       <2>14, CallActions
<1>. QED
  BY <1>1, <1>2, <1>3, <1>4, <1>5 DEF UpgNext, Step

-----------------------------------------------------------------------------
(* What boot_upg_kernel_process unpacks was approved.  A head at addr_write *)
(* is the approved file's wherever the boot loader might go there: in mode *)
(* UPGRADE, when area A holds no kernel, or when it is on its way.         *)
HeadApproved ==
  \A j \in KernelImages :
    nv.addr_write \in Addr /\ flash[nv.addr_write] = Part("file", j, 1) => approved = j

ApprovedInv ==
  /\ nv.mode = "UPGRADE" \/ (pc \in BootPC /\ ~KernelValid) \/ OnItsWay => HeadApproved
  /\ pc \in {"erase", "copy", "recheck"} => image = approved

LEMMA ApprovedKept ==
  ASSUME NoNewHead, HeadApproved, nv'.addr_write = nv.addr_write, UNCHANGED approved
  PROVE  HeadApproved'
<1>. SUFFICES ASSUME NEW j \in KernelImages, nv.addr_write \in Addr,
                     flash'[nv.addr_write] = Part("file", j, 1)
              PROVE  approved = j
  BY DEF HeadApproved
<1>1. j \in Images
  BY DEF KernelImages
<1>. QED
  BY <1>1 DEF NoNewHead, HeadApproved

LEMMA ApprovedBootStep ==
  ASSUME UpgInv, ApprovedInv, "nv" \notin Faults, BootStep, UNCHANGED <<app, history>>
  PROVE  ApprovedInv'
<1>. USE DEF history
<1>0. /\ nv \in Cfg /\ pc \in BootPC /\ nv'.addr_write = nv.addr_write
      /\ nv'.mode = "UPGRADE" => nv.mode = "UPGRADE"
      /\ pc \in BootPC \ {"reset"} => cfg.addr_write = nv.addr_write
      /\ pc \in {"head", "process"} => verify_addr \in {AddrStart, nv.addr_write}
  BY StepFrom, StartNv DEF UpgInv, CoreInv, UpgTypeOK, BootCore
<1>1. NoNewHead
  <2>1. UpgNext /\ ~WriteCache
    BY <1>0 DEF UpgNext, Step, WriteCache, BootPC
  <2>. QED
    BY <2>1, HeadsKept
<1>2. ASSUME \/ nv.mode = "UPGRADE" \/ (pc \in BootPC /\ ~KernelValid) \/ OnItsWay
             \/ ~(nv'.mode = "UPGRADE" \/ (pc' \in BootPC /\ ~KernelValid') \/ OnItsWay'),
             pc' \in {"erase", "copy", "recheck"} => image' = approved
      PROVE  ApprovedInv'
  BY <1>0, <1>1, <1>2, ApprovedKept DEF ApprovedInv
<1>3. CASE execute_upg_boot
  <2>1. pc' = "head" /\ (verify_addr' # AddrStart => nv.mode = "UPGRADE")
    BY <1>3 DEF execute_upg_boot, boot_upg_init_verify_addr, change_area
  <2>2. KernelValid' = KernelValid
    BY <1>3 DEF execute_upg_boot, KernelValid, KernelAt
  <2>. QED
    BY <1>0, <1>2, <2>1, <2>2 DEF OnItsWay, BootPC, AddrStart
<1>4. CASE boot_head
  <2>1. pc = "head" /\ pc' \in {"process", "reset"}
    BY <1>4 DEF boot_head, Restart
  <2>2. KernelValid' = KernelValid
    BY <1>4 DEF boot_head, KernelValid, KernelAt
  <2>3. pc' = "process" /\ verify_addr' # AddrStart => verify_addr # AddrStart \/ ~KernelValid
    BY <1>0, <1>4 DEF boot_head, boot, change_area, CheckFile
  <2>. QED
    BY <1>0, <1>2, <2>1, <2>2, <2>3 DEF OnItsWay, AddrStart
<1>5. CASE boot_upg_kernel_process
  <2>1. pc = "process" /\ UNCHANGED <<flash, nv>> /\ KernelValid' = KernelValid
    BY <1>5 DEF boot_upg_kernel_process, persistent, KernelValid, KernelAt
  <2>2. CASE pc' \in {"init", "reset"}
    BY <1>0, <1>2, <2>1, <2>2 DEF OnItsWay, BootPC
  <2>3. CASE pc' \notin {"init", "reset"}
    <3>1. PICK i \in KernelImages : /\ FileAt(i, cfg.addr_write) /\ verify_addr = cfg.addr_write
                                    /\ pc' = "erase" /\ image' = i
      BY <1>5, <2>3 DEF boot_upg_kernel_process, boot_kernel, Restart
    <3>2. i \in Images /\ nv.addr_write = cfg.addr_write /\ nv.addr_write \in Nat /\ HeadAtHome
      BY <1>0, <2>1, Sizes DEF KernelImages, BootPC, Cfg, UpgInv
    <3>3. nv.addr_write = WriteAddr(i) /\ nv.addr_write \in Addr
      BY <3>1, <3>2, FileHome
    <3>4. OnItsWay
      <4>1. verify_addr # AddrStart
        BY <3>1, <3>2, <3>3, HomeFits, Sizes DEF AddrStart
      <4>. QED
        BY <2>1, <4>1 DEF OnItsWay
    <3>5. flash[nv.addr_write] = Part("file", i, 1)
      <4>1. 1 \in 1..FileLen[i] /\ nv.addr_write + 1 - 1 = nv.addr_write
        BY <3>2, Sizes
      <4>. QED
        BY <3>1, <3>2, <4>1 DEF FileAt
    <3>6. approved = i
      BY <3>3, <3>4, <3>5 DEF ApprovedInv, HeadApproved
    <3>. QED
      BY <1>2, <3>1, <3>4, <3>6
  <2>. QED
    BY <2>2, <2>3
<1>6. CASE EraseTarget \/ Decompress \/ Recheck
  <2>1. /\ pc \in {"erase", "copy", "recheck"}
        /\ pc' \in {"erase", "copy", "recheck"} => UNCHANGED image
    BY <1>6 DEF EraseTarget, Decompress, Recheck, boot_kernel, Restart
  <2>. QED
    BY <1>2, <2>1 DEF ApprovedInv, OnItsWay
<1>. QED
  BY <1>3, <1>4, <1>5, <1>6 DEF BootStep

(* While a kernel runs, only the mode matters: area A stays valid.         *)
LEMMA ApprovedAppStep ==
  ASSUME CoreInv, pc \in AppPC, hi_upg_init \/ CallStep \/ PowerCut,
         pc' \in AppPC \cup {"reset"}, nv'.mode = "UPGRADE" => HeadApproved'
  PROVE  ApprovedInv'
<1>1. KernelValid'
  <2>1. PICK i \in KernelImages : KernelAt(i)
    BY DEF CoreInv, KernelInv
  <2>2. KernelAt(i)'
    BY <2>1, RunningKept
  <2>. QED
    BY <2>2 DEF KernelValid
<1>2. pc' \notin {"head", "process", "erase", "copy", "recheck"}
  BY DEF AppPC, InitPC, CallPC
<1>. QED
  BY <1>1, <1>2 DEF ApprovedInv, OnItsWay

(* A call that sets mode UPGRADE has verified the file it approves.        *)
LEMMA AcceptApproves ==
  ASSUME UpgInv, KernelFiles, ApprovedInv, KernelFiles', BootFiles = {}, Accept, UNCHANGED flash,
         nv'.mode = "UPGRADE", nv' # nv => VerifyFile(nv'.addr_write), nv'.addr_write \in Nat
  PROVE  HeadApproved'
<1>1. CASE nv' = nv
  <2>1. HeadApproved /\ approved' = approved
    BY <1>1 DEF ApprovedInv, Accept
  <2>. QED
    BY <1>1, <2>1 DEF HeadApproved
<1>2. CASE nv' # nv
  <2>1. approved' = FileIn(KernelImages, nv'.addr_write) /\ Images = KernelImages
    BY <1>2 DEF Accept, KernelFiles, KernelImages
  <2>2. PICK i \in KernelImages : FileAt(i, nv'.addr_write)
    BY <1>2, <2>1 DEF VerifyFile
  <2>3. /\ approved' \in KernelImages /\ FileAt(approved', nv'.addr_write)
    <3>1. approved' = CHOOSE x \in KernelImages : FileAt(x, nv'.addr_write)
      BY <2>1, <2>2 DEF FileIn
    <3>. QED
      BY <2>2, <3>1
  <2>4. PICK a \in KernelImages : a = approved' /\ FileAt(a, nv'.addr_write)
    BY <2>3
  <2>5. flash[nv'.addr_write] = Part("file", a, 1)
    <3>1. 1 \in 1..FileLen[a] /\ nv'.addr_write + 1 - 1 = nv'.addr_write
      BY <2>1, Sizes
    <3>. QED
      BY <2>4, <3>1 DEF FileAt
  <2>6. \A j \in KernelImages : flash[nv'.addr_write] = Part("file", j, 1) => a = j
    BY <2>1, <2>5, NoHead
  <2>. QED
    BY <2>4, <2>6 DEF HeadApproved
<1>. QED
  BY <1>1, <1>2

LEMMA ApprovedCallStep ==
  ASSUME UpgInv, KernelFiles, Upgrading, ApprovedInv, KernelFiles', "nv" \notin Faults,
         BootFiles = {}, CallStep, UNCHANGED boot
  PROVE  ApprovedInv'
<1>. USE DEF history
<1>0. /\ ctx \in Ctx /\ nv \in Cfg /\ waitNv \in WaitMode
  BY DEF UpgInv, CoreInv, UpgTypeOK
<1>1. pc \in {"idle"} \cup CallPC /\ pc \in AppPC /\ pc' \in AppPC \cup {"reset"}
  BY CallFrom DEF UpgInv, CoreInv, AppPC
<1>3. ASSUME nv'.mode = "UPGRADE" => HeadApproved' PROVE ApprovedInv'
  BY <1>1, <1>3, ApprovedAppStep DEF UpgInv
<1>4. ASSUME NoNewHead, UNCHANGED approved,
             nv'.mode = "UPGRADE" => nv.mode = "UPGRADE" /\ nv'.addr_write = nv.addr_write
      PROVE  ApprovedInv'
  BY <1>3, <1>4, ApprovedKept DEF ApprovedInv
<1>5. ASSUME ~WriteCache PROVE NoNewHead
  BY <1>5, HeadsKept DEF UpgNext, Step
<1>6. CASE hi_upg_transmit_finish /\ Accept
  <2>1. nv'.mode = "UPGRADE" => (nv' # nv => VerifyFile(nv'.addr_write)) /\ nv'.addr_write \in Nat
    <3>1. CASE nv' = nv
      BY <1>0, <3>1, Sizes DEF Cfg
    <3>2. CASE nv' # nv
      <4>1. VerifyFile(ctx.file_addr) /\ ctx.file_type = "KERNEL"
        BY <1>6, <3>2, NoNvFault DEF hi_upg_transmit_finish, KernelFiles
      <4>2. nv'.addr_write = ctx.file_addr
        BY <1>0, <1>6, <3>2, <4>1, NoNvFault DEF hi_upg_transmit_finish, SaveCfg, Cfg
      <4>. QED
        BY <1>0, <4>1, <4>2, Sizes DEF Ctx
    <3>. QED
      BY <3>1, <3>2
  <2>. QED
    BY <1>3, <1>6, <2>1, AcceptApproves DEF hi_upg_transmit_finish
<1>7. CASE hi_upg_finish_with_cache /\ Accept
  <2>1. nv'.mode = "UPGRADE" => (nv' # nv => VerifyFile(nv'.addr_write)) /\ nv'.addr_write \in Nat
    <3>1. CASE nv' = nv
      BY <1>0, <3>1, Sizes DEF Cfg
    <3>2. CASE nv' # nv
      <4>1. VerifyFile(waitNv.file_addr) /\ waitNv.file_type = "KERNEL"
        BY <1>7, <3>2, NoNvFault DEF hi_upg_finish_with_cache, KernelFiles
      <4>2. nv'.addr_write = waitNv.file_addr
        BY <1>0, <1>7, <3>2, <4>1, NoNvFault DEF hi_upg_finish_with_cache, SaveCfg, Cfg
      <4>. QED
        BY <1>0, <4>1, <4>2, Sizes DEF WaitMode
    <3>. QED
      BY <3>1, <3>2
  <2>. QED
    BY <1>3, <1>7, <2>1, AcceptApproves DEF hi_upg_finish_with_cache
<1>8. CASE (\E p \in Packet : hi_upg_transmit(p)) /\ UNCHANGED approved
  BY <1>4, <1>5, <1>8 DEF hi_upg_transmit, WriteCache
<1>9. CASE (StopBegin \/ SaveWaitMode) /\ UNCHANGED approved
  BY <1>4, <1>5, <1>9 DEF StopBegin, SaveWaitMode, WriteCache
<1>10. CASE StopSave
  <2>1. nv'.mode = "NORMAL"
    BY <1>0, <1>10, NoNvFault DEF StopSave, SaveCfg, Cfg
  <2>. QED
    BY <1>3, <2>1
<1>11. CASE WriteCache /\ UNCHANGED history
  <2>1. CASE nv.mode = "UPGRADE"
    <3>1. ctx.cache_size > 0 /\ UNCHANGED nv
      BY <1>1, <1>11, <2>1 DEF WriteCache, Upgrading
    <3>2. NoNewHead
      BY <1>0, <1>11, <3>1, HeadsKept DEF UpgNext, Step
    <3>. QED
      BY <1>4, <1>11, <2>1, <3>1, <3>2
  <2>2. CASE nv.mode # "UPGRADE"
    BY <1>3, <1>11, <2>2 DEF WriteCache
  <2>. QED
    BY <2>1, <2>2
<1>12. CASE (ClearUpgMode \/ hi_upg_transmit_finish_save_cache) /\ UNCHANGED history
  <2>1. nv' = nv \/ nv'.mode # "UPGRADE"
    BY <1>0, <1>12, NoNvFault DEF ClearUpgMode, hi_upg_transmit_finish_save_cache, SaveCfg, Cfg
  <2>2. ~WriteCache
    BY <1>12 DEF ClearUpgMode, hi_upg_transmit_finish_save_cache, WriteCache
  <2>. QED
    BY <1>4, <1>5, <1>12, <2>1, <2>2
<1>13. CASE /\ hi_upg_stop \/ StopErase \/ StartUpgrade \/ AlreadyStarted \/ EraseCache
               \/ hi_upg_finish \/ ClearAndReboot \/ hi_upg_get_content
            /\ UNCHANGED history
  <2>1. UNCHANGED nv /\ ~WriteCache
    BY <1>13 DEF hi_upg_stop, StopErase, StartUpgrade, AlreadyStarted, EraseCache,
       hi_upg_finish, ClearAndReboot, hi_upg_get_content, WriteCache, persistent
  <2>. QED
    BY <1>4, <1>5, <1>13, <2>1
<1>. QED
  BY <1>6, <1>7, <1>8, <1>9, <1>10, <1>11, <1>12, <1>13 DEF CallStep

LEMMA ApprovedStep ==
  ASSUME UpgInv, KernelFiles, Upgrading, ApprovedInv, "nv" \notin Faults,
         BootFiles = {}, [UpgNext]_vars
  PROVE  ApprovedInv'
<1>. USE DEF history
<1>1. CASE UNCHANGED vars
  BY <1>1 DEF vars, persistent, boot, ApprovedInv, HeadApproved, OnItsWay, KernelValid,
     KernelAt, AddrStart
<1>2. CASE PowerCut
  <2>1. pc' = "reset" /\ UNCHANGED <<nv, approved>>
    BY <1>2 DEF PowerCut
  <2>2. NoNewHead
    BY <1>2, HeadsKept DEF UpgNext, PowerCut, WriteCache, ClearApp, Return, UpgStop
  <2>3. CASE pc \in AppPC
    BY <1>2, <2>1, <2>2, <2>3, ApprovedAppStep, ApprovedKept DEF UpgInv, ApprovedInv
  <2>4. CASE pc \in BootPC
    <3>1. CASE pc \in {"erase", "copy"}
      BY <2>1, <2>2, <3>1, ApprovedKept DEF ApprovedInv, OnItsWay
    <3>2. CASE pc \notin {"erase", "copy"}
      <4>1. UNCHANGED flash
        BY <1>2, <2>4, <3>2 DEF PowerCut, BusyBlocks, BootPC
      <4>2. KernelValid' = KernelValid
        BY <4>1 DEF KernelValid, KernelAt
      <4>. QED
        BY <2>1, <2>2, <2>4, <4>2, ApprovedKept DEF ApprovedInv, OnItsWay
    <3>. QED
      BY <3>1, <3>2
  <2>. QED
    BY <2>3, <2>4 DEF UpgInv, CoreInv, UpgTypeOK
<1>3. CASE BootStep /\ UNCHANGED <<app, history>>
  BY <1>3, ApprovedBootStep
<1>4. CASE hi_upg_init /\ UNCHANGED <<boot, history>>
  <2>1. pc \in AppPC /\ pc' \in AppPC /\ UNCHANGED flash
    BY <1>4, StepFrom DEF UpgInv, AppPC, InitPC
  <2>2. nv'.mode = "UPGRADE" => nv.mode = "UPGRADE" /\ nv'.addr_write = nv.addr_write
    BY <1>4, StartNv DEF UpgInv
  <2>3. NoNewHead
    BY <2>1 DEF NoNewHead
  <2>. QED
    BY <1>4, <2>1, <2>2, <2>3, ApprovedAppStep, ApprovedKept DEF UpgInv, ApprovedInv
<1>5. CASE CallStep /\ UNCHANGED boot
  BY <1>5, ApprovedCallStep, KernelFilesStep DEF UpgInv
<1>. QED
  BY <1>1, <1>2, <1>3, <1>4, <1>5 DEF UpgNext, Step

InstallInv == UpgInv /\ KernelFiles /\ Upgrading /\ ApprovedInv

LEMMA InstallInit == UpgInit => InstallInv
<1>. SUFFICES ASSUME UpgInit PROVE InstallInv
  OBVIOUS
<1>1. KernelFiles /\ Upgrading
  BY DEF UpgInit, KernelFiles, Upgrading, FactoryCfg, NoWait, ClearedCtx
<1>2. ApprovedInv
  BY FactoryKernel DEF UpgInit, FactoryCfg, ApprovedInv, OnItsWay, KernelValid
<1>. QED
  BY <1>1, <1>2, UpgInitInv DEF InstallInv

LEMMA InstallNext ==
  ASSUME InstallInv, "nv" \notin Faults, BootFiles = {}, [UpgNext]_vars
  PROVE  InstallInv'
BY UpgNextInv, KernelFilesStep, UpgradingStep, ApprovedStep DEF InstallInv, UpgInv

(* On a device that is sent kernels only, whose NV can be written but      *)
(* whose flash may fail: the boot loader unpacks into area A nothing but   *)
(* the file the application had last accepted for installation             *)
(* (OnlyApprovedInstalled).                                                *)
THEOREM ApprovedIsInstalled ==
  ASSUME "nv" \notin Faults, BootFiles = {}
  PROVE  UpgSpec => []OnlyApprovedInstalled
<1>1. UpgInit => InstallInv
  BY InstallInit
<1>2. InstallInv /\ [UpgNext]_vars => InstallInv'
  BY InstallNext
<1>3. InstallInv => OnlyApprovedInstalled
  BY DEF InstallInv, ApprovedInv, OnlyApprovedInstalled
<1>. QED
  BY <1>1, <1>2, <1>3, PTL DEF UpgSpec

-----------------------------------------------------------------------------
(* What every start ends in (KernelToRun), stated by operators so that it  *)
(* can be cited of the next state, too.                                    *)
StartsInA == \A j \in KernelImages : KernelAt(j) => KernelToRun = j

StartsUnpacking ==
  nv.addr_write \in Nat /\ ~KernelValid =>
    \A j \in KernelImages : FileAt(j, nv.addr_write) => KernelToRun = j

LEMMA KernelInA == StartsInA
<1>. SUFFICES \A j \in KernelImages : KernelAt(j) => KernelToRun = j
  BY DEF StartsInA
<1>. TAKE j \in KernelImages
<1>. HAVE KernelAt(j)
<1>1. KernelToRun = CHOOSE i \in KernelImages : KernelAt(i)
  BY DEF KernelToRun, KernelValid
<1>2. PICK i \in KernelImages : i = KernelToRun /\ KernelAt(i)
  BY <1>1
<1>. QED
  BY <1>2, KernelUnique

LEMMA FileToUnpack == StartsUnpacking
<1>. USE DEF StartsUnpacking
<1>. HAVE nv.addr_write \in Nat /\ ~KernelValid
<1>. TAKE j \in KernelImages
<1>. HAVE FileAt(j, nv.addr_write)
<1>1. KernelToRun = CHOOSE i \in KernelImages : FileAt(i, nv.addr_write)
  BY DEF KernelToRun, FileIn
<1>2. PICK i \in KernelImages : i = KernelToRun /\ FileAt(i, nv.addr_write)
  BY <1>1
<1>3. ASSUME NEW k \in KernelImages, FileAt(k, nv.addr_write)
      PROVE  flash[nv.addr_write] = Part("file", k, 1)
  <2>1. 1 \in 1..FileLen[k] /\ nv.addr_write + 1 - 1 = nv.addr_write
    BY Sizes
  <2>. QED
    BY <1>3, <2>1 DEF FileAt
<1>4. Part("file", i, 1) = Part("file", j, 1)
  BY <1>2, <1>3
<1>. QED
  BY <1>2, <1>4, PartsDiffer, Sizes

(* While a kernel runs the device keeps it.                                *)
LEMMA RunningIsKept ==
  ASSUME CoreInv, pc \in AppPC, hi_upg_init \/ CallStep \/ PowerCut
  PROVE  KernelToRun' = KernelToRun
<1>1. PICK i \in KernelImages : KernelAt(i)
  BY DEF CoreInv, KernelInv
<1>2. KernelAt(i)'
  BY <1>1, RunningKept
<1>3. StartsInA'
  BY KernelInA, PTL
<1>. QED
  BY <1>1, <1>2, <1>3, KernelInA DEF StartsInA

(* Whatever of area A is erased or written, the device keeps its kernel or *)
(* has the one that is being unpacked.                                     *)
LEMMA UnpackReplaces ==
  ASSUME UpgInv, BootStep \/ PowerCut, pc \in {"erase", "copy"}
  PROVE  /\ image \in KernelImages \ BadInner
         /\ KernelToRun' \in {KernelToRun, image}
<1>1. /\ image \in KernelImages \ BadInner /\ image \in Images
      /\ pos \in 1..KernelLen[image] /\ KernelLen[image] \in Nat
      /\ FileAt(image, nv.addr_write) /\ flash \in [Addr -> Content]
  BY UnpackedFile DEF UpgInv, CoreInv, UpgTypeOK
<1>2. PICK i \in KernelImages \ BadInner : i = image /\ FileAt(i, nv.addr_write)'
  BY FileKept
<1>3. \/ UNCHANGED flash
      \/ \E d \in {Erased, Junk, Part("kernel", i, pos)} : flash' = [flash EXCEPT ![pos] = d]
  <2>1. CASE EraseTarget
    BY <2>1 DEF EraseTarget
  <2>2. CASE Decompress
    <3>1. CASE \E data \in {flash[pos], Junk} : flash' = [flash EXCEPT ![pos] = data]
      BY <1>1, <3>1
    <3>. QED
      BY <1>2, <2>2, <3>1 DEF Decompress, Written
  <2>3. CASE PowerCut
    BY <2>3 DEF PowerCut, BusyBlocks
  <2>. QED
    BY <2>1, <2>2, <2>3 DEF BootStep, execute_upg_boot, boot_head, boot_upg_kernel_process,
       Recheck
<1>4. ASSUME NEW j \in KernelImages, KernelAt(j)', j # i
      PROVE  KernelAt(j)
  <2>1. ASSUME NEW k \in 1..KernelLen[j] PROVE flash[k] = Part("kernel", j, k)
    <3>1. flash'[k] = Part("kernel", j, k) /\ k \in Nat \ {0} /\ k \in Addr
      <4>1. KernelLen[j] \in Nat /\ KernelLen[j] <= Blocks
        BY KernelFits
      <4>. QED
        BY <1>4, <2>1, <4>1, Sizes DEF KernelAt, Addr
    <3>2. flash'[k] \notin {Erased, Junk, Part("kernel", i, pos)}
      BY <1>2, <1>4, <3>1, PartsDiffer, Sizes
    <3>. QED
      BY <1>1, <1>3, <3>1, <3>2
  <2>. QED
    BY <2>1 DEF KernelAt
<1>5. StartsInA'
  BY KernelInA, PTL
<1>6. CASE KernelValid'
  <2>1. PICK j \in KernelImages : KernelAt(j)'
    BY <1>6 DEF KernelValid
  <2>2. KernelToRun' = j
    BY <1>5, <2>1 DEF StartsInA
  <2>3. CASE j = i
    BY <1>1, <1>2, <2>2, <2>3
  <2>4. CASE j # i
    BY <1>1, <1>4, <2>1, <2>2, <2>4, KernelInA DEF StartsInA
  <2>. QED
    BY <2>3, <2>4
<1>7. CASE ~KernelValid'
  <2>1. StartsUnpacking'
    BY FileToUnpack, PTL
  <2>2. nv'.addr_write \in Nat
    BY <1>2, Sizes DEF FileAt, Addr
  <2>. QED
    BY <1>1, <1>2, <1>7, <2>1, <2>2 DEF StartsUnpacking
<1>. QED
  BY <1>1, <1>6, <1>7

LEMMA ReplaceStep ==
  ASSUME UpgInv, [UpgNext]_vars
  PROVE  \/ KernelToRun' = KernelToRun
         \/ /\ pc \in {"erase", "copy"} /\ (BootStep \/ PowerCut)
            /\ pc' \notin AppPC /\ image \in KernelImages \ BadInner /\ KernelToRun' = image
<1>0. /\ pc \in BootPC \/ pc \in AppPC
      /\ BootStep => pc \in BootPC
      /\ hi_upg_init \/ CallStep => pc \in AppPC
  BY StepFrom, CallFrom DEF UpgInv, CoreInv, AppPC
<1>1. ASSUME UNCHANGED flash, nv'.addr_write = nv.addr_write PROVE KernelToRun' = KernelToRun
  BY <1>1 DEF KernelToRun, KernelValid, KernelAt, FileIn, FileAt
<1>2. CASE UNCHANGED vars
  BY <1>1, <1>2 DEF vars, persistent
<1>3. CASE pc \in AppPC /\ (hi_upg_init \/ CallStep \/ PowerCut)
  BY <1>3, RunningIsKept DEF UpgInv
<1>4. CASE pc \in {"erase", "copy"} /\ (BootStep \/ PowerCut)
  <2>1. pc' \notin AppPC
    BY <1>4 DEF BootStep, execute_upg_boot, boot_head, boot_upg_kernel_process,
       EraseTarget, Decompress, Recheck, Restart, PowerCut, AppPC, InitPC, CallPC
  <2>. QED
    BY <1>4, <2>1, UnpackReplaces
<1>5. CASE pc \in BootPC \ {"erase", "copy"} /\ (BootStep \/ PowerCut)
  <2>1. UNCHANGED flash /\ nv'.addr_write = nv.addr_write
    BY <1>5, StartNv DEF BootStep, execute_upg_boot, boot_head, boot_upg_kernel_process,
       EraseTarget, Decompress, Recheck, PowerCut, BusyBlocks, UpgInv, persistent, BootPC
  <2>. QED
    BY <1>1, <2>1
<1>. QED
  BY <1>0, <1>2, <1>3, <1>4, <1>5 DEF UpgNext, Step

(* As long as NV can be written, with files of both types and whatever     *)
(* flash does: what every start of the device ends in changes only while   *)
(* no kernel runs, and then at once to a kernel whose file unpacks.  The   *)
(* erase and the copy of boot_upg_kernel_process are one step to whoever   *)
(* starts the device, wherever the power is cut.                           *)
THEOREM KernelReplacedAtOnce ==
  ASSUME "nv" \notin Faults
  PROVE  UpgSpec => [][/\ pc \notin AppPC /\ pc' \notin AppPC
                       /\ KernelToRun' \in KernelImages \ BadInner]_KernelToRun
<1>1. UpgInv /\ [UpgNext]_vars =>
        [/\ pc \notin AppPC /\ pc' \notin AppPC
         /\ KernelToRun' \in KernelImages \ BadInner]_KernelToRun
  <2>1. {"erase", "copy"} \cap AppPC = {}
    BY DEF AppPC, InitPC, CallPC
  <2>. QED
    BY <2>1, ReplaceStep
<1>. QED
  BY <1>1, UpgInvInvariant, PTL DEF UpgSpec

-----------------------------------------------------------------------------
(* The whole is an AtomicUpgrade: files are accepted and withdrawn while a *)
(* kernel runs.                                                            *)
LEMMA AcceptedWhileRunning ==
  ASSUME InstallInv, CallStep
  PROVE  \/ UNCHANGED approved
         \/ pc' \in AppPC /\ approved' \in KernelImages \cup {None}
<1>1. ASSUME NEW n PROVE FileIn(KernelImages, n) \in KernelImages \cup {None}
  BY DEF FileIn
<1>2. cont \in {"idle", "tx_start"}
  BY DEF InstallInv, UpgInv, CoreInv, UpgTypeOK
<1>3. CASE (hi_upg_transmit_finish \/ hi_upg_finish_with_cache) /\ Accept
  <2>1. pc' \in AppPC
    BY <1>3 DEF hi_upg_transmit_finish, hi_upg_finish_with_cache, UpgStop, Return, AppPC, CallPC
  <2>2. approved' = approved \/ approved' = FileIn(KernelImages, nv'.addr_write)
    BY <1>3 DEF Accept
  <2>. QED
    BY <1>1, <2>1, <2>2
<1>4. CASE StopSave /\ approved' = (IF nv'.mode = "NORMAL" THEN None ELSE approved)
  BY <1>2, <1>4 DEF StopSave, Return, AppPC, CallPC
<1>. QED
  BY <1>3, <1>4 DEF CallStep, history

LEMMA DeviceStep ==
  ASSUME InstallInv, [UpgNext]_vars
  PROVE  [Device!DeviceNext]_(Device!deviceVars)
<1>. USE DEF Device!deviceVars
<1>0. /\ pc \in BootPC \/ pc \in AppPC
      /\ BootPC \cap AppPC = {} /\ {"erase", "copy", "recheck"} \subseteq BootPC
      /\ BootStep => pc \in BootPC
      /\ hi_upg_init \/ CallStep => pc \in AppPC
  BY StepFrom, CallFrom DEF InstallInv, UpgInv, CoreInv, AppPC, BootPC, InitPC, CallPC
<1>1. \/ KernelToRun' = KernelToRun
      \/ /\ pc \in {"erase", "copy"} /\ (BootStep \/ PowerCut)
         /\ pc' \notin AppPC /\ image \in KernelImages \ BadInner /\ KernelToRun' = image
  BY ReplaceStep DEF InstallInv
<1>2. CASE UNCHANGED vars
  <2>1. KernelToRun' = KernelToRun
    BY <1>2 DEF vars, persistent, KernelToRun, KernelValid, KernelAt, FileIn, FileAt
  <2>. QED
    BY <1>2, <2>1 DEF vars, history
<1>3. CASE pc \in AppPC /\ UpgNext
  <2>1. KernelToRun' = KernelToRun
    BY <1>0, <1>1, <1>3
  <2>2. \/ UNCHANGED approved
        \/ pc' \in AppPC /\ approved' \in KernelImages \cup {None}
    BY <1>0, <1>3, AcceptedWhileRunning DEF UpgNext, Step, PowerCut, history
  <2>. QED
    BY <1>3, <2>1, <2>2 DEF Device!DeviceNext, Device!Accept, Device!Withdraw, Device!Stop
<1>4. CASE pc \in BootPC /\ UpgNext
  <2>1. UNCHANGED approved
    BY <1>0, <1>4 DEF UpgNext, Step, PowerCut, history
  <2>2. pc \in {"erase", "copy"} => image = approved
    BY DEF InstallInv, ApprovedInv
  <2>. QED
    BY <1>0, <1>1, <1>4, <2>1, <2>2 DEF Device!DeviceNext, Device!Install, Device!Start
<1>. QED
  BY <1>0, <1>2, <1>3, <1>4

(* On a device that is sent kernels only and whose NV can be written,      *)
(* execute_upg_boot and the hi_upg_* calls together implement              *)
(* AtomicUpgrade: whatever flash does and wherever the power is cut, the   *)
(* kernel is replaced at once, while none runs, by the file accepted last. *)
THEOREM ImplementsAtomicUpgrade ==
  ASSUME "nv" \notin Faults, BootFiles = {}
  PROVE  UpgSpec => InstalledAtomically
<1>1. UpgInit => Device!DeviceInit
  <2>. SUFFICES ASSUME UpgInit PROVE Device!DeviceInit
    OBVIOUS
  <2>1. Factory \in KernelImages /\ KernelAt(Factory)
    BY FactoryKernel
  <2>2. KernelToRun = Factory
    BY <2>1, KernelInA DEF StartsInA
  <2>. QED
    BY <2>2 DEF UpgInit, Device!DeviceInit, AppPC, InitPC, CallPC
<1>2. UpgInit => InstallInv
  BY InstallInit
<1>3. InstallInv /\ [UpgNext]_vars => InstallInv'
  BY InstallNext
<1>4. InstallInv /\ [UpgNext]_vars => [Device!DeviceNext]_(Device!deviceVars)
  BY DeviceStep
<1>. QED
  BY <1>1, <1>2, <1>3, <1>4, PTL DEF UpgSpec, InstalledAtomically, Device!DeviceSpec

-----------------------------------------------------------------------------
(* The comment on upg_stop holds as long as NV can be written: when it     *)
(* returns, no upgrade is in process (StopRecovers; the run upgrade_stop   *)
(* shows that it is wrong otherwise).                                      *)
THEOREM StopRecoversWithNv ==
  ASSUME "nv" \notin Faults
  PROVE  UpgSpec => StopRecovers
<1>1. CoreInv /\ [UpgNext]_vars =>
        [(pc \in {"stop", "stop_erase", "stop_save"} /\ pc' \in {"idle", "tx_start"})
           => ~ctx'.is_upg_process]_vars
  <2>. SUFFICES ASSUME CoreInv, UpgNext,
                       pc \in {"stop", "stop_erase", "stop_save"}, pc' \in {"idle", "tx_start"}
                PROVE  ~ctx'.is_upg_process
    OBVIOUS
  <2>1. CallStep
    BY StepFrom DEF UpgNext, Step, PowerCut, BootPC, InitPC
  <2>2. CASE StopBegin
    BY <2>2 DEF StopBegin
  <2>3. CASE StopSave
    BY <2>3, NoNvFault DEF StopSave, ClearedCtx
  <2>. QED
    BY <2>1, <2>2, <2>3, CallActions DEF hi_upg_stop, StopErase, hi_upg_transmit, ClearUpgMode,
       StartUpgrade, AlreadyStarted, EraseCache, WriteCache, hi_upg_transmit_finish,
       hi_upg_finish, hi_upg_transmit_finish_save_cache, SaveWaitMode, hi_upg_finish_with_cache,
       ClearAndReboot, hi_upg_get_content
<1>. QED
  BY <1>1, CoreInvariant, PTL DEF UpgSpec, StopRecovers

-----------------------------------------------------------------------------
(* UpgradeLive only adds what is to be expected of the power supply.       *)
LEMMA LiveIsUpgrade == UpgFairSpec => UpgSpec
<1>1. LiveInit => UpgInit
  BY DEF LiveInit
<1>2. [LiveNext]_<<vars, steady>> => [UpgNext]_vars
  BY DEF LiveNext, PowerSettles, UpgNext
<1>. QED
  BY <1>1, <1>2, PTL DEF UpgFairSpec, UpgSpec

(* So under a power supply that becomes steady the device that is sent     *)
(* kernels only and can write its NV installs atomically, and nothing but  *)
(* what was accepted last: boot_upg_kernel_process and the hi_upg_* calls. *)
THEOREM LiveInstallsAtomically ==
  ASSUME "nv" \notin Faults, BootFiles = {}
  PROVE  UpgFairSpec => InstalledAtomically /\ []OnlyApprovedInstalled
BY LiveIsUpgrade, ImplementsAtomicUpgrade, ApprovedIsInstalled, PTL
=============================================================================
