----------------------------- MODULE FlashBoot ------------------------------
(***************************************************************************)
(* The upgrade part of the boot loader, src/boot/flashboot/upg, from reset *)
(* to the jump into the kernel.  Each action makes at most one change to   *)
(* flash or NV, so a power cut may fall between any two of them.           *)
(***************************************************************************)
EXTENDS UpgStorage

VARIABLES
  cfg,          \* g_startup_cfg, the boot loader's copy of nv
  verify_addr,  \* g_upg_kernel_verify_addr
  image,        \* the file boot_upg_kernel_process is unpacking, or None
  pos           \* the block it erases or writes next

boot == <<cfg, verify_addr, image, pos>>

BootPC == {"reset", "head", "process", "erase", "copy", "recheck"}

ClearBoot ==
  /\ cfg' = FactoryCfg
  /\ verify_addr' = 0
  /\ image' = None
  /\ pos' = 0

(* global_reset and the jump to the kernel both lose the boot loader's RAM. *)
Restart == pc' = "reset" /\ ClearBoot
boot_kernel == pc' = "init" /\ ClearBoot

-----------------------------------------------------------------------------
(* boot_upg_check_file: the head and the content at addr check as a kernel, *)
(* packed or not.                                                          *)
CheckFile(addr) ==
  \/ addr = AddrStart /\ KernelValid
  \/ \E i \in KernelImages : FileAt(i, addr)

(* Mutant: the file that waits is never looked at. *)
VerifyAreaA(c) == AddrStart

boot_upg_init_verify_addr(c) ==
  IF c.mode = "UPGRADE" /\ c.file_type = "KERNEL" THEN c.addr_write ELSE AddrStart

change_area(c, addr) == IF addr = AddrStart THEN c.addr_write ELSE AddrStart

(* Mutant: the starts of an upgrade are not counted. *)
NotCounted(c) == c.reset_cnt

(* Saturates at MaxCnt: reset_cnt is only compared with 0 and cnt_max.     *)
Counted(c) == IF c.reset_cnt < MaxCnt THEN c.reset_cnt + 1 ELSE MaxCnt

(* Every reset in mode UPGRADE is counted in NV; the last one allowed gives *)
(* the upgrade up.  A failure to save is ignored.                          *)
execute_upg_boot ==
  LET upgrading == nv.mode = "UPGRADE"
      giveUp == upgrading /\ Counted(nv) = MaxCnt
      c == IF ~upgrading THEN nv
           ELSE [nv EXCEPT !.reset_cnt = Counted(nv),
                           !.mode = IF giveUp THEN "NORMAL" ELSE "UPGRADE"]
      addr == boot_upg_init_verify_addr(nv)
  IN /\ pc = "reset"
     /\ pc' = "head"
     /\ cfg' = c
     /\ verify_addr' = IF giveUp THEN change_area(nv, addr) ELSE addr
     /\ SaveCfg(c) \/ SaveCfgFails(c)
     /\ UNCHANGED <<flash, waitNv, normalNv, image, pos>>

(* If the area to start from does not check, the other one is tried.       *)
boot_head ==
  LET other == change_area(cfg, verify_addr)
      c == [cfg EXCEPT !.refresh_nv = "REFRESH"]
  IN /\ pc = "head"
     /\ \/ /\ CheckFile(verify_addr)
           /\ pc' = "process"
           /\ UNCHANGED <<nv, boot>>
        \/ /\ ~CheckFile(verify_addr) /\ CheckFile(other)
           /\ pc' = "process"
           /\ cfg' = c
           /\ verify_addr' = other
           /\ SaveCfg(c) \/ SaveCfgFails(c)
           /\ UNCHANGED <<image, pos>>
        \/ /\ ~CheckFile(verify_addr) /\ ~CheckFile(other)
           /\ Restart
           /\ UNCHANGED nv
     /\ UNCHANGED <<flash, waitNv, normalNv>>

(* boot_upg_lzma_verify, and what decompressing it again would give.       *)
Unpacks(i) == FileAt(i, cfg.addr_write) /\ i \notin BadInner

(* Mutant: area A is erased before the packed kernel is verified as a whole. *)
EraseUnverified ==
  /\ pc = "process"
  /\ \/ verify_addr # cfg.addr_write /\ boot_kernel
     \/ /\ verify_addr = cfg.addr_write
        /\ \E i \in KernelImages :
             /\ FileAt(i, cfg.addr_write)
             /\ pc' = "erase" /\ image' = i /\ pos' = 1
             /\ UNCHANGED <<cfg, verify_addr>>
  /\ UNCHANGED persistent

(* A packed kernel is verified as a whole before area A is erased.         *)
boot_upg_kernel_process ==
  /\ pc = "process"
  /\ \/ verify_addr # cfg.addr_write /\ boot_kernel
     \/ /\ verify_addr = cfg.addr_write
        /\ \E i \in KernelImages :
             /\ FileAt(i, cfg.addr_write)
             /\ \/ ~Unpacks(i) /\ Restart
                \/ /\ Unpacks(i)
                   /\ pc' = "erase" /\ image' = i /\ pos' = 1
                   /\ UNCHANGED <<cfg, verify_addr>>
  /\ UNCHANGED persistent

(* Whether hi_flash_erase succeeded is not looked at.                      *)
EraseTarget ==
  /\ pc = "erase"
  /\ \/ flash' = [flash EXCEPT ![pos] = Erased]
     \/ "flash" \in Faults /\ UNCHANGED flash
  /\ IF pos < KernelLen[image] THEN pc' = "erase" /\ pos' = pos + 1
                               ELSE pc' = "copy" /\ pos' = 1
  /\ UNCHANGED <<nv, waitNv, normalNv, cfg, verify_addr, image>>

(* boot_upg_copy_flash_2_flash, one block.                                 *)
Decompress ==
  /\ pc = "copy"
  /\ \/ /\ Unpacks(image)
        /\ flash' = [flash EXCEPT ![pos] = Written(pos, Part("kernel", image, pos))]
        /\ IF pos < KernelLen[image] THEN pc' = "copy" /\ pos' = pos + 1
                                     ELSE pc' = "recheck" /\ pos' = 0
        /\ UNCHANGED <<cfg, verify_addr, image>>
     \/ /\ ~Unpacks(image) \/ "flash" \in Faults
        /\ \E data \in {flash[pos], Junk} : flash' = [flash EXCEPT ![pos] = data]
        /\ Restart
  /\ UNCHANGED <<nv, waitNv, normalNv>>

Recheck ==
  /\ pc = "recheck"
  /\ IF CheckFile(AddrStart) THEN boot_kernel ELSE Restart
  /\ UNCHANGED persistent

BootStep ==
  \/ execute_upg_boot \/ boot_head \/ boot_upg_kernel_process
  \/ EraseTarget \/ Decompress \/ Recheck
=============================================================================
