----------------------------- MODULE UpgStorage -----------------------------
(***************************************************************************)
(* What survives a power cut in the upgrade subsystem: the flash areas and *)
(* two factory NV items.  The product is built with                        *)
(* CONFIG_COMPRESSION_OTA_SUPPORT and without flash encryption: the kernel *)
(* always runs from the start of area A, and a compressed upgrade file is  *)
(* kept at the end of area B.  Addresses count erase blocks (4 KB); 1 is   *)
(* the start of area A, Blocks the end of area B, and the area that caches *)
(* a FlashBoot file is numbered after it.                                  *)
(***************************************************************************)
EXTENDS Naturals

CONSTANTS Images,      \* upgrade files
          BootFiles,   \* those of type HI_UPG_FILE_BOOT; the rest hold a kernel
          Factory,     \* the kernel the device is delivered with
          BadInner,    \* files whose content fails boot_upg_lzma_verify
          KernelLen,   \* KernelLen[i]: blocks of the uncompressed kernel
          FileLen,     \* FileLen[i]: blocks of the file
          Blocks,      \* blocks of areas A and B together
          BackBlocks,  \* blocks of the area HI_FLASH_PARTITON_BOOT_BACK
          MaxCnt,      \* UPG_MAX_BACKUP_CNT
          Faults,      \* what may fail besides the power supply
          None, Erased, Junk

KernelImages == Images \ BootFiles
Addr == 1..(Blocks + BackBlocks)
AddrStart == 1

(* "nv": a write of an NV item fails; "flash": an erase or a write fails.  *)
Fault == {"nv", "flash"}

ASSUME ImagesAssumption ==
  /\ BootFiles \subseteq Images
  /\ Factory \in KernelImages
  /\ BadInner \subseteq KernelImages \ {Factory}
  /\ None \notin Images /\ Erased # Junk
  /\ {Erased, Junk} \cap
       [kind : {"kernel", "file"}, image : Images, part : Nat \ {0}] = {}
ASSUME LengthsAssumption ==
  /\ Blocks \in Nat \ {0} /\ BackBlocks \in Nat \ {0} /\ MaxCnt \in Nat \ {0}
  /\ FileLen \in [Images -> Nat \ {0}]
  /\ KernelLen \in [KernelImages -> Nat \ {0}]
(* build/scripts/make_upg_file.py refuses to pack any other file.          *)
ASSUME FitAssumption ==
  \A i \in KernelImages : KernelLen[i] + FileLen[i] <= Blocks
ASSUME UpgFaultsAssumption == Faults \subseteq Fault

VARIABLES
  flash,    \* flash[a]: what block a holds
  nv,       \* HI_NV_FTM_STARTUP_CFG_ID
  waitNv,   \* HI_NV_FTM_UPG_WAIT_MODE
  normalNv, \* the kernel the user NV area comes from, None if damaged
  pc        \* where the processor is, in the boot loader or in the kernel

persistent == <<flash, nv, waitNv, normalNv>>

-----------------------------------------------------------------------------
(* Flash contents.  A block is erased, part of an uncompressed kernel, part *)
(* of a file, or Junk: half-written or received wrong.                     *)
Part(kind, i, k) == [kind |-> kind, image |-> i, part |-> k]
Content ==
  {Erased, Junk} \cup [kind : {"kernel", "file"}, image : Images, part : Nat \ {0}]

(* hi_flash_write does not erase: it stores data in an erased block only.  *)
(* Over any other data it fails (limit_0_to_1) or leaves Junk.             *)
Written(a, data) == IF flash[a] = Erased THEN data ELSE Junk

KernelAt(i) == \A k \in 1..KernelLen[i] : flash[k] = Part("kernel", i, k)
KernelValid == \E i \in KernelImages : KernelAt(i)

FileAt(i, a) ==
  /\ a \in Addr
  /\ \A k \in 1..FileLen[i] :
       a + k - 1 \in Addr /\ flash[a + k - 1] = Part("file", i, k)

(* upg_get_backup_write_addr: a file ends where its area ends.             *)
WriteAddr(i) ==
  (IF i \in BootFiles THEN Blocks + BackBlocks ELSE Blocks) + 1 - FileLen[i]

FileType(i) == IF i \in BootFiles THEN "BOOT" ELSE "KERNEL"

-----------------------------------------------------------------------------
(* NV items.  addr_start and cnt_max never change: boot_upg_check_start_addr *)
(* and upg_check_start_addr accept area A only, and the factory value of   *)
(* cnt_max is UPG_MAX_BACKUP_CNT.                                          *)
Cfg == [mode : {"NORMAL", "UPGRADE", "UPGRADE_WAIT"},
        file_type : {"NONE", "KERNEL", "BOOT"},
        addr_write : 0..(Blocks + BackBlocks),
        reset_cnt : 0..MaxCnt,
        refresh_nv : {"NO", "REFRESH", "REFRESH_WAIT"}]

FactoryCfg == [mode |-> "NORMAL", file_type |-> "NONE", addr_write |-> 0,
               reset_cnt |-> 0, refresh_nv |-> "NO"]

WaitMode == [is_upg_process : BOOLEAN, trans_finish_flag : BOOLEAN,
             file_addr : 0..(Blocks + BackBlocks),
             file_type : {"NONE", "KERNEL", "BOOT"}]

NoWait == [is_upg_process |-> FALSE, trans_finish_flag |-> FALSE,
           file_addr |-> 0, file_type |-> "NONE"]

(* hi_factory_nv_write skips a write that changes nothing.  It stores two  *)
(* copies, so one that fails may or may not have replaced the value.       *)
SaveCfg(c) == nv' = c
SaveCfgFails(c) == "nv" \in Faults /\ c # nv /\ nv' \in {c, nv}
SaveWait(w) == waitNv' = w
SaveWaitFails(w) == "nv" \in Faults /\ w # waitNv /\ waitNv' \in {w, waitNv}
=============================================================================
