------------------------------- MODULE UpgApi -------------------------------
(***************************************************************************)
(* The upgrade module of the running kernel, src/platform/system/upg:      *)
(* hi_upg_init and the calls by which an application receives a file and   *)
(* has it installed.  As in FlashBoot an action makes at most one change   *)
(* to flash or NV.  The calls of one application do not overlap: nothing   *)
(* but is_upg_process is locked.                                           *)
(***************************************************************************)
EXTENDS UpgStorage

CONSTANT MaxOffset   \* bound on the offset of a packet, in blocks

ASSUME MaxOffsetAssumption == MaxOffset \in Nat

VARIABLES
  ctx,      \* upg_ctx; file_len and file_type belong to common_head
  packet,   \* what hi_upg_transmit was called with
  cont,     \* where upg_stop returns to
  cursor    \* the next block upg_cache_clear erases

app == <<ctx, packet, cont, cursor>>

(* "idle" between the calls of the application.                            *)
InitPC == {"init", "mode_init", "mode_init2"}
CallPC == {"tx_mode", "tx_start", "tx_erase", "tx_write", "save_wait", "clear_wait",
           "stop", "stop_erase", "stop_save"}
AppPC == InitPC \cup {"idle"} \cup CallPC

Ctx == [is_upg_process : BOOLEAN, check_head_flag : BOOLEAN,
        transmit_finish_flag : BOOLEAN, cache_size : Nat,
        file_addr : 0..(Blocks + BackBlocks),
        file_len : Nat, file_type : {"NONE", "KERNEL", "BOOT"},
        kernel_size : Nat]

ClearedCtx == [is_upg_process |-> FALSE, check_head_flag |-> FALSE,
               transmit_finish_flag |-> FALSE, cache_size |-> 0, file_addr |-> 0,
               file_len |-> 0, file_type |-> "NONE", kernel_size |-> 0]

Packet == [image : Images, offset : 0..MaxOffset]

ClearApp ==
  /\ ctx' = ClearedCtx
  /\ packet' = None
  /\ cont' = "idle"
  /\ cursor' = 0

Return == pc' = "idle" /\ packet' = None
Reboot == pc' = "reset" /\ ClearApp
UpgStop(k) == pc' = "stop" /\ cont' = k

-----------------------------------------------------------------------------
(* hi_upg_init.                                                            *)

(* Mutant: only the mode is looked at, as if every upgrade ended at the    *)
(* first start. *)
RefreshInUpgradeOnly == nv.mode = "UPGRADE" /\ nv.file_type # "BOOT"

upg_is_refresh_nv ==
  nv.refresh_nv = "REFRESH" \/ (nv.mode = "UPGRADE" /\ nv.file_type # "BOOT")

(* upg_refresh_nv runs first: only upg_mode_init forgets the reason.  That *)
(* the refresh failed keeps nobody from going on.                          *)
upg_refresh_nv ==
  /\ pc = "init"
  /\ pc' = "mode_init"
  /\ \/ upg_is_refresh_nv /\ \E i \in KernelImages : KernelAt(i) /\ normalNv' = i
     \/ upg_is_refresh_nv /\ "flash" \in Faults /\ normalNv' \in {normalNv, None}
     \/ ~upg_is_refresh_nv /\ UNCHANGED normalNv
  /\ UNCHANGED <<flash, nv, waitNv, app>>

ForgetRefresh ==
  LET c == [nv EXCEPT !.refresh_nv = "NO"]
  IN /\ pc = "mode_init"
     /\ pc' = "mode_init2"
     /\ IF nv.mode # "UPGRADE" /\ nv.refresh_nv = "REFRESH"
        THEN SaveCfg(c) \/ SaveCfgFails(c)
        ELSE UNCHANGED nv
     /\ UNCHANGED <<flash, waitNv, normalNv, app>>

(* Mutant: the configuration is reset at every start. *)
ModeInitAlways ==
  LET c == [nv EXCEPT !.reset_cnt = 0, !.mode = "NORMAL", !.refresh_nv = "NO"]
  IN /\ pc = "mode_init2"
     /\ pc' = "idle"
     /\ SaveCfg(c) \/ SaveCfgFails(c)
     /\ \E i \in KernelImages :
          KernelAt(i) /\ ctx' = [ctx EXCEPT !.kernel_size = KernelLen[i]]
     /\ UNCHANGED <<flash, waitNv, normalNv, packet, cont, cursor>>

(* A kernel that comes this far has proved itself.                         *)
upg_mode_init ==
  LET c == [nv EXCEPT !.reset_cnt = 0, !.mode = "NORMAL", !.refresh_nv = "NO"]
  IN /\ pc = "mode_init2"
     /\ pc' = "idle"
     /\ IF nv.reset_cnt > 0 THEN SaveCfg(c) \/ SaveCfgFails(c) ELSE UNCHANGED nv
     /\ \E i \in KernelImages :
          KernelAt(i) /\ ctx' = [ctx EXCEPT !.kernel_size = KernelLen[i]]
     /\ UNCHANGED <<flash, waitNv, normalNv, packet, cont, cursor>>

hi_upg_init == upg_refresh_nv \/ ForgetRefresh \/ upg_mode_init

-----------------------------------------------------------------------------
(* upg_stop, called by every call that fails and by hi_upg_stop.           *)

(* upg_check_clear_wait_mode; a failure is only logged.                    *)
ClearWaitMode ==
  IF waitNv.trans_finish_flag \/ waitNv.is_upg_process
  THEN SaveWait(NoWait) \/ SaveWaitFails(NoWait)
  ELSE UNCHANGED waitNv

StopBegin ==
  /\ pc = "stop"
  /\ ClearWaitMode
  /\ IF ctx.is_upg_process THEN pc' = "stop_erase" /\ UNCHANGED packet
     ELSE IF cont = "idle" THEN Return ELSE pc' = cont /\ UNCHANGED packet
  /\ UNCHANGED <<flash, nv, normalNv, ctx, cont, cursor>>

(* The head of a file that waits for the boot loader is destroyed.         *)
StopErase ==
  /\ pc = "stop_erase"
  /\ pc' = "stop_save"
  /\ IF nv.mode = "UPGRADE" /\ nv.file_type = "KERNEL"
     THEN \/ flash' = [flash EXCEPT ![nv.addr_write] = Erased]
          \/ "flash" \in Faults /\ UNCHANGED flash
     ELSE UNCHANGED flash
  /\ UNCHANGED <<nv, waitNv, normalNv, app>>

(* upg_clear_ctx is not reached when the configuration cannot be saved.    *)
StopSave ==
  LET c == [nv EXCEPT !.addr_write = IF nv.file_type = "KERNEL" THEN 0 ELSE @,
                      !.mode = "NORMAL", !.file_type = "NONE", !.refresh_nv = "NO"]
  IN /\ pc = "stop_save"
     /\ \/ SaveCfg(c) /\ ctx' = [ClearedCtx EXCEPT !.kernel_size = ctx.kernel_size]
        \/ SaveCfgFails(c) /\ UNCHANGED ctx
     /\ IF cont = "idle" THEN Return ELSE pc' = cont /\ UNCHANGED packet
     /\ UNCHANGED <<flash, waitNv, normalNv, cont, cursor>>

upg_stop == StopBegin \/ StopErase \/ StopSave

hi_upg_stop ==
  /\ pc = "idle"
  /\ UpgStop("idle")
  /\ UNCHANGED <<persistent, ctx, packet, cursor>>

-----------------------------------------------------------------------------
(* hi_upg_transmit.                                                        *)

(* MaxOffset also bounds the packets of a session that upg_stop could not end. *)
hi_upg_transmit(p) ==
  /\ pc = "idle" /\ ctx.cache_size <= MaxOffset
  /\ pc' = "tx_mode"
  /\ packet' = p
  /\ ClearWaitMode
  /\ UNCHANGED <<flash, nv, normalNv, ctx, cont, cursor>>

(* upg_check_clear_upg_mode, and a packet out of order stops the upgrade.  *)
ClearUpgMode ==
  LET c == [nv EXCEPT !.mode = "NORMAL"]
  IN /\ pc = "tx_mode"
     /\ IF nv.mode = "UPGRADE_WAIT" THEN SaveCfg(c) \/ SaveCfgFails(c) ELSE UNCHANGED nv
     /\ IF packet.offset # ctx.cache_size THEN UpgStop("tx_start")
                                          ELSE pc' = "tx_start" /\ UNCHANGED cont
     /\ UNCHANGED <<flash, waitNv, normalNv, ctx, packet, cursor>>

(* Mutant: the length of area A and area B is the limit for any file. *)
MaxFileLenOfAreas(i) == IF i \in BootFiles THEN BackBlocks ELSE Blocks

(* upg_get_max_file_len: a file must not reach the running kernel.         *)
MaxFileLen(i) == IF i \in BootFiles THEN BackBlocks ELSE Blocks - ctx.kernel_size

(* upg_start checks the head before it touches flash.                      *)
StartUpgrade ==
  /\ pc = "tx_start" /\ ~ctx.is_upg_process
  /\ \/ packet.offset # 0 /\ Return /\ UNCHANGED <<ctx, cont, cursor>>
     \/ /\ packet.offset = 0
        /\ UpgStop("idle")                              \* the head is refused
        /\ UNCHANGED <<ctx, packet, cursor>>
     \/ /\ packet.offset = 0
        /\ FileLen[packet.image] <= MaxFileLen(packet.image)
        /\ ctx' = [ctx EXCEPT !.file_len = FileLen[packet.image],
                              !.file_type = FileType(packet.image), !.cache_size = 0]
        /\ pc' = "tx_erase"
        /\ cursor' = IF packet.image \in BootFiles THEN Blocks + 1 ELSE WriteAddr(packet.image)
        /\ UNCHANGED <<packet, cont>>
  /\ UNCHANGED persistent

(* Mutant: one block too many is erased. *)
LastClearedPastEnd(i) == IF i \in BootFiles THEN Blocks + BackBlocks + 1 ELSE Blocks

LastCleared(i) == IF i \in BootFiles THEN Blocks + BackBlocks ELSE Blocks

(* upg_cache_clear, one block.                                             *)
EraseCache ==
  /\ pc = "tx_erase"
  /\ \/ /\ flash' = [flash EXCEPT ![cursor] = Erased]
        /\ IF cursor < LastCleared(packet.image)
           THEN pc' = "tx_erase" /\ cursor' = cursor + 1 /\ UNCHANGED ctx
           ELSE /\ pc' = "tx_write" /\ cursor' = 0
                /\ ctx' = [ctx EXCEPT !.file_addr = WriteAddr(packet.image),
                                      !.transmit_finish_flag = FALSE, !.is_upg_process = TRUE]
        /\ UNCHANGED cont
     \/ /\ "flash" \in Faults
        /\ UpgStop("idle") /\ cursor' = 0
        /\ UNCHANGED <<flash, ctx>>
  /\ UNCHANGED <<nv, waitNv, normalNv, packet>>

AlreadyStarted ==
  /\ pc = "tx_start" /\ ctx.is_upg_process
  /\ pc' = "tx_write"
  /\ UNCHANGED <<persistent, app>>

Received == {Part("file", packet.image, packet.offset + 1), Junk}

(* upg_cache_write, then upg_check_head once the head is complete.         *)
WriteCache ==
  LET a == ctx.file_addr + packet.offset
      headOK == flash'[ctx.file_addr] \in {Part("file", i, 1) : i \in Images}
  IN /\ pc = "tx_write"
     /\ \/ /\ packet.offset < ctx.file_len
           /\ IF a \in Addr
              THEN \E data \in Received : flash' = [flash EXCEPT ![a] = Written(a, data)]
              ELSE UNCHANGED flash
           /\ ctx' = [ctx EXCEPT !.cache_size = @ + 1, !.check_head_flag = TRUE]
           /\ IF ctx.check_head_flag \/ headOK THEN Return /\ UNCHANGED cont
                                               ELSE UpgStop("idle") /\ UNCHANGED packet
        \/ /\ \/ packet.offset >= ctx.file_len \/ "flash" \in Faults
              \/ a \in Addr /\ flash[a] # Erased
           /\ UpgStop("idle")
           /\ UNCHANGED <<flash, ctx, packet>>
     /\ UNCHANGED <<nv, waitNv, normalNv, cursor>>

Transmit ==
  \/ \E p \in Packet : hi_upg_transmit(p)
  \/ ClearUpgMode \/ StartUpgrade \/ AlreadyStarted \/ EraseCache \/ WriteCache

-----------------------------------------------------------------------------
(* Completing an upgrade.                                                  *)

(* upg_verify_file: the content is complete and its signature right.       *)
(* Mutant: the head is enough. *)
VerifyHead(a) == \E i \in Images : a \in Addr /\ flash[a] = Part("file", i, 1)

VerifyFile(a) == \E i \in Images : FileAt(i, a)

(* hi_upg_transmit_finish: from here on a reset installs the file.         *)
(* upg_boot_process, which replaces the boot loader, may fail.             *)
hi_upg_transmit_finish ==
  LET kernel == ctx.file_type # "BOOT"
      c == [nv EXCEPT !.addr_write = IF kernel THEN ctx.file_addr ELSE @,
                      !.refresh_nv = IF kernel THEN "REFRESH" ELSE @,
                      !.reset_cnt = IF kernel THEN 0 ELSE @,
                      !.mode = "UPGRADE", !.file_type = ctx.file_type]
  IN /\ pc = "idle" /\ ~ctx.transmit_finish_flag /\ ctx.is_upg_process
     /\ \/ /\ VerifyFile(ctx.file_addr)
           /\ SaveCfg(c)
           /\ ctx' = [ctx EXCEPT !.transmit_finish_flag = TRUE]
           /\ UNCHANGED <<pc, cont>>
        \/ /\ \/ VerifyFile(ctx.file_addr) /\ SaveCfgFails(c)
              \/ ~VerifyFile(ctx.file_addr) /\ UNCHANGED nv
              \/ ~kernel /\ "flash" \in Faults /\ UNCHANGED nv
           /\ UpgStop("idle")
           /\ UNCHANGED ctx
     /\ UNCHANGED <<flash, waitNv, normalNv, packet, cursor>>

hi_upg_finish ==
  /\ pc = "idle"
  /\ Reboot
  /\ UNCHANGED persistent

(* upg_check_download_finish looks at the length in flash; where there is  *)
(* no head it reads anything, or -1 from an erased block.                  *)
DownloadFinished ==
  \/ flash[ctx.file_addr] = Junk
  \/ \E i \in Images : /\ flash[ctx.file_addr] = Part("file", i, 1)
                      /\ ctx.cache_size >= FileLen[i]

(* hi_upg_transmit_finish_save_cache: two NV items, one after the other.   *)
(* The content of a kernel file is not verified before                     *)
(* hi_upg_finish_with_cache.                                               *)
hi_upg_transmit_finish_save_cache ==
  LET kernel == ctx.file_type # "BOOT"
      c == [nv EXCEPT !.refresh_nv = IF kernel THEN "REFRESH_WAIT" ELSE @,
                      !.reset_cnt = IF kernel THEN 0 ELSE @,
                      !.mode = "UPGRADE_WAIT", !.file_type = ctx.file_type,
                      !.addr_write = ctx.file_addr]
      good == kernel \/ VerifyFile(ctx.file_addr)
  IN /\ pc = "idle"
     /\ ~waitNv.trans_finish_flag /\ ctx.is_upg_process
     /\ DownloadFinished
     /\ \/ good /\ SaveCfg(c) /\ pc' = "save_wait" /\ UNCHANGED cont
        \/ good /\ SaveCfgFails(c) /\ UpgStop("idle")
        \/ ~good /\ UNCHANGED nv /\ UpgStop("idle")
     /\ UNCHANGED <<flash, waitNv, normalNv, ctx, packet, cursor>>

SaveWaitMode ==
  LET w == [is_upg_process |-> ctx.is_upg_process, trans_finish_flag |-> TRUE,
            file_addr |-> ctx.file_addr, file_type |-> ctx.file_type]
  IN /\ pc = "save_wait"
     /\ \/ SaveWait(w) /\ pc' = "idle" /\ UNCHANGED cont
        \/ SaveWaitFails(w) /\ UpgStop("idle")
     /\ UNCHANGED <<flash, nv, normalNv, ctx, packet, cursor>>

(* hi_upg_finish_with_cache, possibly after a restart.                     *)
hi_upg_finish_with_cache ==
  LET kernel == waitNv.file_type # "BOOT"
      c == [nv EXCEPT !.addr_write = IF kernel THEN waitNv.file_addr ELSE @,
                      !.refresh_nv = IF kernel THEN "REFRESH" ELSE @,
                      !.mode = "UPGRADE"]
  IN /\ pc = "idle"
     /\ nv.mode = "UPGRADE_WAIT" /\ waitNv.is_upg_process /\ waitNv.trans_finish_flag
     /\ ctx' = [ctx EXCEPT !.file_addr = waitNv.file_addr, !.file_type = waitNv.file_type]
     /\ \/ VerifyFile(waitNv.file_addr) /\ SaveCfg(c) /\ pc' = "clear_wait" /\ UNCHANGED cont
        \/ VerifyFile(waitNv.file_addr) /\ SaveCfgFails(c) /\ UpgStop("idle")
        \/ ~VerifyFile(waitNv.file_addr) /\ UNCHANGED nv /\ UpgStop("idle")
        \/ ~kernel /\ "flash" \in Faults /\ UNCHANGED nv /\ UpgStop("idle")
     /\ UNCHANGED <<flash, waitNv, normalNv, packet, cursor>>

ClearAndReboot ==
  /\ pc = "clear_wait"
  /\ \/ SaveWait(NoWait) /\ Reboot
     \/ SaveWaitFails(NoWait) /\ UpgStop("idle") /\ UNCHANGED <<ctx, packet, cursor>>
  /\ UNCHANGED <<flash, nv, normalNv>>

(* A damaged head holds a length beyond any packet.                        *)
LenAt(addr) ==
  IF \E i \in Images : flash[addr] = Part("file", i, 1)
  THEN FileLen[CHOOSE i \in Images : flash[addr] = Part("file", i, 1)]
  ELSE MaxOffset + 1

(* hi_upg_get_content reads a file that waits where NV says it is.         *)
hi_upg_get_content ==
  /\ pc = "idle"
  /\ nv.mode = "UPGRADE_WAIT" /\ waitNv.is_upg_process
  /\ ctx' = [ctx EXCEPT !.file_addr = waitNv.file_addr,
                        !.file_len = LenAt(waitNv.file_addr)]
  /\ UNCHANGED <<persistent, pc, packet, cont, cursor>>

Finish ==
  \/ hi_upg_transmit_finish \/ hi_upg_finish
  \/ hi_upg_transmit_finish_save_cache \/ SaveWaitMode
  \/ hi_upg_finish_with_cache \/ ClearAndReboot \/ hi_upg_get_content
=============================================================================
