--------------------------- MODULE UpgradeProofs ----------------------------
(***************************************************************************)
(* What holds of the upgrade for every set of files, every size of the     *)
(* areas and whatever fails: writes of NV and of flash, half done or not,  *)
(* and the power, which may be cut anywhere. The types, and that the       *)
(* kernel that runs is whole: every address in NV and in RAM lies behind   *)
(* the kernel in area A, and the module writes only from such an address   *)
(* upwards (CoreInv). On a device that is sent kernels only (KernelFiles), *)
(* also what is said of the user NV area (RefreshInv, as long as flash can *)
(* be written) and of the file that is put aside (SavedInv).               *)
(* UpgradeInstallProofs says what else holds while NV can be written.      *)
(***************************************************************************)
EXTENDS Upgrade, TLAPS

(* No file begins where a kernel does.                                     *)
StartFree == \A i \in Images : flash[1] # Part("file", i, 1)

(* What NV points to lies behind every kernel in area A.                   *)
NvAboveKernel ==
  \A i \in KernelImages : KernelAt(i) => nv.addr_write = 0 \/ KernelLen[i] < nv.addr_write

(* As long as a file is put aside, both NV items say where.  An item of an *)
(* earlier file that could not be cleared keeps trans_finish_flag, which   *)
(* keeps another file from being put aside.                                *)
WaitKnown ==
  waitNv.is_upg_process =>
    /\ waitNv.trans_finish_flag
    /\ nv.mode = "UPGRADE_WAIT" => waitNv.file_addr = nv.addr_write /\ nv.addr_write > 0

(* The boot loader: the address it works with is the one in NV.            *)
BootCore ==
  /\ pc \in BootPC \ {"reset"} => cfg.addr_write = nv.addr_write
  /\ pc = "head" /\ cfg.mode = "UPGRADE_WAIT" => nv.mode = "UPGRADE_WAIT"
  /\ pc \in {"head", "process"} => verify_addr \in {AddrStart, nv.addr_write}
  /\ pc = "process" => CheckFile(verify_addr)
  /\ pc \in {"erase", "copy"} => image \in KernelImages /\ pos \in 1..KernelLen[image]

(* The kernel that runs, and the length it knows itself by.                *)
KernelInv ==
  pc \in AppPC => \E i \in KernelImages :
    KernelAt(i) /\ (pc \notin InitPC => ctx.kernel_size = KernelLen[i])

(* Where upg_stop may be entered and left.                                 *)
StopPC == {"stop", "stop_erase", "stop_save"}
TxPC == {"tx_mode", "tx_start", "tx_erase", "tx_write"}

(* The session: what it erases and writes lies behind the kernel.          *)
SessionCore ==
  /\ pc \in BootPC \cup InitPC => ~ctx.is_upg_process
  /\ ctx.is_upg_process => ctx.kernel_size < ctx.file_addr
  /\ pc = "save_wait" => /\ ctx.is_upg_process
                         /\ nv.mode = "UPGRADE_WAIT" /\ ctx.file_addr = nv.addr_write
  /\ pc \in TxPC \/ (pc \in StopPC /\ cont = "tx_start") => packet \in Packet
  /\ pc = "tx_erase" => /\ FileLen[packet.image] <= MaxFileLen(packet.image)
                        /\ ctx.kernel_size < cursor
  /\ pc = "tx_write" => ctx.is_upg_process

CoreInv ==
  /\ UpgTypeOK /\ StartFree /\ NvAboveKernel /\ WaitKnown
  /\ BootCore /\ KernelInv /\ SessionCore

-----------------------------------------------------------------------------
(* Where files and kernels lie.                                            *)

LEMMA Sizes ==
  /\ Blocks \in Nat \ {0} /\ BackBlocks \in Nat \ {0} /\ MaxCnt \in Nat \ {0}
  /\ MaxOffset \in Nat
  /\ \A i \in Images : FileLen[i] \in Nat \ {0}
  /\ \A i \in KernelImages : KernelLen[i] \in Nat \ {0}
  /\ KernelImages \subseteq Images
BY LengthsAssumption, MaxOffsetAssumption DEF KernelImages

LEMMA HomeFits ==
  \A i \in KernelImages : /\ WriteAddr(i) \in Nat
                          /\ KernelLen[i] < WriteAddr(i) /\ WriteAddr(i) <= Blocks
<1>. SUFFICES ASSUME NEW i \in KernelImages
              PROVE  /\ WriteAddr(i) \in Nat
                     /\ KernelLen[i] < WriteAddr(i) /\ WriteAddr(i) <= Blocks
  OBVIOUS
<1>1. i \in Images /\ i \notin BootFiles
  BY DEF KernelImages
<1>2. WriteAddr(i) = Blocks + 1 - FileLen[i]
  BY <1>1 DEF WriteAddr
<1>. QED
  BY <1>1, <1>2, Sizes, FitAssumption

LEMMA PartsDiffer ==
  /\ \A k, i, n : Part(k, i, n).kind = k /\ Part(k, i, n).image = i /\ Part(k, i, n).part = n
  /\ \A k \in {"kernel", "file"}, i \in Images, n \in Nat \ {0} :
       Part(k, i, n) \in Content /\ Part(k, i, n) \notin {Erased, Junk}
  /\ Erased \in Content /\ Junk \in Content
<1>1. \A k \in {"kernel", "file"}, i \in Images, n \in Nat \ {0} :
        Part(k, i, n) \in [kind : {"kernel", "file"}, image : Images, part : Nat \ {0}]
  BY DEF Part
<1>. QED
  BY <1>1, ImagesAssumption DEF Part, Content

LEMMA KernelFirst ==
  ASSUME NEW i \in KernelImages, KernelAt(i)
  PROVE  flash[1] = Part("kernel", i, 1)
BY Sizes DEF KernelAt

LEMMA KernelUnique ==
  ASSUME NEW i \in KernelImages, NEW j \in KernelImages, KernelAt(i), KernelAt(j)
  PROVE  i = j
<1>1. Part("kernel", i, 1) = Part("kernel", j, 1)
  BY KernelFirst
<1>. QED
  BY <1>1, PartsDiffer

LEMMA Zero == 0 \in 0..(Blocks + BackBlocks) /\ 0 \in 0..MaxCnt /\ 0 \in 0..Blocks
BY Sizes

LEMMA KernelFits ==
  \A i \in KernelImages : KernelLen[i] \in Nat \ {0} /\ KernelLen[i] <= Blocks
<1>. TAKE i \in KernelImages
<1>1. /\ KernelLen[i] \in Nat \ {0} /\ KernelLen[i] < WriteAddr(i) /\ WriteAddr(i) <= Blocks
      /\ WriteAddr(i) \in Nat
  BY HomeFits, Sizes
<1>. QED
  BY <1>1, Sizes

LEMMA FlashSame ==
  ASSUME UNCHANGED flash
  PROVE  /\ \A j \in KernelImages : KernelAt(j)' <=> KernelAt(j)
         /\ \A j, m : FileAt(j, m)' <=> FileAt(j, m)
BY DEF KernelAt, FileAt

(* Saving may fail, and then store the value or not; clearing too.         *)
LEMMA SaveEither ==
  /\ \A c : SaveCfg(c) \/ SaveCfgFails(c) => nv' \in {c, nv}
  /\ \A w : SaveWait(w) \/ SaveWaitFails(w) => waitNv' \in {w, waitNv}
BY DEF SaveCfg, SaveCfgFails, SaveWait, SaveWaitFails

LEMMA WaitEither ==
  ASSUME UpgTypeOK, ClearWaitMode
  PROVE  waitNv' \in WaitMode /\ (waitNv' = waitNv \/ ~waitNv'.is_upg_process)
<1>1. NoWait \in WaitMode /\ ~NoWait.is_upg_process
  BY Zero DEF NoWait, WaitMode
<1>2. waitNv' \in {NoWait, waitNv}
  BY SaveEither DEF ClearWaitMode
<1>. QED
  BY <1>1, <1>2 DEF UpgTypeOK

(* What a step of the running kernel may store in a block.                 *)
Storable(d) ==
  d \in {Erased, Junk} \/ \E i \in Images : \E k \in Nat \ {0} : d = Part("file", i, k)

(* A write behind the kernel in area A leaves that kernel and adds none.   *)
LEMMA WriteBehind ==
  ASSUME flash \in [Addr -> Content], StartFree,
         NEW i \in KernelImages, KernelAt(i),
         NEW n \in Nat, KernelLen[i] < n, NEW d, Storable(d),
         flash' = [flash EXCEPT ![n] = d]
  PROVE  /\ flash' \in [Addr -> Content]
         /\ StartFree'
         /\ KernelAt(i)'
         /\ \A j \in KernelImages : KernelAt(j)' => j = i
<1>1. d \in Content
  BY PartsDiffer DEF Storable
<1>2. flash' \in [Addr -> Content]
  BY <1>1
<1>3. \A m \in Addr : flash'[m] = IF m = n THEN d ELSE flash[m]
  OBVIOUS
<1>4. KernelLen[i] \in Nat \ {0} /\ KernelLen[i] <= Blocks
  BY KernelFits
<1>5. \A k \in 1..KernelLen[i] : k \in Addr /\ k # n
  BY <1>4, Sizes DEF Addr
<1>6. KernelAt(i)'
  BY <1>3, <1>5 DEF KernelAt
<1>7. flash'[1] = flash[1]
  BY <1>3, <1>4, <1>5
<1>8. StartFree'
  BY <1>7 DEF StartFree
<1>9. ASSUME NEW j \in KernelImages, KernelAt(j)'
      PROVE  j = i
  <2>1. flash'[1] = Part("kernel", j, 1) /\ flash'[1] = Part("kernel", i, 1)
    BY <1>6, <1>9, Sizes DEF KernelAt
  <2>. QED
    BY <2>1, PartsDiffer
<1>. QED
  BY <1>2, <1>6, <1>8, <1>9

(* A write of the boot loader into area A completes no kernel but the one  *)
(* it unpacks, and that one only if it ends before the file begins: where  *)
(* a block of the file lies nothing can be stored without an erase.        *)
LEMMA WriteBefore ==
  ASSUME flash \in [Addr -> Content], StartFree,
         NEW i \in KernelImages, NEW n \in 1..KernelLen[i], NEW d,
         \/ d \in {flash[n], Erased, Junk}
         \/ d = Written(n, Part("kernel", i, n)) /\ \E m \in Nat : m = nv.addr_write /\ FileAt(i, m),
         flash' = [flash EXCEPT ![n] = d]
  PROVE  /\ flash' \in [Addr -> Content]
         /\ StartFree'
         /\ \A j \in KernelImages : KernelAt(j)' =>
              KernelAt(j) \/ (j = i /\ KernelLen[i] < nv.addr_write)
<1>1. KernelLen[i] \in Nat \ {0} /\ KernelLen[i] <= Blocks /\ i \in Images
  BY Sizes, KernelFits
<1>2. n \in Addr /\ n \in Nat \ {0}
  BY <1>1, Sizes DEF Addr
<1>3. d \in {flash[n], Erased, Junk, Part("kernel", i, n)} /\ d \in Content
  BY <1>1, <1>2, PartsDiffer DEF Written
<1>4. flash' \in [Addr -> Content]
  BY <1>3
<1>5. \A b \in Addr : flash'[b] = IF b = n THEN d ELSE flash[b]
  BY <1>2
<1>6. StartFree'
  <2>1. ASSUME NEW x \in Images, flash'[1] = Part("file", x, 1)
        PROVE  FALSE
    <3>1. 1 \in Addr
      BY Sizes DEF Addr
    <3>2. CASE n = 1
      BY <2>1, <3>1, <3>2, <1>1, <1>3, <1>5, PartsDiffer DEF StartFree
    <3>3. CASE n # 1
      BY <2>1, <3>1, <3>3, <1>5 DEF StartFree
    <3>. QED
      BY <3>2, <3>3
  <2>. QED
    BY <2>1 DEF StartFree
<1>7. ASSUME NEW j \in KernelImages, KernelAt(j)', ~KernelAt(j)
      PROVE  j = i /\ KernelLen[i] < nv.addr_write
  <2>1. KernelLen[j] \in Nat \ {0} /\ KernelLen[j] <= Blocks /\ j \in Images
    BY Sizes, KernelFits
  <2>2. \A k \in 1..KernelLen[j] : k \in Addr /\ k \in Nat \ {0}
    BY <2>1, Sizes DEF Addr
  <2>3. PICK k \in 1..KernelLen[j] : flash[k] # Part("kernel", j, k)
    BY <1>7 DEF KernelAt
  <2>4. \A b \in 1..KernelLen[j] : flash'[b] = Part("kernel", j, b)
    BY <1>7 DEF KernelAt
  <2>5. k = n /\ d = Part("kernel", j, n) /\ d # flash[n]
    BY <1>5, <2>2, <2>3, <2>4
  <2>6. d \notin {Erased, Junk}
    BY <1>2, <2>1, <2>5, PartsDiffer
  <2>7. PICK m \in Nat : /\ d = Written(n, Part("kernel", i, n)) /\ flash[n] = Erased
                         /\ m = nv.addr_write /\ FileAt(i, m)
    BY <2>5, <2>6 DEF Written
  <2>8. j = i
    BY <2>5, <2>7, PartsDiffer DEF Written
  <2>9. m \in Addr /\ flash[m] = Part("file", i, 1)
    <3>1. 1 \in 1..FileLen[i] /\ m + 1 - 1 = m
      BY <1>1, Sizes
    <3>. QED
      BY <2>7, <3>1 DEF FileAt
  <2>10. flash[m] \notin {Erased, Junk} /\ flash[m].kind = "file"
    BY <1>1, <2>9, PartsDiffer
  <2>11. m # n
    BY <2>7, <2>10
  <2>12. ~(m \in 1..KernelLen[i])
    BY <1>5, <2>4, <2>8, <2>9, <2>10, <2>11, PartsDiffer
  <2>. QED
    BY <1>1, <2>7, <2>8, <2>9, <2>12, Sizes DEF Addr
<1>. QED
  BY <1>4, <1>6, <1>7

-----------------------------------------------------------------------------
(* The running kernel.  What all its steps have in common: they store only *)
(* behind kernel i, and what they leave in NV lies behind it too.          *)
Behind(i) ==
  \/ UNCHANGED flash
  \/ \E n \in Nat : \E d : KernelLen[i] < n /\ Storable(d) /\ flash' = [flash EXCEPT ![n] = d]

LEMMA AppStep ==
  ASSUME CoreInv, NEW i \in KernelImages, KernelAt(i), Behind(i),
         nv'.addr_write = 0 \/ KernelLen[i] < nv'.addr_write,
         pc' \in AppPC \cup {"reset"},
         pc' \in AppPC \ InitPC => ctx'.kernel_size = KernelLen[i]
  PROVE  /\ flash' \in [Addr -> Content]
         /\ StartFree' /\ NvAboveKernel' /\ BootCore' /\ KernelInv'
         /\ KernelAt(i)'
<1>1. flash \in [Addr -> Content] /\ StartFree
  BY DEF CoreInv, UpgTypeOK
<1>2. /\ flash' \in [Addr -> Content] /\ StartFree' /\ KernelAt(i)'
      /\ \A j \in KernelImages : KernelAt(j)' => j = i
  <2>1. CASE UNCHANGED flash
    BY <1>1, <2>1, FlashSame, KernelUnique DEF StartFree
  <2>2. CASE \E n \in Nat : \E d :
               KernelLen[i] < n /\ Storable(d) /\ flash' = [flash EXCEPT ![n] = d]
    BY <1>1, <2>2, WriteBehind
  <2>. QED
    BY <2>1, <2>2 DEF Behind
<1>3. NvAboveKernel'
  BY <1>2 DEF NvAboveKernel
<1>4. pc' \in BootPC => pc' = "reset"
  BY DEF AppPC, InitPC, CallPC, BootPC
<1>5. BootCore'
  BY <1>4 DEF BootCore, BootPC
<1>6. KernelInv'
  BY <1>2 DEF KernelInv
<1>. QED
  BY <1>2, <1>3, <1>5, <1>6

(* The kernel that runs, for a step that starts at pc.                     *)
LEMMA Running ==
  ASSUME CoreInv, pc \in AppPC
  PROVE  \E i \in KernelImages :
           /\ KernelAt(i) /\ KernelLen[i] \in Nat \ {0}
           /\ nv.addr_write = 0 \/ KernelLen[i] < nv.addr_write
           /\ pc \notin InitPC => ctx.kernel_size = KernelLen[i]
BY Sizes DEF CoreInv, KernelInv, NvAboveKernel

(* The steps of the running kernel that change flash store behind it.      *)
LEMMA SessionKernel ==
  ASSUME CoreInv, pc \in AppPC, NEW i \in KernelImages, KernelAt(i)
  PROVE  /\ KernelLen[i] \in Nat /\ nv.addr_write \in Nat
         /\ nv.addr_write = 0 \/ KernelLen[i] < nv.addr_write
         /\ pc \notin InitPC => ctx.kernel_size = KernelLen[i]
<1>1. nv.addr_write \in Nat
  BY Sizes DEF CoreInv, UpgTypeOK, Cfg
<1>2. pc \notin InitPC => ctx.kernel_size = KernelLen[i]
  BY KernelUnique DEF CoreInv, KernelInv
<1>. QED
  BY <1>1, <1>2, Sizes DEF CoreInv, NvAboveKernel

(* A block at nv.addr_write; no block has the number 0.                    *)
LEMMA NvBehind ==
  ASSUME CoreInv, pc \in AppPC, NEW i \in KernelImages, KernelAt(i),
         NEW d \in {Erased, Junk}, flash' = [flash EXCEPT ![nv.addr_write] = d]
  PROVE  Behind(i)
<1>1. CASE nv.addr_write = 0
  <2>1. flash \in [Addr -> Content] /\ 0 \notin Addr
    BY DEF CoreInv, UpgTypeOK, Addr
  <2>. QED
    BY <1>1, <2>1 DEF Behind
<1>2. CASE nv.addr_write # 0
  BY <1>2, SessionKernel DEF Behind, Storable
<1>. QED
  BY <1>1, <1>2

LEMMA StopEraseBehind ==
  ASSUME CoreInv, StopErase, pc \in AppPC, NEW i \in KernelImages, KernelAt(i)
  PROVE  Behind(i)
<1>1. CASE UNCHANGED flash
  BY <1>1 DEF Behind
<1>2. CASE flash' = [flash EXCEPT ![nv.addr_write] = Erased]
  BY <1>2, NvBehind
<1>. QED
  BY <1>1, <1>2 DEF StopErase

LEMMA EraseCacheBehind ==
  ASSUME CoreInv, EraseCache, pc \in AppPC, NEW i \in KernelImages, KernelAt(i)
  PROVE  Behind(i)
<1>1. pc = "tx_erase" /\ pc \notin InitPC
  BY DEF EraseCache, InitPC
<1>2. cursor \in Nat /\ KernelLen[i] < cursor
  BY <1>1, SessionKernel, Sizes DEF CoreInv, UpgTypeOK, SessionCore
<1>3. UNCHANGED flash \/ flash' = [flash EXCEPT ![cursor] = Erased]
  BY DEF EraseCache
<1>. QED
  BY <1>2, <1>3 DEF Behind, Storable

(* Where the next block of the file goes.                                  *)
LEMMA SessionTarget ==
  ASSUME CoreInv, pc = "tx_write", NEW i \in KernelImages, KernelAt(i)
  PROVE  /\ ctx.file_addr + packet.offset \in Nat
         /\ KernelLen[i] < ctx.file_addr + packet.offset
         /\ packet.image \in Images /\ packet.offset \in Nat
<1>1. pc \in AppPC /\ pc \notin InitPC
  BY DEF AppPC, InitPC, CallPC
<1>2. ctx \in Ctx /\ packet \in Packet /\ ctx.is_upg_process
  BY DEF CoreInv, UpgTypeOK, SessionCore, TxPC
<1>3. ctx.kernel_size < ctx.file_addr /\ ctx.kernel_size = KernelLen[i] /\ KernelLen[i] \in Nat
  BY <1>1, <1>2, SessionKernel DEF CoreInv, SessionCore
<1>4. ctx.file_addr \in Nat /\ packet.offset \in Nat /\ packet.image \in Images
  BY <1>2, Sizes DEF Ctx, Packet
<1>. QED
  BY <1>3, <1>4

LEMMA WriteCacheBehind ==
  ASSUME CoreInv, WriteCache, pc \in AppPC, NEW i \in KernelImages, KernelAt(i)
  PROVE  Behind(i)
<1>1. pc = "tx_write"
  BY DEF WriteCache
<1>2. ASSUME NEW n, n = ctx.file_addr + packet.offset, NEW data \in Received,
             flash' = [flash EXCEPT ![n] = Written(n, data)]
      PROVE  Behind(i)
  <2>1. n \in Nat /\ KernelLen[i] < n /\ packet.image \in Images /\ packet.offset \in Nat
    BY <1>1, <1>2, SessionTarget
  <2>2. Storable(Written(n, data))
    BY <2>1 DEF Received, Written, Storable
  <2>. QED
    BY <1>2, <2>1, <2>2 DEF Behind
<1>3. \/ UNCHANGED flash
      \/ \E data \in Received : flash' =
           [flash EXCEPT ![ctx.file_addr + packet.offset] =
              Written(ctx.file_addr + packet.offset, data)]
  BY DEF WriteCache
<1>. QED
  BY <1>2, <1>3 DEF Behind

LEMMA PowerCutBehind ==
  ASSUME CoreInv, PowerCut, pc \in AppPC, NEW i \in KernelImages, KernelAt(i)
  PROVE  Behind(i)
<1>1. ASSUME NEW b \in BusyBlocks, flash' = [flash EXCEPT ![b] = Junk]
      PROVE  Behind(i)
  <2>1. CASE b = nv.addr_write
    BY <1>1, <2>1, NvBehind
  <2>2. CASE pc = "tx_erase" /\ b = cursor
    <3>1. pc \notin InitPC
      BY <2>2 DEF InitPC
    <3>2. cursor \in Nat /\ KernelLen[i] < cursor
      BY <2>2, <3>1, SessionKernel, Sizes DEF CoreInv, UpgTypeOK, SessionCore
    <3>. QED
      BY <1>1, <2>2, <3>2 DEF Behind, Storable
  <2>3. CASE pc = "tx_write" /\ b = ctx.file_addr + packet.offset
    <3>1. b \in Nat /\ KernelLen[i] < b
      BY <2>3, SessionTarget
    <3>. QED
      BY <1>1, <3>1 DEF Behind, Storable
  <2>. QED
    BY <1>1, <2>1, <2>2, <2>3 DEF BusyBlocks, AppPC, InitPC, CallPC
<1>. QED
  BY <1>1 DEF PowerCut, Behind

LEMMA RefreshStep ==
  ASSUME CoreInv, upg_refresh_nv, UNCHANGED <<boot, history>>
  PROVE  CoreInv'
<1>. USE DEF upg_refresh_nv, app, boot, history
<1>1. pc = "init" /\ pc' = "mode_init" /\ pc \in AppPC /\ pc' \in AppPC /\ pc \in InitPC /\ pc' \in InitPC
  BY DEF AppPC, InitPC
<1>2. PICK i \in KernelImages : /\ KernelAt(i)
                                /\ nv.addr_write = 0 \/ KernelLen[i] < nv.addr_write
  BY <1>1, Running
<1>3. /\ flash' \in [Addr -> Content]
      /\ StartFree' /\ NvAboveKernel' /\ BootCore' /\ KernelInv'
  BY <1>1, <1>2, AppStep DEF Behind
<1>4. normalNv' \in KernelImages \cup {None}
  BY DEF CoreInv, UpgTypeOK
<1>5. UpgTypeOK'
  BY <1>1, <1>3, <1>4 DEF CoreInv, UpgTypeOK
<1>6. WaitKnown'
  BY DEF CoreInv, WaitKnown
<1>7. SessionCore'
  BY <1>1 DEF CoreInv, SessionCore, TxPC, StopPC, BootPC, InitPC
<1>. QED
  BY <1>3, <1>5, <1>6, <1>7 DEF CoreInv
LEMMA ForgetRefreshStep ==
  ASSUME CoreInv, ForgetRefresh, UNCHANGED <<boot, history>>
  PROVE  CoreInv'
<1>. USE DEF ForgetRefresh, app, boot, history
<1>1. pc = "mode_init" /\ pc' = "mode_init2" /\ pc \in AppPC /\ pc' \in AppPC /\ pc \in InitPC /\ pc' \in InitPC
  BY DEF AppPC, InitPC
<1>2. PICK i \in KernelImages : /\ KernelAt(i)
                                /\ nv.addr_write = 0 \/ KernelLen[i] < nv.addr_write
  BY <1>1, Running
<1>3. nv' \in Cfg /\ nv'.addr_write = nv.addr_write /\ nv'.mode = nv.mode
  <2>1. nv \in Cfg /\ nv' \in {nv, [nv EXCEPT !.refresh_nv = "NO"]}
    BY SaveEither DEF CoreInv, UpgTypeOK
  <2>. QED
    BY <2>1 DEF Cfg
<1>4. /\ flash' \in [Addr -> Content]
      /\ StartFree' /\ NvAboveKernel' /\ BootCore' /\ KernelInv'
  BY <1>1, <1>2, <1>3, AppStep DEF Behind
<1>5. UpgTypeOK'
  BY <1>1, <1>3, <1>4 DEF CoreInv, UpgTypeOK
<1>6. WaitKnown'
  BY <1>3 DEF CoreInv, WaitKnown
<1>7. SessionCore'
  BY <1>1 DEF CoreInv, SessionCore, TxPC, StopPC, BootPC, InitPC
<1>. QED
  BY <1>4, <1>5, <1>6, <1>7 DEF CoreInv

LEMMA ModeInitStep ==
  ASSUME CoreInv, upg_mode_init, UNCHANGED <<boot, history>>
  PROVE  CoreInv'
<1>. USE DEF upg_mode_init, boot, history
<1>1. pc = "mode_init2" /\ pc' = "idle" /\ pc \in AppPC /\ pc' \in AppPC /\ pc \in InitPC /\ pc' \notin InitPC
  BY DEF AppPC, InitPC
<1>2. PICK i \in KernelImages : /\ KernelAt(i) /\ KernelLen[i] \in Nat
                                /\ nv.addr_write = 0 \/ KernelLen[i] < nv.addr_write
  BY <1>1, Running
<1>3. nv' \in Cfg /\ nv'.addr_write = nv.addr_write /\ nv'.mode \in {nv.mode, "NORMAL"}
  <2>1. nv \in Cfg
    BY DEF CoreInv, UpgTypeOK
  <2>2. \/ nv' = nv
        \/ nv' = [nv EXCEPT !.reset_cnt = 0, !.mode = "NORMAL", !.refresh_nv = "NO"]
    BY SaveEither
  <2>. QED
    BY <2>1, <2>2, Zero DEF Cfg
<1>4. ctx' = [ctx EXCEPT !.kernel_size = KernelLen[i]]
  BY <1>2, KernelUnique
<1>5. ctx'.kernel_size = KernelLen[i] /\ ctx'.is_upg_process = ctx.is_upg_process
  BY <1>4 DEF CoreInv, UpgTypeOK, Ctx
<1>6. /\ flash' \in [Addr -> Content]
      /\ StartFree' /\ NvAboveKernel' /\ BootCore' /\ KernelInv'
  BY <1>1, <1>2, <1>3, <1>5, AppStep DEF Behind
<1>7. UpgTypeOK'
  BY <1>1, <1>2, <1>3, <1>4, <1>6 DEF CoreInv, UpgTypeOK, Ctx
<1>8. WaitKnown'
  BY <1>3 DEF CoreInv, WaitKnown
<1>9. ~ctx'.is_upg_process
  BY <1>1, <1>5 DEF CoreInv, SessionCore
<1>10. SessionCore'
  BY <1>1, <1>9 DEF SessionCore, TxPC, StopPC, BootPC, InitPC
<1>. QED
  BY <1>6, <1>7, <1>8, <1>10 DEF CoreInv

LEMMA StopBeginStep ==
  ASSUME CoreInv, StopBegin, UNCHANGED boot,
         UNCHANGED approved, saved' \in Images \cup {None}
  PROVE  CoreInv'
<1>. USE DEF StopBegin, boot
<1>1. /\ pc = "stop" /\ pc \in AppPC /\ pc \notin InitPC /\ pc' \in AppPC
      /\ pc' \in {"stop_erase", "idle", "tx_start"} /\ pc' \notin InitPC
  BY DEF AppPC, InitPC, CallPC, Return, CoreInv, UpgTypeOK
<1>2. PICK i \in KernelImages : /\ KernelAt(i) /\ ctx.kernel_size = KernelLen[i]
                                /\ nv.addr_write = 0 \/ KernelLen[i] < nv.addr_write
  BY <1>1, Running
<1>3. waitNv' \in WaitMode /\ (waitNv' = waitNv \/ ~waitNv'.is_upg_process)
  BY WaitEither DEF CoreInv
<1>4. /\ flash' \in [Addr -> Content]
      /\ StartFree' /\ NvAboveKernel' /\ BootCore' /\ KernelInv'
  BY <1>1, <1>2, AppStep DEF Behind
<1>5. UpgTypeOK'
  BY <1>1, <1>3, <1>4 DEF CoreInv, UpgTypeOK, Return
<1>6. WaitKnown'
  BY <1>3 DEF CoreInv, WaitKnown
<1>7. SessionCore'
  BY <1>1, <1>3 DEF CoreInv, UpgTypeOK, SessionCore, TxPC, StopPC, BootPC, InitPC, Return
<1>. QED
  BY <1>4, <1>5, <1>6, <1>7 DEF CoreInv

LEMMA StopEraseStep ==
  ASSUME CoreInv, StopErase, UNCHANGED <<boot, history>>
  PROVE  CoreInv'
<1>. USE DEF StopErase, boot, app, history
<1>1. /\ pc = "stop_erase" /\ pc \in AppPC /\ pc \notin InitPC
      /\ pc' = "stop_save" /\ pc' \in AppPC /\ pc' \notin InitPC
  BY DEF AppPC, InitPC, CallPC
<1>2. PICK i \in KernelImages : /\ KernelAt(i) /\ ctx.kernel_size = KernelLen[i]
                                /\ nv.addr_write = 0 \/ KernelLen[i] < nv.addr_write
  BY <1>1, Running
<1>4. Behind(i)
  BY <1>1, <1>2, StopEraseBehind
<1>5. /\ flash' \in [Addr -> Content]
      /\ StartFree' /\ NvAboveKernel' /\ BootCore' /\ KernelInv'
  BY <1>1, <1>2, <1>4, AppStep
<1>6. UpgTypeOK'
  BY <1>1, <1>5 DEF CoreInv, UpgTypeOK
<1>7. WaitKnown'
  BY DEF CoreInv, WaitKnown
<1>8. SessionCore'
  BY <1>1 DEF CoreInv, SessionCore, TxPC, StopPC, BootPC, InitPC
<1>. QED
  BY <1>5, <1>6, <1>7, <1>8 DEF CoreInv

LEMMA StopSaveStep ==
  ASSUME CoreInv, StopSave, UNCHANGED <<boot, saved>>,
         approved' \in {approved, None}
  PROVE  CoreInv'
<1>. USE DEF StopSave, boot
<1>1. /\ pc = "stop_save" /\ pc \in AppPC /\ pc \notin InitPC
      /\ pc' \in {"idle", "tx_start"} /\ pc' \in AppPC /\ pc' \notin InitPC
  BY DEF AppPC, InitPC, CallPC, Return, CoreInv, UpgTypeOK
<1>2. PICK i \in KernelImages : /\ KernelAt(i) /\ ctx.kernel_size = KernelLen[i]
                                /\ nv.addr_write = 0 \/ KernelLen[i] < nv.addr_write
  BY <1>1, Running
<1>3. /\ nv' \in Cfg /\ nv'.addr_write \in {0, nv.addr_write}
      /\ nv' = nv \/ nv'.mode = "NORMAL"
  <2>1. nv \in Cfg
    BY DEF CoreInv, UpgTypeOK
  <2>2. nv' = nv \/ \E b \in {0, nv.addr_write} :
          nv' = [nv EXCEPT !.addr_write = b, !.mode = "NORMAL",
                           !.file_type = "NONE", !.refresh_nv = "NO"]
    <3> DEFINE b == IF nv.file_type = "KERNEL" THEN 0 ELSE nv.addr_write
               c == [nv EXCEPT !.addr_write = b, !.mode = "NORMAL",
                               !.file_type = "NONE", !.refresh_nv = "NO"]
    <3>1. SaveCfg(c) \/ SaveCfgFails(c)
      <4>1. c = [nv EXCEPT !.addr_write = IF nv.file_type = "KERNEL" THEN 0 ELSE @,
                           !.mode = "NORMAL", !.file_type = "NONE", !.refresh_nv = "NO"]
        OBVIOUS
      <4>. QED
        BY <4>1, Zenon
    <3>2. nv' \in {c, nv} /\ b \in {0, nv.addr_write}
      BY <3>1, SaveEither
    <3>. QED
      BY <3>2
  <2>3. CASE nv' = nv
    BY <2>1, <2>3 DEF Cfg
  <2>4. ASSUME NEW b \in {0, nv.addr_write},
               nv' = [nv EXCEPT !.addr_write = b, !.mode = "NORMAL",
                                !.file_type = "NONE", !.refresh_nv = "NO"]
        PROVE  /\ nv' \in Cfg /\ nv'.addr_write \in {0, nv.addr_write}
               /\ nv'.mode = "NORMAL"
    BY <2>1, <2>4, Zero DEF Cfg
  <2>. QED
    BY <2>1, <2>2, <2>3, <2>4
<1>4. /\ ctx' \in Ctx /\ ctx'.kernel_size = ctx.kernel_size
      /\ ctx' = ctx \/ ~ctx'.is_upg_process
  <2>1. ctx \in Ctx
    BY DEF CoreInv, UpgTypeOK
  <2>2. ctx' = ctx \/ ctx' = [ClearedCtx EXCEPT !.kernel_size = ctx.kernel_size]
    OBVIOUS
  <2>3. CASE ctx' = [ClearedCtx EXCEPT !.kernel_size = ctx.kernel_size]
    BY <2>1, <2>3, Zero DEF Ctx, ClearedCtx
  <2>. QED
    BY <2>1, <2>2, <2>3
<1>5. /\ flash' \in [Addr -> Content]
      /\ StartFree' /\ NvAboveKernel' /\ BootCore' /\ KernelInv'
  BY <1>1, <1>2, <1>3, <1>4, AppStep DEF Behind
<1>6. /\ packet' \in Packet \cup {None}
      /\ pc' # "idle" => UNCHANGED packet /\ pc' = cont
  BY DEF CoreInv, UpgTypeOK, Return
<1>7. UpgTypeOK'
  BY <1>1, <1>3, <1>4, <1>5, <1>6 DEF CoreInv, UpgTypeOK
<1>8. WaitKnown'
  BY <1>3 DEF CoreInv, WaitKnown
<1>9. SessionCore'
  BY <1>1, <1>4, <1>6 DEF CoreInv, SessionCore, TxPC, StopPC, BootPC, InitPC
<1>. QED
  BY <1>5, <1>7, <1>8, <1>9 DEF CoreInv

LEMMA HiStopStep ==
  ASSUME CoreInv, hi_upg_stop, UNCHANGED <<boot, history>>
  PROVE  CoreInv'
<1>. USE DEF hi_upg_stop, UpgStop, persistent, boot, history
<1>1. /\ pc = "idle" /\ pc \in AppPC /\ pc \notin InitPC
      /\ pc' = "stop" /\ cont' = "idle" /\ pc' \in AppPC /\ pc' \notin InitPC
  BY DEF AppPC, InitPC, CallPC
<1>2. PICK i \in KernelImages : /\ KernelAt(i) /\ ctx.kernel_size = KernelLen[i]
                                /\ nv.addr_write = 0 \/ KernelLen[i] < nv.addr_write
  BY <1>1, Running
<1>3. /\ flash' \in [Addr -> Content]
      /\ StartFree' /\ NvAboveKernel' /\ BootCore' /\ KernelInv'
  BY <1>1, <1>2, AppStep DEF Behind
<1>4. UpgTypeOK'
  BY <1>1, <1>3 DEF CoreInv, UpgTypeOK
<1>5. WaitKnown'
  BY DEF CoreInv, WaitKnown
<1>6. SessionCore'
  BY <1>1 DEF CoreInv, SessionCore, TxPC, StopPC, BootPC, InitPC
<1>. QED
  BY <1>3, <1>4, <1>5, <1>6 DEF CoreInv

LEMMA TransmitStep ==
  ASSUME CoreInv, NEW p \in Packet, hi_upg_transmit(p), UNCHANGED boot,
         UNCHANGED approved, saved' \in Images \cup {None}
  PROVE  CoreInv'
<1>. USE DEF hi_upg_transmit, boot
<1>1. /\ pc = "idle" /\ pc \in AppPC /\ pc \notin InitPC
      /\ pc' = "tx_mode" /\ pc' \in AppPC /\ pc' \notin InitPC
  BY DEF AppPC, InitPC, CallPC
<1>2. PICK i \in KernelImages : /\ KernelAt(i) /\ ctx.kernel_size = KernelLen[i]
                                /\ nv.addr_write = 0 \/ KernelLen[i] < nv.addr_write
  BY <1>1, Running
<1>3. waitNv' \in WaitMode /\ (waitNv' = waitNv \/ ~waitNv'.is_upg_process)
  BY WaitEither DEF CoreInv
<1>4. /\ flash' \in [Addr -> Content]
      /\ StartFree' /\ NvAboveKernel' /\ BootCore' /\ KernelInv'
  BY <1>1, <1>2, AppStep DEF Behind
<1>5. UpgTypeOK'
  BY <1>1, <1>3, <1>4 DEF CoreInv, UpgTypeOK
<1>6. WaitKnown'
  BY <1>3 DEF CoreInv, WaitKnown
<1>7. SessionCore'
  BY <1>1, <1>3 DEF CoreInv, SessionCore, TxPC, StopPC, BootPC, InitPC
<1>. QED
  BY <1>4, <1>5, <1>6, <1>7 DEF CoreInv

LEMMA ClearUpgModeStep ==
  ASSUME CoreInv, ClearUpgMode, UNCHANGED <<boot, history>>
  PROVE  CoreInv'
<1>. USE DEF ClearUpgMode, UpgStop, boot, history
<1>1. /\ pc = "tx_mode" /\ pc \in AppPC /\ pc \notin InitPC
      /\ pc' \in {"stop", "tx_start"} /\ pc' \in AppPC /\ pc' \notin InitPC
  BY DEF AppPC, InitPC, CallPC
<1>2. PICK i \in KernelImages : /\ KernelAt(i) /\ ctx.kernel_size = KernelLen[i]
                                /\ nv.addr_write = 0 \/ KernelLen[i] < nv.addr_write
  BY <1>1, Running
<1>3. nv' \in Cfg /\ nv'.addr_write = nv.addr_write /\ nv'.mode \in {nv.mode, "NORMAL"}
  <2>1. nv \in Cfg /\ nv' \in {nv, [nv EXCEPT !.mode = "NORMAL"]}
    BY SaveEither DEF CoreInv, UpgTypeOK
  <2>. QED
    BY <2>1 DEF Cfg
<1>4. /\ flash' \in [Addr -> Content]
      /\ StartFree' /\ NvAboveKernel' /\ BootCore' /\ KernelInv'
  BY <1>1, <1>2, <1>3, AppStep DEF Behind
<1>5. UpgTypeOK'
  BY <1>1, <1>3, <1>4 DEF CoreInv, UpgTypeOK
<1>6. WaitKnown'
  BY <1>3 DEF CoreInv, WaitKnown
<1>7. SessionCore'
  BY <1>1 DEF CoreInv, SessionCore, TxPC, StopPC, BootPC, InitPC
<1>. QED
  BY <1>4, <1>5, <1>6, <1>7 DEF CoreInv

LEMMA AlreadyStartedStep ==
  ASSUME CoreInv, AlreadyStarted, UNCHANGED <<boot, history>>
  PROVE  CoreInv'
<1>. USE DEF AlreadyStarted, persistent, app, boot, history
<1>1. /\ pc = "tx_start" /\ pc \in AppPC /\ pc \notin InitPC
      /\ pc' = "tx_write" /\ pc' \in AppPC /\ pc' \notin InitPC
  BY DEF AppPC, InitPC, CallPC
<1>2. PICK i \in KernelImages : /\ KernelAt(i) /\ ctx.kernel_size = KernelLen[i]
                                /\ nv.addr_write = 0 \/ KernelLen[i] < nv.addr_write
  BY <1>1, Running
<1>3. /\ flash' \in [Addr -> Content]
      /\ StartFree' /\ NvAboveKernel' /\ BootCore' /\ KernelInv'
  BY <1>1, <1>2, AppStep DEF Behind
<1>4. UpgTypeOK'
  BY <1>1, <1>3 DEF CoreInv, UpgTypeOK
<1>5. WaitKnown'
  BY DEF CoreInv, WaitKnown
<1>7. SessionCore'
  BY <1>1 DEF CoreInv, SessionCore, TxPC, StopPC, BootPC, InitPC
<1>. QED
  BY <1>3, <1>4, <1>5, <1>7 DEF CoreInv

(* What a packet says, and where its file would begin.                     *)
LEMMA PacketHome ==
  ASSUME packet \in Packet, NEW i \in KernelImages,
         FileLen[packet.image] <= IF packet.image \in BootFiles THEN BackBlocks
                                  ELSE Blocks - KernelLen[i]
  PROVE  /\ WriteAddr(packet.image) \in 1..(Blocks + BackBlocks)
         /\ KernelLen[i] < WriteAddr(packet.image) /\ KernelLen[i] <= Blocks
         /\ LastCleared(packet.image) \in 1..(Blocks + BackBlocks)
         /\ FileLen[packet.image] \in Nat
         /\ packet.offset \in Nat /\ packet.image \in Images
<1>1. packet.image \in Images /\ packet.offset \in Nat
  BY MaxOffsetAssumption DEF Packet
<1>2. FileLen[packet.image] \in Nat \ {0} /\ KernelLen[i] \in Nat \ {0} /\ KernelLen[i] <= Blocks
  BY <1>1, Sizes, HomeFits
<1>3. CASE packet.image \in BootFiles
  BY <1>1, <1>2, <1>3, Sizes DEF WriteAddr, LastCleared
<1>4. CASE packet.image \notin BootFiles
  BY <1>1, <1>2, <1>4, Sizes DEF WriteAddr, LastCleared
<1>. QED
  BY <1>3, <1>4

LEMMA StartUpgradeStep ==
  ASSUME CoreInv, StartUpgrade, UNCHANGED <<boot, history>>
  PROVE  CoreInv'
<1>. USE DEF StartUpgrade, UpgStop, persistent, boot, history
<1>1. /\ pc = "tx_start" /\ pc \in AppPC /\ pc \notin InitPC /\ ~ctx.is_upg_process
      /\ pc' \in {"idle", "stop", "tx_erase"} /\ pc' \in AppPC /\ pc' \notin InitPC
  BY DEF AppPC, InitPC, CallPC, Return
<1>2. PICK i \in KernelImages : /\ KernelAt(i) /\ ctx.kernel_size = KernelLen[i]
                                /\ nv.addr_write = 0 \/ KernelLen[i] < nv.addr_write
  BY <1>1, Running
<1>3. ctx \in Ctx /\ packet \in Packet
  BY <1>1 DEF CoreInv, UpgTypeOK, SessionCore, TxPC
<1>4. CASE /\ pc' \in {"idle", "stop"} /\ UNCHANGED <<ctx, cursor>>
           /\ packet' \in {packet, None} /\ cont' \in {cont, "idle"}
           /\ pc' = "stop" => cont' = "idle"
  <2>1. /\ flash' \in [Addr -> Content]
        /\ StartFree' /\ NvAboveKernel' /\ BootCore' /\ KernelInv'
    BY <1>1, <1>2, <1>4, AppStep DEF Behind
  <2>2. UpgTypeOK'
    BY <1>1, <1>4, <2>1 DEF CoreInv, UpgTypeOK
  <2>3. WaitKnown'
    BY DEF CoreInv, WaitKnown
  <2>4. SessionCore'
    BY <1>1, <1>3, <1>4 DEF SessionCore, TxPC, StopPC, BootPC, InitPC
  <2>. QED
    BY <2>1, <2>2, <2>3, <2>4 DEF CoreInv
<1>5. CASE /\ packet.offset = 0
           /\ FileLen[packet.image] <= MaxFileLen(packet.image)
           /\ ctx' = [ctx EXCEPT !.file_len = FileLen[packet.image],
                                 !.file_type = FileType(packet.image), !.cache_size = 0]
           /\ pc' = "tx_erase"
           /\ cursor' = IF packet.image \in BootFiles THEN Blocks + 1 ELSE WriteAddr(packet.image)
           /\ UNCHANGED <<packet, cont>>
  <2>1. /\ WriteAddr(packet.image) \in 1..(Blocks + BackBlocks)
        /\ KernelLen[i] < WriteAddr(packet.image) /\ KernelLen[i] <= Blocks
        /\ FileLen[packet.image] \in Nat /\ packet.image \in Images
    BY <1>2, <1>3, <1>5, PacketHome DEF MaxFileLen
  <2>2. ctx' \in Ctx /\ ctx'.kernel_size = ctx.kernel_size
        /\ ctx'.is_upg_process = ctx.is_upg_process /\ ctx'.cache_size = 0
    BY <1>3, <1>5, <2>1 DEF Ctx, FileType
  <2>3. cursor' \in 1..(Blocks + BackBlocks) /\ KernelLen[i] < cursor'
    BY <1>5, <2>1, Sizes
  <2>4. /\ flash' \in [Addr -> Content]
        /\ StartFree' /\ NvAboveKernel' /\ BootCore' /\ KernelInv'
    BY <1>1, <1>2, <2>2, AppStep DEF Behind
  <2>5. UpgTypeOK'
    BY <1>1, <1>5, <2>2, <2>3, <2>4, Sizes DEF CoreInv, UpgTypeOK
  <2>6. WaitKnown'
    BY DEF CoreInv, WaitKnown
  <2>7. MaxFileLen(packet.image)' = MaxFileLen(packet.image)
    BY <1>5, <2>2 DEF MaxFileLen
  <2>8. SessionCore'
    BY <1>1, <1>2, <1>3, <1>5, <2>2, <2>3, <2>7 DEF SessionCore, TxPC, StopPC, BootPC, InitPC
  <2>. QED
    BY <2>4, <2>5, <2>6, <2>8 DEF CoreInv
<1>. QED
  BY <1>4, <1>5 DEF Return

LEMMA EraseCacheStep ==
  ASSUME CoreInv, EraseCache, UNCHANGED <<boot, history>>
  PROVE  CoreInv'
<1>. USE DEF EraseCache, UpgStop, boot, history
<1>1. /\ pc = "tx_erase" /\ pc \in AppPC /\ pc \notin InitPC
      /\ pc' \in {"stop", "tx_erase", "tx_write"} /\ pc' \in AppPC /\ pc' \notin InitPC
      /\ pc' = "stop" => cont' = "idle"
  BY DEF AppPC, InitPC, CallPC
<1>2. PICK i \in KernelImages : /\ KernelAt(i) /\ ctx.kernel_size = KernelLen[i]
                                /\ nv.addr_write = 0 \/ KernelLen[i] < nv.addr_write
  BY <1>1, Running
<1>3. /\ ctx \in Ctx /\ packet \in Packet /\ cursor \in Nat /\ KernelLen[i] < cursor
      /\ FileLen[packet.image] <= MaxFileLen(packet.image)
      /\ ctx.is_upg_process => ctx.kernel_size < ctx.file_addr
  BY <1>1, <1>2 DEF CoreInv, UpgTypeOK, SessionCore, TxPC
<1>4. /\ WriteAddr(packet.image) \in 1..(Blocks + BackBlocks)
      /\ KernelLen[i] < WriteAddr(packet.image)
      /\ LastCleared(packet.image) \in 1..(Blocks + BackBlocks)
  BY <1>2, <1>3, PacketHome DEF MaxFileLen
<1>5. Behind(i)
  BY <1>1, <1>2, EraseCacheBehind
<1>6. /\ ctx' \in Ctx /\ ctx'.kernel_size = ctx.kernel_size
      /\ pc' # "tx_write" => UNCHANGED ctx
      /\ pc' = "tx_write" => ctx'.is_upg_process /\ ctx'.file_addr = WriteAddr(packet.image)
  <2>1. WriteAddr(packet.image) \in 0..(Blocks + BackBlocks)
    BY <1>4, Sizes
  <2>2. CASE UNCHANGED ctx /\ pc' # "tx_write"
    BY <1>3, <2>2
  <2>3. CASE /\ ctx' = [ctx EXCEPT !.file_addr = WriteAddr(packet.image),
                                  !.transmit_finish_flag = FALSE, !.is_upg_process = TRUE]
             /\ pc' = "tx_write"
    BY <1>3, <2>1, <2>3 DEF Ctx
  <2>. QED
    BY <2>2, <2>3
<1>7. /\ cursor' \in 0..(Blocks + BackBlocks)
      /\ pc' = "tx_erase" => KernelLen[i] < cursor'
  BY <1>3, <1>4, Sizes
<1>8. /\ flash' \in [Addr -> Content]
      /\ StartFree' /\ NvAboveKernel' /\ BootCore' /\ KernelInv'
  BY <1>1, <1>2, <1>5, <1>6, AppStep
<1>9. UpgTypeOK'
  BY <1>1, <1>6, <1>7, <1>8 DEF CoreInv, UpgTypeOK
<1>10. WaitKnown'
  BY DEF CoreInv, WaitKnown
<1>11. MaxFileLen(packet.image)' = MaxFileLen(packet.image)
  BY <1>6 DEF MaxFileLen
<1>12. SessionCore'
  BY <1>1, <1>2, <1>3, <1>4, <1>6, <1>7, <1>11
     DEF SessionCore, TxPC, StopPC, BootPC, InitPC, WriteAddr
<1>. QED
  BY <1>8, <1>9, <1>10, <1>12 DEF CoreInv

LEMMA WriteCacheStep ==
  ASSUME CoreInv, WriteCache, UNCHANGED <<boot, history>>
  PROVE  CoreInv'
<1>. USE DEF WriteCache, UpgStop, boot, history
<1>1. /\ pc = "tx_write" /\ pc \in AppPC /\ pc \notin InitPC
      /\ pc' \in {"stop", "idle"} /\ pc' \in AppPC /\ pc' \notin InitPC
      /\ pc' = "stop" => cont' = "idle"
  BY DEF AppPC, InitPC, CallPC, Return
<1>2. PICK i \in KernelImages : /\ KernelAt(i) /\ ctx.kernel_size = KernelLen[i]
                                /\ nv.addr_write = 0 \/ KernelLen[i] < nv.addr_write
                                /\ KernelLen[i] \in Nat
  BY <1>1, Running
<1>3. ctx \in Ctx /\ ctx.is_upg_process /\ ctx.kernel_size < ctx.file_addr
  BY <1>1 DEF CoreInv, UpgTypeOK, SessionCore
<1>4. /\ ctx' \in Ctx /\ ctx'.kernel_size = ctx.kernel_size
      /\ ctx'.is_upg_process = ctx.is_upg_process /\ ctx'.file_addr = ctx.file_addr
  <2>1. ctx.cache_size + 1 \in Nat
    BY <1>3 DEF Ctx
  <2>2. \/ ctx' = ctx
        \/ ctx' = [ctx EXCEPT !.cache_size = ctx.cache_size + 1, !.check_head_flag = TRUE]
    OBVIOUS
  <2>. QED
    BY <1>3, <2>1, <2>2 DEF Ctx
<1>5. Behind(i)
  BY <1>1, <1>2, WriteCacheBehind
<1>6. /\ flash' \in [Addr -> Content]
      /\ StartFree' /\ NvAboveKernel' /\ BootCore' /\ KernelInv'
  BY <1>1, <1>2, <1>4, <1>5, AppStep
<1>7. packet' \in {packet, None} /\ cont' \in {cont, "idle"}
  BY DEF Return
<1>8. UpgTypeOK'
  BY <1>1, <1>4, <1>6, <1>7 DEF CoreInv, UpgTypeOK
<1>9. WaitKnown'
  BY DEF CoreInv, WaitKnown
<1>10. SessionCore'
  BY <1>1, <1>3, <1>4 DEF SessionCore, TxPC, StopPC, BootPC, InitPC
<1>. QED
  BY <1>6, <1>8, <1>9, <1>10 DEF CoreInv

LEMMA RebootStep ==
  ASSUME CoreInv, Reboot, pc \in AppPC, UNCHANGED <<flash, nv, normalNv, boot, history>>,
         waitNv' \in {waitNv, NoWait}
  PROVE  CoreInv'
<1>. USE DEF Reboot, boot, history
<1>1. /\ pc' = "reset" /\ pc' \notin AppPC /\ pc' \in BootPC
      /\ ctx' = ClearedCtx /\ packet' = None /\ cont' = "idle" /\ cursor' = 0
  BY DEF ClearApp, AppPC, BootPC, InitPC, CallPC
<1>2. PICK i \in KernelImages : /\ KernelAt(i)
                                /\ nv.addr_write = 0 \/ KernelLen[i] < nv.addr_write
  BY Running
<1>3. /\ flash' \in [Addr -> Content]
      /\ StartFree' /\ NvAboveKernel' /\ BootCore' /\ KernelInv'
  BY <1>1, <1>2, AppStep DEF Behind
<1>4. ctx' \in Ctx /\ ~ctx'.is_upg_process
  BY <1>1, Zero DEF ClearedCtx, Ctx
<1>5. /\ waitNv' \in WaitMode
      /\ waitNv'.is_upg_process => waitNv' = waitNv /\ waitNv.is_upg_process
  <2>1. NoWait \in WaitMode /\ ~NoWait.is_upg_process
    BY Zero DEF NoWait, WaitMode
  <2>. QED
    BY <2>1 DEF CoreInv, UpgTypeOK
<1>6. UpgTypeOK'
  BY <1>1, <1>3, <1>4, <1>5, Zero DEF CoreInv, UpgTypeOK
<1>7. WaitKnown'
  BY <1>5 DEF CoreInv, WaitKnown
<1>8. SessionCore'
  BY <1>1, <1>4 DEF SessionCore, TxPC, StopPC
<1>. QED
  BY <1>3, <1>6, <1>7, <1>8 DEF CoreInv

LEMMA TransmitFinishStep ==
  ASSUME CoreInv, hi_upg_transmit_finish, UNCHANGED boot,
         approved' \in KernelImages \cup {None}, saved' \in Images \cup {None}
  PROVE  CoreInv'
<1>. USE DEF hi_upg_transmit_finish, UpgStop, boot
<1>1. /\ pc = "idle" /\ pc \in AppPC /\ pc \notin InitPC /\ ctx.is_upg_process
      /\ pc' \in {"stop", "idle"} /\ pc' \in AppPC /\ pc' \notin InitPC
      /\ cont' \in {"idle", cont} /\ pc' = "stop" => cont' = "idle"
  BY DEF AppPC, InitPC, CallPC
<1>2. PICK i \in KernelImages : /\ KernelAt(i) /\ ctx.kernel_size = KernelLen[i]
                                /\ nv.addr_write = 0 \/ KernelLen[i] < nv.addr_write
                                /\ KernelLen[i] \in Nat
  BY <1>1, Running
<1>3. ctx \in Ctx /\ nv \in Cfg /\ ctx.kernel_size < ctx.file_addr
  BY <1>1 DEF CoreInv, UpgTypeOK, SessionCore
<1>4. /\ ctx' \in Ctx /\ ctx'.kernel_size = ctx.kernel_size
      /\ ctx'.is_upg_process = ctx.is_upg_process /\ ctx'.file_addr = ctx.file_addr
  BY <1>3 DEF Ctx
<1>5. /\ nv' \in Cfg /\ nv'.addr_write \in {nv.addr_write, ctx.file_addr}
      /\ nv' = nv \/ nv'.mode = "UPGRADE"
  <2>1. \/ nv' = nv
        \/ \E a \in {nv.addr_write, ctx.file_addr} : \E r \in {nv.refresh_nv, "REFRESH"} :
             \E k \in {nv.reset_cnt, 0} :
               nv' = [nv EXCEPT !.addr_write = a, !.refresh_nv = r, !.reset_cnt = k,
                                !.mode = "UPGRADE", !.file_type = ctx.file_type]
    BY SaveEither
  <2>2. ASSUME NEW a \in {nv.addr_write, ctx.file_addr}, NEW r \in {nv.refresh_nv, "REFRESH"},
               NEW k \in {nv.reset_cnt, 0},
               nv' = [nv EXCEPT !.addr_write = a, !.refresh_nv = r, !.reset_cnt = k,
                                !.mode = "UPGRADE", !.file_type = ctx.file_type]
        PROVE  nv' \in Cfg /\ nv'.addr_write = a /\ nv'.mode = "UPGRADE"
    <3>1. /\ a \in 0..(Blocks + BackBlocks) /\ k \in 0..MaxCnt
          /\ r \in {"NO", "REFRESH", "REFRESH_WAIT"}
          /\ ctx.file_type \in {"NONE", "KERNEL", "BOOT"}
      BY <1>3, Zero DEF Cfg, Ctx
    <3>. QED
      BY <1>3, <2>2, <3>1 DEF Cfg
  <2>. QED
    BY <1>3, <2>1, <2>2
<1>6. /\ flash' \in [Addr -> Content]
      /\ StartFree' /\ NvAboveKernel' /\ BootCore' /\ KernelInv'
  BY <1>1, <1>2, <1>3, <1>4, <1>5, AppStep DEF Behind
<1>7. UpgTypeOK'
  BY <1>1, <1>4, <1>5, <1>6 DEF CoreInv, UpgTypeOK
<1>8. WaitKnown'
  BY <1>5 DEF CoreInv, WaitKnown
<1>9. SessionCore'
  BY <1>1, <1>2, <1>3, <1>4 DEF SessionCore, TxPC, StopPC, BootPC, InitPC
<1>. QED
  BY <1>6, <1>7, <1>8, <1>9 DEF CoreInv

LEMMA SaveCacheStep ==
  ASSUME CoreInv, hi_upg_transmit_finish_save_cache,
         UNCHANGED <<boot, history>>
  PROVE  CoreInv'
<1>. USE DEF hi_upg_transmit_finish_save_cache, UpgStop, boot, history
<1>1. /\ pc = "idle" /\ pc \in AppPC /\ pc \notin InitPC
      /\ ctx.is_upg_process /\ ~waitNv.trans_finish_flag
      /\ pc' \in {"stop", "save_wait"} /\ pc' \in AppPC /\ pc' \notin InitPC
      /\ cont' \in {"idle", cont} /\ pc' = "stop" => cont' = "idle"
  BY DEF AppPC, InitPC, CallPC
<1>2. PICK i \in KernelImages : /\ KernelAt(i) /\ ctx.kernel_size = KernelLen[i]
                                /\ nv.addr_write = 0 \/ KernelLen[i] < nv.addr_write
                                /\ KernelLen[i] \in Nat
  BY <1>1, Running
<1>3. /\ ctx \in Ctx /\ nv \in Cfg /\ ctx.kernel_size < ctx.file_addr
      /\ ~waitNv.is_upg_process
  BY <1>1 DEF CoreInv, UpgTypeOK, SessionCore, WaitKnown
<1>4. /\ nv' \in Cfg /\ nv'.addr_write \in {nv.addr_write, ctx.file_addr}
      /\ pc' = "save_wait" => nv'.addr_write = ctx.file_addr /\ nv'.mode = "UPGRADE_WAIT"
  <2>1. \/ nv' = nv /\ pc' # "save_wait"
        \/ \E r \in {nv.refresh_nv, "REFRESH_WAIT"} : \E k \in {nv.reset_cnt, 0} :
             nv' = [nv EXCEPT !.refresh_nv = r, !.reset_cnt = k, !.mode = "UPGRADE_WAIT",
                              !.file_type = ctx.file_type, !.addr_write = ctx.file_addr]
    BY SaveEither DEF SaveCfg
  <2>2. ASSUME NEW r \in {nv.refresh_nv, "REFRESH_WAIT"}, NEW k \in {nv.reset_cnt, 0},
               nv' = [nv EXCEPT !.refresh_nv = r, !.reset_cnt = k, !.mode = "UPGRADE_WAIT",
                                !.file_type = ctx.file_type, !.addr_write = ctx.file_addr]
        PROVE  nv' \in Cfg /\ nv'.addr_write = ctx.file_addr /\ nv'.mode = "UPGRADE_WAIT"
    <3>1. /\ k \in 0..MaxCnt /\ r \in {"NO", "REFRESH", "REFRESH_WAIT"}
          /\ ctx.file_type \in {"NONE", "KERNEL", "BOOT"}
          /\ ctx.file_addr \in 0..(Blocks + BackBlocks)
      BY <1>3, Zero DEF Cfg, Ctx
    <3>. QED
      BY <1>3, <2>2, <3>1 DEF Cfg
  <2>. QED
    BY <1>3, <2>1, <2>2
<1>5. /\ flash' \in [Addr -> Content]
      /\ StartFree' /\ NvAboveKernel' /\ BootCore' /\ KernelInv'
  BY <1>1, <1>2, <1>3, <1>4, AppStep DEF Behind
<1>6. UpgTypeOK'
  BY <1>1, <1>4, <1>5 DEF CoreInv, UpgTypeOK
<1>7. WaitKnown'
  BY <1>3 DEF WaitKnown
<1>8. SessionCore'
  BY <1>1, <1>2, <1>3, <1>4 DEF SessionCore, TxPC, StopPC, BootPC, InitPC
<1>. QED
  BY <1>5, <1>6, <1>7, <1>8 DEF CoreInv

LEMMA SaveWaitModeStep ==
  ASSUME CoreInv, SaveWaitMode, UNCHANGED <<boot, approved>>,
         saved' \in Images \cup {None}
  PROVE  CoreInv'
<1>. USE DEF SaveWaitMode, UpgStop, boot
<1>1. /\ pc = "save_wait" /\ pc \in AppPC /\ pc \notin InitPC
      /\ pc' \in {"idle", "stop"} /\ pc' \in AppPC /\ pc' \notin InitPC
      /\ cont' \in {"idle", cont} /\ pc' = "stop" => cont' = "idle"
  BY DEF AppPC, InitPC, CallPC
<1>2. PICK i \in KernelImages : /\ KernelAt(i) /\ ctx.kernel_size = KernelLen[i]
                                /\ nv.addr_write = 0 \/ KernelLen[i] < nv.addr_write
                                /\ KernelLen[i] \in Nat
  BY <1>1, Running
<1>3. /\ ctx \in Ctx /\ ctx.kernel_size < ctx.file_addr /\ ctx.is_upg_process
      /\ ctx.file_addr = nv.addr_write
  BY <1>1 DEF CoreInv, UpgTypeOK, SessionCore
<1>4. /\ waitNv' \in WaitMode
      /\ waitNv' = waitNv \/ (waitNv'.trans_finish_flag /\ waitNv'.file_addr = ctx.file_addr)
  <2>1. waitNv' \in {waitNv,
          [is_upg_process |-> ctx.is_upg_process, trans_finish_flag |-> TRUE,
           file_addr |-> ctx.file_addr, file_type |-> ctx.file_type]}
    BY SaveEither
  <2>. QED
    <3>1. waitNv \in WaitMode
      BY DEF CoreInv, UpgTypeOK
    <3>2. CASE waitNv' = [is_upg_process |-> ctx.is_upg_process, trans_finish_flag |-> TRUE,
                          file_addr |-> ctx.file_addr, file_type |-> ctx.file_type]
      BY <1>3, <3>2 DEF WaitMode, Ctx
    <3>. QED
      BY <2>1, <3>1, <3>2
<1>5. /\ flash' \in [Addr -> Content]
      /\ StartFree' /\ NvAboveKernel' /\ BootCore' /\ KernelInv'
  BY <1>1, <1>2, AppStep DEF Behind
<1>6. UpgTypeOK'
  BY <1>1, <1>4, <1>5 DEF CoreInv, UpgTypeOK
<1>7. WaitKnown'
  BY <1>2, <1>3, <1>4, Sizes DEF CoreInv, WaitKnown, Ctx
<1>8. SessionCore'
  BY <1>1, <1>2 DEF CoreInv, SessionCore, TxPC, StopPC, BootPC, InitPC
<1>. QED
  BY <1>5, <1>6, <1>7, <1>8 DEF CoreInv

LEMMA FinishWithCacheStep ==
  ASSUME CoreInv, hi_upg_finish_with_cache, UNCHANGED boot,
         approved' \in KernelImages \cup {None}, saved' \in Images \cup {None}
  PROVE  CoreInv'
<1>. USE DEF hi_upg_finish_with_cache, UpgStop, boot
<1>1. /\ pc = "idle" /\ pc \in AppPC /\ pc \notin InitPC /\ waitNv.is_upg_process
      /\ nv.mode = "UPGRADE_WAIT" /\ pc' \in {"stop", "clear_wait"} /\ pc' \in AppPC /\ pc' \notin InitPC
      /\ cont' \in {"idle", cont} /\ pc' = "stop" => cont' = "idle"
  BY DEF AppPC, InitPC, CallPC
<1>2. PICK i \in KernelImages : /\ KernelAt(i) /\ ctx.kernel_size = KernelLen[i]
                                /\ nv.addr_write = 0 \/ KernelLen[i] < nv.addr_write
                                /\ KernelLen[i] \in Nat
  BY <1>1, Running
<1>3. /\ ctx \in Ctx /\ nv \in Cfg /\ waitNv \in WaitMode
      /\ waitNv.trans_finish_flag
      /\ waitNv.file_addr = nv.addr_write /\ nv.addr_write > 0
  BY <1>1 DEF CoreInv, UpgTypeOK, WaitKnown
<1>4. /\ ctx' \in Ctx /\ ctx'.kernel_size = ctx.kernel_size
      /\ ctx'.is_upg_process = ctx.is_upg_process /\ ctx'.file_addr = waitNv.file_addr
  BY <1>3 DEF Ctx, WaitMode
<1>5. /\ nv' \in Cfg /\ nv'.addr_write = nv.addr_write
      /\ nv' = nv \/ nv'.mode = "UPGRADE"
  <2>1. \/ nv' = nv
        \/ \E a \in {nv.addr_write, waitNv.file_addr} : \E r \in {nv.refresh_nv, "REFRESH"} :
             nv' = [nv EXCEPT !.addr_write = a, !.refresh_nv = r, !.mode = "UPGRADE"]
    BY SaveEither
  <2>. QED
    BY <1>3, <2>1 DEF Cfg
<1>6. /\ flash' \in [Addr -> Content]
      /\ StartFree' /\ NvAboveKernel' /\ BootCore' /\ KernelInv'
  BY <1>1, <1>2, <1>4, <1>5, AppStep DEF Behind
<1>7. UpgTypeOK'
  BY <1>1, <1>4, <1>5, <1>6 DEF CoreInv, UpgTypeOK
<1>8. WaitKnown'
  BY <1>5 DEF CoreInv, WaitKnown
<1>9. nv.addr_write \in Nat /\ KernelLen[i] < nv.addr_write
  BY <1>2, <1>3, Sizes DEF Cfg
<1>10. SessionCore'
  BY <1>1, <1>2, <1>3, <1>4, <1>9 DEF SessionCore, TxPC, StopPC, BootPC, InitPC
<1>. QED
  BY <1>6, <1>7, <1>8, <1>10 DEF CoreInv

(* When the cleared item cannot be saved, the upgrade that was accepted is *)
(* stopped again.                                                          *)
LEMMA ClearAndRebootStep ==
  ASSUME CoreInv, ClearAndReboot, UNCHANGED <<boot, history>>
  PROVE  CoreInv'
<1>. USE DEF ClearAndReboot, UpgStop, boot, history
<1>1. pc = "clear_wait" /\ pc \in AppPC /\ pc \notin InitPC
  BY DEF AppPC, InitPC, CallPC
<1>2. CASE SaveWait(NoWait) /\ Reboot
  BY <1>1, <1>2, RebootStep DEF SaveWait
<1>3. CASE SaveWaitFails(NoWait) /\ pc' = "stop" /\ cont' = "idle"
           /\ UNCHANGED <<ctx, packet, cursor>>
  <2>1. pc' \in AppPC /\ pc' \notin InitPC
    BY <1>3 DEF AppPC, InitPC, CallPC
  <2>2. PICK i \in KernelImages : /\ KernelAt(i) /\ ctx.kernel_size = KernelLen[i]
                                  /\ nv.addr_write = 0 \/ KernelLen[i] < nv.addr_write
    BY <1>1, Running
  <2>3. waitNv' \in WaitMode /\ (waitNv' = waitNv \/ ~waitNv'.is_upg_process)
    <3>1. NoWait \in WaitMode /\ ~NoWait.is_upg_process
      BY Zero DEF NoWait, WaitMode
    <3>. QED
      BY <1>3, <3>1, SaveEither DEF CoreInv, UpgTypeOK
  <2>4. /\ flash' \in [Addr -> Content]
        /\ StartFree' /\ NvAboveKernel' /\ BootCore' /\ KernelInv'
    BY <1>3, <2>1, <2>2, AppStep DEF Behind
  <2>5. UpgTypeOK'
    BY <1>3, <2>1, <2>3, <2>4 DEF CoreInv, UpgTypeOK
  <2>6. WaitKnown'
    BY <2>3 DEF CoreInv, WaitKnown
  <2>7. SessionCore'
    BY <1>1, <1>3 DEF CoreInv, SessionCore, TxPC, StopPC, BootPC, InitPC
  <2>. QED
    BY <2>4, <2>5, <2>6, <2>7 DEF CoreInv
<1>. QED
  BY <1>2, <1>3

LEMMA GetContentStep ==
  ASSUME CoreInv, hi_upg_get_content, UNCHANGED <<boot, history>>
  PROVE  CoreInv'
<1>. USE DEF hi_upg_get_content, persistent, boot, history
<1>1. /\ pc = "idle" /\ pc \in AppPC /\ pc \notin InitPC /\ waitNv.is_upg_process /\ pc' = pc
  BY DEF AppPC, InitPC
<1>2. PICK i \in KernelImages : /\ KernelAt(i) /\ ctx.kernel_size = KernelLen[i]
                                /\ nv.addr_write = 0 \/ KernelLen[i] < nv.addr_write
  BY <1>1, Running
<1>3. /\ ctx \in Ctx /\ waitNv \in WaitMode
      /\ waitNv.file_addr = nv.addr_write /\ nv.addr_write > 0
  BY <1>1 DEF CoreInv, UpgTypeOK, WaitKnown
<1>4. LenAt(waitNv.file_addr) \in Nat
  <2>1. CASE \E j \in Images : flash[waitNv.file_addr] = Part("file", j, 1)
    <3>1. (CHOOSE j \in Images : flash[waitNv.file_addr] = Part("file", j, 1)) \in Images
      BY <2>1
    <3>. QED
      BY <2>1, <3>1, Sizes DEF LenAt
  <2>2. CASE ~\E j \in Images : flash[waitNv.file_addr] = Part("file", j, 1)
    BY <2>2, Sizes DEF LenAt
  <2>. QED
    BY <2>1, <2>2
<1>5. /\ ctx' \in Ctx /\ ctx'.kernel_size = ctx.kernel_size
      /\ ctx'.is_upg_process = ctx.is_upg_process /\ ctx'.file_addr = waitNv.file_addr
  BY <1>3, <1>4 DEF Ctx, WaitMode
<1>6. /\ flash' \in [Addr -> Content]
      /\ StartFree' /\ NvAboveKernel' /\ BootCore' /\ KernelInv'
  BY <1>1, <1>2, <1>5, AppStep DEF Behind
<1>7. UpgTypeOK'
  BY <1>1, <1>5, <1>6 DEF CoreInv, UpgTypeOK
<1>8. WaitKnown'
  BY DEF CoreInv, WaitKnown
<1>9. KernelLen[i] < nv.addr_write
  BY <1>2, <1>3
<1>10. SessionCore'
  BY <1>1, <1>2, <1>3, <1>5, <1>9 DEF SessionCore, TxPC, StopPC, BootPC, InitPC
<1>. QED
  BY <1>6, <1>7, <1>8, <1>10 DEF CoreInv

-----------------------------------------------------------------------------
(* The boot loader.                                                        *)

(* No file begins at the start of area A: what checks there is a kernel.   *)
LEMMA StartIsKernel ==
  ASSUME CoreInv, CheckFile(AddrStart)
  PROVE  KernelValid
<1>. SUFFICES ASSUME NEW i \in KernelImages, FileAt(i, 1)
              PROVE  FALSE
  BY DEF CheckFile, AddrStart
<1>1. 1 \in 1..FileLen[i] /\ 1 + 1 - 1 = 1 /\ i \in Images
  BY Sizes
<1>2. flash[1] = Part("file", i, 1)
  BY <1>1 DEF FileAt
<1>. QED
  BY <1>1, <1>2 DEF CoreInv, StartFree

(* What the boot loader stores, if anything.                               *)
Ahead ==
  \/ UNCHANGED flash
  \/ /\ pc \in {"erase", "copy"}
     /\ \E d \in {flash[pos], Erased, Junk} : flash' = [flash EXCEPT ![pos] = d]
  \/ /\ pc = "copy" /\ FileAt(image, cfg.addr_write)
     /\ flash' = [flash EXCEPT ![pos] = Written(pos, Part("kernel", image, pos))]

LEMMA BootStepInv ==
  ASSUME CoreInv, pc \in BootPC, Ahead, nv'.addr_write = nv.addr_write
  PROVE  flash' \in [Addr -> Content] /\ StartFree' /\ NvAboveKernel'
<1>1. /\ flash \in [Addr -> Content] /\ StartFree /\ NvAboveKernel /\ nv.addr_write \in Nat
  BY Sizes DEF CoreInv, UpgTypeOK, Cfg
<1>2. CASE UNCHANGED flash
  BY <1>1, <1>2, FlashSame DEF NvAboveKernel, StartFree
<1>3. CASE ~UNCHANGED flash
  <2>1. pc \in {"erase", "copy"} /\ pc \in BootPC \ {"reset"}
    BY <1>3 DEF Ahead, BootPC
  <2>2. PICK i \in KernelImages, n \in Nat : i = image /\ n = pos /\ n \in 1..KernelLen[i]
    BY <2>1, Sizes DEF CoreInv, BootCore
  <2>3. cfg.addr_write = nv.addr_write
    BY <2>1 DEF CoreInv, BootCore
  <2>4. FileAt(image, cfg.addr_write) => \E m \in Nat : m = nv.addr_write /\ FileAt(i, m)
    BY <1>1, <2>2, <2>3 DEF FileAt
  <2>5. \/ \E d \in {flash[n], Erased, Junk} : flash' = [flash EXCEPT ![n] = d]
        \/ /\ \E m \in Nat : m = nv.addr_write /\ FileAt(i, m)
           /\ flash' = [flash EXCEPT ![n] = Written(n, Part("kernel", i, n))]
    BY <1>3, <2>2, <2>4 DEF Ahead
  <2>6. /\ flash' \in [Addr -> Content] /\ StartFree'
        /\ \A j \in KernelImages : KernelAt(j)' =>
             KernelAt(j) \/ (j = i /\ KernelLen[i] < nv.addr_write)
    <3>1. CASE \E d \in {flash[n], Erased, Junk} : flash' = [flash EXCEPT ![n] = d]
      <4>1. PICK d \in {flash[n], Erased, Junk} : flash' = [flash EXCEPT ![n] = d]
        BY <3>1
      <4>. QED
        BY <1>1, <2>2, <4>1, WriteBefore
    <3>2. CASE /\ \E m \in Nat : m = nv.addr_write /\ FileAt(i, m)
               /\ flash' = [flash EXCEPT ![n] = Written(n, Part("kernel", i, n))]
      <4>1. PICK d : d = Written(n, Part("kernel", i, n)) /\ flash' = [flash EXCEPT ![n] = d]
        BY <3>2
      <4>2. \/ d \in {flash[n], Erased, Junk}
            \/ /\ d = Written(n, Part("kernel", i, n))
               /\ \E m \in Nat : m = nv.addr_write /\ FileAt(i, m)
        BY <3>2, <4>1
      <4>. QED
        BY <1>1, <2>2, <4>1, <4>2, WriteBefore
    <3>. QED
      BY <2>5, <3>1, <3>2
  <2>7. NvAboveKernel'
    BY <1>1, <2>6 DEF NvAboveKernel
  <2>. QED
    BY <2>6, <2>7
<1>. QED
  BY <1>2, <1>3

(* Where the boot loader begins again or hands over to the kernel.         *)
LEMMA RestartStep ==
  ASSUME CoreInv, pc \in BootPC, Ahead, Restart,
         UNCHANGED <<nv, waitNv, normalNv, app, history>>
  PROVE  CoreInv'
<1>. USE DEF Restart, app, history
<1>1. pc' = "reset" /\ pc' \in BootPC /\ pc' \notin AppPC
  BY DEF BootPC, AppPC, InitPC, CallPC
<1>2. flash' \in [Addr -> Content] /\ StartFree' /\ NvAboveKernel'
  BY BootStepInv
<1>3. FactoryCfg \in Cfg
  BY Zero DEF FactoryCfg, Cfg
<1>4. UpgTypeOK'
  BY <1>1, <1>2, <1>3, Zero DEF CoreInv, UpgTypeOK, ClearBoot
<1>5. BootCore' /\ KernelInv'
  BY <1>1 DEF BootCore, KernelInv
<1>6. WaitKnown' /\ SessionCore'
  BY <1>1 DEF CoreInv, WaitKnown, SessionCore, TxPC, StopPC
<1>. QED
  BY <1>2, <1>4, <1>5, <1>6 DEF CoreInv

LEMMA BootKernelStep ==
  ASSUME CoreInv, pc \in BootPC, KernelValid, boot_kernel,
         UNCHANGED <<persistent, app, history>>
  PROVE  CoreInv'
<1>. USE DEF boot_kernel, persistent, app, history
<1>1. pc' = "init" /\ pc' \notin BootPC /\ pc' \in InitPC /\ pc' \in AppPC
  BY DEF BootPC, AppPC, InitPC
<1>2. flash' \in [Addr -> Content] /\ StartFree' /\ NvAboveKernel'
  BY BootStepInv DEF Ahead
<1>3. FactoryCfg \in Cfg
  BY Zero DEF FactoryCfg, Cfg
<1>4. UpgTypeOK'
  BY <1>1, <1>2, <1>3, Zero DEF CoreInv, UpgTypeOK, ClearBoot
<1>5. BootCore'
  BY <1>1 DEF BootCore, BootPC
<1>6. KernelInv'
  BY <1>1, FlashSame DEF KernelInv, KernelValid
<1>7. WaitKnown' /\ SessionCore'
  BY <1>1 DEF CoreInv, WaitKnown, SessionCore, TxPC, StopPC
<1>. QED
  BY <1>2, <1>4, <1>5, <1>6, <1>7 DEF CoreInv

LEMMA ExecuteUpgBootStep ==
  ASSUME CoreInv, execute_upg_boot, UNCHANGED <<app, history>>
  PROVE  CoreInv'
<1>. USE DEF execute_upg_boot, app, history
<1>1. /\ pc = "reset" /\ pc \in BootPC /\ pc' = "head" /\ pc' \in BootPC /\ pc' \notin AppPC
  BY DEF BootPC, AppPC, InitPC, CallPC
<1>2. nv \in Cfg /\ Counted(nv) \in 0..MaxCnt
  BY Sizes DEF CoreInv, UpgTypeOK, Cfg, Counted
<1>3. /\ cfg' \in Cfg /\ cfg'.addr_write = nv.addr_write
      /\ nv.mode # "UPGRADE" => cfg' = nv
      /\ nv.mode = "UPGRADE" => cfg'.mode # "UPGRADE_WAIT"
  BY <1>2 DEF Cfg
<1>4. nv' \in {cfg', nv}
  BY SaveEither
<1>5. verify_addr' \in {AddrStart, nv.addr_write}
  BY DEF boot_upg_init_verify_addr, change_area
<1>6. verify_addr' \in 0..(Blocks + BackBlocks)
  BY <1>2, <1>5, Sizes DEF Cfg, AddrStart
<1>7. flash' \in [Addr -> Content] /\ StartFree' /\ NvAboveKernel'
  BY <1>1, <1>3, <1>4, BootStepInv DEF Ahead
<1>8. UpgTypeOK'
  BY <1>1, <1>2, <1>3, <1>4, <1>6, <1>7 DEF CoreInv, UpgTypeOK
<1>9. BootCore' /\ KernelInv'
  BY <1>1, <1>3, <1>4, <1>5 DEF BootCore, KernelInv, AddrStart
<1>10. WaitKnown'
  BY <1>3, <1>4 DEF CoreInv, WaitKnown
<1>11. SessionCore'
  BY <1>1 DEF CoreInv, SessionCore, TxPC, StopPC
<1>. QED
  BY <1>7, <1>8, <1>9, <1>10, <1>11 DEF CoreInv

LEMMA BootHeadStep ==
  ASSUME CoreInv, boot_head, UNCHANGED <<app, history>>
  PROVE  CoreInv'
<1>. USE DEF boot_head, boot, app, history
<1>1. pc = "head" /\ pc \in BootPC
  BY DEF BootPC
<1>2. /\ nv \in Cfg /\ cfg \in Cfg /\ cfg.addr_write = nv.addr_write
      /\ verify_addr \in {AddrStart, nv.addr_write}
      /\ cfg.mode = "UPGRADE_WAIT" => nv.mode = "UPGRADE_WAIT"
  BY <1>1 DEF CoreInv, UpgTypeOK, BootCore, BootPC
<1>3. CASE ~CheckFile(verify_addr) /\ ~CheckFile(change_area(cfg, verify_addr))
  BY <1>1, <1>3, RestartStep DEF Ahead
<1>4. ASSUME pc' = "process", nv' \in Cfg, cfg' \in Cfg, UNCHANGED <<image, pos>>,
             nv'.addr_write = nv.addr_write, cfg'.addr_write = nv.addr_write,
             nv'.mode = "UPGRADE_WAIT" => nv.mode = "UPGRADE_WAIT",
             verify_addr' \in {AddrStart, nv.addr_write}, CheckFile(verify_addr')
      PROVE  CoreInv'
  <2>1. pc' \in BootPC /\ pc' \notin AppPC
    BY <1>4 DEF BootPC, AppPC, InitPC, CallPC
  <2>2. flash' \in [Addr -> Content] /\ StartFree' /\ NvAboveKernel'
    BY <1>1, <1>4, BootStepInv DEF Ahead
  <2>3. verify_addr' \in 0..(Blocks + BackBlocks)
    BY <1>2, <1>4, Sizes DEF Cfg, AddrStart
  <2>4. UpgTypeOK'
    BY <1>4, <2>1, <2>2, <2>3 DEF CoreInv, UpgTypeOK
  <2>5. CheckFile(verify_addr)'
    BY <1>4, FlashSame DEF CheckFile, KernelValid, AddrStart, KernelAt, FileAt
  <2>6. BootCore' /\ KernelInv'
    BY <1>4, <2>1, <2>2, <2>5 DEF BootCore, KernelInv, AddrStart
  <2>7. WaitKnown' /\ SessionCore'
    BY <1>1, <1>4, <2>1 DEF CoreInv, WaitKnown, SessionCore, TxPC, StopPC
  <2>. QED
    BY <2>2, <2>4, <2>6, <2>7 DEF CoreInv
<1>5. CASE CheckFile(verify_addr) /\ pc' = "process" /\ UNCHANGED <<nv, boot>>
  BY <1>2, <1>4, <1>5
<1>6. CASE /\ ~CheckFile(verify_addr) /\ CheckFile(change_area(cfg, verify_addr))
           /\ pc' = "process" /\ cfg' = [cfg EXCEPT !.refresh_nv = "REFRESH"]
           /\ verify_addr' = change_area(cfg, verify_addr)
           /\ nv' \in {cfg', nv} /\ UNCHANGED <<image, pos>>
  <2>1. cfg' \in Cfg /\ cfg'.addr_write = nv.addr_write /\ cfg'.mode = cfg.mode
    BY <1>2, <1>6 DEF Cfg
  <2>2. verify_addr' \in {AddrStart, nv.addr_write}
    BY <1>2, <1>6 DEF change_area
  <2>. QED
    BY <1>2, <1>4, <1>6, <2>1, <2>2
<1>. QED
  BY <1>3, <1>5, <1>6, SaveEither

LEMMA KernelProcessStep ==
  ASSUME CoreInv, boot_upg_kernel_process, UNCHANGED <<app, history>>
  PROVE  CoreInv'
<1>. USE DEF boot_upg_kernel_process
<1>1. pc = "process" /\ pc \in BootPC
  BY DEF BootPC
<1>2. /\ cfg.addr_write = nv.addr_write /\ CheckFile(verify_addr)
      /\ verify_addr \in {AddrStart, nv.addr_write}
  BY <1>1 DEF CoreInv, BootCore, BootPC
<1>3. CASE verify_addr # cfg.addr_write /\ boot_kernel
  <2>1. verify_addr = AddrStart
    BY <1>2, <1>3
  <2>2. KernelValid
    BY <1>2, <2>1, StartIsKernel
  <2>. QED
    BY <1>1, <1>3, <2>2, BootKernelStep
<1>4. CASE Restart
  BY <1>1, <1>4, RestartStep DEF persistent, Ahead
<1>5. ASSUME NEW i \in KernelImages,
             pc' = "erase", image' = i, pos' = 1, UNCHANGED <<cfg, verify_addr>>
      PROVE  CoreInv'
  <2>. USE DEF persistent, app, history
  <2>1. pc' \in BootPC /\ pc' \notin AppPC
    BY <1>5 DEF BootPC, AppPC, InitPC, CallPC
  <2>2. flash' \in [Addr -> Content] /\ StartFree' /\ NvAboveKernel'
    BY <1>1, BootStepInv DEF Ahead
  <2>3. 1 \in 0..Blocks /\ 1 \in 1..KernelLen[i]
    BY Sizes
  <2>4. UpgTypeOK'
    BY <1>5, <2>1, <2>2, <2>3 DEF CoreInv, UpgTypeOK
  <2>5. BootCore' /\ KernelInv'
    BY <1>2, <1>5, <2>1, <2>3 DEF BootCore, KernelInv
  <2>6. WaitKnown' /\ SessionCore'
    BY <1>1, <1>5, <2>1 DEF CoreInv, WaitKnown, SessionCore, TxPC, StopPC
  <2>. QED
    BY <2>2, <2>4, <2>5, <2>6 DEF CoreInv
<1>. QED
  BY <1>3, <1>4, <1>5

(* EraseTarget and Decompress, as long as they are not given up.           *)
LEMMA UnpackStep ==
  ASSUME CoreInv, pc \in {"erase", "copy"}, Ahead,
         pc' \in {"erase", "copy", "recheck"}, pos' \in 0..Blocks,
         pc' # "recheck" => pos' \in 1..KernelLen[image],
         UNCHANGED <<nv, waitNv, normalNv, cfg, verify_addr, image, app, history>>
  PROVE  CoreInv'
<1>. USE DEF app, history
<1>1. pc \in BootPC \ {"reset"} /\ pc' \in BootPC /\ pc' \notin AppPC
  BY DEF BootPC, AppPC, InitPC, CallPC
<1>2. image \in KernelImages /\ cfg.addr_write = nv.addr_write
  BY <1>1 DEF CoreInv, BootCore
<1>3. flash' \in [Addr -> Content] /\ StartFree' /\ NvAboveKernel'
  BY <1>1, BootStepInv
<1>4. UpgTypeOK'
  BY <1>1, <1>3 DEF CoreInv, UpgTypeOK
<1>5. BootCore' /\ KernelInv'
  BY <1>1, <1>2 DEF BootCore, KernelInv
<1>6. WaitKnown' /\ SessionCore'
  BY <1>1 DEF CoreInv, WaitKnown, SessionCore, TxPC, StopPC
<1>. QED
  BY <1>3, <1>4, <1>5, <1>6 DEF CoreInv

LEMMA Unpacking ==
  ASSUME CoreInv, pc \in {"erase", "copy"}
  PROVE  /\ pos \in 1..KernelLen[image]
         /\ KernelLen[image] \in Nat /\ KernelLen[image] <= Blocks
BY KernelFits DEF CoreInv, BootCore

LEMMA EraseTargetStep ==
  ASSUME CoreInv, EraseTarget, UNCHANGED <<app, history>>
  PROVE  CoreInv'
<1>. USE DEF EraseTarget
<1>1. /\ pos \in 1..KernelLen[image] /\ KernelLen[image] \in Nat
      /\ KernelLen[image] <= Blocks
  BY Unpacking
<1>2. pos' \in 0..Blocks /\ pos' \in 1..KernelLen[image]
  BY <1>1, Sizes
<1>3. Ahead
  BY DEF Ahead
<1>. QED
  BY <1>2, <1>3, UnpackStep

LEMMA DecompressStep ==
  ASSUME CoreInv, Decompress, UNCHANGED <<app, history>>
  PROVE  CoreInv'
<1>. USE DEF Decompress
<1>1. /\ pos \in 1..KernelLen[image] /\ KernelLen[image] \in Nat
      /\ KernelLen[image] <= Blocks
  BY Unpacking
<1>2. Ahead
  BY DEF Ahead, Unpacks
<1>3. CASE Restart
  BY <1>2, <1>3, RestartStep DEF BootPC
<1>4. CASE /\ UNCHANGED <<cfg, verify_addr, image>>
           /\ IF pos < KernelLen[image] THEN pc' = "copy" /\ pos' = pos + 1
                                        ELSE pc' = "recheck" /\ pos' = 0
  <2>1. /\ pos' \in 0..Blocks /\ pc' \in {"erase", "copy", "recheck"}
        /\ pc' # "recheck" => pos' \in 1..KernelLen[image]
    BY <1>1, <1>4, Sizes
  <2>. QED
    BY <1>2, <1>4, <2>1, UnpackStep
<1>. QED
  BY <1>3, <1>4

LEMMA RecheckStep ==
  ASSUME CoreInv, Recheck, UNCHANGED <<app, history>>
  PROVE  CoreInv'
<1>1. pc \in BootPC
  BY DEF Recheck, BootPC
<1>2. CASE CheckFile(AddrStart) /\ boot_kernel
  BY <1>1, <1>2, StartIsKernel, BootKernelStep DEF Recheck
<1>3. CASE Restart
  BY <1>1, <1>3, RestartStep DEF Recheck, persistent, Ahead
<1>. QED
  BY <1>2, <1>3 DEF Recheck

-----------------------------------------------------------------------------
(* A power cut leaves Junk in the block in work: behind the kernel that    *)
(* runs, or before the file that is unpacked.                              *)
LEMMA PowerCutStep ==
  ASSUME CoreInv, PowerCut
  PROVE  CoreInv'
<1>. USE DEF PowerCut, history
<1>1. /\ pc' = "reset" /\ pc' \in BootPC /\ pc' \notin AppPC
      /\ ctx' = ClearedCtx /\ packet' = None /\ cont' = "idle" /\ cursor' = 0
  BY DEF ClearApp, BootPC, AppPC, InitPC, CallPC
<1>2. pc \in BootPC \/ pc \in AppPC
  BY DEF CoreInv, UpgTypeOK
<1>3. flash' \in [Addr -> Content] /\ StartFree' /\ NvAboveKernel'
  <2>1. CASE pc \in BootPC
    <3>1. Ahead
      BY <2>1 DEF BusyBlocks, BootPC, Ahead
    <3>. QED
      BY <2>1, <3>1, BootStepInv
  <2>2. CASE pc \in AppPC
    <3>1. PICK i \in KernelImages :
             /\ KernelAt(i) /\ KernelLen[i] \in Nat
             /\ nv.addr_write = 0 \/ KernelLen[i] < nv.addr_write
             /\ pc \notin InitPC => ctx.kernel_size = KernelLen[i]
      BY <2>2, Running
    <3>3. Behind(i)
      BY <2>2, <3>1, PowerCutBehind
    <3>. QED
      BY <1>1, <3>1, <3>3, AppStep
  <2>. QED
    BY <1>2, <2>1, <2>2
<1>4. FactoryCfg \in Cfg /\ ClearedCtx \in Ctx /\ ~ClearedCtx.is_upg_process
  BY Zero DEF FactoryCfg, Cfg, ClearedCtx, Ctx
<1>5. normalNv' \in KernelImages \cup {None}
  BY DEF CoreInv, UpgTypeOK
<1>6. UpgTypeOK'
  BY <1>1, <1>3, <1>4, <1>5, Zero DEF CoreInv, UpgTypeOK, ClearBoot
<1>7. BootCore' /\ KernelInv'
  BY <1>1 DEF BootCore, KernelInv
<1>8. WaitKnown' /\ SessionCore'
  BY <1>1, <1>4 DEF CoreInv, WaitKnown, SessionCore, TxPC, StopPC
<1>. QED
  BY <1>3, <1>6, <1>7, <1>8 DEF CoreInv

-----------------------------------------------------------------------------
LEMMA CoreInit == UpgInit => CoreInv
<1>. SUFFICES ASSUME UpgInit PROVE CoreInv
  OBVIOUS
<1>. USE DEF UpgInit
<1>1. Factory \in KernelImages /\ Factory \in Images /\ KernelLen[Factory] \in Nat \ {0}
  BY ImagesAssumption, Sizes DEF KernelImages
<1>2. flash \in [Addr -> Content]
  <2>1. \A a \in Addr : a \in Nat \ {0}
    BY Sizes DEF Addr
  <2>2. \A a \in Addr :
          (IF a \in 1..KernelLen[Factory] THEN Part("kernel", Factory, a) ELSE Erased) \in Content
    BY <1>1, <2>1, PartsDiffer
  <2>. QED
    BY <2>2
<1>3. flash[1] = Part("kernel", Factory, 1)
  <2>1. 1 \in Addr /\ 1 \in 1..KernelLen[Factory]
    BY <1>1, Sizes DEF Addr
  <2>. QED
    BY <2>1
<1>4. StartFree
  <2>1. Part("kernel", Factory, 1).kind = "kernel" /\ \A x \in Images : Part("file", x, 1).kind = "file"
    BY PartsDiffer
  <2>. QED
    BY <1>3, <2>1 DEF StartFree
<1>5. pc \in BootPC /\ pc \notin AppPC
  BY DEF BootPC, AppPC, InitPC, CallPC
<1>6. /\ FactoryCfg \in Cfg /\ FactoryCfg.addr_write = 0
      /\ NoWait \in WaitMode /\ ~NoWait.is_upg_process
      /\ ClearedCtx \in Ctx /\ ~ClearedCtx.is_upg_process
  BY Zero DEF FactoryCfg, Cfg, NoWait, WaitMode, ClearedCtx, Ctx
<1>7. UpgTypeOK
  BY <1>1, <1>2, <1>5, <1>6, Zero DEF UpgTypeOK
<1>8. NvAboveKernel /\ WaitKnown
  BY <1>6 DEF NvAboveKernel, WaitKnown
<1>9. BootCore /\ KernelInv
  BY <1>5 DEF BootCore, KernelInv
<1>10. SessionCore
  BY <1>6 DEF SessionCore, TxPC, StopPC
<1>. QED
  BY <1>4, <1>7, <1>8, <1>9, <1>10 DEF CoreInv

LEMMA CoreNext ==
  ASSUME CoreInv, [UpgNext]_vars
  PROVE  CoreInv'
<1>. USE DEF history
<1>1. CASE UNCHANGED vars
  BY <1>1 DEF vars, persistent, boot, app, CoreInv, UpgTypeOK, StartFree, NvAboveKernel,
     WaitKnown, BootCore, KernelInv, SessionCore, KernelValid, KernelAt, FileAt,
     CheckFile, MaxFileLen, WriteAddr
<1>2. CASE PowerCut
  BY <1>2, PowerCutStep
<1>3. CASE BootStep /\ UNCHANGED <<app, history>>
  BY <1>3, ExecuteUpgBootStep, BootHeadStep, KernelProcessStep, EraseTargetStep,
     DecompressStep, RecheckStep DEF BootStep
<1>4. CASE hi_upg_init /\ UNCHANGED <<boot, history>>
  BY <1>4, RefreshStep, ForgetRefreshStep, ModeInitStep DEF hi_upg_init
<1>5. CASE CallStep /\ UNCHANGED boot
  <2>1. approved \in KernelImages \cup {None} /\ saved \in Images \cup {None}
    BY DEF CoreInv, UpgTypeOK
  <2>2. CASE (hi_upg_transmit_finish \/ hi_upg_finish_with_cache) /\ Accept /\ saved' = None
    <3>1. approved' \in KernelImages \cup {None}
      BY <2>1, <2>2 DEF Accept, FileIn
    <3>. QED
      BY <1>5, <2>2, <3>1, TransmitFinishStep, FinishWithCacheStep
  <2>3. CASE (\E p \in Packet : hi_upg_transmit(p)) /\ saved' = None /\ UNCHANGED approved
    BY <1>5, <2>3, TransmitStep
  <2>4. CASE StopBegin /\ saved' = None /\ UNCHANGED approved
    BY <1>5, <2>4, StopBeginStep
  <2>5. CASE /\ StopSave /\ approved' = (IF nv'.mode = "NORMAL" THEN None ELSE approved)
             /\ UNCHANGED saved
    BY <1>5, <2>5, StopSaveStep
  <2>6. CASE /\ SaveWaitMode /\ UNCHANGED approved
             /\ saved' = (IF pc' = "idle" THEN FileIn(Images, ctx.file_addr) ELSE None)
    <3>1. saved' \in Images \cup {None}
      BY <2>6 DEF FileIn
    <3>. QED
      BY <1>5, <2>6, <3>1, SaveWaitModeStep
  <2>7. CASE /\ \/ hi_upg_stop \/ StopErase
                \/ ClearUpgMode \/ StartUpgrade \/ AlreadyStarted \/ EraseCache \/ WriteCache
                \/ hi_upg_finish \/ hi_upg_transmit_finish_save_cache
                \/ ClearAndReboot \/ hi_upg_get_content
             /\ UNCHANGED history
    <3>1. CASE hi_upg_finish
      BY <1>5, <2>7, <3>1, RebootStep DEF hi_upg_finish, persistent, AppPC
    <3>. QED
      BY <1>5, <2>7, <3>1, HiStopStep, StopEraseStep, ClearUpgModeStep, StartUpgradeStep,
         AlreadyStartedStep, EraseCacheStep, WriteCacheStep, SaveCacheStep,
         ClearAndRebootStep, GetContentStep
  <2>. QED
    BY <1>5, <2>2, <2>3, <2>4, <2>5, <2>6, <2>7 DEF CallStep
<1>. QED
  BY <1>1, <1>2, <1>3, <1>4, <1>5 DEF UpgNext, Step

LEMMA CoreInvariant == UpgSpec => []CoreInv
<1>1. UpgInit => CoreInv
  BY CoreInit
<1>2. CoreInv /\ [UpgNext]_vars => CoreInv'
  BY CoreNext
<1>. QED
  BY <1>1, <1>2, PTL DEF UpgSpec

(* Every variable keeps its type, whatever fails.                          *)
THEOREM UpgTypes == UpgSpec => []UpgTypeOK
<1>1. CoreInv => UpgTypeOK
  BY DEF CoreInv
<1>. QED
  BY <1>1, CoreInvariant, PTL

(* No call of the upgrade module damages the kernel that executes it, and  *)
(* the boot loader starts no damaged one, whatever fails.                  *)
THEOREM KernelStaysIntact == UpgSpec => []RunningKernelIntact
<1>1. CoreInv => RunningKernelIntact
  BY DEF CoreInv, KernelInv, RunningKernelIntact, KernelValid
<1>. QED
  BY <1>1, CoreInvariant, PTL

-----------------------------------------------------------------------------
(* The steps that are not looked at one by one.                            *)

(* The actions of CallStep without what they do to the history.            *)
LEMMA CallActions ==
  ASSUME CallStep
  PROVE  \/ hi_upg_stop \/ StopBegin \/ StopErase \/ StopSave
         \/ (\E p \in Packet : hi_upg_transmit(p))
         \/ ClearUpgMode \/ StartUpgrade \/ AlreadyStarted \/ EraseCache \/ WriteCache
         \/ hi_upg_transmit_finish \/ hi_upg_finish
         \/ hi_upg_transmit_finish_save_cache \/ SaveWaitMode
         \/ hi_upg_finish_with_cache \/ ClearAndReboot \/ hi_upg_get_content
BY DEF CallStep

LEMMA CallFrom ==
  ASSUME UpgTypeOK, CallStep
  PROVE  /\ pc \in {"idle"} \cup CallPC
         /\ pc' \in {"idle", "reset"} \cup CallPC
         /\ UNCHANGED normalNv
<1>1. cont \in {"idle", "tx_start"}
  BY DEF UpgTypeOK
<1>2. pc \in {"idle"} \cup CallPC /\ pc' \in {"idle", "reset"} \cup CallPC
  BY <1>1, CallActions DEF hi_upg_stop, StopBegin, StopErase, StopSave, hi_upg_transmit,
     ClearUpgMode, StartUpgrade, AlreadyStarted, EraseCache, WriteCache,
     hi_upg_transmit_finish, hi_upg_finish, hi_upg_transmit_finish_save_cache, SaveWaitMode,
     hi_upg_finish_with_cache, ClearAndReboot, hi_upg_get_content, UpgStop, Return, Reboot,
     CallPC, persistent
<1>3. UNCHANGED normalNv
  BY CallActions DEF hi_upg_stop, StopBegin, StopErase, StopSave, hi_upg_transmit,
     ClearUpgMode, StartUpgrade, AlreadyStarted, EraseCache, WriteCache,
     hi_upg_transmit_finish, hi_upg_finish, hi_upg_transmit_finish_save_cache, SaveWaitMode,
     hi_upg_finish_with_cache, ClearAndReboot, hi_upg_get_content, persistent
<1>. QED
  BY <1>2, <1>3

LEMMA StepFrom ==
  ASSUME CoreInv
  PROVE  /\ pc \in BootPC \/ pc \in AppPC
         /\ BootStep => pc \in BootPC /\ pc' \in BootPC \cup {"init"} /\ UNCHANGED waitNv
         /\ hi_upg_init => pc \in InitPC /\ pc' \in InitPC \cup {"idle"} /\ UNCHANGED <<flash, waitNv>>
<1>1. pc \in BootPC \/ pc \in AppPC
  BY DEF CoreInv, UpgTypeOK
<1>2. BootStep => pc \in BootPC /\ pc' \in BootPC \cup {"init"} /\ UNCHANGED waitNv
  BY DEF BootStep, execute_upg_boot, boot_head, boot_upg_kernel_process, EraseTarget,
     Decompress, Recheck, Restart, boot_kernel, BootPC, persistent
<1>3. hi_upg_init => pc \in InitPC /\ pc' \in InitPC \cup {"idle"} /\ UNCHANGED <<flash, waitNv>>
  BY DEF hi_upg_init, upg_refresh_nv, ForgetRefresh, upg_mode_init, InitPC
<1>. QED
  BY <1>1, <1>2, <1>3

(* The kernel that runs is not touched by the steps of its own module, nor *)
(* by a power cut during one.                                              *)
LEMMA RunningKept ==
  ASSUME CoreInv, pc \in AppPC, hi_upg_init \/ CallStep \/ PowerCut,
         NEW i \in KernelImages, KernelAt(i)
  PROVE  KernelAt(i)'
<1>1. Behind(i)
  <2>1. CASE PowerCut
    BY <2>1, PowerCutBehind
  <2>2. CASE hi_upg_init
    BY <2>2 DEF hi_upg_init, upg_refresh_nv, ForgetRefresh, upg_mode_init, Behind
  <2>3. CASE CallStep
    <3>1. CASE StopErase \/ EraseCache \/ WriteCache
      BY <3>1, StopEraseBehind, EraseCacheBehind, WriteCacheBehind
    <3>. QED
      BY <2>3, <3>1, CallActions DEF hi_upg_stop, StopBegin, StopSave, hi_upg_transmit,
         ClearUpgMode, StartUpgrade, AlreadyStarted, hi_upg_transmit_finish, hi_upg_finish,
         hi_upg_transmit_finish_save_cache, SaveWaitMode, hi_upg_finish_with_cache,
         ClearAndReboot, hi_upg_get_content, persistent, Behind
  <2>. QED
    BY <2>1, <2>2, <2>3
<1>2. CASE UNCHANGED flash
  BY <1>2, FlashSame
<1>3. CASE \E n \in Nat : \E d :
             KernelLen[i] < n /\ Storable(d) /\ flash' = [flash EXCEPT ![n] = d]
  BY <1>3, WriteBehind DEF CoreInv, UpgTypeOK
<1>. QED
  BY <1>1, <1>2, <1>3 DEF Behind

(* What the boot loader works with differs from NV at most by the count of *)
(* starts, or by having given up an upgrade.                               *)
HeadCfg ==
  pc = "head" =>
    /\ "nv" \notin Faults \/ nv.mode # "UPGRADE" => cfg = nv
    /\ cfg.file_type = nv.file_type /\ cfg.refresh_nv = nv.refresh_nv

LEMMA HeadCfgStep ==
  ASSUME CoreInv, HeadCfg, [UpgNext]_vars
  PROVE  HeadCfg'
<1>0. nv \in Cfg
  BY DEF CoreInv, UpgTypeOK
<1>1. CASE UNCHANGED vars
  BY <1>1 DEF vars, persistent, boot, HeadCfg
<1>2. CASE execute_upg_boot
  <2>1. \/ cfg' = nv /\ (nv.mode = "UPGRADE" => nv' = nv)
        \/ nv.mode = "UPGRADE" /\ \E m \in {"NORMAL", "UPGRADE"} :
             cfg' = [nv EXCEPT !.reset_cnt = Counted(nv), !.mode = m]
    BY <1>2 DEF execute_upg_boot
  <2>2. cfg'.file_type = nv.file_type /\ cfg'.refresh_nv = nv.refresh_nv
        /\ (nv.mode # "UPGRADE" => cfg' = nv)
    BY <1>0, <2>1 DEF Cfg
  <2>3. nv' \in {cfg', nv} /\ ("nv" \notin Faults => nv' = cfg')
    BY <1>2, SaveEither DEF execute_upg_boot, SaveCfg, SaveCfgFails
  <2>. QED
    BY <2>2, <2>3 DEF HeadCfg
<1>3. CASE ~execute_upg_boot /\ UpgNext
  <2>1. pc' # "head"
    <3>1. CASE BootStep
      BY <1>3, <3>1 DEF BootStep, boot_head, boot_upg_kernel_process, EraseTarget,
         Decompress, Recheck, Restart, boot_kernel
    <3>. QED
      BY <1>3, <3>1, StepFrom, CallFrom DEF UpgNext, Step, PowerCut, CoreInv, InitPC, CallPC
  <2>. QED
    BY <2>1 DEF HeadCfg
<1>. QED
  BY <1>1, <1>2, <1>3

(* What the boot loader and hi_upg_init make of NV.                        *)
LEMMA StartNv ==
  ASSUME CoreInv, HeadCfg, BootStep \/ hi_upg_init
  PROVE  /\ nv'.addr_write = nv.addr_write /\ nv'.file_type = nv.file_type
         /\ nv'.mode \in {nv.mode, "NORMAL"}
         /\ BootStep => nv'.refresh_nv \in {nv.refresh_nv, "REFRESH"}
         /\ nv'.mode = "UPGRADE" => nv'.refresh_nv \in {nv.refresh_nv, "REFRESH"}
<1>1. nv \in Cfg /\ cfg \in Cfg
  BY DEF CoreInv, UpgTypeOK
<1>2. CASE execute_upg_boot
  <2>1. \/ nv' = nv
        \/ \E m \in {nv.mode, "NORMAL"} :
             nv' = [nv EXCEPT !.reset_cnt = Counted(nv), !.mode = m]
    BY <1>2, SaveEither DEF execute_upg_boot
  <2>. QED
    BY <1>1, <2>1 DEF Cfg
<1>3. CASE boot_head
  <2>1. /\ cfg.addr_write = nv.addr_write /\ cfg.file_type = nv.file_type
        /\ cfg.mode \in {nv.mode, "NORMAL"}
    BY <1>1, <1>3 DEF CoreInv, BootCore, HeadCfg, boot_head, BootPC, Cfg
  <2>2. nv' = nv \/ nv' = [cfg EXCEPT !.refresh_nv = "REFRESH"]
    BY <1>3, SaveEither DEF boot_head
  <2>. QED
    BY <1>1, <2>1, <2>2 DEF Cfg
<1>4. CASE hi_upg_init
  <2>1. \/ nv' = nv
        \/ nv.mode # "UPGRADE" /\ nv' = [nv EXCEPT !.refresh_nv = "NO"]
        \/ nv' = [nv EXCEPT !.reset_cnt = 0, !.mode = "NORMAL", !.refresh_nv = "NO"]
    BY <1>4, SaveEither DEF hi_upg_init, upg_refresh_nv, ForgetRefresh, upg_mode_init
  <2>2. ~BootStep
    BY <1>4, StepFrom DEF InitPC, BootPC
  <2>. QED
    BY <1>1, <2>1, <2>2 DEF Cfg
<1>5. CASE boot_upg_kernel_process \/ EraseTarget \/ Decompress \/ Recheck
  BY <1>5 DEF boot_upg_kernel_process, EraseTarget, Decompress, Recheck, persistent
<1>. QED
  BY <1>2, <1>3, <1>4, <1>5 DEF BootStep

-----------------------------------------------------------------------------
(* Without files for the boot loader: every file the module knows of is a  *)
(* kernel's.                                                               *)
KernelFiles ==
  /\ ctx.is_upg_process \/ pc = "tx_erase" => ctx.file_type = "KERNEL"
  /\ waitNv.is_upg_process => waitNv.file_type = "KERNEL"
  /\ nv.mode # "NORMAL" => nv.file_type = "KERNEL"

LEMMA KernelFilesStep ==
  ASSUME CoreInv, HeadCfg, KernelFiles, BootFiles = {}, [UpgNext]_vars
  PROVE  KernelFiles'
<1>0. /\ UpgTypeOK
      /\ ctx \in Ctx /\ nv \in Cfg /\ cfg \in Cfg /\ cont \in {"idle", "tx_start"}
      /\ waitNv \in WaitMode
      /\ \A i \in Images : FileType(i) = "KERNEL"
  BY DEF CoreInv, UpgTypeOK, FileType
<1>1. CASE UNCHANGED vars
  BY <1>1 DEF vars, persistent, app, KernelFiles
<1>2. CASE PowerCut
  BY <1>2 DEF PowerCut, ClearApp, ClearedCtx, KernelFiles
<1>3. CASE BootStep /\ UNCHANGED <<app, history>>
  <2>1. UNCHANGED <<waitNv, ctx>> /\ pc' # "tx_erase"
    BY <1>3 DEF BootStep, execute_upg_boot, boot_head, boot_upg_kernel_process, EraseTarget,
       Decompress, Recheck, Restart, boot_kernel, app, persistent
  <2>. QED
    BY <1>3, <2>1, StartNv DEF KernelFiles
<1>4. CASE hi_upg_init
  <2>1. /\ UNCHANGED waitNv /\ pc' # "tx_erase"
        /\ ctx'.is_upg_process = ctx.is_upg_process /\ ctx'.file_type = ctx.file_type
    BY <1>0, <1>4 DEF hi_upg_init, upg_refresh_nv, ForgetRefresh, upg_mode_init, app, Ctx
  <2>. QED
    BY <1>4, <2>1, StartNv DEF KernelFiles
<1>5. CASE CallStep
  <2>1. CASE hi_upg_stop \/ StopErase \/ AlreadyStarted
    BY <2>1 DEF hi_upg_stop, StopErase, AlreadyStarted, UpgStop, persistent, app, KernelFiles
  <2>2. CASE StopBegin \/ (\E p \in Packet : hi_upg_transmit(p))
    <3>1. waitNv' = waitNv \/ ~waitNv'.is_upg_process
      BY <1>0, <2>2, WaitEither DEF StopBegin, hi_upg_transmit
    <3>. QED
      BY <1>0, <2>2, <3>1 DEF StopBegin, hi_upg_transmit, Return, KernelFiles
  <2>3. CASE StopSave
    <3>1. pc' # "tx_erase" /\ UNCHANGED waitNv
      BY <1>0, <2>3 DEF StopSave, Return
    <3>2. ~ctx'.is_upg_process \/ UNCHANGED ctx
      BY <2>3 DEF StopSave, ClearedCtx
    <3>3. nv' = nv \/ nv'.mode = "NORMAL"
      <4>1. \/ nv' = nv
            \/ \E a \in {0, nv.addr_write} :
                 nv' = [nv EXCEPT !.addr_write = a, !.mode = "NORMAL",
                                  !.file_type = "NONE", !.refresh_nv = "NO"]
        BY <2>3, SaveEither DEF StopSave
      <4>. QED
        BY <1>0, <4>1 DEF Cfg
    <3>. QED
      BY <3>1, <3>2, <3>3 DEF KernelFiles
  <2>4. CASE ClearUpgMode
    <3>1. UNCHANGED <<ctx, waitNv>> /\ pc' # "tx_erase"
      BY <2>4 DEF ClearUpgMode, UpgStop
    <3>2. nv' = nv \/ nv' = [nv EXCEPT !.mode = "NORMAL"]
      BY <2>4, SaveEither DEF ClearUpgMode
    <3>. QED
      BY <1>0, <3>1, <3>2 DEF KernelFiles, Cfg
  <2>5. CASE StartUpgrade
    <3>1. UNCHANGED <<nv, waitNv>> /\ packet \in Packet /\ ~ctx.is_upg_process
      BY <2>5 DEF StartUpgrade, persistent, CoreInv, SessionCore, TxPC
    <3>2. packet.image \in Images
      BY <3>1 DEF Packet
    <3>3. \/ pc' # "tx_erase" /\ UNCHANGED ctx
          \/ ctx' = [ctx EXCEPT !.file_len = FileLen[packet.image],
                                !.file_type = FileType(packet.image), !.cache_size = 0]
      BY <2>5 DEF StartUpgrade, Return, UpgStop
    <3>4. ~ctx'.is_upg_process /\ (pc' = "tx_erase" => ctx'.file_type = "KERNEL")
      BY <1>0, <3>1, <3>2, <3>3 DEF Ctx
    <3>. QED
      BY <3>1, <3>4 DEF KernelFiles
  <2>6. CASE EraseCache
    <3>1. UNCHANGED <<nv, waitNv>> /\ pc = "tx_erase" /\ ctx'.file_type = ctx.file_type
      BY <1>0, <2>6 DEF EraseCache, Ctx
    <3>. QED
      BY <3>1 DEF KernelFiles
  <2>7. CASE WriteCache
    <3>1. /\ UNCHANGED <<nv, waitNv>> /\ pc' # "tx_erase" /\ ctx'.file_type = ctx.file_type
          /\ ctx'.is_upg_process = ctx.is_upg_process
      BY <1>0, <2>7 DEF WriteCache, Return, UpgStop, Ctx
    <3>. QED
      BY <3>1 DEF KernelFiles
  <2>8. CASE hi_upg_transmit_finish
    <3>1. /\ UNCHANGED waitNv /\ pc' # "tx_erase" /\ ctx'.file_type = ctx.file_type
          /\ ctx'.is_upg_process = ctx.is_upg_process /\ ctx.is_upg_process
      BY <1>0, <2>8 DEF hi_upg_transmit_finish, UpgStop, Ctx
    <3>2. nv' = nv \/ nv'.file_type = ctx.file_type
      <4>1. \/ nv' = nv
            \/ \E a \in {nv.addr_write, ctx.file_addr} : \E r \in {nv.refresh_nv, "REFRESH"} :
                 \E k \in {nv.reset_cnt, 0} :
                   nv' = [nv EXCEPT !.addr_write = a, !.refresh_nv = r, !.reset_cnt = k,
                                    !.mode = "UPGRADE", !.file_type = ctx.file_type]
        BY <2>8, SaveEither DEF hi_upg_transmit_finish
      <4>. QED
        BY <1>0, <4>1 DEF Cfg
    <3>. QED
      BY <3>1, <3>2 DEF KernelFiles
  <2>9. CASE hi_upg_finish \/ ClearAndReboot
    <3>1. UNCHANGED nv /\ waitNv' \in {waitNv, NoWait} /\ pc' # "tx_erase"
      BY <2>9, SaveEither DEF hi_upg_finish, ClearAndReboot, Reboot, UpgStop, persistent
    <3>2. ctx' = ClearedCtx \/ UNCHANGED ctx
      BY <2>9 DEF hi_upg_finish, ClearAndReboot, Reboot, ClearApp
    <3>. QED
      BY <3>1, <3>2 DEF ClearedCtx, NoWait, KernelFiles
  <2>10. CASE hi_upg_transmit_finish_save_cache
    <3>1. UNCHANGED <<ctx, waitNv>> /\ pc' # "tx_erase" /\ ctx.is_upg_process
      BY <2>10 DEF hi_upg_transmit_finish_save_cache, UpgStop
    <3>2. nv' = nv \/ nv'.file_type = ctx.file_type
      <4>1. \/ nv' = nv
            \/ \E r \in {nv.refresh_nv, "REFRESH_WAIT"} : \E k \in {nv.reset_cnt, 0} :
                 nv' = [nv EXCEPT !.refresh_nv = r, !.reset_cnt = k, !.mode = "UPGRADE_WAIT",
                                  !.file_type = ctx.file_type, !.addr_write = ctx.file_addr]
        BY <2>10, SaveEither DEF hi_upg_transmit_finish_save_cache
      <4>. QED
        BY <1>0, <4>1 DEF Cfg
    <3>. QED
      BY <3>1, <3>2 DEF KernelFiles
  <2>11. CASE SaveWaitMode
    <3>1. UNCHANGED <<ctx, nv>> /\ pc' # "tx_erase" /\ ctx.is_upg_process
      BY <2>11 DEF SaveWaitMode, UpgStop, CoreInv, SessionCore
    <3>2. \/ waitNv' = waitNv
          \/ waitNv' = [is_upg_process |-> ctx.is_upg_process, trans_finish_flag |-> TRUE,
                        file_addr |-> ctx.file_addr, file_type |-> ctx.file_type]
      BY <2>11, SaveEither DEF SaveWaitMode
    <3>. QED
      BY <3>1, <3>2 DEF KernelFiles
  <2>12. CASE hi_upg_finish_with_cache
    <3>1. /\ UNCHANGED waitNv /\ pc' # "tx_erase" /\ ctx'.file_type = "KERNEL"
          /\ nv.mode # "NORMAL"
      BY <1>0, <2>12 DEF hi_upg_finish_with_cache, UpgStop, Ctx, KernelFiles
    <3>2. nv'.file_type = nv.file_type
      <4>1. \/ nv' = nv
            \/ \E a \in {nv.addr_write, waitNv.file_addr} : \E r \in {nv.refresh_nv, "REFRESH"} :
                 nv' = [nv EXCEPT !.addr_write = a, !.refresh_nv = r, !.mode = "UPGRADE"]
        BY <2>12, SaveEither DEF hi_upg_finish_with_cache
      <4>. QED
        BY <1>0, <4>1 DEF Cfg
    <3>. QED
      BY <3>1, <3>2 DEF KernelFiles
  <2>13. CASE hi_upg_get_content
    <3>1. /\ UNCHANGED <<nv, waitNv>> /\ pc' # "tx_erase" /\ ctx'.file_type = ctx.file_type
          /\ ctx'.is_upg_process = ctx.is_upg_process
      BY <1>0, <2>13 DEF hi_upg_get_content, Ctx, persistent
    <3>. QED
      BY <3>1 DEF KernelFiles
  <2>. QED
    BY <1>5, <2>1, <2>2, <2>3, <2>4, <2>5, <2>6, <2>7, <2>8, <2>9, <2>10, <2>11, <2>12,
       <2>13, CallActions
<1>. QED
  BY <1>1, <1>2, <1>3, <1>4, <1>5 DEF UpgNext, Step

-----------------------------------------------------------------------------
(* With flash that never fails: the user NV area belongs to the kernel that *)
(* runs, or NV says that it is to be refreshed, from before the moment the *)
(* boot loader can replace the kernel until the refresh is done.           *)
OnItsWay ==
  \/ pc \in {"erase", "copy", "recheck"}
  \/ pc \in {"head", "process"} /\ verify_addr # AddrStart

Fits == normalNv # None /\ KernelAt(normalNv)

RefreshInv ==
  /\ pc \in {"idle", "mode_init", "mode_init2"} \cup CallPC => Fits
  /\ pc \in BootPC \cup {"init"} => Fits \/ nv.refresh_nv = "REFRESH"
  /\ nv.mode = "UPGRADE" \/ OnItsWay => nv.refresh_nv = "REFRESH"

LEMMA FitsKept ==
  ASSUME CoreInv, Fits, UNCHANGED normalNv,
         UNCHANGED flash \/ (pc \in AppPC /\ (hi_upg_init \/ CallStep \/ PowerCut))
  PROVE  Fits'
<1>1. PICK i \in KernelImages : i = normalNv /\ KernelAt(i)
  BY DEF Fits, CoreInv, UpgTypeOK
<1>2. KernelAt(i)'
  BY <1>1, FlashSame, RunningKept
<1>3. i = normalNv'
  BY <1>1
<1>. QED
  BY <1>2, <1>3, ImagesAssumption DEF Fits, KernelImages, KernelAt

(* The boot loader turns to another area only in an upgrade, or because    *)
(* area A holds no kernel.                                                 *)
LEMMA RefreshTurn ==
  ASSUME CoreInv, HeadCfg, RefreshInv, execute_upg_boot \/ boot_head
  PROVE  RefreshInv'
<1>0. /\ nv \in Cfg /\ nv'.refresh_nv \in {nv.refresh_nv, "REFRESH"}
      /\ nv'.mode \in {nv.mode, "NORMAL"}
  BY StartNv DEF BootStep, CoreInv, UpgTypeOK
<1>1. /\ pc \in {"reset", "head"} /\ pc' \in {"reset", "head", "process"}
      /\ UNCHANGED <<flash, normalNv>>
  BY DEF execute_upg_boot, boot_head, Restart
<1>2. ASSUME OnItsWay' => nv.refresh_nv = "REFRESH"
      PROVE  RefreshInv'
  BY <1>0, <1>1, <1>2, FitsKept DEF RefreshInv, BootPC, CallPC
<1>3. CASE execute_upg_boot
  <2>1. verify_addr' # AddrStart => nv.mode = "UPGRADE"
    BY <1>3 DEF execute_upg_boot, boot_upg_init_verify_addr, change_area
  <2>2. OnItsWay' => verify_addr' # AddrStart
    BY <1>1 DEF OnItsWay, AddrStart
  <2>. QED
    BY <1>2, <2>1, <2>2 DEF RefreshInv
<1>4. CASE boot_head
  <2>1. CASE CheckFile(verify_addr) \/ pc' = "reset"
    <3>1. OnItsWay' => OnItsWay
      BY <1>1, <1>4, <2>1 DEF boot_head, boot, OnItsWay, AddrStart
    <3>. QED
      BY <1>2, <3>1 DEF RefreshInv
  <2>2. CASE ~CheckFile(verify_addr)
    <3>1. CASE verify_addr # AddrStart
      BY <1>2, <1>4, <3>1 DEF boot_head, OnItsWay, RefreshInv
    <3>2. CASE verify_addr = AddrStart
      <4>1. ~Fits
        BY <2>2, <3>2 DEF CheckFile, KernelValid, Fits, CoreInv, UpgTypeOK
      <4>. QED
        BY <1>1, <1>2, <4>1 DEF RefreshInv, BootPC
    <3>. QED
      BY <3>1, <3>2
  <2>. QED
    BY <2>1, <2>2
<1>. QED
  BY <1>3, <1>4

LEMMA RefreshBootStep ==
  ASSUME CoreInv, HeadCfg, RefreshInv, BootStep
  PROVE  RefreshInv'
<1>1. CASE boot_upg_kernel_process
  <2>1. /\ pc = "process" /\ UNCHANGED <<flash, nv, normalNv>>
        /\ pc' \in {"erase", "init", "reset"}
    BY <1>1 DEF boot_upg_kernel_process, Restart, boot_kernel, persistent
  <2>2. OnItsWay' => OnItsWay
    <3>1. CASE pc' # "erase"
      BY <2>1, <3>1 DEF OnItsWay
    <3>2. CASE pc' = "erase"
      <4>1. PICK i \in KernelImages : FileAt(i, verify_addr)
        BY <1>1, <3>2 DEF boot_upg_kernel_process, boot_kernel, Restart
      <4>2. 1 \in 1..FileLen[i] /\ i \in Images
        BY Sizes
      <4>3. verify_addr # AddrStart
        BY <4>1, <4>2 DEF FileAt, AddrStart, CoreInv, StartFree
      <4>. QED
        BY <2>1, <4>3 DEF OnItsWay
    <3>. QED
      BY <3>1, <3>2
  <2>. QED
    BY <2>1, <2>2, FitsKept DEF RefreshInv, BootPC, CallPC
<1>2. CASE EraseTarget \/ Decompress \/ Recheck
  <2>1. /\ pc \in {"erase", "copy", "recheck"} /\ UNCHANGED nv
        /\ pc' \in BootPC \cup {"init"}
    BY <1>2 DEF EraseTarget, Decompress, Recheck, Restart, boot_kernel, persistent, BootPC
  <2>. QED
    BY <2>1 DEF OnItsWay, RefreshInv, BootPC, CallPC
<1>. QED
  BY <1>1, <1>2, RefreshTurn DEF BootStep

LEMMA RefreshAppStep ==
  ASSUME RefreshInv, Fits', pc' \in AppPC \cup {"reset"},
         nv'.mode = "UPGRADE" => nv'.refresh_nv = "REFRESH"
  PROVE  RefreshInv'
BY DEF RefreshInv, OnItsWay, AppPC, InitPC, CallPC, BootPC

LEMMA RefreshInitStep ==
  ASSUME CoreInv, HeadCfg, RefreshInv, "flash" \notin Faults, hi_upg_init
  PROVE  RefreshInv'
<1>1. pc \in AppPC /\ pc' \in AppPC /\ UNCHANGED flash
  BY DEF hi_upg_init, upg_refresh_nv, ForgetRefresh, upg_mode_init, AppPC, InitPC
<1>2. nv'.mode = "UPGRADE" => nv'.refresh_nv = "REFRESH"
  BY StartNv DEF RefreshInv
<1>3. CASE upg_refresh_nv
  <2>1. CASE upg_is_refresh_nv
    <3>1. PICK i \in KernelImages : KernelAt(i) /\ normalNv' = i
      BY <1>3, <2>1 DEF upg_refresh_nv
    <3>2. KernelAt(i)' /\ i # None
      BY <1>1, <3>1, FlashSame, ImagesAssumption DEF KernelImages
    <3>3. Fits'
      BY <3>1, <3>2 DEF Fits, KernelAt
    <3>. QED
      BY <1>1, <1>2, <3>3, RefreshAppStep
  <2>2. CASE ~upg_is_refresh_nv
    <3>1. Fits /\ UNCHANGED normalNv
      BY <1>3, <2>2 DEF upg_refresh_nv, upg_is_refresh_nv, RefreshInv
    <3>. QED
      BY <1>1, <1>2, <3>1, FitsKept, RefreshAppStep
  <2>. QED
    BY <2>1, <2>2
<1>4. CASE ForgetRefresh \/ upg_mode_init
  <2>1. Fits /\ UNCHANGED normalNv
    BY <1>4 DEF ForgetRefresh, upg_mode_init, RefreshInv
  <2>. QED
    BY <1>1, <1>2, <2>1, FitsKept, RefreshAppStep
<1>. QED
  BY <1>3, <1>4 DEF hi_upg_init

LEMMA RefreshCallStep ==
  ASSUME CoreInv, KernelFiles, RefreshInv, BootFiles = {}, CallStep
  PROVE  RefreshInv'
<1>0. /\ ctx \in Ctx /\ nv \in Cfg /\ waitNv \in WaitMode
  BY DEF CoreInv, UpgTypeOK
<1>1. /\ pc \in {"idle"} \cup CallPC /\ pc \in AppPC /\ UNCHANGED normalNv
      /\ pc' \in AppPC \cup {"reset"}
  BY CallFrom DEF CoreInv, AppPC
<1>2. Fits'
  BY <1>1, FitsKept DEF RefreshInv
<1>3. nv'.mode = "UPGRADE" => nv'.refresh_nv = "REFRESH"
  <2>1. CASE UNCHANGED nv
    BY <2>1 DEF RefreshInv
  <2>2. CASE StopSave
    <3>1. \/ nv' = nv
          \/ \E a \in {0, nv.addr_write} :
               nv' = [nv EXCEPT !.addr_write = a, !.mode = "NORMAL",
                                !.file_type = "NONE", !.refresh_nv = "NO"]
      BY <2>2, SaveEither DEF StopSave
    <3>. QED
      BY <1>0, <2>1, <3>1 DEF Cfg
  <2>3. CASE ClearUpgMode
    <3>1. nv' = nv \/ nv' = [nv EXCEPT !.mode = "NORMAL"]
      BY <2>3, SaveEither DEF ClearUpgMode
    <3>. QED
      BY <1>0, <2>1, <3>1 DEF Cfg
  <2>4. CASE hi_upg_transmit_finish
    <3>1. ctx.file_type = "KERNEL"
      BY <2>4 DEF hi_upg_transmit_finish, KernelFiles
    <3>2. \/ nv' = nv
          \/ nv' = [nv EXCEPT !.addr_write = ctx.file_addr, !.refresh_nv = "REFRESH",
                              !.reset_cnt = 0, !.mode = "UPGRADE",
                              !.file_type = ctx.file_type]
      BY <2>4, <3>1, SaveEither DEF hi_upg_transmit_finish
    <3>. QED
      BY <1>0, <2>1, <3>2 DEF Cfg
  <2>5. CASE hi_upg_transmit_finish_save_cache
    <3>1. \/ nv' = nv
          \/ \E r \in {nv.refresh_nv, "REFRESH_WAIT"} : \E k \in {nv.reset_cnt, 0} :
               nv' = [nv EXCEPT !.refresh_nv = r, !.reset_cnt = k, !.mode = "UPGRADE_WAIT",
                                !.file_type = ctx.file_type, !.addr_write = ctx.file_addr]
      BY <2>5, SaveEither DEF hi_upg_transmit_finish_save_cache
    <3>. QED
      BY <1>0, <2>1, <3>1 DEF Cfg
  <2>6. CASE hi_upg_finish_with_cache
    <3>1. waitNv.file_type = "KERNEL"
      BY <2>6 DEF hi_upg_finish_with_cache, KernelFiles
    <3>2. \/ nv' = nv
          \/ nv' = [nv EXCEPT !.addr_write = waitNv.file_addr, !.refresh_nv = "REFRESH",
                              !.mode = "UPGRADE"]
      BY <2>6, <3>1, SaveEither DEF hi_upg_finish_with_cache
    <3>. QED
      BY <1>0, <2>1, <3>2 DEF Cfg
  <2>. QED
    BY <2>1, <2>2, <2>3, <2>4, <2>5, <2>6, CallActions DEF hi_upg_stop, StopBegin, StopErase,
       hi_upg_transmit, StartUpgrade, AlreadyStarted, EraseCache, WriteCache, hi_upg_finish,
       SaveWaitMode, ClearAndReboot, hi_upg_get_content, persistent
<1>. QED
  BY <1>1, <1>2, <1>3, RefreshAppStep

LEMMA RefreshStepInv ==
  ASSUME CoreInv, HeadCfg, KernelFiles, RefreshInv, "flash" \notin Faults, BootFiles = {},
         [UpgNext]_vars
  PROVE  RefreshInv'
<1>1. CASE UNCHANGED vars
  BY <1>1 DEF vars, persistent, boot, RefreshInv, Fits, OnItsWay, KernelAt, AddrStart
<1>2. CASE PowerCut
  <2>1. /\ pc' = "reset" /\ UNCHANGED nv
        /\ UNCHANGED normalNv \/ (pc = "init" /\ upg_is_refresh_nv)
    BY <1>2 DEF PowerCut
  <2>2. Fits' \/ nv.refresh_nv = "REFRESH"
    <3>1. CASE pc = "init" /\ upg_is_refresh_nv
      BY <3>1 DEF upg_is_refresh_nv, RefreshInv
    <3>2. CASE ~(pc = "init" /\ upg_is_refresh_nv) /\ pc \in AppPC
      BY <1>2, <2>1, <3>2, FitsKept DEF RefreshInv, AppPC, InitPC
    <3>3. CASE pc \in {"erase", "copy"}
      BY <3>3 DEF RefreshInv, OnItsWay
    <3>4. CASE pc \in BootPC \ {"erase", "copy"}
      <4>1. UNCHANGED <<flash, normalNv>>
        BY <1>2, <2>1, <3>4 DEF PowerCut, BusyBlocks, BootPC
      <4>. QED
        BY <3>4, <4>1, FitsKept DEF RefreshInv
    <3>. QED
      BY <3>1, <3>2, <3>3, <3>4 DEF CoreInv, UpgTypeOK
  <2>. QED
    BY <2>1, <2>2 DEF RefreshInv, OnItsWay, CallPC
<1>. QED
  BY <1>1, <1>2, RefreshBootStep, RefreshInitStep, RefreshCallStep DEF UpgNext, Step

LEMMA FactoryKernel ==
  ASSUME UpgInit
  PROVE  Factory \in KernelImages /\ Factory # None /\ KernelAt(Factory)
<1>1. Factory \in KernelImages /\ Factory # None
  BY ImagesAssumption DEF KernelImages
<1>2. \A k \in 1..KernelLen[Factory] : k \in Addr
  BY <1>1, KernelFits, Sizes DEF Addr
<1>. QED
  BY <1>1, <1>2 DEF UpgInit, KernelAt

(* On a device that is sent kernels only and whose flash does not fail     *)
(* (NV may): the application never runs with the user NV area of another   *)
(* kernel, wherever the power was cut since the upgrade (NvMatchesKernel). *)
THEOREM NvIsRefreshed ==
  ASSUME "flash" \notin Faults, BootFiles = {}
  PROVE  UpgSpec => []NvMatchesKernel
<1>. DEFINE IInv == CoreInv /\ HeadCfg /\ KernelFiles /\ RefreshInv
<1>1. UpgInit => IInv
  <2>. SUFFICES ASSUME UpgInit PROVE IInv
    OBVIOUS
  <2>1. HeadCfg /\ KernelFiles
    BY DEF UpgInit, HeadCfg, KernelFiles, FactoryCfg, NoWait, ClearedCtx
  <2>2. Fits
    BY FactoryKernel DEF UpgInit, Fits
  <2>3. RefreshInv
    BY <2>2 DEF UpgInit, FactoryCfg, RefreshInv, OnItsWay, CallPC
  <2>. QED
    BY <2>1, <2>3, CoreInit
<1>2. IInv /\ [UpgNext]_vars => IInv'
  BY CoreNext, HeadCfgStep, KernelFilesStep, RefreshStepInv
<1>3. IInv => NvMatchesKernel
  BY DEF RefreshInv, Fits, NvMatchesKernel
<1>. QED
  BY <1>1, <1>2, <1>3, PTL DEF UpgSpec

-----------------------------------------------------------------------------
(* A file put aside: nothing but a call of the application touches it or   *)
(* the NV items that describe it, and restarts lead back to the kernel.    *)
SavedInv ==
  saved # None =>
    /\ pc \in {"reset", "head", "process", "idle", "stop"} \cup InitPC
    /\ nv.mode = "UPGRADE_WAIT" /\ nv.reset_cnt = 0
    /\ waitNv.is_upg_process /\ waitNv.trans_finish_flag
    /\ waitNv.file_type = FileType(saved) /\ FileAt(saved, waitNv.file_addr)
    /\ KernelValid
    /\ pc \in {"head", "process"} => verify_addr = AddrStart

(* Before the second item is written the first says that no start is to be *)
(* counted, and the type that is written is the file's.                    *)
SaveReady ==
  pc = "save_wait" =>
    /\ nv.reset_cnt = 0
    /\ \A i \in Images : FileAt(i, ctx.file_addr) => ctx.file_type = FileType(i)

LEMMA SavedKept ==
  ASSUME SavedInv, UNCHANGED <<flash, waitNv, saved>>,
         saved # None =>
           /\ nv'.mode = "UPGRADE_WAIT" /\ nv'.reset_cnt = 0
           /\ pc' \in {"reset", "head", "process", "idle", "stop"} \cup InitPC
           /\ pc' \in {"head", "process"} => verify_addr' = AddrStart
  PROVE  SavedInv'
<1>1. saved # None => FileAt(saved, waitNv.file_addr)' /\ KernelValid'
  <2>1. FileAt(saved, waitNv.file_addr) => FileAt(saved, waitNv.file_addr)'
    BY DEF FileAt
  <2>2. KernelValid => KernelValid'
    BY DEF KernelValid, KernelAt
  <2>. QED
    BY <2>1, <2>2 DEF SavedInv
<1>. QED
  BY <1>1 DEF SavedInv, FileType, AddrStart

LEMMA NoneSaved ==
  ASSUME saved' = None
  PROVE  SavedInv'
BY DEF SavedInv

LEMMA SavedBootStep ==
  ASSUME CoreInv, SavedInv, BootStep, UNCHANGED <<app, history>>
  PROVE  SavedInv'
<1>. USE DEF history
<1>1. CASE saved = None
  BY <1>1, NoneSaved
<1>2. CASE saved # None
  <2>1. /\ pc \in {"reset", "head", "process"}
        /\ nv.mode = "UPGRADE_WAIT" /\ nv.reset_cnt = 0 /\ KernelValid
        /\ pc \in {"head", "process"} => verify_addr = AddrStart
    BY <1>2, StepFrom DEF SavedInv, InitPC, BootPC
  <2>2. CASE pc = "reset"
    <3>1. execute_upg_boot
      BY <2>2 DEF BootStep, execute_upg_boot, boot_head, boot_upg_kernel_process,
         EraseTarget, Decompress, Recheck
    <3>2. nv' = nv
      BY <2>1, <3>1, SaveEither DEF execute_upg_boot
    <3>3. pc' = "head" /\ verify_addr' = AddrStart /\ UNCHANGED <<flash, waitNv>>
      BY <2>1, <3>1 DEF execute_upg_boot, boot_upg_init_verify_addr
    <3>. QED
      BY <2>1, <3>2, <3>3, SavedKept
  <2>3. CASE pc = "head"
    <3>1. boot_head /\ CheckFile(verify_addr)
      BY <2>1, <2>3 DEF BootStep, execute_upg_boot, boot_head, boot_upg_kernel_process,
         EraseTarget, Decompress, Recheck, CheckFile
    <3>2. pc' = "process" /\ UNCHANGED <<nv, flash, waitNv, verify_addr>>
      BY <3>1 DEF boot_head, boot
    <3>. QED
      BY <2>1, <2>3, <3>2, SavedKept
  <2>4. CASE pc = "process"
    <3>1. boot_upg_kernel_process
      BY <2>4 DEF BootStep, execute_upg_boot, boot_head, boot_upg_kernel_process,
         EraseTarget, Decompress, Recheck
    <3>2. cfg.addr_write = nv.addr_write
      BY <2>4 DEF CoreInv, BootCore, BootPC
    <3>3. nv.addr_write # AddrStart
      <4>1. PICK i \in KernelImages : KernelAt(i)
        BY <2>1 DEF KernelValid
      <4>2. nv.addr_write = 0 \/ KernelLen[i] < nv.addr_write
        BY <4>1 DEF CoreInv, NvAboveKernel
      <4>. QED
        BY <4>2, Sizes DEF AddrStart
    <3>4. boot_kernel /\ UNCHANGED <<nv, flash, waitNv>>
      BY <2>1, <2>4, <3>1, <3>2, <3>3 DEF boot_upg_kernel_process, persistent
    <3>. QED
      BY <2>1, <3>4, SavedKept DEF boot_kernel, InitPC
  <2>. QED
    BY <2>1, <2>2, <2>3, <2>4
<1>. QED
  BY <1>1, <1>2

LEMMA SavedInitStep ==
  ASSUME CoreInv, SavedInv, hi_upg_init, UNCHANGED <<boot, history>>
  PROVE  SavedInv'
<1>. USE DEF history
<1>1. CASE saved = None
  BY <1>1, NoneSaved
<1>2. CASE saved # None
  <2>1. nv.mode = "UPGRADE_WAIT" /\ nv.reset_cnt = 0 /\ nv \in Cfg
    BY <1>2 DEF SavedInv, CoreInv, UpgTypeOK
  <2>2. nv' = nv \/ nv' = [nv EXCEPT !.refresh_nv = "NO"]
    BY <2>1, SaveEither DEF hi_upg_init, upg_refresh_nv, ForgetRefresh, upg_mode_init
  <2>3. nv'.mode = "UPGRADE_WAIT" /\ nv'.reset_cnt = 0
    BY <2>1, <2>2 DEF Cfg
  <2>. QED
    BY <2>3, StepFrom, SavedKept DEF InitPC
<1>. QED
  BY <1>1, <1>2

LEMMA SavedCallStep ==
  ASSUME CoreInv, SavedInv, SaveReady, CallStep, UNCHANGED boot
  PROVE  SavedInv'
<1>1. CASE SaveWaitMode /\ saved' = (IF pc' = "idle" THEN FileIn(Images, ctx.file_addr) ELSE None)
  <2>1. CASE pc' # "idle" \/ ~\E i \in Images : FileAt(i, ctx.file_addr)
    BY <1>1, <2>1, NoneSaved DEF FileIn
  <2>2. CASE pc' = "idle" /\ \E i \in Images : FileAt(i, ctx.file_addr)
    <3>1. /\ pc = "save_wait" /\ UNCHANGED <<flash, nv, ctx>>
          /\ waitNv' = [is_upg_process |-> ctx.is_upg_process, trans_finish_flag |-> TRUE,
                        file_addr |-> ctx.file_addr, file_type |-> ctx.file_type]
      BY <1>1, <2>2 DEF SaveWaitMode, SaveWait, UpgStop
    <3>2. nv.mode = "UPGRADE_WAIT" /\ nv.reset_cnt = 0 /\ ctx.is_upg_process /\ KernelValid
      BY <3>1 DEF SaveReady, CallPC, AppPC, CoreInv, SessionCore, KernelInv, KernelValid
    <3>3. saved' \in Images /\ FileAt(saved', ctx.file_addr)
      <4>1. saved' = CHOOSE i \in Images : FileAt(i, ctx.file_addr)
        BY <1>1, <2>2 DEF FileIn
      <4>. QED
        BY <2>2, <4>1
    <3>4. ctx.file_type = FileType(saved')
      <4>1. PICK i \in Images : i = saved' /\ FileAt(i, ctx.file_addr)
        BY <3>3
      <4>. QED
        BY <3>1, <4>1 DEF SaveReady
    <3>5. FileAt(saved, waitNv.file_addr)'
      BY <3>1, <3>3 DEF FileAt
    <3>6. KernelValid'
      BY <3>1, <3>2 DEF KernelValid, KernelAt
    <3>. QED
      BY <2>2, <3>1, <3>2, <3>4, <3>5, <3>6 DEF SavedInv, FileType
  <2>. QED
    BY <2>1, <2>2
<1>2. CASE (StopSave \/ hi_upg_transmit_finish_save_cache) /\ UNCHANGED saved
  <2>1. pc = "stop_save" \/ ~waitNv.trans_finish_flag
    BY <1>2 DEF StopSave, hi_upg_transmit_finish_save_cache
  <2>2. saved = None
    BY <2>1 DEF SavedInv, InitPC
  <2>. QED
    BY <1>2, <2>2, NoneSaved
<1>3. CASE /\ \/ hi_upg_stop \/ StopErase
              \/ ClearUpgMode \/ StartUpgrade \/ AlreadyStarted \/ EraseCache \/ WriteCache
              \/ hi_upg_finish \/ ClearAndReboot \/ hi_upg_get_content
           /\ UNCHANGED history
  <2>1. CASE saved = None
    BY <1>3, <2>1, NoneSaved DEF history
  <2>2. CASE saved # None
    <3>1. pc \in {"idle", "stop"}
      BY <1>3, <2>2 DEF SavedInv, InitPC, hi_upg_stop, StopErase, ClearUpgMode, StartUpgrade,
         AlreadyStarted, EraseCache, WriteCache, hi_upg_finish, ClearAndReboot,
         hi_upg_get_content
    <3>2. /\ UNCHANGED <<flash, nv, waitNv>>
          /\ pc' \in {"stop", "reset", "idle"}
      BY <1>3, <3>1 DEF hi_upg_stop, StopErase, ClearUpgMode, StartUpgrade, AlreadyStarted,
         EraseCache, WriteCache, hi_upg_finish, ClearAndReboot, hi_upg_get_content, UpgStop,
         Reboot, persistent
    <3>. QED
      BY <1>3, <2>2, <3>2, SavedKept DEF history, SavedInv
  <2>. QED
    BY <2>1, <2>2
<1>. QED
  BY <1>1, <1>2, <1>3, NoneSaved DEF CallStep, history

LEMMA SavedStep ==
  ASSUME CoreInv, SavedInv, SaveReady, [UpgNext]_vars
  PROVE  SavedInv'
<1>1. CASE UNCHANGED vars
  BY <1>1 DEF vars, persistent, boot, history, SavedInv, FileAt, KernelValid, KernelAt,
     FileType, AddrStart
<1>2. CASE PowerCut
  <2>1. pc' = "reset" /\ UNCHANGED <<nv, waitNv, saved>>
    BY <1>2 DEF PowerCut, history
  <2>2. CASE saved = None
    BY <2>1, <2>2, NoneSaved
  <2>3. CASE saved # None
    <3>1. UNCHANGED flash
      BY <1>2, <2>3 DEF PowerCut, SavedInv, BusyBlocks, InitPC
    <3>. QED
      BY <2>1, <2>3, <3>1, SavedKept DEF SavedInv
  <2>. QED
    BY <2>2, <2>3
<1>. QED
  BY <1>1, <1>2, SavedBootStep, SavedInitStep, SavedCallStep DEF UpgNext, Step

(* Kernels only: that a file is put aside resets the count of starts.      *)
CountReset == pc = "save_wait" => nv.reset_cnt = 0

LEMMA CountResetStep ==
  ASSUME CoreInv, KernelFiles, CountReset, [UpgNext]_vars
  PROVE  CountReset'
<1>1. CASE hi_upg_transmit_finish_save_cache
  <2>1. nv \in Cfg /\ ctx.file_type = "KERNEL"
    BY <1>1 DEF CoreInv, UpgTypeOK, KernelFiles, hi_upg_transmit_finish_save_cache
  <2>2. pc' = "save_wait" =>
          nv' = [nv EXCEPT !.refresh_nv = "REFRESH_WAIT", !.reset_cnt = 0,
                           !.mode = "UPGRADE_WAIT", !.file_type = ctx.file_type,
                           !.addr_write = ctx.file_addr]
    BY <1>1, <2>1 DEF hi_upg_transmit_finish_save_cache, SaveCfg, UpgStop
  <2>. QED
    BY <2>1, <2>2 DEF CountReset, Cfg
<1>2. CASE ~hi_upg_transmit_finish_save_cache /\ UpgNext
  <2>1. CASE CallStep
    <3>1. cont \in {"idle", "tx_start"}
      BY DEF CoreInv, UpgTypeOK
    <3>2. pc' # "save_wait"
      BY <1>2, <2>1, <3>1, CallActions DEF hi_upg_stop, StopBegin, StopErase, StopSave,
         hi_upg_transmit, ClearUpgMode, StartUpgrade, AlreadyStarted, EraseCache, WriteCache,
         hi_upg_transmit_finish, hi_upg_finish, SaveWaitMode, hi_upg_finish_with_cache,
         ClearAndReboot, hi_upg_get_content, UpgStop, Return, Reboot, persistent
    <3>. QED
      BY <3>2 DEF CountReset
  <2>. QED
    BY <1>2, <2>1, StepFrom DEF UpgNext, Step, PowerCut, CountReset, BootPC, InitPC
<1>3. CASE UNCHANGED vars
  BY <1>3 DEF vars, persistent, CountReset
<1>. QED
  BY <1>1, <1>2, <1>3

(* Power may be cut between hi_upg_transmit_finish_save_cache and          *)
(* hi_upg_finish_with_cache, as often as it likes, and writes may fail: on *)
(* a device that is sent kernels only the file is found intact and both NV *)
(* items as they were left (SavedSurvives).                                *)
THEOREM SavedKernelSurvives ==
  ASSUME BootFiles = {}
  PROVE  UpgSpec => []SavedSurvives
<1>. DEFINE IInv == CoreInv /\ HeadCfg /\ KernelFiles /\ CountReset /\ SavedInv
<1>1. UpgInit => IInv
  BY CoreInit DEF UpgInit, HeadCfg, KernelFiles, CountReset, SavedInv, FactoryCfg, NoWait,
     ClearedCtx
<1>2. ASSUME IInv PROVE SaveReady
  <2>1. \A i \in Images : FileType(i) = "KERNEL"
    BY DEF FileType
  <2>. QED
    BY <1>2, <2>1 DEF SaveReady, CountReset, KernelFiles, CoreInv, SessionCore
<1>3. IInv /\ [UpgNext]_vars => IInv'
  BY <1>2, CoreNext, HeadCfgStep, KernelFilesStep, CountResetStep, SavedStep
<1>4. IInv => SavedSurvives
  BY DEF SavedInv, SavedSurvives
<1>. QED
  BY <1>1, <1>3, <1>4, PTL DEF UpgSpec
=============================================================================
