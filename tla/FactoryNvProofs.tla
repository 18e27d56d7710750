-------------------------- MODULE FactoryNvProofs ---------------------------
(***************************************************************************)
(* FactoryNv for any number of blocks from two on, any items and values    *)
(* and any faults: types, an intact current block, a file after every      *)
(* restart, and the implementation of NvStore.  The inductive invariant    *)
(* adds to the checked ones what a write in progress relies on.            *)
(***************************************************************************)
EXTENDS FactoryNv, TLAPS

(* A write in progress has an update, and a result once its copies are     *)
(* done; when the last copy succeeded, the current file has the update and *)
(* no block is newer.                                                      *)
WriteInv ==
  /\ pc = "copy" => update # None
  /\ pc = "off" => ret = "none"
  /\ (pc = "copy" /\ backup_num = 0) => ret # "none"
  /\ (pc = "copy" /\ ret = "success") =>
        /\ block[current].file[update.id] = update.value
        /\ Newer = {}

NvInv == FactoryNvTypeOK /\ CurrentIntact /\ RestartFindsFile /\ WriteInv

LEMMA NextAddrOther ==
  ASSUME current \in Block
  PROVE  nv_next_addr \in Block /\ nv_next_addr # current
  BY BlockCountAssumption, SMT DEF Block, nv_next_addr

LEMMA NewBlockType ==
  ASSUME FactoryNvTypeOK, CurrentIntact, pc = "copy", update # None
  PROVE  /\ NewBlock \in Stored /\ NewBlock # Torn
         /\ NewBlock.seq = seq + 1
         /\ NewBlock.file = [block[current].file EXCEPT ![update.id] = update.value]
         /\ NewBlock.file[update.id] = update.value
<1>1. block[current] \in Stored /\ update \in [id : Item, value : Value] /\ seq \in Nat
  BY DEF FactoryNvTypeOK, CurrentIntact, Intact
<1>2. block[current].file \in [Item -> Value] /\ update.id \in Item /\ update.value \in Value
  BY <1>1 DEF Stored, NvFile
<1>3. [block[current].file EXCEPT ![update.id] = update.value] \in [Item -> Value]
  BY <1>2
<1> QED BY <1>1, <1>2, <1>3, MarksAssumption DEF NewBlock, Stored, NvFile

(* The three outcomes of a write.                                          *)
LEMMA InterruptedType ==
  ASSUME FactoryNvTypeOK, CurrentIntact, pc = "copy", update # None,
         block' \in Interrupted
  PROVE  /\ block' \in [Block -> Stored \cup {Torn}]
         /\ block'[nv_next_addr] \in {block[nv_next_addr], Torn, NewBlock}
         /\ \A b \in Block \ {nv_next_addr} : block'[b] = block[b]
<1>1. PICK x \in {block[nv_next_addr], Torn, NewBlock} :
        block' = [block EXCEPT ![nv_next_addr] = x]
  BY DEF Interrupted
<1>2. nv_next_addr \in Block /\ NewBlock \in Stored
  BY NextAddrOther, NewBlockType DEF FactoryNvTypeOK
<1>3. block \in [Block -> Stored \cup {Torn}] BY DEF FactoryNvTypeOK
<1> QED BY <1>1, <1>2, <1>3

-----------------------------------------------------------------------------
LEMMA NvInit == Init => NvInv
<1> SUFFICES ASSUME Init PROVE NvInv OBVIOUS
<1>1. 0 \in Block BY BlockCountAssumption, SMT DEF Block
<1>2. [seq |-> 0, file |-> Factory] \in Stored BY FactoryAssumption DEF Stored
<1>3. FactoryNvTypeOK
  BY <1>1, <1>2 DEF Init, FactoryNvTypeOK
<1>4. RestartFindsFile
  BY <1>1, <1>2, MarksAssumption DEF Init, RestartFindsFile, Intact
<1> QED BY <1>3, <1>4 DEF Init, NvInv, CurrentIntact, WriteInv

(* A start takes the one block that is newer than all others.              *)
LEMMA NvInitStep == NvInv /\ hi_factory_nv_init => NvInv'
<1> SUFFICES ASSUME NvInv, hi_factory_nv_init PROVE NvInv' OBVIOUS
<1>1. PICK b \in Block : IsLatest(b) /\ StartFrom(b) BY DEF hi_factory_nv_init
<1>2. PICK d \in Block : /\ Intact(d)
                         /\ \A c \in Block \ {d} : Intact(c) => block[c].seq < block[d].seq
  BY <1>1 DEF NvInv, RestartFindsFile, StartFrom
<1>3. \A c \in Block : Intact(c) => block[c].seq \in Nat
  BY DEF NvInv, FactoryNvTypeOK, Intact, Stored
<1>4. b = d BY <1>1, <1>2, <1>3, SMT DEF IsLatest
<1>5. FactoryNvTypeOK'
  BY <1>1, <1>3 DEF NvInv, FactoryNvTypeOK, StartFrom, callVars, IsLatest
<1>6. CurrentIntact'
  BY <1>1, <1>2, <1>4 DEF CurrentIntact, StartFrom, Intact
<1> QED BY <1>1, <1>5, <1>6 DEF NvInv, StartFrom, RestartFindsFile, WriteInv

LEMMA CopiedStep == NvInv /\ Copied => NvInv'
<1> SUFFICES ASSUME NvInv, Copied PROVE NvInv' OBVIOUS
<1>1. /\ pc = "copy" /\ pc' = pc /\ update' = update /\ update # None
      /\ backup_num' = backup_num - 1 /\ backup_num > 0 /\ ret' = "success"
  BY DEF Copied, CopyEnds, NvInv, WriteInv
<1>2. /\ NewBlock \in Stored /\ NewBlock # Torn /\ NewBlock.seq = seq + 1
      /\ NewBlock.file[update.id] = update.value
  BY <1>1, NewBlockType DEF NvInv
<1>3. nv_next_addr \in Block /\ nv_next_addr # current
  BY NextAddrOther DEF NvInv, FactoryNvTypeOK
<1>4. /\ block' \in [Block -> Stored \cup {Torn}]
      /\ block'[nv_next_addr] = NewBlock
      /\ \A b \in Block \ {nv_next_addr} : block'[b] = block[b]
      /\ current' = nv_next_addr /\ seq' = seq + 1
  BY <1>2, <1>3 DEF Copied, NvInv, FactoryNvTypeOK
<1>5. FactoryNvTypeOK'
  BY <1>1, <1>3, <1>4 DEF NvInv, FactoryNvTypeOK
<1>6. \A b \in Block \ {current'} : Intact(b)' => block'[b].seq < seq'
  <2> SUFFICES ASSUME NEW b \in Block, b # nv_next_addr, block[b] # Torn
               PROVE  block[b].seq < seq + 1
    BY <1>4 DEF Intact
  <2>1. block[b].seq <= seq
    <3>1. CASE b = current BY <1>1, <3>1 DEF NvInv, CurrentIntact, FactoryNvTypeOK
    <3>2. CASE b # current
      BY <1>1, <3>2 DEF NvInv, CurrentIntact, Intact, FactoryNvTypeOK, Stored
    <3> QED BY <3>1, <3>2
  <2> QED BY <2>1 DEF NvInv, FactoryNvTypeOK, Stored
<1>7. CurrentIntact'
  BY <1>2, <1>4, <1>6 DEF CurrentIntact, Intact
<1>8. Newer' = {}
  <2>1. ASSUME NEW b \in Block, Intact(b)' PROVE ~(block'[b].seq > seq')
    <3>1. block'[b].seq \in Nat /\ seq' \in Nat
      BY <1>5, <2>1 DEF FactoryNvTypeOK, Intact, Stored
    <3>2. CASE b = current' BY <1>2, <1>4, <3>1, <3>2
    <3>3. CASE b # current' BY <1>6, <2>1, <3>1, <3>3
    <3> QED BY <3>2, <3>3
  <2> QED BY <2>1 DEF Newer
<1>9. WriteInv' BY <1>1, <1>2, <1>4, <1>8 DEF WriteInv
<1> QED BY <1>1, <1>5, <1>7, <1>9 DEF NvInv, RestartFindsFile

(* A write that fails or is cut leaves the current block alone and at most *)
(* the next one newer.                                                     *)
LEMMA InterruptedOthers ==
  ASSUME NvInv, pc = "copy", block' \in Interrupted
  PROVE  /\ block'[current] = block[current]
         /\ \A b \in Block \ {current} : Intact(b)' =>
              block'[b].seq < seq \/ (b = nv_next_addr /\ block'[b].seq = seq + 1)
<1>1. /\ block'[nv_next_addr] \in {block[nv_next_addr], Torn, NewBlock}
      /\ \A b \in Block \ {nv_next_addr} : block'[b] = block[b]
  BY InterruptedType DEF NvInv, WriteInv
<1>2. NewBlock.seq = seq + 1 BY NewBlockType DEF NvInv, WriteInv
<1>3. current \in Block /\ nv_next_addr # current
  BY NextAddrOther DEF NvInv, FactoryNvTypeOK
<1> QED BY <1>1, <1>2, <1>3 DEF NvInv, CurrentIntact, Intact

LEMMA CopyFailsStep == NvInv /\ (CopyFails \/ CopyUnread) => NvInv'
<1> SUFFICES ASSUME NvInv, CopyFails \/ CopyUnread PROVE NvInv' OBVIOUS
<1>1. /\ pc = "copy" /\ pc' = pc /\ update' = update /\ ret' = "failure"
      /\ backup_num' = backup_num - 1 /\ backup_num > 0
      /\ current' = current /\ seq' = seq
  BY DEF CopyFails, CopyUnread, CopyEnds, ramVars
<1>2. CASE CopyUnread
  <2>1. block' = block BY <1>2 DEF CopyUnread
  <2> QED BY <1>1, <2>1 DEF NvInv, FactoryNvTypeOK, CurrentIntact, RestartFindsFile,
                            WriteInv, Intact, nv_next_addr
<1>3. CASE CopyFails
  <2>1. block' \in Interrupted BY <1>3 DEF CopyFails
  <2>2. FactoryNvTypeOK'
    BY <1>1, <2>1, InterruptedType DEF NvInv, FactoryNvTypeOK, WriteInv
  <2>3. CurrentIntact'
    BY <1>1, <2>1, InterruptedOthers DEF NvInv, CurrentIntact, Intact, nv_next_addr
  <2> QED BY <1>1, <2>2, <2>3 DEF NvInv, RestartFindsFile, WriteInv
<1> QED BY <1>2, <1>3

LEMMA PowerCutStep == NvInv /\ PowerCut => NvInv'
<1> SUFFICES ASSUME NvInv, PowerCut PROVE NvInv' OBVIOUS
<1>1. /\ pc # "off" /\ pc' = "off" /\ current' = 0 /\ seq' = 0
      /\ update' = None /\ backup_num' = 0 /\ ret' = "none"
      /\ \/ block' = block
         \/ pc = "copy" /\ block' \in Interrupted
  BY DEF PowerCut
<1>2. block' \in [Block -> Stored \cup {Torn}]
  BY <1>1, InterruptedType DEF NvInv, FactoryNvTypeOK, WriteInv
<1>3. FactoryNvTypeOK'
  <2>1. 0 \in Block BY BlockCountAssumption, SMT DEF Block
  <2> QED BY <1>1, <1>2, <2>1 DEF FactoryNvTypeOK
<1>4. /\ block'[current] = block[current]
      /\ \A b \in Block \ {current} : Intact(b)' =>
           block'[b].seq < seq \/ (b = nv_next_addr /\ block'[b].seq = seq + 1)
  BY <1>1, InterruptedOthers DEF NvInv, CurrentIntact, Intact
<1>5. /\ current \in Block /\ seq \in Nat /\ block'[current] # Torn
      /\ block'[current].seq = seq /\ nv_next_addr \in Block /\ nv_next_addr # current
  BY <1>1, <1>4, NextAddrOther DEF NvInv, FactoryNvTypeOK, CurrentIntact, Intact
<1>6. \A b \in Block : Intact(b)' => block'[b].seq \in Nat
  BY <1>2 DEF Intact, Stored
<1>7. RestartFindsFile'
  <2>1. CASE block'[nv_next_addr] # Torn /\ block'[nv_next_addr].seq = seq + 1
    <3>1. \A c \in Block \ {nv_next_addr} : Intact(c)' => block'[c].seq < seq + 1
      BY <1>4, <1>5, <1>6
    <3> QED BY <2>1, <3>1, <1>5 DEF RestartFindsFile, Intact
  <2>2. CASE ~(block'[nv_next_addr] # Torn /\ block'[nv_next_addr].seq = seq + 1)
    <3>1. \A c \in Block \ {current} : Intact(c)' => block'[c].seq < block'[current].seq
      BY <1>4, <1>5, <1>6, <2>2 DEF Intact
    <3> QED BY <3>1, <1>5 DEF RestartFindsFile, Intact
  <2> QED BY <2>1, <2>2
<1> QED BY <1>1, <1>3, <1>7 DEF NvInv, CurrentIntact, WriteInv

LEMMA NvStep == NvInv /\ [Next]_vars => NvInv'
<1> SUFFICES ASSUME NvInv, [Next]_vars PROVE NvInv' OBVIOUS
<1>1. CASE hi_factory_nv_init BY <1>1, NvInitStep
<1>2. ASSUME NEW id \in Item, NEW v \in Value, NothingToWrite(id, v) PROVE NvInv'
  BY <1>2 DEF NvInv, FactoryNvTypeOK, CurrentIntact, RestartFindsFile, WriteInv,
              NothingToWrite, ramVars, Intact, nv_next_addr
<1>3. ASSUME NEW id \in Item, NEW v \in Value, hi_factory_nv_write(id, v) PROVE NvInv'
  <2>1. [id |-> id, value |-> v] \in [id : Item, value : Value] OBVIOUS
  <2>2. [id |-> id, value |-> v] # None BY <2>1, MarksAssumption
  <2> QED BY <1>3, <2>1, <2>2
        DEF NvInv, FactoryNvTypeOK, CurrentIntact, RestartFindsFile, WriteInv,
            hi_factory_nv_write, ramVars, Intact, nv_next_addr
<1>4. CASE Copied BY <1>4, CopiedStep
<1>5. CASE CopyFails \/ CopyUnread BY <1>5, CopyFailsStep
<1>6. CASE WriteReturns
  BY <1>6 DEF NvInv, FactoryNvTypeOK, CurrentIntact, RestartFindsFile, WriteInv,
              WriteReturns, ramVars, Intact, nv_next_addr
<1>7. CASE PowerCut BY <1>7, PowerCutStep
<1>8. CASE UNCHANGED vars
  BY <1>8 DEF NvInv, FactoryNvTypeOK, CurrentIntact, RestartFindsFile, WriteInv, Newer,
              vars, ramVars, callVars, Intact, nv_next_addr
<1> QED BY <1>1, <1>2, <1>3, <1>4, <1>5, <1>6, <1>7, <1>8 DEF Next

(* Types: a write never leaves the flash blocks of the factory NV.         *)
THEOREM FactoryNvTypes == Spec => []FactoryNvTypeOK
<1>1. NvInv => FactoryNvTypeOK BY DEF NvInv
<1> QED BY NvInit, NvStep, <1>1, PTL DEF Spec

(* nv_block_write never touches the block that is read.                    *)
THEOREM CurrentStaysIntact == Spec => []CurrentIntact
<1>1. NvInv => CurrentIntact BY DEF NvInv
<1> QED BY NvInit, NvStep, <1>1, PTL DEF Spec

(* nv_init_common finds exactly one newest block after every cut.          *)
THEOREM RestartAlwaysFindsFile == Spec => []RestartFindsFile
<1>1. NvInv => RestartFindsFile BY DEF NvInv
<1> QED BY NvInit, NvStep, <1>1, PTL DEF Spec

-----------------------------------------------------------------------------
(* FactoryNv implements NvStore.                                           *)

LEMMA LatestIs ==
  ASSUME NEW d \in Block, block \in [Block -> Stored \cup {Torn}], block[d] # Torn,
         \A c \in Block \ {d} : block[c] # Torn => block[c].seq < block[d].seq
  PROVE  (CHOOSE b \in Block : IsLatest(b)) = d
<1>1. \A c \in Block : block[c] # Torn => block[c].seq \in Nat BY DEF Stored
<1>2. IsLatest(d) BY <1>1 DEF IsLatest, Intact, Block
<1>3. \A b \in Block : IsLatest(b) => b = d BY <1>1, SMT DEF IsLatest, Intact
<1> QED BY <1>2, <1>3

(* At a start the latest block is the one that becomes the current one.    *)
LEMMA InitMaps == NvInv /\ NvInv' /\ hi_factory_nv_init => UNCHANGED Store!storeVars
<1> SUFFICES ASSUME NvInv, NvInv', hi_factory_nv_init PROVE UNCHANGED Store!storeVars
  OBVIOUS
<1>1. PICK b \in Block : IsLatest(b) /\ StartFrom(b) BY DEF hi_factory_nv_init
<1>2. PICK d \in Block : /\ block[d] # Torn
                         /\ \A c \in Block \ {d} : block[c] # Torn => block[c].seq < block[d].seq
  BY <1>1 DEF NvInv, RestartFindsFile, StartFrom, Intact
<1>3. block \in [Block -> Stored \cup {Torn}] BY DEF NvInv, FactoryNvTypeOK
<1>4. b = d
  <2>1. block[b] # Torn /\ block[b].seq \in Nat /\ block[d].seq \in Nat
    BY <1>1, <1>2, <1>3 DEF IsLatest, Intact, Stored
  <2> QED BY <1>1, <1>2, <2>1 DEF IsLatest, Intact
<1>5. (CHOOSE a \in Block : IsLatest(a)) = d BY <1>2, <1>3, LatestIs
<1>6. /\ pc = "off" /\ pc' = "idle" /\ block' = block /\ current' = d
      /\ update' = update /\ ret' = ret
  BY <1>1, <1>4 DEF StartFrom, callVars
<1>7. Now' = Now
  <2>1. Now = block[d].file BY <1>5, <1>6 DEF Now
  <2>2. Now' = block'[current'].file BY <1>6 DEF Now
  <2> QED BY <1>6, <2>1, <2>2
<1>8. Newer' = {}
  BY <1>1, <1>2, <1>3, <1>4, <1>6 DEF Newer, StartFrom, Intact, Stored
<1>9. ret = "none" BY <1>6 DEF NvInv, WriteInv
<1> QED BY <1>6, <1>7, <1>8, <1>9 DEF Store!storeVars

(* A write that starts, or finds nothing to do.                            *)
LEMMA WriteMaps ==
  ASSUME NvInv, NvInv', NEW id \in Item, NEW v \in Value,
         NothingToWrite(id, v) \/ hi_factory_nv_write(id, v)
  PROVE  Store!StoreNext
<1>1. /\ pc = "idle" /\ block' = block /\ current' = current /\ seq' = seq
  BY DEF NothingToWrite, hi_factory_nv_write, ramVars
<1>2. CASE NothingToWrite(id, v)
  <2>1. pc' = "idle" /\ ret' \in {"success", "failure"}
    BY <1>2, <1>1 DEF NothingToWrite
  <2>2. Now' = Now /\ Newer' = Newer BY <1>1, <2>1 DEF Now, Newer, Intact
  <2> QED BY <1>1, <2>1, <2>2 DEF Store!StoreNext, Store!NothingToDo
<1>3. CASE hi_factory_nv_write(id, v)
  <2>1. pc' = "copy" /\ update' = [id |-> id, value |-> v]
    BY <1>3 DEF hi_factory_nv_write
  <2>2. Now' = Now /\ Newer' = Newer BY <1>1, <2>1 DEF Now, Newer, Intact
  <2>3. Now \in [Item -> Value]
    BY <1>1 DEF Now, NvInv, FactoryNvTypeOK, CurrentIntact, Intact, Stored, NvFile
  <2>4. [Now' EXCEPT ![update'.id] = update'.value] \in NvFile
    BY <2>1, <2>2, <2>3 DEF NvFile
  <2> QED BY <1>1, <2>1, <2>2, <2>4 DEF Store!StoreNext, Store!Begin
<1> QED BY <1>2, <1>3

(* What a write in progress looks like to a user.                          *)
LEMMA Busy ==
  ASSUME NvInv, pc = "copy"
  PROVE  /\ Now = block[current].file /\ NewBlock.file = [Now EXCEPT ![update.id] = update.value]
         /\ NewBlock.file \in NvFile /\ NewBlock.file # None
<1>1. update # None BY DEF NvInv, WriteInv
<1>2. NewBlock \in Stored BY <1>1, NewBlockType DEF NvInv
<1> QED BY <1>1, <1>2, NewBlockType, MarksAssumption DEF NvInv, Now, Stored

LEMMA CopiedMaps == NvInv /\ NvInv' /\ Copied => Store!StoreNext
<1> SUFFICES ASSUME NvInv, NvInv', Copied PROVE Store!StoreNext OBVIOUS
<1>1. /\ pc = "copy" /\ pc' = "copy" /\ update' = update /\ ret' = "success"
      /\ current' = nv_next_addr
  BY DEF Copied, CopyEnds
<1>2. block'[current'] = NewBlock
  BY <1>1, NextAddrOther DEF Copied, NvInv, FactoryNvTypeOK
<1>3. Now' = NewBlock.file BY <1>1, <1>2 DEF Now
<1>4. Newer' = {} BY <1>1 DEF NvInv, WriteInv
<1>5. NewBlock.file[update.id] = update.value /\ NewBlock.file \in [Item -> Value]
  BY <1>1, NewBlockType DEF NvInv, WriteInv, Stored, NvFile
<1>6. [Now' EXCEPT ![update.id] = update.value] = Now'
  BY <1>3, <1>5
<1> QED BY <1>1, <1>3, <1>4, <1>6, Busy DEF Store!StoreNext, Store!Stored

(* A copy that fails leaves the next block as it was, torn, or complete.   *)
LEMMA CopyFailsMaps ==
  NvInv /\ NvInv' /\ (CopyFails \/ CopyUnread) => Store!StoreNext \/ UNCHANGED Store!storeVars
<1> SUFFICES ASSUME NvInv, NvInv', CopyFails \/ CopyUnread
             PROVE  Store!StoreNext \/ UNCHANGED Store!storeVars
  OBVIOUS
<1>1. /\ pc = "copy" /\ pc' = pc /\ update' = update
      /\ current' = current /\ seq' = seq
  BY DEF CopyFails, CopyUnread, CopyEnds, ramVars
<1>2. CASE CopyUnread
  <2>1. block' = block BY <1>2 DEF CopyUnread
  <2>2. Now' = Now /\ Newer' = Newer BY <1>1, <2>1 DEF Now, Newer, Intact
  <2> QED BY <1>1, <2>1, <2>2 DEF Store!storeVars
<1>3. CASE CopyFails
  <2>1. block' \in Interrupted BY <1>3 DEF CopyFails
  <2>2. /\ block'[nv_next_addr] \in {block[nv_next_addr], Torn, NewBlock}
        /\ \A b \in Block \ {nv_next_addr} : block'[b] = block[b]
    BY <1>1, <2>1, InterruptedType DEF NvInv, WriteInv
  <2>3. nv_next_addr \in Block /\ nv_next_addr # current /\ current \in Block
    BY NextAddrOther DEF NvInv, FactoryNvTypeOK
  <2>4. Now' = Now BY <1>1, <2>2, <2>3 DEF Now
  <2>5. seq \in Nat /\ \A b \in Block : block[b] # Torn => block[b].seq \in Nat
    BY DEF NvInv, FactoryNvTypeOK, Stored
  <2>6. \A b \in Block \ {nv_next_addr} : block[b] # Torn => block[b].seq <= seq
    BY <1>1, <2>5 DEF NvInv, CurrentIntact, Intact
  <2>7. Newer \subseteq {nv_next_addr} BY <2>5, <2>6 DEF Newer, Intact
  <2>8. Newer' \subseteq {nv_next_addr} BY <1>1, <2>2, <2>5, <2>6 DEF Newer, Intact
  <2>9. NewBlock # Torn /\ NewBlock.seq > seq
    BY <1>1, <2>5, NewBlockType DEF NvInv, WriteInv
  <2> DEFINE spare == {block[b].file : b \in Newer}
  <2>10. spare' \in {spare, {}, {NewBlock.file}}
    <3>1. CASE block'[nv_next_addr] = block[nv_next_addr]
      <4>1. Newer' = Newer BY <1>1, <2>2, <3>1 DEF Newer, Intact
      <4>2. \A b \in Newer : block'[b] = block[b] BY <2>7, <3>1
      <4> QED BY <4>1, <4>2
    <3>2. CASE block'[nv_next_addr] = Torn
      <4>1. Newer' = {} BY <2>8, <3>2 DEF Newer, Intact
      <4> QED BY <4>1
    <3>3. CASE block'[nv_next_addr] = NewBlock
      <4>1. Newer' = {nv_next_addr} BY <1>1, <2>3, <2>8, <2>9, <3>3 DEF Newer, Intact
      <4> QED BY <4>1, <3>3
    <3> QED BY <2>2, <3>1, <3>2, <3>3
  <2> QED BY <1>1, <2>4, <2>10, Busy DEF Store!StoreNext, Store!NotStored
<1> QED BY <1>2, <1>3

LEMMA ReturnMaps == NvInv /\ NvInv' /\ WriteReturns => Store!StoreNext
<1> SUFFICES ASSUME NvInv, NvInv', WriteReturns PROVE Store!StoreNext OBVIOUS
<1>1. /\ pc = "copy" /\ pc' = "idle" /\ backup_num = 0
      /\ block' = block /\ current' = current /\ seq' = seq /\ ret' = ret
  BY DEF WriteReturns, ramVars
<1>2. Now' = Now /\ Newer' = Newer BY <1>1 DEF Now, Newer, Intact
<1>3. ret \in {"success", "failure"}
  BY <1>1 DEF NvInv, FactoryNvTypeOK, WriteInv
<1>4. ret = "success" => NewBlock.file = Now /\ Newer = {}
  <2> SUFFICES ASSUME ret = "success" PROVE NewBlock.file = Now /\ Newer = {}
    OBVIOUS
  <2>1. Newer = {} /\ Now[update.id] = update.value
    BY <1>1, Busy DEF NvInv, WriteInv
  <2>2. Now \in [Item -> Value]
    BY <1>1 DEF Now, NvInv, FactoryNvTypeOK, CurrentIntact, Intact, Stored, NvFile
  <2> QED BY <1>1, <2>1, <2>2, Busy
<1> QED BY <1>1, <1>2, <1>3, <1>4, Busy DEF Store!StoreNext, Store!Return

(* What a start after a cut will find.                                     *)
LEMMA CutMaps == NvInv /\ NvInv' /\ PowerCut => Store!StoreNext
<1> SUFFICES ASSUME NvInv, NvInv', PowerCut PROVE Store!StoreNext OBVIOUS
<1>1. /\ pc # "off" /\ pc' = "off"
      /\ \/ block' = block
         \/ pc = "copy" /\ block' \in Interrupted
  BY DEF PowerCut
<1>2. PICK d \in Block :
        /\ block'[d] # Torn
        /\ \A c \in Block \ {d} : block'[c] # Torn => block'[c].seq < block'[d].seq
  BY <1>1 DEF NvInv, RestartFindsFile, Intact
<1>3. block' \in [Block -> Stored \cup {Torn}] BY DEF NvInv, FactoryNvTypeOK
<1>4. Now' = block'[d].file
  <2>1. (CHOOSE b \in Block : IsLatest(b))' = d
    <3>1. \A c \in Block : block'[c] # Torn => block'[c].seq \in Nat BY <1>3 DEF Stored
    <3>2. IsLatest(d)' BY <1>2, <3>1 DEF IsLatest, Intact, Block
    <3>3. ASSUME NEW b \in Block, IsLatest(b)' PROVE b = d
      BY <1>2, <3>1, <3>3, SMT DEF IsLatest, Intact
    <3> QED BY <3>2, <3>3
  <2> QED BY <1>1, <2>1 DEF Now
<1>5. /\ block'[current] = block[current]
      /\ \A b \in Block \ {current} : block'[b] # Torn =>
           block'[b].seq < seq \/ (b = nv_next_addr /\ block'[b].seq = seq + 1)
  BY <1>1, InterruptedOthers DEF NvInv, CurrentIntact, Intact
<1>6. current \in Block /\ block[current] # Torn /\ block[current].seq = seq /\ seq \in Nat
  BY <1>1 DEF NvInv, FactoryNvTypeOK, CurrentIntact, Intact
<1>7. Now = block[current].file BY <1>1 DEF Now
<1>8. CASE d = current BY <1>1, <1>4, <1>5, <1>7, <1>8 DEF Store!StoreNext, Store!Restart
<1>9. CASE d # current
  <2>1. block'[d].seq \in Nat BY <1>2, <1>3 DEF Stored
  <2>2. seq < block'[d].seq BY <1>2, <1>5, <1>6, <1>9
  <2>3. d = nv_next_addr BY <1>2, <1>5, <1>6, <1>9, <2>1, <2>2
  <2>4. CASE block'[d] = block[d]
    <3>1. d \in Newer BY <1>2, <2>1, <2>2, <2>4 DEF Newer, Intact
    <3>2. block'[d].file \in {block[b].file : b \in Newer} BY <2>4, <3>1
    <3> QED BY <1>1, <1>4, <3>2 DEF Store!StoreNext, Store!Restart
  <2>5. CASE block'[d] # block[d]
    <3>1. pc = "copy" /\ block' \in Interrupted BY <1>1, <2>5
    <3>2. block'[d] = NewBlock
      BY <1>2, <2>3, <2>5, <3>1, InterruptedType DEF NvInv, WriteInv
    <3> QED BY <1>1, <1>4, <3>1, <3>2, Busy DEF Store!StoreNext, Store!Restart
  <2> QED BY <2>4, <2>5
<1> QED BY <1>8, <1>9

LEMMA NvStepMaps ==
  NvInv /\ NvInv' /\ [Next]_vars => [Store!StoreNext]_(Store!storeVars)
<1> SUFFICES ASSUME NvInv, NvInv', [Next]_vars
             PROVE  Store!StoreNext \/ UNCHANGED Store!storeVars
  OBVIOUS
<1>1. CASE hi_factory_nv_init BY <1>1, InitMaps
<1>2. ASSUME NEW id \in Item, NEW v \in Value,
             NothingToWrite(id, v) \/ hi_factory_nv_write(id, v)
      PROVE  Store!StoreNext
  BY <1>2, WriteMaps
<1>3. CASE Copied BY <1>3, CopiedMaps
<1>4. CASE CopyFails \/ CopyUnread BY <1>4, CopyFailsMaps
<1>5. CASE WriteReturns BY <1>5, ReturnMaps
<1>6. CASE PowerCut BY <1>6, CutMaps
<1>7. CASE UNCHANGED vars
  <2>1. Now' = Now /\ Newer' = Newer BY <1>7 DEF vars, ramVars, Now, Newer, Intact, IsLatest
  <2> QED BY <1>7, <2>1 DEF vars, ramVars, callVars, Store!storeVars
<1> QED BY <1>1, <1>2, <1>3, <1>4, <1>5, <1>6, <1>7 DEF Next

LEMMA FactoryMaps == Init => Store!StoreInit
<1> SUFFICES ASSUME Init PROVE Store!StoreInit OBVIOUS
<1>1. 0 \in Block BY BlockCountAssumption, SMT DEF Block
<1>2. [seq |-> 0, file |-> Factory] \in Stored BY FactoryAssumption DEF Stored
<1>3. /\ block[0] = [seq |-> 0, file |-> Factory] /\ block[0] # Torn
      /\ \A c \in Block \ {0} : block[c] = Torn
  BY <1>1, <1>2, MarksAssumption DEF Init
<1>4. block \in [Block -> Stored \cup {Torn}] BY NvInit DEF NvInv, FactoryNvTypeOK
<1>5. (CHOOSE b \in Block : IsLatest(b)) = 0 BY <1>1, <1>3, <1>4, LatestIs
<1>6. Now = Factory
  <2>1. pc = "off" BY DEF Init
  <2>2. Now = block[0].file BY <1>5, <2>1 DEF Now
  <2> QED BY <1>3, <2>2
<1> QED BY <1>6 DEF Init, Store!StoreInit

(* The two blocks of hi_nvm.c and the rounds of nv_common_write implement  *)
(* a file that changes atomically and durably.                             *)
THEOREM FactoryNvImplements == Spec => StoreSafe
BY NvInit, NvStep, FactoryMaps, NvStepMaps, PTL DEF Spec, StoreSafe, Store!StoreSpec
=============================================================================
