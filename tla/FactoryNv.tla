----------------------------- MODULE FactoryNv ------------------------------
(***************************************************************************)
(* The factory NV of the boot loader, hi_nvm.c: a file of items, kept in   *)
(* two flash blocks that are written in turn, each time with the next      *)
(* sequence number and a checksum.  At a start the intact block with the   *)
(* highest number is the current one.  A write reads the current block,    *)
(* replaces one item and stores the result in the next block, twice.       *)
(*                                                                         *)
(* A block whose checksum or magic is wrong is Torn.  hi_flash_write is    *)
(* code in ROM: when it fails, or is cut, the block may be untouched, torn *)
(* or complete.  Reads at a start are taken to succeed.  The sequence      *)
(* number is a 32-bit counter that the wear of the flash keeps far from    *)
(* wrapping.                                                               *)
(***************************************************************************)
EXTENDS Naturals

CONSTANTS Item, Value,
          BlockCount,  \* total_size / block_size, 2 in the code
          Factory,     \* the file made in the factory
          MaxSeq,      \* bounds the number of writes
          Faults,      \* what may fail: "read", "write"
          Torn, None

Block == 0 .. BlockCount - 1
NvFile == [Item -> Value]
Stored == [seq : Nat, file : NvFile]

ASSUME BlockCountAssumption == BlockCount \in Nat /\ BlockCount >= 2
ASSUME FactoryAssumption == Factory \in NvFile
ASSUME MarksAssumption ==
  /\ Torn \notin Stored
  /\ None \notin NvFile /\ None \notin [id : Item, value : Value]

VARIABLES
  block,       \* the flash
  current,     \* g_s_nv_ctrl.current_addr
  seq,         \* g_s_nv_ctrl.seq
  pc,          \* "off" until hi_factory_nv_init is done
  update,      \* the item and value being written, or None
  backup_num,  \* copies still to be written
  ret          \* how the last copy, or the last write, ended

ramVars == <<current, seq>>
callVars == <<update, backup_num, ret>>
vars == <<block, ramVars, pc, callVars>>

(* make_hbin stores the file in the first block only, with number 0.       *)
Init ==
  /\ block = [b \in Block |-> IF b = 0 THEN [seq |-> 0, file |-> Factory] ELSE Torn]
  /\ current = 0 /\ seq = 0
  /\ pc = "off"
  /\ update = None /\ backup_num = 0 /\ ret = "none"

Intact(b) == block[b] # Torn

(* Of equal numbers the scan takes the later block.                        *)
IsLatest(b) ==
  /\ Intact(b)
  /\ \A c \in Block : Intact(c) => \/ block[c].seq < block[b].seq
                                   \/ block[c].seq = block[b].seq /\ c <= b

StartFrom(b) ==
  /\ pc = "off"
  /\ current' = b /\ seq' = block[b].seq
  /\ pc' = "idle"
  /\ UNCHANGED <<block, callVars>>

(* Mutant: the first block that is intact, whatever its number.            *)
hi_factory_nv_initAny == \E b \in Block : Intact(b) /\ StartFrom(b)

hi_factory_nv_init == \E b \in Block : IsLatest(b) /\ StartFrom(b)

-----------------------------------------------------------------------------
(* nv_write_common: a write that would change nothing succeeds at once,    *)
(* one that cannot read the item fails.                                    *)
NothingToWrite(id, v) ==
  /\ pc = "idle"
  /\ \/ block[current].file[id] = v /\ ret' = "success"
     \/ "read" \in Faults /\ ret' = "failure"
  /\ UNCHANGED <<block, ramVars, pc, update, backup_num>>

hi_factory_nv_write(id, v) ==
  /\ pc = "idle" /\ seq + 2 <= MaxSeq
  /\ block[current].file[id] # v
  /\ update' = [id |-> id, value |-> v]
  /\ backup_num' = 2 /\ ret' = "none"
  /\ pc' = "copy"
  /\ UNCHANGED <<block, ramVars>>

(* Mutants: no wrap to the first block, by running over the end or by      *)
(* staying there; a number that stays.                                     *)
NextPastEnd == current + 1
NextInPlace == IF current + 1 < BlockCount THEN current + 1 ELSE current
SameNumber ==
  [seq |-> seq, file |-> [block[current].file EXCEPT ![update.id] = update.value]]

nv_next_addr == IF current + 1 < BlockCount THEN current + 1 ELSE 0

NewBlock ==
  [seq |-> seq + 1, file |-> [block[current].file EXCEPT ![update.id] = update.value]]

CopyEnds(result) ==
  /\ pc = "copy" /\ backup_num > 0
  /\ backup_num' = backup_num - 1
  /\ ret' = result
  /\ UNCHANGED <<pc, update>>

(* One round of nv_common_write, with nv_block_write.                      *)
Copied ==
  /\ CopyEnds("success")
  /\ block' = [block EXCEPT ![nv_next_addr] = NewBlock]
  /\ current' = nv_next_addr /\ seq' = NewBlock.seq

Interrupted ==
  {[block EXCEPT ![nv_next_addr] = b] : b \in {block[nv_next_addr], Torn, NewBlock}}

CopyFails ==
  /\ CopyEnds("failure")
  /\ "write" \in Faults /\ block' \in Interrupted
  /\ UNCHANGED ramVars

CopyUnread ==
  /\ CopyEnds("failure")
  /\ "read" \in Faults
  /\ UNCHANGED <<block, ramVars>>

(* The result is that of the last copy.                                    *)
WriteReturns ==
  /\ pc = "copy" /\ backup_num = 0
  /\ pc' = "idle" /\ update' = None
  /\ UNCHANGED <<block, ramVars, backup_num, ret>>

(* A loss of power, or a restart of the processor.                         *)
PowerCut ==
  /\ pc # "off"
  /\ pc' = "off"
  /\ block' \in {block} \cup (IF pc = "copy" /\ backup_num > 0 THEN Interrupted ELSE {})
  /\ current' = 0 /\ seq' = 0
  /\ update' = None /\ backup_num' = 0 /\ ret' = "none"

Next ==
  \/ hi_factory_nv_init
  \/ \E id \in Item, v \in Value : NothingToWrite(id, v) \/ hi_factory_nv_write(id, v)
  \/ Copied \/ CopyFails \/ CopyUnread \/ WriteReturns
  \/ PowerCut

Spec == Init /\ [][Next]_vars

-----------------------------------------------------------------------------
FactoryNvTypeOK ==
  /\ block \in [Block -> Stored \cup {Torn}]
  /\ current \in Block /\ seq \in Nat
  /\ pc \in {"off", "idle", "copy"}
  /\ update \in [id : Item, value : Value] \cup {None}
  /\ backup_num \in 0 .. 2
  /\ ret \in {"none", "success", "failure"}

(* The block that is read is never the one that is written: it stays       *)
(* intact and keeps its number, and every block between the two is older.  *)
(* Only the next block may be newer, by one, when its write has failed.    *)
CurrentIntact ==
  pc # "off" =>
    /\ Intact(current) /\ block[current].seq = seq
    /\ \A b \in Block \ {current} : Intact(b) =>
         block[b].seq < seq \/ (b = nv_next_addr /\ block[b].seq = seq + 1)

(* Whenever the power fails, one intact block is newer than the others, so *)
(* that the next start finds a file, and one file only.                    *)
RestartFindsFile ==
  pc = "off" =>
    \E b \in Block :
      /\ Intact(b)
      /\ \A c \in Block \ {b} : Intact(c) => block[c].seq < block[b].seq

Now == IF pc = "off" THEN block[CHOOSE b \in Block : IsLatest(b)].file
                     ELSE block[current].file

Newer == {b \in Block : Intact(b) /\ block[b].seq > seq}

Store == INSTANCE NvStore WITH
  File <- NvFile, First <- Factory,
  file <- Now,
  spare <- IF pc = "off" THEN {} ELSE {block[b].file : b \in Newer},
  request <- IF pc = "copy" THEN [Now EXCEPT ![update.id] = update.value] ELSE None,
  answer <- IF pc = "idle" THEN ret ELSE "none"

(* The two blocks, the numbers and the two copies amount to a file that is *)
(* changed atomically and durably (NvStore), for every outcome of writes   *)
(* that fail and cuts of the power at every step.                          *)
StoreSafe == Store!StoreSpec
=============================================================================
