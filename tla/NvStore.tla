------------------------------ MODULE NvStore -------------------------------
(***************************************************************************)
(* What the factory NV promises its users: a file of items that is changed *)
(* atomically.  Whatever is interrupted or fails, a restart finds the file *)
(* as it was read before or the one that was being written, never a        *)
(* mixture and never an older one; after a write that changed something    *)
(* and returned success it finds the new one.  A write that failed may     *)
(* have left its file where only a restart finds it (spare).  A write that *)
(* finds its value there already succeeds without touching the flash, and  *)
(* so says nothing about spare.                                            *)
(***************************************************************************)
CONSTANTS File,     \* the files, one value for every item each
          First,    \* the one made in the factory
          None

VARIABLES file,     \* what reads return
          spare,    \* what a restart may find instead
          request,  \* the file a write in progress is to store, or None
          answer    \* how the last write ended since the restart

storeVars == <<file, spare, request, answer>>

StoreInit == file = First /\ spare = {} /\ request = None /\ answer = "none"

Begin ==
  /\ request = None
  /\ request' \in File
  /\ answer' = "none"
  /\ UNCHANGED <<file, spare>>

Stored ==
  /\ request # None
  /\ file' = request /\ spare' = {}
  /\ UNCHANGED <<request, answer>>

NotStored ==
  /\ request # None
  /\ spare' \in {spare, {}, {request}}
  /\ UNCHANGED <<file, request, answer>>

Return ==
  /\ request # None
  /\ answer' \in {"success", "failure"}
  /\ answer' = "success" => file = request /\ spare = {}
  /\ request' = None
  /\ UNCHANGED <<file, spare>>

(* A write that changes nothing, or cannot read what is there.             *)
NothingToDo ==
  /\ request = None
  /\ answer' \in {"success", "failure"}
  /\ UNCHANGED <<file, spare, request>>

Restart ==
  /\ file' \in {file} \cup spare \cup ({request} \ {None})
  /\ spare' = {} /\ request' = None /\ answer' = "none"

StoreNext == Begin \/ Stored \/ NotStored \/ Return \/ NothingToDo \/ Restart

StoreSpec == StoreInit /\ [][StoreNext]_storeVars
=============================================================================
