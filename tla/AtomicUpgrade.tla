--------------------------- MODULE AtomicUpgrade ----------------------------
(***************************************************************************)
(* What the boot loader and the upgrade module promise together: every     *)
(* start of the device ends in one kernel, and that kernel is replaced at  *)
(* once, while nothing runs, by the file last accepted for installation    *)
(* and by no other.  What is accepted may be replaced or withdrawn while a *)
(* kernel runs.  The power may be cut, and the device restarted, any time. *)
(***************************************************************************)
CONSTANTS Kernel,   \* the kernels there are files of
          Bad,      \* those whose files do not unpack
          First,    \* the one the device is delivered with
          None

VARIABLES kernel,   \* what every start ends in
          accepted, \* the file accepted for installation, or None
          running   \* whether the kernel has been started

deviceVars == <<kernel, accepted, running>>

DeviceInit == kernel = First /\ accepted = None /\ running = FALSE

Accept ==
  /\ running
  /\ accepted' \in Kernel
  /\ UNCHANGED <<kernel, running>>

Withdraw ==
  /\ running
  /\ accepted' = None
  /\ UNCHANGED <<kernel, running>>

Install ==
  /\ ~running
  /\ accepted \in Kernel \ Bad
  /\ kernel' = accepted
  /\ UNCHANGED <<accepted, running>>

Start == ~running /\ running' = TRUE /\ UNCHANGED <<kernel, accepted>>

Stop == running /\ running' = FALSE /\ UNCHANGED <<kernel, accepted>>

DeviceNext == Accept \/ Withdraw \/ Install \/ Start \/ Stop

DeviceSpec == DeviceInit /\ [][DeviceNext]_deviceVars
=============================================================================
