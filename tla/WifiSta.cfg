SPECIFICATION Spec
CONSTANTS
  Demo = demo
  Handler = handler
  None = None
  Faults <- StartFaults
CHECK_DEADLOCK FALSE
INVARIANTS TypeOK OneBuilder GateHeld CompleteIsUsable ScanIsAwaited LossIsNoticed
