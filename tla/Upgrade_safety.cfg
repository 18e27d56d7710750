SPECIFICATION UpgSpec
CONSTANTS
  small = small
  large = large
  broken = broken
  loader = loader
  Images = {small, large, broken, loader}
  BootFiles = {loader}
  Factory = small
  BadInner = {broken}
  KernelLen <- MCKernelLen
  FileLen <- MCFileLen
  Blocks = 3
  BackBlocks = 1
  MaxCnt = 3
  Faults = {"flash"}
  None = None
  Erased = Erased
  Junk = Junk
  MaxOffset = 2
INVARIANTS UpgTypeOK Bootable RunningKernelIntact
