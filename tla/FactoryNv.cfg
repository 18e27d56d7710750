SPECIFICATION Spec
CONSTANTS
  Item = {startup, wait}
  Value = {0, 1}
  BlockCount <- TwoBlocks
  Factory <- MadeInFactory
  MaxSeq <- ThreeWrites
  Faults = {"read", "write"}
  Torn = Torn
  None = None
INVARIANTS FactoryNvTypeOK CurrentIntact RestartFindsFile
PROPERTY StoreSafe
