SPECIFICATION FairSpec
CONSTANTS
  RxSize = 2
  TxSize = 2
  Burst = 2
  FifoSize = 3
  TxLine = 1
  MaxCount = 2
  MaxBytes = 3
  Uses <- ReadOnly
PROPERTY TimedReadReturns
