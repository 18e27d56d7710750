SPECIFICATION FairSpec
CONSTANTS
  RxSize = 2
  TxSize = 2
  Burst = 3
  FifoSize = 3
  TxLine = 1
  MaxCount = 3
  MaxBytes = 5
  Uses <- OneDirection
INVARIANTS UartTypeOK NothingStranded NoLostWakeup EachByteOnce
PROPERTIES RxStream ReadReturns WriteReturns
