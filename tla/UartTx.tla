------------------------------- MODULE UartTx -------------------------------
(***************************************************************************)
(* Sending.  hi_uart_write either polls its bytes into the FIFO of the     *)
(* hardware or, when a transmit interrupt has been seen (receive_tx_int),  *)
(* puts them into tx_transfer for the interrupt to move.  The interrupt    *)
(* masks itself when it finds the buffer empty; every write unmasks it.    *)
(*                                                                         *)
(* One task writes; another may set the port up again.  The interrupt is   *)
(* taken at some time while it is pending, not before the next step of the *)
(* task: so the flag receive_tx_int may change between the test of it and  *)
(* the write that follows, and a later write then polls its bytes past     *)
(* those in the buffer.  The interrupt may even fill the FIFO between the  *)
(* test that there is room for a polled byte and the write of it, which is *)
(* lost then.  The bytes are numbered to tell them apart.                  *)
(*                                                                         *)
(* The hardware is external: the raw transmit interrupt is raised when the *)
(* FIFO drains to its trigger level, may be raised at any time while the   *)
(* FIFO is not above it, and is cleared by filling the FIFO above it.  A   *)
(* byte written to a full FIFO is discarded.                               *)
(***************************************************************************)
EXTENDS CircBuf, Sequences

CONSTANTS TxSize,      \* bytes in tx_transfer (act.rx_buffer_size, as uart_open passes it)
          FifoSize,    \* UART_FIFO_TX_SIZE
          TxLine       \* the trigger level, tx_fifo_used_cnt in the code

ASSUME TxSizeAssumption == TxSize \in Nat \ {0}
ASSUME TxLineAssumption == FifoSize \in Nat /\ TxLine \in Nat /\ TxLine < FifoSize

VARIABLES
  tx_block,        \* act.tx_block = UART_FLG_WD_BLOCK
  tx_transfer,
  wd_event,        \* UART_WD_EVENT is pending
  receive_tx_int,
  unmasked,        \* bit UART_TX_INT_BIT of UART_IMSC
  raw,             \* hardware: the raw transmit interrupt
  fifo,            \* hardware: the transmit FIFO
  overwritten,     \* history: the mask lost the bit to a late write of it
  written,         \* how many bytes have been written to the buffer and to UART_DR
  waiting,         \* those that have neither left nor been dropped
  writer,          \* where the writing task is
  left,            \* how much it still has to write
  overtakes,       \* history: it began to poll while the buffer held bytes
  wsnap            \* locals of uart_write_circ_buf

txHardware == <<raw, fifo>>
txMask == <<unmasked, overwritten>>
txDriver == <<tx_block, tx_transfer, wd_event, receive_tx_int, txMask>>
txCall == <<writer, left, overtakes, wsnap>>
txBytes == <<written, waiting>>
txVars == <<txHardware, txDriver, txCall, txBytes>>

NoWrite == Pointers(EmptyBuf(TxSize))

TxInit ==
  /\ tx_block = TRUE /\ tx_transfer = EmptyBuf(TxSize) /\ wd_event = FALSE
  /\ receive_tx_int = FALSE /\ unmasked = FALSE /\ overwritten = FALSE
  /\ raw = FALSE /\ fifo = <<>> /\ written = 0 /\ waiting = {}
  /\ writer = "idle" /\ left = 0 /\ overtakes = FALSE /\ wsnap = NoWrite

IrqPending == unmasked /\ raw

-----------------------------------------------------------------------------
(* The hardware.                                                           *)

FifoBytes == {fifo[k] : k \in 1 .. Len(fifo)}

Shift ==
  /\ fifo # <<>>
  /\ fifo' = Tail(fifo) /\ waiting' = waiting \ {Head(fifo)}
  /\ raw' = (raw \/ Len(fifo) = TxLine + 1)
  /\ UNCHANGED <<written, txDriver, txCall>>

RaiseTx ==
  /\ ~raw /\ Len(fifo) <= TxLine
  /\ raw' = TRUE
  /\ UNCHANGED <<fifo, txDriver, txCall, txBytes>>

(* UART_DR is written.                                                     *)
IntoFifo(bytes) ==
  /\ fifo' = fifo \o bytes
  /\ raw' = (raw /\ Len(fifo) + Len(bytes) <= TxLine)

-----------------------------------------------------------------------------
(* uart_send_irq.  The first interrupt only says that there are            *)
(* interrupts.  What is taken from the buffer fits into the FIFO.          *)

FirstTxIrq ==
  /\ ~receive_tx_int
  /\ receive_tx_int' = TRUE
  /\ UNCHANGED <<txHardware, tx_block, tx_transfer, wd_event, txMask>>

uart_tx_interrupt_disable ==
  /\ receive_tx_int /\ uart_circ_buf_empty(tx_transfer)
  /\ receive_tx_int' = FALSE /\ unmasked' = FALSE
  /\ UNCHANGED <<txHardware, tx_block, tx_transfer, wd_event, overwritten>>

SendFromBuffer(event) ==
  /\ receive_tx_int /\ ~uart_circ_buf_empty(tx_transfer)
  /\ LET n == FifoSize - TxLine
     IN  /\ IntoFifo(CopyOut(tx_transfer, tx_transfer, ReadCount(tx_transfer, n)))
         /\ tx_transfer' = AfterRead(tx_transfer, tx_transfer, n)
  /\ wd_event' = event
  /\ UNCHANGED <<tx_block, receive_tx_int, txMask>>

(* Mutant: a waiting task is told only when the buffer is empty again.     *)
SendAndSignalLate ==
  SendFromBuffer(wd_event \/ (tx_block /\ Held(tx_transfer) < FifoSize - TxLine))

SendAndSignal == SendFromBuffer(wd_event \/ tx_block)

uart_send_irq ==
  /\ IrqPending
  /\ FirstTxIrq \/ uart_tx_interrupt_disable \/ SendAndSignal
  /\ UNCHANGED <<txCall, txBytes>>

-----------------------------------------------------------------------------
(* The writing task.                                                       *)

hi_uart_write(n) ==
  /\ writer = "idle"
  /\ writer' = "uart_write" /\ left' = n
  /\ UNCHANGED <<overtakes, wsnap, txDriver, txHardware, txBytes>>

TestTxInt ==
  /\ writer = "uart_write"
  /\ writer' = IF receive_tx_int THEN "snapshot" ELSE "unmask_poll"
  /\ overtakes' = (~receive_tx_int /\ ~uart_circ_buf_empty(tx_transfer))
  /\ UNCHANGED <<left, wsnap, txDriver, txHardware, txBytes>>

SnapWrite ==
  /\ writer = "snapshot"
  /\ wsnap' = Pointers(tx_transfer)
  /\ writer' = "copy"
  /\ UNCHANGED <<left, overtakes, txDriver, txHardware, txBytes>>

CopyWrite ==
  /\ writer = "copy"
  /\ tx_transfer' = CopyIn(tx_transfer, wsnap, written + 1, WriteCount(wsnap, left))
  /\ writer' = "publish"
  /\ UNCHANGED <<left, overtakes, wsnap, tx_block, wd_event, receive_tx_int, txMask,
                 txHardware, txBytes>>

Accept(n) ==
  /\ written' = written + n
  /\ waiting' = waiting \cup (written + 1 .. written + n)

PublishTaking(n) ==
  /\ writer = "publish"
  /\ tx_transfer' = AfterWrite(tx_transfer, wsnap, left)
  /\ Accept(n)
  /\ left' = left - n
  /\ writer' = IF n = left \/ ~tx_block THEN "unmask_end" ELSE "unmask_wait"
  /\ wsnap' = NoWrite
  /\ UNCHANGED <<overtakes, tx_block, wd_event, receive_tx_int, txMask, txHardware>>

(* Mutant: what did not fit is taken for written.                          *)
PublishWriteAsked == PublishTaking(left)

PublishWrite == PublishTaking(WriteCount(wsnap, left))

(* uart_tx_interrupt_enable.  It reads and writes the mask register in two *)
(* steps, but sets the only bit that anybody else changes: the time of the *)
(* read does not matter.                                                   *)
SetMask(value) == unmasked' = value /\ overwritten' = FALSE

Unmask(where, next) ==
  /\ writer = where
  /\ SetMask(TRUE)
  /\ writer' = next
  /\ UNCHANGED <<overtakes, wsnap, tx_block, tx_transfer, wd_event, receive_tx_int,
                 txHardware, txBytes>>

UnmaskWait == Unmask("unmask_wait", "wait") /\ UNCHANGED left
UnmaskPoll == Unmask("unmask_poll", "poll") /\ UNCHANGED left

(* Mutant: a complete write takes the interrupt to be unmasked still.      *)
UnmaskEndIfCut ==
  /\ writer = "unmask_end"
  /\ SetMask(unmasked \/ left > 0)
  /\ writer' = "idle" /\ left' = 0
  /\ UNCHANGED <<overtakes, wsnap, tx_block, tx_transfer, wd_event, receive_tx_int,
                 txHardware, txBytes>>

UnmaskEnd == Unmask("unmask_end", "idle") /\ left' = 0

WaitWrite ==
  /\ writer = "wait" /\ wd_event
  /\ wd_event' = FALSE
  /\ writer' = "snapshot"
  /\ UNCHANGED <<left, overtakes, wsnap, tx_block, tx_transfer, receive_tx_int, txMask,
                 txHardware, txBytes>>

(* uart_drv_start_tx: without DMA all its branches poll the FIFO, and may  *)
(* be interrupted between the test of UART_FR and the write of UART_DR.    *)
TestFifo ==
  /\ writer = "poll" /\ Len(fifo) < FifoSize
  /\ writer' = "put"
  /\ UNCHANGED <<left, overtakes, wsnap, txDriver, txHardware, txBytes>>

PutFifo ==
  /\ writer = "put"
  /\ IF Len(fifo) < FifoSize
       THEN IntoFifo(<<written + 1>>) /\ Accept(1)
       ELSE written' = written + 1 /\ UNCHANGED <<txHardware, waiting>>
  /\ left' = left - 1
  /\ writer' = IF left = 1 THEN "idle" ELSE "poll"
  /\ overtakes' = (overtakes /\ left > 1)
  /\ UNCHANGED <<wsnap, txDriver>>

WriterStep ==
  \/ TestTxInt \/ SnapWrite \/ CopyWrite \/ PublishWrite
  \/ UnmaskWait \/ UnmaskEnd \/ UnmaskPoll \/ WaitWrite \/ TestFifo \/ PutFifo

-----------------------------------------------------------------------------
(* The port is opened, set up again or closed.                             *)

(* set_uart_param, in ROM, may or may not flush the FIFO.                  *)
SetUartParam ==
  /\ fifo' \in {fifo, <<>>}
  /\ raw' = (raw \/ Len(fifo') < Len(fifo))
  /\ waiting' = IF fifo' = fifo THEN waiting ELSE waiting \ FifoBytes
  /\ UNCHANGED <<written, txCall>>

(* uart_open: the buffer is new, all interrupts are masked.                *)
TxOpen(block) ==
  /\ tx_block' = block
  /\ tx_transfer' = EmptyBuf(TxSize) /\ wd_event' = FALSE
  /\ receive_tx_int' = FALSE
  /\ SetMask(FALSE)
  /\ SetUartParam

(* A set-up of the open port, step by step.  uart_rx_interrupt_enable      *)
(* writes the bit of the transmit interrupt back as it had read it: what   *)
(* the writing task or the interrupt has made of it since is overwritten.  *)
SetParam == SetUartParam /\ UNCHANGED txDriver

ClearTxInt ==
  /\ receive_tx_int' = FALSE
  /\ UNCHANGED <<tx_block, tx_transfer, wd_event, txMask, txHardware, txCall, txBytes>>

WriteMask(bit) ==
  /\ unmasked' = bit
  /\ overwritten' = ((overwritten \/ unmasked) /\ ~bit)
  /\ UNCHANGED <<tx_block, tx_transfer, wd_event, receive_tx_int, txHardware, txCall,
                 txBytes>>

(* uart_close; what the FIFO holds goes on to the line.                    *)
TxClose ==
  /\ tx_block' = TRUE
  /\ tx_transfer' = EmptyBuf(TxSize) /\ wd_event' = FALSE
  /\ receive_tx_int' = FALSE
  /\ SetMask(FALSE)
  /\ waiting' = waiting \ HeldBytes(tx_transfer)
  /\ UNCHANGED <<written, txHardware, txCall>>

-----------------------------------------------------------------------------
TxTypes ==
  /\ tx_block \in BOOLEAN /\ tx_transfer \in CircBufs(TxSize)
  /\ wd_event \in BOOLEAN /\ receive_tx_int \in BOOLEAN
  /\ unmasked \in BOOLEAN /\ overwritten \in BOOLEAN
  /\ raw \in BOOLEAN /\ fifo \in Seq(Nat) /\ Len(fifo) <= FifoSize
  /\ written \in Nat /\ waiting \subseteq 1 .. written
  /\ writer \in {"idle", "uart_write", "snapshot", "copy", "publish", "unmask_wait",
                 "unmask_end", "unmask_poll", "wait", "poll", "put"}
  /\ left \in Nat /\ overtakes \in BOOLEAN /\ wsnap \in Snapshots(TxSize)
=============================================================================
