-------------------------------- MODULE Uart --------------------------------
(***************************************************************************)
(* A UART port of the driver: hi_uart.c, uart.c and uart_drv.c without     *)
(* DMA, which is the default of uart_act_t.  It is opened with blocking or *)
(* non-blocking reads and writes; one task reads and one task writes.      *)
(* Another may set it up again at any time, in steps that the interrupt    *)
(* and the writing task interleave.  It is closed while no call is in      *)
(* progress.                                                               *)
(*                                                                         *)
(* Not modelled: hi_uart_write_immediately, which polls past the buffer on *)
(* purpose; the error returns for bad arguments and a closed port; the     *)
(* registers that only low power saves and restores.                       *)
(***************************************************************************)
EXTENDS UartRx, UartTx, FiniteSets

CONSTANT Uses  \* sets of directions: a session uses the port for one of these

ASSUME UsesAssumption == Uses \subseteq SUBSET {"read", "write"}

VARIABLES state,   \* UART_STATE_USEABLE or UART_STATE_NOT_OPENED
          use,     \* the directions in use
          setter,  \* where the task is that sets the port up again
          imsc     \* bit UART_TX_INT_BIT of its local tx_status

setUp == <<setter, imsc>>
vars == <<state, use, setUp, rxVars, txVars>>

Init ==
  /\ state = "NOT_OPENED" /\ use \in Uses
  /\ setter = "idle" /\ imsc = FALSE
  /\ RxInit /\ TxInit

uart_open ==
  /\ state = "NOT_OPENED"
  /\ state' = "USEABLE"
  /\ \E rd, wd \in BOOLEAN : RxReset(rd) /\ TxOpen(wd)
  /\ UNCHANGED <<use, setUp>>

uart_close ==
  /\ state = "USEABLE" /\ reader = "idle" /\ writer = "idle" /\ setter = "idle"
  /\ state' = "NOT_OPENED"
  /\ RxReset(TRUE) /\ TxClose
  /\ UNCHANGED <<use, setUp>>

(* UART_CFG_SET_ATTR: uart_drv_set_attr, then uart_rx_interrupt_enable,    *)
(* which reads UART_IMSC and writes it without a lock.                     *)
SetUpStep(from, to) ==
  /\ setter = from /\ setter' = to
  /\ UNCHANGED <<state, use, rxVars>>

uart_ioctl ==
  /\ state = "USEABLE" /\ "write" \in use
  /\ SetUpStep("idle", "clear_tx_int") /\ SetParam /\ UNCHANGED imsc

ClearStep == SetUpStep("clear_tx_int", "read_imsc") /\ ClearTxInt /\ UNCHANGED imsc

ReadStep == SetUpStep("read_imsc", "write_imsc") /\ imsc' = unmasked /\ UNCHANGED txVars

WriteStep == SetUpStep("write_imsc", "idle") /\ WriteMask(imsc) /\ imsc' = FALSE

SetterStep == ClearStep \/ ReadStep \/ WriteStep

(* What the application and the peer do.                                   *)
RxUse ==
  /\ state = "USEABLE" /\ "read" \in use
  /\ \/ \E n \in 1 .. MaxCount : hi_uart_read(n) \/ hi_uart_read_timeout(n)
     \/ \E n \in 1 .. Burst : uart_nodma_recv_irq(n)
     \/ hi_uart_quit_read

TxUse ==
  /\ state = "USEABLE" /\ "write" \in use
  /\ \E n \in 1 .. MaxCount : written + n <= MaxBytes /\ hi_uart_write(n)

OfRx(action) == action /\ UNCHANGED <<state, use, setUp, txVars>>
OfTx(action) == action /\ UNCHANGED <<state, use, setUp, rxVars>>

RxNext == OfRx(RxUse) \/ OfRx(ReaderStep) \/ OfRx(uart_read_timeout_func)

TxNext ==
  OfTx(TxUse) \/ OfTx(WriterStep) \/ OfTx(uart_send_irq) \/ OfTx(Shift) \/ OfTx(RaiseTx)

Next == uart_open \/ uart_close \/ uart_ioctl \/ SetterStep \/ RxNext \/ TxNext

Spec == Init /\ [][Next]_vars

(* LiteOS lets a task that can run go on; the interrupt is taken, the      *)
(* timer expires and the line, without flow control, moves.                *)
Fairness ==
  /\ WF_vars(OfRx(ReaderStep)) /\ WF_vars(OfRx(uart_read_timeout_func))
  /\ WF_vars(OfTx(WriterStep)) /\ WF_vars(OfTx(uart_send_irq)) /\ WF_vars(OfTx(Shift))

FairSpec == Spec /\ Fairness

-----------------------------------------------------------------------------
UartTypeOK ==
  /\ state \in {"NOT_OPENED", "USEABLE"} /\ use \in Uses
  /\ setter \in {"idle", "clear_tx_int", "read_imsc", "write_imsc"} /\ imsc \in BOOLEAN
  /\ RxTypes /\ TxTypes

(* The interrupt will come, now or when the FIFO has drained.              *)
WillSend == unmasked /\ (raw \/ Len(fifo) > TxLine)

(* No byte is stranded: when hi_uart_write has returned and left bytes in  *)
(* the buffer, the interrupt that masks itself on an empty buffer is not   *)
(* masked and the hardware will raise it; unless a set-up has written an   *)
(* older mask over that of the writing task, and no write has come since.  *)
NothingStranded ==
  (writer = "idle" /\ ~uart_circ_buf_empty(tx_transfer) /\ ~overwritten) => WillSend

(* No wake-up is lost: a task waits for an event that is not pending only  *)
(* if there is nothing for it to do, and a writer only if the interrupt    *)
(* has bytes to move and will come, its mask not having been overwritten.  *)
NoLostWakeup ==
  /\ (reader = "wait" /\ "RD" \notin rd_events) => uart_circ_buf_empty(rx_transfer)
  /\ (writer = "wait" /\ ~wd_event)
       => ~uart_circ_buf_empty(tx_transfer) /\ (overwritten \/ WillSend)

(* Receiving is a stream: the task gets the bytes that were accepted in    *)
(* the order in which they came, none twice and none left out, although    *)
(* task and interrupt read and write the buffer without a common lock.     *)
Rx == INSTANCE ByteStream WITH Capacity <- RxSize, put <- received, got <- taken,
                               last <- given
RxStream == Rx!Spec

(* The bytes that have neither left nor been dropped are those in the FIFO *)
(* and in the buffer, each in one place, and the buffer keeps its bytes in *)
(* order, although the task chooses between the two by a flag that the     *)
(* interrupt changes.  While the task copies bytes in, they do not count.  *)
(* A byte is dropped at a full FIFO, although there was room when the task *)
(* looked, only in a write that passes bytes of an earlier one.            *)
EachByteOnce ==
  LET buffered == HeldBytes(tx_transfer)
  IN  /\ FifoBytes \cup buffered = waiting /\ FifoBytes \cap buffered = {}
      /\ Cardinality(FifoBytes) = Len(fifo)
      /\ \A i, j \in 0 .. Held(tx_transfer) - 1 : i < j =>
           tx_transfer.data[Cell(tx_transfer, tx_transfer.rp, i)]
             < tx_transfer.data[Cell(tx_transfer, tx_transfer.rp, j)]
      /\ (writer = "put" /\ ~overtakes) => Len(fifo) < FifoSize

(* A read without time-out that has bytes to return returns.               *)
ReadReturns ==
  (reader # "idle" /\ ~timed /\ ~uart_circ_buf_empty(rx_transfer)) ~> (reader = "idle")

(* Every write returns, and every byte that the buffer or the FIFO took is *)
(* sent, or dropped when the port is closed or flushed: unless the port is *)
(* set up again for ever, or the mask stays overwritten.                   *)
WriteReturns ==
  (<>[][~uart_ioctl]_vars /\ []<>~overwritten) =>
    /\ (writer # "idle") ~> (writer = "idle")
    /\ \A n \in 1 .. MaxBytes : (n \in waiting) ~> (n \notin waiting)

-----------------------------------------------------------------------------
(* src/include/base/hi_uart.h:210, on hi_uart_read_timeout: "Reads data in *)
(* specified timeout time".  Once its timer has expired, it returns.       *)
TimedReadReturns == (timed /\ g_uart_timeout) ~> (reader = "idle")
=============================================================================
