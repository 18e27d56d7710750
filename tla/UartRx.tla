------------------------------- MODULE UartRx -------------------------------
(***************************************************************************)
(* Receiving: the interrupt puts what the line brought into the buffer     *)
(* rx_transfer, one task reads it, at once, blocking, or with a time-out   *)
(* kept by a one-shot timer.  A read in progress is the function the task  *)
(* is in (reader) and its locals; the interrupt, the timer's callback and  *)
(* hi_uart_quit_read come between any two of its steps.                    *)
(*                                                                         *)
(* The events of both directions share an event object of LiteOS; as the   *)
(* masks are disjoint and hi_event_wait clears only what it waited for,    *)
(* each direction keeps its own bits.                                      *)
(***************************************************************************)
EXTENDS CircBuf

CONSTANTS RxSize,      \* bytes in rx_transfer (act.tx_buffer_size, as uart_open passes it)
          Burst,       \* bytes one interrupt takes from the hardware, 64 in the code
          MaxCount,    \* bounds the length asked of a read or a write
          MaxBytes     \* bounds the bytes of a direction

ASSUME RxSizeAssumption == RxSize \in Nat \ {0}
ASSUME BurstAssumption == Burst \in Nat \ {0}
ASSUME MaxCountAssumption == MaxCount \in Nat

VARIABLES
  rx_block,        \* act.rx_block = UART_FLG_RD_BLOCK
  rx_transfer,
  rd_events,       \* of UART_RD_EVENT and UART_RD_QUIT_EVENT: what is pending
  received,        \* how many bytes the buffer has accepted
  taken,           \* how many the task has read
  given,           \* the bytes of its last read that brought any
  reader,          \* where the reading task is
  count,           \* how much it still wants
  timed,           \* it is in hi_uart_read_timeout
  rsnap, rbuf,     \* locals of uart_read_circ_buf
  g_uart_timeout,
  timer            \* the one-shot timer runs

rxDevice == <<rx_block, rx_transfer, rd_events, received>>
rxCall == <<taken, given, reader, count, timed, rsnap, rbuf>>
rxTimer == <<g_uart_timeout, timer>>
rxVars == <<rxDevice, rxCall, rxTimer>>

NoRead == Pointers(EmptyBuf(RxSize))

RxInit ==
  /\ rx_block = TRUE /\ rx_transfer = EmptyBuf(RxSize) /\ rd_events = {}
  /\ received = 0 /\ taken = 0 /\ given = <<>>
  /\ reader = "idle" /\ count = 0 /\ timed = FALSE
  /\ rsnap = NoRead /\ rbuf = <<>>
  /\ g_uart_timeout = FALSE /\ timer = FALSE

(* uart_open and uart_close, on this direction: the buffer is new, or is   *)
(* freed with what it holds, and so is the event.                          *)
RxReset(block) ==
  /\ rx_block' = block
  /\ rx_transfer' = EmptyBuf(RxSize) /\ rd_events' = {}
  /\ received' = taken
  /\ UNCHANGED <<rxCall, rxTimer>>

-----------------------------------------------------------------------------
(* uart_nodma_recv_irq: n bytes are taken from the hardware, the buffer    *)
(* keeps the first of them that fit.                                       *)

Receive(n, events) ==
  /\ rx_transfer' = AfterWrite(CopyIn(rx_transfer, rx_transfer, received + 1,
                                      WriteCount(rx_transfer, n)), rx_transfer, n)
  /\ received' = received + WriteCount(rx_transfer, n)
  /\ received' <= MaxBytes
  /\ rd_events' = rd_events \cup events
  /\ UNCHANGED <<rx_block, rxCall, rxTimer>>

(* Mutant: the task is woken only when bytes were lost.                    *)
RecvIrqOnOverflow(n) ==
  Receive(n, IF rx_block /\ WriteCount(rx_transfer, n) < n THEN {"RD"} ELSE {})

uart_nodma_recv_irq(n) == Receive(n, IF rx_block THEN {"RD"} ELSE {})

(* hi_uart_quit_read, by any task; an error unless reads block.            *)
hi_uart_quit_read ==
  /\ rx_block
  /\ rd_events' = rd_events \cup {"QUIT"}
  /\ UNCHANGED <<rx_block, rx_transfer, received, rxCall, rxTimer>>

(* uart_read_timeout_func, in the task of the timers, above every reader.  *)
uart_read_timeout_func ==
  /\ timer
  /\ timer' = FALSE /\ g_uart_timeout' = TRUE
  /\ rd_events' = IF rx_block THEN rd_events \cup {"QUIT"} ELSE rd_events
  /\ UNCHANGED <<rx_block, rx_transfer, received, rxCall>>

-----------------------------------------------------------------------------
(* The reading task.                                                       *)

hi_uart_read(n) ==
  /\ reader = "idle"
  /\ reader' = "uart_read" /\ count' = n
  /\ UNCHANGED <<rxDevice, taken, given, timed, rsnap, rbuf, rxTimer>>

hi_uart_read_timeout(n) ==
  /\ reader = "idle"
  /\ reader' = "loop" /\ count' = n /\ timed' = TRUE
  /\ g_uart_timeout' = FALSE /\ timer' = TRUE
  /\ UNCHANGED <<rxDevice, taken, given, rsnap, rbuf>>

(* The loop of hi_uart_read_timeout, and the test behind it.               *)
TimeoutLoop ==
  /\ reader = "loop"
  /\ reader' = IF count > 0 /\ ~g_uart_timeout THEN "uart_read" ELSE "stop"
  /\ UNCHANGED <<rxDevice, taken, given, count, timed, rsnap, rbuf, rxTimer>>

StopTimer ==
  /\ reader = "stop"
  /\ timer' = (timer /\ g_uart_timeout)
  /\ reader' = "idle" /\ count' = 0 /\ timed' = FALSE
  /\ UNCHANGED <<rxDevice, taken, given, rsnap, rbuf, g_uart_timeout>>

(* uart_read returns n bytes to its caller.                                *)
ReturnRead(n) ==
  /\ reader' = IF timed THEN "loop" ELSE "idle"
  /\ count' = IF timed THEN count - n ELSE 0

SnapRead ==
  /\ reader = "uart_read"
  /\ rsnap' = Pointers(rx_transfer)
  /\ reader' = "copy"
  /\ UNCHANGED <<rxDevice, taken, given, count, timed, rbuf, rxTimer>>

CopyRead ==
  /\ reader = "copy"
  /\ rbuf' = CopyOut(rx_transfer, rsnap, ReadCount(rsnap, count))
  /\ reader' = "publish"
  /\ UNCHANGED <<rxDevice, taken, given, count, timed, rsnap, rxTimer>>

PublishThen(events) ==
  LET n == ReadCount(rsnap, count)
  IN  /\ reader = "publish"
      /\ rx_transfer' = AfterRead(rx_transfer, rsnap, count)
      /\ taken' = taken + n
      /\ given' = IF n > 0 THEN rbuf ELSE given
      /\ IF n = 0 /\ rx_block
           THEN reader' = "wait" /\ UNCHANGED count
           ELSE ReturnRead(n)
      /\ rd_events' = events
      /\ rsnap' = NoRead /\ rbuf' = <<>>
      /\ UNCHANGED <<rx_block, received, timed, rxTimer>>

(* Mutant: events left over are cleared before the task waits.             *)
PublishReadClears == PublishThen({})

(* The pointer is moved; without a byte a blocking read goes to wait.      *)
PublishRead == PublishThen(rd_events)

(* hi_event_wait, for ever.  Only QUIT alone ends the read.                *)
WaitRead ==
  /\ reader = "wait" /\ rd_events # {}
  /\ rd_events' = {}
  /\ IF rd_events = {"QUIT"}
       THEN ReturnRead(0)
       ELSE reader' = "uart_read" /\ UNCHANGED count
  /\ UNCHANGED <<rx_block, rx_transfer, received, taken, given, timed, rsnap, rbuf,
                 rxTimer>>

ReaderStep ==
  TimeoutLoop \/ StopTimer \/ SnapRead \/ CopyRead \/ PublishRead \/ WaitRead

-----------------------------------------------------------------------------
RxTypes ==
  /\ rx_block \in BOOLEAN /\ rx_transfer \in CircBufs(RxSize)
  /\ rd_events \subseteq {"RD", "QUIT"}
  /\ received \in Nat /\ taken \in Nat
  /\ reader \in {"idle", "loop", "stop", "uart_read", "copy", "publish", "wait"}
  /\ count \in Nat /\ timed \in BOOLEAN /\ rsnap \in Snapshots(RxSize)
  /\ g_uart_timeout \in BOOLEAN /\ timer \in BOOLEAN
=============================================================================
