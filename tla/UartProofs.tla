----------------------------- MODULE UartProofs -----------------------------
(***************************************************************************)
(* For buffers, FIFO, trigger level, bursts and lengths of any size: the   *)
(* types, that no byte is stranded, that no wake-up is lost, that received *)
(* bytes form a stream and that each written byte is in one place.         *)
(***************************************************************************)
EXTENDS Uart, CircBufProofs, SequenceTheorems, FunctionTheorems, FiniteSetTheorems

(* While the task reads, the buffer only gains bytes; a read that saw none *)
(* although some have come finds the event when it goes to wait.           *)
RxInv ==
  /\ RxTypes
  /\ InOrder(rx_transfer)
  /\ state = "NOT_OPENED" => reader = "idle"
  /\ received = taken + Held(rx_transfer) /\ Numbered(rx_transfer, taken)
  /\ reader \in {"copy", "publish"} => ReadSeen(rx_transfer, rsnap)
  /\ reader = "publish" => rbuf = [k \in 1 .. ReadCount(rsnap, count) |-> taken + k]
  /\ reader \in {"uart_read", "copy", "publish", "wait"} => count # 0
  /\ reader = "wait" => rx_block
  /\ (/\ reader \in {"copy", "publish"} /\ rx_block
      /\ Held(rsnap) = 0 /\ Held(rx_transfer) # 0) => "RD" \in rd_events
  /\ (reader = "wait" /\ "RD" \notin rd_events) => Held(rx_transfer) = 0

(* The hardware is above the trigger level or wants to be served, once it  *)
(* has been served for the first time.                                     *)
Alive == raw \/ Len(fifo) > TxLine

(* What the writing task knows although the interrupt goes on: the buffer  *)
(* is used only if there are interrupts, bytes are in it only if they are  *)
(* unmasked or about to be or a set-up took them away, and it is full as   *)
(* long as the task has not been told otherwise.  A write that began to    *)
(* poll on an empty buffer has the FIFO to itself.                         *)
TxInv ==
  /\ TxTypes
  /\ InOrder(tx_transfer)
  /\ state = "NOT_OPENED" => writer = "idle"
  /\ raw => Len(fifo) <= TxLine
  /\ (\/ receive_tx_int \/ Held(tx_transfer) # 0
      \/ writer \in {"snapshot", "copy", "publish", "unmask_wait", "unmask_end", "wait"})
       => Alive
  /\ (Held(tx_transfer) # 0 /\ writer \notin {"unmask_wait", "unmask_end"})
       => unmasked \/ overwritten
  /\ writer \in {"copy", "publish"} => WriteSeen(tx_transfer, wsnap)
  /\ (writer \in {"copy", "publish"} /\ tx_block /\ ~wd_event)
       => Pointers(tx_transfer) = wsnap
  /\ writer \in {"unmask_wait", "wait"}
       => tx_block /\ (~wd_event => Held(tx_transfer) # 0)
  /\ writer \in {"uart_write", "snapshot", "copy", "publish", "unmask_wait", "wait",
                 "unmask_poll", "poll", "put"} => left # 0
  /\ (writer \in {"unmask_poll", "poll", "put"} /\ ~overtakes) => Held(tx_transfer) = 0
  /\ (writer = "put" /\ ~overtakes) => Len(fifo) < FifoSize

(* The port, and the task that sets it up.                                 *)
PortInv ==
  /\ state \in {"NOT_OPENED", "USEABLE"} /\ use \in Uses
  /\ setter \in {"idle", "clear_tx_int", "read_imsc", "write_imsc"} /\ imsc \in BOOLEAN

(* Where the accepted bytes are.                                           *)
TxBytesInv ==
  /\ \A i, j \in 1 .. Len(fifo) : fifo[i] = fifo[j] => i = j
  /\ FifoBytes \cup HeldBytes(tx_transfer) = waiting
  /\ FifoBytes \cap HeldBytes(tx_transfer) = {}
  /\ Ordered(tx_transfer)
  /\ state = "NOT_OPENED" => Held(tx_transfer) = 0
  /\ writer = "publish" => \A k \in 0 .. WriteCount(wsnap, left) - 1 :
       tx_transfer.data[Cell(wsnap, wsnap.wp, k)] = written + 1 + k

-----------------------------------------------------------------------------
(* Receiving.                                                              *)

LEMMA RxStart == Init => RxInv
<1> SUFFICES ASSUME Init PROVE RxInv OBVIOUS
<1>1. /\ EmptyBuf(RxSize) \in CircBufs(RxSize) /\ InOrder(EmptyBuf(RxSize))
      /\ Held(EmptyBuf(RxSize)) = 0 /\ Numbered(EmptyBuf(RxSize), 0)
      /\ NoRead \in Snapshots(RxSize)
  BY RxSizeAssumption, EmptyFacts, PointersFacts DEF NoRead
<1>2. timed \in BOOLEAN /\ timer \in BOOLEAN /\ g_uart_timeout \in BOOLEAN
      /\ rx_block \in BOOLEAN
  BY DEF Init, RxInit
<1> QED BY <1>1, <1>2 DEF Init, RxInit, RxInv, RxTypes

LEMMA RxResetInv ==
  ASSUME RxInv, reader = "idle", NEW block \in BOOLEAN, RxReset(block),
         state' = "NOT_OPENED" => reader' = "idle"
  PROVE  RxInv'
<1>1. /\ EmptyBuf(RxSize) \in CircBufs(RxSize) /\ InOrder(EmptyBuf(RxSize))
      /\ Held(EmptyBuf(RxSize)) = 0
      /\ \A n \in Nat : Numbered(EmptyBuf(RxSize), n)
  <2>1. /\ EmptyBuf(RxSize) \in CircBufs(RxSize) /\ InOrder(EmptyBuf(RxSize))
        /\ Held(EmptyBuf(RxSize)) = 0
    BY RxSizeAssumption, EmptyFacts
  <2>2. \A n \in Nat : Numbered(EmptyBuf(RxSize), n)
    BY <2>1 DEF Numbered
  <2> QED BY <2>1, <2>2
<1>2. RxTypes' BY <1>1 DEF RxInv, RxTypes, RxReset, rxCall, rxTimer
<1> QED BY <1>1, <1>2 DEF RxInv, RxTypes, RxReset, rxCall, rxTimer

LEMMA RxUnchanged ==
  ASSUME RxInv, UNCHANGED <<state, rxVars>> PROVE RxInv'
<1>1. UNCHANGED <<rx_block, rx_transfer, rd_events, received, taken, given, reader,
                  count, timed, rsnap, rbuf, g_uart_timeout, timer>>
  BY DEF rxVars, rxDevice, rxCall, rxTimer
<1>2. RxTypes' BY <1>1 DEF RxInv, RxTypes
<1> QED BY <1>1, <1>2 DEF RxInv

(* What a burst of n bytes does to the buffer.                             *)
LEMMA ReceiveFacts ==
  ASSUME NEW size \in Nat \ {0}, NEW b \in CircBufs(size), InOrder(b), NEW n \in Nat,
         NEW start \in Nat, Numbered(b, start), NEW first \in Nat,
         first = start + Held(b) + 1
  PROVE  LET m == WriteCount(b, n)
             a == AfterWrite(CopyIn(b, b, first, m), b, n)
         IN  /\ m \in Nat /\ a \in CircBufs(size) /\ InOrder(a)
             /\ Held(a) = Held(b) + m /\ Numbered(a, start)
             /\ \A s \in Snapshots(size) : ReadSeen(b, s) => ReadSeen(a, s)
<1> DEFINE p == Pointers(b)
           m == WriteCount(b, n)
           c == CopyIn(b, b, first, m)
           a == AfterWrite(c, b, n)
<1>1. /\ p \in Snapshots(size) /\ WriteSeen(b, p) /\ Held(p) = Held(b) /\ InOrder(p)
  BY PointersFacts DEF WriteSeen
<1>2. /\ m = WriteCount(p, n) /\ c = CopyIn(b, p, first, m) /\ a = AfterWrite(c, p, n)
  BY OwnPointers
<1>3. m \in Nat /\ m <= size - Held(p)
  <2>1. m = Lesser(n, size - Held(p)) /\ m \in 0 .. n BY <1>1, <1>2, WriteCountFacts
  <2>2. Held(p) \in Nat BY <1>1, HeldBounds
  <2> QED BY <2>1, <2>2 DEF Lesser
<1> HIDE DEF p, m
<1>4. /\ c \in CircBufs(size) /\ InOrder(c) /\ WriteSeen(c, p) /\ Held(c) = Held(b)
      /\ Pointers(c) = Pointers(b)
      /\ \A k \in 0 .. Held(b) - 1 : c.data[Cell(b, b.rp, k)] = b.data[Cell(b, b.rp, k)]
      /\ \A k \in 0 .. m - 1 : c.data[Cell(p, p.wp, k)] = first + k
  BY <1>1, <1>2, <1>3, CopyInFacts
<1> HIDE DEF c
<1>5. Numbered(c, start)
  <2>1. Cell(c, c.rp, 0) = Cell(b, b.rp, 0) /\ \A k : Cell(c, c.rp, k) = Cell(b, b.rp, k)
    BY <1>4 DEF Cell, Pointers
  <2> QED BY <1>4, <2>1 DEF Numbered
<1>6. a \in CircBufs(size) /\ InOrder(a) /\ Held(a) = Held(b) + m
  BY <1>1, <1>2, <1>4, WriteFacts
<1>7. Numbered(a, start)
  <2>1. \A k \in 0 .. WriteCount(p, n) - 1 : c.data[Cell(p, p.wp, k)] = start + Held(c) + 1 + k
    BY <1>2, <1>4
  <2> QED BY <1>1, <1>2, <1>4, <1>5, <2>1, WriteCells
<1>8. ASSUME NEW s \in Snapshots(size), ReadSeen(b, s) PROVE ReadSeen(a, s)
  BY <1>4, <1>8, ReadStaysSeen
<1> HIDE DEF a
<1> QED BY <1>3, <1>6, <1>7, <1>8 DEF a, c, m

LEMMA ReceiveInv ==
  ASSUME RxInv, UNCHANGED state, NEW n \in 1 .. Burst, uart_nodma_recv_irq(n) PROVE RxInv'
<1> DEFINE a == AfterWrite(CopyIn(rx_transfer, rx_transfer, received + 1,
                                  WriteCount(rx_transfer, n)), rx_transfer, n)
           m == WriteCount(rx_transfer, n)
           events == IF rx_block THEN {"RD"} ELSE {}
<1>1. /\ rx_transfer \in CircBufs(RxSize) /\ InOrder(rx_transfer) /\ taken \in Nat
      /\ Numbered(rx_transfer, taken) /\ received \in Nat
      /\ received + 1 = taken + Held(rx_transfer) + 1 /\ n \in Nat
  BY BurstAssumption DEF RxInv, RxTypes
<1>2. /\ m \in Nat /\ a \in CircBufs(RxSize) /\ InOrder(a)
      /\ Held(a) = Held(rx_transfer) + m /\ Numbered(a, taken)
      /\ \A s \in Snapshots(RxSize) : ReadSeen(rx_transfer, s) => ReadSeen(a, s)
  BY <1>1, RxSizeAssumption, ReceiveFacts
<1>3. /\ rx_transfer' = a /\ received' = received + m /\ rd_events' = rd_events \cup events
      /\ UNCHANGED <<rx_block, taken, given, reader, count, timed, rsnap, rbuf,
                     g_uart_timeout, timer>>
  BY DEF uart_nodma_recv_irq, Receive, rxCall, rxTimer
<1>4. Held(rx_transfer) \in Nat BY <1>1, RxSizeAssumption, HeldBounds
<1> HIDE DEF a, m
<1>5. RxTypes'
  BY <1>1, <1>2, <1>3 DEF RxInv, RxTypes, events
<1>6. received' = taken' + Held(rx_transfer')
  <2>1. received = taken + Held(rx_transfer) BY DEF RxInv
  <2>2. Held(rx_transfer') = Held(rx_transfer) + m BY <1>2, <1>3
  <2> QED BY <1>1, <1>2, <1>3, <1>4, <2>1, <2>2
<1>7. Held(rx_transfer') # 0 => (Held(rx_transfer) # 0 \/ m # 0)
  BY <1>2, <1>3, <1>4
<1>8. rx_block => "RD" \in rd_events'
  BY <1>3
<1>9. reader \in {"copy", "publish"} => ReadSeen(rx_transfer', rsnap')
  BY <1>2, <1>3 DEF RxInv, RxTypes
<1> QED BY <1>1, <1>2, <1>3, <1>5, <1>6, <1>8, <1>9 DEF RxInv

(* The other steps that leave the buffer alone.                            *)
LEMMA ReadEventsInv ==
  ASSUME RxInv, UNCHANGED state, hi_uart_quit_read \/ uart_read_timeout_func PROVE RxInv'
<1>1. /\ UNCHANGED <<rx_block, rx_transfer, received, taken, given, reader, count, timed,
                     rsnap, rbuf>>
      /\ rd_events \subseteq rd_events' /\ rd_events' \subseteq rd_events \cup {"QUIT"}
  <2>1. CASE hi_uart_quit_read BY <2>1 DEF hi_uart_quit_read, rxCall, rxTimer
  <2>2. CASE uart_read_timeout_func BY <2>2 DEF uart_read_timeout_func, rxCall
  <2> QED BY <2>1, <2>2
<1>2. g_uart_timeout' \in BOOLEAN /\ timer' \in BOOLEAN
  <2>1. CASE hi_uart_quit_read BY <2>1 DEF hi_uart_quit_read, rxTimer, RxInv, RxTypes
  <2>2. CASE uart_read_timeout_func BY <2>2 DEF uart_read_timeout_func
  <2> QED BY <2>1, <2>2
<1>3. RxTypes' BY <1>1, <1>2 DEF RxInv, RxTypes
<1> QED BY <1>1, <1>3 DEF RxInv

LEMMA ReadCallInv ==
  ASSUME RxInv, state = "USEABLE", UNCHANGED state, NEW n \in 1 .. MaxCount,
         hi_uart_read(n) \/ hi_uart_read_timeout(n)
  PROVE  RxInv'
<1>1. UNCHANGED <<rx_block, rx_transfer, rd_events, received, taken, given, rsnap, rbuf>>
  BY DEF hi_uart_read, hi_uart_read_timeout, rxDevice, rxTimer
<1>2. /\ reader' \in {"uart_read", "loop"} /\ count' = n /\ n \in Nat /\ n # 0
      /\ timed' \in BOOLEAN /\ g_uart_timeout' \in BOOLEAN /\ timer' \in BOOLEAN
  <2>1. n \in Nat /\ n # 0 BY MaxCountAssumption
  <2>2. CASE hi_uart_read(n) BY <2>1, <2>2 DEF hi_uart_read, rxTimer, RxInv, RxTypes
  <2>3. CASE hi_uart_read_timeout(n) BY <2>1, <2>3 DEF hi_uart_read_timeout
  <2> QED BY <2>2, <2>3
<1>3. RxTypes' BY <1>1, <1>2 DEF RxInv, RxTypes
<1> QED BY <1>1, <1>2, <1>3 DEF RxInv

LEMMA TimedReadInv ==
  ASSUME RxInv, UNCHANGED state, TimeoutLoop \/ StopTimer PROVE RxInv'
<1>1. UNCHANGED <<rx_block, rx_transfer, rd_events, received, taken, given, rsnap, rbuf,
                  g_uart_timeout>>
  BY DEF TimeoutLoop, StopTimer, rxDevice, rxTimer
<1>2. CASE TimeoutLoop
  <2>1. /\ UNCHANGED <<count, timed, timer>> /\ reader = "loop"
        /\ reader' = IF count > 0 /\ ~g_uart_timeout THEN "uart_read" ELSE "stop"
    BY <1>2 DEF TimeoutLoop, rxTimer
  <2>2. RxTypes' BY <1>1, <2>1 DEF RxInv, RxTypes
  <2>3. reader' \in {"uart_read", "stop"} /\ (reader' = "uart_read" => count # 0)
    BY <2>1 DEF RxInv, RxTypes
  <2> QED BY <1>1, <2>1, <2>2, <2>3 DEF RxInv
<1>3. CASE StopTimer
  <2>1. reader' = "idle" /\ count' = 0 /\ timed' = FALSE /\ timer' \in BOOLEAN
    BY <1>3 DEF StopTimer
  <2>2. RxTypes' BY <1>1, <2>1 DEF RxInv, RxTypes
  <2> QED BY <1>1, <2>1, <2>2 DEF RxInv
<1> QED BY <1>2, <1>3

LEMMA SnapReadInv ==
  ASSUME RxInv, UNCHANGED state, SnapRead PROVE RxInv'
<1>1. /\ UNCHANGED <<rx_block, rx_transfer, rd_events, received, taken, given, count, timed,
                     rbuf, g_uart_timeout, timer>>
      /\ reader = "uart_read" /\ reader' = "copy" /\ rsnap' = Pointers(rx_transfer)
  BY DEF SnapRead, rxDevice, rxTimer
<1>2. /\ rsnap' \in Snapshots(RxSize) /\ ReadSeen(rx_transfer, rsnap')
      /\ Held(rsnap') = Held(rx_transfer)
  BY <1>1, RxSizeAssumption, PointersFacts DEF RxInv, RxTypes
<1>3. RxTypes' BY <1>1, <1>2 DEF RxInv, RxTypes
<1> QED BY <1>1, <1>2, <1>3 DEF RxInv

LEMMA CopyReadInv ==
  ASSUME RxInv, UNCHANGED state, CopyRead PROVE RxInv'
<1>1. /\ UNCHANGED <<rx_block, rx_transfer, rd_events, received, taken, given, count, timed,
                     rsnap, g_uart_timeout, timer>>
      /\ reader = "copy" /\ reader' = "publish"
      /\ rbuf' = CopyOut(rx_transfer, rsnap, ReadCount(rsnap, count))
  BY DEF CopyRead, rxDevice, rxTimer
<1>2. rbuf' = [k \in 1 .. ReadCount(rsnap, count) |-> taken + k]
  <2>1. /\ rx_transfer \in CircBufs(RxSize) /\ rsnap \in Snapshots(RxSize) /\ count \in Nat
        /\ taken \in Nat /\ InOrder(rx_transfer) /\ Numbered(rx_transfer, taken)
        /\ ReadSeen(rx_transfer, rsnap)
    BY <1>1 DEF RxInv, RxTypes
  <2> QED BY <1>1, <2>1, RxSizeAssumption, ReadCells
<1>3. RxTypes' BY <1>1 DEF RxInv, RxTypes
<1> QED BY <1>1, <1>2, <1>3 DEF RxInv

LEMMA WaitReadInv ==
  ASSUME RxInv, UNCHANGED state, WaitRead PROVE RxInv'
<1>1. /\ UNCHANGED <<rx_block, rx_transfer, received, taken, given, timed, rsnap, rbuf,
                     g_uart_timeout, timer>>
      /\ reader = "wait" /\ rd_events' = {}
  BY DEF WaitRead, rxTimer
<1>2. /\ reader' \in {"uart_read", "loop", "idle"} /\ count' \in Nat
      /\ reader' = "uart_read" => count' = count
  BY DEF WaitRead, ReturnRead, RxInv, RxTypes
<1>3. RxTypes' BY <1>1, <1>2 DEF RxInv, RxTypes
<1> QED BY <1>1, <1>2, <1>3 DEF RxInv

(* The pointer is moved by what the reader copied, whatever has come since. *)
LEMMA PublishReadInv ==
  ASSUME RxInv, UNCHANGED state, PublishRead PROVE RxInv'
<1> DEFINE n == ReadCount(rsnap, count)
           a == AfterRead(rx_transfer, rsnap, count)
<1>1. /\ rx_transfer \in CircBufs(RxSize) /\ rsnap \in Snapshots(RxSize) /\ count \in Nat
      /\ taken \in Nat /\ received \in Nat /\ InOrder(rx_transfer)
      /\ Numbered(rx_transfer, taken) /\ ReadSeen(rx_transfer, rsnap) /\ count # 0
      /\ rd_events \subseteq {"RD", "QUIT"}
      /\ received = taken + Held(rx_transfer) /\ timed \in BOOLEAN
  BY DEF PublishRead, PublishThen, RxInv, RxTypes
<1>2. /\ a \in CircBufs(RxSize) /\ InOrder(a) /\ Held(a) = Held(rx_transfer) - n
      /\ Numbered(a, taken + n)
  BY <1>1, RxSizeAssumption, ReadFacts, ReadCells
<1>3. n = Lesser(count, Held(rsnap)) /\ n \in 0 .. count
  BY <1>1, RxSizeAssumption, ReadCountFacts DEF ReadSeen
<1>4. Held(rsnap) \in Nat /\ Held(rx_transfer) \in Nat
  BY <1>1, RxSizeAssumption, HeldBounds DEF ReadSeen
<1> HIDE DEF a, n
<1>5. /\ rx_transfer' = a /\ taken' = taken + n /\ rd_events' = rd_events
      /\ UNCHANGED <<rx_block, received, timed, g_uart_timeout, timer>>
      /\ rsnap' = NoRead
      /\ IF n = 0 /\ rx_block
           THEN reader' = "wait" /\ UNCHANGED count
           ELSE /\ reader' = IF timed THEN "loop" ELSE "idle"
                /\ count' = IF timed THEN count - n ELSE 0
      /\ reader = "publish"
  BY DEF PublishRead, PublishThen, ReturnRead, rxTimer, a, n
<1>6. NoRead \in Snapshots(RxSize)
  BY RxSizeAssumption, EmptyFacts, PointersFacts DEF NoRead
<1>7. received' = taken' + Held(rx_transfer')
  BY <1>1, <1>2, <1>3, <1>4, <1>5
<1>8. count' \in Nat /\ reader' \in {"wait", "loop", "idle"}
  BY <1>1, <1>3, <1>5
<1>9. RxTypes'
  BY <1>1, <1>2, <1>3, <1>5, <1>6, <1>8 DEF RxInv, RxTypes
<1>10. reader' = "wait" => rx_block' /\ count' # 0 /\ ("RD" \notin rd_events' => Held(rx_transfer') = 0)
  <2> SUFFICES ASSUME reader' = "wait"
               PROVE  rx_block' /\ count' # 0 /\ ("RD" \notin rd_events' => Held(rx_transfer') = 0)
    OBVIOUS
  <2>1. n = 0 /\ rx_block /\ UNCHANGED count BY <1>5
  <2>2. Held(rsnap) = 0 BY <1>1, <1>3, <1>4, <2>1 DEF Lesser
  <2>3. "RD" \notin rd_events => Held(rx_transfer) = 0
    BY <1>5, <2>1, <2>2 DEF RxInv
  <2>4. Held(rx_transfer') = Held(rx_transfer) BY <1>2, <1>4, <1>5, <2>1
  <2> QED BY <1>1, <1>5, <2>1, <2>3, <2>4
<1> QED BY <1>2, <1>5, <1>7, <1>8, <1>9, <1>10 DEF RxInv

LEMMA RxStep == RxInv /\ [Next]_vars => RxInv'
<1> SUFFICES ASSUME RxInv, [Next]_vars PROVE RxInv' OBVIOUS
<1>1. CASE uart_open
  <2>1. reader = "idle" BY <1>1 DEF uart_open, RxInv
  <2>2. PICK rd \in BOOLEAN : RxReset(rd) BY <1>1 DEF uart_open
  <2> QED BY <1>1, <2>1, <2>2, RxResetInv DEF uart_open
<1>2. CASE uart_close
  <2>1. reader' = "idle" BY <1>2 DEF uart_close, RxReset, rxCall
  <2> QED BY <1>2, <2>1, RxResetInv DEF uart_close
<1>3. CASE uart_ioctl \/ SetterStep
  BY <1>3, RxUnchanged DEF uart_ioctl, SetterStep, ClearStep, ReadStep, WriteStep, SetUpStep
<1>4. CASE RxNext
  <2>1. CASE OfRx(RxUse)
    <3>1. state = "USEABLE" /\ UNCHANGED state BY <2>1 DEF OfRx, RxUse
    <3>2. CASE \E n \in 1 .. MaxCount : hi_uart_read(n) \/ hi_uart_read_timeout(n)
      BY <3>1, <3>2, ReadCallInv
    <3>3. CASE \E n \in 1 .. Burst : uart_nodma_recv_irq(n) BY <3>1, <3>3, ReceiveInv
    <3>4. CASE hi_uart_quit_read BY <3>1, <3>4, ReadEventsInv
    <3> QED BY <2>1, <3>2, <3>3, <3>4 DEF OfRx, RxUse
  <2>2. CASE OfRx(ReaderStep)
    BY <2>2, TimedReadInv, SnapReadInv, CopyReadInv, PublishReadInv, WaitReadInv
       DEF OfRx, ReaderStep
  <2>3. CASE OfRx(uart_read_timeout_func) BY <2>3, ReadEventsInv DEF OfRx
  <2> QED BY <1>4, <2>1, <2>2, <2>3 DEF RxNext
<1>5. CASE TxNext BY <1>5, RxUnchanged DEF TxNext, OfTx
<1>6. CASE UNCHANGED vars BY <1>6, RxUnchanged DEF vars
<1> QED BY <1>1, <1>2, <1>3, <1>4, <1>5, <1>6 DEF Next

-----------------------------------------------------------------------------
(* Receiving implements the stream.                                        *)

LEMMA RxStartMaps == Init => Rx!Init
BY DEF Init, RxInit, Rx!Init

LEMMA ReceiveMaps ==
  ASSUME RxInv, NEW n \in 1 .. Burst, uart_nodma_recv_irq(n) PROVE [Rx!Next]_Rx!streamVars
<1> DEFINE m == WriteCount(rx_transfer, n)
           a == AfterWrite(CopyIn(rx_transfer, rx_transfer, received + 1, m), rx_transfer, n)
<1>1. /\ rx_transfer \in CircBufs(RxSize) /\ InOrder(rx_transfer) /\ taken \in Nat
      /\ Numbered(rx_transfer, taken) /\ received \in Nat
      /\ received = taken + Held(rx_transfer) /\ n \in Nat
      /\ received + 1 = taken + Held(rx_transfer) + 1
  BY BurstAssumption DEF RxInv, RxTypes
<1>2. /\ m \in Nat /\ a \in CircBufs(RxSize) /\ InOrder(a) /\ Held(a) = Held(rx_transfer) + m
  BY <1>1, RxSizeAssumption, ReceiveFacts
<1>3. Held(a) \in 0 .. RxSize /\ Held(rx_transfer) \in Nat
  BY <1>1, <1>2, RxSizeAssumption, HeldBounds
<1> HIDE DEF a
<1>4. received' = received + m /\ UNCHANGED <<taken, given>>
  BY DEF uart_nodma_recv_irq, Receive, rxCall
<1> HIDE DEF m
<1>5. CASE m = 0 BY <1>1, <1>4, <1>5 DEF Rx!streamVars
<1>6. CASE m # 0
  <2>1. received' \in received + 1 .. taken + RxSize
    BY <1>1, <1>2, <1>3, <1>4, <1>6, RxSizeAssumption
  <2> QED BY <1>4, <2>1 DEF Rx!Next, Rx!Put
<1> QED BY <1>5, <1>6

LEMMA PublishReadMaps ==
  ASSUME RxInv, PublishRead PROVE [Rx!Next]_Rx!streamVars
<1> DEFINE n == ReadCount(rsnap, count)
<1>1. /\ rx_transfer \in CircBufs(RxSize) /\ rsnap \in Snapshots(RxSize) /\ count \in Nat
      /\ taken \in Nat /\ received \in Nat /\ InOrder(rx_transfer)
      /\ ReadSeen(rx_transfer, rsnap) /\ received = taken + Held(rx_transfer)
      /\ rbuf = [k \in 1 .. n |-> taken + k]
  BY DEF PublishRead, PublishThen, RxInv, RxTypes
<1>2. n \in Nat /\ n <= Held(rx_transfer)
  <2>1. n <= Held(rx_transfer) BY <1>1, RxSizeAssumption, ReadFacts
  <2>2. n \in 0 .. count BY <1>1, RxSizeAssumption, ReadCountFacts DEF ReadSeen
  <2> QED BY <1>1, <2>1, <2>2
<1>3. Held(rx_transfer) \in Nat BY <1>1, RxSizeAssumption, HeldBounds
<1>4. taken' = taken + n /\ received' = received /\ given' = IF n > 0 THEN rbuf ELSE given
  BY DEF PublishRead, PublishThen
<1> HIDE DEF n
<1>5. CASE n = 0 BY <1>1, <1>4, <1>5 DEF Rx!streamVars
<1>6. CASE n # 0
  <2>1. n \in 1 .. received - taken /\ n > 0 BY <1>1, <1>2, <1>3, <1>6
  <2>2. given' = [k \in 1 .. n |-> taken + k] BY <1>1, <1>4, <2>1
  <2> QED BY <1>4, <2>1, <2>2 DEF Rx!Next, Rx!Get
<1> QED BY <1>5, <1>6

LEMMA RxResetMaps ==
  ASSUME RxInv, NEW block, RxReset(block) PROVE [Rx!Next]_Rx!streamVars
<1>1. received' = taken /\ UNCHANGED <<taken, given>> BY DEF RxReset, rxCall
<1>2. taken \in Nat /\ received \in Nat /\ taken <= received
  <2>1. /\ rx_transfer \in CircBufs(RxSize) /\ InOrder(rx_transfer) /\ taken \in Nat
        /\ received \in Nat /\ received = taken + Held(rx_transfer)
    BY DEF RxInv, RxTypes
  <2>2. Held(rx_transfer) \in Nat BY <2>1, RxSizeAssumption, HeldBounds
  <2> QED BY <2>1, <2>2
<1>3. received' \in taken .. received BY <1>1, <1>2
<1> QED BY <1>1, <1>3 DEF Rx!Next, Rx!Drop

LEMMA RxStepMaps == RxInv /\ [Next]_vars => [Rx!Next]_Rx!streamVars
<1> SUFFICES ASSUME RxInv, [Next]_vars PROVE [Rx!Next]_Rx!streamVars OBVIOUS
<1>1. ASSUME UNCHANGED <<received, taken, given>> PROVE [Rx!Next]_Rx!streamVars
  BY <1>1 DEF Rx!streamVars
<1>2. CASE uart_open BY <1>2, RxResetMaps DEF uart_open
<1>3. CASE uart_close BY <1>3, RxResetMaps DEF uart_close
<1>4. CASE uart_ioctl \/ SetterStep \/ TxNext \/ UNCHANGED vars
  BY <1>1, <1>4 DEF uart_ioctl, SetterStep, ClearStep, ReadStep, WriteStep, SetUpStep,
                    TxNext, OfTx, vars, rxVars, rxDevice, rxCall
<1>5. CASE RxNext
  <2>1. CASE \E n \in 1 .. Burst : uart_nodma_recv_irq(n) BY <2>1, ReceiveMaps
  <2>2. CASE PublishRead BY <2>2, PublishReadMaps
  <2>3. CASE \/ \E n \in 1 .. MaxCount : hi_uart_read(n) \/ hi_uart_read_timeout(n)
             \/ hi_uart_quit_read \/ uart_read_timeout_func
    BY <1>1, <2>3 DEF hi_uart_read, hi_uart_read_timeout, hi_uart_quit_read,
                      uart_read_timeout_func, rxDevice, rxCall
  <2>4. CASE TimeoutLoop \/ StopTimer \/ SnapRead \/ CopyRead \/ WaitRead
    BY <1>1, <2>4 DEF TimeoutLoop, StopTimer, SnapRead, CopyRead, WaitRead, rxDevice
  <2> QED BY <1>5, <2>1, <2>2, <2>3, <2>4 DEF RxNext, OfRx, RxUse, ReaderStep
<1> QED BY <1>2, <1>3, <1>4, <1>5 DEF Next

(* The bytes that the reading task gets are those that the interrupt took  *)
(* from the line and the buffer accepted, in their order, each once, for   *)
(* any sizes: RxStream, on uart_read_circ_buf and uart_write_circ_buf.     *)
THEOREM ReceivingIsAStream == Spec => RxStream
<1>1. Spec => []RxInv BY RxStart, RxStep, PTL DEF Spec
<1> QED BY <1>1, RxStartMaps, RxStepMaps, PTL DEF Spec, RxStream, Rx!Spec

-----------------------------------------------------------------------------
(* Sending.                                                                *)

LEMMA TxStart == Init => TxInv
<1> SUFFICES ASSUME Init PROVE TxInv OBVIOUS
<1>1. /\ EmptyBuf(TxSize) \in CircBufs(TxSize) /\ InOrder(EmptyBuf(TxSize))
      /\ Held(EmptyBuf(TxSize)) = 0 /\ NoWrite \in Snapshots(TxSize)
  BY TxSizeAssumption, EmptyFacts, PointersFacts DEF NoWrite
<1>2. /\ tx_transfer = EmptyBuf(TxSize) /\ wsnap = NoWrite /\ fifo = <<>> /\ left = 0
      /\ written = 0 /\ waiting = {} /\ writer = "idle"
      /\ raw = FALSE /\ receive_tx_int = FALSE /\ unmasked = FALSE /\ wd_event = FALSE
      /\ overwritten = FALSE /\ overtakes = FALSE /\ tx_block = TRUE
  BY DEF Init, TxInit
<1>3. fifo \in Seq(Nat) /\ Len(fifo) = 0 /\ 0 <= FifoSize BY <1>2, TxLineAssumption
<1>4. TxTypes BY <1>1, <1>2, <1>3 DEF TxTypes
<1> QED BY <1>1, <1>2, <1>4 DEF TxInv

LEMMA TxUnchanged ==
  ASSUME TxInv, UNCHANGED <<state, txVars>> PROVE TxInv'
<1>1. UNCHANGED <<raw, fifo, tx_block, tx_transfer, wd_event, receive_tx_int, unmasked,
                  overwritten, writer, left, overtakes, wsnap, written, waiting>>
  BY DEF txVars, txHardware, txDriver, txMask, txCall, txBytes
<1>2. TxTypes' BY <1>1 DEF TxInv, TxTypes
<1> QED BY <1>1, <1>2 DEF TxInv, Alive

(* Hardware that has been served wants to be served again, or drains to    *)
(* the level at which it does.                                             *)
LEMMA IntoFifoFacts ==
  ASSUME fifo \in Seq(Nat), raw => Len(fifo) <= TxLine, NEW bytes \in Seq(Nat),
         IntoFifo(bytes)
  PROVE  /\ fifo' \in Seq(Nat) /\ Len(fifo') = Len(fifo) + Len(bytes)
         /\ raw' \in BOOLEAN /\ (raw' => Len(fifo') <= TxLine) /\ (Alive => Alive')
<1>1. fifo' = fifo \o bytes /\ raw' = (raw /\ Len(fifo) + Len(bytes) <= TxLine)
  BY DEF IntoFifo
<1>2. fifo' \in Seq(Nat) /\ Len(fifo') = Len(fifo) + Len(bytes) BY <1>1
<1>3. Len(fifo) \in Nat /\ Len(bytes) \in Nat /\ TxLine \in Nat BY TxLineAssumption
<1>4. Alive => Alive'
  <2>1. CASE Len(fifo) + Len(bytes) <= TxLine
    <3>1. raw' <=> raw BY <1>1, <2>1
    <3> QED BY <1>3, <2>1, <3>1 DEF Alive
  <2>2. CASE ~(Len(fifo) + Len(bytes) <= TxLine) BY <1>2, <1>3, <2>2 DEF Alive
  <2> QED BY <2>1, <2>2
<1>5. raw' \in BOOLEAN BY <1>1
<1>6. raw' => Len(fifo') <= TxLine BY <1>1, <1>2
<1> QED BY <1>2, <1>4, <1>5, <1>6

LEMMA ShiftInv ==
  ASSUME TxInv, UNCHANGED state, Shift \/ RaiseTx PROVE TxInv'
<1>1. UNCHANGED <<tx_block, tx_transfer, wd_event, receive_tx_int, unmasked, overwritten,
                  writer, left, overtakes, wsnap, written>>
  BY DEF Shift, RaiseTx, txDriver, txMask, txCall, txBytes
<1>2. /\ fifo' \in Seq(Nat) /\ Len(fifo') <= FifoSize /\ raw' \in BOOLEAN
      /\ (raw' => Len(fifo') <= TxLine) /\ (Alive => Alive') /\ waiting' \subseteq waiting
      /\ (Len(fifo) < FifoSize => Len(fifo') < FifoSize)
  <2>1. fifo \in Seq(Nat) /\ Len(fifo) \in Nat /\ TxLine \in Nat /\ FifoSize \in Nat
        /\ Len(fifo) <= FifoSize /\ (raw => Len(fifo) <= TxLine)
    BY TxLineAssumption DEF TxInv, TxTypes
  <2>2. CASE Shift
    <3>1. fifo # <<>> /\ fifo' = Tail(fifo) /\ raw' = (raw \/ Len(fifo) = TxLine + 1)
          /\ waiting' \subseteq waiting
      BY <2>2 DEF Shift
    <3>2. fifo' \in Seq(Nat) /\ Len(fifo') = Len(fifo) - 1 BY <2>1, <3>1
    <3>3. raw' \in BOOLEAN /\ (raw' <=> raw \/ Len(fifo) = TxLine + 1) BY <3>1
    <3>4. raw' => Len(fifo') <= TxLine BY <2>1, <3>2, <3>3
    <3>5. Alive => Alive' BY <2>1, <3>2, <3>3 DEF Alive
    <3>6. Len(fifo') <= FifoSize /\ Len(fifo') < FifoSize BY <2>1, <3>2
    <3> QED BY <3>1, <3>2, <3>3, <3>4, <3>5, <3>6
  <2>3. CASE RaiseTx BY <2>1, <2>3 DEF RaiseTx, txBytes, Alive
  <2> QED BY <2>2, <2>3
<1>3. TxTypes' BY <1>1, <1>2 DEF TxInv, TxTypes
<1> QED BY <1>1, <1>2, <1>3 DEF TxInv

(* Setting the port up keeps the hardware going, flushed or not.           *)
LEMMA SetUartParamFacts ==
  ASSUME TxInv, SetUartParam
  PROVE  /\ fifo' \in Seq(Nat) /\ Len(fifo') <= FifoSize /\ raw' \in BOOLEAN
         /\ (raw' => Len(fifo') <= TxLine) /\ (Alive => Alive')
         /\ waiting' \subseteq waiting /\ (Len(fifo) < FifoSize => Len(fifo') < FifoSize)
         /\ UNCHANGED <<written, writer, left, overtakes, wsnap>>
<1>1. fifo \in Seq(Nat) /\ Len(fifo) \in Nat /\ TxLine \in Nat /\ FifoSize \in Nat
      /\ Len(fifo) <= FifoSize /\ (raw => Len(fifo) <= TxLine) /\ raw \in BOOLEAN
  BY TxLineAssumption DEF TxInv, TxTypes
<1>2. /\ raw' = (raw \/ Len(fifo') < Len(fifo))
      /\ waiting' \subseteq waiting /\ UNCHANGED <<written, writer, left, overtakes, wsnap>>
  BY DEF SetUartParam, txCall
<1>3. CASE fifo' = fifo
  <2>1. raw' = raw BY <1>1, <1>2, <1>3
  <2> QED BY <1>1, <1>2, <1>3, <2>1 DEF Alive
<1>4. CASE fifo' = <<>>
  <2>1. fifo' \in Seq(Nat) /\ Len(fifo') = 0 BY <1>4
  <2>2. raw' \in BOOLEAN /\ (raw' <=> raw \/ Len(fifo') < Len(fifo)) BY <1>2
  <2>3. Alive => Alive' BY <1>1, <2>1, <2>2 DEF Alive
  <2> QED BY <1>1, <1>2, <2>1, <2>2, <2>3
<1> QED BY <1>3, <1>4 DEF SetUartParam

LEMMA SetParamInv ==
  ASSUME TxInv, UNCHANGED state, SetParam PROVE TxInv'
<1>1. /\ UNCHANGED <<tx_block, tx_transfer, wd_event, receive_tx_int, unmasked, overwritten>>
      /\ SetUartParam
  BY DEF SetParam, txDriver, txMask
<1>2. /\ fifo' \in Seq(Nat) /\ Len(fifo') <= FifoSize /\ raw' \in BOOLEAN
      /\ (raw' => Len(fifo') <= TxLine) /\ (Alive => Alive')
      /\ waiting' \subseteq waiting /\ (Len(fifo) < FifoSize => Len(fifo') < FifoSize)
      /\ UNCHANGED <<written, writer, left, overtakes, wsnap>>
  BY <1>1, SetUartParamFacts
<1>3. TxTypes' BY <1>1, <1>2 DEF TxInv, TxTypes
<1> QED BY <1>1, <1>2, <1>3 DEF TxInv

LEMMA ClearTxIntInv ==
  ASSUME TxInv, UNCHANGED state, ClearTxInt PROVE TxInv'
<1>1. /\ UNCHANGED <<raw, fifo, tx_block, tx_transfer, wd_event, unmasked, overwritten,
                     writer, left, overtakes, wsnap, written, waiting>>
      /\ receive_tx_int' \in BOOLEAN /\ ~receive_tx_int'
  BY DEF ClearTxInt, txHardware, txMask, txCall, txBytes
<1>2. TxTypes' BY <1>1 DEF TxInv, TxTypes
<1> QED BY <1>1, <1>2 DEF TxInv, Alive

(* An old mask written back may take the bit away; then it is overwritten. *)
LEMMA WriteMaskInv ==
  ASSUME TxInv, UNCHANGED state, NEW bit \in BOOLEAN, WriteMask(bit) PROVE TxInv'
<1>1. /\ UNCHANGED <<raw, fifo, tx_block, tx_transfer, wd_event, receive_tx_int,
                     writer, left, overtakes, wsnap, written, waiting>>
      /\ unmasked' \in BOOLEAN /\ overwritten' \in BOOLEAN
      /\ (unmasked \/ overwritten) => (unmasked' \/ overwritten')
  BY DEF WriteMask, txHardware, txCall, txBytes
<1>2. TxTypes' BY <1>1 DEF TxInv, TxTypes
<1> QED BY <1>1, <1>2 DEF TxInv, Alive

LEMMA OpenInv ==
  ASSUME TxInv, writer = "idle", NEW block \in BOOLEAN, TxOpen(block) PROVE TxInv'
<1>1. /\ tx_transfer' = EmptyBuf(TxSize) /\ tx_block' = block /\ ~wd_event' /\ ~unmasked'
      /\ ~receive_tx_int' /\ receive_tx_int' \in BOOLEAN /\ overwritten' \in BOOLEAN
      /\ wd_event' \in BOOLEAN /\ unmasked' \in BOOLEAN /\ SetUartParam
  BY DEF TxOpen, SetMask
<1>2. /\ EmptyBuf(TxSize) \in CircBufs(TxSize) /\ InOrder(EmptyBuf(TxSize))
      /\ Held(EmptyBuf(TxSize)) = 0
  BY TxSizeAssumption, EmptyFacts
<1>3. TxTypes' BY <1>1, <1>2, SetUartParamFacts DEF TxInv, TxTypes
<1> QED BY <1>1, <1>2, <1>3, SetUartParamFacts DEF TxInv

LEMMA CloseInv ==
  ASSUME TxInv, writer = "idle", TxClose PROVE TxInv'
<1>1. /\ tx_transfer' = EmptyBuf(TxSize) /\ tx_block' \in BOOLEAN /\ ~wd_event' /\ ~unmasked'
      /\ ~receive_tx_int' /\ receive_tx_int' \in BOOLEAN /\ overwritten' \in BOOLEAN
      /\ wd_event' \in BOOLEAN /\ unmasked' \in BOOLEAN /\ waiting' \subseteq waiting
      /\ UNCHANGED <<written, raw, fifo, writer, left, overtakes, wsnap>>
  BY DEF TxClose, SetMask, txHardware, txCall
<1>2. /\ EmptyBuf(TxSize) \in CircBufs(TxSize) /\ InOrder(EmptyBuf(TxSize))
      /\ Held(EmptyBuf(TxSize)) = 0
  BY TxSizeAssumption, EmptyFacts
<1>3. TxTypes' BY <1>1, <1>2 DEF TxInv, TxTypes
<1> QED BY <1>1, <1>2, <1>3 DEF TxInv

(* What the interrupt takes from the buffer and puts into the FIFO.        *)
LEMMA TakeFacts ==
  ASSUME NEW size \in Nat \ {0}, NEW b \in CircBufs(size), InOrder(b), NEW n \in Nat
  PROVE  LET k == ReadCount(b, n)
             a == AfterRead(b, b, n)
             out == CopyOut(b, b, k)
         IN  /\ k \in 0 .. n /\ k <= Held(b) /\ a \in CircBufs(size) /\ InOrder(a)
             /\ Held(a) = Held(b) - k /\ out \in Seq(Nat) /\ Len(out) = k
             /\ \A s \in Snapshots(size) : WriteSeen(b, s) => WriteSeen(a, s)
<1> DEFINE p == Pointers(b)
           k == ReadCount(b, n)
           a == AfterRead(b, b, n)
           out == CopyOut(b, b, k)
<1>1. p \in Snapshots(size) /\ ReadSeen(b, p) /\ InOrder(p)
  BY PointersFacts DEF ReadSeen
<1>2. k = ReadCount(p, n) /\ a = AfterRead(b, p, n) BY OwnPointers
<1>3. k \in 0 .. n BY <1>1, <1>2, ReadCountFacts
<1>4. a \in CircBufs(size) /\ InOrder(a) /\ Held(a) = Held(b) - k /\ k <= Held(b)
  BY <1>1, <1>2, ReadFacts
<1>5. out \in Seq(Nat) /\ Len(out) = k
  <2>1. Held(b) \in 0 .. size BY HeldBounds
  <2>2. b.size = size /\ b.rp \in 0 .. size - 1 /\ b.data \in [0 .. size - 1 -> Nat]
    BY DEF CircBufs
  <2> HIDE DEF k
  <2>3. \A i \in 1 .. k : i - 1 \in 0 .. size - 1 BY <1>3, <1>4, <2>1
  <2>4. \A i \in 1 .. k : Cell(b, b.rp, i - 1) \in 0 .. size - 1
    BY <2>2, <2>3, CellFacts
  <2>5. \A i \in 1 .. k : b.data[Cell(b, b.rp, i - 1)] \in Nat BY <2>2, <2>4
  <2>6. out = [i \in 1 .. k |-> b.data[Cell(b, b.rp, i - 1)]] BY DEF CopyOut
  <2>7. k \in Nat BY <1>3
  <2> HIDE DEF out
  <2> QED BY <2>5, <2>6, <2>7
<1>6. ASSUME NEW s \in Snapshots(size), WriteSeen(b, s) PROVE WriteSeen(a, s)
  BY <1>6, WriteStaysSeen
<1> HIDE DEF a, out, k
<1> QED BY <1>3, <1>4, <1>5, <1>6 DEF a, out, k

LEMMA SendInv ==
  ASSUME TxInv, UNCHANGED state, SendAndSignal, UNCHANGED <<txCall, txBytes>>, IrqPending
  PROVE  TxInv'
<1> DEFINE n == FifoSize - TxLine
           k == ReadCount(tx_transfer, n)
           a == AfterRead(tx_transfer, tx_transfer, n)
           out == CopyOut(tx_transfer, tx_transfer, k)
<1>1. /\ UNCHANGED <<tx_block, receive_tx_int, unmasked, overwritten, writer, left, overtakes,
                     wsnap, written, waiting>>
      /\ tx_transfer' = a /\ wd_event' = (wd_event \/ tx_block) /\ IntoFifo(out)
      /\ raw /\ ~uart_circ_buf_empty(tx_transfer)
  BY DEF SendAndSignal, SendFromBuffer, txMask, txCall, txBytes, IrqPending
<1>2. /\ tx_transfer \in CircBufs(TxSize) /\ InOrder(tx_transfer) /\ fifo \in Seq(Nat)
      /\ (raw => Len(fifo) <= TxLine) /\ tx_block \in BOOLEAN /\ wd_event \in BOOLEAN
      /\ wsnap \in Snapshots(TxSize)
  BY DEF TxInv, TxTypes
<1>3. n \in Nat /\ TxLine \in Nat /\ FifoSize \in Nat BY TxLineAssumption
<1> HIDE DEF n
<1>4. /\ k \in 0 .. n /\ k <= Held(tx_transfer) /\ a \in CircBufs(TxSize) /\ InOrder(a)
      /\ Held(a) = Held(tx_transfer) - k /\ out \in Seq(Nat) /\ Len(out) = k
      /\ \A s \in Snapshots(TxSize) : WriteSeen(tx_transfer, s) => WriteSeen(a, s)
  BY <1>2, <1>3, TxSizeAssumption, TakeFacts
<1> HIDE DEF k, a, out
<1>5. /\ fifo' \in Seq(Nat) /\ Len(fifo') = Len(fifo) + k
      /\ raw' \in BOOLEAN /\ (raw' => Len(fifo') <= TxLine) /\ (Alive => Alive')
  BY <1>1, <1>2, <1>4, IntoFifoFacts
<1>6. Len(fifo') <= FifoSize
  <2>1. Len(fifo) \in Nat /\ Len(fifo) <= TxLine BY <1>1, <1>2
  <2> QED BY <1>3, <1>4, <1>5, <2>1 DEF n
<1>7. wd_event' \in BOOLEAN /\ (tx_block => wd_event') BY <1>1
<1>8. TxTypes' BY <1>1, <1>2, <1>4, <1>5, <1>6, <1>7 DEF TxInv, TxTypes
<1>9. Alive /\ unmasked BY <1>1 DEF Alive, IrqPending
<1>10. Held(tx_transfer) # 0
  BY <1>1, <1>2, TxSizeAssumption, HeldBounds
<1>11. writer \in {"unmask_poll", "poll", "put"} => overtakes
  BY <1>10 DEF TxInv
<1> QED BY <1>1, <1>2, <1>4, <1>5, <1>7, <1>8, <1>9, <1>11 DEF TxInv

LEMMA IrqInv ==
  ASSUME TxInv, UNCHANGED state, uart_send_irq PROVE TxInv'
<1>1. UNCHANGED <<writer, left, overtakes, wsnap, written, waiting>> /\ raw /\ unmasked
  BY DEF uart_send_irq, IrqPending, txCall, txBytes
<1>2. CASE FirstTxIrq
  <2>1. /\ UNCHANGED <<raw, fifo, tx_block, tx_transfer, wd_event, unmasked, overwritten>>
        /\ receive_tx_int' \in BOOLEAN
    BY <1>2 DEF FirstTxIrq, txHardware, txMask
  <2>2. TxTypes' BY <1>1, <2>1 DEF TxInv, TxTypes
  <2>3. Alive' BY <1>1, <2>1 DEF Alive
  <2> QED BY <1>1, <2>1, <2>2, <2>3 DEF TxInv
<1>3. CASE uart_tx_interrupt_disable
  <2>1. /\ UNCHANGED <<raw, fifo, tx_block, tx_transfer, wd_event, overwritten>>
        /\ receive_tx_int' \in BOOLEAN /\ unmasked' \in BOOLEAN /\ ~receive_tx_int'
        /\ uart_circ_buf_empty(tx_transfer)
    BY <1>3 DEF uart_tx_interrupt_disable, txHardware
  <2>2. Held(tx_transfer) = 0
    <3>1. tx_transfer \in CircBufs(TxSize) /\ InOrder(tx_transfer) BY DEF TxInv, TxTypes
    <3> QED BY <2>1, <3>1, TxSizeAssumption, HeldBounds
  <2>3. TxTypes' BY <1>1, <2>1 DEF TxInv, TxTypes
  <2>4. Alive' BY <1>1, <2>1 DEF Alive
  <2> QED BY <1>1, <2>1, <2>2, <2>3, <2>4 DEF TxInv
<1>4. CASE SendAndSignal BY <1>4, SendInv DEF uart_send_irq
<1> QED BY <1>2, <1>3, <1>4 DEF uart_send_irq

(* The steps of the writing task that leave the buffer and the FIFO alone. *)
LEMMA WriteCallInv ==
  ASSUME TxInv, state = "USEABLE", UNCHANGED state, NEW n \in 1 .. MaxCount, hi_uart_write(n)
  PROVE  TxInv'
<1>1. /\ UNCHANGED <<raw, fifo, tx_block, tx_transfer, wd_event, receive_tx_int, unmasked,
                     overwritten, overtakes, wsnap, written, waiting>>
      /\ writer = "idle" /\ writer' = "uart_write" /\ left' = n
  BY DEF hi_uart_write, txDriver, txMask, txHardware, txBytes
<1>2. n \in Nat /\ n # 0 BY MaxCountAssumption
<1>3. TxTypes' BY <1>1, <1>2 DEF TxInv, TxTypes
<1> QED BY <1>1, <1>2, <1>3 DEF TxInv, Alive

LEMMA TestTxIntInv ==
  ASSUME TxInv, UNCHANGED state, TestTxInt PROVE TxInv'
<1>1. /\ UNCHANGED <<raw, fifo, tx_block, tx_transfer, wd_event, receive_tx_int, unmasked,
                     overwritten, left, wsnap, written, waiting>>
      /\ writer = "uart_write" /\ writer' \in {"snapshot", "unmask_poll"}
      /\ (writer' = "snapshot" <=> receive_tx_int) /\ overtakes' \in BOOLEAN
      /\ overtakes' <=> (~receive_tx_int /\ ~uart_circ_buf_empty(tx_transfer))
  BY DEF TestTxInt, txDriver, txMask, txHardware, txBytes
<1>2. TxTypes' BY <1>1 DEF TxInv, TxTypes
<1>3. uart_circ_buf_empty(tx_transfer) <=> Held(tx_transfer) = 0
  BY TxSizeAssumption, HeldBounds DEF TxInv, TxTypes
<1> QED BY <1>1, <1>2, <1>3 DEF TxInv, Alive

LEMMA SnapWriteInv ==
  ASSUME TxInv, UNCHANGED state, SnapWrite PROVE TxInv'
<1>1. /\ UNCHANGED <<raw, fifo, tx_block, tx_transfer, wd_event, receive_tx_int, unmasked,
                     overwritten, left, overtakes, written, waiting>>
      /\ writer = "snapshot" /\ writer' = "copy" /\ wsnap' = Pointers(tx_transfer)
  BY DEF SnapWrite, txDriver, txMask, txHardware, txBytes
<1>2. wsnap' \in Snapshots(TxSize) /\ WriteSeen(tx_transfer, wsnap')
  BY <1>1, TxSizeAssumption, PointersFacts DEF TxInv, TxTypes
<1>3. TxTypes' BY <1>1, <1>2 DEF TxInv, TxTypes
<1> QED BY <1>1, <1>2, <1>3 DEF TxInv, Alive

LEMMA UnmaskInv ==
  ASSUME TxInv, UNCHANGED state, UnmaskWait \/ UnmaskEnd \/ UnmaskPoll PROVE TxInv'
<1>1. /\ UNCHANGED <<raw, fifo, tx_block, tx_transfer, wd_event, receive_tx_int,
                     overtakes, wsnap, written, waiting>>
      /\ unmasked' \in BOOLEAN /\ unmasked' /\ overwritten' \in BOOLEAN
  BY DEF UnmaskWait, UnmaskEnd, UnmaskPoll, Unmask, SetMask, txHardware, txBytes
<1>2. \/ writer = "unmask_wait" /\ writer' = "wait" /\ left' = left
      \/ writer = "unmask_end" /\ writer' = "idle" /\ left' = 0
      \/ writer = "unmask_poll" /\ writer' = "poll" /\ left' = left
  BY DEF UnmaskWait, UnmaskEnd, UnmaskPoll, Unmask
<1>3. TxTypes' BY <1>1, <1>2 DEF TxInv, TxTypes
<1> QED BY <1>1, <1>2, <1>3 DEF TxInv, Alive

LEMMA WaitWriteInv ==
  ASSUME TxInv, UNCHANGED state, WaitWrite PROVE TxInv'
<1>1. /\ UNCHANGED <<raw, fifo, tx_block, tx_transfer, receive_tx_int, unmasked, overwritten,
                     left, overtakes, wsnap, written, waiting>>
      /\ writer = "wait" /\ writer' = "snapshot" /\ wd_event' \in BOOLEAN
  BY DEF WaitWrite, txMask, txHardware, txBytes
<1>2. TxTypes' BY <1>1 DEF TxInv, TxTypes
<1> QED BY <1>1, <1>2 DEF TxInv, Alive

(* The bytes go behind those that are held.                                *)
LEMMA CopyWriteInv ==
  ASSUME TxInv, UNCHANGED state, CopyWrite PROVE TxInv'
<1> DEFINE c == CopyIn(tx_transfer, wsnap, written + 1, WriteCount(wsnap, left))
<1>1. /\ UNCHANGED <<raw, fifo, tx_block, wd_event, receive_tx_int, unmasked, overwritten,
                     left, overtakes, wsnap, written, waiting>>
      /\ writer = "copy" /\ writer' = "publish" /\ tx_transfer' = c
  BY DEF CopyWrite, txMask, txHardware, txBytes
<1>2. /\ tx_transfer \in CircBufs(TxSize) /\ InOrder(tx_transfer) /\ wsnap \in Snapshots(TxSize)
      /\ WriteSeen(tx_transfer, wsnap) /\ left \in Nat /\ written + 1 \in Nat
  BY <1>1 DEF TxInv, TxTypes
<1>3. WriteCount(wsnap, left) \in Nat /\ WriteCount(wsnap, left) <= TxSize - Held(wsnap)
  <2>1. /\ WriteCount(wsnap, left) = Lesser(left, TxSize - Held(wsnap))
        /\ WriteCount(wsnap, left) \in 0 .. left
    BY <1>2, TxSizeAssumption, WriteCountFacts DEF WriteSeen
  <2>2. Held(wsnap) \in Nat BY <1>2, TxSizeAssumption, HeldBounds DEF WriteSeen
  <2> QED BY <1>2, <2>1, <2>2, TxSizeAssumption DEF Lesser
<1>4. /\ c \in CircBufs(TxSize) /\ InOrder(c) /\ WriteSeen(c, wsnap)
      /\ Held(c) = Held(tx_transfer) /\ Pointers(c) = Pointers(tx_transfer)
  BY <1>2, <1>3, TxSizeAssumption, CopyInFacts
<1> HIDE DEF c
<1>5. TxTypes' BY <1>1, <1>4 DEF TxInv, TxTypes
<1> QED BY <1>1, <1>4, <1>5 DEF TxInv, Alive

(* A write that is cut short leaves the buffer full, unless the interrupt  *)
(* has taken bytes since; then it has left its event.                      *)
LEMMA PublishWriteInv ==
  ASSUME TxInv, UNCHANGED state, PublishWrite PROVE TxInv'
<1> DEFINE n == WriteCount(wsnap, left)
           a == AfterWrite(tx_transfer, wsnap, left)
<1>1. /\ UNCHANGED <<raw, fifo, tx_block, wd_event, receive_tx_int, unmasked, overwritten,
                     overtakes>>
      /\ writer = "publish" /\ tx_transfer' = a /\ written' = written + n
      /\ waiting' = waiting \cup (written + 1 .. written + n) /\ left' = left - n
      /\ writer' = (IF n = left \/ ~tx_block THEN "unmask_end" ELSE "unmask_wait")
      /\ wsnap' = NoWrite
  BY DEF PublishWrite, PublishTaking, Accept, txMask, txHardware
<1>2. /\ tx_transfer \in CircBufs(TxSize) /\ InOrder(tx_transfer) /\ wsnap \in Snapshots(TxSize)
      /\ WriteSeen(tx_transfer, wsnap) /\ left \in Nat /\ written \in Nat /\ InOrder(wsnap)
      /\ left # 0 /\ waiting \subseteq 1 .. written
  BY <1>1 DEF TxInv, TxTypes, WriteSeen
<1>3. n = Lesser(left, TxSize - Held(wsnap)) /\ n \in 0 .. left
  BY <1>2, TxSizeAssumption, WriteCountFacts
<1>4. a \in CircBufs(TxSize) /\ InOrder(a) /\ Held(a) = Held(tx_transfer) + n
  BY <1>2, TxSizeAssumption, WriteFacts
<1>5. Held(wsnap) \in 0 .. TxSize /\ Held(tx_transfer) \in 0 .. TxSize
  BY <1>2, TxSizeAssumption, HeldBounds
<1>6. NoWrite \in Snapshots(TxSize)
  BY TxSizeAssumption, EmptyFacts, PointersFacts DEF NoWrite
<1> HIDE DEF n, a
<1>7. left' \in Nat /\ written' \in Nat /\ waiting' \subseteq 1 .. written'
  <2>1. left' \in Nat /\ written' \in Nat /\ written <= written' BY <1>1, <1>2, <1>3
  <2>2. written + 1 .. written + n \subseteq 1 .. written' BY <1>1, <1>2, <1>3
  <2>3. 1 .. written \subseteq 1 .. written' BY <1>2, <2>1
  <2> QED BY <1>1, <1>2, <2>1, <2>2, <2>3
<1>8. TxTypes' BY <1>1, <1>4, <1>6, <1>7 DEF TxInv, TxTypes
<1>9. writer' = "unmask_wait" =>
        tx_block' /\ left' # 0 /\ (~wd_event' => Held(tx_transfer') # 0)
  <2> SUFFICES ASSUME writer' = "unmask_wait"
               PROVE  tx_block' /\ left' # 0 /\ (~wd_event' => Held(tx_transfer') # 0)
    OBVIOUS
  <2>1. n # left /\ tx_block BY <1>1
  <2>2. n = TxSize - Held(wsnap) BY <1>2, <1>3, <2>1 DEF Lesser
  <2>3. ~wd_event => Held(tx_transfer) = Held(wsnap)
    <3>1. ~wd_event => Pointers(tx_transfer) = wsnap BY <1>1, <2>1 DEF TxInv
    <3>2. Held(Pointers(tx_transfer)) = Held(tx_transfer)
      BY <1>2, TxSizeAssumption, PointersFacts
    <3> QED BY <3>1, <3>2
  <2>4. ~wd_event => Held(a) # 0 BY <1>4, <1>5, <2>2, <2>3, TxSizeAssumption
  <2>5. left' # 0 BY <1>1, <1>2, <1>3, <2>1
  <2> QED BY <1>1, <2>1, <2>4, <2>5
<1>10. Alive /\ (Alive => Alive') BY <1>1 DEF TxInv, Alive
<1>11. writer' \in {"unmask_end", "unmask_wait"} BY <1>1
<1> QED BY <1>1, <1>4, <1>8, <1>9, <1>10, <1>11 DEF TxInv

LEMMA TestFifoInv ==
  ASSUME TxInv, UNCHANGED state, TestFifo PROVE TxInv'
<1>1. /\ UNCHANGED <<raw, fifo, tx_block, tx_transfer, wd_event, receive_tx_int, unmasked,
                     overwritten, left, overtakes, wsnap, written, waiting>>
      /\ writer = "poll" /\ writer' = "put" /\ Len(fifo) < FifoSize
  BY DEF TestFifo, txDriver, txMask, txHardware, txBytes
<1>2. TxTypes' BY <1>1 DEF TxInv, TxTypes
<1> QED BY <1>1, <1>2 DEF TxInv, Alive

(* The byte goes into the FIFO if there still is room, else it is lost.    *)
LEMMA PutFifoInv ==
  ASSUME TxInv, UNCHANGED state, PutFifo PROVE TxInv'
<1>1. /\ UNCHANGED <<wsnap, tx_block, tx_transfer, wd_event, receive_tx_int, unmasked,
                     overwritten>>
      /\ writer = "put" /\ written' = written + 1 /\ left' = left - 1
      /\ writer' = (IF left = 1 THEN "idle" ELSE "poll")
      /\ overtakes' \in BOOLEAN /\ (overtakes' <=> overtakes /\ left > 1)
  BY DEF PutFifo, Accept, txDriver, txMask
<1>2. /\ left \in Nat /\ left # 0 /\ written \in Nat /\ waiting \subseteq 1 .. written
      /\ fifo \in Seq(Nat) /\ (raw => Len(fifo) <= TxLine) /\ Len(fifo) <= FifoSize
      /\ raw \in BOOLEAN
  BY <1>1 DEF TxInv, TxTypes
<1>3. <<written + 1>> \in Seq(Nat) /\ Len(<<written + 1>>) = 1 BY <1>2
<1>4. /\ fifo' \in Seq(Nat) /\ Len(fifo') <= FifoSize
      /\ raw' \in BOOLEAN /\ (raw' => Len(fifo') <= TxLine) /\ (Alive => Alive')
      /\ waiting' \subseteq 1 .. written'
  <2>1. waiting \subseteq 1 .. written' /\ written + 1 .. written + 1 \subseteq 1 .. written'
    BY <1>1, <1>2
  <2>2. CASE Len(fifo) < FifoSize
    <3>1. IntoFifo(<<written + 1>>) /\ waiting' = waiting \cup (written + 1 .. written + 1)
      BY <2>2 DEF PutFifo, Accept
    <3>2. /\ fifo' \in Seq(Nat) /\ Len(fifo') = Len(fifo) + 1
          /\ raw' \in BOOLEAN /\ (raw' => Len(fifo') <= TxLine) /\ (Alive => Alive')
      BY <1>2, <1>3, <3>1, IntoFifoFacts
    <3>3. Len(fifo') <= FifoSize BY <1>2, <2>2, <3>2, TxLineAssumption
    <3> QED BY <2>1, <3>1, <3>2, <3>3
  <2>3. CASE ~(Len(fifo) < FifoSize)
    <3>1. UNCHANGED <<raw, fifo, waiting>> BY <2>3 DEF PutFifo, txHardware
    <3> QED BY <1>2, <2>1, <3>1 DEF Alive
  <2> QED BY <2>2, <2>3
<1>5. left' \in Nat /\ written' \in Nat /\ writer' \in {"idle", "poll"}
      /\ (writer' = "poll" => left' # 0 /\ (overtakes' <=> overtakes))
  BY <1>1, <1>2
<1>6. TxTypes' BY <1>1, <1>4, <1>5 DEF TxInv, TxTypes
<1> QED BY <1>1, <1>4, <1>5, <1>6 DEF TxInv

LEMMA TxStep == TxInv /\ PortInv /\ [Next]_vars => TxInv'
<1> SUFFICES ASSUME TxInv, PortInv, [Next]_vars PROVE TxInv' OBVIOUS
<1>1. CASE uart_open
  <2>1. writer = "idle" BY <1>1 DEF uart_open, TxInv
  <2>2. PICK wd \in BOOLEAN : TxOpen(wd) BY <1>1 DEF uart_open
  <2> QED BY <2>1, <2>2, OpenInv
<1>2. CASE uart_close BY <1>2, CloseInv DEF uart_close
<1>3. CASE uart_ioctl \/ SetterStep
  <2>1. UNCHANGED state
    BY <1>3 DEF uart_ioctl, SetterStep, ClearStep, ReadStep, WriteStep, SetUpStep
  <2>2. CASE uart_ioctl BY <2>1, <2>2, SetParamInv DEF uart_ioctl
  <2>3. CASE ClearStep BY <2>1, <2>3, ClearTxIntInv DEF ClearStep
  <2>4. CASE ReadStep BY <2>1, <2>4, TxUnchanged DEF ReadStep
  <2>5. CASE WriteStep BY <2>1, <2>5, WriteMaskInv DEF WriteStep, PortInv
  <2> QED BY <1>3, <2>2, <2>3, <2>4, <2>5 DEF SetterStep
<1>4. CASE RxNext BY <1>4, TxUnchanged DEF RxNext, OfRx
<1>5. CASE TxNext
  <2>1. CASE OfTx(TxUse) BY <2>1, WriteCallInv DEF OfTx, TxUse
  <2>2. CASE OfTx(WriterStep)
    BY <2>2, TestTxIntInv, SnapWriteInv, CopyWriteInv, PublishWriteInv, UnmaskInv,
       WaitWriteInv, TestFifoInv, PutFifoInv DEF OfTx, WriterStep
  <2>3. CASE OfTx(uart_send_irq) BY <2>3, IrqInv DEF OfTx
  <2>4. CASE OfTx(Shift) \/ OfTx(RaiseTx) BY <2>4, ShiftInv DEF OfTx
  <2> QED BY <1>5, <2>1, <2>2, <2>3, <2>4 DEF TxNext
<1>6. CASE UNCHANGED vars BY <1>6, TxUnchanged DEF vars
<1> QED BY <1>1, <1>2, <1>3, <1>4, <1>5, <1>6 DEF Next

LEMMA PortStart == Init => PortInv BY DEF Init, PortInv

LEMMA PortStep == TxInv /\ PortInv /\ [Next]_vars => PortInv'
<1> SUFFICES ASSUME TxInv, PortInv, [Next]_vars PROVE PortInv' OBVIOUS
<1>1. CASE uart_open \/ uart_close
  BY <1>1 DEF PortInv, uart_open, uart_close, setUp
<1>2. CASE uart_ioctl \/ SetterStep
  BY <1>2 DEF PortInv, uart_ioctl, SetterStep, ClearStep, ReadStep, WriteStep, SetUpStep,
              TxInv, TxTypes
<1>3. CASE RxNext \/ TxNext
  BY <1>3 DEF PortInv, RxNext, TxNext, OfRx, OfTx, setUp
<1>4. CASE UNCHANGED vars BY <1>4 DEF PortInv, vars, setUp
<1> QED BY <1>1, <1>2, <1>3, <1>4 DEF Next

LEMMA TxHolds == Spec => [](TxInv /\ PortInv)
BY TxStart, TxStep, PortStart, PortStep, PTL DEF Spec

(* The types of both directions, for any sizes: the pointers stay inside   *)
(* of their buffers and the FIFO is never overfilled (uart_drv.c).         *)
THEOREM UartTypeCorrect == Spec => []UartTypeOK
<1>1. RxInv /\ TxInv /\ PortInv => UartTypeOK
  BY DEF RxInv, TxInv, PortInv, UartTypeOK
<1> QED BY <1>1, RxStart, RxStep, TxHolds, PTL DEF Spec

(* When hi_uart_write has returned, the bytes it left in the buffer will   *)
(* be sent unless a set-up overwrote the mask: NothingStranded, on         *)
(* uart_send_irq, uart_tx_interrupt_enable and uart_rx_interrupt_enable.   *)
THEOREM NoByteStranded == Spec => []NothingStranded
<1>1. TxInv => NothingStranded
  <2> SUFFICES ASSUME TxInv, writer = "idle", ~uart_circ_buf_empty(tx_transfer), ~overwritten
               PROVE  WillSend
    BY DEF NothingStranded
  <2>1. Held(tx_transfer) # 0
    BY TxSizeAssumption, HeldBounds DEF TxInv, TxTypes
  <2> QED BY <2>1 DEF TxInv, Alive, WillSend
<1> QED BY <1>1, TxHolds, PTL

(* No task sleeps over an event: NoLostWakeup, on the test of the buffer   *)
(* and the wait of uart_read_circ_buf's and uart_write_circ_buf's callers, *)
(* the writer's unless a set-up overwrote the mask.                        *)
THEOREM NoWakeupLost == Spec => []NoLostWakeup
<1>1. RxInv /\ TxInv => NoLostWakeup
  <2> SUFFICES ASSUME RxInv, TxInv PROVE NoLostWakeup OBVIOUS
  <2>1. /\ uart_circ_buf_empty(rx_transfer) <=> Held(rx_transfer) = 0
        /\ uart_circ_buf_empty(tx_transfer) <=> Held(tx_transfer) = 0
    <3>1. uart_circ_buf_empty(rx_transfer) <=> Held(rx_transfer) = 0
      BY RxSizeAssumption, HeldBounds DEF RxInv, RxTypes
    <3>2. uart_circ_buf_empty(tx_transfer) <=> Held(tx_transfer) = 0
      BY TxSizeAssumption, HeldBounds DEF TxInv, TxTypes
    <3> QED BY <3>1, <3>2
  <2>2. (reader = "wait" /\ "RD" \notin rd_events) => Held(rx_transfer) = 0
    BY DEF RxInv
  <2>3. (writer = "wait" /\ ~wd_event) => Held(tx_transfer) # 0 /\ (overwritten \/ WillSend)
    BY DEF TxInv, Alive, WillSend
  <2> QED BY <2>1, <2>2, <2>3 DEF NoLostWakeup
<1> QED BY <1>1, RxStart, RxStep, TxHolds, PTL DEF Spec

-----------------------------------------------------------------------------
(* Each byte is in one place.                                              *)

LEMMA NoneHeld ==
  ASSUME NEW b, Held(b) = 0 PROVE HeldBytes(b) = {} /\ Ordered(b)
BY DEF HeldBytes, Ordered

LEMMA JoinSequences ==
  ASSUME NEW s \in Seq(Nat), NEW t \in Seq(Nat),
         \A i, j \in 1 .. Len(s) : s[i] = s[j] => i = j,
         \A i, j \in 1 .. Len(t) : t[i] = t[j] => i = j,
         {s[i] : i \in 1 .. Len(s)} \cap {t[i] : i \in 1 .. Len(t)} = {}
  PROVE  LET u == s \o t
         IN  /\ \A i, j \in 1 .. Len(u) : u[i] = u[j] => i = j
             /\ {u[i] : i \in 1 .. Len(u)}
                  = {s[i] : i \in 1 .. Len(s)} \cup {t[i] : i \in 1 .. Len(t)}
<1> DEFINE u == s \o t
           m == Len(s)
           n == Len(t)
<1>1. m \in Nat /\ n \in Nat OBVIOUS
<1>2. /\ Len(u) = m + n
      /\ \A i \in 1 .. m + n : u[i] = IF i <= m THEN s[i] ELSE t[i - m]
  BY ConcatProperties
<1>3. \A i \in 1 .. m, j \in 1 .. n : s[i] # t[j]
  <2> SUFFICES ASSUME NEW i \in 1 .. m, NEW j \in 1 .. n, s[i] = t[j] PROVE FALSE
    OBVIOUS
  <2>1. s[i] \in {s[k] : k \in 1 .. Len(s)} /\ t[j] \in {t[k] : k \in 1 .. Len(t)}
    OBVIOUS
  <2> QED BY <2>1
<1> HIDE DEF u, m, n
<1>4. ASSUME NEW i \in 1 .. m + n, NEW j \in 1 .. m + n, u[i] = u[j] PROVE i = j
  <2>1. CASE i <= m /\ j <= m
    <3>1. i \in 1 .. m /\ j \in 1 .. m /\ s[i] = s[j] BY <1>1, <1>2, <1>4, <2>1
    <3> QED BY <3>1 DEF m
  <2>2. CASE ~(i <= m) /\ ~(j <= m)
    <3>1. i - m \in 1 .. n /\ j - m \in 1 .. n /\ t[i - m] = t[j - m]
      BY <1>1, <1>2, <1>4, <2>2
    <3>2. i - m = j - m BY <3>1 DEF n
    <3> QED BY <1>1, <3>2
  <2>3. CASE i <= m /\ ~(j <= m)
    <3>1. i \in 1 .. m /\ j - m \in 1 .. n /\ s[i] = t[j - m] BY <1>1, <1>2, <1>4, <2>3
    <3> QED BY <1>3, <3>1
  <2>4. CASE ~(i <= m) /\ j <= m
    <3>1. j \in 1 .. m /\ i - m \in 1 .. n /\ s[j] = t[i - m] BY <1>1, <1>2, <1>4, <2>4
    <3> QED BY <1>3, <3>1
  <2> QED BY <2>1, <2>2, <2>3, <2>4
<1>5. \A i \in 1 .. m + n : u[i] \in {s[k] : k \in 1 .. m} \cup {t[k] : k \in 1 .. n}
  <2> SUFFICES ASSUME NEW i \in 1 .. m + n
               PROVE  u[i] \in {s[k] : k \in 1 .. m} \cup {t[k] : k \in 1 .. n}
    OBVIOUS
  <2>1. CASE i <= m
    <3>1. i \in 1 .. m /\ u[i] = s[i] BY <1>1, <1>2, <2>1
    <3> QED BY <3>1
  <2>2. CASE ~(i <= m)
    <3>1. i - m \in 1 .. n /\ u[i] = t[i - m] BY <1>1, <1>2, <2>2
    <3> QED BY <3>1
  <2> QED BY <2>1, <2>2
<1>6. \A k \in 1 .. m : s[k] \in {u[i] : i \in 1 .. m + n}
  <2> SUFFICES ASSUME NEW k \in 1 .. m PROVE s[k] \in {u[i] : i \in 1 .. m + n}
    OBVIOUS
  <2>1. k \in 1 .. m + n /\ u[k] = s[k] BY <1>1, <1>2
  <2> QED BY <2>1
<1>7. \A k \in 1 .. n : t[k] \in {u[i] : i \in 1 .. m + n}
  <2> SUFFICES ASSUME NEW k \in 1 .. n PROVE t[k] \in {u[i] : i \in 1 .. m + n}
    OBVIOUS
  <2>1. m + k \in 1 .. m + n /\ ~(m + k <= m) /\ (m + k) - m = k BY <1>1
  <2>2. u[m + k] = t[k] BY <1>2, <2>1
  <2> QED BY <2>1, <2>2
<1>8. 1 .. Len(u) = 1 .. m + n BY <1>2
<1>9. {u[i] : i \in 1 .. m + n} = {s[i] : i \in 1 .. m} \cup {t[i] : i \in 1 .. n}
  <2> DEFINE U == {u[i] : i \in 1 .. m + n}
             S == {s[i] : i \in 1 .. m}
             T == {t[i] : i \in 1 .. n}
  <2>1. U \subseteq S \cup T
    <3> SUFFICES ASSUME NEW x \in U PROVE x \in S \cup T
      OBVIOUS
    <3>1. PICK i \in 1 .. m + n : x = u[i] OBVIOUS
    <3> QED BY <1>5, <3>1
  <2>2. S \subseteq U
    <3> SUFFICES ASSUME NEW x \in S PROVE x \in U
      OBVIOUS
    <3>1. PICK k \in 1 .. m : x = s[k] OBVIOUS
    <3> QED BY <1>6, <3>1
  <2>3. T \subseteq U
    <3> SUFFICES ASSUME NEW x \in T PROVE x \in U
      OBVIOUS
    <3>1. PICK k \in 1 .. n : x = t[k] OBVIOUS
    <3> QED BY <1>7, <3>1
  <2> HIDE DEF U, S, T
  <2>4. U = S \cup T BY <2>1, <2>2, <2>3
  <2> QED BY <2>4 DEF U, S, T
<1>10. \A i, j \in 1 .. Len(u) : u[i] = u[j] => i = j BY <1>4, <1>8
<1>11. {u[i] : i \in 1 .. Len(u)} = {s[i] : i \in 1 .. m} \cup {t[i] : i \in 1 .. n}
  BY <1>8, <1>9
<1> QED BY <1>10, <1>11 DEF u, m, n

LEMMA TxBytesStart == Init => TxBytesInv
<1> SUFFICES ASSUME Init PROVE TxBytesInv OBVIOUS
<1>1. fifo = <<>> /\ waiting = {} /\ tx_transfer = EmptyBuf(TxSize) /\ writer = "idle"
  BY DEF Init, TxInit
<1>2. Held(tx_transfer) = 0 BY <1>1, TxSizeAssumption, EmptyFacts
<1>3. HeldBytes(tx_transfer) = {} /\ Ordered(tx_transfer) BY <1>2, NoneHeld
<1>4. Len(fifo) = 0 BY <1>1
<1>5. FifoBytes = {} BY <1>4 DEF FifoBytes
<1> QED BY <1>1, <1>2, <1>3, <1>4, <1>5 DEF TxBytesInv

(* Steps that move no byte.                                                *)
LEMMA TxBytesUnchanged ==
  ASSUME TxBytesInv, UNCHANGED <<state, fifo, tx_transfer, written, waiting>>,
         writer' = "publish" => UNCHANGED <<writer, wsnap, left>>
  PROVE  TxBytesInv'
<1>1. CASE writer' = "publish"
  BY <1>1 DEF TxBytesInv, FifoBytes
<1>2. CASE writer' # "publish"
  BY <1>2 DEF TxBytesInv, FifoBytes
<1> QED BY <1>1, <1>2

LEMMA ShiftBytes ==
  ASSUME TxInv, TxBytesInv, UNCHANGED state, Shift PROVE TxBytesInv'
<1>1. /\ fifo # <<>> /\ fifo' = Tail(fifo) /\ waiting' = waiting \ {Head(fifo)}
      /\ UNCHANGED <<tx_transfer, written, writer, left, wsnap>>
  BY DEF Shift, txDriver, txCall
<1>2. fifo \in Seq(Nat) BY DEF TxInv, TxTypes
<1>3. /\ Len(fifo') = Len(fifo) - 1 /\ Len(fifo) \in Nat \ {0} /\ Head(fifo) = fifo[1]
      /\ \A i \in 1 .. Len(fifo') : fifo'[i] = fifo[i + 1]
  BY <1>1, <1>2
<1>4. \A i, j \in 1 .. Len(fifo) : fifo[i] = fifo[j] => i = j BY DEF TxBytesInv
<1>5. \A i \in 1 .. Len(fifo') : i + 1 \in 1 .. Len(fifo) BY <1>3
<1>6. \A i, j \in 1 .. Len(fifo') : fifo'[i] = fifo'[j] => i = j
  <2> SUFFICES ASSUME NEW i \in 1 .. Len(fifo'), NEW j \in 1 .. Len(fifo'),
                      fifo'[i] = fifo'[j]
               PROVE  i = j
    OBVIOUS
  <2>1. i + 1 = j + 1 BY <1>3, <1>4, <1>5
  <2> QED BY <2>1
<1>7. FifoBytes' = FifoBytes \ {fifo[1]}
  <2>1. FifoBytes' = {fifo[i + 1] : i \in 1 .. Len(fifo')} BY <1>3 DEF FifoBytes
  <2>2. \A k \in 1 .. Len(fifo) : k # 1 => k - 1 \in 1 .. Len(fifo') /\ k = (k - 1) + 1
    BY <1>3
  <2>3. \A i \in 1 .. Len(fifo') : fifo[i + 1] # fifo[1]
    <3>1. 1 \in 1 .. Len(fifo) BY <1>3
    <3>2. \A i \in 1 .. Len(fifo') : i + 1 # 1 OBVIOUS
    <3> QED BY <1>4, <1>5, <3>1, <3>2
  <2>4. FifoBytes' \subseteq FifoBytes \ {fifo[1]} BY <1>5, <2>1, <2>3 DEF FifoBytes
  <2>5. FifoBytes \ {fifo[1]} \subseteq FifoBytes' BY <2>1, <2>2 DEF FifoBytes
  <2> QED BY <2>4, <2>5
<1>8. fifo[1] \in FifoBytes BY <1>3 DEF FifoBytes
<1>9. fifo[1] \notin HeldBytes(tx_transfer) BY <1>8 DEF TxBytesInv
<1>10. /\ FifoBytes' \cup HeldBytes(tx_transfer') = waiting'
       /\ FifoBytes' \cap HeldBytes(tx_transfer') = {}
  BY <1>1, <1>3, <1>7, <1>9 DEF TxBytesInv
<1> QED BY <1>1, <1>6, <1>10 DEF TxBytesInv

LEMMA SetParamBytes ==
  ASSUME TxBytesInv, UNCHANGED state, SetParam PROVE TxBytesInv'
<1>1. UNCHANGED <<tx_transfer, written, writer, left, wsnap>>
  BY DEF SetParam, SetUartParam, txCall, txDriver
<1>2. CASE fifo' = fifo
  BY <1>1, <1>2, TxBytesUnchanged DEF SetParam, SetUartParam
<1>3. CASE fifo' # fifo
  <2>1. fifo' = <<>> /\ waiting' = waiting \ FifoBytes BY <1>3 DEF SetParam, SetUartParam
  <2>2. Len(fifo') = 0 BY <2>1
  <2>3. FifoBytes' = {} BY <2>2 DEF FifoBytes
  <2>4. waiting' = HeldBytes(tx_transfer) BY <2>1 DEF TxBytesInv
  <2> QED BY <1>1, <2>2, <2>3, <2>4 DEF TxBytesInv
<1> QED BY <1>2, <1>3

LEMMA OpenBytes ==
  ASSUME TxInv, TxBytesInv, state = "NOT_OPENED", NEW block, TxOpen(block) PROVE TxBytesInv'
<1>1. /\ tx_transfer' = EmptyBuf(TxSize) /\ UNCHANGED <<written, writer>>
      /\ writer = "idle"
  BY DEF TxOpen, SetUartParam, txCall, TxInv
<1>2. Held(tx_transfer') = 0 BY <1>1, TxSizeAssumption, EmptyFacts
<1>3. HeldBytes(tx_transfer') = {} /\ Ordered(tx_transfer') BY <1>2, NoneHeld
<1>4. HeldBytes(tx_transfer) = {} BY NoneHeld DEF TxBytesInv
<1>5. CASE fifo' = fifo
  <2>1. waiting' = waiting BY <1>5 DEF TxOpen, SetUartParam
  <2>2. FifoBytes' = FifoBytes BY <1>5 DEF FifoBytes
  <2> QED BY <1>1, <1>2, <1>3, <1>4, <1>5, <2>1, <2>2 DEF TxBytesInv
<1>6. CASE fifo' # fifo
  <2>1. fifo' = <<>> /\ waiting' = waiting \ FifoBytes BY <1>6 DEF TxOpen, SetUartParam
  <2>2. Len(fifo') = 0 BY <2>1
  <2>3. FifoBytes' = {} BY <2>2 DEF FifoBytes
  <2>4. waiting' = {} BY <1>4, <2>1 DEF TxBytesInv
  <2> QED BY <1>1, <1>2, <1>3, <2>2, <2>3, <2>4 DEF TxBytesInv
<1> QED BY <1>5, <1>6

LEMMA CloseBytes ==
  ASSUME TxBytesInv, writer = "idle", TxClose PROVE TxBytesInv'
<1>1. /\ tx_transfer' = EmptyBuf(TxSize) /\ UNCHANGED <<written, writer, fifo>>
      /\ waiting' = waiting \ HeldBytes(tx_transfer)
  BY DEF TxClose, txCall, txHardware
<1>2. Held(tx_transfer') = 0 BY <1>1, TxSizeAssumption, EmptyFacts
<1>3. HeldBytes(tx_transfer') = {} /\ Ordered(tx_transfer') BY <1>2, NoneHeld
<1>4. FifoBytes' = FifoBytes BY <1>1 DEF FifoBytes
<1>5. waiting' = FifoBytes BY <1>1 DEF TxBytesInv
<1> QED BY <1>1, <1>2, <1>3, <1>4, <1>5 DEF TxBytesInv

LEMMA SendBytes ==
  ASSUME TxInv, TxBytesInv, UNCHANGED state, SendAndSignal, UNCHANGED <<txCall, txBytes>>
  PROVE  TxBytesInv'
<1> DEFINE n == FifoSize - TxLine
           b == tx_transfer
           p == Pointers(b)
           k == ReadCount(b, n)
           a == AfterRead(b, b, n)
           out == CopyOut(b, b, k)
<1>1. /\ UNCHANGED <<writer, left, wsnap, written, waiting>>
      /\ tx_transfer' = a /\ fifo' = fifo \o out
  BY DEF SendAndSignal, SendFromBuffer, IntoFifo, txCall, txBytes
<1>2. /\ b \in CircBufs(TxSize) /\ InOrder(b) /\ fifo \in Seq(Nat)
      /\ Ordered(b)
  BY DEF TxInv, TxTypes, TxBytesInv
<1>3. n \in Nat BY TxLineAssumption
<1> HIDE DEF n
<1>4. k \in 0 .. n /\ k <= Held(b) /\ Held(a) = Held(b) - k /\ out \in Seq(Nat) /\ Len(out) = k
  BY <1>2, <1>3, TxSizeAssumption, TakeFacts
<1>5. p \in Snapshots(TxSize) /\ ReadSeen(b, p)
  BY <1>2, TxSizeAssumption, PointersFacts
<1>6. k = ReadCount(p, n) /\ a = AfterRead(b, p, n) /\ out = CopyOut(b, p, k)
  BY OwnPointers
<1>7. /\ Ordered(a)
      /\ \A i, j \in 1 .. k : out[i] = out[j] => i = j
      /\ HeldBytes(b) = HeldBytes(a) \cup {out[i] : i \in 1 .. k}
      /\ HeldBytes(a) \cap {out[i] : i \in 1 .. k} = {}
  BY <1>2, <1>3, <1>5, <1>6, TxSizeAssumption, ReadSplits
<1>8. a.data = b.data BY <1>2, <1>3, <1>5, <1>6, TxSizeAssumption, AfterReadFields
<1>9. Held(b) \in Nat
  <2>1. Held(b) \in 0 .. TxSize BY <1>2, TxSizeAssumption, HeldBounds
  <2> QED BY <2>1
<1> HIDE DEF k, a, out, p
<1>10. /\ \A i, j \in 1 .. Len(fifo) : fifo[i] = fifo[j] => i = j
       /\ FifoBytes = {fifo[i] : i \in 1 .. Len(fifo)}
       /\ FifoBytes \cup HeldBytes(b) = waiting /\ FifoBytes \cap HeldBytes(b) = {}
  BY DEF TxBytesInv, FifoBytes
<1>11. {fifo[i] : i \in 1 .. Len(fifo)} \cap {out[i] : i \in 1 .. Len(out)} = {}
  BY <1>4, <1>7, <1>10
<1>12. /\ \A i, j \in 1 .. Len(fifo') : fifo'[i] = fifo'[j] => i = j
       /\ FifoBytes' = FifoBytes \cup {out[i] : i \in 1 .. k}
  <2>1. \A i, j \in 1 .. Len(out) : out[i] = out[j] => i = j BY <1>4, <1>7
  <2> DEFINE u == fifo \o out
  <2>2. /\ \A i, j \in 1 .. Len(u) : u[i] = u[j] => i = j
        /\ {u[i] : i \in 1 .. Len(u)}
             = {fifo[i] : i \in 1 .. Len(fifo)} \cup {out[i] : i \in 1 .. Len(out)}
    BY <1>2, <1>4, <1>10, <1>11, <2>1, JoinSequences
  <2>3. fifo' = u BY <1>1
  <2> HIDE DEF u
  <2>4. FifoBytes' = {fifo'[i] : i \in 1 .. Len(fifo')} BY DEF FifoBytes
  <2>5. FifoBytes' = {u[i] : i \in 1 .. Len(u)} BY <2>3, <2>4
  <2> QED BY <1>4, <1>10, <2>2, <2>3, <2>5
<1>13. /\ FifoBytes' \cup HeldBytes(a) = waiting /\ FifoBytes' \cap HeldBytes(a) = {}
  BY <1>7, <1>10, <1>12
<1>14. state = "NOT_OPENED" => Held(a) = 0
  BY <1>4, <1>3, <1>9 DEF TxBytesInv
<1> QED BY <1>1, <1>7, <1>8, <1>12, <1>13, <1>14 DEF TxBytesInv

LEMMA CopyWriteBytes ==
  ASSUME TxInv, TxBytesInv, UNCHANGED state, CopyWrite PROVE TxBytesInv'
<1> DEFINE n == WriteCount(wsnap, left)
           c == CopyIn(tx_transfer, wsnap, written + 1, n)
<1>1. /\ UNCHANGED <<fifo, left, wsnap, written, waiting>> /\ tx_transfer' = c
  BY DEF CopyWrite, txHardware, txBytes
<1>2. /\ tx_transfer \in CircBufs(TxSize) /\ InOrder(tx_transfer) /\ wsnap \in Snapshots(TxSize)
      /\ WriteSeen(tx_transfer, wsnap) /\ left \in Nat /\ written + 1 \in Nat
  BY DEF CopyWrite, TxInv, TxTypes
<1>3. n \in Nat /\ n <= TxSize - Held(wsnap)
  <2>1. n = Lesser(left, TxSize - Held(wsnap)) /\ n \in 0 .. left
    BY <1>2, TxSizeAssumption, WriteCountFacts DEF WriteSeen
  <2>2. Held(wsnap) \in 0 .. TxSize BY <1>2, TxSizeAssumption, HeldBounds DEF WriteSeen
  <2> HIDE DEF n
  <2> QED BY <1>2, <2>1, <2>2, TxSizeAssumption DEF Lesser
<1> HIDE DEF n
<1>4. /\ Held(c) = Held(tx_transfer) /\ Pointers(c) = Pointers(tx_transfer)
      /\ \A k \in 0 .. Held(tx_transfer) - 1 :
           c.data[Cell(tx_transfer, tx_transfer.rp, k)]
             = tx_transfer.data[Cell(tx_transfer, tx_transfer.rp, k)]
      /\ \A k \in 0 .. n - 1 : c.data[Cell(wsnap, wsnap.wp, k)] = written + 1 + k
  BY <1>2, <1>3, TxSizeAssumption, CopyInFacts
<1> HIDE DEF c
<1>5. \A k : Cell(c, c.rp, k) = Cell(tx_transfer, tx_transfer.rp, k)
  BY <1>4 DEF Cell, Pointers
<1>6. \A k \in 0 .. Held(c) - 1 : c.data[Cell(c, c.rp, k)]
                                   = tx_transfer.data[Cell(tx_transfer, tx_transfer.rp, k)]
  BY <1>4, <1>5
<1>7. HeldBytes(c) = HeldBytes(tx_transfer) BY <1>4, <1>6 DEF HeldBytes
<1>8. Ordered(c) BY <1>4, <1>6 DEF Ordered, TxBytesInv
<1>9. FifoBytes' = FifoBytes BY <1>1 DEF FifoBytes
<1>10. \A k \in 0 .. WriteCount(wsnap', left') - 1 :
         c.data[Cell(wsnap', wsnap'.wp, k)] = written' + 1 + k
  BY <1>1, <1>4 DEF n
<1> QED BY <1>1, <1>4, <1>7, <1>8, <1>9, <1>10 DEF TxBytesInv

LEMMA PublishWriteBytes ==
  ASSUME TxInv, TxBytesInv, UNCHANGED state, PublishWrite PROVE TxBytesInv'
<1> DEFINE n == WriteCount(wsnap, left)
           a == AfterWrite(tx_transfer, wsnap, left)
<1>1. /\ UNCHANGED fifo /\ tx_transfer' = a /\ written' = written + n
      /\ waiting' = waiting \cup (written + 1 .. written + n)
      /\ writer = "publish" /\ writer' # "publish"
  BY DEF PublishWrite, PublishTaking, Accept, txHardware
<1>2. /\ tx_transfer \in CircBufs(TxSize) /\ InOrder(tx_transfer) /\ wsnap \in Snapshots(TxSize)
      /\ WriteSeen(tx_transfer, wsnap) /\ left \in Nat /\ written \in Nat /\ InOrder(wsnap)
      /\ waiting \subseteq 1 .. written
  BY <1>1 DEF TxInv, TxTypes, WriteSeen
<1>3. n \in Nat
  <2>1. n \in 0 .. left BY <1>2, TxSizeAssumption, WriteCountFacts
  <2> QED BY <2>1
<1>4. \A k \in 0 .. n - 1 : tx_transfer.data[Cell(wsnap, wsnap.wp, k)] = (written + 1) + k
  BY <1>1 DEF TxBytesInv
<1>5. \A k \in 0 .. Held(tx_transfer) - 1 :
        tx_transfer.data[Cell(tx_transfer, tx_transfer.rp, k)] < written + 1
  <2> SUFFICES ASSUME NEW k \in 0 .. Held(tx_transfer) - 1
               PROVE  tx_transfer.data[Cell(tx_transfer, tx_transfer.rp, k)] < written + 1
    OBVIOUS
  <2>1. tx_transfer.data[Cell(tx_transfer, tx_transfer.rp, k)] \in HeldBytes(tx_transfer)
    BY DEF HeldBytes
  <2>2. tx_transfer.data[Cell(tx_transfer, tx_transfer.rp, k)] \in 1 .. written
    BY <1>2, <2>1 DEF TxBytesInv
  <2> QED BY <1>2, <2>2
<1>6. /\ Ordered(a)
      /\ HeldBytes(a) = HeldBytes(tx_transfer) \cup (written + 1 .. (written + 1) + n - 1)
  <2> DEFINE first == written + 1
  <2>1. Ordered(tx_transfer) /\ first \in Nat BY <1>2 DEF TxBytesInv
  <2>2. /\ \A k \in 0 .. n - 1 : tx_transfer.data[Cell(wsnap, wsnap.wp, k)] = first + k
        /\ \A k \in 0 .. Held(tx_transfer) - 1 :
             tx_transfer.data[Cell(tx_transfer, tx_transfer.rp, k)] < first
    BY <1>4, <1>5
  <2> HIDE DEF first
  <2>3. /\ Ordered(a)
        /\ HeldBytes(a) = HeldBytes(tx_transfer) \cup (first .. first + n - 1)
    BY <1>2, <2>1, <2>2, TxSizeAssumption, WriteJoins, SMTT(30)
  <2> QED BY <2>3 DEF first
<1> HIDE DEF a, n
<1>7. written + 1 .. (written + 1) + n - 1 = written + 1 .. written + n BY <1>2, <1>3
<1>8. FifoBytes' = FifoBytes BY <1>1 DEF FifoBytes
<1>9. FifoBytes \cap (written + 1 .. written + n) = {}
  <2>1. FifoBytes \subseteq 1 .. written BY <1>2 DEF TxBytesInv
  <2>2. (1 .. written) \cap (written + 1 .. written + n) = {} BY <1>2, <1>3
  <2> QED BY <2>1, <2>2
<1>10. state # "NOT_OPENED" BY <1>1 DEF TxInv
<1> QED BY <1>1, <1>6, <1>7, <1>8, <1>9, <1>10 DEF TxBytesInv

LEMMA PutFifoBytes ==
  ASSUME TxInv, TxBytesInv, UNCHANGED state, PutFifo, Len(fifo) < FifoSize
  PROVE  TxBytesInv'
<1>1. /\ UNCHANGED <<tx_transfer, wsnap>> /\ fifo' = fifo \o <<written + 1>>
      /\ waiting' = waiting \cup (written + 1 .. written + 1) /\ writer' # "publish"
  BY DEF PutFifo, IntoFifo, Accept, txDriver
<1>2. fifo \in Seq(Nat) /\ written \in Nat /\ waiting \subseteq 1 .. written
  BY DEF TxInv, TxTypes
<1> DEFINE t == <<written + 1>>
<1>3. /\ t \in Seq(Nat) /\ Len(t) = 1 /\ t[1] = written + 1 BY <1>2
<1> HIDE DEF t
<1>4. {t[i] : i \in 1 .. Len(t)} = {written + 1}
  <2>1. \A i \in 1 .. Len(t) : i = 1 BY <1>3
  <2>2. 1 \in 1 .. Len(t) BY <1>3
  <2> QED BY <1>3, <2>1, <2>2
<1>5. \A i, j \in 1 .. Len(t) : t[i] = t[j] => i = j BY <1>3
<1>6. /\ \A i, j \in 1 .. Len(fifo) : fifo[i] = fifo[j] => i = j
      /\ FifoBytes = {fifo[i] : i \in 1 .. Len(fifo)}
      /\ FifoBytes \cup HeldBytes(tx_transfer) = waiting
      /\ FifoBytes \cap HeldBytes(tx_transfer) = {}
  BY DEF TxBytesInv, FifoBytes
<1>7. written + 1 \notin FifoBytes /\ written + 1 \notin HeldBytes(tx_transfer)
  <2>1. written + 1 \notin 1 .. written BY <1>2
  <2> QED BY <1>2, <1>6, <2>1
<1>8. {fifo[i] : i \in 1 .. Len(fifo)} \cap {t[i] : i \in 1 .. Len(t)} = {}
  BY <1>4, <1>6, <1>7
<1> DEFINE u == fifo \o t
<1>9. /\ \A i, j \in 1 .. Len(u) : u[i] = u[j] => i = j
      /\ {u[i] : i \in 1 .. Len(u)}
           = {fifo[i] : i \in 1 .. Len(fifo)} \cup {t[i] : i \in 1 .. Len(t)}
  BY <1>2, <1>3, <1>5, <1>6, <1>8, JoinSequences
<1>10. fifo' = u BY <1>1 DEF t
<1> HIDE DEF u
<1>11. FifoBytes' = FifoBytes \cup {written + 1}
  <2>1. FifoBytes' = {fifo'[i] : i \in 1 .. Len(fifo')} BY DEF FifoBytes
  <2>2. FifoBytes' = {u[i] : i \in 1 .. Len(u)} BY <1>10, <2>1
  <2> QED BY <1>4, <1>6, <1>9, <2>2
<1>12. waiting' = waiting \cup {written + 1}
  <2>1. written + 1 .. written + 1 = {written + 1} BY <1>2
  <2> QED BY <1>1, <2>1
<1>13. /\ FifoBytes' \cup HeldBytes(tx_transfer) = waiting'
       /\ FifoBytes' \cap HeldBytes(tx_transfer) = {}
  BY <1>6, <1>7, <1>11, <1>12
<1> QED BY <1>1, <1>9, <1>10, <1>13 DEF TxBytesInv

LEMMA LostByteBytes ==
  ASSUME TxBytesInv, UNCHANGED state, PutFifo, ~(Len(fifo) < FifoSize)
  PROVE  TxBytesInv'
<1>1. UNCHANGED <<fifo, tx_transfer, waiting>> /\ writer' # "publish"
  BY DEF PutFifo, txHardware, txDriver
<1>2. FifoBytes' = FifoBytes BY <1>1 DEF FifoBytes
<1> QED BY <1>1, <1>2 DEF TxBytesInv

LEMMA TxBytesStep == TxInv /\ TxBytesInv /\ [Next]_vars => TxBytesInv'
<1> SUFFICES ASSUME TxInv, TxBytesInv, [Next]_vars PROVE TxBytesInv' OBVIOUS
<1>1. CASE uart_open
  <2>1. PICK wd \in BOOLEAN : TxOpen(wd) BY <1>1 DEF uart_open
  <2>2. state = "NOT_OPENED" /\ state' # "NOT_OPENED" BY <1>1 DEF uart_open
  <2> QED BY <2>1, <2>2, OpenBytes
<1>2. CASE uart_close BY <1>2, CloseBytes DEF uart_close
<1>3. CASE uart_ioctl \/ SetterStep
  <2>1. UNCHANGED state
    BY <1>3 DEF uart_ioctl, SetterStep, ClearStep, ReadStep, WriteStep, SetUpStep
  <2>2. CASE uart_ioctl BY <2>1, <2>2, SetParamBytes DEF uart_ioctl
  <2>3. CASE SetterStep
    BY <2>1, <2>3, TxBytesUnchanged
       DEF SetterStep, ClearStep, ReadStep, WriteStep, ClearTxInt, WriteMask, txVars,
           txHardware, txDriver, txCall, txBytes
  <2> QED BY <1>3, <2>2, <2>3
<1>4. CASE RxNext
  BY <1>4, TxBytesUnchanged
     DEF RxNext, OfRx, txVars, txHardware, txDriver, txCall, txBytes
<1>5. CASE TxNext
  <2>1. CASE OfTx(TxUse)
    BY <2>1, TxBytesUnchanged DEF OfTx, TxUse, hi_uart_write, txDriver, txHardware, txBytes
  <2>2. CASE OfTx(TestTxInt \/ SnapWrite \/ WaitWrite \/ TestFifo)
    BY <2>2, TxBytesUnchanged
       DEF OfTx, TestTxInt, SnapWrite, WaitWrite, TestFifo, txDriver, txHardware, txBytes
  <2>3. CASE OfTx(UnmaskWait \/ UnmaskEnd \/ UnmaskPoll)
    BY <2>3, TxBytesUnchanged
       DEF OfTx, UnmaskWait, UnmaskEnd, UnmaskPoll, Unmask, txHardware, txBytes
  <2>4. CASE OfTx(CopyWrite \/ PublishWrite \/ PutFifo)
    BY <2>4, CopyWriteBytes, PublishWriteBytes, PutFifoBytes, LostByteBytes DEF OfTx
  <2>5. CASE OfTx(uart_send_irq)
    <3>1. CASE FirstTxIrq \/ uart_tx_interrupt_disable
      BY <2>5, <3>1, TxBytesUnchanged
         DEF OfTx, uart_send_irq, FirstTxIrq, uart_tx_interrupt_disable, txHardware, txCall,
             txBytes
    <3>2. CASE SendAndSignal BY <2>5, <3>2, SendBytes DEF OfTx, uart_send_irq
    <3> QED BY <2>5, <3>1, <3>2 DEF OfTx, uart_send_irq
  <2>6. CASE OfTx(Shift) BY <2>6, ShiftBytes DEF OfTx
  <2>7. CASE OfTx(RaiseTx)
    BY <2>7, TxBytesUnchanged DEF OfTx, RaiseTx, txDriver, txCall, txBytes
  <2> QED BY <1>5, <2>1, <2>2, <2>3, <2>4, <2>5, <2>6, <2>7 DEF TxNext, OfTx, WriterStep
<1>6. CASE UNCHANGED vars
  BY <1>6, TxBytesUnchanged DEF vars, txVars, txHardware, txDriver, txCall, txBytes
<1> QED BY <1>1, <1>2, <1>3, <1>4, <1>5, <1>6 DEF Next

(* Every byte that the FIFO or the buffer took and that has not left is in *)
(* one of them, once, and a polled byte finds the FIFO full only if its    *)
(* write passes others: EachByteOnce, on uart_send_irq and on both ways of *)
(* uart_write.                                                             *)
THEOREM BytesKept == Spec => []EachByteOnce
<1>1. TxInv /\ TxBytesInv => EachByteOnce
  <2> SUFFICES ASSUME TxInv, TxBytesInv PROVE EachByteOnce OBVIOUS
  <2>1. Cardinality(FifoBytes) = Len(fifo)
    <3> DEFINE f == [i \in 1 .. Len(fifo) |-> fifo[i]]
    <3>1. Len(fifo) \in Nat /\ f \in [1 .. Len(fifo) -> FifoBytes]
      BY DEF TxInv, TxTypes, FifoBytes
    <3>2. \A i, j \in 1 .. Len(fifo) : f[i] = f[j] => i = j BY DEF TxBytesInv
    <3>3. \A x \in FifoBytes : \E i \in 1 .. Len(fifo) : f[i] = x BY DEF FifoBytes
    <3> HIDE DEF f
    <3>4. f \in Bijection(1 .. Len(fifo), FifoBytes) BY <3>1, <3>2, <3>3, Fun_IsBij
    <3>5. ExistsBijection(1 .. Len(fifo), FifoBytes) BY <3>4 DEF ExistsBijection
    <3> QED BY <3>1, <3>5, FS_CountingElements
  <2>2. (writer = "put" /\ ~overtakes) => Len(fifo) < FifoSize BY DEF TxInv
  <2> QED BY <2>1, <2>2 DEF TxBytesInv, EachByteOnce, Ordered
<1> QED BY <1>1, TxHolds, TxBytesStart, TxBytesStep, PTL DEF Spec
=============================================================================
