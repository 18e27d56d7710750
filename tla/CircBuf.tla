------------------------------ MODULE CircBuf -------------------------------
(***************************************************************************)
(* The circular buffer of the UART driver, uart_circ_buf of uart_drv.c.    *)
(* The flag BUF_CIRCLED tells a full buffer from an empty one: it is set   *)
(* when the writer wraps and cleared when the reader does.                 *)
(*                                                                         *)
(* One side of every buffer is a task and the other an interrupt.  Both    *)
(* functions copy the pointers under the interrupt lock (Pointers), move   *)
(* the bytes outside of it (CopyOut, CopyIn) and then publish the new      *)
(* pointer (AfterRead, AfterWrite), so the interrupt may run in between.   *)
(* A byte is represented by its number in the stream, 0 stands for none.   *)
(***************************************************************************)
EXTENDS Naturals

CircBufs(size) ==
  [size : {size}, rp : 0 .. size - 1, wp : 0 .. size - 1, circled : BOOLEAN,
   data : [0 .. size - 1 -> Nat]]

Snapshots(size) ==
  [size : {size}, rp : 0 .. size - 1, wp : 0 .. size - 1, circled : BOOLEAN]

EmptyBuf(size) ==
  [size |-> size, rp |-> 0, wp |-> 0, circled |-> FALSE,
   data |-> [i \in 0 .. size - 1 |-> 0]]

Pointers(b) ==
  [size |-> b.size, rp |-> b.rp, wp |-> b.wp, circled |-> b.circled]

uart_circ_buf_empty(b) == ~b.circled /\ b.wp = b.rp

Held(b) == IF b.circled THEN b.size - b.rp + b.wp ELSE b.wp - b.rp

Lesser(m, n) == IF m <= n THEN m ELSE n

(* The cell k places behind p, and how far behind p cell i is.             *)
Cell(s, p, k) == IF p + k < s.size THEN p + k ELSE p + k - s.size
Behind(s, p, i) == IF i >= p THEN i - p ELSE i + s.size - p

-----------------------------------------------------------------------------
(* uart_read_circ_buf: s holds its local copies of the pointers.           *)

ReadWraps(s, count) == s.circled /\ count >= s.size - s.rp

ReadCount(s, count) ==
  IF ~s.circled THEN Lesser(count, s.wp - s.rp)
  ELSE IF ReadWraps(s, count)
    THEN s.size - s.rp + Lesser(count - (s.size - s.rp), s.wp)
    ELSE count

CopyOut(b, s, n) == [k \in 1 .. n |-> b.data[Cell(s, s.rp, k - 1)]]

(* Mutant: the flag stays when the reader wraps.                           *)
AfterReadKeepsFlag(b, s, count) ==
  IF ReadWraps(s, count)
    THEN [b EXCEPT !.rp = ReadCount(s, count) - (s.size - s.rp)]
    ELSE [b EXCEPT !.rp = @ + ReadCount(s, count)]

AfterRead(b, s, count) ==
  IF ReadWraps(s, count)
    THEN [b EXCEPT !.rp = ReadCount(s, count) - (s.size - s.rp), !.circled = FALSE]
    ELSE [b EXCEPT !.rp = @ + ReadCount(s, count)]

-----------------------------------------------------------------------------
(* uart_write_circ_buf.  What does not fit is discarded.                   *)

(* Mutant: off by one, the pointer may be left behind the last cell.       *)
WriteWrapsLate(s, count) == ~s.circled /\ count > s.size - s.wp

WriteWraps(s, count) == ~s.circled /\ count >= s.size - s.wp

WriteCount(s, count) ==
  IF s.circled THEN Lesser(count, s.rp - s.wp)
  ELSE IF WriteWraps(s, count)
    THEN s.size - s.wp + Lesser(count - (s.size - s.wp), s.rp)
    ELSE count

(* n bytes, numbered from first.                                           *)
CopyIn(b, s, first, n) ==
  [b EXCEPT !.data = [i \in 0 .. s.size - 1 |->
     IF Behind(s, s.wp, i) < n THEN first + Behind(s, s.wp, i) ELSE b.data[i]]]

AfterWrite(b, s, count) ==
  IF WriteWraps(s, count)
    THEN [b EXCEPT !.wp = WriteCount(s, count) - (s.size - s.wp), !.circled = TRUE]
    ELSE [b EXCEPT !.wp = @ + WriteCount(s, count)]

-----------------------------------------------------------------------------
HeldBytes(b) == {b.data[Cell(b, b.rp, k)] : k \in 0 .. Held(b) - 1}

(* The bytes in the buffer are those behind number n, in order.            *)
Numbered(b, n) ==
  \A k \in 0 .. Held(b) - 1 : b.data[Cell(b, b.rp, k)] = n + k + 1
=============================================================================
