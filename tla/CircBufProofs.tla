--------------------------- MODULE CircBufProofs ---------------------------
(***************************************************************************)
(* What the two functions of the circular buffer do, for every size and    *)
(* every length, if the other side goes on between the copy of the         *)
(* pointers (s) and the move of the pointer in the buffer (b).             *)
(***************************************************************************)
EXTENDS CircBuf, Integers, TLAPS

(* The pointers are in the order that the flag says.                       *)
InOrder(b) == IF b.circled THEN b.wp <= b.rp ELSE b.rp <= b.wp

(* The writer went on since the reader copied the pointers: it moved wp    *)
(* forward and perhaps wrapped.                                            *)
ReadSeen(b, s) ==
  /\ InOrder(s) /\ s.rp = b.rp
  /\ s.circled => b.circled /\ s.wp <= b.wp
  /\ ~s.circled => b.circled \/ s.wp <= b.wp

(* The reader went on since the writer copied the pointers.                *)
WriteSeen(b, s) ==
  /\ InOrder(s) /\ s.wp = b.wp
  /\ ~s.circled => ~b.circled /\ s.rp <= b.rp
  /\ s.circled /\ b.circled => s.rp <= b.rp

LEMMA HeldBounds ==
  ASSUME NEW size \in Nat \ {0}, NEW b \in CircBufs(size) \cup Snapshots(size), InOrder(b)
  PROVE  Held(b) \in 0 .. size /\ (uart_circ_buf_empty(b) <=> Held(b) = 0)
BY DEF CircBufs, Snapshots, InOrder, Held, uart_circ_buf_empty

LEMMA CellFacts ==
  ASSUME NEW size \in Nat \ {0}, NEW b, b.size = size,
         NEW p \in 0 .. size - 1, NEW k \in 0 .. size - 1
  PROVE  Cell(b, p, k) \in 0 .. size - 1 /\ Behind(b, p, Cell(b, p, k)) = k
BY DEF Cell, Behind

LEMMA EmptyFacts ==
  ASSUME NEW size \in Nat \ {0}
  PROVE  /\ EmptyBuf(size) \in CircBufs(size) /\ InOrder(EmptyBuf(size))
         /\ Held(EmptyBuf(size)) = 0 /\ Numbered(EmptyBuf(size), 0)
BY DEF EmptyBuf, CircBufs, InOrder, Held, Numbered

LEMMA PointersFacts ==
  ASSUME NEW size \in Nat \ {0}, NEW b \in CircBufs(size), InOrder(b)
  PROVE  /\ Pointers(b) \in Snapshots(size)
         /\ ReadSeen(b, Pointers(b)) /\ WriteSeen(b, Pointers(b))
         /\ Held(Pointers(b)) = Held(b)
BY DEF Pointers, Snapshots, CircBufs, ReadSeen, WriteSeen, InOrder, Held

-----------------------------------------------------------------------------
LEMMA ReadCountFacts ==
  ASSUME NEW size \in Nat \ {0}, NEW s \in Snapshots(size), InOrder(s), NEW count \in Nat
  PROVE  /\ ReadCount(s, count) = Lesser(count, Held(s))
         /\ ReadCount(s, count) \in 0 .. count
BY DEF Snapshots, InOrder, ReadCount, ReadWraps, Lesser, Held

LEMMA MoveRead ==
  ASSUME NEW size \in Nat \ {0}, NEW b \in CircBufs(size), NEW p \in 0 .. size - 1
  PROVE  /\ [b EXCEPT !.rp = p] \in CircBufs(size)
         /\ [b EXCEPT !.rp = p, !.circled = FALSE] \in CircBufs(size)
BY DEF CircBufs

LEMMA AfterReadFields ==
  ASSUME NEW size \in Nat \ {0}, NEW b \in CircBufs(size), NEW s \in Snapshots(size),
         NEW count \in Nat
  PROVE  LET a == AfterRead(b, s, count)
         IN  /\ a.size = size /\ a.wp = b.wp /\ a.data = b.data
             /\ a.rp = IF ReadWraps(s, count)
                         THEN ReadCount(s, count) - (s.size - s.rp)
                         ELSE b.rp + ReadCount(s, count)
             /\ a.circled = (b.circled /\ ~ReadWraps(s, count))
<1>1. CASE ReadWraps(s, count) BY <1>1 DEF CircBufs, AfterRead
<1>2. CASE ~ReadWraps(s, count) BY <1>2 DEF CircBufs, AfterRead
<1> QED BY <1>1, <1>2

LEMMA ReadFacts ==
  ASSUME NEW size \in Nat \ {0}, NEW b \in CircBufs(size), NEW s \in Snapshots(size),
         InOrder(b), ReadSeen(b, s), NEW count \in Nat
  PROVE  /\ AfterRead(b, s, count) \in CircBufs(size)
         /\ InOrder(AfterRead(b, s, count))
         /\ ReadCount(s, count) <= Held(b)
         /\ Held(AfterRead(b, s, count)) = Held(b) - ReadCount(s, count)
<1> DEFINE a == AfterRead(b, s, count)
           n == ReadCount(s, count)
<1>1. /\ s.size = size /\ b.size = size /\ s.rp \in 0 .. size - 1 /\ s.wp \in 0 .. size - 1
      /\ b.wp \in 0 .. size - 1 /\ b.rp = s.rp /\ s.circled \in BOOLEAN /\ b.circled \in BOOLEAN
  BY DEF Snapshots, CircBufs, ReadSeen
<1>2. CASE ReadWraps(s, count)
  <2>1. /\ s.circled /\ b.circled /\ s.wp <= b.wp
        /\ n - (size - s.rp) \in 0 .. s.wp
    BY <1>1, <1>2 DEF ReadSeen, ReadWraps, ReadCount, Lesser
  <2>2. a = [b EXCEPT !.rp = n - (size - s.rp), !.circled = FALSE]
    BY <1>1, <1>2 DEF AfterRead
  <2> DEFINE p == n - (size - s.rp)
  <2>3. p \in 0 .. size - 1 BY <1>1, <2>1
  <2> HIDE DEF p
  <2>4. [b EXCEPT !.rp = p, !.circled = FALSE] \in CircBufs(size) BY <2>3, MoveRead
  <2>5. a \in CircBufs(size) BY <2>2, <2>4 DEF p
  <2>6. a.rp = p /\ ~a.circled /\ a.wp = b.wp /\ a.size = size
    BY <2>2 DEF CircBufs, p
  <2>7. n \in Nat BY ReadCountFacts DEF ReadSeen
  <2> HIDE DEF a, n
  <2> QED BY <1>1, <2>1, <2>5, <2>6, <2>7 DEF InOrder, Held, a, n, p
<1>3. CASE ~ReadWraps(s, count)
  <2>1. n \in Nat /\ b.rp + n \in 0 .. size - 1
        /\ (IF b.circled THEN TRUE ELSE b.rp + n <= b.wp)
        /\ n <= Held(b)
    BY <1>1, <1>3 DEF ReadSeen, ReadWraps, ReadCount, Lesser, InOrder, Held
  <2>2. a = [b EXCEPT !.rp = b.rp + n]
    BY <1>1, <1>3 DEF AfterRead
  <2>3. a \in CircBufs(size) BY <1>1, <2>1, <2>2, MoveRead
  <2>4. a.rp = b.rp + n /\ a.circled = b.circled /\ a.wp = b.wp /\ a.size = size
    BY <1>1, <1>3, AfterReadFields
  <2> HIDE DEF a, n
  <2> QED BY <1>1, <2>1, <2>3, <2>4 DEF InOrder, Held, a, n
<1> QED BY <1>2, <1>3

(* What is held behind the bytes read stays where it is.                   *)
LEMMA CellsAfterRead ==
  ASSUME NEW size \in Nat \ {0}, NEW b \in CircBufs(size), NEW s \in Snapshots(size),
         InOrder(b), ReadSeen(b, s), NEW count \in Nat
  PROVE  LET a == AfterRead(b, s, count)
         IN  \A k \in 0 .. Held(a) - 1 :
               Cell(a, a.rp, k) = Cell(b, b.rp, ReadCount(s, count) + k)
<1> DEFINE a == AfterRead(b, s, count)
           c == ReadCount(s, count)
<1>1. /\ s.size = size /\ b.size = size /\ s.rp \in 0 .. size - 1 /\ s.wp \in 0 .. size - 1
      /\ b.wp \in 0 .. size - 1 /\ b.rp = s.rp /\ s.circled \in BOOLEAN /\ b.circled \in BOOLEAN
  BY DEF Snapshots, CircBufs, ReadSeen
<1>2. c \in Nat /\ c <= Held(b) /\ Held(a) = Held(b) - c /\ Held(b) \in Nat
  BY ReadFacts, ReadCountFacts, HeldBounds DEF ReadSeen
<1>3. \A k \in 0 .. Held(a) - 1 : Cell(a, a.rp, k) = Cell(b, b.rp, c + k)
  <2>1. CASE ReadWraps(s, count)
    <3>1. a.rp = c - (size - s.rp) /\ a.size = size BY <1>1, <2>1, AfterReadFields
    <3>2. b.circled /\ s.wp <= b.wp /\ c - (size - s.rp) >= 0
      BY <1>1, <2>1 DEF ReadSeen, ReadWraps, ReadCount, Lesser
    <3> HIDE DEF a, c
    <3> QED BY <1>1, <1>2, <3>1, <3>2 DEF Cell, Held, InOrder
  <2>2. CASE ~ReadWraps(s, count)
    <3>1. a.rp = b.rp + c /\ a.size = size BY <1>1, <2>2, AfterReadFields
    <3> HIDE DEF a, c
    <3> QED BY <1>1, <1>2, <3>1 DEF Cell
  <2> QED BY <2>1, <2>2
<1> QED BY <1>3

LEMMA ReadCells ==
  ASSUME NEW size \in Nat \ {0}, NEW b \in CircBufs(size), NEW s \in Snapshots(size),
         InOrder(b), ReadSeen(b, s), NEW count \in Nat, NEW n \in Nat, Numbered(b, n)
  PROVE  /\ Numbered(AfterRead(b, s, count), n + ReadCount(s, count))
         /\ CopyOut(b, s, ReadCount(s, count)) = [k \in 1 .. ReadCount(s, count) |-> n + k]
<1> DEFINE a == AfterRead(b, s, count)
           c == ReadCount(s, count)
<1>1. /\ s.size = size /\ b.size = size /\ s.rp \in 0 .. size - 1 /\ s.wp \in 0 .. size - 1
      /\ b.wp \in 0 .. size - 1 /\ b.rp = s.rp /\ s.circled \in BOOLEAN /\ b.circled \in BOOLEAN
  BY DEF Snapshots, CircBufs, ReadSeen
<1>2. c \in Nat /\ c <= Held(b) /\ Held(a) = Held(b) - c /\ Held(b) \in Nat
  BY ReadFacts, ReadCountFacts, HeldBounds DEF ReadSeen
<1>3. \A k \in 0 .. Held(a) - 1 : Cell(a, a.rp, k) = Cell(b, b.rp, c + k)
  BY CellsAfterRead
<1>4. a.data = b.data BY AfterReadFields
<1> HIDE DEF a, c
<1>5. Numbered(a, n + c)
  <2> SUFFICES ASSUME NEW k \in 0 .. Held(a) - 1
               PROVE  a.data[Cell(a, a.rp, k)] = n + c + k + 1
    BY DEF Numbered
  <2>1. c + k \in 0 .. Held(b) - 1 BY <1>2
  <2>2. b.data[Cell(b, b.rp, c + k)] = n + (c + k) + 1 BY <2>1 DEF Numbered
  <2> QED BY <1>2, <1>3, <1>4, <2>2
<1>6. CopyOut(b, s, c) = [k \in 1 .. c |-> n + k]
  <2> SUFFICES ASSUME NEW k \in 1 .. c
               PROVE  b.data[Cell(s, s.rp, k - 1)] = n + k
    BY DEF CopyOut
  <2>1. k - 1 \in 0 .. Held(b) - 1 BY <1>2
  <2>2. b.data[Cell(b, b.rp, k - 1)] = n + (k - 1) + 1 BY <2>1 DEF Numbered
  <2>3. Cell(s, s.rp, k - 1) = Cell(b, b.rp, k - 1) BY <1>1 DEF Cell
  <2> QED BY <2>2, <2>3
<1> QED BY <1>5, <1>6 DEF a, c

-----------------------------------------------------------------------------
LEMMA WriteCountFacts ==
  ASSUME NEW size \in Nat \ {0}, NEW s \in Snapshots(size), InOrder(s), NEW count \in Nat
  PROVE  /\ WriteCount(s, count) = Lesser(count, size - Held(s))
         /\ WriteCount(s, count) \in 0 .. count
BY DEF Snapshots, InOrder, WriteCount, WriteWraps, Lesser, Held

LEMMA MoveWrite ==
  ASSUME NEW size \in Nat \ {0}, NEW b \in CircBufs(size), NEW p \in 0 .. size - 1
  PROVE  /\ [b EXCEPT !.wp = p] \in CircBufs(size)
         /\ [b EXCEPT !.wp = p, !.circled = TRUE] \in CircBufs(size)
BY DEF CircBufs

LEMMA AfterWriteFields ==
  ASSUME NEW size \in Nat \ {0}, NEW b \in CircBufs(size), NEW s \in Snapshots(size),
         NEW count \in Nat
  PROVE  LET a == AfterWrite(b, s, count)
         IN  /\ a.size = size /\ a.rp = b.rp /\ a.data = b.data
             /\ a.wp = IF WriteWraps(s, count)
                         THEN WriteCount(s, count) - (s.size - s.wp)
                         ELSE b.wp + WriteCount(s, count)
             /\ a.circled = (b.circled \/ WriteWraps(s, count))
<1>1. CASE WriteWraps(s, count) BY <1>1 DEF CircBufs, AfterWrite
<1>2. CASE ~WriteWraps(s, count) BY <1>2 DEF CircBufs, AfterWrite
<1> QED BY <1>1, <1>2

LEMMA WriteFacts ==
  ASSUME NEW size \in Nat \ {0}, NEW b \in CircBufs(size), NEW s \in Snapshots(size),
         InOrder(b), WriteSeen(b, s), NEW count \in Nat
  PROVE  /\ AfterWrite(b, s, count) \in CircBufs(size)
         /\ InOrder(AfterWrite(b, s, count))
         /\ Held(AfterWrite(b, s, count)) = Held(b) + WriteCount(s, count)
<1> DEFINE a == AfterWrite(b, s, count)
           n == WriteCount(s, count)
<1>1. /\ s.size = size /\ b.size = size /\ s.rp \in 0 .. size - 1 /\ s.wp \in 0 .. size - 1
      /\ b.rp \in 0 .. size - 1 /\ b.wp = s.wp /\ s.circled \in BOOLEAN /\ b.circled \in BOOLEAN
  BY DEF Snapshots, CircBufs, WriteSeen
<1>2. n \in Nat BY WriteCountFacts DEF WriteSeen
<1>3. CASE WriteWraps(s, count)
  <2>1. /\ ~s.circled /\ ~b.circled /\ s.rp <= b.rp /\ b.rp <= b.wp
        /\ n - (size - s.wp) \in 0 .. s.rp
    BY <1>1, <1>3 DEF WriteSeen, WriteWraps, WriteCount, Lesser, InOrder
  <2>2. a = [b EXCEPT !.wp = n - (size - s.wp), !.circled = TRUE]
    BY <1>1, <1>3 DEF AfterWrite
  <2> DEFINE p == n - (size - s.wp)
  <2>3. p \in 0 .. size - 1 BY <1>1, <2>1
  <2> HIDE DEF p
  <2>4. [b EXCEPT !.wp = p, !.circled = TRUE] \in CircBufs(size) BY <2>3, MoveWrite
  <2>5. a \in CircBufs(size) BY <2>2, <2>4 DEF p
  <2>6. a.wp = p /\ a.circled /\ a.rp = b.rp /\ a.size = size
    BY <2>2 DEF CircBufs, p
  <2> HIDE DEF a, n
  <2> QED BY <1>1, <1>2, <2>1, <2>5, <2>6 DEF InOrder, Held, a, n, p
<1>4. CASE ~WriteWraps(s, count)
  <2>1. b.wp + n \in 0 .. size - 1 /\ (b.circled => b.wp + n <= b.rp)
    BY <1>1, <1>4 DEF WriteSeen, WriteWraps, WriteCount, Lesser, InOrder
  <2>2. a = [b EXCEPT !.wp = b.wp + n]
    BY <1>1, <1>4 DEF AfterWrite
  <2>3. a \in CircBufs(size) BY <1>1, <2>1, <2>2, MoveWrite
  <2>4. a.wp = b.wp + n /\ a.circled = b.circled /\ a.rp = b.rp /\ a.size = size
    BY <1>1, <1>4, AfterWriteFields
  <2> HIDE DEF a, n
  <2> QED BY <1>1, <1>2, <2>1, <2>3, <2>4 DEF InOrder, Held, a, n
<1> QED BY <1>3, <1>4

(* The reader's progress does not disturb what the writer has seen, nor    *)
(* the writer's what the reader has.                                       *)
LEMMA WriteStaysSeen ==
  ASSUME NEW size \in Nat \ {0}, NEW b \in CircBufs(size), NEW s \in Snapshots(size),
         InOrder(b), WriteSeen(b, s), NEW count \in Nat
  PROVE  WriteSeen(AfterRead(b, b, count), s)
<1>1. /\ b.size = size /\ s.rp \in 0 .. size - 1 /\ s.wp \in 0 .. size - 1
      /\ b.rp \in 0 .. size - 1 /\ b.wp = s.wp /\ s.circled \in BOOLEAN /\ b.circled \in BOOLEAN
  BY DEF Snapshots, CircBufs, WriteSeen
<1>2. CASE ReadWraps(b, count)
  <2>1. AfterRead(b, b, count).wp = b.wp /\ ~AfterRead(b, b, count).circled
    BY <1>2 DEF AfterRead, CircBufs
  <2>2. s.circled BY <1>1, <1>2 DEF ReadWraps, WriteSeen
  <2> QED BY <1>1, <2>1, <2>2 DEF WriteSeen
<1>3. CASE ~ReadWraps(b, count)
  <2>1. ReadCount(b, count) \in Nat
    BY <1>1, <1>3 DEF ReadCount, ReadWraps, Lesser, InOrder
  <2>2. /\ AfterRead(b, b, count).wp = b.wp /\ AfterRead(b, b, count).circled = b.circled
        /\ AfterRead(b, b, count).rp = b.rp + ReadCount(b, count)
    BY <1>3 DEF AfterRead, CircBufs
  <2> QED BY <1>1, <2>1, <2>2 DEF WriteSeen
<1> QED BY <1>2, <1>3

LEMMA ReadStaysSeen ==
  ASSUME NEW size \in Nat \ {0}, NEW b \in CircBufs(size), NEW s \in Snapshots(size),
         InOrder(b), ReadSeen(b, s), NEW count \in Nat,
         NEW c \in CircBufs(size), Pointers(c) = Pointers(b)
  PROVE  ReadSeen(AfterWrite(c, b, count), s)
<1>1. /\ b.size = size /\ s.rp \in 0 .. size - 1 /\ s.wp \in 0 .. size - 1
      /\ b.wp \in 0 .. size - 1 /\ b.rp = s.rp /\ s.circled \in BOOLEAN /\ b.circled \in BOOLEAN
  BY DEF Snapshots, CircBufs, ReadSeen
<1>2. c.rp = b.rp /\ c.wp = b.wp /\ c.circled = b.circled
  BY DEF Pointers
<1>3. CASE WriteWraps(b, count)
  <2>1. AfterWrite(c, b, count).rp = b.rp /\ AfterWrite(c, b, count).circled
    BY <1>2, <1>3 DEF AfterWrite, CircBufs
  <2>2. ~s.circled BY <1>1, <1>3 DEF WriteWraps, ReadSeen
  <2> QED BY <1>1, <2>1, <2>2 DEF ReadSeen
<1>4. CASE ~WriteWraps(b, count)
  <2>1. WriteCount(b, count) \in Nat
    BY <1>1, <1>4 DEF WriteCount, WriteWraps, Lesser, InOrder
  <2>2. /\ AfterWrite(c, b, count).rp = b.rp /\ AfterWrite(c, b, count).circled = b.circled
        /\ AfterWrite(c, b, count).wp = b.wp + WriteCount(b, count)
    BY <1>2, <1>4 DEF AfterWrite, CircBufs
  <2> QED BY <1>1, <2>1, <2>2 DEF ReadSeen
<1> QED BY <1>3, <1>4

(* The interrupt needs no copy of the pointers.                            *)
LEMMA OwnPointers ==
  ASSUME NEW b, NEW c, NEW first, NEW n
  PROVE  /\ ReadCount(b, n) = ReadCount(Pointers(b), n)
         /\ CopyOut(c, b, n) = CopyOut(c, Pointers(b), n)
         /\ AfterRead(c, b, n) = AfterRead(c, Pointers(b), n)
         /\ WriteCount(b, n) = WriteCount(Pointers(b), n)
         /\ CopyIn(c, b, first, n) = CopyIn(c, Pointers(b), first, n)
         /\ AfterWrite(c, b, n) = AfterWrite(c, Pointers(b), n)
<1>1. ReadWraps(b, n) <=> ReadWraps(Pointers(b), n) BY DEF ReadWraps, Pointers
<1>2. WriteWraps(b, n) <=> WriteWraps(Pointers(b), n) BY DEF WriteWraps, Pointers
<1>3. ReadCount(b, n) = ReadCount(Pointers(b), n) BY <1>1 DEF ReadCount, Pointers
<1>4. WriteCount(b, n) = WriteCount(Pointers(b), n) BY <1>2 DEF WriteCount, Pointers
<1>5. \A p, k : Cell(b, p, k) = Cell(Pointers(b), p, k) BY DEF Cell, Pointers
<1>6. \A p, i : Behind(b, p, i) = Behind(Pointers(b), p, i) BY DEF Behind, Pointers
<1>7. b.size = Pointers(b).size /\ b.rp = Pointers(b).rp /\ b.wp = Pointers(b).wp
  BY DEF Pointers
<1> HIDE DEF Pointers
<1>8. CopyOut(c, b, n) = CopyOut(c, Pointers(b), n) BY <1>5, <1>7 DEF CopyOut
<1>9. CopyIn(c, b, first, n) = CopyIn(c, Pointers(b), first, n)
  <2> DEFINE data(s) == [i \in 0 .. s.size - 1 |->
                           IF Behind(s, s.wp, i) < n THEN first + Behind(s, s.wp, i)
                                                     ELSE c.data[i]]
  <2>1. data(b) = data(Pointers(b)) BY <1>6, <1>7
  <2>2. \A s : CopyIn(c, s, first, n) = [c EXCEPT !.data = data(s)] BY DEF CopyIn
  <2> HIDE DEF data
  <2> QED BY <2>1, <2>2
<1>10. AfterRead(c, b, n) = AfterRead(c, Pointers(b), n)
  BY <1>1, <1>3, <1>7 DEF AfterRead
<1>11. AfterWrite(c, b, n) = AfterWrite(c, Pointers(b), n)
  BY <1>2, <1>4, <1>7 DEF AfterWrite
<1> QED BY <1>3, <1>4, <1>8, <1>9, <1>10, <1>11

(* Seen from the writer, a byte that is held is behind the free cells.     *)
LEMMA OutsideHeld ==
  ASSUME NEW size \in Nat \ {0}, NEW b, NEW s, b.size = size, s.size = size,
         b.rp \in 0 .. size - 1, s.rp \in 0 .. size - 1, s.wp \in 0 .. size - 1,
         b.circled \in BOOLEAN, s.circled \in BOOLEAN, InOrder(b), WriteSeen(b, s),
         NEW k \in 0 .. Held(b) - 1
  PROVE  Behind(s, s.wp, Cell(b, b.rp, k)) >= size - Held(s)
<1>1. CASE ~s.circled
  BY <1>1 DEF InOrder, WriteSeen, Held, Cell, Behind
<1>2. CASE s.circled /\ b.circled
  BY <1>2 DEF InOrder, WriteSeen, Held, Cell, Behind
<1>3. CASE s.circled /\ ~b.circled
  BY <1>3 DEF InOrder, WriteSeen, Held, Cell, Behind
<1> QED BY <1>1, <1>2, <1>3

(* Bytes copied in are outside of those that are held.                     *)
LEMMA CopyInFacts ==
  ASSUME NEW size \in Nat \ {0}, NEW b \in CircBufs(size), NEW s \in Snapshots(size),
         InOrder(b), WriteSeen(b, s), NEW first \in Nat, NEW n \in Nat, n <= size - Held(s)
  PROVE  LET c == CopyIn(b, s, first, n)
         IN  /\ c \in CircBufs(size) /\ InOrder(c) /\ WriteSeen(c, s) /\ Held(c) = Held(b)
             /\ Pointers(c) = Pointers(b)
             /\ \A k \in 0 .. Held(b) - 1 : c.data[Cell(b, b.rp, k)] = b.data[Cell(b, b.rp, k)]
             /\ \A k \in 0 .. n - 1 : c.data[Cell(s, s.wp, k)] = first + k
<1> DEFINE c == CopyIn(b, s, first, n)
           d == [i \in 0 .. size - 1 |->
                   IF Behind(s, s.wp, i) < n THEN first + Behind(s, s.wp, i) ELSE b.data[i]]
<1>1. /\ s.size = size /\ b.size = size /\ s.rp \in 0 .. size - 1 /\ s.wp \in 0 .. size - 1
      /\ b.rp \in 0 .. size - 1 /\ b.wp \in 0 .. size - 1 /\ b.wp = s.wp
      /\ s.circled \in BOOLEAN /\ b.circled \in BOOLEAN
      /\ b.data \in [0 .. size - 1 -> Nat]
  BY DEF Snapshots, CircBufs, WriteSeen
<1>2. \A i \in 0 .. size - 1 : Behind(s, s.wp, i) \in 0 .. size - 1
  BY <1>1, SMTT(30) DEF Behind
<1>3. d \in [0 .. size - 1 -> Nat]
  <2> SUFFICES ASSUME NEW i \in 0 .. size - 1
               PROVE  (IF Behind(s, s.wp, i) < n THEN first + Behind(s, s.wp, i)
                                                 ELSE b.data[i]) \in Nat
    OBVIOUS
  <2>1. b.data[i] \in Nat BY <1>1
  <2>2. Behind(s, s.wp, i) \in 0 .. size - 1 BY <1>2
  <2>3. Behind(s, s.wp, i) \in Nat BY <2>2
  <2> QED BY <2>1, <2>3
<1>4. c = [b EXCEPT !.data = d]
  BY <1>1 DEF CopyIn
<1>5. /\ c \in CircBufs(size) /\ c.size = size /\ c.rp = b.rp /\ c.wp = b.wp
      /\ c.circled = b.circled /\ c.data = d
  <2> HIDE DEF c, d
  <2> QED BY <1>3, <1>4 DEF CircBufs
<1>6. ASSUME NEW k \in 0 .. Held(b) - 1
      PROVE  d[Cell(b, b.rp, k)] = b.data[Cell(b, b.rp, k)]
  <2> DEFINE i == Cell(b, b.rp, k)
  <2>1. Held(b) \in 0 .. size /\ k \in 0 .. size - 1 BY HeldBounds
  <2>2. i \in 0 .. size - 1 BY <1>1, <2>1, CellFacts
  <2>3. Behind(s, s.wp, i) >= size - Held(s) BY <1>1, OutsideHeld
  <2>4. Behind(s, s.wp, i) \in 0 .. size - 1 BY <1>2, <2>2
  <2>5. Held(s) \in 0 .. size BY HeldBounds DEF WriteSeen
  <2>6. ~(Behind(s, s.wp, i) < n) BY <2>3, <2>4, <2>5
  <2> HIDE DEF i
  <2> QED BY <2>2, <2>6 DEF i
<1>7. ASSUME NEW k \in 0 .. n - 1
      PROVE  d[Cell(s, s.wp, k)] = first + k
  <2> DEFINE i == Cell(s, s.wp, k)
  <2>1. Held(s) \in 0 .. size /\ k \in 0 .. size - 1
    <3>1. Held(s) \in 0 .. size BY HeldBounds DEF WriteSeen
    <3> QED BY <3>1
  <2>2. i \in 0 .. size - 1 BY <1>1, <2>1, CellFacts
  <2>3. Behind(s, s.wp, i) = k BY <1>1, <2>1, CellFacts
  <2> HIDE DEF i
  <2> QED BY <2>2, <2>3 DEF i
<1> HIDE DEF c, d
<1>8. InOrder(c) /\ WriteSeen(c, s) /\ Held(c) = Held(b) /\ Pointers(c) = Pointers(b)
  BY <1>1, <1>5 DEF InOrder, WriteSeen, Held, Pointers
<1> QED BY <1>5, <1>6, <1>7, <1>8 DEF c

(* What is held stays where it is, and the new bytes are behind it.        *)
LEMMA CellsAfterWrite ==
  ASSUME NEW size \in Nat \ {0}, NEW b \in CircBufs(size), NEW s \in Snapshots(size),
         InOrder(b), WriteSeen(b, s), NEW count \in Nat,
         NEW k \in 0 .. Held(AfterWrite(b, s, count)) - 1
  PROVE  LET a == AfterWrite(b, s, count)
         IN  /\ Cell(a, a.rp, k) = Cell(b, b.rp, k)
             /\ k >= Held(b) => Cell(s, s.wp, k - Held(b)) = Cell(b, b.rp, k)
<1> DEFINE a == AfterWrite(b, s, count)
           m == WriteCount(s, count)
<1>1. /\ s.size = size /\ b.size = size /\ s.rp \in 0 .. size - 1 /\ s.wp \in 0 .. size - 1
      /\ b.rp \in 0 .. size - 1 /\ b.wp = s.wp /\ b.circled \in BOOLEAN /\ s.circled \in BOOLEAN
  BY DEF Snapshots, CircBufs, WriteSeen
<1>2. Held(b) \in 0 .. size BY HeldBounds
<1>3. Held(a) = Held(b) + m /\ m \in Nat BY WriteFacts, WriteCountFacts DEF WriteSeen
<1>4. a.rp = b.rp /\ a.size = size BY AfterWriteFields
<1> HIDE DEF a, m
<1>5. Cell(a, a.rp, k) = Cell(b, b.rp, k) BY <1>1, <1>4 DEF Cell
<1>6. ASSUME k >= Held(b) PROVE Cell(s, s.wp, k - Held(b)) = Cell(b, b.rp, k)
  <2>1. Held(b) = IF b.circled THEN size - b.rp + b.wp ELSE b.wp - b.rp
    BY <1>1 DEF Held
  <2>2. Cell(b, b.rp, k) = IF b.rp + k < size THEN b.rp + k ELSE b.rp + k - size
    BY <1>1 DEF Cell
  <2>3. Cell(s, s.wp, k - Held(b))
          = IF b.wp + (k - Held(b)) < size THEN b.wp + (k - Held(b))
            ELSE b.wp + (k - Held(b)) - size
    BY <1>1 DEF Cell
  <2>4. Held(a) <= size BY <1>3, HeldBounds, WriteFacts DEF a
  <2>5. k \in Nat /\ k < size
    <3>1. k \in 0 .. Held(a) - 1 BY DEF a
    <3> QED BY <1>2, <1>3, <2>4, <3>1
  <2>6. CASE b.circled BY <1>1, <1>2, <1>6, <2>1, <2>2, <2>3, <2>5, <2>6
  <2>7. CASE ~b.circled BY <1>1, <1>2, <1>6, <2>1, <2>2, <2>3, <2>5, <2>7
  <2> QED BY <2>6, <2>7
<1> QED BY <1>5, <1>6 DEF a

(* A write extends the numbering of what the buffer holds.                 *)
LEMMA WriteCells ==
  ASSUME NEW size \in Nat \ {0}, NEW b \in CircBufs(size), NEW s \in Snapshots(size),
         InOrder(b), WriteSeen(b, s), NEW count \in Nat, NEW n \in Nat, Numbered(b, n),
         \A k \in 0 .. WriteCount(s, count) - 1 :
           b.data[Cell(s, s.wp, k)] = n + Held(b) + 1 + k
  PROVE  Numbered(AfterWrite(b, s, count), n)
<1> DEFINE a == AfterWrite(b, s, count)
           m == WriteCount(s, count)
<1>1. /\ s.size = size /\ b.size = size /\ s.rp \in 0 .. size - 1 /\ s.wp \in 0 .. size - 1
      /\ b.rp \in 0 .. size - 1 /\ b.wp = s.wp /\ b.circled \in BOOLEAN /\ s.circled \in BOOLEAN
  BY DEF Snapshots, CircBufs, WriteSeen
<1>2. Held(b) \in 0 .. size BY HeldBounds
<1>3. Held(a) = Held(b) + m /\ m \in Nat BY WriteFacts, WriteCountFacts DEF WriteSeen
<1>4. a.rp = b.rp /\ a.size = size /\ a.data = b.data BY AfterWriteFields
<1> HIDE DEF a, m
<1> SUFFICES ASSUME NEW k \in 0 .. Held(a) - 1
             PROVE  a.data[Cell(a, a.rp, k)] = n + k + 1
  BY DEF Numbered, a
<1>5. /\ Cell(a, a.rp, k) = Cell(b, b.rp, k)
      /\ k >= Held(b) => Cell(s, s.wp, k - Held(b)) = Cell(b, b.rp, k)
  BY CellsAfterWrite DEF a
<1>6. CASE k < Held(b)
  <2>1. k \in 0 .. Held(b) - 1 BY <1>2, <1>6
  <2>2. b.data[Cell(b, b.rp, k)] = n + k + 1 BY <2>1 DEF Numbered
  <2> QED BY <1>4, <1>5, <2>2
<1>7. CASE ~(k < Held(b))
  <2>1. k - Held(b) \in 0 .. m - 1 BY <1>2, <1>3, <1>7
  <2>2. Cell(s, s.wp, k - Held(b)) = Cell(b, b.rp, k) BY <1>2, <1>5, <1>7
  <2>3. b.data[Cell(s, s.wp, k - Held(b))] = n + Held(b) + 1 + (k - Held(b))
    BY <2>1 DEF m
  <2> QED BY <1>2, <1>3, <1>4, <1>5, <2>2, <2>3
<1> QED BY <1>6, <1>7

-----------------------------------------------------------------------------
(* The bytes are held in the order of their numbers.                       *)
Ordered(b) ==
  \A i, j \in 0 .. Held(b) - 1 : i < j =>
    b.data[Cell(b, b.rp, i)] < b.data[Cell(b, b.rp, j)]

LEMMA HeldNumbers ==
  ASSUME NEW size \in Nat \ {0}, NEW b \in CircBufs(size), InOrder(b),
         NEW k \in 0 .. Held(b) - 1
  PROVE  b.data[Cell(b, b.rp, k)] \in Nat
<1>1. b.size = size /\ b.rp \in 0 .. size - 1 /\ b.data \in [0 .. size - 1 -> Nat]
  BY DEF CircBufs
<1>2. k \in 0 .. size - 1
  <2>1. Held(b) \in 0 .. size BY HeldBounds
  <2> QED BY <2>1
<1>3. Cell(b, b.rp, k) \in 0 .. size - 1 BY <1>1, <1>2, CellFacts
<1> QED BY <1>1, <1>3

(* A read moves the oldest bytes from the buffer to its caller.            *)
LEMMA ReadSplits ==
  ASSUME NEW size \in Nat \ {0}, NEW b \in CircBufs(size), NEW s \in Snapshots(size),
         InOrder(b), ReadSeen(b, s), NEW count \in Nat, Ordered(b)
  PROVE  LET a == AfterRead(b, s, count)
             out == CopyOut(b, s, ReadCount(s, count))
             n == ReadCount(s, count)
         IN  /\ Ordered(a)
             /\ \A i, j \in 1 .. n : out[i] = out[j] => i = j
             /\ HeldBytes(b) = HeldBytes(a) \cup {out[i] : i \in 1 .. n}
             /\ HeldBytes(a) \cap {out[i] : i \in 1 .. n} = {}
<1> DEFINE a == AfterRead(b, s, count)
           n == ReadCount(s, count)
           out == CopyOut(b, s, n)
           At(k) == b.data[Cell(b, b.rp, k)]
<1>1. /\ s.size = size /\ b.size = size /\ b.rp = s.rp /\ InOrder(s)
  BY DEF Snapshots, CircBufs, ReadSeen
<1>2. n \in Nat /\ n <= Held(b) /\ Held(a) = Held(b) - n /\ Held(b) \in Nat
  <2>1. n \in 0 .. count BY <1>1, ReadCountFacts
  <2>2. n <= Held(b) /\ Held(a) = Held(b) - n BY ReadFacts
  <2>3. Held(b) \in 0 .. size BY HeldBounds
  <2> QED BY <2>1, <2>2, <2>3
<1>3. a.data = b.data BY AfterReadFields
<1>4. \A k \in 0 .. Held(a) - 1 : Cell(a, a.rp, k) = Cell(b, b.rp, n + k) BY CellsAfterRead
<1>5. \A i \in 1 .. n : out[i] = At(i - 1)
  BY <1>1 DEF CopyOut, Cell
<1> HIDE DEF a, n, out
<1>6. \A k \in 0 .. Held(a) - 1 : a.data[Cell(a, a.rp, k)] = At(n + k)
  BY <1>3, <1>4
<1>7. \A i, j \in 0 .. Held(b) - 1 : i < j => At(i) < At(j) BY DEF Ordered
<1>8. \A k \in 0 .. Held(b) - 1 : At(k) \in Nat BY HeldNumbers
<1>9. HeldBytes(b) = {At(k) : k \in 0 .. Held(b) - 1} BY DEF HeldBytes
<1> HIDE DEF At
<1>10. Ordered(a)
  <2> SUFFICES ASSUME NEW i \in 0 .. Held(a) - 1, NEW j \in 0 .. Held(a) - 1, i < j
               PROVE  At(n + i) < At(n + j)
    BY <1>6 DEF Ordered
  <2>1. n + i \in 0 .. Held(b) - 1 /\ n + j \in 0 .. Held(b) - 1 /\ n + i < n + j BY <1>2
  <2> QED BY <1>7, <2>1
<1>11. \A i, j \in 0 .. Held(b) - 1 : At(i) = At(j) => i = j
  <2> SUFFICES ASSUME NEW i \in 0 .. Held(b) - 1, NEW j \in 0 .. Held(b) - 1, At(i) = At(j)
               PROVE  i = j
    OBVIOUS
  <2>1. ~(i < j) BY <1>7, <1>8
  <2>2. ~(j < i) BY <1>7, <1>8
  <2> QED BY <1>2, <2>1, <2>2
<1>12. HeldBytes(a) = {At(n + k) : k \in 0 .. Held(a) - 1} BY <1>6 DEF HeldBytes
<1>13. {out[i] : i \in 1 .. n} = {At(i - 1) : i \in 1 .. n} BY <1>5
<1>14. HeldBytes(b) = HeldBytes(a) \cup {out[i] : i \in 1 .. n}
  <2>1. ASSUME NEW k \in 0 .. Held(b) - 1
        PROVE  At(k) \in HeldBytes(a) \cup {out[i] : i \in 1 .. n}
    <3>1. CASE k < n
      <4>1. k + 1 \in 1 .. n /\ k = (k + 1) - 1 BY <1>2, <3>1
      <4> QED BY <1>13, <4>1
    <3>2. CASE ~(k < n)
      <4>1. k - n \in 0 .. Held(a) - 1 /\ k = n + (k - n) BY <1>2, <3>2
      <4> QED BY <1>12, <4>1
    <3> QED BY <3>1, <3>2
  <2>2. \A k \in 0 .. Held(a) - 1 : n + k \in 0 .. Held(b) - 1 BY <1>2
  <2>3. \A i \in 1 .. n : i - 1 \in 0 .. Held(b) - 1 BY <1>2
  <2>4. HeldBytes(a) \subseteq HeldBytes(b) BY <1>9, <1>12, <2>2
  <2>5. {out[i] : i \in 1 .. n} \subseteq HeldBytes(b) BY <1>9, <1>13, <2>3
  <2>6. HeldBytes(b) \subseteq HeldBytes(a) \cup {out[i] : i \in 1 .. n} BY <1>9, <2>1
  <2> QED BY <2>4, <2>5, <2>6
<1>15. HeldBytes(a) \cap {out[i] : i \in 1 .. n} = {}
  <2> SUFFICES ASSUME NEW k \in 0 .. Held(a) - 1, NEW i \in 1 .. n, At(n + k) = At(i - 1)
               PROVE  FALSE
    BY <1>12, <1>13
  <2>1. n + k \in 0 .. Held(b) - 1 /\ i - 1 \in 0 .. Held(b) - 1 /\ n + k # i - 1
    BY <1>2
  <2> QED BY <1>11, <2>1
<1>16. \A i, j \in 1 .. n : out[i] = out[j] => i = j
  <2> SUFFICES ASSUME NEW i \in 1 .. n, NEW j \in 1 .. n, At(i - 1) = At(j - 1)
               PROVE  i = j
    BY <1>5
  <2>1. i - 1 \in 0 .. Held(b) - 1 /\ j - 1 \in 0 .. Held(b) - 1 BY <1>2
  <2>2. i - 1 = j - 1 BY <1>11, <2>1
  <2> QED BY <1>2, <2>2
<1> QED BY <1>10, <1>14, <1>15, <1>16 DEF a, n, out

(* A write adds its bytes behind those that are held.                      *)
LEMMA WriteJoins ==
  ASSUME NEW size \in Nat \ {0}, NEW b \in CircBufs(size), NEW s \in Snapshots(size),
         InOrder(b), WriteSeen(b, s), NEW count \in Nat, Ordered(b), NEW first \in Nat,
         \A k \in 0 .. Held(b) - 1 : b.data[Cell(b, b.rp, k)] < first,
         \A k \in 0 .. WriteCount(s, count) - 1 : b.data[Cell(s, s.wp, k)] = first + k
  PROVE  LET a == AfterWrite(b, s, count)
         IN  /\ Ordered(a)
             /\ HeldBytes(a) = HeldBytes(b) \cup (first .. first + WriteCount(s, count) - 1)
<1> DEFINE a == AfterWrite(b, s, count)
           n == WriteCount(s, count)
           h == Held(b)
           At(k) == a.data[Cell(a, a.rp, k)]
<1>1. Held(a) = h + n /\ n \in Nat BY WriteFacts, WriteCountFacts DEF WriteSeen
<1>2. h \in Nat
  <2>1. h \in 0 .. size BY HeldBounds
  <2> QED BY <2>1
<1>3. a.data = b.data BY AfterWriteFields
<1>4. \A k \in 0 .. Held(a) - 1 :
        /\ Cell(a, a.rp, k) = Cell(b, b.rp, k)
        /\ k >= Held(b) => Cell(s, s.wp, k - Held(b)) = Cell(b, b.rp, k)
  BY CellsAfterWrite
<1> HIDE DEF a, n, h
<1>5. \A k \in 0 .. h - 1 :
        At(k) = b.data[Cell(b, b.rp, k)] /\ At(k) \in Nat /\ At(k) < first
  <2> SUFFICES ASSUME NEW k \in 0 .. h - 1
               PROVE  At(k) = b.data[Cell(b, b.rp, k)] /\ At(k) \in Nat /\ At(k) < first
    OBVIOUS
  <2>1. k \in 0 .. Held(a) - 1 BY <1>1, <1>2
  <2>2. At(k) = b.data[Cell(b, b.rp, k)] BY <1>3, <1>4, <2>1
  <2>3. b.data[Cell(b, b.rp, k)] \in Nat BY HeldNumbers DEF h
  <2>4. b.data[Cell(b, b.rp, k)] < first BY DEF h
  <2> QED BY <2>2, <2>3, <2>4
<1>6. \A k \in h .. h + n - 1 : At(k) = first + (k - h)
  <2> SUFFICES ASSUME NEW k \in h .. h + n - 1 PROVE At(k) = first + (k - h)
    OBVIOUS
  <2>1. k \in 0 .. Held(a) - 1 /\ k >= h /\ k - h \in 0 .. n - 1 BY <1>1, <1>2
  <2>2. Cell(a, a.rp, k) = Cell(s, s.wp, k - h) BY <1>4, <2>1 DEF h
  <2>3. b.data[Cell(s, s.wp, k - h)] = first + (k - h) BY <2>1 DEF n
  <2> QED BY <1>3, <2>2, <2>3
<1>7. Ordered(a)
  <2> SUFFICES ASSUME NEW i \in 0 .. Held(a) - 1, NEW j \in 0 .. Held(a) - 1, i < j
               PROVE  At(i) < At(j)
    BY DEF Ordered
  <2> HIDE DEF At
  <2>1. CASE j < h
    <3>1. At(i) = b.data[Cell(b, b.rp, i)] /\ At(j) = b.data[Cell(b, b.rp, j)]
      BY <1>1, <1>2, <1>5, <2>1
    <3>2. i \in 0 .. Held(b) - 1 /\ j \in 0 .. Held(b) - 1 BY <1>1, <1>2, <2>1 DEF h
    <3> QED BY <3>1, <3>2 DEF Ordered
  <2>2. CASE i < h /\ ~(j < h)
    <3>1. At(i) \in Nat /\ At(i) < first BY <1>1, <1>2, <1>5, <2>2
    <3>2. At(j) = first + (j - h) /\ j - h >= 0 BY <1>1, <1>2, <1>6, <2>2
    <3> QED BY <1>1, <1>2, <3>1, <3>2
  <2>3. CASE ~(i < h) /\ ~(j < h)
    <3>1. At(i) = first + (i - h) /\ At(j) = first + (j - h) BY <1>1, <1>2, <1>6, <2>3
    <3> QED BY <1>1, <1>2, <3>1
  <2>4. i < h \/ ~(j < h) BY <1>1, <1>2
  <2> QED BY <2>1, <2>2, <2>3, <2>4
<1>8. HeldBytes(a) = {At(k) : k \in 0 .. h + n - 1}
  <2>1. HeldBytes(a) = {At(k) : k \in 0 .. Held(a) - 1} BY DEF HeldBytes
  <2>2. 0 .. Held(a) - 1 = 0 .. h + n - 1 BY <1>1, <1>2
  <2> HIDE DEF At
  <2> QED BY <2>1, <2>2
<1>9. HeldBytes(b) = {At(k) : k \in 0 .. h - 1}
  <2>1. \A k \in 0 .. Held(b) - 1 : b.data[Cell(b, b.rp, k)] = At(k) BY <1>5 DEF h
  <2> HIDE DEF At
  <2> QED BY <2>1 DEF HeldBytes, h
<1> HIDE DEF At
<1>10. HeldBytes(a) = HeldBytes(b) \cup (first .. first + n - 1)
  <2>1. ASSUME NEW k \in 0 .. h + n - 1
        PROVE  At(k) \in HeldBytes(b) \cup (first .. first + n - 1)
    <3>1. CASE k < h
      <4>1. k \in 0 .. h - 1 BY <1>2, <3>1
      <4> QED BY <1>9, <4>1
    <3>2. CASE ~(k < h)
      <4>1. k \in h .. h + n - 1 BY <1>1, <1>2, <3>2
      <4>2. At(k) = first + (k - h) BY <1>6, <4>1
      <4>3. first + (k - h) \in first .. first + n - 1 BY <1>1, <1>2, <4>1
      <4> QED BY <4>2, <4>3
    <3> QED BY <3>1, <3>2
  <2>2. ASSUME NEW v \in first .. first + n - 1 PROVE v \in HeldBytes(a)
    <3>1. h + (v - first) \in h .. h + n - 1 /\ h + (v - first) \in 0 .. h + n - 1
      BY <1>1, <1>2
    <3>2. At(h + (v - first)) = first + ((h + (v - first)) - h) BY <1>6, <3>1
    <3>3. At(h + (v - first)) = v BY <1>1, <1>2, <3>2
    <3> QED BY <1>8, <3>1, <3>3
  <2>3. 0 .. h - 1 \subseteq 0 .. h + n - 1 BY <1>1, <1>2
  <2>4. HeldBytes(b) \subseteq HeldBytes(a) BY <1>8, <1>9, <2>3
  <2>5. HeldBytes(a) \subseteq HeldBytes(b) \cup (first .. first + n - 1) BY <1>8, <2>1
  <2> QED BY <2>2, <2>4, <2>5
<1> QED BY <1>7, <1>10 DEF a, n
=============================================================================
