---------------------------- MODULE AudioProofs ----------------------------
(***************************************************************************)
(* The ring holds what was written and reads it in order, whatever its     *)
(* size and however the producer's copy and the consumer's interleave; it  *)
(* keeps frames whole, and is the queue that Fifo specifies.               *)
(*                                                                         *)
(* The monitor, which takes its frames from such a queue, plays them       *)
(* unbroken, and none of those a flush has dropped, whatever the sizes of  *)
(* the queue, the chunk and the device and whatever the device does.       *)
(***************************************************************************)
EXTENDS RingBuffer, MonitorSink, SequenceTheorems, TLAPS

\* The mask keeps an index in the buffer.
LEMMA CellInBuffer == ASSUME NEW k \in Nat PROVE Cell(k) \in Cells
<1>1. Size \in Nat /\ Size > 0  BY RingAssumption
<1>2. k % Size \in 0..Size - 1  BY <1>1
<1> QED  BY <1>1, <1>2 DEF Cell, Cells

\* Two indices less than Size apart have different cells.
LEMMA CellsApart ==
    ASSUME NEW j \in Nat, NEW k \in Nat, j < k, k - j < Size
    PROVE  Cell(j) # Cell(k)
<1>1. Size \in Nat /\ Size > 0  BY RingAssumption
<1> DEFINE p == j \div Size
           q == k \div Size
<1>2. p \in Int /\ q \in Int  BY <1>1
<1>3. j = Size * p + Cell(j) /\ k = Size * q + Cell(k)  BY <1>1 DEF Cell
<1> HIDE DEF p, q
<1>4. ASSUME Cell(j) = Cell(k) PROVE FALSE
  <2>1. k - j = Size * (q - p)
    <3>1. Cell(j) \in Int  BY CellInBuffer, <1>1 DEF Cells
    <3>2. Size * (q - p) = Size * q - Size * p  BY <1>1, <1>2
    <3> QED  BY <1>1, <1>2, <1>3, <1>4, <3>1, <3>2
  <2>2. CASE q - p <= 0
    <3>1. Size * (q - p) <= 0  BY <1>1, <1>2, <2>2
    <3> QED  BY <2>1, <3>1
  <2>3. CASE q - p >= 1
    <3>1. Size * (q - p) >= Size  BY <1>1, <1>2, <2>3
    <3> QED  BY <1>1, <2>1, <3>1
  <2> QED  BY <1>2, <2>2, <2>3
<1> QED  BY <1>4

\* Rounding down to whole frames leaves at most what there was.
LEMMA WholeFits ==
    ASSUME NEW free \in Nat
    PROVE  Whole(free) \in Nat /\ Whole(free) <= free
<1>1. FrameItems \in Nat /\ FrameItems > 0  BY RingAssumption
<1>2. free % FrameItems \in Nat  BY <1>1
<1>3. free = FrameItems * (free \div FrameItems) + (free % FrameItems)  BY <1>1
<1>4. free \div FrameItems \in Nat  BY <1>1
<1>5. FrameItems * (free \div FrameItems) >= 0  BY <1>1, <1>4
<1> QED  BY <1>1, <1>2, <1>3, <1>4, <1>5 DEF Whole

\* The copy under way fits beside what the consumer has not read, and what it
\* has copied so far is there.
CopyFits ==
    /\ producer.done <= producer.count
    /\ writeAt + producer.count - readAt < Size
    /\ \A k \in readAt..writeAt + producer.done - 1 : buffer[Cell(k)] = k
    /\ producer.at = "idle" => producer.count = 0

\* The read under way starts at the index only the consumer moves, and stays
\* within what was published.
ReadFits ==
    /\ readAt <= writeAt
    /\ mark <= writeAt
    /\ Len(consumer.out) <= consumer.count
    /\ consumer.at = "idle" => consumer = IdleC
    /\ consumer.at = "copy" =>
         consumer.from = readAt /\ consumer.from + consumer.count <= writeAt

Inv == TypeOK /\ CopyFits /\ ReadFits /\ ReadsInOrder

LEMMA InitInv == Init => Inv
<1> SUFFICES ASSUME Init PROVE Inv  OBVIOUS
<1>1. Size \in Nat /\ Size >= 2  BY RingAssumption
<1>2. TypeOK  BY DEF Init, TypeOK, IdleP, IdleC, ProducerStates, ConsumerStates
<1>3. CopyFits  BY <1>1 DEF Init, CopyFits, IdleP
<1>4. ReadFits /\ ReadsInOrder  BY DEF Init, ReadFits, ReadsInOrder, IdleC
<1> QED  BY <1>2, <1>3, <1>4 DEF Inv

LEMMA ReserveKeeps ==
    ASSUME Inv, NEW n \in Nat, Reserve(n) PROVE Inv'
<1> DEFINE free == Size - (writeAt - readAt) - 1
           count == Lesser(n, Whole(free))
<1>1. free \in Nat
  BY RingAssumption DEF Inv, TypeOK, CopyFits, ReadFits, Reserve, ProducerStates
<1>2. count \in Nat /\ count <= n /\ count <= free
  <2> HIDE DEF free
  <2>1. Whole(free) \in Nat /\ Whole(free) <= free  BY <1>1, WholeFits
  <2> QED  BY <1>1, <2>1 DEF Lesser
<1>3. producer' = [at |-> "copy", count |-> count, done |-> 0, refused |-> n - count]
  BY DEF Reserve
<1>4. UNCHANGED <<buffer, readAt, writeAt, dropped, consumer, mark, taken>>  BY DEF Reserve
<1>5. producer.done = 0
  BY DEF Reserve, Inv, CopyFits, TypeOK, ProducerStates
<1>6. writeAt + count - readAt < Size
  BY <1>2, RingAssumption DEF Inv, TypeOK
<1> HIDE DEF free, count
<1>7. TypeOK'
  <2>1. producer' \in ProducerStates  BY <1>2, <1>3 DEF ProducerStates
  <2> QED  BY <1>4, <2>1 DEF Inv, TypeOK
<1>8. CopyFits'  BY <1>2, <1>3, <1>4, <1>5, <1>6 DEF Inv, CopyFits
<1>9. (ReadFits /\ ReadsInOrder)'  BY <1>4 DEF Inv, ReadFits, ReadsInOrder
<1> QED  BY <1>7, <1>8, <1>9 DEF Inv

LEMMA CopyInKeeps == ASSUME Inv, CopyIn PROVE Inv'
<1> DEFINE at == writeAt + producer.done
<1>1. /\ producer \in ProducerStates /\ writeAt \in Nat /\ readAt \in Nat
      /\ buffer \in [Cells -> Nat] /\ at \in Nat /\ Size \in Nat
  BY RingAssumption DEF Inv, TypeOK, ProducerStates
<1>2. /\ producer.at = "copy" /\ producer.done < producer.count
      /\ buffer' = [buffer EXCEPT ![Cell(at)] = at]
      /\ producer' = [producer EXCEPT !.done = @ + 1]
      /\ UNCHANGED <<readAt, writeAt, dropped, consumer, mark, taken>>
  BY DEF CopyIn
<1>3. /\ producer'.at = "copy" /\ producer'.count = producer.count
      /\ producer'.done = producer.done + 1 /\ producer' \in ProducerStates
  BY <1>1, <1>2 DEF ProducerStates
<1>4. Cell(at) \in Cells  BY <1>1, CellInBuffer
<1>5. TypeOK'
  <2>1. buffer' \in [Cells -> Nat]  BY <1>1, <1>2, <1>4
  <2> QED  BY <1>2, <1>3, <2>1 DEF Inv, TypeOK
<1>6. CopyFits'
  <2>1. ASSUME NEW k \in readAt..at PROVE buffer'[Cell(k)] = k
    <3>1. CASE k = at  BY <1>1, <1>2, <1>4, <3>1
    <3>2. CASE k < at
      <4>1. k \in Nat /\ at - k < Size
        BY <1>1, <1>2, <3>2 DEF Inv, CopyFits, ProducerStates
      <4>2. Cell(k) # Cell(at)  BY <1>1, <3>2, <4>1, CellsApart
      <4>3. Cell(k) \in Cells  BY <4>1, CellInBuffer
      <4>4. buffer[Cell(k)] = k
        BY <1>1, <3>2 DEF Inv, CopyFits, ProducerStates
      <4> QED  BY <1>1, <1>2, <4>2, <4>3, <4>4
    <3> QED  BY <1>1, <3>1, <3>2
  <2>2. writeAt' + producer'.done - 1 = at  BY <1>1, <1>2, <1>3 DEF ProducerStates
  <2>3. producer'.done <= producer'.count  BY <1>1, <1>2, <1>3 DEF ProducerStates
  <2> QED  BY <1>2, <1>3, <2>1, <2>2, <2>3 DEF Inv, CopyFits
<1>7. (ReadFits /\ ReadsInOrder)'  BY <1>2 DEF Inv, ReadFits, ReadsInOrder
<1> QED  BY <1>5, <1>6, <1>7 DEF Inv

LEMMA PublishKeeps == ASSUME Inv, Publish PROVE Inv'
<1>1. producer \in ProducerStates /\ producer.done = producer.count
  BY DEF Publish, Inv, TypeOK
<1>2. TypeOK'
  BY <1>1 DEF Publish, Inv, TypeOK, IdleP, ProducerStates
<1>3. CopyFits'
  BY <1>1 DEF Publish, Inv, TypeOK, CopyFits, IdleP, ProducerStates
<1>4. (ReadFits /\ ReadsInOrder)'
  BY <1>1 DEF Publish, Inv, TypeOK, ReadFits, ReadsInOrder, ProducerStates, ConsumerStates
<1> QED  BY <1>2, <1>3, <1>4 DEF Inv

LEMMA BeginReadKeeps ==
    ASSUME Inv, NEW n \in Nat, BeginRead(n) PROVE Inv'
<1>1. Lesser(n, writeAt - readAt) \in Nat /\ Lesser(n, writeAt - readAt) <= writeAt - readAt
  BY DEF Lesser, Inv, TypeOK, ReadFits
<1>2. TypeOK'
  BY <1>1 DEF BeginRead, Inv, TypeOK, ConsumerStates
<1>3. CopyFits'  BY DEF BeginRead, Inv, CopyFits
<1>4. (ReadFits /\ ReadsInOrder)'
  BY <1>1 DEF BeginRead, Inv, TypeOK, ReadFits, ReadsInOrder
<1> QED  BY <1>2, <1>3, <1>4 DEF Inv

LEMMA CopyOutKeeps == ASSUME Inv, CopyOut PROVE Inv'
<1> DEFINE done == Len(consumer.out)
           item == buffer[Cell(consumer.from + done)]
<1>1. /\ consumer \in ConsumerStates /\ consumer.out \in Seq(Nat) /\ done \in Nat
      /\ consumer.at = "copy" /\ done < consumer.count
      /\ consumer' = [consumer EXCEPT !.out = Append(consumer.out, item)]
      /\ UNCHANGED <<buffer, readAt, writeAt, dropped, producer, mark, taken>>
  BY DEF CopyOut, Inv, TypeOK, ConsumerStates
<1>2. item = consumer.from + done
  <2>1. /\ readAt \in Nat /\ writeAt \in Nat /\ producer.done \in Nat
        /\ consumer.from \in Nat /\ consumer.count \in Nat
    BY <1>1 DEF Inv, TypeOK, ProducerStates, ConsumerStates
  <2>2. consumer.from = readAt /\ consumer.from + consumer.count <= writeAt
    BY <1>1 DEF Inv, ReadFits
  <2>3. consumer.from + done \in readAt..writeAt + producer.done - 1
    <3> HIDE DEF done, item
    <3> QED  BY <1>1, <2>1, <2>2
  <2>4. \A k \in readAt..writeAt + producer.done - 1 : buffer[Cell(k)] = k
    BY DEF Inv, CopyFits
  <2> QED  BY <2>3, <2>4
<1>3. item \in Nat  BY <1>1, <1>2 DEF ConsumerStates
<1> HIDE DEF item
<1>4. /\ consumer' \in ConsumerStates /\ consumer'.out = Append(consumer.out, item)
      /\ consumer'.at = "copy" /\ consumer'.from = consumer.from
      /\ consumer'.count = consumer.count
  <2>1. Append(consumer.out, item) \in Seq(Nat)  BY <1>1, <1>3
  <2> DEFINE longer == Append(consumer.out, item)
  <2> HIDE DEF longer
  <2>2. longer \in Seq(Nat) /\ consumer' = [consumer EXCEPT !.out = longer]
    BY <1>1, <2>1 DEF longer
  <2>3. /\ consumer' \in ConsumerStates /\ consumer'.out = longer
        /\ consumer'.at = consumer.at /\ consumer'.from = consumer.from
        /\ consumer'.count = consumer.count
    <3>1. consumer \in ConsumerStates  BY <1>1
    <3> QED  BY ONLY <2>2, <3>1 DEF ConsumerStates
  <2> QED  BY <1>1, <2>3 DEF longer
<1>5. Len(consumer'.out) = done + 1  BY <1>1, <1>3, <1>4
<1>6. TypeOK'  BY <1>1, <1>4 DEF Inv, TypeOK
<1>7. CopyFits'  BY <1>1 DEF Inv, CopyFits
<1>8. ReadFits'  BY <1>1, <1>4, <1>5 DEF Inv, ReadFits, ConsumerStates
<1>9. ReadsInOrder'
  <2>1. SUFFICES ASSUME NEW i \in 1..done + 1
                 PROVE  Append(consumer.out, item)[i] = consumer.from + i - 1
    BY <1>4, <1>5 DEF ReadsInOrder
  <2>2. CASE i = done + 1
    <3>1. Append(consumer.out, item)[done + 1] = item  BY <1>1, <1>3
    <3> QED  BY <1>1, <1>2, <2>2, <3>1 DEF ConsumerStates
  <2>3. CASE i \in 1..done
    <3>1. Append(consumer.out, item)[i] = consumer.out[i]  BY <1>1, <1>3, <2>3
    <3> QED  BY <2>3, <3>1 DEF Inv, ReadsInOrder
  <2> QED  BY <1>1, <2>2, <2>3
<1> QED  BY <1>6, <1>7, <1>8, <1>9 DEF Inv

\* The consumer's index moves up to the mark or the end of its read, over
\* items it has copied or drops, and frees their cells to the producer.
LEMMA ReadIndexMoves ==
    ASSUME Inv, readAt' \in Nat, readAt <= readAt', readAt' <= writeAt, taken' \in Seq(Nat),
           consumer' = IdleC,
           UNCHANGED <<buffer, writeAt, dropped, producer, mark>>
    PROVE  Inv'
<1>1. TypeOK'  BY DEF Inv, TypeOK, IdleC, ConsumerStates
<1>2. CopyFits'  BY RingAssumption DEF Inv, TypeOK, CopyFits, ProducerStates
<1>3. (ReadFits /\ ReadsInOrder)'  BY DEF Inv, TypeOK, ReadFits, ReadsInOrder, IdleC
<1> QED  BY <1>1, <1>2, <1>3 DEF Inv

LEMMA NextKeeps == Inv /\ [Next]_vars => Inv'
<1> SUFFICES ASSUME Inv, [Next]_vars PROVE Inv'  OBVIOUS
<1>1. CASE UNCHANGED vars
  BY <1>1 DEF vars, Inv, TypeOK, CopyFits, ReadFits, ReadsInOrder
<1>2. ASSUME NEW n \in 1..MaxBatch, Reserve(n * FrameItems) PROVE Inv'
  <2>1. n * FrameItems \in Nat  BY RingAssumption
  <2> QED  BY <1>2, <2>1, ReserveKeeps
<1>3. CASE CopyIn  BY <1>3, CopyInKeeps
<1>4. CASE Publish  BY <1>4, PublishKeeps
<1>5. CASE TakeMark
  BY <1>5 DEF TakeMark, Inv, TypeOK, CopyFits, ReadFits, ReadsInOrder
<1>6. ASSUME NEW n \in 1..MaxBatch, BeginRead(n) PROVE Inv'
  BY <1>6, RingAssumption, BeginReadKeeps
<1>7. CASE CopyOut  BY <1>7, CopyOutKeeps
<1>8. CASE FinishRead
  <2>1. readAt' \in Nat /\ readAt <= readAt' /\ readAt' <= writeAt /\ taken' \in Seq(Nat)
    BY <1>8 DEF FinishRead, Inv, TypeOK, ReadFits, ConsumerStates
  <2> QED  BY <1>8, <2>1, ReadIndexMoves DEF FinishRead
<1>9. CASE DiscardTo
  <2>1. readAt' \in Nat /\ readAt <= readAt' /\ readAt' <= writeAt /\ taken' \in Seq(Nat)
    BY <1>9 DEF DiscardTo, Lesser, Inv, TypeOK
  <2>2. consumer' = IdleC  BY <1>9 DEF DiscardTo, Inv, ReadFits
  <2> QED  BY <1>9, <2>1, <2>2, ReadIndexMoves DEF DiscardTo
<1> QED  BY <1>1, <1>2, <1>3, <1>4, <1>5, <1>6, <1>7, <1>8, <1>9 DEF Next, Produce, Consume

LEMMA AlwaysInv == Spec => []Inv
<1> QED  BY InitInv, NextKeeps, PTL DEF Spec

\* The indices never pass each other nor lie further apart than the buffer, and
\* every cell between them holds the item written there: no copy in progress on
\* either thread touches a cell the other one is using.
THEOREM RingHoldsWhatWasWritten == Spec => []HoldsWhatWasWritten
<1>1. Inv => HoldsWhatWasWritten
  BY RingAssumption DEF Inv, TypeOK, CopyFits, ReadFits, HoldsWhatWasWritten, ProducerStates
<1> QED  BY <1>1, AlwaysInv, PTL

\* A read copies consecutive items, however far the producer gets meanwhile.
THEOREM RingReadsInOrder == Spec => []ReadsInOrder
<1>1. Inv => ReadsInOrder  BY DEF Inv
<1> QED  BY <1>1, AlwaysInv, PTL

\* The indices and the two threads' copies stay well typed.
THEOREM RingTypeCorrect == Spec => []TypeOK
<1>1. Inv => TypeOK  BY DEF Inv
<1> QED  BY <1>1, AlwaysInv, PTL
----------------------------------------------------------------------------
(* Whole frames.                                                           *)

IsWhole(n) == \E q \in Nat : n = FrameItems * q

\* Counting in frames is the same as having no remainder.
LEMMA WholeIsMultiple ==
    ASSUME NEW n \in Nat
    PROVE  n % FrameItems = 0 <=> IsWhole(n)
<1>1. FrameItems \in Nat /\ FrameItems > 0  BY RingAssumption
<1>2. /\ n \div FrameItems \in Nat /\ n % FrameItems \in 0..FrameItems - 1
      /\ n = FrameItems * (n \div FrameItems) + (n % FrameItems)
  BY <1>1
<1>3. ASSUME n % FrameItems = 0 PROVE IsWhole(n)
  BY <1>1, <1>2, <1>3 DEF IsWhole
<1>4. ASSUME NEW q \in Nat, n = FrameItems * q PROVE n % FrameItems = 0
  <2> DEFINE d == n \div FrameItems
             r == n % FrameItems
  <2>1. d \in Nat /\ r \in 0..FrameItems - 1 /\ n = FrameItems * d + r
    BY <1>2
  <2> HIDE DEF d, r
  <2>2. r = FrameItems * (q - d)
    <3>1. FrameItems * (q - d) = FrameItems * q - FrameItems * d  BY <1>1, <2>1
    <3> QED  BY <1>1, <1>4, <2>1, <3>1
  <2>3. CASE q - d >= 1
    <3>1. FrameItems * (q - d) >= FrameItems  BY <1>1, <2>1, <2>3
    <3> QED  BY <1>1, <2>1, <2>2, <3>1
  <2>4. CASE q - d <= -1
    <3>1. FrameItems * (q - d) <= -FrameItems  BY <1>1, <2>1, <2>4
    <3> QED  BY <1>1, <2>1, <2>2, <3>1
  <2>5. CASE q - d = 0
    <3>1. FrameItems * (q - d) = 0  BY <1>1, <2>5
    <3> QED  BY <2>2, <3>1 DEF r
  <2> QED  BY <2>1, <2>3, <2>4, <2>5
<1> QED  BY <1>3, <1>4 DEF IsWhole

LEMMA WholeSum ==
    ASSUME NEW a \in Nat, NEW b \in Nat, IsWhole(a), IsWhole(b)
    PROVE  IsWhole(a + b) /\ (b <= a => IsWhole(a - b))
<1>1. FrameItems \in Nat /\ FrameItems > 0  BY RingAssumption
<1>2. PICK p \in Nat, q \in Nat : a = FrameItems * p /\ b = FrameItems * q
  BY DEF IsWhole
<1>3. a + b = FrameItems * (p + q)  BY <1>1, <1>2
<1>4. a - b = FrameItems * (p - q)  BY <1>1, <1>2
<1>5. b <= a => p - q \in Nat
  <2>1. SUFFICES ASSUME b <= a, p - q <= -1 PROVE FALSE  BY <1>2
  <2>2. FrameItems * (p - q) <= -FrameItems  BY <1>1, <1>2, <2>1
  <2> QED  BY <1>1, <1>2, <1>4, <2>1, <2>2
<1> QED  BY <1>2, <1>3, <1>4, <1>5 DEF IsWhole

\* What a write copies and what it refuses are whole frames.
FramesInv ==
    /\ IsWhole(writeAt) /\ IsWhole(dropped)
    /\ IsWhole(producer.count) /\ IsWhole(producer.refused)

LEMMA ReserveWhole ==
    ASSUME Inv, FramesInv, NEW k \in Nat, Reserve(k * FrameItems) PROVE FramesInv'
<1> DEFINE n == k * FrameItems
           free == Size - (writeAt - readAt) - 1
           count == Lesser(n, Whole(free))
<1>1. FrameItems \in Nat /\ FrameItems > 0 /\ n \in Nat /\ IsWhole(n)
  BY RingAssumption DEF IsWhole
<1>2. free \in Nat
  BY RingAssumption DEF Inv, TypeOK, CopyFits, ReadFits, Reserve, ProducerStates
<1>3. producer' = [at |-> "copy", count |-> count, done |-> 0, refused |-> n - count]
      /\ UNCHANGED <<writeAt, dropped>>
  BY DEF Reserve
<1> HIDE DEF n, free
<1>4. Whole(free) \in Nat /\ IsWhole(Whole(free))
  <2>1. Whole(free) \in Nat  BY <1>2, WholeFits
  <2>2. free \div FrameItems \in Nat /\ free % FrameItems \in Nat
        /\ free = FrameItems * (free \div FrameItems) + (free % FrameItems)
    BY <1>1, <1>2
  <2>3. Whole(free) = FrameItems * (free \div FrameItems)
    BY <1>1, <1>2, <2>2 DEF Whole
  <2> QED  BY <2>1, <2>2, <2>3 DEF IsWhole
<1>5. count \in Nat /\ count <= n /\ IsWhole(count)
  BY <1>1, <1>4 DEF Lesser
<1> HIDE DEF count
<1>6. IsWhole(n - count)  BY <1>1, <1>5, WholeSum
<1> QED  BY <1>3, <1>5, <1>6 DEF FramesInv

LEMMA NextWhole == Inv /\ FramesInv /\ [Next]_vars => FramesInv'
<1> SUFFICES ASSUME Inv, FramesInv, [Next]_vars PROVE FramesInv'  OBVIOUS
<1>1. ASSUME NEW n \in 1..MaxBatch, Reserve(n * FrameItems) PROVE FramesInv'
  BY <1>1, RingAssumption, ReserveWhole
<1>2. CASE CopyIn
  BY <1>2 DEF CopyIn, FramesInv, Inv, TypeOK, ProducerStates
<1>3. CASE Publish
  <2>1. /\ writeAt \in Nat /\ dropped \in Nat
        /\ producer.count \in Nat /\ producer.refused \in Nat
    BY DEF Inv, TypeOK, ProducerStates
  <2>2. IsWhole(writeAt + producer.count)  BY <2>1, WholeSum DEF FramesInv
  <2>3. IsWhole(dropped + producer.refused)  BY <2>1, WholeSum DEF FramesInv
  <2>4. IsWhole(0)  BY RingAssumption DEF IsWhole
  <2> QED  BY <1>3, <2>2, <2>3, <2>4 DEF Publish, FramesInv, IdleP
<1>4. CASE UNCHANGED <<writeAt, dropped, producer>>
  BY <1>4 DEF FramesInv
<1> QED
  BY <1>1, <1>2, <1>3, <1>4
     DEF Next, Produce, Consume, TakeMark, BeginRead, CopyOut, FinishRead, DiscardTo, vars

\* Whatever is refused, the producer publishes and the ring drops whole frames.
THEOREM RingKeepsFramesWhole == Spec => []FramesWhole
<1>1. Init => FramesInv
  BY RingAssumption DEF Init, FramesInv, IsWhole, IdleP
<1>2. Inv /\ FramesInv => FramesWhole
  <2> SUFFICES ASSUME Inv, FramesInv PROVE FramesWhole  OBVIOUS
  <2>1. writeAt \in Nat /\ dropped \in Nat  BY DEF Inv, TypeOK
  <2> QED  BY <2>1, WholeIsMultiple DEF FramesInv, FramesWhole
<1> QED  BY <1>1, <1>2, NextWhole, AlwaysInv, PTL DEF Spec

----------------------------------------------------------------------------
(* The ring implements the queue.                                          *)

\* The numbers from r to w - 1, which is what the ring holds.
Span(r, w) == [i \in 1..w - r |-> r + i - 1]

LEMMA SpanSeq ==
    ASSUME NEW r \in Nat, NEW w \in Nat, r <= w
    PROVE  /\ Span(r, w) \in Seq(Nat) /\ Len(Span(r, w)) = w - r
           /\ \A i \in 1..w - r : Span(r, w)[i] = r + i - 1
<1>1. w - r \in Nat /\ \A i \in 1..w - r : r + i - 1 \in Nat  OBVIOUS
<1>2. Span(r, w) \in [1..w - r -> Nat]  BY <1>1 DEF Span
<1>3. Span(r, w) \in Seq(Nat)  BY <1>1, <1>2, SeqDef
<1>4. DOMAIN Span(r, w) = 1..w - r  BY DEF Span
<1>5. Len(Span(r, w)) = w - r
  <2>1. Len(Span(r, w)) \in Nat /\ DOMAIN Span(r, w) = 1..Len(Span(r, w))
    BY <1>3, LenProperties
  <2> HIDE DEF Span
  <2> QED  BY <1>1, <1>4, <2>1
<1> QED  BY <1>3, <1>5 DEF Span

LEMMA SpanGrows ==
    ASSUME NEW r \in Nat, NEW w \in Nat, r <= w, NEW k \in Nat
    PROVE  Span(r, w + k) = Span(r, w) \o [i \in 1..k |-> w + i - 1]
<1> DEFINE more == [i \in 1..k |-> w + i - 1]
           end == w + k
           n == w - r
<1>1. end \in Nat /\ w <= end /\ r <= end /\ end - w = k /\ end - r = n + k /\ n \in Nat
  OBVIOUS
<1>2. more = Span(w, end)
  BY <1>1 DEF Span
<1> HIDE DEF more, end
<1>3. /\ more \in Seq(Nat) /\ Len(more) = k /\ \A i \in 1..k : more[i] = w + i - 1
  <2>1. /\ Span(w, end) \in Seq(Nat) /\ Len(Span(w, end)) = end - w
        /\ \A i \in 1..end - w : Span(w, end)[i] = w + i - 1
    BY <1>1, SpanSeq
  <2> QED  BY <1>1, <1>2, <2>1
<1>4. /\ Span(r, w) \in Seq(Nat) /\ Len(Span(r, w)) = n
      /\ \A i \in 1..n : Span(r, w)[i] = r + i - 1
  BY SpanSeq
<1> HIDE DEF n
<1>5. /\ Span(r, end) \in Seq(Nat) /\ Len(Span(r, end)) = n + k
      /\ \A i \in 1..n + k : Span(r, end)[i] = r + i - 1
  <2>1. /\ Span(r, end) \in Seq(Nat) /\ Len(Span(r, end)) = end - r
        /\ \A i \in 1..end - r : Span(r, end)[i] = r + i - 1
    BY <1>1, SpanSeq
  <2> QED  BY <1>1, <2>1
<1> DEFINE one == Span(r, w)
           both == one \o more
<1> HIDE DEF one
<1>6. one \in Seq(Nat) /\ Len(one) = n /\ \A i \in 1..n : one[i] = r + i - 1
  BY <1>4 DEF one
<1>7. /\ both \in Seq(Nat) /\ Len(both) = n + k
      /\ \A i \in 1..n + k : both[i] = IF i <= n THEN one[i] ELSE more[i - n]
  BY <1>3, <1>6, ConcatProperties
<1> HIDE DEF both
<1>8. \A i \in 1..n + k : both[i] = r + i - 1
  <2> TAKE i \in 1..n + k
  <2>1. CASE i <= n
    <3>1. i \in 1..n  BY <1>1, <2>1
    <3> QED  BY <1>6, <1>7, <2>1, <3>1
  <2>2. CASE i > n
    <3>1. i - n \in 1..k /\ w + (i - n) - 1 = r + i - 1  BY <1>1, <2>2 DEF n
    <3>2. both[i] = more[i - n]  BY <1>1, <1>7, <2>2
    <3> QED  BY <1>3, <3>1, <3>2
  <2> QED  BY <1>1, <2>1, <2>2
<1>9. Span(r, end) = both
  <2>1. Len(Span(r, end)) = Len(both)  BY <1>5, <1>7
  <2>2. \A i \in 1..Len(Span(r, end)) : Span(r, end)[i] = both[i]  BY <1>5, <1>8
  <2> QED  BY <1>5, <1>7, <2>1, <2>2, SeqEqual
<1> QED  BY <1>9 DEF both, one, more, end

LEMMA SpanShrinks ==
    ASSUME NEW r \in Nat, NEW w \in Nat, NEW k \in Nat, r + k <= w
    PROVE  /\ Span(r, r + k) = SubSeq(Span(r, w), 1, k)
           /\ Span(r + k, w) = SubSeq(Span(r, w), k + 1, Len(Span(r, w)))
<1>1. /\ Span(r, w) \in Seq(Nat) /\ Len(Span(r, w)) = w - r
      /\ \A i \in 1..w - r : Span(r, w)[i] = r + i - 1
  BY SpanSeq
<1> DEFINE mid == r + k
<1>0. mid \in Nat /\ r <= mid /\ mid <= w /\ mid - r = k /\ w - mid = w - r - k
  OBVIOUS
<1> HIDE DEF mid
<1>2. /\ Span(r, mid) \in Seq(Nat) /\ Len(Span(r, mid)) = k
      /\ \A i \in 1..k : Span(r, mid)[i] = r + i - 1
  <2>1. /\ Span(r, mid) \in Seq(Nat) /\ Len(Span(r, mid)) = mid - r
        /\ \A i \in 1..mid - r : Span(r, mid)[i] = r + i - 1
    BY <1>0, SpanSeq
  <2> QED  BY <1>0, <2>1
<1>3. /\ Span(mid, w) \in Seq(Nat) /\ Len(Span(mid, w)) = w - r - k
      /\ \A i \in 1..w - r - k : Span(mid, w)[i] = mid + i - 1
  <2>1. /\ Span(mid, w) \in Seq(Nat) /\ Len(Span(mid, w)) = w - mid
        /\ \A i \in 1..w - mid : Span(mid, w)[i] = mid + i - 1
    BY <1>0, SpanSeq
  <2> QED  BY <1>0, <2>1
<1> DEFINE s == Span(r, w)
           first == SubSeq(s, 1, k)
           rest == SubSeq(s, k + 1, w - r)
<1>4. /\ first \in Seq(Nat) /\ Len(first) = k /\ \A i \in 1..k : first[i] = s[i]
  <2>1. \A i \in 1..k : s[i] \in Nat  BY <1>1
  <2> HIDE DEF s
  <2>2. /\ first \in Seq(Nat) /\ Len(first) = IF 1 <= k THEN k - 1 + 1 ELSE 0
        /\ \A i \in 1..k - 1 + 1 : first[i] = s[1 + i - 1]
    BY <2>1, SubSeqProperties
  <2> HIDE DEF first
  <2> QED  BY <2>2
<1>5. /\ rest \in Seq(Nat) /\ Len(rest) = w - r - k /\ \A i \in 1..w - r - k : rest[i] = s[k + i]
  <2>1. \A i \in k + 1..w - r : s[i] \in Nat  BY <1>1
  <2> HIDE DEF s
  <2>2. /\ rest \in Seq(Nat)
        /\ Len(rest) = IF k + 1 <= w - r THEN (w - r) - (k + 1) + 1 ELSE 0
        /\ \A i \in 1..(w - r) - (k + 1) + 1 : rest[i] = s[(k + 1) + i - 1]
    BY <2>1, SubSeqProperties
  <2> HIDE DEF rest
  <2> QED  BY <2>2
<1> HIDE DEF first, rest
<1>6. \A i \in 1..k : first[i] = Span(r, mid)[i]
  <2> TAKE i \in 1..k
  <2>1. i \in 1..w - r  OBVIOUS
  <2> QED  BY <1>1, <1>2, <1>4, <2>1
<1>7. \A i \in 1..w - r - k : rest[i] = Span(mid, w)[i]
  <2> TAKE i \in 1..w - r - k
  <2>1. k + i \in 1..w - r /\ r + (k + i) - 1 = mid + i - 1  BY DEF mid
  <2> QED  BY <1>1, <1>3, <1>5, <2>1
<1> HIDE DEF s
<1>8. Span(r, mid) = first
  <2>1. Len(first) = Len(Span(r, mid)) /\ \A i \in 1..Len(first) : first[i] = Span(r, mid)[i]
    BY <1>2, <1>4, <1>6
  <2> QED  BY <1>2, <1>4, <2>1, SeqEqual
<1>9. Span(mid, w) = rest
  <2>1. Len(rest) = Len(Span(mid, w)) /\ \A i \in 1..Len(rest) : rest[i] = Span(mid, w)[i]
    BY <1>3, <1>5, <1>7
  <2> QED  BY <1>3, <1>5, <2>1, SeqEqual
<1> QED  BY <1>1, <1>8, <1>9 DEF first, rest, s, mid

\* What the queue's state is mapped to.
Held == [i \in 1..(writeAt - readAt) |-> buffer[Cell(readAt + i - 1)]]

HoldsSpan ==
    /\ Held = Span(readAt, writeAt)
    /\ readAt \in Nat /\ writeAt \in Nat /\ readAt <= writeAt /\ writeAt - readAt < Size

LEMMA HeldIsSpan == Inv => HoldsSpan
<1> SUFFICES ASSUME Inv PROVE HoldsSpan  OBVIOUS
<1>1. readAt \in Nat /\ writeAt \in Nat /\ producer.count \in Nat /\ producer.done \in Nat
  BY DEF Inv, TypeOK, ProducerStates
<1>2. readAt <= writeAt  BY DEF Inv, ReadFits
<1>3. writeAt - readAt < Size  BY <1>1, RingAssumption DEF Inv, CopyFits
<1>4. \A i \in 1..writeAt - readAt : buffer[Cell(readAt + i - 1)] = readAt + i - 1
  <2> TAKE i \in 1..writeAt - readAt
  <2>1. readAt + i - 1 \in readAt..writeAt + producer.done - 1  BY <1>1, <1>2
  <2> QED  BY <2>1 DEF Inv, CopyFits
<1> QED  BY <1>1, <1>2, <1>3, <1>4 DEF HoldsSpan, Held, Span

\* A step of the queue, or none, in terms of what the ring holds.
QueueStep ==
    \/ \E k \in 0..Size - 1 :
          \/ /\ k % FrameItems = 0 /\ Len(Held) + k < Size
             /\ Held' = Held \o [i \in 1..k |-> writeAt + i - 1]
             /\ writeAt' = writeAt + k /\ taken' = taken
          \/ /\ k <= Len(Held)
             /\ taken' = SubSeq(Held, 1, k)
             /\ Held' = SubSeq(Held, k + 1, Len(Held)) /\ writeAt' = writeAt
          \/ /\ k <= Len(Held)
             /\ Held' = SubSeq(Held, k + 1, Len(Held))
             /\ writeAt' = writeAt /\ taken' = taken
    \/ Held' = Held /\ writeAt' = writeAt /\ taken' = taken

LEMMA QueueStepIs == QueueStep => [Queue!Next]_(Queue!vars)
BY DEF QueueStep, Held, Queue!Next, Queue!Put, Queue!Get, Queue!Drop, Queue!vars

LEMMA StepIsQueueStep ==
    ASSUME Inv, FramesInv, Inv', [Next]_vars PROVE QueueStep
<1> DEFINE now == Span(readAt, writeAt)
<1>1. /\ Held = now /\ Held' = Span(readAt', writeAt')
      /\ readAt \in Nat /\ writeAt \in Nat /\ readAt <= writeAt /\ writeAt - readAt < Size
      /\ readAt' \in Nat /\ writeAt' \in Nat /\ readAt' <= writeAt' /\ writeAt' - readAt' < Size
      /\ Size \in Nat
  <2>1. HoldsSpan  BY HeldIsSpan
  <2>2. HoldsSpan'  BY HeldIsSpan, PTL
  <2> QED  BY <2>1, <2>2, RingAssumption DEF HoldsSpan
<1>2. now \in Seq(Nat) /\ Len(now) = writeAt - readAt
  BY <1>1, SpanSeq
<1> HIDE DEF now
<1>3. CASE UNCHANGED <<readAt, writeAt, taken>>
  BY <1>1, <1>3 DEF QueueStep, now
<1>4. CASE Publish
  <2> DEFINE k == producer.count
  <2>1. /\ k \in Nat /\ writeAt' = writeAt + k /\ readAt' = readAt /\ taken' = taken
    BY <1>4 DEF Publish, Inv, TypeOK, ProducerStates
  <2>2. k % FrameItems = 0  BY <2>1, WholeIsMultiple DEF FramesInv
  <2> HIDE DEF k
  <2>3. k \in 0..Size - 1 /\ Len(Held) + k < Size  BY <1>1, <1>2, <2>1
  <2>4. Held' = Held \o [i \in 1..k |-> writeAt + i - 1]
    <3>1. readAt \in Nat /\ writeAt \in Nat /\ k \in Nat /\ readAt <= writeAt
      BY <1>1, <2>1
    <3>2. Span(readAt, writeAt + k) = Span(readAt, writeAt) \o [i \in 1..k |-> writeAt + i - 1]
      BY ONLY <3>1, SpanGrows
    <3>3. Held' = Span(readAt, writeAt + k) /\ Held = Span(readAt, writeAt)
      BY <1>1, <2>1 DEF now
    <3> QED  BY <3>2, <3>3, Zenon
  <2> QED  BY <2>1, <2>2, <2>3, <2>4 DEF QueueStep
<1>5. CASE FinishRead
  <2> DEFINE k == consumer.count
  <2>1. /\ k \in Nat /\ readAt' = readAt + k /\ writeAt' = writeAt /\ taken' = consumer.out
        /\ readAt + k <= writeAt /\ consumer.out \in Seq(Nat) /\ Len(consumer.out) = k
        /\ \A i \in 1..k : consumer.out[i] = readAt + i - 1
    BY <1>5 DEF FinishRead, Inv, TypeOK, ReadFits, ReadsInOrder, ConsumerStates
  <2> HIDE DEF k
  <2> DEFINE end == readAt + k
  <2>6. end \in Nat /\ readAt <= end /\ end - readAt = k  BY <1>1, <2>1
  <2> HIDE DEF end
  <2>2. /\ Span(readAt, end) \in Seq(Nat) /\ Len(Span(readAt, end)) = k
        /\ \A i \in 1..k : Span(readAt, end)[i] = readAt + i - 1
    <3>1. /\ Span(readAt, end) \in Seq(Nat) /\ Len(Span(readAt, end)) = end - readAt
          /\ \A i \in 1..end - readAt : Span(readAt, end)[i] = readAt + i - 1
      BY <1>1, <2>6, SpanSeq
    <3> QED  BY <2>6, <3>1
  <2>3. consumer.out = Span(readAt, readAt + k)
    <3>1. consumer.out = Span(readAt, end)  BY <2>1, <2>2, SeqEqual
    <3> QED  BY <3>1 DEF end
  <2>4. /\ Span(readAt, readAt + k) = SubSeq(now, 1, k)
        /\ Span(readAt + k, writeAt) = SubSeq(now, k + 1, Len(now))
    <3>1. readAt \in Nat /\ writeAt \in Nat /\ k \in Nat /\ readAt + k <= writeAt
      BY <1>1, <2>1
    <3> QED  BY ONLY <3>1, SpanShrinks DEF now
  <2>5. k \in 0..Size - 1 /\ k <= Len(now)  BY <1>1, <1>2, <2>1
  <2> QED  BY <1>1, <2>1, <2>3, <2>4, <2>5 DEF QueueStep
<1>6. CASE DiscardTo
  <2>1. writeAt' = writeAt /\ taken' = taken /\ readAt < readAt'
    BY <1>1, <1>6 DEF DiscardTo
  <2>2. PICK k \in Nat : readAt' = readAt + k /\ readAt + k <= writeAt
    <3>1. ASSUME NEW a \in Nat, NEW b \in Nat, a < b
          PROVE  \E k \in Nat : b = a + k
      <4>1. b - a \in Nat /\ b = a + (b - a)  BY <3>1
      <4> QED  BY <4>1
    <3>2. PICK k \in Nat : readAt' = readAt + k
      BY <1>1, <2>1, <3>1
    <3> QED  BY <1>1, <2>1, <3>2
  <2>3. Span(readAt + k, writeAt) = SubSeq(now, k + 1, Len(now))
    BY <1>1, <2>2, SpanShrinks DEF now
  <2>4. k \in 0..Size - 1 /\ k <= Len(now)  BY <1>1, <1>2, <2>2
  <2> QED  BY <1>1, <2>1, <2>2, <2>3, <2>4 DEF QueueStep
<1> QED
  BY <1>3, <1>4, <1>5, <1>6
     DEF Next, Produce, Consume, Reserve, CopyIn, TakeMark, BeginRead, CopyOut, vars

\* Every behaviour of the ring, step by step of its two threads, is one of the
\* queue: a write, a read or a flush takes effect at one store of an index.
THEOREM RingIsAQueue == Spec => IsAQueue
<1>1. Init => Queue!Init
  BY DEF Init, Queue!Init
<1>2. Init => FramesInv
  BY RingAssumption DEF Init, FramesInv, IsWhole, IdleP
<1>3. Inv /\ FramesInv /\ Inv' /\ [Next]_vars => [Queue!Next]_(Queue!vars)
  BY StepIsQueueStep, QueueStepIs
<1> QED
  BY <1>1, <1>2, <1>3, NextWhole, AlwaysInv, PTL DEF Spec, IsAQueue, Queue!Spec

----------------------------------------------------------------------------
(* The monitor.                                                            *)

LEMMA MonitorConstants ==
    /\ Period \in Nat \ {0} /\ DeviceSize \in Nat \ {0} /\ Capacity \in Nat
    /\ WriteRetries \in Nat /\ MaxFrames \in Nat /\ MaxFlushes \in Nat
BY MonitorAssumption

\* What the queue's operations do, item by item.
LEMMA PutItems ==
    ASSUME queue \in Seq(Nat), next \in Nat, NEW k \in Nat, Q!Put(k)
    PROVE  /\ queue' \in Seq(Nat) /\ Len(queue') = Len(queue) + k
           /\ \A i \in 1..Len(queue) : queue'[i] = queue[i]
           /\ \A i \in 1..k : queue'[Len(queue) + i] = next + i - 1
           /\ next' = next + k /\ batch' = batch
<1> DEFINE added == [i \in 1..k |-> next + i - 1]
<1>1. queue' = queue \o added /\ next' = next + k /\ batch' = batch
  BY DEF Q!Put
<1>2. added \in Seq(Nat) /\ Len(added) = k /\ \A i \in 1..k : added[i] = next + i - 1
  OBVIOUS
<1> HIDE DEF added
<1>3. /\ queue \o added \in Seq(Nat) /\ Len(queue \o added) = Len(queue) + k
      /\ \A i \in 1..Len(queue) + k :
            (queue \o added)[i] = IF i <= Len(queue) THEN queue[i] ELSE added[i - Len(queue)]
  BY <1>2, ConcatProperties
<1> QED
  BY <1>1, <1>2, <1>3

LEMMA DropItems ==
    ASSUME queue \in Seq(Nat), NEW k \in Nat, Q!Drop(k)
    PROVE  /\ k <= Len(queue)
           /\ queue' \in Seq(Nat) /\ Len(queue') = Len(queue) - k
           /\ \A i \in 1..Len(queue') : queue'[i] = queue[i + k]
           /\ next' = next /\ batch' = batch
BY DEF Q!Drop

LEMMA GetItems ==
    ASSUME queue \in Seq(Nat), NEW k \in Nat, Q!Get(k)
    PROVE  /\ k <= Len(queue)
           /\ queue' \in Seq(Nat) /\ Len(queue') = Len(queue) - k
           /\ \A i \in 1..Len(queue') : queue'[i] = queue[i + k]
           /\ batch' \in Seq(Nat) /\ Len(batch') = k
           /\ \A i \in 1..k : batch'[i] = queue[i]
           /\ next' = next
BY DEF Q!Get

LEMMA MonitorValues ==
    /\ Prepared \in Devices /\ Prepared.held = <<>> /\ Len(Prepared.held) <= DeviceSize
    /\ NoThread \in Renders /\ Begun \in Renders
    /\ NoThread.at = "none" /\ Begun.at = "top"
<1>1. Prepared \in Devices
  <2>1. <<>> \in Seq(Nat \cup {Silence})
    OBVIOUS
  <2> QED
    BY <2>1 DEF Prepared, Devices
<1>2. Prepared.held = <<>> /\ Len(Prepared.held) <= DeviceSize
  BY MonitorConstants DEF Prepared
<1>3. 0 \in 0..Period /\ 0 \in 0..WriteRetries + 1
  BY MonitorConstants
<1>4. NoThread \in Renders /\ Begun \in Renders /\ NoThread.at = "none" /\ Begun.at = "top"
  BY <1>3 DEF NoThread, Begun, Renders, Places
<1> QED
  BY <1>1, <1>2, <1>4

\* Where the render thread is goes with what else is true then.
AtItsPlace ==
    /\ RenderAt("write") => render.retries <= WriteRetries
    /\ ~running => render.at \in {"none", "ended"}
    /\ RenderAt("discard") => device.held = <<>>

\* The frames the device has still to take of the chunk in hand, and the number
\* of the first that is not in the device.
Left     == IF RenderAt("write") /\ render.done < Len(batch) THEN Len(batch) - render.done ELSE 0
Upcoming == next - Len(queue) - Left

\* The frames in s are in order, and the last up to the one before `after`.
Continuous(s, after) ==
    \A i \in DOMAIN s : s[i] # Silence =>
        /\ s[i] < after
        /\ \A j \in DOMAIN s : i < j /\ s[j] # Silence => s[i] < s[j]
        /\ \A f \in s[i]..after - 1 : \E j \in DOMAIN s : s[j] = f

QueueInOrder ==
    /\ Len(queue) <= next
    /\ \A i \in 1..Len(queue) : queue[i] = next - Len(queue) + i - 1

ChunkInOrder ==
    RenderAt("write") =>
        /\ Len(batch) + Len(queue) <= next
        /\ \A i \in 1..Len(batch) : batch[i] = next - Len(queue) - Len(batch) + i - 1

HeldInOrder == stop \/ Continuous(device.held, Upcoming)

StreamInv == MonitorTypeOK /\ AtItsPlace /\ QueueInOrder /\ ChunkInOrder /\ HeldInOrder

\* Nothing on its way is older than f.
Above(f) ==
    /\ \A i \in DOMAIN device.held : device.held[i] # Silence => device.held[i] >= f
    /\ RenderAt("write") => \A i \in render.done + 1..Len(batch) : batch[i] >= f
    /\ \A i \in 1..Len(queue) : queue[i] >= f

\* A flush that is waited for is asked, under way, or made; once the queue has
\* been dropped up to the mark nothing before it comes back.
Flushes == {"discard", "reset", "announce"}

FlushInv ==
    /\ floor <= next /\ flushMark <= next
    /\ Above(floor)
    /\ ~caller.late =>
         /\ flushing \/ render.at \in Flushes => caller.at = "polling" \/ ~running
         /\ flushing => render.at \notin Flushes
         /\ caller.at = "marked" => flushes = caller.done
         /\ caller.at = "polling" =>
              /\ flushing \/ render.at \in Flushes => flushes = caller.done
              /\ flushes # caller.done \/ render.at \in {"reset", "announce"} => Above(flushMark)

----------------------------------------------------------------------------
(* Types.                                                                  *)

\* The caller's own state, and the places it leaves.
LEMMA CallTypes == ASSUME MonitorTypeOK, AtItsPlace, Call PROVE MonitorTypeOK' /\ AtItsPlace'
<1>0. /\ queue \in Seq(Nat) /\ next \in Nat /\ next <= MaxFrames /\ caller \in Callers
      /\ flushMark \in Nat /\ flushes \in Nat /\ submitted \in Nat /\ floor \in Nat
  BY MonitorConstants DEF MonitorTypeOK
<1> USE DEF MonitorTypeOK, CallerAt, CallerGoes, CallerReturns, RenderAt, ring, shared, AtItsPlace
<1>1. ASSUME NEW k \in 1..Period, SubmitWrite(k)
      PROVE  MonitorTypeOK' /\ AtItsPlace'
  <2>1. k \in Nat /\ Q!Put(k)
    BY <1>1 DEF SubmitWrite
  <2>2. queue' \in Seq(Nat) /\ next' = next + k /\ batch' = batch
    BY <1>0, <2>1, PutItems
  <2>3. next' \in 0..MaxFrames
    <3>1. next + k <= MaxFrames
      BY <1>1 DEF SubmitWrite
    <3> QED
      BY <1>0, <2>1, <2>2, <3>1
  <2>4. caller' \in Callers
    BY <1>0, <1>1, <2>1 DEF SubmitWrite, Callers
  <2> QED
    BY <1>1, <2>2, <2>3, <2>4 DEF SubmitWrite
<1>2. CASE SubmitCount
  <2>1. caller.done \in Nat /\ submitted' = submitted + caller.done
    BY <1>0, <1>2 DEF SubmitCount, Callers
  <2>2. caller' \in Callers
    BY <1>0, <1>2 DEF SubmitCount, Callers
  <2>3. submitted' \in Nat
    BY <1>0, <2>1
  <2> QED
    BY <1>2, <2>2, <2>3 DEF SubmitCount
<1>3. CASE FlushMark
  <2>1. caller' \in Callers /\ flushMark' \in Nat
    BY <1>0, <1>3 DEF FlushMark, Callers
  <2> QED
    BY <1>3, <2>1 DEF FlushMark
<1>4. CASE FlushAsk
  <2>1. caller' \in Callers
    BY <1>0, <1>4 DEF FlushAsk, Callers
  <2> QED
    BY <1>4, <2>1 DEF FlushAsk
<1>5. CASE FlushReturns
  <2>1. caller' \in Callers /\ floor' \in Nat
    BY <1>0, <1>5 DEF FlushReturns, Callers
  <2> QED
    BY <1>5, <2>1 DEF FlushReturns
<1>6. CASE FlushGivesUp
  <2>1. caller' \in Callers
    BY <1>6 DEF FlushGivesUp, Callers, IdleCaller
  <2> QED
    BY <1>6, <2>1 DEF FlushGivesUp
<1>7. ASSUME NEW wanted \in BOOLEAN, SetPaused(wanted)
      PROVE  MonitorTypeOK' /\ AtItsPlace'
  BY <1>7 DEF SetPaused
<1>8. CASE StopAsk
  <2>1. caller' \in Callers
    BY <1>0, <1>8 DEF StopAsk, Callers
  <2> QED
    BY <1>8, <2>1 DEF StopAsk
<1>9. CASE Join
  <2>1. caller' \in Callers
    BY <1>0, <1>9 DEF Join, Callers
  <2> QED
    BY <1>9, <2>1, MonitorValues DEF Join, Cleared
<1>10. CASE Start
  <2>1. queue' \in Seq(Nat) /\ next' = next /\ batch' = batch
    BY <1>0, <1>10, DropItems DEF Start
  <2>2. caller' \in Callers
    BY <1>10 DEF Start, Callers, IdleCaller
  <2> QED
    BY <1>10, <2>1, <2>2, MonitorValues DEF Start
<1>11. CASE StartFails
  BY <1>11, MonitorValues DEF StartFails, Cleared
<1> QED
  BY <1>1, <1>2, <1>3, <1>4, <1>5, <1>6, <1>7, <1>8, <1>9, <1>10, <1>11 DEF Call

\* The render thread's locals, the device and the places it leaves.
LEMMA RenderTypes == ASSUME MonitorTypeOK, AtItsPlace, Render PROVE MonitorTypeOK' /\ AtItsPlace'
<1>0. /\ render \in Renders /\ device \in Devices /\ queue \in Seq(Nat) /\ batch \in Seq(Nat)
      /\ rendered \in Nat /\ flushes \in Nat /\ next \in 0..MaxFrames
      /\ Len(batch) \in Nat /\ Len(batch) <= Period /\ Len(device.held) <= DeviceSize
  BY DEF MonitorTypeOK
<1>1. ASSUME NEW place \in Places, RenderGoes(place)
      PROVE  render' \in Renders /\ render'.at = place /\ render'.retries = render.retries
  BY <1>0, <1>1 DEF RenderGoes, Renders
<1>2. ASSUME UNCHANGED <<ring, running, paused, flushMark, submitted, stop, caller, floor>>,
             flushing' \in BOOLEAN, flushes' \in Nat, rendered' \in Nat,
             render' \in Renders, device' \in Devices, Len(device'.held) <= DeviceSize
      PROVE  MonitorTypeOK'
  BY <1>2 DEF MonitorTypeOK, ring
<1>Zero. 0 \in 0..Period /\ 0 \in 0..WriteRetries + 1
  BY MonitorConstants
<1> USE DEF RenderAt, shared
<1>3. CASE Ends
  <2>1. render' \in Renders /\ render'.at = "ended"
    BY <1>3, MonitorValues DEF Ends, Renders, Places
  <2> QED
    BY <1>2, <1>3, <2>1, MonitorValues DEF Ends, AtItsPlace, MonitorTypeOK
<1>4. CASE Unchanged \/ Sleeps \/ NotAsked \/ WaitNothing
  <2>1. PICK place \in {"asked", "top", "wait"} : RenderGoes(place)
    BY <1>4 DEF Unchanged, Sleeps, NotAsked, WaitNothing
  <2>2. render' \in Renders /\ render'.at = place
    BY <1>1, <2>1 DEF Places
  <2>3. running /\ UNCHANGED <<ring, shared, device, caller, floor>>
    BY <1>4 DEF Unchanged, Sleeps, NotAsked, WaitNothing, AtItsPlace
  <2> QED
    BY <1>0, <1>2, <2>1, <2>2, <2>3 DEF AtItsPlace, MonitorTypeOK
<1>5. CASE PauseDevice \/ ResumeDevice
  <2>1. render' \in Renders /\ render'.at = "asked"
    BY <1>0, <1>5 DEF PauseDevice, ResumeDevice, Renders, Places
  <2>2. device' \in Devices /\ Len(device'.held) <= DeviceSize
    BY <1>0, <1>5, MonitorValues DEF PauseDevice, ResumeDevice, Devices
  <2>3. running /\ UNCHANGED <<ring, shared, caller, floor>>
    BY <1>5 DEF PauseDevice, ResumeDevice, AtItsPlace
  <2> QED
    BY <1>2, <2>1, <2>2, <2>3 DEF AtItsPlace, MonitorTypeOK
<1>6. CASE FlushTaken
  <2>1. render' \in Renders /\ render'.at = "discard"
    BY <1>1, <1>6 DEF FlushTaken, Places
  <2>2. running /\ flushing' \in BOOLEAN
    BY <1>6 DEF FlushTaken, AtItsPlace
  <2> QED
    BY <1>2, <1>6, <2>1, <2>2, MonitorValues DEF FlushTaken, AtItsPlace, MonitorTypeOK
<1>7. CASE Discard
  <2>1. PICK k \in 0..Len(queue) : Q!Drop(k)
    BY <1>7 DEF Discard
  <2>2. queue' \in Seq(Nat) /\ next' = next /\ batch' = batch
    BY <1>0, <2>1, DropItems
  <2>3. render' \in Renders /\ render'.at = "reset"
    BY <1>1, <1>7 DEF Discard, Places
  <2> QED
    BY <1>7, <2>2, <2>3 DEF Discard, MonitorTypeOK, AtItsPlace
<1>8. CASE ResetSubmitted
  <2>1. render' \in Renders /\ render'.at = "announce"
    BY <1>1, <1>8 DEF ResetSubmitted, Places
  <2> QED
    BY <1>8, <2>1 DEF ResetSubmitted, MonitorTypeOK, AtItsPlace, ring
<1>9. CASE Announce
  <2>1. render' \in Renders /\ render'.at \in {"top", "wait"}
    BY <1>0, <1>9 DEF Announce, Renders, Places
  <2>2. flushes' \in Nat
    BY <1>0, <1>9 DEF Announce
  <2> QED
    BY <1>2, <1>9, <2>1, <2>2 DEF Announce, MonitorTypeOK, AtItsPlace
<1>10. CASE WaitReady
  <2>1. PICK k \in 0..Period : Q!Get(k)
    BY <1>10 DEF WaitReady
  <2>2. /\ queue' \in Seq(Nat) /\ batch' \in Seq(Nat) /\ Len(batch') <= Period /\ next' = next
    BY <1>0, <2>1, GetItems, MonitorConstants
  <2>3. render' \in Renders /\ render'.at = "write" /\ render'.retries = 0
    BY <1>0, <1>10, <1>Zero DEF WaitReady, Renders, Places
  <2> QED
    BY <1>10, <2>2, <2>3, MonitorConstants DEF WaitReady, MonitorTypeOK, AtItsPlace
<1>11. CASE WaitFails
  <2>1. PICK place \in {"top", "lost"} : RenderGoes(place)
    BY <1>11 DEF WaitFails
  <2>2. render' \in Renders /\ render'.at = place
    BY <1>1, <2>1 DEF Places
  <2> QED
    BY <1>2, <1>11, <2>2, MonitorValues DEF WaitFails, MonitorTypeOK, AtItsPlace
<1>12. ASSUME NEW n \in 1..Period, WriteSome(n)
       PROVE  MonitorTypeOK' /\ AtItsPlace'
  <2> DEFINE some == [i \in 1..n |-> Chunk(render.done + i)]
  <2>1. render.done \in 0..Period /\ n \in Nat /\ n <= Period - render.done
    BY <1>0, <1>12 DEF WriteSome, Renders
  <2>2. render' \in Renders /\ render'.at = "write" /\ render'.retries = render.retries
    <3>1. render.done + n \in 0..Period
      BY <2>1, MonitorConstants
    <3> QED
      BY <1>0, <1>12, <3>1 DEF WriteSome, Writing, Renders
  <2>3. some \in Seq(Nat \cup {Silence}) /\ Len(some) = n
    <3>1. ASSUME NEW i \in 1..n
          PROVE  Chunk(render.done + i) \in Nat \cup {Silence}
      BY <1>0, <2>1, <3>1 DEF Chunk
    <3> QED
      BY <2>1, <3>1
  <2>4. device'.held = device.held \o some /\ device' = [held |-> device'.held, state |-> device'.state]
        /\ device'.state \in {"running", device.state}
    BY <1>12 DEF WriteSome
  <2> HIDE DEF some
  <2>5. device.held \o some \in Seq(Nat \cup {Silence}) /\ Len(device.held \o some) = Len(device.held) + n
    <3>1. device.held \in Seq(Nat \cup {Silence})
      BY <1>0 DEF Devices
    <3> QED
      BY <2>3, <3>1, ConcatProperties
  <2>6. device' \in Devices /\ Len(device'.held) <= DeviceSize
    BY <1>0, <1>12, <2>4, <2>5 DEF WriteSome, Frees, Devices
  <2> QED
    BY <1>2, <1>12, <2>2, <2>6 DEF WriteSome, Writing, MonitorTypeOK, AtItsPlace
<1>13. CASE WriteFails
  <2>1. render' \in Renders /\ (render'.at = "write" => render'.retries <= WriteRetries)
        /\ render'.at \in {"write", "written", "lost"}
    <3>1. render.retries \in 0..WriteRetries /\ render.retries + 1 \in 0..WriteRetries + 1
      BY <1>0, <1>13, MonitorConstants DEF WriteFails, Writing, AtItsPlace, Renders
    <3>2. render.retries # WriteRetries => render.retries + 1 <= WriteRetries
      BY <3>1, MonitorConstants
    <3> QED
      BY <1>0, <1>13, <3>1, <3>2 DEF WriteFails, RenderGoes, Renders, Places
  <2> QED
    BY <1>2, <1>13, <2>1, MonitorValues DEF WriteFails, Writing, MonitorTypeOK, AtItsPlace
<1>14. CASE Count
  <2>1. render' \in Renders /\ render'.at = "top"
    BY <1>0, <1>14, <1>Zero DEF Count, Renders, Places
  <2>2. rendered' \in Nat
    BY <1>0, <1>14 DEF Count
  <2> QED
    BY <1>2, <1>14, <2>1, <2>2 DEF Count, Written, MonitorTypeOK, AtItsPlace
<1>15. CASE Lost
  <2>1. render' \in Renders /\ render'.at = "ended"
    BY <1>15, MonitorValues DEF Lost, Renders, Places
  <2> QED
    BY <1>15, <2>1, MonitorValues DEF Lost, AtItsPlace, MonitorTypeOK, ring
<1> QED
  BY <1>3, <1>4, <1>5, <1>6, <1>7, <1>8, <1>9, <1>10, <1>11, <1>12, <1>13, <1>14, <1>15 DEF Render

LEMMA DeviceTypes ==
    ASSUME MonitorTypeOK, AtItsPlace, DevicePlays
    PROVE  /\ MonitorTypeOK' /\ AtItsPlace'
           /\ device'.held = IF device.held = <<>> THEN device.held ELSE Tail(device.held)
<1>1. device \in Devices /\ Len(device.held) <= DeviceSize
  BY DEF MonitorTypeOK
<1>2. CASE device.held = <<>>
  <2>1. device' \in Devices /\ device'.held = device.held
    BY <1>1, <1>2 DEF DevicePlays, Devices
  <2> QED
    BY <1>1, <1>2, <2>1 DEF DevicePlays, MonitorTypeOK, AtItsPlace, ring, shared, RenderAt
<1>3. CASE device.held # <<>>
  <2>1. Tail(device.held) \in Seq(Nat \cup {Silence}) /\ Len(Tail(device.held)) <= DeviceSize
    BY <1>1, <1>3, MonitorConstants DEF Devices
  <2>2. device' \in Devices /\ device'.held = Tail(device.held)
    BY <1>1, <1>3, <2>1 DEF DevicePlays, Devices
  <2> QED
    BY <1>3, <2>1, <2>2 DEF DevicePlays, MonitorTypeOK, AtItsPlace, ring, shared, RenderAt
<1> QED
  BY <1>2, <1>3

----------------------------------------------------------------------------
(* What is still to be heard is in order.                                  *)

\* The device plays its oldest frame.
LEMMA TailIsContinuous ==
    ASSUME NEW s \in Seq(Nat \cup {Silence}), s # <<>>, NEW after \in Nat, Continuous(s, after)
    PROVE  Continuous(Tail(s), after)
<1> DEFINE t == Tail(s)
<1>1. /\ t \in Seq(Nat \cup {Silence}) /\ Len(t) = Len(s) - 1 /\ Len(s) \in Nat
      /\ \A i \in 1..Len(t) : t[i] = s[i + 1]
  OBVIOUS
<1>d. DOMAIN t = 1..Len(t)
  BY <1>1
<1> SUFFICES Continuous(t, after)
  OBVIOUS
<1> HIDE DEF t
<1> SUFFICES ASSUME NEW i \in 1..Len(t), t[i] # Silence
             PROVE  /\ t[i] < after
                    /\ \A j \in 1..Len(t) : i < j /\ t[j] # Silence => t[i] < t[j]
                    /\ \A f \in t[i]..after - 1 : \E j \in 1..Len(t) : t[j] = f
  BY <1>d DEF Continuous
<1>2. i + 1 \in 1..Len(s) /\ t[i] = s[i + 1] /\ s[i + 1] \in Nat
  BY <1>1 DEF Silence
<1>3. /\ s[i + 1] < after
      /\ \A j \in 1..Len(s) : i + 1 < j /\ s[j] # Silence => s[i + 1] < s[j]
      /\ \A f \in s[i + 1]..after - 1 : \E j \in 1..Len(s) : s[j] = f
  BY <1>2 DEF Continuous
<1>4. ASSUME NEW j \in 1..Len(t), i < j, t[j] # Silence
      PROVE  t[i] < t[j]
  <2>1. j + 1 \in 1..Len(s) /\ i + 1 < j + 1 /\ t[j] = s[j + 1]
    BY <1>1, <1>4
  <2> QED
    BY <1>2, <1>3, <1>4, <2>1
<1>5. ASSUME NEW f \in t[i]..after - 1
      PROVE  \E j \in 1..Len(t) : t[j] = f
  <2>1. PICK j \in 1..Len(s) : s[j] = f
    BY <1>2, <1>3, <1>5
  <2>2. f # Silence /\ s[i + 1] <= f
    BY <1>2, <1>5 DEF Silence
  <2>3. j = 1 /\ 1 \in 1..Len(s) => s[1] < s[i + 1]
    BY <1>2, <2>1, <2>2 DEF Continuous
  <2>4. j # 1
    BY <1>2, <2>1, <2>2, <2>3
  <2>5. j - 1 \in 1..Len(t) /\ t[j - 1] = s[(j - 1) + 1]
    BY <1>1, <2>1, <2>4
  <2> QED
    BY <2>1, <2>5
<1> QED
  BY <1>2, <1>3, <1>4, <1>5

\* What is put behind it goes on with the next frame, then with silence.
LEMMA GoesOn ==
    ASSUME NEW s \in Seq(Nat \cup {Silence}), NEW after \in Nat, Continuous(s, after),
           NEW n \in Nat, NEW left \in Nat,
           NEW t \in Seq(Nat \cup {Silence}), Len(t) = Len(s) + n,
           \A i \in 1..Len(s) : t[i] = s[i],
           \A i \in 1..n : t[Len(s) + i] = IF i <= left THEN after + i - 1 ELSE Silence
    PROVE  Continuous(t, after + (IF n < left THEN n ELSE left))
<1> DEFINE len == Len(s)
           put == IF n < left THEN n ELSE left
<1>1. /\ len \in Nat /\ put \in Nat /\ put <= n /\ put <= left /\ after \in Nat /\ n \in Nat
      /\ \A i \in 1..n : i <= left <=> i <= put
  OBVIOUS
<1>2. \A i \in 1..len : i \in 1..len + n /\ t[i] = s[i]
  BY <1>1
<1>3. ASSUME NEW i \in len + 1..len + n
      PROVE  (i <= len + put => t[i] = after + (i - len) - 1) /\ (len + put < i => t[i] = Silence)
  <2>1. i - len \in 1..n /\ Len(s) + (i - len) = i
    BY <1>1, <1>3
  <2>2. t[i] = IF i - len <= left THEN after + (i - len) - 1 ELSE Silence
    BY <2>1
  <2>3. i - len <= left <=> i <= len + put
    BY <1>1, <2>1
  <2> HIDE DEF put
  <2> QED
    BY <1>1, <2>2, <2>3
<1>4. \A i \in 1..len + n : i \in 1..len \/ i \in len + 1..len + n
  BY <1>1
<1>5. \A i \in 1..len : s[i] # Silence =>
          /\ s[i] \in Nat /\ s[i] < after
          /\ \A j \in 1..len : i < j /\ s[j] # Silence => s[i] < s[j]
          /\ \A f \in s[i]..after - 1 : \E j \in 1..len : s[j] = f
  BY DEF Continuous
<1>6. ASSUME NEW f \in after..after + put - 1
      PROVE  \E j \in 1..len + n : t[j] = f
  <2>1. len + (f - after + 1) \in len + 1..len + n /\ len + (f - after + 1) <= len + put
    BY <1>1, <1>6
  <2>2. t[len + (f - after + 1)] = after + ((len + (f - after + 1)) - len) - 1
    BY <1>3, <2>1
  <2>3. t[len + (f - after + 1)] = f /\ len + (f - after + 1) \in 1..len + n
    BY <1>1, <1>6, <2>1, <2>2
  <2> QED
    BY <2>3
<1>d. DOMAIN t = 1..len + n
  OBVIOUS
<1> DEFINE end == after + put
<1> SUFFICES Continuous(t, end)
  OBVIOUS
<1>e. end = after + put
  OBVIOUS
<1> HIDE DEF len, put, end
<1> SUFFICES ASSUME NEW i \in 1..len + n, t[i] # Silence
             PROVE  /\ t[i] < end
                    /\ \A j \in 1..len + n : i < j /\ t[j] # Silence => t[i] < t[j]
                    /\ \A f \in t[i]..end - 1 : \E j \in 1..len + n : t[j] = f
  BY <1>d DEF Continuous
<1>7. CASE i \in 1..len
  <2>1. s[i] \in Nat /\ t[i] = s[i] /\ s[i] < after
    BY <1>2, <1>5, <1>7
  <2>2. ASSUME NEW j \in 1..len + n, i < j, t[j] # Silence
        PROVE  t[i] < t[j]
    <3>1. CASE j \in 1..len
      BY <1>2, <1>5, <1>7, <2>1, <2>2, <3>1
    <3>2. CASE j \in len + 1..len + n
      <4>1. t[j] = after + (j - len) - 1
        BY <1>1, <1>3, <2>2, <3>2
      <4> QED
        BY <1>1, <2>1, <3>2, <4>1
    <3> QED
      BY <1>4, <3>1, <3>2
  <2>3. ASSUME NEW f \in t[i]..end - 1
        PROVE  \E j \in 1..len + n : t[j] = f
    <3>1. f \in after..after + put - 1 \/ f \in s[i]..after - 1
      BY <1>1, <1>e, <2>1, <2>3
    <3>2. ASSUME f \in s[i]..after - 1
          PROVE  \E j \in 1..len + n : t[j] = f
      <4>1. PICK j \in 1..len : s[j] = f
        BY <1>5, <1>7, <2>1, <3>2 DEF Silence
      <4> QED
        BY <1>2, <4>1
    <3> QED
      BY <1>6, <3>1, <3>2
  <2> QED
    BY <1>1, <1>e, <2>1, <2>2, <2>3
<1>8. CASE i \in len + 1..len + n
  <2>1. i <= len + put /\ t[i] = after + (i - len) - 1
    BY <1>1, <1>3, <1>8
  <2>2. ASSUME NEW j \in 1..len + n, i < j, t[j] # Silence
        PROVE  t[i] < t[j]
    <3>1. j \in len + 1..len + n
      BY <1>1, <1>8, <2>2
    <3>2. t[j] = after + (j - len) - 1
      BY <1>1, <1>3, <2>2, <3>1
    <3> QED
      BY <1>1, <1>8, <2>1, <2>2, <3>1, <3>2
  <2>3. \A f \in t[i]..end - 1 : f \in after..after + put - 1
    BY <1>1, <1>e, <1>8, <2>1
  <2>4. t[i] < end
    BY <1>1, <1>e, <1>8, <2>1
  <2> QED
    BY <1>6, <2>2, <2>3, <2>4
<1> QED
  BY <1>4, <1>7, <1>8

LEMMA UpcomingValues ==
    ASSUME MonitorTypeOK, QueueInOrder, ChunkInOrder
    PROVE  /\ Left \in Nat /\ Upcoming \in Nat /\ Upcoming = next - Len(queue) - Left
           /\ Len(queue) \in Nat /\ next \in Nat /\ Len(queue) <= next
           /\ Len(batch) \in Nat /\ render.done \in 0..Period
<1>1. queue \in Seq(Nat) /\ batch \in Seq(Nat) /\ next \in Nat /\ render.done \in 0..Period
  BY MonitorConstants DEF MonitorTypeOK, Renders
<1>2. Left \in Nat /\ (RenderAt("write") => Left <= Len(batch)) /\ (~RenderAt("write") => Left = 0)
  BY <1>1, MonitorConstants DEF Left
<1> QED
  BY <1>1, <1>2 DEF Upcoming, QueueInOrder, ChunkInOrder

\* Most actions leave the queue, and take from the device all it holds or nothing.
LEMMA StreamStays ==
    ASSUME StreamInv, MonitorTypeOK', AtItsPlace', UNCHANGED ring,
           render'.at = "write" => render.at = "write",
           stop' \/ device'.held = <<>> \/ (stop' = stop /\ device'.held = device.held /\ (stop \/ Left' = Left))
    PROVE  StreamInv'
<1>1. QueueInOrder' /\ ChunkInOrder'
  BY DEF StreamInv, QueueInOrder, ChunkInOrder, RenderAt, ring
<1>2. CASE stop' \/ device'.held = <<>>
  BY <1>1, <1>2 DEF StreamInv, HeldInOrder, Continuous
<1>3. CASE stop' = stop /\ device'.held = device.held /\ (stop \/ Left' = Left)
  BY <1>1, <1>3 DEF StreamInv, HeldInOrder, Upcoming, ring
<1> QED
  BY <1>1, <1>2, <1>3

LEMMA CallKeepsStream ==
    ASSUME StreamInv, Call, MonitorTypeOK', AtItsPlace'
    PROVE  StreamInv'
<1>0. /\ MonitorTypeOK /\ QueueInOrder /\ ChunkInOrder /\ HeldInOrder
      /\ queue \in Seq(Nat) /\ next \in Nat /\ Len(queue) \in Nat /\ batch \in Seq(Nat) /\ Len(batch) \in Nat
  BY MonitorConstants DEF StreamInv, MonitorTypeOK
<1> USE DEF RenderAt, shared
<1>1. ASSUME NEW k \in 1..Period, SubmitWrite(k)
      PROVE  StreamInv'
  <2>1. k \in Nat /\ Q!Put(k) /\ UNCHANGED <<render, device, stop>>
    BY <1>1, MonitorConstants DEF SubmitWrite
  <2>2. /\ Len(queue') = Len(queue) + k /\ next' = next + k /\ batch' = batch
        /\ \A i \in 1..Len(queue) : queue'[i] = queue[i]
        /\ \A i \in 1..k : queue'[Len(queue) + i] = next + i - 1
    BY <1>0, <2>1, PutItems
  <2>3. next' - Len(queue') = next - Len(queue) /\ Left' = Left
    BY <1>0, <2>1, <2>2 DEF Left
  <2>4. QueueInOrder'
    <3>1. Len(queue) <= next
      BY <1>0 DEF QueueInOrder
    <3>2. ASSUME NEW i \in 1..Len(queue) + k
          PROVE  queue'[i] = next - Len(queue) + i - 1
      <4>1. CASE i \in 1..Len(queue)
        BY <1>0, <2>2, <4>1 DEF QueueInOrder
      <4>2. CASE i \notin 1..Len(queue)
        <5>1. i - Len(queue) \in 1..k /\ Len(queue) + (i - Len(queue)) = i
          BY <1>0, <2>1, <3>2, <4>2
        <5>2. queue'[i] = next + (i - Len(queue)) - 1
          BY <2>2, <5>1
        <5> QED
          BY <1>0, <5>1, <5>2
      <4> QED
        BY <4>1, <4>2
    <3> QED
      BY <1>0, <2>1, <2>2, <2>3, <3>1, <3>2 DEF QueueInOrder
  <2>5. ChunkInOrder'
    <3>1. ASSUME RenderAt("write")
          PROVE  /\ Len(batch) + Len(queue') <= next'
                 /\ \A i \in 1..Len(batch) : batch[i] = next' - Len(queue') - Len(batch) + i - 1
      BY <1>0, <2>1, <2>2, <2>3, <3>1 DEF ChunkInOrder
    <3> QED
      BY <2>1, <2>2, <3>1 DEF ChunkInOrder
  <2>6. HeldInOrder'
    BY <1>0, <2>1, <2>2, <2>3 DEF HeldInOrder, Upcoming
  <2> QED
    BY <2>4, <2>5, <2>6 DEF StreamInv
<1>2. CASE \/ SubmitCount \/ FlushMark \/ FlushAsk \/ FlushReturns \/ FlushGivesUp \/ StopAsk
           \/ \E wanted \in BOOLEAN : SetPaused(wanted)
  <2>1. UNCHANGED <<ring, render, device>> /\ (stop' \/ stop' = stop)
    BY <1>2 DEF SubmitCount, FlushMark, FlushAsk, FlushReturns, FlushGivesUp, SetPaused, StopAsk
  <2>2. Left' = Left
    BY <2>1 DEF Left, ring
  <2> QED
    BY <2>1, <2>2, StreamStays
<1>3. CASE Join \/ StartFails
  <2>1. UNCHANGED ring /\ render' = NoThread /\ device' = Prepared
    BY <1>3 DEF Join, StartFails
  <2> QED
    BY <2>1, MonitorValues, StreamStays
<1>4. CASE Start
  <2>1. Q!Drop(Len(queue)) /\ render' = Begun /\ device' = Prepared
    BY <1>4 DEF Start
  <2>2. Len(queue') = 0 /\ next' = next
    BY <1>0, <2>1, DropItems
  <2>3. QueueInOrder'
    BY <1>0, <2>2 DEF QueueInOrder
  <2>4. ChunkInOrder' /\ HeldInOrder'
    BY <2>1, MonitorValues DEF ChunkInOrder, HeldInOrder, Continuous
  <2> QED
    BY <2>3, <2>4 DEF StreamInv
<1> QED
  BY <1>1, <1>2, <1>3, <1>4 DEF Call

LEMMA RenderKeepsStream ==
    ASSUME StreamInv, Render, MonitorTypeOK', AtItsPlace'
    PROVE  StreamInv'
<1>0. /\ MonitorTypeOK /\ AtItsPlace /\ QueueInOrder /\ ChunkInOrder /\ HeldInOrder
      /\ queue \in Seq(Nat) /\ next \in Nat /\ Len(queue) \in Nat /\ batch \in Seq(Nat) /\ Len(batch) \in Nat
      /\ Len(batch) <= Period /\ Period \in Nat /\ render \in Renders /\ render.done \in 0..Period
      /\ device.held \in Seq(Nat \cup {Silence}) /\ device \in Devices
  <2>1. /\ MonitorTypeOK /\ AtItsPlace /\ QueueInOrder /\ ChunkInOrder /\ HeldInOrder
    BY DEF StreamInv
  <2>2. /\ queue \in Seq(Nat) /\ next \in 0..MaxFrames /\ batch \in Seq(Nat)
        /\ Len(batch) <= Period /\ render \in Renders /\ device \in Devices
    BY <2>1 DEF MonitorTypeOK
  <2>3. render.done \in 0..Period
    BY <2>2 DEF Renders
  <2>4. device.held \in Seq(Nat \cup {Silence})
    BY <2>2 DEF Devices
  <2> QED
    BY <2>1, <2>2, <2>3, <2>4, MonitorConstants
<1>p. Prepared.held = <<>> /\ NoThread.at = "none"
  BY MonitorValues
<1> USE DEF RenderAt, shared
<1>1. CASE Ends \/ FlushTaken \/ WaitFails \/ Lost
  <2>1. UNCHANGED ring /\ device' = Prepared /\ render'.at # "write"
    BY <1>0, <1>1 DEF Ends, FlushTaken, WaitFails, Lost, RenderGoes, Renders, NoThread
  <2> QED
    BY <1>p, <2>1, StreamStays
<1>2. CASE WriteFails
  <2>1. UNCHANGED ring /\ device' = Prepared /\ RenderAt("write")
    BY <1>2 DEF WriteFails, Writing
  <2> QED
    BY <1>p, <2>1, StreamStays
<1>3. CASE Unchanged \/ Sleeps \/ NotAsked \/ WaitNothing \/ ResetSubmitted \/ Announce
  <2>1. UNCHANGED <<ring, device, stop>> /\ ~RenderAt("write") /\ render'.at # "write"
    BY <1>0, <1>3 DEF Unchanged, Sleeps, NotAsked, WaitNothing, ResetSubmitted, Announce, RenderGoes, Renders
  <2>2. Left' = Left
    BY <2>1 DEF Left
  <2> QED
    BY <2>1, <2>2, StreamStays
<1>4. CASE PauseDevice \/ ResumeDevice
  <2>1. UNCHANGED <<ring, stop>> /\ RenderAt("top") /\ render'.at = "asked"
    <3>1. CASE PauseDevice
      BY <1>0, <3>1 DEF PauseDevice, Renders
    <3>2. CASE ResumeDevice
      BY <1>0, <3>2 DEF ResumeDevice, Renders
    <3> QED
      BY <1>4, <3>1, <3>2
  <2>2. device'.held = device.held \/ device'.held = <<>>
    BY <1>0, <1>4, <1>p DEF PauseDevice, ResumeDevice, Devices
  <2>3. Left' = Left
    BY <2>1 DEF Left
  <2> QED
    BY <2>1, <2>2, <2>3, StreamStays
<1>5. CASE Count
  <2>1. UNCHANGED <<ring, device, stop>> /\ render'.at = "top"
    BY <1>0, <1>5 DEF Count, Renders
  <2>2. stop \/ Left' = Left
    BY <1>0, <1>5, <2>1 DEF Count, Written, Left
  <2> QED
    BY <2>1, <2>2, StreamStays
<1>6. CASE Discard
  <2>1. PICK k \in 0..Len(queue) : Q!Drop(k)
    BY <1>6 DEF Discard
  <2>2. /\ k \in Nat /\ k <= Len(queue) /\ Len(queue') = Len(queue) - k /\ next' = next
        /\ \A i \in 1..Len(queue') : queue'[i] = queue[i + k]
    BY <1>0, <2>1, DropItems
  <2>3. device'.held = <<>> /\ render'.at # "write"
    BY <1>0, <1>6 DEF Discard, AtItsPlace, RenderGoes, Renders
  <2>4. QueueInOrder'
    <3>1. Len(queue) <= next /\ \A i \in 1..Len(queue) : queue[i] = next - Len(queue) + i - 1
      BY <1>0 DEF QueueInOrder
    <3>2. ASSUME NEW i \in 1..Len(queue')
          PROVE  queue'[i] = next' - Len(queue') + i - 1
      <4>1. i + k \in 1..Len(queue) /\ queue'[i] = queue[i + k]
        BY <1>0, <2>2, <3>2
      <4> QED
        BY <1>0, <2>2, <3>1, <3>2, <4>1
    <3> QED
      BY <1>0, <2>2, <3>1, <3>2 DEF QueueInOrder
  <2>5. ChunkInOrder' /\ HeldInOrder'
    BY <2>3 DEF ChunkInOrder, HeldInOrder, Continuous
  <2> QED
    BY <2>4, <2>5 DEF StreamInv
<1>7. CASE WaitReady
  <2>1. PICK k \in 0..Period : Q!Get(k)
    BY <1>7 DEF WaitReady
  <2>2. /\ k \in Nat /\ k <= Len(queue) /\ Len(queue') = Len(queue) - k /\ next' = next
        /\ \A i \in 1..Len(queue') : queue'[i] = queue[i + k]
        /\ Len(batch') = k /\ \A i \in 1..k : batch'[i] = queue[i]
    BY <1>0, <2>1, GetItems
  <2>3. /\ RenderAt("wait") /\ render'.at = "write" /\ render'.done = 0
        /\ UNCHANGED <<device, stop>>
    BY <1>0, <1>7 DEF WaitReady, Renders
  <2>4. Len(queue) <= next /\ \A i \in 1..Len(queue) : queue[i] = next - Len(queue) + i - 1
    BY <1>0 DEF QueueInOrder
  <2>5. QueueInOrder'
    <3>1. ASSUME NEW i \in 1..Len(queue')
          PROVE  queue'[i] = next' - Len(queue') + i - 1
      <4>1. i + k \in 1..Len(queue) /\ queue'[i] = queue[i + k]
        BY <1>0, <2>2, <3>1
      <4> QED
        BY <1>0, <2>2, <2>4, <3>1, <4>1
    <3> QED
      BY <1>0, <2>2, <2>4, <3>1 DEF QueueInOrder
  <2>6. ChunkInOrder'
    <3>1. Len(batch') + Len(queue') <= next'
      BY <1>0, <2>2, <2>4
    <3>2. ASSUME NEW i \in 1..Len(batch')
          PROVE  batch'[i] = next' - Len(queue') - Len(batch') + i - 1
      <4>1. i \in 1..Len(queue) /\ batch'[i] = queue[i]
        BY <1>0, <2>2, <3>2
      <4> QED
        BY <1>0, <2>2, <2>4, <3>2, <4>1
    <3> QED
      BY <3>1, <3>2 DEF ChunkInOrder
  <2>7. HeldInOrder'
    <3>1. Left = 0 /\ Left' = k
      BY <2>2, <2>3 DEF Left
    <3>2. Upcoming' = Upcoming
      BY <1>0, <2>2, <3>1 DEF Upcoming
    <3> QED
      BY <1>0, <2>3, <3>2 DEF HeldInOrder
  <2> QED
    BY <2>5, <2>6, <2>7 DEF StreamInv
<1>8. ASSUME NEW n \in 1..Period, WriteSome(n)
      PROVE  StreamInv'
  <2> DEFINE some == [i \in 1..n |-> Chunk(render.done + i)]
             put == IF n < Left THEN n ELSE Left
  <2>1. /\ n \in Nat /\ RenderAt("write") /\ ~stop /\ UNCHANGED <<ring, stop>>
        /\ device'.held = device.held \o some
        /\ render'.at = "write" /\ render'.done = render.done + n
    <3>1. n \in Nat /\ RenderAt("write") /\ ~stop /\ UNCHANGED <<ring, stop>>
      BY <1>0, <1>8 DEF WriteSome, Writing
    <3>2. device'.held = device.held \o some
      BY <1>8 DEF WriteSome
    <3>3. render' = [render EXCEPT !.done = @ + n]
      BY <1>8 DEF WriteSome
    <3>4. render'.at = "write" /\ render'.done = render.done + n
      BY <1>0, <3>1, <3>3 DEF Renders
    <3> QED
      BY <3>1, <3>2, <3>4
  <2>2. QueueInOrder' /\ ChunkInOrder'
    BY <1>0, <2>1 DEF QueueInOrder, ChunkInOrder, ring
  <2>3. /\ Left \in Nat /\ Upcoming \in Nat /\ Upcoming = next - Len(queue) - Left
        /\ Left = IF render.done < Len(batch) THEN Len(batch) - render.done ELSE 0
        /\ Len(queue) \in Nat /\ Len(batch) \in Nat /\ render.done \in Nat /\ next \in Nat /\ n \in Nat
    BY <1>0, <2>1, UpcomingValues DEF Left
  <2>4. ASSUME NEW i \in 1..n
        PROVE  /\ some[i] \in Nat \cup {Silence}
               /\ some[i] = IF i <= Left THEN Upcoming + i - 1 ELSE Silence
    <3>1. some[i] = Chunk(render.done + i) /\ i \in Nat /\ i >= 1
      BY <2>3
    <3>2. i <= Left <=> render.done + i <= Len(batch)
      BY <2>3, <3>1
    <3>3. CASE i <= Left
      <4>1. render.done + i \in 1..Len(batch)
        BY <2>3, <3>1, <3>2, <3>3
      <4>2. some[i] = batch[render.done + i]
        BY <3>1, <3>2, <3>3 DEF Chunk
      <4>3. batch[render.done + i] = next - Len(queue) - Len(batch) + (render.done + i) - 1
        BY <1>0, <2>1, <4>1 DEF ChunkInOrder
      <4>4. Left = Len(batch) - render.done
        BY <2>3, <3>1, <3>3
      <4>5. next - Len(queue) - Len(batch) + (render.done + i) - 1 = Upcoming + i - 1
        <5>1. Upcoming = next - Len(queue) - (Len(batch) - render.done)
          BY <2>3, <4>4
        <5>2. /\ Len(queue) \in Int /\ Len(batch) \in Int /\ render.done \in Int /\ next \in Int
              /\ i \in Int /\ Upcoming \in Int
          BY <2>3, <3>1
        <5> QED
          BY <5>1, <5>2
      <4>6. Upcoming + i - 1 \in Nat
        BY <2>3, <3>1
      <4> HIDE DEF some
      <4> QED
        BY <3>3, <4>2, <4>3, <4>5, <4>6
    <3>4. CASE ~(i <= Left)
      BY <3>1, <3>2, <3>4 DEF Chunk
    <3> QED
      BY <3>3, <3>4
  <2>5. some \in Seq(Nat \cup {Silence}) /\ Len(some) = n
    BY <2>1, <2>4
  <2> HIDE DEF some
  <2>6. /\ device'.held \in Seq(Nat \cup {Silence}) /\ Len(device'.held) = Len(device.held) + n
        /\ \A i \in 1..Len(device.held) : device'.held[i] = device.held[i]
        /\ \A i \in 1..n : device'.held[Len(device.held) + i] = some[i]
    <3>1. device.held \in Seq(Nat \cup {Silence}) /\ Len(device.held) \in Nat
      BY <1>0
    <3>2. /\ device.held \o some \in Seq(Nat \cup {Silence})
          /\ Len(device.held \o some) = Len(device.held) + n
          /\ \A i \in 1..Len(device.held) + n : (device.held \o some)[i] =
                IF i <= Len(device.held) THEN device.held[i] ELSE some[i - Len(device.held)]
      BY <2>5, <3>1, ConcatProperties
    <3>3. \A i \in 1..n : Len(device.held) + i \in 1..Len(device.held) + n
                          /\ ~(Len(device.held) + i <= Len(device.held))
                          /\ (Len(device.held) + i) - Len(device.held) = i
      BY <2>3, <3>1
    <3>4. \A i \in 1..Len(device.held) : i \in 1..Len(device.held) + n /\ i <= Len(device.held)
      BY <2>3, <3>1
    <3> QED
      BY <2>1, <3>2, <3>3, <3>4
  <2>7. Continuous(device.held, Upcoming)
    BY <1>0, <2>1 DEF HeldInOrder
  <2>8. Continuous(device'.held, Upcoming + put)
    <3>1. \A i \in 1..n : device'.held[Len(device.held) + i] = IF i <= Left THEN Upcoming + i - 1 ELSE Silence
      BY <2>4, <2>6
    <3>2. device.held \in Seq(Nat \cup {Silence})
      BY <1>0
    <3>3. n \in Nat /\ Left \in Nat /\ Upcoming \in Nat
      BY <2>3
    <3> QED
      BY <2>6, <2>7, <3>1, <3>2, <3>3, GoesOn
  <2>9. Upcoming' = Upcoming + put
    <3>1. Left' = IF render.done + n < Len(batch) THEN Len(batch) - (render.done + n) ELSE 0
      BY <2>1 DEF Left, ring
    <3>2. Left' = Left - put
      <4>1. CASE n < Left
        <5>1. put = n /\ Left = Len(batch) - render.done
          BY <2>3, <4>1
        <5> HIDE DEF put
        <5> QED
          BY <2>3, <3>1, <4>1, <5>1
      <4>2. CASE ~(n < Left)
        <5>1. put = Left
          BY <2>3, <4>2
        <5>2. ~(render.done + n < Len(batch))
          BY <2>3, <4>2
        <5>3. Left' = 0
          BY <3>1, <5>2
        <5> HIDE DEF put
        <5> QED
          BY <2>3, <5>1, <5>3
      <4> QED
        BY <4>1, <4>2
    <3>3. put \in Nat
      BY <2>1, <2>3
    <3>4. Upcoming' = next - Len(queue) - Left'
      BY <2>1 DEF Upcoming, ring
    <3> HIDE DEF put
    <3> QED
      BY <2>3, <3>2, <3>3, <3>4
  <2> QED
    BY <2>2, <2>8, <2>9 DEF StreamInv, HeldInOrder
<1> QED
  BY <1>1, <1>2, <1>3, <1>4, <1>5, <1>6, <1>7, <1>8 DEF Render

LEMMA MonitorStep == StreamInv /\ [MonitorNext]_monitorVars => StreamInv'
<1> SUFFICES ASSUME StreamInv, [MonitorNext]_monitorVars
             PROVE  StreamInv'
  OBVIOUS
<1>0. MonitorTypeOK /\ AtItsPlace
  BY DEF StreamInv
<1>1. CASE Call
  BY <1>0, <1>1, CallTypes, CallKeepsStream
<1>2. CASE Render
  BY <1>0, <1>2, RenderTypes, RenderKeepsStream
<1>3. CASE DevicePlays
  <2>1. /\ MonitorTypeOK' /\ AtItsPlace'
        /\ device'.held = IF device.held = <<>> THEN device.held ELSE Tail(device.held)
    BY <1>0, <1>3, DeviceTypes
  <2>2. UNCHANGED <<ring, render, stop>>
    BY <1>3 DEF DevicePlays, shared
  <2>3. Left' = Left /\ Upcoming' = Upcoming
    BY <2>2 DEF Left, Upcoming, RenderAt, ring
  <2>4. CASE device.held = <<>>
    BY <2>1, <2>2, <2>3, <2>4, StreamStays
  <2>5. CASE device.held # <<>>
    <3>1. device.held \in Seq(Nat \cup {Silence}) /\ Upcoming \in Nat /\ QueueInOrder /\ ChunkInOrder
      BY <1>0, UpcomingValues DEF StreamInv, MonitorTypeOK, Devices
    <3>2. stop \/ Continuous(Tail(device.held), Upcoming)
      BY <2>5, <3>1, TailIsContinuous DEF StreamInv, HeldInOrder
    <3>3. HeldInOrder'
      BY <2>1, <2>2, <2>3, <2>5, <3>2 DEF HeldInOrder
    <3> QED
      BY <2>1, <2>2, <3>1, <3>3 DEF StreamInv, QueueInOrder, ChunkInOrder, RenderAt, ring
  <2> QED
    BY <2>4, <2>5
<1>4. CASE UNCHANGED monitorVars
  BY <1>4 DEF monitorVars, ring, shared, StreamInv, MonitorTypeOK, AtItsPlace, QueueInOrder,
              ChunkInOrder, HeldInOrder, Upcoming, Left, RenderAt
<1> QED
  BY <1>1, <1>2, <1>3, <1>4 DEF MonitorNext

LEMMA MonitorStarts == MonitorInit => StreamInv
<1> SUFFICES ASSUME MonitorInit
             PROVE  StreamInv
  OBVIOUS
<1>1. queue = <<>> /\ next = 0 /\ batch = <<>>
  BY DEF MonitorInit, Q!Init
<1>2. caller \in Callers
  BY DEF MonitorInit, IdleCaller, Callers
<1>3. MonitorTypeOK
  <2>1. queue \in Seq(Nat) /\ next \in 0..MaxFrames /\ batch \in Seq(Nat) /\ Len(batch) <= Period
    BY <1>1, MonitorConstants
  <2> QED
    BY <1>2, <2>1, MonitorValues DEF MonitorInit, MonitorTypeOK
<1>4. render = NoThread /\ device = Prepared
  BY DEF MonitorInit
<1>5. AtItsPlace /\ ChunkInOrder
  BY <1>4, MonitorValues DEF AtItsPlace, ChunkInOrder, RenderAt
<1>6. QueueInOrder /\ HeldInOrder
  BY <1>1, <1>4, MonitorValues DEF QueueInOrder, HeldInOrder, Continuous
<1> QED
  BY <1>3, <1>5, <1>6 DEF StreamInv

----------------------------------------------------------------------------
(* What a flush has dropped does not come back.                            *)

\* Most actions leave the queue, and take from the device what is oldest, or
\* all, or nothing.
LEMMA AboveStays ==
    ASSUME device.held \in Seq(Nat \cup {Silence}), UNCHANGED ring, render.done \in Nat, render'.done \in Nat,
           render'.at = "write" => render.at = "write" /\ render'.done >= render.done,
           \/ device'.held = <<>>
           \/ device'.held = device.held
           \/ device.held # <<>> /\ device'.held = Tail(device.held),
           NEW f \in Nat, Above(f)
    PROVE  Above(f)'
<1>1. \A i \in DOMAIN device'.held : device'.held[i] # Silence => device'.held[i] >= f
  <2>1. CASE device'.held = <<>> \/ device'.held = device.held
    BY <2>1 DEF Above
  <2>2. CASE device.held # <<>> /\ device'.held = Tail(device.held)
    <3>1. /\ DOMAIN Tail(device.held) = 1..Len(device.held) - 1
          /\ \A i \in 1..Len(device.held) - 1 : Tail(device.held)[i] = device.held[i + 1]
      BY <2>2
    <3>2. \A i \in 1..Len(device.held) - 1 : i + 1 \in DOMAIN device.held
      BY <2>2
    <3> QED
      BY <2>2, <3>1, <3>2 DEF Above
  <2> QED
    BY <2>1, <2>2
<1>2. render'.at = "write" => \A i \in render'.done + 1..Len(batch) : batch[i] >= f
  <2>1. SUFFICES ASSUME render'.at = "write", NEW i \in render'.done + 1..Len(batch)
                 PROVE  batch[i] >= f
    OBVIOUS
  <2>2. i \in render.done + 1..Len(batch)
    BY <2>1
  <2> QED
    BY <2>1, <2>2 DEF Above, RenderAt
<1> QED
  BY <1>1, <1>2 DEF Above, RenderAt, ring

LEMMA FlushTypes ==
    ASSUME MonitorTypeOK
    PROVE  /\ queue \in Seq(Nat) /\ Len(queue) \in Nat /\ batch \in Seq(Nat) /\ Len(batch) \in Nat
           /\ next \in Nat /\ floor \in Nat /\ flushMark \in Nat /\ flushes \in Nat
           /\ device.held \in Seq(Nat \cup {Silence}) /\ device \in Devices
           /\ render \in Renders /\ render.done \in 0..Period /\ render.done \in Nat
           /\ caller \in Callers /\ caller.done \in Nat /\ caller.late \in BOOLEAN
           /\ flushing \in BOOLEAN /\ running \in BOOLEAN
<1>1. /\ queue \in Seq(Nat) /\ batch \in Seq(Nat) /\ next \in 0..MaxFrames /\ floor \in Nat
      /\ flushMark \in Nat /\ flushes \in Nat /\ flushing \in BOOLEAN /\ running \in BOOLEAN
      /\ device \in Devices /\ render \in Renders /\ caller \in Callers
  BY DEF MonitorTypeOK
<1>2. device.held \in Seq(Nat \cup {Silence})
  BY <1>1 DEF Devices
<1>3. render.done \in 0..Period
  BY <1>1 DEF Renders
<1>4. caller.done \in Nat /\ caller.late \in BOOLEAN
  BY <1>1 DEF Callers
<1> QED
  BY <1>1, <1>2, <1>3, <1>4, MonitorConstants

LEMMA CallKeepsFlushes ==
    ASSUME StreamInv, FlushInv, Call, MonitorTypeOK'
    PROVE  FlushInv'
<1>0. /\ queue \in Seq(Nat) /\ Len(queue) \in Nat /\ next \in Nat /\ floor \in Nat /\ flushMark \in Nat
      /\ device.held \in Seq(Nat \cup {Silence}) /\ render.done \in Nat /\ caller \in Callers
      /\ AtItsPlace
  BY FlushTypes DEF StreamInv
<1>1. ASSUME NEW k \in 1..Period, SubmitWrite(k)
      PROVE  FlushInv'
  <2>1. k \in Nat /\ Q!Put(k) /\ UNCHANGED <<shared, render, device, floor>> /\ CallerAt("idle") /\ running
    BY <1>1, MonitorConstants DEF SubmitWrite
  <2>2. caller'.at = "count" /\ caller'.late = caller.late
    BY <1>0, <1>1 DEF SubmitWrite, Callers
  <2>3. /\ Len(queue') = Len(queue) + k /\ next' = next + k /\ batch' = batch
        /\ \A i \in 1..Len(queue) : queue'[i] = queue[i]
        /\ \A i \in 1..k : queue'[Len(queue) + i] = next + i - 1
    BY <1>0, <2>1, PutItems
  <2>4. ASSUME Above(floor)
        PROVE  \A i \in 1..Len(queue') : queue'[i] >= floor
    <3>1. SUFFICES ASSUME NEW i \in 1..Len(queue) + k
                   PROVE  queue'[i] >= floor
      BY <2>3
    <3>2. CASE i \in 1..Len(queue)
      BY <2>3, <2>4, <3>2 DEF Above
    <3>3. CASE i \notin 1..Len(queue)
      <4>1. i - Len(queue) \in 1..k /\ Len(queue) + (i - Len(queue)) = i
        BY <1>0, <2>1, <3>3
      <4>2. queue'[i] = next + (i - Len(queue)) - 1
        BY <2>3, <4>1
      <4>3. floor <= next
        BY DEF FlushInv
      <4> QED
        BY <1>0, <4>1, <4>2, <4>3
    <3> QED
      BY <3>2, <3>3
  <2>5. Above(floor)'
    BY <2>1, <2>3, <2>4 DEF FlushInv, Above, RenderAt
  <2>6. floor' <= next' /\ flushMark' <= next'
    BY <1>0, <2>1, <2>3 DEF FlushInv, shared
  <2>7. ~caller.late => ~flushing /\ render.at \notin Flushes
    BY <2>1 DEF FlushInv, CallerAt
  <2> QED
    BY <2>1, <2>2, <2>5, <2>6, <2>7 DEF FlushInv, shared
<1>2. CASE SubmitCount
  <2>1. /\ UNCHANGED <<ring, render, device, running, flushing, flushMark, flushes, floor>> /\ caller.at = "count"
        /\ caller'.at = "idle" /\ caller'.late = caller.late
    BY <1>0, <1>2 DEF SubmitCount, CallerAt, CallerReturns, Callers
  <2>2. UNCHANGED next
    BY <2>1 DEF ring
  <2>3. Above(floor)'
    BY <2>1 DEF Above, RenderAt, ring, FlushInv
  <2> QED
    BY <2>1, <2>2, <2>3 DEF FlushInv
<1>3. CASE FlushMark
  <2>1. /\ UNCHANGED <<ring, render, device, running, flushing, flushes, floor>>
        /\ caller.at = "idle" /\ running /\ flushMark' = next
        /\ caller'.at = "marked" /\ caller'.late = caller.late /\ caller'.done = flushes
    BY <1>0, <1>3 DEF FlushMark, CallerAt, Callers
  <2>2. UNCHANGED next
    BY <2>1 DEF ring
  <2>3. Above(floor)'
    BY <2>1 DEF Above, RenderAt, ring, FlushInv
  <2> QED
    BY <1>0, <2>1, <2>2, <2>3 DEF FlushInv
<1>4. CASE FlushAsk
  <2>1. /\ UNCHANGED <<ring, render, device, running, flushMark, flushes, floor>>
        /\ caller.at = "marked" /\ flushing' = TRUE
        /\ caller'.at = "polling" /\ caller'.late = caller.late /\ caller'.done = caller.done
    BY <1>0, <1>4 DEF FlushAsk, CallerAt, CallerGoes, Callers
  <2>2. UNCHANGED next
    BY <2>1 DEF ring
  <2>3. Above(floor)'
    BY <2>1 DEF Above, RenderAt, ring, FlushInv
  <2>4. ~caller.late => render.at \notin Flushes
    BY <1>0, <2>1 DEF FlushInv, AtItsPlace, Flushes
  <2>5. ~caller.late => flushes = caller.done
    BY <2>1 DEF FlushInv
  <2> QED
    BY <2>1, <2>2, <2>3, <2>4, <2>5 DEF FlushInv, Flushes
<1>5. CASE FlushReturns
  <2>1. /\ UNCHANGED <<ring, render, device, running, flushing, flushMark, flushes>>
        /\ caller.at = "polling" /\ (flushes # caller.done \/ ~running)
        /\ floor' = IF flushes # caller.done /\ ~caller.late THEN flushMark ELSE floor
        /\ caller'.at = "idle" /\ caller'.late = caller.late
    BY <1>0, <1>5 DEF FlushReturns, CallerAt, CallerReturns, Callers, shared
  <2>2. UNCHANGED next
    BY <2>1 DEF ring
  <2>3. CASE flushes # caller.done /\ ~caller.late
    <3>1. Above(flushMark) /\ ~flushing /\ render.at \notin Flushes
      BY <2>1, <2>3 DEF FlushInv
    <3>2. floor' = flushMark /\ floor' <= next'
      BY <2>1, <2>2, <2>3 DEF FlushInv
    <3>3. Above(floor)'
      BY <2>1, <3>1, <3>2 DEF Above, RenderAt, ring
    <3> QED
      BY <2>1, <2>2, <3>1, <3>2, <3>3 DEF FlushInv
  <2>4. CASE ~(flushes # caller.done /\ ~caller.late)
    <3>1. floor' = floor /\ (caller.late \/ ~running)
      BY <2>1, <2>4
    <3>2. Above(floor)'
      BY <2>1, <3>1 DEF Above, RenderAt, ring, FlushInv
    <3> QED
      BY <2>1, <2>2, <3>1, <3>2 DEF FlushInv
  <2> QED
    BY <2>3, <2>4
<1>6. CASE FlushGivesUp
  <2>1. UNCHANGED <<ring, shared, render, device, floor>> /\ caller'.late
    BY <1>6 DEF FlushGivesUp, IdleCaller
  <2>2. UNCHANGED <<next, flushMark>>
    BY <2>1 DEF ring, shared
  <2>3. Above(floor)'
    BY <2>1 DEF Above, RenderAt, ring, FlushInv
  <2> QED
    BY <2>1, <2>2, <2>3 DEF FlushInv
<1>7. CASE \E wanted \in BOOLEAN : SetPaused(wanted)
  <2>1. UNCHANGED <<ring, render, device, running, flushing, flushMark, flushes, floor, caller>>
    BY <1>7 DEF SetPaused
  <2>2. UNCHANGED next
    BY <2>1 DEF ring
  <2>3. Above(floor)' /\ (Above(flushMark) => Above(flushMark)')
    BY <2>1 DEF Above, RenderAt, ring, FlushInv
  <2> QED
    BY <2>1, <2>2, <2>3 DEF FlushInv
<1>8. CASE StopAsk
  <2>1. /\ UNCHANGED <<ring, render, device, running, flushing, flushMark, flushes, floor>> /\ caller.at = "idle"
        /\ caller'.at = "joining" /\ caller'.late = caller.late
    BY <1>0, <1>8 DEF StopAsk, CallerAt, CallerGoes, Callers
  <2>2. UNCHANGED next
    BY <2>1 DEF ring
  <2>3. Above(floor)'
    BY <2>1 DEF Above, RenderAt, ring, FlushInv
  <2> QED
    BY <2>1, <2>2, <2>3 DEF FlushInv
<1>9. CASE Join \/ StartFails
  <2>1. /\ UNCHANGED <<ring, flushMark, floor>> /\ flushing' = FALSE
        /\ render' = NoThread /\ device' = Prepared /\ caller'.at = "idle"
    BY <1>0, <1>9 DEF Join, StartFails, Cleared, CallerReturns, CallerAt, Callers
  <2>2. UNCHANGED next
    BY <2>1 DEF ring
  <2>3. render'.at = "none" /\ device'.held = <<>>
    BY <2>1, MonitorValues
  <2>4. Above(floor)'
    BY <2>1, <2>3 DEF Above, RenderAt, ring, FlushInv
  <2> QED
    BY <2>1, <2>2, <2>3, <2>4 DEF FlushInv, Flushes
<1>10. CASE Start
  <2>1. /\ UNCHANGED <<flushMark, floor>> /\ flushing' = FALSE /\ Q!Drop(Len(queue))
        /\ render' = Begun /\ device' = Prepared /\ caller'.at = "idle"
    BY <1>0, <1>10 DEF Start, IdleCaller
  <2>2. next' = next /\ Len(queue') = 0
    BY <1>0, <2>1, DropItems
  <2>3. render'.at = "top" /\ device'.held = <<>>
    BY <2>1, MonitorValues
  <2>4. Above(floor)'
    BY <2>2, <2>3 DEF Above, RenderAt
  <2> QED
    BY <2>1, <2>2, <2>3, <2>4 DEF FlushInv, Flushes
<1> QED
  BY <1>1, <1>2, <1>3, <1>4, <1>5, <1>6, <1>7, <1>8, <1>9, <1>10 DEF Call

LEMMA RenderKeepsFlushes ==
    ASSUME StreamInv, FlushInv, Render, MonitorTypeOK'
    PROVE  FlushInv'
<1>0. /\ queue \in Seq(Nat) /\ Len(queue) \in Nat /\ batch \in Seq(Nat) /\ Len(batch) \in Nat
      /\ next \in Nat /\ floor \in Nat /\ flushMark \in Nat /\ flushes \in Nat
      /\ device.held \in Seq(Nat \cup {Silence}) /\ device \in Devices
      /\ render \in Renders /\ render.done \in 0..Period /\ render.done \in Nat
      /\ caller \in Callers /\ caller.done \in Nat /\ flushing \in BOOLEAN
      /\ AtItsPlace
  BY FlushTypes DEF StreamInv
<1>1. Prepared.held = <<>> /\ NoThread.at = "none" /\ NoThread.done = 0
  BY MonitorValues DEF NoThread
<1>2. render' \in Renders /\ render'.done \in Nat
  BY MonitorConstants DEF MonitorTypeOK, Renders
<1>3. /\ floor <= next /\ flushMark <= next /\ Above(floor)
      /\ ~caller.late =>
           /\ flushing \/ render.at \in Flushes => caller.at = "polling" \/ ~running
           /\ flushing => render.at \notin Flushes
           /\ caller.at = "marked" => flushes = caller.done
           /\ caller.at = "polling" =>
                /\ flushing \/ render.at \in Flushes => flushes = caller.done
                /\ flushes # caller.done \/ render.at \in {"reset", "announce"} => Above(flushMark)
  BY DEF FlushInv
<1>4. ASSUME UNCHANGED <<ring, floor, flushMark>>,
             render'.at = "write" => render.at = "write" /\ render'.done >= render.done,
             device'.held = <<>> \/ device'.held = device.held
      PROVE  Above(floor)' /\ (Above(flushMark) => Above(flushMark)')
  <2>1. \A f \in Nat : Above(f) => Above(f)'
    BY <1>0, <1>2, <1>4, AboveStays
  <2> QED
    BY <1>0, <1>3, <1>4, <2>1 DEF Above
\* The thread goes on to a place where it flushes nothing.
<1>5. ASSUME UNCHANGED <<next, flushing, flushMark, flushes, floor, caller>>,
             running' = running \/ ~running',
             Above(floor)', Above(flushMark) => Above(flushMark)',
             render'.at \notin Flushes
      PROVE  FlushInv'
  BY <1>3, <1>5 DEF FlushInv, Flushes
<1> USE DEF RenderAt
<1>6. CASE Ends \/ WaitFails \/ Lost
  <2>1. /\ UNCHANGED <<ring, flushing, flushMark, flushes, floor, caller>> /\ device' = Prepared
        /\ (running' = running \/ ~running') /\ render'.at \in {"ended", "top", "lost"}
    BY <1>0, <1>6 DEF Ends, WaitFails, Lost, RenderGoes, Renders, NoThread, shared
  <2> QED
    BY <1>1, <1>4, <1>5, <2>1 DEF ring, Flushes
<1>7. CASE Unchanged \/ Sleeps \/ NotAsked \/ WaitNothing
  <2>1. /\ UNCHANGED <<ring, flushing, flushMark, flushes, floor, caller, device, running>>
        /\ render'.at \in {"asked", "top", "wait"}
    BY <1>0, <1>7 DEF Unchanged, Sleeps, NotAsked, WaitNothing, RenderGoes, Renders, shared
  <2> QED
    BY <1>4, <1>5, <2>1 DEF ring, Flushes
<1>8. CASE PauseDevice \/ ResumeDevice
  <2>1. /\ UNCHANGED <<ring, flushing, flushMark, flushes, floor, caller, running>> /\ render'.at = "asked"
    <3>1. CASE PauseDevice
      BY <1>0, <3>1 DEF PauseDevice, Renders, shared
    <3>2. CASE ResumeDevice
      BY <1>0, <3>2 DEF ResumeDevice, Renders, shared
    <3> QED
      BY <1>8, <3>1, <3>2
  <2>2. device'.held = device.held \/ device'.held = <<>>
    BY <1>0, <1>1, <1>8 DEF PauseDevice, ResumeDevice, Devices
  <2> QED
    BY <1>4, <1>5, <2>1, <2>2 DEF ring, Flushes
<1>9. CASE WriteFails
  <2>1. UNCHANGED <<ring, flushing, flushMark, flushes, floor, caller, running>> /\ device' = Prepared
    BY <1>9 DEF WriteFails, shared
  <2>2. /\ render.at = "write" /\ render'.done = render.done
        /\ render'.at \in {"written", "write", "lost"}
    BY <1>0, <1>9 DEF WriteFails, Writing, RenderGoes, Renders
  <2> QED
    BY <1>0, <1>1, <1>4, <1>5, <2>1, <2>2 DEF ring, Flushes
<1>10. CASE Count
  <2>1. UNCHANGED <<ring, flushing, flushMark, flushes, floor, caller, running, device>> /\ render'.at = "top"
    BY <1>0, <1>10 DEF Count, Renders
  <2> QED
    BY <1>4, <1>5, <2>1 DEF ring, Flushes
<1>11. CASE FlushTaken
  <2>1. /\ UNCHANGED <<ring, flushMark, flushes, floor, caller, running>> /\ device' = Prepared
        /\ render'.at = "discard" /\ flushing /\ flushing' = FALSE
    BY <1>0, <1>11 DEF FlushTaken, RenderGoes, Renders
  <2>2. Above(floor)' /\ UNCHANGED next
    BY <1>1, <1>4, <2>1 DEF ring
  <2> QED
    BY <1>3, <2>1, <2>2 DEF FlushInv, Flushes
<1>12. CASE ResetSubmitted
  <2>1. /\ UNCHANGED <<ring, flushing, flushMark, flushes, floor, caller, running, device>>
        /\ render.at = "reset" /\ render'.at = "announce"
    BY <1>0, <1>12 DEF ResetSubmitted, RenderGoes, Renders
  <2>2. Above(floor)' /\ (Above(flushMark) => Above(flushMark)') /\ UNCHANGED next
    BY <1>4, <2>1 DEF ring
  <2> QED
    BY <1>3, <2>1, <2>2 DEF FlushInv, Flushes
<1>13. CASE Announce
  <2>1. /\ UNCHANGED <<ring, flushing, flushMark, floor, caller, running, device>>
        /\ render.at = "announce" /\ render'.at \in {"top", "wait"} /\ flushes' = flushes + 1
    BY <1>0, <1>13 DEF Announce, Renders
  <2>2. Above(floor)' /\ (Above(flushMark) => Above(flushMark)') /\ UNCHANGED next
    BY <1>4, <2>1 DEF ring
  <2>3. ~caller.late => caller.at = "polling" /\ ~flushing /\ Above(flushMark)
    BY <1>0, <1>3, <2>1 DEF Flushes, AtItsPlace
  <2> QED
    BY <1>3, <2>1, <2>2, <2>3 DEF FlushInv, Flushes
<1>14. CASE Discard
  <2>1. PICK k \in 0..Len(queue) : /\ \A i \in 1..Len(queue) : i <= k <=> queue[i] < flushMark
                                   /\ Q!Drop(k)
    BY <1>14 DEF Discard
  <2>2. /\ k \in Nat /\ k <= Len(queue) /\ Len(queue') = Len(queue) - k /\ next' = next /\ batch' = batch
        /\ \A i \in 1..Len(queue') : queue'[i] = queue[i + k]
    BY <1>0, <2>1, DropItems
  <2>3. /\ UNCHANGED <<flushing, flushMark, flushes, floor, caller, running, device>>
        /\ render.at = "discard" /\ render'.at = "reset" /\ device.held = <<>>
    BY <1>0, <1>14 DEF Discard, RenderGoes, Renders, AtItsPlace
  <2>4. ASSUME NEW i \in 1..Len(queue')
        PROVE  queue'[i] >= floor /\ queue'[i] >= flushMark
    <3>1. i + k \in 1..Len(queue) /\ queue'[i] = queue[i + k] /\ ~(i + k <= k)
      BY <1>0, <2>2, <2>4
    <3>2. queue[i + k] \in Nat /\ ~(queue[i + k] < flushMark)
      BY <1>0, <2>1, <3>1
    <3>3. queue[i + k] >= floor
      BY <1>3, <3>1 DEF Above
    <3> QED
      BY <1>0, <3>1, <3>2, <3>3
  <2>5. Above(floor)' /\ Above(flushMark)'
    BY <2>3, <2>4 DEF Above
  <2> QED
    BY <1>3, <2>2, <2>3, <2>5 DEF FlushInv, Flushes
<1>15. CASE WaitReady
  <2>1. PICK k \in 0..Period : Q!Get(k)
    BY <1>15 DEF WaitReady
  <2>2. /\ k \in Nat /\ k <= Len(queue) /\ Len(queue') = Len(queue) - k /\ next' = next
        /\ \A i \in 1..Len(queue') : queue'[i] = queue[i + k]
        /\ Len(batch') = k /\ \A i \in 1..k : batch'[i] = queue[i]
    BY <1>0, <2>1, GetItems
  <2>3. /\ UNCHANGED <<flushing, flushMark, flushes, floor, caller, running, device>>
        /\ render.at = "wait" /\ render'.at = "write" /\ render'.done = 0
    BY <1>0, <1>15 DEF WaitReady, Renders, shared
  <2>4. ASSUME NEW f \in Nat, \A i \in 1..Len(queue) : queue[i] >= f
        PROVE  /\ \A i \in 1..Len(queue') : queue'[i] >= f
               /\ \A i \in 0 + 1..Len(batch') : batch'[i] >= f
    <3>1. \A i \in 1..Len(queue') : i + k \in 1..Len(queue)
      BY <1>0, <2>2
    <3>2. \A i \in 1..k : i \in 1..Len(queue)
      BY <1>0, <2>2
    <3> QED
      BY <2>2, <2>4, <3>1, <3>2
  <2>5. Above(floor)' /\ (Above(flushMark) => Above(flushMark)')
    BY <1>0, <1>3, <2>3, <2>4 DEF Above
  <2> QED
    BY <1>5, <2>2, <2>3, <2>5 DEF Flushes
<1>16. ASSUME NEW n \in 1..Period, WriteSome(n)
       PROVE  FlushInv'
  <2> DEFINE some == [i \in 1..n |-> Chunk(render.done + i)]
  <2>1. /\ UNCHANGED <<ring, flushing, flushMark, flushes, floor, caller, running>>
        /\ render.at = "write" /\ n \in Nat
    BY <1>16, MonitorConstants DEF WriteSome, Writing, shared
  <2>2. render'.at = "write" /\ render'.done = render.done + n
    BY <1>0, <1>16 DEF WriteSome, Writing, Renders
  <2>3. device'.held = device.held \o some
    BY <1>16 DEF WriteSome
  <2>4. \A i \in 1..n : some[i] \in Nat \cup {Silence}
    BY <1>0, <2>1 DEF Chunk
  <2>5. some \in Seq(Nat \cup {Silence}) /\ Len(some) = n
    BY <2>1, <2>4
  <2>6. ASSUME NEW f \in Nat, Above(f), NEW i \in 1..n, some[i] # Silence
        PROVE  some[i] >= f
    <3>1. render.done + i \in render.done + 1..Len(batch) /\ some[i] = batch[render.done + i]
      BY <1>0, <2>1, <2>6 DEF Chunk
    <3> QED
      BY <2>1, <2>6, <3>1 DEF Above
  <2> HIDE DEF some
  <2>7. /\ DOMAIN device'.held = 1..Len(device.held) + n /\ Len(device.held) \in Nat
        /\ \A i \in 1..Len(device.held) + n :
              device'.held[i] = IF i <= Len(device.held) THEN device.held[i] ELSE some[i - Len(device.held)]
    BY <1>0, <2>1, <2>3, <2>5, ConcatProperties
  <2>8. \A i \in 1..Len(device.held) + n : i \in DOMAIN device.held \/ (~(i <= Len(device.held)) /\ i - Len(device.held) \in 1..n)
    BY <1>0, <2>1
  <2>9. ASSUME NEW f \in Nat, Above(f), NEW i \in DOMAIN device'.held, device'.held[i] # Silence
        PROVE  device'.held[i] >= f
    <3>1. CASE i \in DOMAIN device.held
      <4>1. device'.held[i] = device.held[i]
        BY <1>0, <2>7, <2>9, <3>1
      <4> QED
        BY <2>9, <3>1, <4>1 DEF Above
    <3>2. CASE ~(i <= Len(device.held)) /\ i - Len(device.held) \in 1..n
      BY <2>6, <2>7, <2>9, <3>2
    <3> QED
      BY <2>7, <2>8, <2>9, <3>1, <3>2
  <2>10. \A i \in render'.done + 1..Len(batch) : i \in render.done + 1..Len(batch)
    BY <1>0, <2>1, <2>2
  <2>11. Above(floor)' /\ (Above(flushMark) => Above(flushMark)')
    BY <1>0, <1>3, <2>1, <2>2, <2>9, <2>10 DEF Above, ring
  <2> QED
    BY <1>5, <2>1, <2>2, <2>11 DEF ring, Flushes
<1> QED
  BY <1>6, <1>7, <1>8, <1>9, <1>10, <1>11, <1>12, <1>13, <1>14, <1>15, <1>16 DEF Render

LEMMA FlushStep == StreamInv /\ FlushInv /\ [MonitorNext]_monitorVars => FlushInv'
<1> SUFFICES ASSUME StreamInv, FlushInv, [MonitorNext]_monitorVars
             PROVE  FlushInv'
  OBVIOUS
<1>1. MonitorTypeOK'
  BY MonitorStep DEF StreamInv
<1>2. CASE Call
  BY <1>1, <1>2, CallKeepsFlushes
<1>3. CASE Render
  BY <1>1, <1>3, RenderKeepsFlushes
<1>4. CASE DevicePlays
  <2>1. /\ UNCHANGED <<ring, shared, render, caller, floor>>
        /\ device'.held = IF device.held = <<>> THEN device.held ELSE Tail(device.held)
    BY <1>4, DeviceTypes DEF DevicePlays, StreamInv
  <2>2. device.held \in Seq(Nat \cup {Silence}) /\ render.done \in Nat /\ floor \in Nat /\ flushMark \in Nat
    BY FlushTypes DEF StreamInv
  <2>3. \A f \in Nat : Above(f) => Above(f)'
    BY <2>1, <2>2, AboveStays
  <2>4. (Above(floor) => Above(floor)') /\ (Above(flushMark) => Above(flushMark)')
    BY <2>1, <2>2, <2>3 DEF Above, shared
  <2>5. UNCHANGED <<next, flushing, running, flushMark, flushes, render, caller, floor>>
    BY <2>1 DEF ring, shared
  <2> QED
    BY <2>4, <2>5 DEF FlushInv
<1>5. CASE UNCHANGED monitorVars
  BY <1>5 DEF monitorVars, ring, shared, FlushInv, Above, RenderAt
<1> QED
  BY <1>2, <1>3, <1>4, <1>5 DEF MonitorNext

----------------------------------------------------------------------------
(* The theorems about the monitor.                                         *)

\* Behind what the device holds come the frames from Upcoming on, to the newest.
LEMMA OnTheWayGoesOn ==
    ASSUME StreamInv
    PROVE  /\ device.held \in Seq(Nat \cup {Silence}) /\ Upcoming \in Nat /\ next - Upcoming \in Nat
           /\ OnTheWay \in Seq(Nat \cup {Silence})
           /\ Len(OnTheWay) = Len(device.held) + (next - Upcoming)
           /\ \A i \in 1..Len(device.held) : OnTheWay[i] = device.held[i]
           /\ \A i \in 1..next - Upcoming : OnTheWay[Len(device.held) + i] = Upcoming + i - 1
<1>1. /\ MonitorTypeOK /\ QueueInOrder /\ ChunkInOrder
  BY DEF StreamInv
<1>2. /\ queue \in Seq(Nat) /\ Len(queue) \in Nat /\ batch \in Seq(Nat) /\ Len(batch) \in Nat /\ next \in Nat
      /\ device.held \in Seq(Nat \cup {Silence}) /\ render.done \in Nat
  BY <1>1, FlushTypes
<1>3. Left \in Nat /\ Upcoming \in Nat /\ Upcoming = next - Len(queue) - Left
  BY <1>1, UpcomingValues
<1>n. /\ Len(queue) \in Int /\ Len(batch) \in Int /\ next \in Int /\ render.done \in Int /\ render.done >= 0
      /\ Left \in Int /\ Upcoming \in Int
  BY <1>2, <1>3
<1>4. /\ Rest \in Seq(Nat) /\ Len(Rest) = Left
      /\ \A i \in 1..Left : Rest[i] = Upcoming + i - 1
  <2>1. CASE RenderAt("write") /\ render.done < Len(batch)
    <3>1. Left = Len(batch) - render.done /\ Rest = SubSeq(batch, render.done + 1, Len(batch))
      BY <2>1 DEF Left, Rest
    <3> DEFINE first == render.done + 1
               last == Len(batch)
    <3>2. /\ first \in Int /\ last \in Int /\ first <= last /\ last - first + 1 = Left
          /\ \A i \in first..last : batch[i] \in Nat
      <4>1. first \in Nat /\ last \in Nat /\ first >= 1 /\ first <= last
        BY <1>2, <2>1
      <4>2. \A i \in first..last : i \in 1..Len(batch)
        BY <4>1
      <4>3. last - first + 1 = Left
        BY <1>2, <3>1
      <4>4. \A i \in 1..Len(batch) : batch[i] \in Nat
        BY <1>2
      <4> HIDE DEF first, last
      <4> QED
        BY <4>1, <4>2, <4>3, <4>4
    <3>3. /\ Rest \in Seq(Nat) /\ Len(Rest) = Left
          /\ \A i \in 1..Left : Rest[i] = batch[first + i - 1]
      <4> HIDE DEF first, last
      <4>1. /\ SubSeq(batch, first, last) \in Seq(Nat)
            /\ Len(SubSeq(batch, first, last)) = IF first <= last THEN last - first + 1 ELSE 0
            /\ \A i \in 1..last - first + 1 : SubSeq(batch, first, last)[i] = batch[first + i - 1]
        BY <3>2, SubSeqProperties
      <4>2. Rest = SubSeq(batch, first, last)
        BY <3>1 DEF first, last
      <4> QED
        BY <3>2, <4>1, <4>2
    <3>4. ASSUME NEW i \in 1..Left
          PROVE  Rest[i] = Upcoming + i - 1
      <4>1. i \in Nat /\ i >= 1 /\ i <= Left
        BY <1>3
      <4>2. render.done + i \in 1..Len(batch) /\ first + i - 1 = render.done + i
        BY <1>n, <3>1, <4>1
      <4>3. batch[render.done + i] = next - Len(queue) - Len(batch) + (render.done + i) - 1
        BY <1>1, <2>1, <4>2 DEF ChunkInOrder
      <4>4. next - Len(queue) - Len(batch) + (render.done + i) - 1 = Upcoming + i - 1
        <5>1. Upcoming = next - Len(queue) - (Len(batch) - render.done)
          BY <1>3, <3>1
        <5> QED
          BY <1>n, <4>1, <5>1
      <4> HIDE DEF first
      <4> QED
        BY <3>3, <4>2, <4>3, <4>4
    <3> HIDE DEF first
    <3> QED
      BY <3>3, <3>4
  <2>2. CASE ~(RenderAt("write") /\ render.done < Len(batch))
    <3>1. Left = 0
      BY <2>2 DEF Left
    <3>2. Rest = <<>>
      BY <1>2, <2>2 DEF Rest
    <3> QED
      BY <3>1, <3>2
  <2> QED
    BY <2>1, <2>2
<1>5. \A i \in 1..Len(queue) : queue[i] = next - Len(queue) + i - 1
  BY <1>1 DEF QueueInOrder
<1>6. Len(queue) <= next /\ next - Upcoming = Left + Len(queue)
  BY <1>1, <1>2, <1>3 DEF QueueInOrder
<1> DEFINE behind == Rest \o queue
<1>7. /\ behind \in Seq(Nat) /\ Len(behind) = Left + Len(queue)
      /\ \A i \in 1..Left + Len(queue) : behind[i] = IF i <= Left THEN Rest[i] ELSE queue[i - Left]
  BY <1>2, <1>4, ConcatProperties
<1> HIDE DEF behind
<1>8. ASSUME NEW i \in 1..next - Upcoming
      PROVE  behind[i] = Upcoming + i - 1
  <2>0. i \in 1..Left + Len(queue)
    BY <1>6
  <2>1. CASE i <= Left
    <3>1. i \in 1..Left
      BY <1>2, <1>3, <2>0, <2>1
    <3> QED
      BY <1>4, <1>7, <2>0, <2>1, <3>1
  <2>2. CASE ~(i <= Left)
    <3>1. i - Left \in 1..Len(queue)
      BY <1>2, <1>3, <2>0, <2>2
    <3>2. queue[i - Left] = next - Len(queue) + (i - Left) - 1
      BY <1>5, <3>1
    <3>3. next - Len(queue) + (i - Left) - 1 = Upcoming + i - 1
      BY <1>2, <1>3, <2>0
    <3> QED
      BY <1>7, <2>0, <2>2, <3>2, <3>3
  <2> QED
    BY <2>1, <2>2
<1>9. behind \in Seq(Nat \cup {Silence})
  BY <1>7
<1>10. OnTheWay = device.held \o behind
  BY DEF OnTheWay, behind
<1>11. /\ device.held \o behind \in Seq(Nat \cup {Silence})
       /\ Len(device.held \o behind) = Len(device.held) + Len(behind)
       /\ \A i \in 1..Len(device.held) + Len(behind) : (device.held \o behind)[i] =
             IF i <= Len(device.held) THEN device.held[i] ELSE behind[i - Len(device.held)]
  BY <1>2, <1>9, ConcatProperties
<1>12. Len(device.held) \in Nat /\ Len(behind) = next - Upcoming /\ next - Upcoming \in Nat
  BY <1>2, <1>3, <1>6, <1>7
<1>13. \A i \in 1..Len(device.held) : i \in 1..Len(device.held) + Len(behind) /\ i <= Len(device.held)
  BY <1>12
<1>14. \A i \in 1..Len(behind) : /\ Len(device.held) + i \in 1..Len(device.held) + Len(behind)
                                 /\ ~(Len(device.held) + i <= Len(device.held))
                                 /\ (Len(device.held) + i) - Len(device.held) = i
  BY <1>12
<1>15. \A i \in 1..Len(device.held) : OnTheWay[i] = device.held[i]
  BY <1>10, <1>11, <1>13
<1>16. \A i \in 1..Len(behind) : OnTheWay[Len(device.held) + i] = behind[i]
  BY <1>10, <1>11, <1>14
<1>17. \A i \in 1..next - Upcoming : OnTheWay[Len(device.held) + i] = Upcoming + i - 1
  BY <1>8, <1>12, <1>16
<1>18. OnTheWay \in Seq(Nat \cup {Silence}) /\ Len(OnTheWay) = Len(device.held) + (next - Upcoming)
  BY <1>10, <1>11, <1>12
<1> QED
  BY <1>2, <1>3, <1>12, <1>15, <1>17, <1>18

\* What is still to be heard, in the device, the chunk in hand and the queue, is
\* the newest that was submitted with nothing missing, doubled or out of order.
LEMMA StreamIsUnbroken == StreamInv => Unbroken
<1> SUFFICES ASSUME StreamInv
             PROVE  Unbroken
  OBVIOUS
<1>0. ASSUME Continuous(OnTheWay, next)
      PROVE  Unbroken
  <2>1. SUFFICES ASSUME NEW i \in Sounding
                 PROVE  /\ OnTheWay[i] < next
                        /\ \A j \in Sounding : i < j => OnTheWay[i] < OnTheWay[j]
                        /\ \A f \in OnTheWay[i]..next - 1 : \E j \in Sounding : OnTheWay[j] = f
    BY DEF Unbroken
  <2>2. i \in DOMAIN OnTheWay /\ OnTheWay[i] # Silence /\ OnTheWay[i] \in Nat
    <3>1. i \in DOMAIN OnTheWay /\ OnTheWay[i] # Silence
      BY DEF Sounding
    <3>2. OnTheWay \in Seq(Nat \cup {Silence})
      BY OnTheWayGoesOn
    <3>3. OnTheWay[i] \in Nat \cup {Silence}
      BY <3>1, <3>2
    <3> QED
      BY <3>1, <3>3
  <2>3. /\ OnTheWay[i] < next
        /\ \A j \in DOMAIN OnTheWay : i < j /\ OnTheWay[j] # Silence => OnTheWay[i] < OnTheWay[j]
        /\ \A f \in OnTheWay[i]..next - 1 : \E j \in DOMAIN OnTheWay : OnTheWay[j] = f
    BY <1>0, <2>2 DEF Continuous
  <2>4. \A f \in OnTheWay[i]..next - 1 : f # Silence
    BY <2>2 DEF Silence
  <2>5. \A j \in DOMAIN OnTheWay : j \in Sounding <=> OnTheWay[j] # Silence
    BY DEF Sounding
  <2>6. Sounding \subseteq DOMAIN OnTheWay
    BY DEF Sounding
  <2> QED
    BY <2>3, <2>4, <2>5, <2>6
<1> SUFFICES ASSUME ~stop
             PROVE  Continuous(OnTheWay, next)
  BY <1>0 DEF Unbroken
<1>1. Continuous(device.held, Upcoming)
  BY DEF StreamInv, HeldInOrder
<1> DEFINE n == next - Upcoming
<1>2. /\ device.held \in Seq(Nat \cup {Silence}) /\ Upcoming \in Nat /\ n \in Nat
      /\ OnTheWay \in Seq(Nat \cup {Silence}) /\ Len(OnTheWay) = Len(device.held) + n
      /\ \A i \in 1..Len(device.held) : OnTheWay[i] = device.held[i]
      /\ \A i \in 1..n : OnTheWay[Len(device.held) + i] = Upcoming + i - 1
  BY OnTheWayGoesOn
<1>3. n = next - Upcoming /\ next \in Nat
  BY FlushTypes DEF StreamInv
<1> HIDE DEF n
<1>4. \A i \in 1..n : OnTheWay[Len(device.held) + i] = IF i <= n THEN Upcoming + i - 1 ELSE Silence
  BY <1>2
<1>5. Continuous(OnTheWay, Upcoming + (IF n < n THEN n ELSE n))
  BY <1>1, <1>2, <1>4, GoesOn
<1>6. Upcoming + (IF n < n THEN n ELSE n) = next
  BY <1>2, <1>3
<1> QED
  BY <1>5, <1>6

LEMMA FlushInvIsSilent == StreamInv /\ FlushInv => FlushedIsSilent
<1> SUFFICES ASSUME StreamInv, FlushInv, NEW i \in DOMAIN OnTheWay, OnTheWay[i] # Silence
             PROVE  OnTheWay[i] >= floor
  BY DEF FlushedIsSilent, Sounding
<1>1. /\ device.held \in Seq(Nat \cup {Silence}) /\ Upcoming \in Nat /\ next - Upcoming \in Nat
      /\ Len(OnTheWay) = Len(device.held) + (next - Upcoming)
      /\ \A j \in 1..Len(device.held) : OnTheWay[j] = device.held[j]
      /\ \A j \in 1..next - Upcoming : OnTheWay[Len(device.held) + j] = Upcoming + j - 1
      /\ OnTheWay \in Seq(Nat \cup {Silence})
  BY OnTheWayGoesOn
<1>2. /\ queue \in Seq(Nat) /\ Len(queue) \in Nat /\ batch \in Seq(Nat) /\ Len(batch) \in Nat /\ next \in Nat
      /\ render.done \in Nat /\ floor \in Nat /\ Len(device.held) \in Nat
  BY <1>1, FlushTypes DEF StreamInv
<1>3. Above(floor) /\ floor <= next
  BY DEF FlushInv
<1>n. /\ Upcoming \in Int /\ next \in Int /\ Len(device.held) \in Int /\ Len(device.held) >= 0 /\ floor \in Int
      /\ i \in Int /\ i >= 1 /\ i <= Len(device.held) + (next - Upcoming)
  <2>1. i \in 1..Len(OnTheWay)
    BY <1>1
  <2>2. i \in 1..Len(device.held) + (next - Upcoming)
    BY <1>1, <2>1
  <2> QED
    BY <1>1, <1>2, <2>2
<1>4. CASE i \in 1..Len(device.held)
  <2>1. i \in DOMAIN device.held /\ OnTheWay[i] = device.held[i]
    BY <1>1, <1>4
  <2> QED
    BY <1>3, <2>1 DEF Above
\* Behind the device the frames go up: the oldest is the chunk's, or the queue's.
<1>5. CASE i \notin 1..Len(device.held)
  <2>1. i - Len(device.held) \in 1..next - Upcoming /\ Len(device.held) + (i - Len(device.held)) = i
    <3>1. i > Len(device.held)
      BY <1>n, <1>5
    <3> QED
      BY <1>n, <3>1
  <2>2. OnTheWay[i] = Upcoming + (i - Len(device.held)) - 1
    BY <1>1, <2>1
  <2>3. Upcoming < next /\ OnTheWay[i] >= Upcoming /\ OnTheWay[i] \in Int
    BY <1>n, <2>1, <2>2
  <2>4. Upcoming >= floor
    <3>1. Left \in Nat /\ Upcoming = next - Len(queue) - Left
      BY UpcomingValues DEF StreamInv
    <3>2. CASE Left = 0
      <4>1. 1 \in 1..Len(queue) /\ queue[1] = next - Len(queue) + 1 - 1
        BY <1>2, <2>3, <3>1, <3>2 DEF StreamInv, QueueInOrder
      <4>2. queue[1] >= floor
        BY <1>3, <4>1 DEF Above
      <4> QED
        BY <1>2, <3>1, <3>2, <4>1, <4>2
    <3>3. CASE Left # 0
      <4>1. RenderAt("write") /\ render.done < Len(batch) /\ Left = Len(batch) - render.done
        BY <3>3 DEF Left
      <4>2. render.done + 1 \in 1..Len(batch) /\ render.done + 1 \in render.done + 1..Len(batch)
        BY <1>2, <4>1
      <4>3. batch[render.done + 1] = next - Len(queue) - Len(batch) + (render.done + 1) - 1
        BY <4>1, <4>2 DEF StreamInv, ChunkInOrder
      <4>4. batch[render.done + 1] >= floor
        BY <1>3, <4>1, <4>2 DEF Above
      <4> QED
        BY <1>2, <3>1, <4>1, <4>3, <4>4
    <3> QED
      BY <3>2, <3>3
  <2> QED
    BY <1>n, <2>3, <2>4
<1> QED
  BY <1>4, <1>5

\* The monitor's variables keep their types, whatever the two threads and the
\* device do: the render thread's position in a chunk, its count of retries and
\* what the device holds stay within their bounds.
THEOREM MonitorTypeCorrect == MonitorSpec => []MonitorTypeOK
<1>1. StreamInv => MonitorTypeOK
  BY DEF StreamInv
<1> QED
  BY <1>1, MonitorStarts, MonitorStep, PTL DEF MonitorSpec

\* What is still to be heard is the newest that was submitted, with nothing
\* missing, doubled or out of order: a chunk of which the device took a part goes
\* on where it stopped, and a device prepared again is not given a frame twice.
THEOREM MonitorUnbroken == MonitorSpec => []Unbroken
  BY MonitorStarts, MonitorStep, StreamIsUnbroken, PTL DEF MonitorSpec

\* Once flush() has returned in time, nothing submitted before it is heard again.
THEOREM MonitorFlushedIsSilent == MonitorSpec => []FlushedIsSilent
<1>1. MonitorInit => FlushInv
  <2> SUFFICES ASSUME MonitorInit
               PROVE  FlushInv
    OBVIOUS
  <2>1. /\ queue = <<>> /\ next = 0 /\ flushMark = 0 /\ floor = 0 /\ ~flushing
        /\ render = NoThread /\ device = Prepared /\ caller.at = "idle"
    BY DEF MonitorInit, Q!Init, IdleCaller
  <2>2. render.at = "none" /\ device.held = <<>>
    BY <2>1, MonitorValues
  <2> QED
    BY <2>1, <2>2 DEF FlushInv, Above, RenderAt, Flushes
<1> QED
  BY <1>1, MonitorStarts, MonitorStep, FlushStep, FlushInvIsSilent, PTL DEF MonitorSpec
=============================================================================
