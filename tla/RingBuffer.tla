----------------------------- MODULE RingBuffer -----------------------------
(***************************************************************************)
(* The lock-free ring between an audio thread and its caller (class        *)
(* BasicRingBuffer).  Each load, each item copied and each store of an     *)
(* index is a step, so the producer's and the consumer's interleave as the *)
(* threads' do; a load of an index its own thread alone stores is merged   *)
(* with the step that follows.                                             *)
(*                                                                         *)
(* The indices are Nat: they are size_t and only grow.  The mask is the    *)
(* modulo, Size being a power of two.  An item is its number, so that      *)
(* which item a cell holds can be told.                                    *)
(***************************************************************************)
EXTENDS Integers, Sequences

CONSTANTS
    Size,           \* buffer_.size()
    FrameItems,     \* frame_items of every write; 1 for write()
    MaxBatch,       \* bound: frames in a write, items in a read
    MaxOffered      \* bound: items offered to write_frames

ASSUME RingAssumption ==
    /\ Size \in Nat /\ Size >= 2
    /\ FrameItems \in Nat \ {0}
    /\ MaxBatch \in Nat /\ MaxOffered \in Nat

VARIABLES
    buffer, readAt, writeAt,    \* buffer_, read_, write_
    dropped,                    \* dropped_
    producer,   \* write_frames: its locals, with the items copied so far
    consumer,   \* read: its locals, with the items copied out so far
    mark,       \* the producer's last write_mark(), for a flush
    taken       \* history: what the last read returned

vars == <<buffer, readAt, writeAt, dropped, producer, consumer, mark, taken>>

Cells == 0..Size - 1
Cell(k) == k % Size

IdleP == [at |-> "idle", count |-> 0, done |-> 0, refused |-> 0]
IdleC == [at |-> "idle", from |-> 0, count |-> 0, out |-> <<>>]

Lesser(a, b) == IF a <= b THEN a ELSE b

Init ==
    /\ buffer = [k \in Cells |-> 0]
    /\ readAt = 0 /\ writeAt = 0 /\ dropped = 0
    /\ producer = IdleP /\ consumer = IdleC
    /\ mark = 0 /\ taken = <<>>

----------------------------------------------------------------------------
(* The producer.                                                           *)

\* Mutation: a full ring keeps whatever fits.
Partial(free) == free

Whole(free) == free - (free % FrameItems)

\* Mutation: no slot stays free.
ReserveAll(n) ==
    LET count == Lesser(n, Whole(Size - (writeAt - readAt)))
    IN  /\ producer.at = "idle"
        /\ producer' = [at |-> "copy", count |-> count, done |-> 0, refused |-> n - count]
        /\ UNCHANGED <<buffer, readAt, writeAt, dropped, consumer, mark, taken>>

\* One slot stays free, and a short write stops on a whole frame.
Reserve(n) ==
    LET count == Lesser(n, Whole(Size - (writeAt - readAt) - 1))
    IN  /\ producer.at = "idle"
        /\ producer' = [at |-> "copy", count |-> count, done |-> 0, refused |-> n - count]
        /\ UNCHANGED <<buffer, readAt, writeAt, dropped, consumer, mark, taken>>

CopyIn ==
    LET k == writeAt + producer.done
    IN  /\ producer.at = "copy" /\ producer.done < producer.count
        /\ buffer' = [buffer EXCEPT ![Cell(k)] = k]
        /\ producer' = [producer EXCEPT !.done = @ + 1]
        /\ UNCHANGED <<readAt, writeAt, dropped, consumer, mark, taken>>

Publish ==
    /\ producer.at = "copy" /\ producer.done = producer.count
    /\ writeAt' = writeAt + producer.count
    /\ dropped' = dropped + producer.refused
    /\ producer' = IdleP
    /\ UNCHANGED <<buffer, readAt, consumer, mark, taken>>

\* write_mark(), between two writes.
TakeMark ==
    /\ producer.at = "idle"
    /\ mark' = writeAt
    /\ UNCHANGED <<buffer, readAt, writeAt, dropped, producer, consumer, taken>>

----------------------------------------------------------------------------
(* The consumer.                                                           *)

\* Mutation: the index is stored before the items are copied.
BeginReadEarly(n) ==
    LET count == Lesser(n, writeAt - readAt)
    IN  /\ consumer.at = "idle"
        /\ consumer' = [at |-> "copy", from |-> readAt, count |-> count, out |-> <<>>]
        /\ readAt' = readAt + count
        /\ UNCHANGED <<buffer, writeAt, dropped, producer, mark, taken>>

BeginRead(n) ==
    /\ consumer.at = "idle"
    /\ consumer' = [at |-> "copy", from |-> readAt, count |-> Lesser(n, writeAt - readAt), out |-> <<>>]
    /\ UNCHANGED <<buffer, readAt, writeAt, dropped, producer, mark, taken>>

CopyOut ==
    LET done == Len(consumer.out)
    IN  /\ consumer.at = "copy" /\ done < consumer.count
        /\ consumer' = [consumer EXCEPT !.out = Append(@, buffer[Cell(consumer.from + done)])]
        /\ UNCHANGED <<buffer, readAt, writeAt, dropped, producer, mark, taken>>

FinishRead ==
    /\ consumer.at = "copy" /\ Len(consumer.out) = consumer.count
    /\ readAt' = consumer.from + consumer.count
    /\ taken' = consumer.out
    /\ consumer' = IdleC
    /\ UNCHANGED <<buffer, writeAt, dropped, producer, mark>>

\* Mutation: a mark already passed moves the index back.
DiscardBack ==
    /\ consumer.at = "idle" /\ mark # readAt
    /\ readAt' = Lesser(mark, writeAt)
    /\ UNCHANGED <<buffer, writeAt, dropped, producer, consumer, mark, taken>>

\* discard_to(mark), on the consumer's thread.
DiscardTo ==
    LET to == Lesser(mark, writeAt)
    IN  /\ consumer.at = "idle" /\ to > readAt
        /\ readAt' = to
        /\ UNCHANGED <<buffer, writeAt, dropped, producer, consumer, mark, taken>>

----------------------------------------------------------------------------
Produce == \/ \E n \in 1..MaxBatch :
                writeAt + dropped + n * FrameItems <= MaxOffered /\ Reserve(n * FrameItems)
           \/ CopyIn \/ Publish \/ TakeMark
Consume == (\E n \in 1..MaxBatch : BeginRead(n)) \/ CopyOut \/ FinishRead \/ DiscardTo

Next == Produce \/ Consume

Spec == Init /\ [][Next]_vars

----------------------------------------------------------------------------
ProducerStates == [at : {"idle", "copy"}, count : Nat, done : Nat, refused : Nat]
ConsumerStates == [at : {"idle", "copy"}, from : Nat, count : Nat, out : Seq(Nat)]

TypeOK ==
    /\ buffer \in [Cells -> Nat]
    /\ readAt \in Nat /\ writeAt \in Nat /\ dropped \in Nat
    /\ producer \in ProducerStates /\ consumer \in ConsumerStates
    /\ mark \in Nat /\ taken \in Seq(Nat)

\* The ring never claims to hold more than it can, nor less than nothing, and
\* what it holds is what was written, although the producer copies into it and
\* the consumer out of it at the same time.
HoldsWhatWasWritten ==
    /\ readAt <= writeAt /\ writeAt - readAt < Size
    /\ \A k \in readAt..writeAt - 1 : buffer[Cell(k)] = k

\* A read in progress sees each item once and in order: the producer never
\* overwrites a cell the consumer has still to copy.
ReadsInOrder ==
    \A i \in 1..Len(consumer.out) : consumer.out[i] = consumer.from + i - 1

\* write_frames keeps every frame whole, whatever is refused: what it publishes
\* ends on a frame, and dropped() counts whole frames.  A reader that takes whole
\* frames never finds its channel slots slipped.
FramesWhole == writeAt % FrameItems = 0 /\ dropped % FrameItems = 0

Queue == INSTANCE Fifo WITH
    items <- [i \in 1..(writeAt - readAt) |-> buffer[Cell(readAt + i - 1)]],
    next  <- writeAt,
    batch <- taken

\* Despite its steps, the ring is a queue: every write, read and flush takes
\* effect at the one store of its index.
IsAQueue == Queue!Spec
=============================================================================
