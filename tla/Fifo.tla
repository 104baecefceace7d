-------------------------------- MODULE Fifo --------------------------------
(***************************************************************************)
(* What a single-producer, single-consumer ring promises: a bounded queue  *)
(* that takes a batch in one step, whole frames of it or none, gives out   *)
(* the oldest items in one step, and drops the oldest in one step.  Items  *)
(* are numbered as they are taken.                                         *)
(***************************************************************************)
EXTENDS Integers, Sequences

CONSTANTS
    Size,           \* buffer_.size(); one slot of it is never filled
    FrameItems      \* frame_items: the items that stay together

VARIABLES
    items,      \* what the queue holds, oldest first
    next,       \* the number of the next item
    batch       \* the items the last read returned

vars == <<items, next, batch>>

Init == items = <<>> /\ next = 0 /\ batch = <<>>

\* The part of a batch that fits, in whole frames; the rest is refused.
Put(k) ==
    /\ k % FrameItems = 0
    /\ Len(items) + k < Size
    /\ items' = items \o [i \in 1..k |-> next + i - 1]
    /\ next' = next + k
    /\ UNCHANGED batch

Get(k) ==
    /\ k <= Len(items)
    /\ batch' = SubSeq(items, 1, k)
    /\ items' = SubSeq(items, k + 1, Len(items))
    /\ UNCHANGED next

\* A flush drops the oldest items, never one taken after its mark.
Drop(k) ==
    /\ k <= Len(items)
    /\ items' = SubSeq(items, k + 1, Len(items))
    /\ UNCHANGED <<next, batch>>

Next == \E k \in 0..Size - 1 : Put(k) \/ Get(k) \/ Drop(k)

Spec == Init /\ [][Next]_vars
=============================================================================
