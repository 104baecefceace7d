---------------------------- MODULE SessionProofs ----------------------------
(***************************************************************************)
(* The two halves of a session: its driver, which moves the frames         *)
(* (SessionDriver), and what the frames do (Streams).                      *)
(*                                                                         *)
(* The driver, for every queue bound and whatever the threads, the owner   *)
(* and the peer do: its state is well typed, its queue is counted exactly  *)
(* and bounded, its writer sleeps only with nothing to do, and the frames  *)
(* go out in order, the last of them before a close the session asked for. *)
(* SleepsOnlyIdle is not inductive: that the wait notices a tick brought   *)
(* forward rests on `changed` staying set until the writer has taken the   *)
(* nearer due, which TickNoticed states.                                   *)
(*                                                                         *)
(* The streams, however the engine and the application call and however    *)
(* many frames are in flight: no frame is malformed to the client, audio   *)
(* is of the stream it has open, and the two sides agree once nothing is   *)
(* in flight.  What a frame does to the client depends on all those before *)
(* it, so the invariant follows the client through every frame on its way  *)
(* (Reaches) to where the server is (Matches).                             *)
(***************************************************************************)
EXTENDS SessionDriver, Streams, SequenceTheorems, TLAPS

----------------------------------------------------------------------------
(* The driver.                                                             *)


TickNoticed ==
    nextTick = "soon" /\ due = "later" =>
        changed \/ ended \/ closing \/ writer = "unstarted"

Asleep == writer = "waiting" => queue = <<>> /\ ~ended /\ ~closing /\ ~changed

DriverInv == TypeOK /\ QueueBounded /\ TickNoticed /\ Asleep

\* The numbers of n more frames are frame numbers, n of them.
LEMMA NumberType == ASSUME NEW n \in Int PROVE Number(n) \in Numbers
BY DriverAssumption, SMT DEF Number, Numbers

LEMMA FramesType ==
    ASSUME NEW k \in Nat, accepted \in Numbers
    PROVE  Frames(k) \in Seq(Numbers) /\ Len(Frames(k)) = k
<1> \A i \in 1..k : Number(accepted + i) \in Numbers
    BY NumberType, DriverAssumption DEF Numbers
<1> QED BY DEF Frames

\* deliver() keeps the queue typed, counted and bounded, and either leaves a
\* driver that has ended or is closing as it was, or notes that it changed.
LEMMA DeliverKeeps ==
    ASSUME TypeOK, QueueBounded, NEW out \in Outputs, Deliver(out)
    PROVE  /\ queue' \in Seq(Numbers) /\ queuedBytes' \in Nat
           /\ closing' \in BOOLEAN /\ ended' \in BOOLEAN /\ changed' \in BOOLEAN
           /\ conn' \in {"open", "closed"} /\ accepted' \in Numbers
           /\ QueueBounded'
           /\ IF ended \/ closing THEN UNCHANGED state
              ELSE changed' \/ ended'
<1> USE DEF TypeOK, QueueBounded
<1>1. out.frames \in Nat /\ out.close \in BOOLEAN
    BY DriverAssumption DEF Outputs
<1>2. CASE ended \/ closing
    BY <1>2 DEF Deliver, state
<1>3. CASE ~(ended \/ closing)
    <2>1. Accepts(out) BY <1>3 DEF Deliver
    <2>2. accepted' \in Numbers
        <3>1. accepted + out.frames \in Int
            BY <1>1, DriverAssumption DEF Numbers
        <3>2. accepted' = Number(accepted + out.frames)
            BY <2>1 DEF Accepts
        <3> HIDE DEF TypeOK, QueueBounded
        <3> QED BY <3>1, <3>2, NumberType
    <2>3. CASE queuedBytes + out.frames > MaxQueued
        <3>1. /\ ended' = TRUE /\ queue' = <<>> /\ queuedBytes' = 0
              /\ conn' = "closed" /\ UNCHANGED changed /\ closing' = out.close
            BY <2>1, <2>3 DEF Accepts
        <3> QED BY <3>1, <2>2, <1>1, <1>3, EmptySeq, DriverAssumption
    <2>4. CASE ~(queuedBytes + out.frames > MaxQueued)
        <3>1. Frames(out.frames) \in Seq(Numbers) /\ Len(Frames(out.frames)) = out.frames
            BY <1>1, FramesType
        <3> queue \in Seq(Numbers) OBVIOUS
        <3>2. /\ queue' = queue \o Frames(out.frames)
              /\ queuedBytes' = queuedBytes + out.frames
              /\ changed' = TRUE /\ closing' = out.close /\ UNCHANGED <<ended, conn>>
            BY <2>1, <2>4 DEF Accepts
        <3>3. queue' \in Seq(Numbers) /\ Len(queue') = Len(queue) + out.frames
          <4>1. queue \o Frames(out.frames) \in Seq(Numbers)
            BY <3>1, ConcatProperties, Zenon
          <4>2. Len(queue \o Frames(out.frames)) = Len(queue) + Len(Frames(out.frames))
            BY <3>1, ConcatProperties, Zenon
          <4> QED BY <4>1, <4>2, <3>1, <3>2
        <3> QED BY <3>2, <3>3, <2>2, <2>4, <1>1, <1>3, DriverAssumption
    <2> QED BY <2>3, <2>4
<1> QED BY <1>2, <1>3

\* end_locked() leaves an ended driver with nothing queued.
LEMMA EndKeeps ==
    ASSUME TypeOK, EndLocked
    PROVE  /\ queue' \in Seq(Numbers) /\ queuedBytes' \in Nat /\ QueueBounded'
           /\ closing' \in BOOLEAN /\ ended' = TRUE /\ changed' \in BOOLEAN
BY EmptySeq, DriverAssumption DEF TypeOK, EndLocked, QueueBounded

LEMMA InitInv == Init => DriverInv
<1> SUFFICES ASSUME Init PROVE DriverInv
    OBVIOUS
<1>1. queue \in Seq(Numbers) /\ Len(queue) = 0
    BY EmptySeq DEF Init
<1>2. 0 \in Numbers
    BY DriverAssumption DEF Numbers
<1>3. TypeOK
    BY <1>1, <1>2 DEF Init, TypeOK, Writers, Readers
<1>4. QueueBounded /\ TickNoticed /\ Asleep
    BY <1>1, DriverAssumption DEF Init, QueueBounded, TickNoticed, Asleep
<1> QED BY <1>3, <1>4 DEF DriverInv

\* Every section of every thread keeps the invariant.
LEMMA NextKeeps == DriverInv /\ [Next]_vars => DriverInv'
<1> SUFFICES ASSUME DriverInv, [Next]_vars PROVE DriverInv'
    OBVIOUS
<1> USE DEF DriverInv
<1>1. CASE Start
    <2>1. PICK out \in Outputs : Deliver(out) BY <1>1 DEF Start
    <2>2. TypeOK' BY <1>1, <2>1, DeliverKeeps DEF Start, TypeOK, Writers, Readers
    <2>3. QueueBounded' BY <2>1, DeliverKeeps
    <2>4. TickNoticed' /\ Asleep'
        BY <1>1, <2>1, DeliverKeeps DEF Start, TypeOK, TickNoticed, Asleep, state
    <2> QED BY <2>2, <2>3, <2>4
<1>2. CASE Call
    <2>1. PICK out \in Outputs : Deliver(out) BY <1>2 DEF Call
    <2>2. TypeOK' BY <1>2, <2>1, DeliverKeeps DEF Call, TypeOK, BringsForward, Wake, Writers
    <2>3. QueueBounded' BY <2>1, DeliverKeeps
    <2>4. TickNoticed' /\ Asleep'
        BY <1>2, <2>1, DeliverKeeps DEF Call, TickNoticed, Asleep, BringsForward, Wake, state
    <2> QED BY <2>2, <2>3, <2>4
<1>3. CASE Close
    <2>1. TypeOK' BY <1>3, EndKeeps DEF Close, TypeOK, Wake, Writers, history
    <2>2. QueueBounded' BY <1>3, EndKeeps DEF Close
    <2>3. TickNoticed' /\ Asleep'
        BY <1>3, EndKeeps DEF Close, TickNoticed, Asleep, Wake
    <2> QED BY <2>1, <2>2, <2>3
<1>4. CASE Handle
    <2>1. CASE ended \/ closing
        BY <1>4, <2>1
        DEF Handle, TypeOK, QueueBounded, TickNoticed, Asleep, state, Readers
    <2>2. CASE ~(ended \/ closing)
        <3>1. PICK out \in Outputs : Deliver(out) BY <1>4, <2>2 DEF Handle
        <3>2. /\ LockFree /\ BringsForward /\ writer' = Wake /\ reader' = "receive"
              /\ UNCHANGED <<due, sending, delivered, flushed, reports>>
            BY <1>4, <2>2 DEF Handle
        <3>3. TypeOK' BY <3>1, <3>2, DeliverKeeps DEF TypeOK, BringsForward, Wake, Writers, Readers
        <3>4. QueueBounded' BY <3>1, DeliverKeeps
        <3>5. TickNoticed' /\ Asleep'
            BY <2>2, <3>1, <3>2, DeliverKeeps DEF TickNoticed, Asleep, Wake
        <3> QED BY <3>3, <3>4, <3>5
    <2> QED BY <2>1, <2>2
<1>5. CASE ReadEnds
    <2>1. TypeOK' BY <1>5, EndKeeps DEF ReadEnds, TypeOK, Wake, Writers, Readers, history
    <2>2. QueueBounded' BY <1>5, EndKeeps DEF ReadEnds
    <2>3. TickNoticed' /\ Asleep'
        BY <1>5, EndKeeps DEF ReadEnds, TickNoticed, Asleep, Wake
    <2> QED BY <2>1, <2>2, <2>3
<1>6. CASE Receive \/ Report
    BY <1>6
    DEF Receive, Report, TypeOK, QueueBounded, TickNoticed, Asleep, state, history, Readers
<1>7. CASE Relock \/ Sent \/ SendFails \/ CloseConnection
    <2>1. TypeOK'
        BY <1>7 DEF Relock, Sent, SendFails, CloseConnection, TypeOK, Writers, state, history
    <2>2. QueueBounded' /\ TickNoticed' /\ Asleep'
        BY <1>7
        DEF Relock, Sent, SendFails, CloseConnection, QueueBounded, TickNoticed, Asleep, state
    <2> QED BY <2>1, <2>2
<1>8. CASE Take
    <2>1. /\ Head(queue) \in Numbers /\ Tail(queue) \in Seq(Numbers)
          /\ Len(Tail(queue)) = Len(queue) - 1 /\ Len(queue) \in Nat /\ Len(queue) > 0
        BY <1>8, HeadTailProperties, EmptySeq DEF Take, TypeOK
    <2>2. TypeOK'
        <3>1. queue' \in Seq(Numbers) /\ queuedBytes' \in Nat
            BY <1>8, <2>1 DEF Take, QueueBounded
        <3>2. \E n \in Numbers : sending' = <<n>>
            BY <1>8, <2>1 DEF Take
        <3> QED BY <1>8, <3>1, <3>2 DEF Take, TypeOK, Writers, history
    <2>3. QueueBounded'
        BY <1>8, <2>1, DriverAssumption DEF Take, QueueBounded
    <2>4. TickNoticed' /\ Asleep'
        BY <1>8 DEF Take, TickNoticed, Asleep
    <2> QED BY <2>2, <2>3, <2>4
<1>9. CASE SendFailed
    <2>1. TypeOK' BY <1>9, EndKeeps DEF SendFailed, TypeOK, Writers, history
    <2>2. QueueBounded' BY <1>9, EndKeeps DEF SendFailed
    <2>3. TickNoticed' /\ Asleep'
        BY <1>9, EndKeeps DEF SendFailed, TickNoticed, Asleep
    <2> QED BY <2>1, <2>2, <2>3
<1>10. CASE Tick
    <2>1. PICK out \in Outputs : Deliver(out) BY <1>10 DEF Tick
    <2>2. PICK next \in {"later", "soon"} : nextTick' = next /\ due' = next
        BY <1>10 DEF Tick
    <2>3. TypeOK' BY <1>10, <2>1, <2>2, DeliverKeeps DEF Tick, TypeOK
    <2>4. QueueBounded' BY <2>1, DeliverKeeps
    <2>5. TickNoticed' /\ Asleep'
        BY <1>10, <2>1, <2>2, DeliverKeeps DEF Tick, Idle, TickNoticed, Asleep
    <2> QED BY <2>3, <2>4, <2>5
<1>11. CASE Wait
    <2>1. TypeOK' BY <1>11 DEF Wait, Idle, Due, TypeOK, Writers, history
    <2>2. QueueBounded' BY <1>11 DEF Wait, QueueBounded
    <2>3. TickNoticed' /\ Asleep'
        BY <1>11 DEF Wait, Idle, Due, TickNoticed, Asleep
    <2> QED BY <2>1, <2>2, <2>3
<1>12. CASE WriteEnds
    <2>1. TypeOK' BY <1>12, EndKeeps DEF WriteEnds, TypeOK, Writers
    <2>2. QueueBounded' BY <1>12, EndKeeps DEF WriteEnds
    <2>3. TickNoticed' /\ Asleep'
        BY <1>12, EndKeeps DEF WriteEnds, TickNoticed, Asleep
    <2> QED BY <2>1, <2>2, <2>3
<1>13. CASE Elapse \/ PeerCloses
    <2>1. TypeOK'
        BY <1>13 DEF Elapse, PeerCloses, TypeOK, Wake, Writers, state, history
    <2>2. QueueBounded' /\ TickNoticed' /\ Asleep'
        BY <1>13 DEF Elapse, PeerCloses, QueueBounded, TickNoticed, Asleep, Wake, state
    <2> QED BY <2>1, <2>2
<1>14. CASE UNCHANGED vars
    BY <1>14 DEF vars, state, history, TypeOK, QueueBounded, TickNoticed, Asleep
<1> QED
    BY <1>1, <1>2, <1>3, <1>4, <1>5, <1>6, <1>7, <1>8, <1>9, <1>10, <1>11, <1>12, <1>13, <1>14
    DEF Next, ReaderStep, WriterStep

LEMMA AlwaysInv == Spec => []DriverInv
BY InitInv, NextKeeps, PTL DEF Spec

\* The driver's variables keep their types (session_driver.hpp).
THEOREM DriverTypeCorrect == Spec => []TypeOK
<1>1. DriverInv => TypeOK BY DEF DriverInv
<1> QED BY <1>1, AlwaysInv, PTL

\* queued_bytes() is what waits, and never more than max_queued_bytes while
\* the lock is free: deliver() ends the driver that would exceed it.
THEOREM QueueAlwaysBounded == Spec => []QueueBounded
<1>1. DriverInv => QueueBounded BY DEF DriverInv
<1> QED BY <1>1, AlwaysInv, PTL

\* No wake-up is lost between deliver() or end_locked() and the writer's wait.
THEOREM NeverOversleeps == Spec => []SleepsOnlyIdle
<1>1. DriverInv => SleepsOnlyIdle
    BY DEF DriverInv, TickNoticed, Asleep, SleepsOnlyIdle
<1> QED BY <1>1, AlwaysInv, PTL

----------------------------------------------------------------------------
(* The order of the frames.  Everything is told from the last frame sent:  *)
(* the one being sent is the next, those waiting follow it, and while the  *)
(* driver runs the last of them is the last one accepted.                  *)

Ahead == IF sending = <<>> THEN 0 ELSE 1

OrderInv ==
    /\ sending # <<>> => sending[1] = Number(delivered + 1)
    /\ \A i \in 1..Len(queue) : queue[i] = Number(delivered + Ahead + i)
    /\ ~ended => accepted = Number(delivered + Ahead + Len(queue))

Flushed ==
    flushed => ended /\ delivered = accepted /\ writer \in {"close", "done"}

\* Two remainders that differ by a multiple are the same.
LEMMA SameRemainder ==
    ASSUME NEW m \in Int, NEW s \in Numbers, NEW t \in Numbers, Cycle * m = s - t
    PROVE  s = t
<1>1. Cycle \in Nat /\ Cycle > 0 BY DriverAssumption
<1>2. s \in Int /\ t \in Int /\ 0 <= s /\ s < Cycle /\ 0 <= t /\ t < Cycle
    BY <1>1 DEF Numbers
<1>3. CASE m >= 1
    <2>1. Cycle * m >= Cycle BY <1>1, <1>3
    <2> QED BY <1>1, <1>2, <2>1
<1>4. CASE m <= -1
    <2>1. Cycle * m <= -Cycle BY <1>1, <1>4
    <2> QED BY <1>1, <1>2, <2>1
<1>5. CASE m = 0
    <2>1. Cycle * m = 0 BY <1>1, <1>5
    <2> QED BY <1>2, <2>1
<1> QED BY <1>3, <1>4, <1>5

\* Counting on from a frame's number is counting on from the frame.
LEMMA NumberAdd ==
    ASSUME NEW a \in Nat, NEW b \in Nat
    PROVE  Number(Number(a) + b) = Number(a + b)
<1>1. Cycle \in Nat /\ Cycle > 0 BY DriverAssumption
<1> DEFINE r == Number(a)
           q == a \div Cycle
           s == Number(a + b)
           t == Number(r + b)
           qs == (a + b) \div Cycle
           qt == (r + b) \div Cycle
<1>2. q \in Int /\ r \in Numbers /\ a = Cycle * q + r
    BY <1>1 DEF Number, Numbers
<1>3. qs \in Int /\ s \in Numbers /\ a + b = Cycle * qs + s
    BY <1>1 DEF Number, Numbers
<1> HIDE DEF r, q, qs, s
<1>4. qt \in Int /\ t \in Numbers /\ r + b = Cycle * qt + t
    BY <1>1, <1>2 DEF Number, Numbers
<1> HIDE DEF qt, t
<1>5. Cycle * ((qt + q) - qs) = s - t
    <2>1. s \in Int /\ t \in Int /\ r \in Int BY <1>1, <1>2, <1>3, <1>4 DEF Numbers
    <2>2. Cycle * ((qt + q) - qs) = (Cycle * qt + Cycle * q) - Cycle * qs
        BY <1>1, <1>2, <1>3, <1>4
    <2>3. Cycle * qt \in Int /\ Cycle * q \in Int /\ Cycle * qs \in Int
        BY <1>1, <1>2, <1>3, <1>4
    <2> DEFINE x == Cycle * qt
               y == Cycle * q
               z == Cycle * qs
    <2>4. x \in Int /\ y \in Int /\ z \in Int /\ a = y + r /\ a + b = z + s /\ r + b = x + t
        BY <1>2, <1>3, <1>4, <2>3
    <2>5. Cycle * ((qt + q) - qs) = (x + y) - z
        BY <2>2
    <2> HIDE DEF x, y, z
    <2>6. (x + y) - z = s - t
        BY <2>1, <2>4
    <2> QED BY <2>5, <2>6
<1>6. s = t BY <1>2, <1>3, <1>4, <1>5, SameRemainder
<1> QED BY <1>6 DEF s, t, r

LEMMA NumberSame == ASSUME NEW n \in Numbers PROVE Number(n) = n /\ n \in Nat
BY DriverAssumption DEF Number, Numbers

\* deliver() puts the frames it accepts behind those that wait.
LEMMA DeliverInOrder ==
    ASSUME TypeOK, OrderInv, NEW out \in Outputs, Deliver(out), UNCHANGED <<sending, delivered>>
    PROVE  OrderInv' /\ (ended => UNCHANGED <<ended, accepted>>)
<1> DEFINE n == out.frames
           new == Frames(n)
           d == delivered + Ahead
           len == Len(queue)
<1>1. n \in Nat
    BY DriverAssumption DEF Outputs
<1>2. /\ queue \in Seq(Numbers) /\ len \in Nat /\ d \in Nat /\ accepted \in Numbers
    <2>1. delivered \in Nat BY NumberSame DEF TypeOK
    <2> QED BY <2>1, LenProperties DEF TypeOK, Ahead
<1>3. CASE ended \/ closing
    BY <1>3 DEF Deliver, state, OrderInv, Ahead
<1>4. CASE ~(ended \/ closing) /\ queuedBytes + n > MaxQueued
    <2>1. queue' = <<>> /\ ended'
        BY <1>4 DEF Deliver, Accepts
    <2>2. Len(queue') = 0 BY <2>1
    <2>3. \A i \in 1..Len(queue') : queue'[i] = Number(delivered' + Ahead' + i) BY <2>2
    <2>4. sending' # <<>> => sending'[1] = Number(delivered' + 1) BY DEF OrderInv
    <2>5. OrderInv' BY <2>1, <2>3, <2>4 DEF OrderInv
    <2> QED BY <1>4, <2>5
<1>5. CASE ~(ended \/ closing) /\ ~(queuedBytes + n > MaxQueued)
    <2>1. /\ queue' = queue \o new /\ accepted' = Number(accepted + n)
          /\ ~ended'
        BY <1>5 DEF Deliver, Accepts
    <2>2. new \in Seq(Numbers) /\ Len(new) = n
        BY <1>1, <1>2, FramesType
    <2>3. \A i \in 1..n : new[i] = Number(accepted + i)
        BY DEF Frames
    <2>4. accepted = Number(d + len) /\ \A i \in 1..len : queue[i] = Number(d + i)
        BY <1>5 DEF OrderInv
    <2>5. Ahead' = Ahead /\ delivered' = delivered
        BY DEF Ahead
    <2> HIDE DEF new, d, len, n
    <2>6. \A i \in Nat : Number(accepted + i) = Number(d + len + i)
        <3> TAKE i \in Nat
        <3>1. d + len \in Nat BY <1>2
        <3>2. Number(Number(d + len) + i) = Number(d + len + i) BY <3>1, NumberAdd
        <3> QED BY <2>4, <3>2
    <2>7. /\ queue \o new \in Seq(Numbers) /\ Len(queue \o new) = Len(queue) + Len(new)
          /\ \A i \in 1..Len(queue) + Len(new) :
                (queue \o new)[i] = IF i <= Len(queue) THEN queue[i] ELSE new[i - Len(queue)]
        BY <1>2, <2>2, ConcatProperties
    <2>8. Len(queue') = len + n
        BY <2>1, <2>2, <2>7 DEF len
    <2>9. \A i \in 1..len + n : queue'[i] = Number(d + i)
        <3> TAKE i \in 1..len + n
        <3>1. CASE i <= len
            <4>1. i \in 1..len /\ i \in 1..len + n BY <1>1, <1>2, <3>1
            <4>2. queue'[i] = queue[i] BY <2>1, <2>2, <2>7, <3>1 DEF len
            <4> QED BY <2>4, <4>1, <4>2
        <3>2. CASE i > len
            <4>1. i - len \in 1..n /\ d + len + (i - len) = d + i BY <1>1, <1>2, <3>2
            <4>2. queue'[i] = new[i - len]
                <5>1. ~(i <= len) BY <1>1, <1>2, <3>2
                <5> QED BY <2>1, <2>2, <2>7, <5>1 DEF len
            <4>3. i - len \in Nat BY <1>1, <4>1
            <4>4. new[i - len] = Number(accepted + (i - len)) BY <2>3, <4>1
            <4>5. Number(accepted + (i - len)) = Number(d + len + (i - len)) BY <2>6, <4>3
            <4> QED BY <4>1, <4>2, <4>4, <4>5
        <3> QED BY <1>1, <1>2, <3>1, <3>2
    <2>10. accepted' = Number(d + (len + n))
        <3>1. d + len + n = d + (len + n) BY <1>1, <1>2
        <3> QED BY <1>1, <2>1, <2>6, <3>1
    <2>11. sending' # <<>> => sending'[1] = Number(delivered' + 1)
        BY DEF OrderInv
    <2>12. \A i \in 1..Len(queue') : queue'[i] = Number(delivered' + Ahead' + i)
        BY <2>5, <2>8, <2>9 DEF d
    <2>13. accepted' = Number(delivered' + Ahead' + Len(queue'))
        BY <2>5, <2>8, <2>10 DEF d
    <2> QED BY <1>5, <2>11, <2>12, <2>13 DEF OrderInv
<1> QED BY <1>3, <1>4, <1>5

\* A driver that ends drops what waits.
LEMMA EndInOrder ==
    ASSUME EndLocked, OrderInv, UNCHANGED <<accepted, delivered>>,
           sending' = sending \/ sending' = <<>>
    PROVE  OrderInv' /\ ended'
<1>1. queue' = <<>> /\ ended' = TRUE BY DEF EndLocked
<1>2. Len(queue') = 0 BY <1>1
<1> QED BY <1>1, <1>2 DEF OrderInv

LEMMA TakeInOrder ==
    ASSUME TypeOK, OrderInv, Take PROVE OrderInv'
<1> DEFINE rest == Tail(queue)
<1>1. /\ queue \in Seq(Numbers) /\ queue # <<>> /\ sending = <<>> /\ ~ended
      /\ sending' = <<Head(queue)>> /\ queue' = rest
      /\ UNCHANGED <<ended, delivered, accepted>>
    BY DEF Take, TypeOK, history
<1>2. Len(queue) \in Nat \ {0} BY <1>1, EmptySeq
<1>3. /\ Head(queue) = queue[1] /\ rest \in Seq(Numbers) /\ Len(rest) = Len(queue) - 1
      /\ \A i \in 1..Len(rest) : rest[i] = queue[i + 1]
    BY <1>1, HeadTailProperties
<1>4. delivered \in Nat BY NumberSame DEF TypeOK
<1>5. Ahead = 0 /\ Ahead' = 1
    BY <1>1 DEF Ahead
<1>6. /\ \A i \in 1..Len(queue) : queue[i] = Number(delivered + i)
      /\ accepted = Number(delivered + Len(queue))
    BY <1>1, <1>2, <1>4, <1>5 DEF OrderInv
<1> HIDE DEF rest
<1>7. sending'[1] = Number(delivered + 1)
    <2>1. 1 \in 1..Len(queue) BY <1>2
    <2> QED BY <1>1, <1>3, <1>6, <2>1
<1>8. \A i \in 1..Len(rest) : rest[i] = Number(delivered + 1 + i)
    <2> TAKE i \in 1..Len(rest)
    <2>1. i + 1 \in 1..Len(queue) /\ delivered + (i + 1) = delivered + 1 + i
        BY <1>2, <1>3, <1>4
    <2> QED BY <1>3, <1>6, <2>1
<1>9. accepted = Number(delivered + 1 + Len(rest))
    <2>1. delivered + 1 + Len(rest) = delivered + Len(queue) BY <1>2, <1>3, <1>4
    <2> QED BY <1>6, <2>1
<1> QED BY <1>1, <1>5, <1>7, <1>8, <1>9 DEF OrderInv

LEMMA SentKeepsOrder ==
    ASSUME TypeOK, OrderInv, Sent PROVE OrderInv'
<1>1. /\ delivered' = Head(sending) /\ sending' = <<>>
      /\ UNCHANGED <<queue, ended, accepted>> /\ writer = "sending"
    BY DEF Sent, state
<1>2. PICK n \in Numbers : sending = <<n>>
    BY <1>1 DEF TypeOK
<1>3. /\ delivered \in Nat /\ delivered' = Number(delivered + 1)
      /\ Ahead = 1 /\ Ahead' = 0 /\ Len(queue) \in Nat
    <2>1. delivered \in Nat /\ Len(queue) \in Nat BY NumberSame, LenProperties DEF TypeOK
    <2>2. sending # <<>> /\ sending[1] = n /\ Head(sending) = n BY <1>2
    <2>3. Ahead = 1 /\ Ahead' = 0 BY <1>1, <2>2 DEF Ahead
    <2> QED BY <1>1, <2>1, <2>2, <2>3 DEF OrderInv
<1>4. \A i \in Nat : Number(delivered' + 0 + i) = Number(delivered + 1 + i)
    <2> TAKE i \in Nat
    <2>1. Number(Number(delivered + 1) + i) = Number(delivered + 1 + i)
        BY <1>3, NumberAdd
    <2>2. Number(delivered + 1) \in Nat BY <1>3, NumberType, NumberSame
    <2>3. delivered' + 0 + i = Number(delivered + 1) + i BY <1>3, <2>2
    <2> QED BY <2>1, <2>3
<1>5. \A i \in 1..Len(queue) : queue[i] = Number(delivered' + 0 + i)
    <2> TAKE i \in 1..Len(queue)
    <2>1. i \in Nat BY <1>3
    <2> QED BY <1>3, <1>4, <2>1 DEF OrderInv
<1>6. ~ended => accepted = Number(delivered' + 0 + Len(queue))
    BY <1>3, <1>4 DEF OrderInv
<1> QED BY <1>1, <1>3, <1>5, <1>6 DEF OrderInv

LEMMA NextInOrder ==
    TypeOK /\ OrderInv /\ Flushed /\ [Next]_vars => OrderInv' /\ Flushed'
<1> SUFFICES ASSUME TypeOK, OrderInv, Flushed, [Next]_vars PROVE OrderInv' /\ Flushed'
    OBVIOUS
<1>1. CASE Start
    <2>1. PICK out \in Outputs : Deliver(out) BY <1>1 DEF Start
    <2>2. OrderInv' BY <1>1, <2>1, DeliverInOrder DEF Start
    <2> QED BY <1>1, <2>2 DEF Start, Flushed
<1>2. CASE Call \/ Tick
    <2>1. PICK out \in Outputs : Deliver(out) BY <1>2 DEF Call, Tick
    <2>2. UNCHANGED <<sending, delivered, flushed>> BY <1>2 DEF Call, Tick
    <2>3. OrderInv' /\ (ended => UNCHANGED <<ended, accepted>>)
        BY <2>1, <2>2, DeliverInOrder
    <2>4. flushed => writer' = writer
        BY <1>2 DEF Call, Tick, Flushed
    <2> QED BY <2>2, <2>3, <2>4 DEF Flushed
<1>3. CASE Handle
    <2>1. CASE ended \/ closing
        BY <1>3, <2>1 DEF Handle, state, OrderInv, Ahead, Flushed
    <2>2. CASE ~(ended \/ closing)
        <3>1. PICK out \in Outputs : Deliver(out) BY <1>3, <2>2 DEF Handle
        <3>2. UNCHANGED <<sending, delivered, flushed>> BY <1>3, <2>2 DEF Handle
        <3>3. OrderInv' BY <3>1, <3>2, DeliverInOrder
        <3> QED BY <2>2, <3>2, <3>3 DEF Flushed
    <2> QED BY <2>1, <2>2
<1>4. CASE Close \/ ReadEnds
    <2>1. /\ EndLocked /\ writer' = Wake
          /\ UNCHANGED <<sending, accepted, delivered, flushed>>
        BY <1>4 DEF Close, ReadEnds, history
    <2>2. OrderInv' /\ ended' BY <2>1, EndInOrder
    <2> QED BY <2>1, <2>2 DEF Flushed, Wake
<1>5. CASE SendFailed
    <2>1. /\ EndLocked /\ sending' = <<>> /\ writer = "failed"
          /\ UNCHANGED <<accepted, delivered, flushed>>
        BY <1>5 DEF SendFailed, history
    <2>2. OrderInv' BY <2>1, EndInOrder
    <2> QED BY <2>1, <2>2 DEF Flushed
<1>6. CASE Take
    <2>1. OrderInv' BY <1>6, TakeInOrder
    <2> QED BY <1>6, <2>1 DEF Take, Flushed, history
<1>7. CASE Sent
    <2>1. OrderInv' BY <1>7, SentKeepsOrder
    <2> QED BY <1>7, <2>1 DEF Sent, Flushed
<1>8. CASE WriteEnds
    <2>1. /\ EndLocked /\ writer = "loop" /\ writer' = "close" /\ flushed' = ~ended
          /\ ended \/ (queue = <<>> /\ closing)
          /\ UNCHANGED <<sending, accepted, delivered>>
        BY <1>8 DEF WriteEnds
    <2>2. OrderInv' /\ ended' BY <2>1, EndInOrder
    <2>3. ~ended => delivered = accepted
        <3>1. sending = <<>> /\ delivered \in Numbers BY <2>1 DEF TypeOK
        <3>2. ~ended => queue = <<>> /\ Len(queue) = 0 BY <2>1
        <3>3. delivered + Ahead + 0 = delivered BY <3>1, NumberSame DEF Ahead
        <3> QED BY <3>1, <3>2, <3>3, NumberSame DEF OrderInv
    <2> QED BY <2>1, <2>2, <2>3 DEF Flushed
<1>9. CASE /\ UNCHANGED <<queue, ended, sending, delivered, accepted, flushed>>
           /\ writer \in {"close", "done"} => writer' \in {"close", "done"}
    BY <1>9 DEF OrderInv, Ahead, Flushed
<1>10. CASE Receive \/ Report \/ Relock \/ SendFails \/ Wait \/ CloseConnection \/ Elapse
            \/ PeerCloses \/ UNCHANGED vars
    BY <1>9, <1>10
    DEF Receive, Report, Relock, SendFails, Wait, Idle, CloseConnection, Elapse, PeerCloses,
        Wake, vars, state, history
<1> QED
    BY <1>1, <1>2, <1>3, <1>4, <1>5, <1>6, <1>7, <1>8, <1>10 DEF Next, ReaderStep, WriterStep

LEMMA AlwaysInOrder == Spec => [](OrderInv /\ Flushed)
<1>1. Init => OrderInv /\ Flushed
    <2> SUFFICES ASSUME Init PROVE OrderInv /\ Flushed
        OBVIOUS
    <2>1. 0 \in Numbers BY DriverAssumption DEF Numbers
    <2>2. Number(0) = 0 BY <2>1, NumberSame
    <2>3. Len(queue) = 0 /\ Ahead = 0 BY DEF Init, Ahead
    <2> QED BY <2>2, <2>3 DEF Init, OrderInv, Flushed
<1>2. DriverInv => TypeOK BY DEF DriverInv
<1> QED BY <1>1, <1>2, NextInOrder, AlwaysInv, PTL DEF Spec

\* No frame the session produced is left out or overtaken on its way to the
\* connection, and none is lost while the driver runs.
THEOREM FramesGoInOrder == Spec => []SentInOrder
<1>1. TypeOK /\ OrderInv => SentInOrder
    <2> SUFFICES ASSUME TypeOK, OrderInv PROVE SentInOrder
        OBVIOUS
    <2> DEFINE front == <<delivered>> \o sending
               chain == front \o queue
               len == Len(queue)
    <2>1. /\ delivered \in Numbers /\ delivered \in Nat /\ Number(delivered) = delivered
          /\ queue \in Seq(Numbers) /\ len \in Nat /\ accepted \in Numbers
        BY NumberSame, LenProperties DEF TypeOK
    <2>2. /\ front \in Seq(Numbers) /\ Len(front) = 1 + Ahead /\ Ahead \in 0..1
          /\ \A i \in 1..1 + Ahead : front[i] = Number(delivered + (i - 1))
        <3> DEFINE one == <<delivered>>
        <3>1. one \in Seq(Numbers) /\ Len(one) = 1 /\ one[1] = delivered
            BY <2>1
        <3>2. /\ sending \in Seq(Numbers) /\ Len(sending) = Ahead /\ Ahead \in 0..1
              /\ Ahead = 1 => sending[1] = Number(delivered + 1)
            <4>1. CASE sending = <<>>
                BY <4>1, EmptySeq DEF Ahead
            <4>2. CASE sending # <<>>
                <5>1. PICK n \in Numbers : sending = <<n>> BY <4>2 DEF TypeOK
                <5>2. <<n>> \in Seq(Numbers) /\ Len(<<n>>) = 1 OBVIOUS
                <5>3. Ahead = 1 BY <4>2 DEF Ahead
                <5> QED BY <4>2, <5>1, <5>2, <5>3 DEF OrderInv
            <4> QED BY <4>1, <4>2
        <3> HIDE DEF one
        <3>3. /\ one \o sending \in Seq(Numbers)
              /\ Len(one \o sending) = Len(one) + Len(sending)
              /\ \A i \in 1..Len(one) + Len(sending) :
                    (one \o sending)[i] =
                        IF i <= Len(one) THEN one[i] ELSE sending[i - Len(one)]
            BY <3>1, <3>2, ConcatProperties
        <3>4. front = one \o sending
            BY DEF front, one
        <3> HIDE DEF front
        <3>5. Len(front) = 1 + Ahead
            BY <3>1, <3>2, <3>3, <3>4
        <3>6. front[1] = delivered
            BY <3>1, <3>2, <3>3, <3>4
        <3>7. Ahead = 1 => front[2] = sending[1]
            BY <3>1, <3>2, <3>3, <3>4
        <3>8. \A i \in 1..1 + Ahead : front[i] = Number(delivered + (i - 1))
            <4> TAKE i \in 1..1 + Ahead
            <4>1. CASE i = 1
                <5>1. delivered + (i - 1) = delivered BY <2>1, <4>1
                <5> QED BY <2>1, <3>6, <4>1, <5>1
            <4>2. CASE i = 2
                <5>1. Ahead = 1 /\ delivered + (i - 1) = delivered + 1
                    BY <2>1, <3>2, <4>2
                <5> QED BY <3>2, <3>7, <4>2, <5>1
            <4> QED BY <3>2, <4>1, <4>2
        <3> QED BY <3>2, <3>3, <3>4, <3>5, <3>8
    <2> HIDE DEF front, len
    <2>3. /\ chain \in Seq(Numbers) /\ Len(chain) = Len(front) + Len(queue)
          /\ \A i \in 1..Len(front) + Len(queue) :
                chain[i] = IF i <= Len(front) THEN front[i] ELSE queue[i - Len(front)]
        BY <2>1, <2>2, ConcatProperties
    <2> HIDE DEF chain
    <2>4. Len(chain) = 1 + Ahead + len BY <2>2, <2>3 DEF len
    <2>5. \A i \in 1..1 + Ahead + len : chain[i] = Number(delivered + (i - 1))
        <3> TAKE i \in 1..1 + Ahead + len
        <3>1. CASE i <= 1 + Ahead
            <4>1. i \in 1..1 + Ahead BY <2>1, <2>2, <3>1
            <4>2. chain[i] = front[i] BY <2>2, <2>3, <2>4, <3>1
            <4> QED BY <2>2, <4>1, <4>2
        <3>2. CASE i > 1 + Ahead
            <4>1. i - (1 + Ahead) \in 1..len BY <2>1, <2>2, <3>2
            <4>2. chain[i] = queue[i - (1 + Ahead)]
                <5>1. ~(i <= Len(front)) BY <2>1, <2>2, <3>2
                <5> QED BY <2>2, <2>3, <2>4, <5>1
            <4>3. queue[i - (1 + Ahead)] = Number(delivered + Ahead + (i - (1 + Ahead)))
                BY <4>1 DEF OrderInv, len
            <4>4. delivered + Ahead + (i - (1 + Ahead)) = delivered + (i - 1)
                BY <2>1, <2>2
            <4> QED BY <4>2, <4>3, <4>4
        <3> QED BY <2>1, <2>2, <3>1, <3>2
    <2>6. \A i \in 1..Len(chain) - 1 : chain[i + 1] = Number(chain[i] + 1)
        <3> TAKE i \in 1..Len(chain) - 1
        <3>1. /\ i \in 1..1 + Ahead + len /\ i + 1 \in 1..1 + Ahead + len
              /\ i - 1 \in Nat /\ (i + 1) - 1 = i
              /\ delivered + (i - 1) \in Nat /\ delivered + (i - 1) + 1 = delivered + i
            BY <2>1, <2>2, <2>4
        <3>2. chain[i] = Number(delivered + (i - 1)) /\ chain[i + 1] = Number(delivered + i)
            BY <2>5, <3>1
        <3>3. Number(Number(delivered + (i - 1)) + 1) = Number(delivered + i)
            BY <3>1, NumberAdd
        <3> QED BY <3>2, <3>3
    <2>7. ~ended => chain[Len(chain)] = accepted
        <3>1. /\ Len(chain) \in 1..1 + Ahead + len
              /\ delivered + (Len(chain) - 1) = delivered + Ahead + len
            BY <2>1, <2>2, <2>4
        <3> QED BY <2>5, <3>1 DEF OrderInv, len
    <2> QED BY <2>6, <2>7 DEF SentInOrder, chain, front
<1>2. DriverInv => TypeOK BY DEF DriverInv
<1> QED BY <1>1, <1>2, AlwaysInv, AlwaysInOrder, PTL

\* A driver that closes because its session asked to has sent all it accepted.
THEOREM LastWordsGoOut == Spec => []FlushedFirst
<1>1. Flushed => FlushedFirst BY DEF Flushed, FlushedFirst
<1> QED BY <1>1, AlwaysInOrder, PTL

----------------------------------------------------------------------------
(* Frames.                                                                 *)

Frame(keys, kind, body) == [keys |-> keys, kind |-> kind, body |-> body]

Keys       == 0..MaxKeys
Signals    == [keys : Keys, kind : {"hello", "part", "cancel"}, body : {None}] \cup [keys : Keys, kind : {"hello"}]
Handshakes == {m \in [keys : Keys, kind : {"handshake"}, body : {None}] : m.keys < MaxKeys}
DownFrames ==
    Signals \cup Handshakes
    \cup [keys : Keys, kind : {"activate"}, body : SUBSET Roles]
    \cup [keys : Keys, kind : {"startPlayer", "audio"}, body : 0..MaxStreams]
    \cup [keys : Keys, kind : {"startArtwork"}, body : Configs \cup {None}]
    \cup [keys : Keys, kind : {"announce"}, body : 0..MaxParts]
    \cup [keys : Keys, kind : {"end"}, body : {"player", "artwork"}]
    \cup [keys : Keys, kind : {"source"}, body : BOOLEAN]

Reports  == [available : BOOLEAN, roles : SUBSET Roles, config : Configs]
UpFrames ==
    [keys : Keys, kind : {"handshake", "hello", "startSource", "endSource"}, body : {None}]
    \cup [keys : Keys, kind : {"state"}, body : Reports]

LEMMA DownSent ==
    ASSUME NEW k \in Keys
    PROVE  /\ \A t \in {"hello", "part", "cancel"} : Frame(k, t, None) \in DownFrames
           /\ k < MaxKeys => Frame(k, "handshake", None) \in DownFrames
           /\ \A roles \in SUBSET Roles : Frame(k, "activate", roles) \in DownFrames
           /\ \A s \in 0..MaxStreams : Frame(k, "startPlayer", s) \in DownFrames /\ Frame(k, "audio", s) \in DownFrames
           /\ \A c \in Configs \cup {None} : Frame(k, "startArtwork", c) \in DownFrames
           /\ \A p \in 0..MaxParts : Frame(k, "announce", p) \in DownFrames
           /\ \A r \in {"player", "artwork"} : Frame(k, "end", r) \in DownFrames
           /\ \A b \in BOOLEAN : Frame(k, "source", b) \in DownFrames
<1> DEFINE F(t, b) == Frame(k, t, b)
<1>1. \A t, b : F(t, b).keys = k /\ F(t, b).kind = t /\ F(t, b).body = b
  BY DEF Frame
<1>2. \A t \in {"hello", "part", "cancel"} : Frame(k, t, None) \in DownFrames
  BY DEF Frame, DownFrames, Signals
<1>3. k < MaxKeys => Frame(k, "handshake", None) \in DownFrames
  BY DEF Frame, DownFrames, Handshakes
<1>4. \A roles \in SUBSET Roles : Frame(k, "activate", roles) \in DownFrames
  BY DEF Frame, DownFrames
<1>5. \A s \in 0..MaxStreams : Frame(k, "startPlayer", s) \in DownFrames /\ Frame(k, "audio", s) \in DownFrames
  BY DEF Frame, DownFrames
<1>6. \A c \in Configs \cup {None} : Frame(k, "startArtwork", c) \in DownFrames
  BY DEF Frame, DownFrames
<1>7. \A p \in 0..MaxParts : Frame(k, "announce", p) \in DownFrames
  BY DEF Frame, DownFrames
<1>8. \A r \in {"player", "artwork"} : Frame(k, "end", r) \in DownFrames
  BY DEF Frame, DownFrames
<1>9. \A b \in BOOLEAN : Frame(k, "source", b) \in DownFrames
  BY DEF Frame, DownFrames
<1> QED
  BY <1>2, <1>3, <1>4, <1>5, <1>6, <1>7, <1>8, <1>9

LEMMA UpSent ==
    ASSUME NEW k \in Keys
    PROVE  /\ \A t \in {"handshake", "hello", "startSource", "endSource"} : Frame(k, t, None) \in UpFrames
           /\ \A r \in Reports : Frame(k, "state", r) \in UpFrames
BY DEF Frame, UpFrames

LEMMA FrameIs ==
    \A k, t, b : Frame(k, t, b).keys = k /\ Frame(k, t, b).kind = t /\ Frame(k, t, b).body = b
BY DEF Frame

LEMMA DownKinds ==
    ASSUME NEW m \in DownFrames
    PROVE  /\ m.keys \in Keys
           /\ m.kind \in {"hello", "part", "cancel", "handshake", "activate", "startPlayer", "audio", "startArtwork",
                          "announce", "end", "source"}
           /\ m.kind = "handshake" => m.keys < MaxKeys
           /\ m.kind = "activate" => m.body \in SUBSET Roles
           /\ m.kind = "startPlayer" => m.body \in 0..MaxStreams
           /\ m.kind = "startArtwork" => m.body \in Configs \cup {None}
           /\ m.kind = "announce" => m.body \in 0..MaxParts
           /\ m.kind = "source" => m.body \in BOOLEAN
BY DEF DownFrames, Signals, Handshakes

LEMMA UpKinds ==
    ASSUME NEW m \in UpFrames
    PROVE  /\ m.kind \in {"handshake", "hello", "startSource", "endSource", "state"}
           /\ m.kind = "state" => m.body \in Reports
BY DEF UpFrames

\* A list of frames is sent one frame after another.
LEMMA SealedOne == \A k, t, b : Sealed(k, <<<<t, b>>>>) = <<Frame(k, t, b)>>
<1> SUFFICES ASSUME NEW k, NEW t, NEW b PROVE Sealed(k, <<<<t, b>>>>) = <<Frame(k, t, b)>>
  OBVIOUS
<1> QED
  BY DEF Sealed, Frame

LEMMA SealedNone == \A k : Sealed(k, <<>>) = <<>>
BY DEF Sealed

LEMMA SendsOne ==
    ASSUME NEW S, NEW q \in Seq(S), NEW k, NEW t, NEW b, Frame(k, t, b) \in S
    PROVE  q \o Sealed(k, <<<<t, b>>>>) = Append(q, Frame(k, t, b))
<1>1. Sealed(k, <<<<t, b>>>>) = <<Frame(k, t, b)>>
  BY SealedOne
<1>2. q \o <<Frame(k, t, b)>> = Append(q, Frame(k, t, b))
  BY AppendIsConcat
<1> QED
  BY <1>1, <1>2

LEMMA SendsOn ==
    ASSUME NEW P, NEW x \in Seq(P), NEW y \in Seq(P), NEW S, NEW q \in Seq(S), NEW k,
           Sealed(k, x) \in Seq(S), Sealed(k, y) \in Seq(S)
    PROVE  q \o Sealed(k, x \o y) = (q \o Sealed(k, x)) \o Sealed(k, y)
<1>1. Sealed(k, x \o y) = Sealed(k, x) \o Sealed(k, y)
  <2>1. ASSUME NEW z \in Seq(P)
        PROVE  /\ Len(z) \in Nat /\ DOMAIN z = 1..Len(z)
               /\ Sealed(k, z) = [i \in 1..Len(z) |-> Frame(k, z[i][1], z[i][2])]
               /\ Len(Sealed(k, z)) = Len(z)
    <3>1. Len(z) \in Nat /\ DOMAIN z = 1..Len(z)
      OBVIOUS
    <3>2. Sealed(k, z) = [i \in 1..Len(z) |-> Frame(k, z[i][1], z[i][2])]
      BY <3>1 DEF Sealed, Frame
    <3> QED
      BY <3>1, <3>2
  <2>2. /\ x \o y \in Seq(P) /\ Len(x \o y) = Len(x) + Len(y)
        /\ \A i \in 1..Len(x) : (x \o y)[i] = x[i]
        /\ \A i \in Len(x) + 1..Len(x) + Len(y) : (x \o y)[i] = y[i - Len(x)]
    BY ConcatProperties
  <2> DEFINE l == Sealed(k, x \o y)
             r == Sealed(k, x) \o Sealed(k, y)
  <2>3. /\ r \in Seq(S) /\ Len(r) = Len(x) + Len(y)
        /\ \A i \in 1..Len(x) : r[i] = Sealed(k, x)[i]
        /\ \A i \in Len(x) + 1..Len(x) + Len(y) : r[i] = Sealed(k, y)[i - Len(x)]
    <3>1. Len(Sealed(k, x)) = Len(x) /\ Len(Sealed(k, y)) = Len(y)
      BY <2>1
    <3>2. ASSUME NEW u \in Seq(S), NEW w \in Seq(S)
          PROVE  /\ u \o w \in Seq(S) /\ Len(u \o w) = Len(u) + Len(w)
                 /\ \A i \in 1..Len(u) : (u \o w)[i] = u[i]
                 /\ \A i \in Len(u) + 1..Len(u) + Len(w) : (u \o w)[i] = w[i - Len(u)]
      BY ConcatProperties
    <3>3. /\ r \in Seq(S) /\ Len(r) = Len(Sealed(k, x)) + Len(Sealed(k, y))
          /\ \A i \in 1..Len(Sealed(k, x)) : r[i] = Sealed(k, x)[i]
          /\ \A i \in Len(Sealed(k, x)) + 1..Len(Sealed(k, x)) + Len(Sealed(k, y)) :
                r[i] = Sealed(k, y)[i - Len(Sealed(k, x))]
      BY <3>2
    <3> HIDE DEF r
    <3> QED
      BY <3>1, <3>3
  <2>4. /\ Len(l) = Len(x) + Len(y)
        /\ l = [i \in 1..Len(x) + Len(y) |-> Frame(k, (x \o y)[i][1], (x \o y)[i][2])]
    BY <2>1, <2>2
  <2>5. Len(x) \in Nat /\ Len(y) \in Nat
    BY <2>1
  <2>6. ASSUME NEW i \in 1..Len(x) + Len(y)
        PROVE  l[i] = r[i]
    <3>1. l[i] = Frame(k, (x \o y)[i][1], (x \o y)[i][2])
      BY <2>4
    <3>2. CASE i \in 1..Len(x)
      BY <2>1, <2>2, <2>3, <3>1, <3>2
    <3>3. CASE i \in Len(x) + 1..Len(x) + Len(y)
      <4>1. i - Len(x) \in 1..Len(y)
        BY <2>5, <3>3
      <4> QED
        BY <2>1, <2>2, <2>3, <3>1, <3>3, <4>1
    <3>4. ASSUME NEW a \in Nat, NEW b \in Nat, NEW j \in 1..a + b
          PROVE  j \in 1..a \/ j \in a + 1..a + b
      OBVIOUS
    <3>5. i \in 1..Len(x) \/ i \in Len(x) + 1..Len(x) + Len(y)
      BY <2>5, <3>4
    <3> QED
      BY <3>2, <3>3, <3>5
  <2>7. l \in Seq(S)
    <3>1. \A i \in 1..Len(x) + Len(y) : r[i] \in S
      BY <2>3, ElementOfSeq
    <3>2. \A i \in 1..Len(x) + Len(y) : l[i] \in S
      BY <2>6, <3>1
    <3>3. l \in [1..Len(x) + Len(y) -> S]
      BY <2>4, <3>2
    <3>4. ASSUME NEW n \in Nat, NEW f \in [1..n -> S]
          PROVE  f \in Seq(S)
      BY IsASeq
    <3>5. Len(x) + Len(y) \in Nat
      BY <2>5
    <3> QED
      BY <3>3, <3>4, <3>5
  <2> HIDE DEF l, r
  <2> QED
    BY <2>3, <2>4, <2>6, <2>7, SeqEqual DEF l, r
<1> QED
  BY <1>1, ConcatAssociative

----------------------------------------------------------------------------
(* The client followed through the frames on their way to it.              *)

\* What of the client the stream messages concern.
Views == [phase : {"hello", "provisional", "active", "closed"}, keys : Keys, roles : SUBSET Roles,
          stream : 0..MaxStreams, artwork : Configs \cup {None}, transfer : 0..MaxParts,
          carried : SUBSET Roles]
View(c) == [phase |-> c.phase, keys |-> c.keys, roles |-> c.roles,
            stream |-> c.stream, artwork |-> c.artwork, transfer |-> c.transfer, carried |-> c.carried]

Counts(v) == v.phase = "active" /\ "artwork" \in v.roles /\ v.artwork # None
Plays(v)  == v.phase = "active" /\ "player" \in v.roles

\* It after a frame that it could read,
Taken(v, m) ==
    CASE m.kind = "handshake" -> [v EXCEPT !.phase = "hello", !.keys = @ + 1, !.roles = {},
                                             !.carried = @ \cup v.roles]
      [] m.kind = "hello" -> IF v.phase = "hello" THEN [v EXCEPT !.phase = "provisional"] ELSE v
      [] m.kind = "activate" ->
            [v EXCEPT !.phase = "active", !.roles = m.body, !.carried = @ \cap m.body,
                      !.stream = IF Plays(v) /\ "player" \notin m.body THEN None ELSE @,
                      !.artwork = IF "artwork" \notin m.body THEN None ELSE @,
                      !.transfer = IF "artwork" \notin m.body /\ v.artwork # None THEN 0 ELSE @]
      [] m.kind = "startPlayer" -> IF Plays(v) THEN [v EXCEPT !.stream = m.body] ELSE v
      [] m.kind = "startArtwork" ->
            IF v.phase = "active" /\ "artwork" \in v.roles
            THEN [v EXCEPT !.artwork = m.body,
                           !.transfer = IF v.artwork \notin {None, m.body} THEN 0 ELSE @]
            ELSE v
      [] m.kind = "end" -> IF v.phase # "active" THEN v
                           ELSE IF m.body = "player" THEN [v EXCEPT !.stream = None]
                           ELSE [v EXCEPT !.artwork = None, !.transfer = IF v.artwork # None THEN 0 ELSE @]
      [] m.kind = "announce" -> IF ~Counts(v) THEN v
                                ELSE IF v.transfer > 0 THEN [v EXCEPT !.phase = "closed"]
                                ELSE [v EXCEPT !.transfer = m.body]
      [] m.kind = "part" -> IF Counts(v) THEN [v EXCEPT !.transfer = @ - 1] ELSE v
      [] m.kind = "cancel" -> IF Counts(v) THEN [v EXCEPT !.transfer = 0] ELSE v
      [] OTHER -> v

\* or after one that it could not.
Reads(v, m) == v.phase # "closed" /\ m.keys = v.keys
After(v, m) == IF Reads(v, m) THEN Taken(v, m) ELSE [v EXCEPT !.phase = "closed"]

\* The frame is none it closes over, unless it has kept a transfer of before a
\* re-handshake; and audio is of the stream it has open.
Expected(v, m) ==
    Reads(v, m) =>
        /\ m.kind = "audio" => Plays(v) /\ v.stream = m.body
        /\ m.kind = "announce" /\ Counts(v) => v.transfer = 0 \/ "artwork" \in v.carried
        /\ m.kind = "part" /\ Counts(v) => v.transfer > 0

\* It will be w once it has taken the frames q, each of them expected.
Reaches(v, q, w) ==
    \E t : /\ t[0] = v /\ t[Len(q)] = w
           /\ \A n \in 0..Len(q) : t[n] \in Views
           /\ \A n \in 1..Len(q) : Expected(t[n - 1], q[n]) /\ t[n] = After(t[n - 1], q[n])

LEMMA ViewIs ==
    ASSUME NEW c
    PROVE  /\ View(c).phase = c.phase /\ View(c).keys = c.keys /\ View(c).roles = c.roles
           /\ View(c).stream = c.stream /\ View(c).artwork = c.artwork /\ View(c).transfer = c.transfer
           /\ View(c).carried = c.carried
BY DEF View

LEMMA ViewType == ASSUME NEW c \in ClientStates PROVE View(c) \in Views
BY DEF View, Views, ClientStates, Keys

LEMMA AfterType ==
    ASSUME NEW v \in Views, NEW m \in DownFrames, Expected(v, m)
    PROVE  After(v, m) \in Views
<1>1. CASE ~Reads(v, m)
  BY <1>1 DEF After, Views
<1>2. CASE Reads(v, m)
  <2>1. After(v, m) = Taken(v, m)
    BY <1>2 DEF After
  <2>2. v.keys = m.keys
    BY <1>2 DEF Reads
  <2>3. CASE m.kind = "handshake"
    <3>1. v.keys + 1 \in Keys
      BY <2>2, <2>3, DownKinds, StreamsAssumption DEF Keys
    <3> QED
      BY <2>1, <2>3, <3>1 DEF Taken, Views
  <2>4. CASE m.kind \in {"hello", "cancel"}
    <3>1. 0 \in 0..MaxParts
      BY StreamsAssumption
    <3> QED
      BY <2>1, <2>4, <3>1 DEF Taken, Views
  <2>5. CASE m.kind = "activate"
    <3>1. 0 \in 0..MaxParts /\ None \in 0..MaxStreams
      BY StreamsAssumption DEF None
    <3>2. PICK b \in SUBSET Roles, c \in SUBSET Roles : b = m.body /\ c = v.carried \cap m.body
      <4>1. m.body \in SUBSET Roles /\ v.carried \in SUBSET Roles
        BY <2>5, DownKinds DEF Views
      <4> QED
        BY <4>1
    <3>3. PICK st \in 0..MaxStreams : st = IF Plays(v) /\ "player" \notin b THEN None ELSE v.stream
      BY <3>1 DEF Views
    <3>4. PICK ar \in Configs \cup {None} : ar = IF "artwork" \notin b THEN None ELSE v.artwork
      BY DEF Views
    <3>5. PICK x \in 0..MaxParts : x = IF "artwork" \notin b /\ v.artwork # None THEN 0 ELSE v.transfer
      BY <3>1 DEF Views
    <3>6. Taken(v, m) = [v EXCEPT !.phase = "active", !.roles = b, !.carried = c, !.stream = st, !.artwork = ar,
                                  !.transfer = x]
      BY <2>5, <3>2, <3>3, <3>4, <3>5 DEF Taken, Views
    <3>7. [v EXCEPT !.phase = "active", !.roles = b, !.carried = c, !.stream = st, !.artwork = ar, !.transfer = x] \in Views
      BY DEF Views
    <3> QED
      BY <2>1, <3>6, <3>7
  <2>6. CASE m.kind \in {"startPlayer", "startArtwork"}
    <3>1. 0 \in 0..MaxParts
      BY StreamsAssumption
    <3>2. /\ m.kind = "startPlayer" => m.body \in 0..MaxStreams
          /\ m.kind = "startArtwork" => m.body \in Configs \cup {None}
      BY DownKinds
    <3> QED
      BY <2>1, <2>6, <3>1, <3>2 DEF Taken, Views
  <2>7. CASE m.kind = "end"
    <3>1. 0 \in 0..MaxParts /\ None \in 0..MaxStreams
      BY StreamsAssumption DEF None
    <3> QED
      BY <2>1, <2>7, <3>1 DEF Taken, Views
  <2>8. CASE m.kind = "announce"
    <3>1. m.body \in 0..MaxParts
      BY <2>8, DownKinds
    <3> QED
      BY <2>1, <2>8, <3>1 DEF Taken, Views
  <2>9. CASE m.kind = "part"
    <3>1. Counts(v) => v.transfer - 1 \in 0..MaxParts
      <4>1. v.transfer \in 0..MaxParts
        BY DEF Views
      <4>2. Counts(v) => v.transfer > 0
        BY <1>2, <2>9 DEF Expected
      <4>3. ASSUME NEW k \in Nat, NEW x \in 0..k, x > 0
            PROVE  x - 1 \in 0..k
        BY <4>3
      <4>4. MaxParts \in Nat
        BY StreamsAssumption
      <4> QED
        BY <4>1, <4>2, <4>3, <4>4
    <3> QED
      BY <2>1, <2>9, <3>1 DEF Taken, Views
  <2>10. CASE m.kind \in {"audio", "source"}
    BY <2>1, <2>10 DEF Taken, Views
  <2> QED
    BY <2>3, <2>4, <2>5, <2>6, <2>7, <2>8, <2>9, <2>10, DownKinds
<1> QED
  BY <1>1, <1>2

LEMMA ReachesNone == ASSUME NEW v \in Views PROVE Reaches(v, <<>>, v)
<1>1. Len(<<>>) = 0 /\ 0..0 = {0} /\ 1..0 = {}
  OBVIOUS
<1> DEFINE t == [n \in 0..0 |-> v]
<1>2. t[0] = v /\ \A n \in 0..0 : t[n] \in Views
  OBVIOUS
<1> HIDE DEF t
<1> QED
  BY <1>1, <1>2 DEF Reaches

LEMMA ReachesTyped ==
    ASSUME NEW q \in Seq(DownFrames), NEW v, NEW w, Reaches(v, q, w)
    PROVE  v \in Views /\ w \in Views
<1>1. Len(q) \in Nat
  OBVIOUS
<1>2. 0 \in 0..Len(q) /\ Len(q) \in 0..Len(q)
  BY <1>1
<1> QED
  BY <1>2 DEF Reaches

\* A frame more.
LEMMA ReachesMore ==
    ASSUME NEW q \in Seq(DownFrames), NEW v, NEW w, NEW m \in DownFrames, Reaches(v, q, w), Expected(w, m)
    PROVE  Reaches(v, Append(q, m), After(w, m)) /\ After(w, m) \in Views
<1>1. PICK t : /\ t[0] = v /\ t[Len(q)] = w
               /\ \A n \in 0..Len(q) : t[n] \in Views
               /\ \A n \in 1..Len(q) : Expected(t[n - 1], q[n]) /\ t[n] = After(t[n - 1], q[n])
  BY DEF Reaches
<1>2. After(w, m) \in Views
  BY ReachesTyped, AfterType
<1>3. /\ Len(q) \in Nat /\ Len(Append(q, m)) = Len(q) + 1 /\ Append(q, m)[Len(q) + 1] = m
      /\ \A n \in 1..Len(q) : Append(q, m)[n] = q[n]
  OBVIOUS
<1>4. PICK k \in Nat : k = Len(q)
  BY <1>3
<1>5. /\ 0 \in 0..k + 1 /\ 0 <= k /\ k + 1 \in 0..k + 1 /\ ~(k + 1 <= k)
      /\ \A n \in 0..k + 1 : (n \in 0..k /\ n <= k) \/ (n = k + 1 /\ ~(n <= k))
      /\ \A n \in 1..k + 1 : /\ n \in 0..k + 1 /\ n - 1 \in 0..k + 1 /\ n - 1 <= k
                             /\ (n \in 1..k /\ n <= k) \/ (n = k + 1 /\ n - 1 = k /\ ~(n <= k))
  OBVIOUS
<1> DEFINE f == [n \in 0..k + 1 |-> IF n <= k THEN t[n] ELSE After(w, m)]
<1>6. f[0] = v /\ f[k + 1] = After(w, m)
  BY <1>1, <1>5
<1>7. \A n \in 0..k + 1 : f[n] \in Views
  BY <1>1, <1>2, <1>4, <1>5
<1>8. ASSUME NEW n \in 1..k + 1
      PROVE  Expected(f[n - 1], Append(q, m)[n]) /\ f[n] = After(f[n - 1], Append(q, m)[n])
  <2>1. f[n - 1] = t[n - 1]
    BY <1>5
  <2>2. CASE n \in 1..k /\ n <= k
    BY <1>1, <1>3, <1>4, <1>5, <2>1, <2>2
  <2>3. CASE n = k + 1 /\ n - 1 = k /\ ~(n <= k)
    <3>1. f[n - 1] = w
      BY <1>1, <1>4, <2>1, <2>3
    <3>2. f[n] = After(w, m)
      BY <1>5, <2>3
    <3>3. Append(q, m)[n] = m
      BY <1>3, <1>4, <2>3
    <3> HIDE DEF f
    <3> QED
      BY <3>1, <3>2, <3>3
  <2> QED
    BY <1>5, <2>2, <2>3
<1> HIDE DEF f
<1>9. Reaches(v, Append(q, m), After(w, m))
  BY <1>3, <1>4, <1>6, <1>7, <1>8 DEF Reaches
<1> QED
  BY <1>2, <1>9

\* A frame taken.
LEMMA ReachesOn ==
    ASSUME NEW q \in Seq(DownFrames), NEW v, NEW w, Reaches(v, q, w), q # <<>>
    PROVE  Expected(v, q[1]) /\ Reaches(After(v, q[1]), Tail(q), w)
<1>1. PICK t : /\ t[0] = v /\ t[Len(q)] = w
               /\ \A n \in 0..Len(q) : t[n] \in Views
               /\ \A n \in 1..Len(q) : Expected(t[n - 1], q[n]) /\ t[n] = After(t[n - 1], q[n])
  BY DEF Reaches
<1>2. /\ Len(q) \in Nat /\ Len(q) > 0 /\ Len(Tail(q)) = Len(q) - 1
      /\ \A n \in 1..Len(q) - 1 : Tail(q)[n] = q[n + 1]
  OBVIOUS
<1>3. PICK k \in Nat : Len(q) = k + 1
  <2>1. ASSUME NEW i \in Nat, i > 0 PROVE i - 1 \in Nat /\ i = (i - 1) + 1
    BY <2>1
  <2> QED
    BY <1>2, <2>1
<1>4. /\ (k + 1) - 1 = k /\ 0 \in 0..k /\ k \in 0..k /\ 1 \in 1..k + 1 /\ 1 - 1 = 0 /\ 0 + 1 = 1
      /\ \A n \in 0..k : n + 1 \in 0..k + 1
      /\ \A n \in 1..k : /\ n \in 0..k /\ n - 1 \in 0..k /\ n + 1 \in 1..k + 1
                         /\ (n - 1) + 1 = n /\ (n + 1) - 1 = n
  OBVIOUS
<1>5. Expected(v, q[1]) /\ t[1] = After(v, q[1])
  BY <1>1, <1>3, <1>4
<1> DEFINE f == [n \in 0..k |-> t[n + 1]]
<1>6. f[0] = After(v, q[1]) /\ f[k] = w
  BY <1>1, <1>3, <1>4, <1>5
<1>7. \A n \in 0..k : f[n] \in Views
  BY <1>1, <1>3, <1>4
<1>8. \A n \in 1..k : Expected(f[n - 1], Tail(q)[n]) /\ f[n] = After(f[n - 1], Tail(q)[n])
  <2> SUFFICES ASSUME NEW n \in 1..k
               PROVE  Expected(f[n - 1], Tail(q)[n]) /\ f[n] = After(f[n - 1], Tail(q)[n])
    OBVIOUS
  <2>1. f[n - 1] = t[n] /\ f[n] = t[n + 1]
    BY <1>4
  <2>2. Tail(q)[n] = q[n + 1]
    BY <1>2, <1>3, <1>4
  <2>3. Expected(t[n], q[n + 1]) /\ t[n + 1] = After(t[n], q[n + 1])
    BY <1>1, <1>3, <1>4
  <2> HIDE DEF f
  <2> QED
    BY <2>1, <2>2, <2>3
<1>9. Len(Tail(q)) = k
  BY <1>2, <1>3, <1>4
<1> HIDE DEF f
<1>10. Reaches(After(v, q[1]), Tail(q), w)
  BY <1>6, <1>7, <1>8, <1>9 DEF Reaches
<1> QED
  BY <1>5, <1>10

----------------------------------------------------------------------------
(* The server's frames lead the client to where the server is.             *)

\* The client in the state w has what the server in the state s has open, and
\* nothing else unless it has kept it since before a re-handshake.
Images(s, w) ==
    /\ s.artwork # None => w.artwork = s.artwork
    /\ s.transfer > 0 => w.transfer = s.transfer
    /\ "artwork" \notin w.carried => w.artwork = s.artwork /\ w.transfer = s.transfer

\* The client in the state w agrees with the server in the state s.
Matches(s, w) ==
    w.phase # "closed" /\ s.phase # "closed" =>
        /\ w.artwork = None => w.transfer = 0
        /\ s.phase = "active" =>
              /\ w.phase = "active" /\ w.keys = s.keys /\ w.roles = s.roles
              /\ s.stream # None => w.stream = s.stream
              /\ Images(s, w)
        /\ s.phase \in {"hello", "ready"} => w.phase = "provisional" /\ w.keys = s.keys
        /\ s.phase = "rehandshake" => w.phase = "hello" /\ w.keys = s.keys + 1
        /\ s.phase # "active" => w.roles = {} /\ (w.artwork # None => "artwork" \in w.carried)

ServerOK(s) ==
    /\ s \in ServerStates
    /\ s.phase \in {"hello", "ready"} =>
          s.stream = None /\ s.artwork = None /\ s.roles = {} /\ s.sourceOpen = FALSE
    /\ s.artwork # None => "artwork" \in s.roles
    /\ s.artwork = None => s.transfer = 0
    /\ s.phase = "rehandshake" => s.keys < MaxKeys

Road(s, q, v) == ServerOK(s) /\ \E w : Reaches(v, q, w) /\ Matches(s, w)

\* With the frame m the server goes from s to t.
Moves(s, m, t) ==
    /\ ServerOK(t)
    /\ \A w \in Views : Matches(s, w) => Expected(w, m) /\ Matches(t, After(w, m))

LEMMA RoadMore ==
    ASSUME NEW s, NEW t, NEW v, NEW q \in Seq(DownFrames), NEW m \in DownFrames, Road(s, q, v), Moves(s, m, t)
    PROVE  Road(t, Append(q, m), v)
<1>1. PICK w : Reaches(v, q, w) /\ Matches(s, w)
  BY DEF Road
<1>2. w \in Views
  BY <1>1, ReachesTyped
<1>3. Expected(w, m) /\ Matches(t, After(w, m)) /\ ServerOK(t)
  BY <1>1, <1>2 DEF Moves
<1>4. Reaches(v, Append(q, m), After(w, m))
  BY <1>1, <1>3, ReachesMore
<1> QED
  BY <1>3, <1>4 DEF Road

\* Without a frame.
LEMMA RoadStays ==
    ASSUME NEW s, NEW t, NEW v, NEW q \in Seq(DownFrames), Road(s, q, v), ServerOK(t),
           \A w \in Views : Matches(s, w) => Matches(t, w)
    PROVE  Road(t, q, v)
<1>1. PICK w : Reaches(v, q, w) /\ Matches(s, w)
  BY DEF Road
<1>2. w \in Views
  BY <1>1, ReachesTyped
<1> QED
  BY <1>1, <1>2 DEF Road

\* The client takes a frame.
LEMMA RoadOn ==
    ASSUME NEW s, NEW v, NEW q \in Seq(DownFrames), Road(s, q, v), q # <<>>
    PROVE  Expected(v, q[1]) /\ Road(s, Tail(q), After(v, q[1]))
<1>1. PICK w : Reaches(v, q, w) /\ Matches(s, w)
  BY DEF Road
<1>2. Expected(v, q[1]) /\ Reaches(After(v, q[1]), Tail(q), w)
  BY <1>1, ReachesOn
<1> QED
  BY <1>1, <1>2 DEF Road

\* Enough to look at a client that can read the frame.
LEMMA MovesIf ==
    ASSUME NEW s, NEW m, NEW t, ServerOK(t),
           \A w \in Views : Matches(s, w) /\ Reads(w, m) => Expected(w, m) /\ Matches(t, Taken(w, m))
    PROVE  Moves(s, m, t)
<1> SUFFICES ASSUME NEW w \in Views, Matches(s, w)
             PROVE  Expected(w, m) /\ Matches(t, After(w, m))
  BY DEF Moves
<1>1. CASE Reads(w, m)
  BY <1>1 DEF After
<1>2. CASE ~Reads(w, m)
  <2>1. Expected(w, m)
    BY <1>2 DEF Expected
  <2>2. After(w, m).phase = "closed"
    BY <1>2 DEF After, Views
  <2> QED
    BY <2>1, <2>2 DEF Matches
<1> QED
  BY <1>1, <1>2

\* A client that reads what the server sends now is in the server's phase.
LEMMA InStep ==
    ASSUME NEW s, ServerOK(s), s.phase # "closed", NEW w \in Views, Matches(s, w), NEW m, m.keys = s.keys, Reads(w, m)
    PROVE  /\ s.phase # "rehandshake" /\ w.phase # "closed" /\ w.keys = s.keys
           /\ w.artwork = None => w.transfer = 0
           /\ s.phase = "active" =>
                 /\ w.phase = "active" /\ w.roles = s.roles
                 /\ s.stream # None => w.stream = s.stream
                 /\ Images(s, w)
           /\ s.phase \in {"hello", "ready"} =>
                 w.phase = "provisional" /\ w.roles = {} /\ (w.artwork # None => "artwork" \in w.carried)
<1>1. w.phase # "closed" /\ w.keys = s.keys
  BY DEF Reads
<1>2. s.phase # "rehandshake"
  <2>1. w.keys \in Int
    BY StreamsAssumption DEF Views, Keys
  <2>2. s.phase = "rehandshake" => w.keys = s.keys + 1
    BY <1>1 DEF Matches
  <2> QED
    BY <1>1, <2>1, <2>2
<1> QED
  BY <1>1, <1>2 DEF Matches

LEMMA ServerTypes ==
    ASSUME NEW s \in ServerStates
    PROVE  /\ s.phase \in {"hello", "ready", "active", "rehandshake", "closed"} /\ s.keys \in Keys
           /\ s.roles \in SUBSET Roles /\ s.activations \in 0..MaxActivations
           /\ s.heard \in SUBSET Roles /\ s.available \in BOOLEAN /\ s.config \in Configs \cup {None}
           /\ s.stream \in 0..MaxStreams /\ s.artwork \in Configs \cup {None} /\ s.transfer \in 0..MaxParts
           /\ s.sourceStarted \in BOOLEAN /\ s.sourceOpen \in BOOLEAN
           /\ 0 \in 0..MaxParts /\ None \in 0..MaxStreams
BY StreamsAssumption DEF ServerStates, Keys, None

LEMMA StartPlayerMoves ==
    ASSUME NEW s, ServerOK(s), s.phase = "active", "player" \in s.roles, NEW x \in 0..MaxStreams
    PROVE  Moves(s, Frame(s.keys, "startPlayer", x), [s EXCEPT !.stream = x])
<1> DEFINE m == Frame(s.keys, "startPlayer", x)
           t == [s EXCEPT !.stream = x]
<1>1. m.keys = s.keys /\ m.kind = "startPlayer" /\ m.body = x
  BY FrameIs
<1>2. ServerOK(t) /\ t.keys = s.keys
  BY DEF ServerOK, ServerStates
<1>3. ASSUME NEW w \in Views, Matches(s, w), Reads(w, m)
      PROVE  Expected(w, m) /\ Matches(t, Taken(w, m))
  <2>1. /\ w.phase = "active" /\ w.keys = s.keys /\ w.roles = s.roles /\ Images(s, w)
        /\ w.artwork = None => w.transfer = 0
    BY <1>1, <1>3, InStep
  <2>2. Taken(w, m) = [w EXCEPT !.stream = x]
    BY <1>1, <2>1 DEF Taken, Plays
  <2>3. Expected(w, m)
    BY <1>1 DEF Expected
  <2> QED
    BY <2>1, <2>2, <2>3 DEF Matches, Images, ServerOK, ServerStates, Views
<1> HIDE DEF m, t
<1>4. Moves(s, m, t)
  BY <1>1, <1>2, <1>3, MovesIf
<1> QED
  BY <1>4 DEF m, t

LEMMA AudioMoves ==
    ASSUME NEW s, ServerOK(s), s.phase = "active", "player" \in s.roles, s.stream # None
    PROVE  Moves(s, Frame(s.keys, "audio", s.stream), s)
<1> DEFINE m == Frame(s.keys, "audio", s.stream)
<1>1. m.keys = s.keys /\ m.kind = "audio" /\ m.body = s.stream
  BY FrameIs
<1>2. ASSUME NEW w \in Views, Matches(s, w), Reads(w, m)
      PROVE  Expected(w, m) /\ Matches(s, Taken(w, m))
  <2>1. w.phase = "active" /\ w.roles = s.roles /\ w.stream = s.stream
    BY <1>1, <1>2, InStep
  <2>2. Taken(w, m) = w
    BY <1>1 DEF Taken
  <2>3. Expected(w, m)
    BY <1>1, <2>1 DEF Expected, Plays
  <2> QED
    BY <1>2, <2>2, <2>3
<1> HIDE DEF m
<1>3. Moves(s, m, s)
  BY <1>1, <1>2, MovesIf
<1> QED
  BY <1>3 DEF m

LEMMA EndPlayerMoves ==
    ASSUME NEW s, ServerOK(s), s.phase # "closed", s.stream # None
    PROVE  /\ Moves(s, Frame(s.keys, "end", "player"), [s EXCEPT !.stream = None])
           /\ ServerOK([s EXCEPT !.stream = None])
<1> DEFINE m == Frame(s.keys, "end", "player")
           t == [s EXCEPT !.stream = None]
<1>1. m.keys = s.keys /\ m.kind = "end" /\ m.body = "player"
  BY FrameIs
<1>2. ServerOK(t) /\ t.keys = s.keys
  BY ServerTypes DEF ServerOK, ServerStates
<1>3. ASSUME NEW w \in Views, Matches(s, w), Reads(w, m)
      PROVE  Expected(w, m) /\ Matches(t, Taken(w, m))
  <2>0. s.phase = "active"
    BY <1>1, <1>3, InStep, ServerTypes DEF ServerOK
  <2>1. /\ w.phase = "active" /\ w.keys = s.keys /\ w.roles = s.roles /\ Images(s, w)
        /\ w.artwork = None => w.transfer = 0
    BY <1>1, <1>3, <2>0, InStep
  <2>2. Taken(w, m) = [w EXCEPT !.stream = None]
    BY <1>1, <2>1 DEF Taken
  <2>3. Expected(w, m)
    BY <1>1 DEF Expected
  <2> QED
    BY <2>0, <2>1, <2>2, <2>3 DEF Matches, Images, ServerOK, ServerStates, Views
<1> HIDE DEF m, t
<1>4. Moves(s, m, t)
  BY <1>1, <1>2, <1>3, MovesIf
<1> QED
  BY <1>2, <1>4 DEF m, t

\* The frames of a transfer and the end of the stream: the server has artwork
\* open, and what the client has of it is `kept` and `left` afterwards.
LEMMA ArtworkMoves ==
    ASSUME NEW s, ServerOK(s), s.phase # "closed", s.artwork # None,
           NEW kept \in {None, s.artwork}, NEW left \in 0..MaxParts, kept = None => left = 0,
           NEW m, m.keys = s.keys,
           \A w \in Views : w.phase = "active" /\ Counts(w) /\ w.artwork = s.artwork /\ (s.transfer > 0 => w.transfer = s.transfer) =>
               Expected(w, m) /\ Taken(w, m) = [w EXCEPT !.artwork = kept, !.transfer = left]
    PROVE  /\ Moves(s, m, [s EXCEPT !.artwork = kept, !.transfer = left])
           /\ ServerOK([s EXCEPT !.artwork = kept, !.transfer = left])
<1> DEFINE t == [s EXCEPT !.artwork = kept, !.transfer = left]
<1>1. s \in ServerStates /\ "artwork" \in s.roles
  BY DEF ServerOK
<1>2. ServerOK(t) /\ t.keys = s.keys
  BY <1>1 DEF ServerOK, ServerStates
<1>3. ASSUME NEW w \in Views, Matches(s, w), Reads(w, m)
      PROVE  Expected(w, m) /\ Matches(t, Taken(w, m))
  <2>0. s.phase = "active"
    BY <1>3, InStep, ServerTypes DEF ServerOK
  <2>1. /\ w.phase = "active" /\ w.keys = s.keys /\ w.roles = s.roles
        /\ s.stream # None => w.stream = s.stream
        /\ w.artwork = s.artwork /\ (s.transfer > 0 => w.transfer = s.transfer)
    BY <1>3, <2>0, InStep DEF Images
  <2>2. Counts(w)
    BY <1>1, <2>1 DEF Counts
  <2>3. /\ Expected(w, m)
        /\ Taken(w, m) = [w EXCEPT !.artwork = kept, !.transfer = left]
    BY <2>1, <2>2
  <2> QED
    BY <1>1, <2>0, <2>1, <2>3 DEF Matches, Images, ServerStates, Views
<1> HIDE DEF t
<1>4. Moves(s, m, t)
  BY <1>2, <1>3, MovesIf
<1> QED
  BY <1>2, <1>4 DEF t

LEMMA KeepsArtwork ==
    ASSUME NEW s \in ServerStates, NEW left
    PROVE  [s EXCEPT !.artwork = s.artwork, !.transfer = left] = [s EXCEPT !.transfer = left]
BY DEF ServerStates

LEMMA KeepsView ==
    ASSUME NEW w \in Views, NEW left
    PROVE  [w EXCEPT !.artwork = w.artwork, !.transfer = left] = [w EXCEPT !.transfer = left]
BY DEF Views

\* An image announced: a client that has kept a transfer closes over it.
LEMMA AnnounceMoves ==
    ASSUME NEW s, ServerOK(s), s.phase # "closed", s.artwork # None, s.transfer = 0, NEW p \in 0..MaxParts
    PROVE  Moves(s, Frame(s.keys, "announce", p), [s EXCEPT !.transfer = p])
<1> DEFINE m == Frame(s.keys, "announce", p)
           t == [s EXCEPT !.transfer = p]
<1>1. m.keys = s.keys /\ m.kind = "announce" /\ m.body = p
  BY FrameIs
<1>2. s \in ServerStates /\ "artwork" \in s.roles
  BY DEF ServerOK
<1>3. ServerOK(t) /\ t.keys = s.keys
  BY <1>2 DEF ServerOK, ServerStates
<1>4. ASSUME NEW w \in Views, Matches(s, w), Reads(w, m)
      PROVE  Expected(w, m) /\ Matches(t, Taken(w, m))
  <2>0. s.phase = "active"
    BY <1>1, <1>4, InStep, ServerTypes DEF ServerOK
  <2>1. /\ w.phase = "active" /\ w.keys = s.keys /\ w.roles = s.roles /\ w.artwork = s.artwork
        /\ s.stream # None => w.stream = s.stream
        /\ "artwork" \notin w.carried => w.transfer = 0
    BY <1>1, <1>4, <2>0, InStep DEF Images
  <2>2. Counts(w)
    BY <1>2, <2>1 DEF Counts
  <2>3. Expected(w, m)
    <3>1. m.kind = "announce"
      BY <1>1
    <3> HIDE DEF m
    <3> QED
      BY <2>1, <3>1 DEF Expected
  <2>4. CASE w.transfer > 0
    <3>1. Taken(w, m).phase = "closed"
      BY <1>1, <2>2, <2>4 DEF Taken, Views
    <3> QED
      BY <2>3, <3>1 DEF Matches
  <2>5. CASE ~(w.transfer > 0)
    <3>1. Taken(w, m) = [w EXCEPT !.transfer = p]
      BY <1>1, <2>2, <2>5 DEF Taken
    <3> QED
      BY <1>2, <2>0, <2>1, <2>3, <3>1 DEF Matches, Images, ServerStates, Views
  <2> QED
    BY <2>4, <2>5
<1> HIDE DEF m, t
<1>5. Moves(s, m, t)
  BY <1>1, <1>3, <1>4, MovesIf
<1> QED
  BY <1>5 DEF m, t

\* A part of an image.
LEMMA PartMoves ==
    ASSUME NEW s, ServerOK(s), s.phase # "closed", s.artwork # None, s.transfer > 0,
           NEW left \in 0..MaxParts, left = s.transfer - 1
    PROVE  Moves(s, Frame(s.keys, "part", None), [s EXCEPT !.transfer = left])
<1> DEFINE m == Frame(s.keys, "part", None)
           t == [s EXCEPT !.transfer = left]
<1>1. m.keys = s.keys /\ m.kind = "part"
  BY FrameIs
<1>2. s \in ServerStates /\ "artwork" \in s.roles
  BY DEF ServerOK
<1>3. ServerOK(t)
  BY <1>2 DEF ServerOK, ServerStates
<1>4. ASSUME NEW w \in Views, Matches(s, w), Reads(w, m)
      PROVE  Expected(w, m) /\ Matches(t, Taken(w, m))
  <2>1. s.phase = "active"
    BY <1>1, <1>4, InStep, ServerTypes DEF ServerOK
  <2>2. /\ w.phase = "active" /\ w.keys = s.keys /\ w.roles = s.roles
        /\ s.stream # None => w.stream = s.stream
        /\ w.artwork = s.artwork /\ w.transfer = s.transfer
    BY <1>1, <1>4, <2>1, InStep DEF Images
  <2>3. Counts(w)
    BY <1>2, <2>2 DEF Counts
  <2>4. Expected(w, m)
    <3>1. m.kind = "part"
      BY <1>1
    <3> HIDE DEF m
    <3> QED
      BY <2>2, <3>1 DEF Expected
  <2>5. Taken(w, m) = [w EXCEPT !.transfer = left]
    BY <1>1, <2>2, <2>3 DEF Taken
  <2> QED
    BY <1>2, <2>1, <2>2, <2>4, <2>5 DEF Matches, Images, ServerStates, Views
<1> HIDE DEF m, t
<1>5. Moves(s, m, t)
  BY <1>3, <1>4, MovesIf
<1> QED
  BY <1>5 DEF m, t

LEMMA TransferMoves ==
    ASSUME NEW s, ServerOK(s), s.phase # "closed", s.artwork # None
    PROVE  /\ Moves(s, Frame(s.keys, "cancel", None), [s EXCEPT !.transfer = 0])
           /\ ServerOK([s EXCEPT !.transfer = 0])
           /\ s.transfer > 0 => Moves(s, Frame(s.keys, "part", None), [s EXCEPT !.transfer = s.transfer - 1])
           /\ \A p \in 0..MaxParts :
                 s.transfer = 0 => Moves(s, Frame(s.keys, "announce", p), [s EXCEPT !.transfer = p])
           /\ Moves(s, Frame(s.keys, "end", "artwork"), [s EXCEPT !.artwork = None, !.transfer = 0])
           /\ ServerOK([s EXCEPT !.artwork = None, !.transfer = 0])
<1>0. s \in ServerStates /\ s.artwork \in {None, s.artwork} /\ 0 \in 0..MaxParts /\ s.transfer \in 0..MaxParts
  BY ServerTypes DEF ServerOK
<1>1. /\ Moves(s, Frame(s.keys, "cancel", None), [s EXCEPT !.transfer = 0])
      /\ ServerOK([s EXCEPT !.transfer = 0])
  <2>1. PICK m : m = Frame(s.keys, "cancel", None) /\ m.keys = s.keys /\ m.kind = "cancel"
    BY FrameIs
  <2>2. ASSUME NEW w \in Views, Counts(w), w.artwork = s.artwork
        PROVE  Expected(w, m) /\ Taken(w, m) = [w EXCEPT !.artwork = s.artwork, !.transfer = 0]
    <3>1. Taken(w, m) = [w EXCEPT !.transfer = 0]
      BY <2>1, <2>2 DEF Taken
    <3>2. Expected(w, m)
      BY <2>1 DEF Expected
    <3> QED
      BY <2>2, <3>1, <3>2, KeepsView
  <2>3. Moves(s, m, [s EXCEPT !.artwork = s.artwork, !.transfer = 0])
    BY <1>0, <2>1, <2>2, ArtworkMoves
  <2>4. Moves(s, m, [s EXCEPT !.transfer = 0])
    BY <1>0, <2>3, KeepsArtwork
  <2>5. ServerOK([s EXCEPT !.transfer = 0])
    BY <2>4 DEF Moves
  <2> QED
    BY <2>1, <2>4, <2>5
<1>2. ASSUME s.transfer > 0
      PROVE  Moves(s, Frame(s.keys, "part", None), [s EXCEPT !.transfer = s.transfer - 1])
  <2>1. PICK left \in 0..MaxParts : left = s.transfer - 1
    <3>1. ASSUME NEW k \in Nat, NEW x \in 0..k, x > 0
          PROVE  x - 1 \in 0..k
      BY <3>1
    <3>2. MaxParts \in Nat
      BY StreamsAssumption
    <3> QED
      BY <1>0, <1>2, <3>1, <3>2
  <2> QED
    BY <1>2, <2>1, PartMoves
<1>3. ASSUME NEW p \in 0..MaxParts, s.transfer = 0
      PROVE  Moves(s, Frame(s.keys, "announce", p), [s EXCEPT !.transfer = p])
  BY <1>3, AnnounceMoves
<1>4. /\ Moves(s, Frame(s.keys, "end", "artwork"), [s EXCEPT !.artwork = None, !.transfer = 0])
      /\ ServerOK([s EXCEPT !.artwork = None, !.transfer = 0])
  <2>1. PICK m : m = Frame(s.keys, "end", "artwork") /\ m.keys = s.keys /\ m.kind = "end" /\ m.body = "artwork"
    BY FrameIs
  <2>2. ASSUME NEW w \in Views, w.phase = "active", Counts(w)
        PROVE  Expected(w, m) /\ Taken(w, m) = [w EXCEPT !.artwork = None, !.transfer = 0]
    <3>1. Expected(w, m)
      BY <2>1 DEF Expected
    <3>2. w.artwork # None
      BY <2>2 DEF Counts
    <3>3. Taken(w, m) = [w EXCEPT !.artwork = None, !.transfer = 0]
      BY <2>1, <2>2, <3>2 DEF Taken
    <3> QED
      BY <3>1, <3>3
  <2>3. Moves(s, m, [s EXCEPT !.artwork = None, !.transfer = 0])
    BY <1>0, <2>1, <2>2, ArtworkMoves
  <2>4. ServerOK([s EXCEPT !.artwork = None, !.transfer = 0])
    BY <2>3 DEF Moves
  <2> QED
    BY <2>1, <2>3, <2>4
<1> QED
  BY <1>1, <1>2, <1>3, <1>4

LEMMA StartArtworkMoves ==
    ASSUME NEW s, ServerOK(s), s.phase = "active", "artwork" \in s.roles,
           s.artwork \notin {None, s.config} => s.transfer = 0
    PROVE  Moves(s, Frame(s.keys, "startArtwork", s.config), [s EXCEPT !.artwork = s.config])
<1> DEFINE m == Frame(s.keys, "startArtwork", s.config)
           t == [s EXCEPT !.artwork = s.config]
<1>1. m.keys = s.keys /\ m.kind = "startArtwork" /\ m.body = s.config
  BY FrameIs
<1>2. ServerOK(t) /\ t.keys = s.keys
  BY DEF ServerOK, ServerStates
<1>3. ASSUME NEW w \in Views, Matches(s, w), Reads(w, m)
      PROVE  Expected(w, m) /\ Matches(t, Taken(w, m))
  <2>1. /\ w.phase = "active" /\ w.keys = s.keys /\ w.roles = s.roles /\ Images(s, w)
        /\ s.stream # None => w.stream = s.stream
        /\ w.artwork = None => w.transfer = 0
        /\ s.artwork = None => s.transfer = 0
    BY <1>1, <1>3, InStep DEF ServerOK
  <2>2. Taken(w, m) = [w EXCEPT !.artwork = s.config, !.transfer = IF w.artwork \notin {None, s.config} THEN 0 ELSE @]
    BY <1>1, <2>1 DEF Taken
  <2>3. PICK a : a = Taken(w, m)
    OBVIOUS
  <2>4. /\ a.phase = "active" /\ a.keys = s.keys /\ a.roles = s.roles /\ a.stream = w.stream
        /\ a.carried = w.carried /\ a.artwork = s.config
        /\ a.transfer = IF w.artwork \notin {None, s.config} THEN 0 ELSE w.transfer
    BY <2>1, <2>2, <2>3 DEF Views
  <2>5. s.config = None => s.transfer = 0
    BY DEF ServerOK
  <2>6. t.phase = "active" /\ t.keys = s.keys /\ t.roles = s.roles /\ t.stream = s.stream
        /\ t.artwork = s.config /\ t.transfer = s.transfer
    BY DEF ServerOK, ServerStates
  <2>7. s.config = None => a.transfer = 0
    BY <2>1, <2>4
  <2>8. Images(t, a)
    BY <2>1, <2>4, <2>6, ServerTypes DEF Images, ServerOK
  <2>9. Expected(w, m)
    BY <1>1 DEF Expected
  <2> HIDE DEF t
  <2>10. Matches(t, a)
    BY <2>1, <2>4, <2>6, <2>7, <2>8 DEF Matches
  <2> QED
    BY <2>3, <2>9, <2>10
<1> HIDE DEF m, t
<1>4. Moves(s, m, t)
  BY <1>1, <1>2, <1>3, MovesIf
<1> QED
  BY <1>4 DEF m, t

LEMMA SourceMoves ==
    ASSUME NEW s, ServerOK(s), NEW start \in BOOLEAN
    PROVE  Moves(s, Frame(s.keys, "source", start), [s EXCEPT !.sourceStarted = start])
<1> DEFINE m == Frame(s.keys, "source", start)
           t == [s EXCEPT !.sourceStarted = start]
<1>1. m.keys = s.keys /\ m.kind = "source" /\ m.body = start
  BY FrameIs
<1>2. ServerOK(t) /\ t.keys = s.keys
  BY DEF ServerOK, ServerStates
<1>3. ASSUME NEW w \in Views, Matches(s, w), Reads(w, m)
      PROVE  Expected(w, m) /\ Matches(t, Taken(w, m))
  <2>1. Taken(w, m) = w
    BY <1>1 DEF Taken
  <2>2. Expected(w, m)
    BY <1>1 DEF Expected
  <2> QED
    BY <1>3, <2>1, <2>2 DEF Matches, Images, ServerOK, ServerStates
<1> HIDE DEF m, t
<1>4. Moves(s, m, t)
  BY <1>1, <1>2, <1>3, MovesIf
<1> QED
  BY <1>4 DEF m, t

\* An activation, once the streams of the roles it takes away have ended.
LEMMA ActivateMoves ==
    ASSUME NEW s, ServerOK(s), s.phase \in {"ready", "active"}, NEW roles \in SUBSET Roles,
           s.artwork # None => "artwork" \in roles, s.stream # None => "player" \in roles,
           NEW t, t \in ServerStates, t.phase = "active", t.roles = roles, t.keys = s.keys,
           t.stream = s.stream, t.artwork = s.artwork, t.transfer = s.transfer
    PROVE  Moves(s, Frame(s.keys, "activate", roles), t)
<1> DEFINE m == Frame(s.keys, "activate", roles)
<1>1. m.keys = s.keys /\ m.kind = "activate" /\ m.body = roles
  BY FrameIs
<1>2. ServerOK(t)
  BY DEF ServerOK
<1>3. ASSUME NEW w \in Views, Matches(s, w), Reads(w, m)
      PROVE  Expected(w, m) /\ Matches(t, Taken(w, m))
  <2>1. /\ w.phase # "closed" /\ w.keys = s.keys
        /\ w.artwork = None => w.transfer = 0
        /\ s.phase = "active" =>
              /\ w.phase = "active" /\ w.roles = s.roles
              /\ s.stream # None => w.stream = s.stream
              /\ Images(s, w)
        /\ s.phase = "ready" => w.phase = "provisional" /\ (w.artwork # None => "artwork" \in w.carried)
    BY <1>1, <1>3, InStep
  <2>2. Expected(w, m)
    BY <1>1 DEF Expected
  <2>3. PICK a : a = Taken(w, m)
    OBVIOUS
  <2>4. /\ a.phase = "active" /\ a.roles = roles /\ a.keys = w.keys /\ a.carried = w.carried \cap roles
        /\ a.stream = IF Plays(w) /\ "player" \notin roles THEN None ELSE w.stream
        /\ a.artwork = IF "artwork" \notin roles THEN None ELSE w.artwork
        /\ a.transfer = IF "artwork" \notin roles /\ w.artwork # None THEN 0 ELSE w.transfer
    BY <1>1, <2>3 DEF Taken, Views
  <2>5. CASE s.phase = "active"
    <3>1. s.artwork = None => s.transfer = 0
      BY DEF ServerOK
    <3>2. Images(t, a)
      BY <2>1, <2>4, <2>5, <3>1 DEF Images
    <3> QED
      BY <2>1, <2>2, <2>3, <2>4, <2>5, <3>2 DEF Matches, ServerOK
  <2>6. CASE s.phase = "ready"
    <3>1. s.stream = None /\ s.artwork = None /\ s.transfer = 0
      BY <2>6 DEF ServerOK
    <3>2. "artwork" \notin a.carried => a.artwork = None /\ a.transfer = 0
      BY <2>1, <2>4, <2>6
    <3>3. Images(t, a) /\ (a.artwork = None => a.transfer = 0)
      BY <2>1, <2>4, <3>1, <3>2 DEF Images
    <3> QED
      BY <2>1, <2>2, <2>3, <2>4, <3>1, <3>3 DEF Matches
  <2> QED
    BY <2>5, <2>6
<1> HIDE DEF m
<1>4. Moves(s, m, t)
  BY <1>1, <1>2, <1>3, MovesIf
<1> QED
  BY <1>4 DEF m

LEMMA HandshakeMoves ==
    ASSUME NEW s, ServerOK(s), s.phase \in {"ready", "active"}, s.keys < MaxKeys
    PROVE  Moves(s, Frame(s.keys, "handshake", None), [s EXCEPT !.phase = "rehandshake"])
<1> DEFINE m == Frame(s.keys, "handshake", None)
           t == [s EXCEPT !.phase = "rehandshake"]
<1>1. m.keys = s.keys /\ m.kind = "handshake"
  BY FrameIs
<1>2. s \in ServerStates
  BY DEF ServerOK
<1>3. t \in ServerStates
  BY <1>2 DEF ServerStates
<1>4. /\ t.phase = "rehandshake" /\ t.keys = s.keys /\ t.roles = s.roles
      /\ t.artwork = s.artwork /\ t.transfer = s.transfer
  BY <1>2 DEF ServerStates
<1>5. ServerOK(t)
  BY <1>3, <1>4 DEF ServerOK
<1>6. ASSUME NEW w \in Views, Matches(s, w), Reads(w, m)
      PROVE  Expected(w, m) /\ Matches(t, Taken(w, m))
  <2>1. /\ w.phase # "closed" /\ w.keys = s.keys
        /\ w.artwork = None => w.transfer = 0
        /\ s.phase = "active" => w.roles = s.roles /\ Images(s, w)
        /\ s.phase = "ready" => (w.artwork # None => "artwork" \in w.carried)
    BY <1>1, <1>6, InStep
  <2>2. Expected(w, m)
    BY <1>1 DEF Expected
  <2>3. PICK a : a = Taken(w, m)
    OBVIOUS
  <2>4. a.phase = "hello" /\ a.roles = {} /\ a.keys = w.keys + 1 /\ a.artwork = w.artwork /\ a.transfer = w.transfer
        /\ a.carried = w.carried \cup w.roles
    BY <1>1, <2>3 DEF Taken, Views
  <2>5. w.artwork # None => "artwork" \in a.carried
    BY <1>4, <2>1, <2>4 DEF ServerOK, Images
  <2> HIDE DEF t
  <2> QED
    BY <1>4, <2>1, <2>2, <2>3, <2>4, <2>5 DEF Matches
<1> HIDE DEF m, t
<1>7. Moves(s, m, t)
  BY <1>1, <1>4, <1>5, <1>6, MovesIf
<1> QED
  BY <1>7 DEF m, t

LEMMA FreshType == ASSUME NEW k \in Keys PROVE FreshServer(k) \in ServerStates
<1>1. 0 \in 0..MaxActivations /\ 0 \in 0..MaxStreams /\ 0 \in 0..MaxParts
  BY StreamsAssumption
<1>2. {} \in SUBSET Roles
  OBVIOUS
<1> QED
  BY <1>1, <1>2 DEF FreshServer, ServerStates, Keys, None

LEMMA HelloMoves ==
    ASSUME NEW s, ServerOK(s), s.phase = "rehandshake"
    PROVE  Moves(s, Frame(s.keys + 1, "hello", None), FreshServer(s.keys + 1))
<1> DEFINE m == Frame(s.keys + 1, "hello", None)
           t == FreshServer(s.keys + 1)
<1>1. m.keys = s.keys + 1 /\ m.kind = "hello"
  BY FrameIs
<1>2. s \in ServerStates /\ s.keys + 1 \in Keys
  BY ServerTypes, StreamsAssumption DEF ServerOK, Keys
<1>3. t \in ServerStates
  BY <1>2, FreshType
<1>4. /\ t.phase = "hello" /\ t.keys = s.keys + 1 /\ t.roles = {}
      /\ t.stream = None /\ t.artwork = None /\ t.transfer = 0 /\ t.sourceOpen = FALSE
  BY DEF FreshServer
<1>5. ServerOK(t)
  BY <1>3, <1>4 DEF ServerOK
<1>6. ASSUME NEW w \in Views, Matches(s, w), Reads(w, m)
      PROVE  Expected(w, m) /\ Matches(t, Taken(w, m))
  <2>1. /\ w.phase = "hello" /\ w.keys = s.keys + 1 /\ w.roles = {} /\ (w.artwork # None => "artwork" \in w.carried)
        /\ w.artwork = None => w.transfer = 0
    BY <1>6 DEF Matches, Reads
  <2>2. Expected(w, m)
    BY <1>1 DEF Expected
  <2>3. PICK a : a = Taken(w, m)
    OBVIOUS
  <2>4. /\ a.phase = "provisional" /\ a.roles = w.roles /\ a.keys = w.keys
        /\ a.artwork = w.artwork /\ a.transfer = w.transfer /\ a.carried = w.carried
    BY <1>1, <2>1, <2>3 DEF Taken, Views
  <2> HIDE DEF t
  <2> QED
    BY <1>4, <2>1, <2>2, <2>3, <2>4 DEF Matches
<1> HIDE DEF m, t
<1>7. Moves(s, m, t)
  BY <1>1, <1>4, <1>5, <1>6, MovesIf
<1> QED
  BY <1>7 DEF m, t

----------------------------------------------------------------------------
(* The input stream: what has it lapse, and what the server is told of it. *)

Drops(m) == m.kind = "handshake" \/ (m.kind = "activate" /\ "source" \notin m.body)
Gives(m) == m.kind = "activate" /\ "source" \in m.body

\* An activation or a re-handshake on its way takes the role away.
Lapses(q) == \E n \in 1..Len(q) : Drops(q[n])

\* Each that gives it is of the role the server still means the client to have.
Covered(q, has) == \A n \in 1..Len(q) : Gives(q[n]) => has \/ \E k \in n..Len(q) : Drops(q[k])

\* The frames are of other things.
SameSource(q, r) == (Lapses(r) <=> Lapses(q)) /\ \A has \in BOOLEAN : Covered(q, has) => Covered(r, has)

\* The last the server hears of the stream is whether it is open, if it hears
\* of it at all.
Speaks(m) == m.kind \in {"startSource", "endSource"}
Silent(q) == \A n \in 1..Len(q) : ~Speaks(q[n])
Told(q, open) ==
    \A n \in 1..Len(q) :
        Speaks(q[n]) /\ (\A k \in n + 1..Len(q) : ~Speaks(q[k])) => (q[n].kind = "startSource" <=> open)

LEMMA Appended ==
    ASSUME NEW S, NEW q \in Seq(S), NEW m \in S
    PROVE  /\ Append(q, m) \in Seq(S)
           /\ \E k \in Nat : /\ Len(q) = k /\ Len(Append(q, m)) = k + 1 /\ Append(q, m)[k + 1] = m
                             /\ \A n \in 1..k : Append(q, m)[n] = q[n]
                             /\ k + 1 \in 1..k + 1 /\ \A n \in 1..k : n \in 1..k + 1
                             /\ \A n \in 1..k + 1 : n \in 1..k \/ n = k + 1
<1>1. Append(q, m) \in Seq(S) /\ Len(q) \in Nat /\ Len(Append(q, m)) = Len(q) + 1
  OBVIOUS
<1>2. Append(q, m)[Len(q) + 1] = m /\ \A n \in 1..Len(q) : Append(q, m)[n] = q[n]
  OBVIOUS
<1>3. \A k \in Nat : k + 1 \in 1..k + 1 /\ (\A n \in 1..k : n \in 1..k + 1) /\ (\A n \in 1..k + 1 : n \in 1..k \/ n = k + 1)
  OBVIOUS
<1> QED
  BY <1>1, <1>2, <1>3

LEMMA TookHead ==
    ASSUME NEW S, NEW q \in Seq(S), q # <<>>
    PROVE  /\ Tail(q) \in Seq(S) /\ Head(q) = q[1] /\ q[1] \in S
           /\ \E k \in Nat : /\ Len(q) = k + 1 /\ Len(Tail(q)) = k
                             /\ \A n \in 1..k : Tail(q)[n] = q[n + 1]
                             /\ 1 \in 1..k + 1 /\ \A n \in 1..k : n + 1 \in 1..k + 1
                             /\ \A n \in 1..k + 1 : n = 1 \/ \E i \in 1..k : n = i + 1
<1>1. Tail(q) \in Seq(S) /\ Head(q) = q[1] /\ q[1] \in S /\ Len(q) \in Nat /\ Len(q) > 0 /\ Len(Tail(q)) = Len(q) - 1
  OBVIOUS
<1>2. \A n \in 1..Len(q) - 1 : Tail(q)[n] = q[n + 1]
  OBVIOUS
<1>3. PICK k \in Nat : Len(q) = k + 1 /\ Len(q) - 1 = k
  <2>1. ASSUME NEW i \in Nat, i > 0 PROVE i - 1 \in Nat /\ i = (i - 1) + 1
    BY <2>1
  <2> QED
    BY <1>1, <2>1
<1>4. 1 \in 1..k + 1 /\ \A n \in 1..k : n + 1 \in 1..k + 1
  OBVIOUS
<1>5. ASSUME NEW n \in 1..k + 1
      PROVE  n = 1 \/ \E i \in 1..k : n = i + 1
  <2>1. n = 1 \/ (n - 1 \in 1..k /\ n = (n - 1) + 1)
    OBVIOUS
  <2> QED
    BY <2>1
<1> QED
  BY <1>1, <1>2, <1>3, <1>4, <1>5

LEMMA LapsesMore ==
    ASSUME NEW S, NEW q \in Seq(S), NEW m \in S
    PROVE  /\ Lapses(Append(q, m)) <=> Lapses(q) \/ Drops(m)
           /\ Drops(m) => \A has \in BOOLEAN : Covered(Append(q, m), has)
           /\ \A has \in BOOLEAN : Covered(q, has) /\ (Gives(m) => has) => Covered(Append(q, m), has)
           /\ Gives(m) => Covered(Append(q, m), TRUE)
<1>1. PICK k \in Nat : /\ Len(q) = k /\ Len(Append(q, m)) = k + 1 /\ Append(q, m)[k + 1] = m
                       /\ \A n \in 1..k : Append(q, m)[n] = q[n]
                       /\ k + 1 \in 1..k + 1 /\ \A n \in 1..k : n \in 1..k + 1
                       /\ \A n \in 1..k + 1 : n \in 1..k \/ n = k + 1
  BY Appended
<1>2. Lapses(Append(q, m)) <=> Lapses(q) \/ Drops(m)
  BY <1>1 DEF Lapses
<1>3. ASSUME Drops(m), NEW has \in BOOLEAN
      PROVE  Covered(Append(q, m), has)
  <2>1. \A n \in 1..k + 1 : k + 1 \in n..k + 1
    OBVIOUS
  <2> QED
    BY <1>1, <1>3, <2>1 DEF Covered
<1>4. ASSUME NEW has \in BOOLEAN, Covered(q, has), Gives(m) => has
      PROVE  Covered(Append(q, m), has)
  <2> SUFFICES ASSUME NEW n \in 1..k + 1, Gives(Append(q, m)[n]), ~has
               PROVE  \E j \in n..k + 1 : Drops(Append(q, m)[j])
    BY <1>1 DEF Covered
  <2>1. n \in 1..k
    BY <1>1, <1>4
  <2>2. PICK j \in n..k : Drops(q[j])
    BY <1>1, <1>4, <2>1 DEF Covered
  <2>3. j \in 1..k /\ j \in n..k + 1
    BY <2>1
  <2> QED
    BY <1>1, <2>2, <2>3
<1>5. Covered(Append(q, m), TRUE)
  BY DEF Covered
<1> QED
  BY <1>2, <1>3, <1>4, <1>5

LEMMA OtherFrame ==
    ASSUME NEW S, NEW q \in Seq(S), NEW m \in S, m.kind \notin {"activate", "handshake"}
    PROVE  SameSource(q, Append(q, m))
<1>1. ~Drops(m) /\ ~Gives(m)
  BY DEF Drops, Gives
<1> QED
  BY <1>1, LapsesMore DEF SameSource

LEMMA SameTwice ==
    ASSUME NEW q, NEW r, NEW u, SameSource(q, r), SameSource(r, u)
    PROVE  SameSource(q, u)
BY DEF SameSource

LEMMA SameSelf == \A q : SameSource(q, q)
BY DEF SameSource

\* A frame taken.
LEMMA LapsesOn ==
    ASSUME NEW S, NEW q \in Seq(S), q # <<>>
    PROVE  /\ ~Drops(q[1]) => (Lapses(Tail(q)) <=> Lapses(q))
           /\ Lapses(Tail(q)) => Lapses(q)
           /\ \A has \in BOOLEAN : Covered(q, has) =>
                 /\ Covered(Tail(q), has)
                 /\ Gives(q[1]) => has \/ Lapses(Tail(q))
<1>1. PICK k \in Nat : /\ Len(q) = k + 1 /\ Len(Tail(q)) = k
                       /\ \A n \in 1..k : Tail(q)[n] = q[n + 1]
                       /\ 1 \in 1..k + 1 /\ \A n \in 1..k : n + 1 \in 1..k + 1
                       /\ \A n \in 1..k + 1 : n = 1 \/ \E i \in 1..k : n = i + 1
  BY TookHead
<1>2. Lapses(Tail(q)) => Lapses(q)
  BY <1>1 DEF Lapses
<1>3. ~Drops(q[1]) /\ Lapses(q) => Lapses(Tail(q))
  BY <1>1 DEF Lapses
<1>4. ASSUME NEW has \in BOOLEAN, Covered(q, has)
      PROVE  Covered(Tail(q), has)
  <2> SUFFICES ASSUME NEW n \in 1..k, Gives(Tail(q)[n]), ~has
               PROVE  \E j \in n..k : Drops(Tail(q)[j])
    BY <1>1 DEF Covered
  <2>1. PICK j \in n + 1..k + 1 : Drops(q[j])
    BY <1>1, <1>4 DEF Covered
  <2>2. j - 1 \in n..k /\ j - 1 \in 1..k /\ (j - 1) + 1 = j
    OBVIOUS
  <2> QED
    BY <1>1, <2>1, <2>2
<1>5. ASSUME NEW has \in BOOLEAN, Covered(q, has), Gives(q[1]), ~has
      PROVE  Lapses(Tail(q))
  <2>1. PICK j \in 1..k + 1 : Drops(q[j])
    BY <1>1, <1>5 DEF Covered
  <2>2. ~Drops(q[1])
    BY <1>5 DEF Drops, Gives
  <2>3. Lapses(q)
    BY <1>1, <2>1 DEF Lapses
  <2> QED
    BY <1>3, <2>2, <2>3
<1> QED
  BY <1>2, <1>3, <1>4, <1>5

LEMMA ToldMore ==
    ASSUME NEW S, NEW q \in Seq(S), NEW m \in S
    PROVE  /\ ~Speaks(m) => (Silent(Append(q, m)) <=> Silent(q)) /\ \A open \in BOOLEAN : Told(q, open) => Told(Append(q, m), open)
           /\ Speaks(m) => ~Silent(Append(q, m)) /\ Told(Append(q, m), m.kind = "startSource")
<1>1. PICK k \in Nat : /\ Len(q) = k /\ Len(Append(q, m)) = k + 1 /\ Append(q, m)[k + 1] = m
                       /\ \A n \in 1..k : Append(q, m)[n] = q[n]
                       /\ k + 1 \in 1..k + 1 /\ \A n \in 1..k : n \in 1..k + 1
                       /\ \A n \in 1..k + 1 : n \in 1..k \/ n = k + 1
  BY Appended
<1>2. \A n \in 1..k : k + 1 \in n + 1..k + 1 /\ \A j \in n + 1..k : j \in 1..k /\ j \in n + 1..k + 1
  OBVIOUS
<1>3. ASSUME ~Speaks(m)
      PROVE  (Silent(Append(q, m)) <=> Silent(q)) /\ \A open \in BOOLEAN : Told(q, open) => Told(Append(q, m), open)
  <2>1. Silent(Append(q, m)) <=> Silent(q)
    BY <1>1, <1>3 DEF Silent
  <2>2. ASSUME NEW open \in BOOLEAN, Told(q, open), NEW n \in 1..k + 1, Speaks(Append(q, m)[n]),
               \A j \in n + 1..k + 1 : ~Speaks(Append(q, m)[j])
        PROVE  Append(q, m)[n].kind = "startSource" <=> open
    <3>1. n \in 1..k
      BY <1>1, <1>3, <2>2
    <3>2. \A j \in n + 1..k : ~Speaks(q[j])
      BY <1>1, <1>2, <2>2, <3>1
    <3> QED
      BY <1>1, <2>2, <3>1, <3>2 DEF Told
  <2> QED
    BY <1>1, <2>1, <2>2 DEF Told
<1>4. ASSUME Speaks(m)
      PROVE  ~Silent(Append(q, m)) /\ Told(Append(q, m), m.kind = "startSource")
  <2>1. ~Silent(Append(q, m))
    BY <1>1, <1>4 DEF Silent
  <2>2. ASSUME NEW n \in 1..k + 1, \A j \in n + 1..k + 1 : ~Speaks(Append(q, m)[j])
        PROVE  n = k + 1
    BY <1>1, <1>2, <1>4, <2>2
  <2> QED
    BY <1>1, <2>1, <2>2 DEF Told
<1> QED
  BY <1>3, <1>4

LEMMA ToldOn ==
    ASSUME NEW S, NEW q \in Seq(S), q # <<>>
    PROVE  /\ ~Speaks(q[1]) => (Silent(Tail(q)) <=> Silent(q))
           /\ \A open \in BOOLEAN : Told(q, open) =>
                 /\ Told(Tail(q), open)
                 /\ Speaks(q[1]) /\ Silent(Tail(q)) => (q[1].kind = "startSource" <=> open)
<1>1. PICK k \in Nat : /\ Len(q) = k + 1 /\ Len(Tail(q)) = k
                       /\ \A n \in 1..k : Tail(q)[n] = q[n + 1]
                       /\ 1 \in 1..k + 1 /\ \A n \in 1..k : n + 1 \in 1..k + 1
                       /\ \A n \in 1..k + 1 : n = 1 \/ \E i \in 1..k : n = i + 1
  BY TookHead
<1>2. ~Speaks(q[1]) => (Silent(Tail(q)) <=> Silent(q))
  BY <1>1 DEF Silent
<1>3. ASSUME NEW open \in BOOLEAN, Told(q, open)
      PROVE  Told(Tail(q), open)
  <2> SUFFICES ASSUME NEW n \in 1..k, Speaks(Tail(q)[n]), \A j \in n + 1..k : ~Speaks(Tail(q)[j])
               PROVE  Tail(q)[n].kind = "startSource" <=> open
    BY <1>1 DEF Told
  <2>1. ASSUME NEW j \in (n + 1) + 1..k + 1
        PROVE  ~Speaks(q[j])
    <3>1. j - 1 \in n + 1..k /\ j - 1 \in 1..k /\ (j - 1) + 1 = j
      OBVIOUS
    <3> QED
      BY <1>1, <3>1
  <2> QED
    BY <1>1, <1>3, <2>1 DEF Told
<1>4. ASSUME NEW open \in BOOLEAN, Told(q, open), Speaks(q[1]), Silent(Tail(q))
      PROVE  q[1].kind = "startSource" <=> open
  <2>1. ASSUME NEW j \in 1 + 1..k + 1
        PROVE  ~Speaks(q[j])
    <3>1. j - 1 \in 1..k /\ (j - 1) + 1 = j
      OBVIOUS
    <3> QED
      BY <1>1, <1>4, <3>1 DEF Silent
  <2> QED
    BY <1>1, <1>4, <2>1 DEF Told
<1> QED
  BY <1>2, <1>3, <1>4

----------------------------------------------------------------------------
(* The invariant.                                                          *)

Typed == StreamsTypeOK /\ down \in Seq(DownFrames) /\ up \in Seq(UpFrames)

Way == Road(server, down, View(client))

\* The server has its client be a source.
HasSource(s) == s.phase = "active" /\ "source" \in s.roles

Sourced(s, c, q, u) ==
    s.phase # "closed" /\ c.phase # "closed" =>
        /\ Covered(q, HasSource(s))
        /\ "source" \in c.roles => HasSource(s) \/ Lapses(q)
        /\ c.sourceOpen => "source" \in c.roles \cup c.carried
        /\ Told(u, c.sourceOpen)
        /\ Silent(u) /\ s.phase # "rehandshake" =>
              IF c.sourceOpen THEN HasSource(s) => s.sourceOpen \/ Lapses(q) \/ "source" \in c.carried
                              ELSE ~s.sourceOpen

StreamsInv == Typed /\ Way /\ Sourced(server, client, down, up)

----------------------------------------------------------------------------
(* Sending.                                                                *)

LEMMA SealedType ==
    ASSUME NEW P, NEW S, NEW k, \A p \in P : Frame(k, p[1], p[2]) \in S, NEW x \in Seq(P)
    PROVE  Sealed(k, x) \in Seq(S) /\ Len(Sealed(k, x)) = Len(x)
<1>1. Len(x) \in Nat /\ DOMAIN x = 1..Len(x) /\ \A i \in 1..Len(x) : x[i] \in P
  BY ElementOfSeq
<1>2. Sealed(k, x) = [i \in 1..Len(x) |-> Frame(k, x[i][1], x[i][2])]
  BY <1>1 DEF Sealed, Frame
<1>3. Sealed(k, x) \in [1..Len(x) -> S]
  BY <1>1, <1>2
<1>4. ASSUME NEW n \in Nat, NEW f \in [1..n -> S]
      PROVE  f \in Seq(S) /\ Len(f) = n
  BY IsASeq
<1> QED
  BY <1>1, <1>3, <1>4

\* One frame to the client.
LEMMA SendsDown ==
    ASSUME Typed, NEW t, NEW b, Frame(server.keys, t, b) \in DownFrames, ToClient(<<<<t, b>>>>)
    PROVE  /\ down' = Append(down, Frame(server.keys, t, b))
           /\ down' \in Seq(DownFrames) /\ Len(down') <= MaxDown
<1>1. down \in Seq(DownFrames)
  BY DEF Typed
<1>2. down' = Append(down, Frame(server.keys, t, b))
  BY <1>1, SendsOne DEF ToClient
<1>3. Len(<<<<t, b>>>>) = 1
  OBVIOUS
<1>4. Len(down) + 1 <= MaxDown
  BY <1>3 DEF ToClient
<1>5. down' \in Seq(DownFrames) /\ Len(down') = Len(down) + 1
  BY <1>1, <1>2
<1> QED
  BY <1>2, <1>4, <1>5

\* A list of frames to the client.
LEMMA SendsDownList ==
    ASSUME Typed, NEW P, \A p \in P : Frame(server.keys, p[1], p[2]) \in DownFrames, NEW x \in Seq(P), ToClient(x)
    PROVE  down' = down \o Sealed(server.keys, x) /\ down' \in Seq(DownFrames) /\ Len(down') <= MaxDown
<1>1. down \in Seq(DownFrames) /\ Len(x) \in Nat
  BY DEF Typed
<1>2. Sealed(server.keys, x) \in Seq(DownFrames) /\ Len(Sealed(server.keys, x)) = Len(x)
  BY SealedType
<1>3. PICK r \in Seq(DownFrames) : r = Sealed(server.keys, x) /\ Len(r) = Len(x)
  BY <1>2
<1>4. down \o r \in Seq(DownFrames) /\ Len(down \o r) = Len(down) + Len(r)
  BY <1>1, ConcatProperties
<1>5. down' = down \o r /\ Len(down) + Len(r) <= MaxDown
  BY <1>3 DEF ToClient
<1> QED
  BY <1>3, <1>4, <1>5

\* A list of frames to the server.
LEMMA SendsUpList ==
    ASSUME Typed, NEW P, \A p \in P : Frame(client.keys, p[1], p[2]) \in UpFrames, NEW x \in Seq(P), ToServer(x)
    PROVE  up' = up \o Sealed(client.keys, x) /\ up' \in Seq(UpFrames) /\ Len(up') <= MaxUp
<1>1. up \in Seq(UpFrames) /\ Len(x) \in Nat
  BY DEF Typed
<1>2. Sealed(client.keys, x) \in Seq(UpFrames) /\ Len(Sealed(client.keys, x)) = Len(x)
  BY SealedType
<1>3. PICK r \in Seq(UpFrames) : r = Sealed(client.keys, x) /\ Len(r) = Len(x)
  BY <1>2
<1>4. up \o r \in Seq(UpFrames) /\ Len(up \o r) = Len(up) + Len(r)
  BY <1>1, ConcatProperties
<1>5. up' = up \o r /\ Len(up) + Len(r) <= MaxUp
  BY <1>3 DEF ToServer
<1> QED
  BY <1>3, <1>4, <1>5

----------------------------------------------------------------------------
(* The engine's calls.                                                     *)

LEMMA Facts ==
    ASSUME Typed
    PROVE  /\ server \in ServerStates /\ client \in ClientStates
           /\ server.keys \in Keys /\ client.keys \in Keys
           /\ down \in Seq(DownFrames) /\ up \in Seq(UpFrames) /\ server.heard \subseteq server.roles
           /\ Len(down) <= MaxDown /\ Len(up) <= MaxUp /\ streams \in 0..MaxStreams
BY ServerTypes DEF Typed, StreamsTypeOK, ClientStates, Keys

\* The server says one thing, that is of no role: it is as before in what the
\* source's stream depends on.
SameForSource(s, t) ==
    t.phase = s.phase /\ t.roles = s.roles /\ t.sourceOpen = s.sourceOpen

LEMMA SourcedSame ==
    ASSUME NEW s, NEW t, NEW c, NEW q, NEW r, NEW u, Sourced(s, c, q, u), SameForSource(s, t), SameSource(q, r)
    PROVE  Sourced(t, c, r, u)
<1>1. HasSource(t) = HasSource(s) /\ HasSource(s) \in BOOLEAN
  BY DEF HasSource, SameForSource
<1>2. /\ Lapses(r) <=> Lapses(q)
      /\ Covered(q, HasSource(s)) => Covered(r, HasSource(s))
  BY <1>1 DEF SameSource
<1> QED
  BY <1>1, <1>2 DEF Sourced, SameForSource

\* What is left to show of a call: the frame, and where it has the server.
LEMMA CallKeeps ==
    ASSUME StreamsInv, client.phase # "closed", UNCHANGED <<client, up>>,
           down' \in Seq(DownFrames), Len(down') <= MaxDown, streams' \in 0..MaxStreams,
           server'.heard \subseteq server'.roles,
           Road(server', down', View(client)), SameForSource(server, server'), SameSource(down, down')
    PROVE  StreamsInv'
<1>1. Typed'
  BY Facts DEF StreamsInv, Typed, StreamsTypeOK, Road, ServerOK
<1>2. Way'
  BY DEF Way
<1>3. Sourced(server', client', down', up')
  BY SourcedSame DEF StreamsInv
<1> QED
  BY <1>1, <1>2, <1>3 DEF StreamsInv

LEMMA FrameCallKeeps ==
    ASSUME StreamsInv, Connected, NEW t, NEW b, t \notin {"activate", "handshake"}, Frame(server.keys, t, b) \in DownFrames,
           ToClient(<<<<t, b>>>>), UNCHANGED <<client, up>>, streams' \in 0..MaxStreams,
           server'.heard \subseteq server'.roles, SameForSource(server, server'),
           Moves(server, Frame(server.keys, t, b), server')
    PROVE  StreamsInv'
<1>1. PICK m \in DownFrames : m = Frame(server.keys, t, b) /\ m.kind = t
  BY FrameIs
<1>2. down' = Append(down, m) /\ down' \in Seq(DownFrames) /\ Len(down') <= MaxDown
  BY <1>1, SendsDown DEF StreamsInv
<1>3. down \in Seq(DownFrames)
  BY Facts DEF StreamsInv
<1>4. Road(server', down', View(client))
  <2>1. Road(server, down, View(client))
    BY DEF StreamsInv, Way
  <2> QED
    BY <1>1, <1>2, <1>3, <2>1, RoadMore
<1>5. SameSource(down, down')
  BY <1>1, <1>2, <1>3, OtherFrame
<1>6. client.phase # "closed"
  BY DEF Connected
<1> QED
  BY <1>2, <1>4, <1>5, <1>6, CallKeeps

LEMMA ServerIs == ASSUME StreamsInv PROVE ServerOK(server) /\ server \in ServerStates /\ server.heard \subseteq server.roles
BY Facts DEF StreamsInv, Way, Road

LEMMA SentFrames ==
    ASSUME Typed
    PROVE  /\ \A t \in {"hello", "part", "cancel"} : Frame(server.keys, t, None) \in DownFrames
           /\ server.keys < MaxKeys => Frame(server.keys, "handshake", None) \in DownFrames
           /\ \A roles \in SUBSET Roles : Frame(server.keys, "activate", roles) \in DownFrames
           /\ \A s \in 0..MaxStreams : Frame(server.keys, "startPlayer", s) \in DownFrames /\ Frame(server.keys, "audio", s) \in DownFrames
           /\ \A c \in Configs \cup {None} : Frame(server.keys, "startArtwork", c) \in DownFrames
           /\ \A p \in 0..MaxParts : Frame(server.keys, "announce", p) \in DownFrames
           /\ \A r \in {"player", "artwork"} : Frame(server.keys, "end", r) \in DownFrames
           /\ \A b \in BOOLEAN : Frame(server.keys, "source", b) \in DownFrames
<1>1. server.keys \in Keys
  BY Facts
<1> QED
  BY <1>1, DownSent

LEMMA StartStreamKeeps == ASSUME StreamsInv, StartStream PROVE StreamsInv'
<1>1. ServerOK(server) /\ server \in ServerStates /\ server.heard \subseteq server.roles /\ Typed
  BY ServerIs DEF StreamsInv
<1>2. PICK x \in 0..MaxStreams : x = streams + 1
  <2>1. streams \in 0..MaxStreams /\ MaxStreams \in Nat /\ streams < MaxStreams
    BY <1>1, Facts, StreamsAssumption DEF StartStream
  <2> QED
    BY <2>1
<1>3. /\ Connected /\ server.phase = "active" /\ "player" \in server.roles
      /\ ToClient(<<<<"startPlayer", x>>>>) /\ server' = [server EXCEPT !.stream = x]
      /\ streams' = x /\ UNCHANGED <<client, up>>
  BY <1>2 DEF StartStream, Ready, Active
<1>4. Moves(server, Frame(server.keys, "startPlayer", x), server')
  BY <1>1, <1>3, StartPlayerMoves
<1>5. server'.heard \subseteq server'.roles /\ SameForSource(server, server')
  BY <1>1, <1>3 DEF ServerStates, SameForSource
<1>6. Frame(server.keys, "startPlayer", x) \in DownFrames
  BY <1>1, SentFrames
<1> QED
  BY <1>3, <1>4, <1>5, <1>6, FrameCallKeeps

LEMMA SendAudioKeeps == ASSUME StreamsInv, SendAudio PROVE StreamsInv'
<1>1. ServerOK(server) /\ server \in ServerStates /\ server.heard \subseteq server.roles /\ Typed
  BY ServerIs DEF StreamsInv
<1>2. server.stream \in 0..MaxStreams /\ streams \in 0..MaxStreams
  BY <1>1, ServerTypes, Facts
<1>3. /\ Connected /\ server.phase = "active" /\ "player" \in server.roles /\ server.stream # None
      /\ ToClient(<<<<"audio", server.stream>>>>) /\ server' = server
      /\ streams' = streams /\ UNCHANGED <<client, up>>
  BY DEF SendAudio, Active
<1>4. Moves(server, Frame(server.keys, "audio", server.stream), server')
  BY <1>1, <1>3, AudioMoves
<1>5. server'.heard \subseteq server'.roles /\ SameForSource(server, server')
  BY <1>1, <1>3 DEF SameForSource
<1>6. Frame(server.keys, "audio", server.stream) \in DownFrames
  BY <1>1, <1>2, SentFrames
<1> QED
  BY <1>2, <1>3, <1>4, <1>5, <1>6, FrameCallKeeps

LEMMA EndStreamKeeps == ASSUME StreamsInv, EndStream PROVE StreamsInv'
<1>1. ServerOK(server) /\ server \in ServerStates /\ server.heard \subseteq server.roles /\ Typed
  BY ServerIs DEF StreamsInv
<1>2. streams \in 0..MaxStreams
  BY <1>1, Facts
<1>3. /\ Connected /\ server.phase # "closed" /\ server.stream # None
      /\ ToClient(<<<<"end", "player">>>>) /\ server' = [server EXCEPT !.stream = None]
      /\ streams' = streams /\ UNCHANGED <<client, up>>
  BY DEF EndStream, Connected
<1>4. Moves(server, Frame(server.keys, "end", "player"), server')
  BY <1>1, <1>3, EndPlayerMoves
<1>5. server'.heard \subseteq server'.roles /\ SameForSource(server, server')
  BY <1>1, <1>3 DEF ServerStates, SameForSource
<1>6. Frame(server.keys, "end", "player") \in DownFrames
  BY <1>1, SentFrames
<1> QED
  BY <1>2, <1>3, <1>4, <1>5, <1>6, FrameCallKeeps

\* A frame of a transfer leaves `left` of it.
LEMMA TransferKeeps ==
    ASSUME StreamsInv, Connected, NEW t \in {"announce", "part", "cancel"}, NEW b, NEW left,
           Frame(server.keys, t, b) \in DownFrames, ToClient(<<<<t, b>>>>),
           server' = [server EXCEPT !.transfer = left], UNCHANGED <<client, up, streams>>,
           Moves(server, Frame(server.keys, t, b), [server EXCEPT !.transfer = left])
    PROVE  StreamsInv'
<1>1. server \in ServerStates /\ server.heard \subseteq server.roles /\ Typed
  BY ServerIs DEF StreamsInv
<1>2. streams' \in 0..MaxStreams
  BY <1>1, Facts
<1>3. server'.heard \subseteq server'.roles /\ SameForSource(server, server')
  BY <1>1 DEF ServerStates, SameForSource
<1> QED
  BY <1>2, <1>3, FrameCallKeeps

LEMMA AnnounceKeeps == ASSUME StreamsInv, NEW parts \in 0..MaxParts, Announce(parts) PROVE StreamsInv'
<1>1. ServerOK(server) /\ Typed
  BY ServerIs DEF StreamsInv
<1>2. /\ Connected /\ server.phase # "closed" /\ server.artwork # None /\ server.transfer = 0
      /\ ToClient(<<<<"announce", parts>>>>) /\ server' = [server EXCEPT !.transfer = parts]
      /\ UNCHANGED <<client, up, streams>>
  BY DEF Announce, Connected
<1>3. Moves(server, Frame(server.keys, "announce", parts), [server EXCEPT !.transfer = parts])
  BY <1>1, <1>2, TransferMoves
<1>4. Frame(server.keys, "announce", parts) \in DownFrames
  BY <1>1, SentFrames
<1> QED
  BY <1>2, <1>3, <1>4, TransferKeeps

LEMMA SendPartKeeps == ASSUME StreamsInv, SendPart PROVE StreamsInv'
<1>1. ServerOK(server) /\ Typed
  BY ServerIs DEF StreamsInv
<1>2. /\ Connected /\ server.phase # "closed" /\ server.artwork # None /\ server.transfer > 0
      /\ ToClient(<<<<"part", None>>>>) /\ server' = [server EXCEPT !.transfer = server.transfer - 1]
      /\ UNCHANGED <<client, up, streams>>
  BY DEF SendPart, Connected
<1>3. Moves(server, Frame(server.keys, "part", None), [server EXCEPT !.transfer = server.transfer - 1])
  BY <1>1, <1>2, TransferMoves
<1>4. Frame(server.keys, "part", None) \in DownFrames
  BY <1>1, SentFrames
<1> QED
  BY <1>2, <1>3, <1>4, TransferKeeps

LEMMA CancelKeeps == ASSUME StreamsInv, CancelArtwork PROVE StreamsInv'
<1>1. ServerOK(server) /\ Typed
  BY ServerIs DEF StreamsInv
<1>2. /\ Connected /\ server.phase # "closed" /\ server.artwork # None
      /\ ToClient(<<<<"cancel", None>>>>) /\ server' = [server EXCEPT !.transfer = 0]
      /\ UNCHANGED <<client, up, streams>>
  BY DEF CancelArtwork, Connected
<1>3. Moves(server, Frame(server.keys, "cancel", None), [server EXCEPT !.transfer = 0])
  BY <1>1, <1>2, TransferMoves
<1>4. Frame(server.keys, "cancel", None) \in DownFrames
  BY <1>1, SentFrames
<1> QED
  BY <1>2, <1>3, <1>4, TransferKeeps

LEMMA SourceCommandKeeps == ASSUME StreamsInv, NEW start \in BOOLEAN, SourceCommand(start) PROVE StreamsInv'
<1>1. ServerOK(server) /\ server \in ServerStates /\ server.heard \subseteq server.roles /\ Typed
  BY ServerIs DEF StreamsInv
<1>2. streams \in 0..MaxStreams
  BY <1>1, Facts
<1>3. /\ Connected /\ ToClient(<<<<"source", start>>>>) /\ server' = [server EXCEPT !.sourceStarted = start]
      /\ streams' = streams /\ UNCHANGED <<client, up>>
  BY DEF SourceCommand
<1>4. Moves(server, Frame(server.keys, "source", start), server')
  BY <1>1, <1>3, SourceMoves
<1>5. server'.heard \subseteq server'.roles /\ SameForSource(server, server')
  BY <1>1, <1>3 DEF ServerStates, SameForSource
<1>6. Frame(server.keys, "source", start) \in DownFrames
  BY <1>1, SentFrames
<1> QED
  BY <1>2, <1>3, <1>4, <1>5, <1>6, FrameCallKeeps

LEMMA RehandshakeKeeps == ASSUME StreamsInv, Rehandshake PROVE StreamsInv'
<1>1. ServerOK(server) /\ server \in ServerStates /\ server.heard \subseteq server.roles /\ Typed
  BY ServerIs DEF StreamsInv
<1>2. /\ Connected /\ server.phase \in {"ready", "active"} /\ server.keys < MaxKeys
      /\ ToClient(<<<<"handshake", None>>>>)
      /\ server' = [server EXCEPT !.phase = "rehandshake"]
      /\ UNCHANGED <<client, up, streams>>
  BY DEF Rehandshake
<1>3. PICK m \in DownFrames : m = Frame(server.keys, "handshake", None) /\ m.kind = "handshake"
  BY <1>1, <1>2, SentFrames, FrameIs
<1>4. down' = Append(down, m) /\ down' \in Seq(DownFrames) /\ Len(down') <= MaxDown
  BY <1>1, <1>2, <1>3, SendsDown
<1>5. down \in Seq(DownFrames) /\ streams' \in 0..MaxStreams
  BY <1>1, <1>2, Facts
<1>6. Road(server', down', View(client))
  <2>1. Moves(server, m, server')
    BY <1>1, <1>2, <1>3, HandshakeMoves
  <2>2. Road(server, down, View(client))
    BY DEF StreamsInv, Way
  <2> QED
    BY <1>4, <1>5, <2>1, <2>2, RoadMore
<1>7. /\ server'.phase = "rehandshake"
      /\ server'.heard = server.heard /\ server'.roles = server.roles
  BY <1>1, <1>2 DEF ServerStates
<1>8. Typed'
  BY <1>1, <1>2, <1>4, <1>5, <1>6, <1>7, Facts DEF Typed, StreamsTypeOK, Road, ServerOK
<1>9. Sourced(server', client', down', up')
  <2>1. Drops(m)
    BY <1>3 DEF Drops
  <2>2. HasSource(server') \in BOOLEAN
    BY DEF HasSource
  <2>3. Lapses(down') /\ Covered(down', HasSource(server'))
    BY <1>4, <1>5, <2>1, <2>2, LapsesMore
  <2> QED
    BY <1>2, <1>7, <2>3 DEF Sourced, StreamsInv, Connected
<1>10. Way'
  BY <1>2, <1>6 DEF Way
<1> QED
  BY <1>8, <1>9, <1>10 DEF StreamsInv

\* The calls that send several frames: each is sent after the one before it.
Ours == {<<"cancel", None>>, <<"end", "artwork">>, <<"end", "player">>, <<"announce", 0>>}
        \cup ({"activate"} \X SUBSET Roles) \cup ({"startArtwork"} \X (Configs \cup {None}))

LEMMA OursSent == ASSUME Typed PROVE \A p \in Ours : Frame(server.keys, p[1], p[2]) \in DownFrames
<1> SUFFICES ASSUME NEW p \in Ours PROVE Frame(server.keys, p[1], p[2]) \in DownFrames
  OBVIOUS
<1>1. CASE p \in {<<"cancel", None>>, <<"end", "artwork">>, <<"end", "player">>, <<"announce", 0>>}
  <2>1. /\ Frame(server.keys, "cancel", None) \in DownFrames
        /\ Frame(server.keys, "end", "artwork") \in DownFrames /\ Frame(server.keys, "end", "player") \in DownFrames
        /\ Frame(server.keys, "announce", 0) \in DownFrames
    BY SentFrames, StreamsAssumption
  <2> QED
    BY <1>1, <2>1
<1>2. CASE p \in {"activate"} \X SUBSET Roles
  BY <1>2, SentFrames
<1>3. CASE p \in {"startArtwork"} \X (Configs \cup {None})
  BY <1>3, SentFrames
<1> QED
  BY <1>1, <1>2, <1>3 DEF Ours

LEMMA OursLists ==
    /\ Cancelling \in Seq(Ours) /\ <<>> \in Seq(Ours)
    /\ <<<<"end", "artwork">>>> \in Seq(Ours) /\ <<<<"end", "player">>>> \in Seq(Ours) /\ <<<<"announce", 0>>>> \in Seq(Ours)
    /\ \A roles \in SUBSET Roles : <<<<"activate", roles>>>> \in Seq(Ours)
    /\ \A c \in Configs \cup {None} : <<<<"startArtwork", c>>>> \in Seq(Ours)
<1>1. /\ <<"cancel", None>> \in Ours /\ <<"end", "artwork">> \in Ours /\ <<"end", "player">> \in Ours
      /\ <<"announce", 0>> \in Ours
      /\ \A roles \in SUBSET Roles : <<"activate", roles>> \in Ours
      /\ \A c \in Configs \cup {None} : <<"startArtwork", c>> \in Ours
  BY DEF Ours
<1>2. \A p \in Ours : <<p>> \in Seq(Ours)
  OBVIOUS
<1>3. <<>> \in Seq(Ours)
  OBVIOUS
<1>4. <<<<"cancel", None>>>> \in Seq(Ours)
  BY <1>1, <1>2
<1> QED
  BY <1>1, <1>2, <1>3, <1>4 DEF Cancelling, If

LEMMA OursConcat == ASSUME NEW x \in Seq(Ours), NEW y \in Seq(Ours) PROVE x \o y \in Seq(Ours)
BY ConcatProperties

LEMMA OursOn ==
    ASSUME Typed, NEW q \in Seq(DownFrames), NEW x \in Seq(Ours), NEW y \in Seq(Ours)
    PROVE  /\ q \o Sealed(server.keys, x) \in Seq(DownFrames)
           /\ q \o Sealed(server.keys, x \o y) = (q \o Sealed(server.keys, x)) \o Sealed(server.keys, y)
<1>1. Sealed(server.keys, x) \in Seq(DownFrames) /\ Sealed(server.keys, y) \in Seq(DownFrames)
  BY OursSent, SealedType
<1>2. q \o Sealed(server.keys, x) \in Seq(DownFrames)
  BY <1>1, ConcatProperties
<1>3. q \o Sealed(server.keys, x \o y) = (q \o Sealed(server.keys, x)) \o Sealed(server.keys, y)
  <2>1. ASSUME NEW k, Sealed(k, x) \in Seq(DownFrames), Sealed(k, y) \in Seq(DownFrames)
        PROVE  q \o Sealed(k, x \o y) = (q \o Sealed(k, x)) \o Sealed(k, y)
    BY <2>1, SendsOn
  <2> QED
    BY <1>1, <2>1
<1> QED
  BY <1>2, <1>3

\* A transfer in flight is cancelled,
LEMMA Cancels ==
    ASSUME StreamsInv, server.phase # "closed", server.artwork # None,
           NEW q, q = down \o Sealed(server.keys, Cancelling)
    PROVE  /\ q \in Seq(DownFrames) /\ SameSource(down, q)
           /\ Road([server EXCEPT !.transfer = 0], q, View(client))
<1>1. ServerOK(server) /\ server \in ServerStates /\ Typed /\ down \in Seq(DownFrames) /\ Road(server, down, View(client))
  BY ServerIs, Facts DEF StreamsInv, Way
<1>2. PICK m \in DownFrames : m = Frame(server.keys, "cancel", None) /\ m.kind = "cancel"
  BY <1>1, SentFrames, FrameIs
<1>3. /\ server.transfer > 0 => q = Append(down, m)
      /\ ~(server.transfer > 0) => q = down
  <2>1. down \o Sealed(server.keys, <<<<"cancel", None>>>>) = Append(down, m)
    BY <1>1, <1>2, SendsOne
  <2>2. down \o Sealed(server.keys, <<>>) = down
    BY <1>1, SealedNone, ConcatEmptySeq
  <2> QED
    BY <2>1, <2>2 DEF Cancelling, If
<1>4. CASE server.transfer > 0
  <2>1. q = Append(down, m)
    BY <1>3, <1>4
  <2>2. Moves(server, m, [server EXCEPT !.transfer = 0])
    BY <1>1, <1>2, TransferMoves
  <2>3. Road([server EXCEPT !.transfer = 0], Append(down, m), View(client))
    BY <1>1, <2>2, RoadMore
  <2>4. SameSource(down, Append(down, m)) /\ Append(down, m) \in Seq(DownFrames)
    BY <1>1, <1>2, OtherFrame
  <2> QED
    BY <2>1, <2>3, <2>4
<1>5. CASE ~(server.transfer > 0)
  <2>1. server.transfer = 0
    <3>1. ASSUME NEW k \in Nat, NEW x \in 0..k, ~(x > 0)
          PROVE  x = 0
      BY <3>1
    <3>2. server.transfer \in 0..MaxParts /\ MaxParts \in Nat
      BY <1>1, ServerTypes, StreamsAssumption
    <3> QED
      BY <1>5, <3>1, <3>2
  <2>2. [server EXCEPT !.transfer = 0] = server
    BY <1>1, <2>1 DEF ServerStates
  <2> QED
    BY <1>1, <1>3, <1>5, <2>2, SameSelf
<1> QED
  BY <1>4, <1>5

\* and the stream ends.
LEMMA EndsArtwork ==
    ASSUME StreamsInv, server.phase # "closed", server.artwork # None,
           NEW q, q = down \o Sealed(server.keys, Cancelling \o <<<<"end", "artwork">>>>)
    PROVE  /\ q \in Seq(DownFrames) /\ SameSource(down, q)
           /\ Road([server EXCEPT !.artwork = None, !.transfer = 0], q, View(client))
<1>1. ServerOK(server) /\ server \in ServerStates /\ Typed /\ down \in Seq(DownFrames)
  BY ServerIs, Facts DEF StreamsInv
<1>2. PICK r : r = down \o Sealed(server.keys, Cancelling)
  OBVIOUS
<1>3. /\ r \in Seq(DownFrames) /\ SameSource(down, r)
      /\ Road([server EXCEPT !.transfer = 0], r, View(client))
  BY <1>2, Cancels
<1>4. PICK m \in DownFrames : m = Frame(server.keys, "end", "artwork") /\ m.kind = "end"
  BY <1>1, SentFrames, FrameIs
<1>5. q = Append(r, m)
  <2>1. q = r \o Sealed(server.keys, <<<<"end", "artwork">>>>)
    BY <1>1, <1>2, OursLists, OursOn
  <2> QED
    BY <1>3, <1>4, <2>1, SendsOne
<1>6. PICK s : s = [server EXCEPT !.transfer = 0]
  OBVIOUS
<1>7. /\ ServerOK(s) /\ s.phase # "closed" /\ s.artwork # None /\ s.keys = server.keys
      /\ [s EXCEPT !.artwork = None, !.transfer = 0] = [server EXCEPT !.artwork = None, !.transfer = 0]
  <2>1. ServerOK(s)
    BY <1>3, <1>6 DEF Road
  <2>2. s.phase # "closed" /\ s.artwork # None /\ s.keys = server.keys
    BY <1>1, <1>6 DEF ServerStates
  <2>3. [s EXCEPT !.artwork = None, !.transfer = 0] = [server EXCEPT !.artwork = None, !.transfer = 0]
    BY <1>1, <1>6 DEF ServerStates
  <2> QED
    BY <2>1, <2>2, <2>3
<1>8. Moves(s, m, [s EXCEPT !.artwork = None, !.transfer = 0])
  <2>1. Moves(s, Frame(s.keys, "end", "artwork"), [s EXCEPT !.artwork = None, !.transfer = 0])
    BY <1>7, TransferMoves
  <2> QED
    BY <1>4, <1>7, <2>1
<1>9. Road([server EXCEPT !.artwork = None, !.transfer = 0], Append(r, m), View(client))
  BY <1>3, <1>6, <1>7, <1>8, RoadMore
<1>10. SameSource(r, Append(r, m)) /\ Append(r, m) \in Seq(DownFrames)
  BY <1>3, <1>4, OtherFrame
<1> QED
  BY <1>3, <1>5, <1>9, <1>10, SameTwice

LEMMA EndArtworkKeeps == ASSUME StreamsInv, EndArtwork PROVE StreamsInv'
<1>1. server \in ServerStates /\ server.heard \subseteq server.roles /\ Typed
  BY ServerIs DEF StreamsInv
<1>2. /\ Connected /\ server.artwork # None /\ server.phase # "closed" /\ client.phase # "closed"
      /\ ToClient(Cancelling \o <<<<"end", "artwork">>>>)
      /\ server' = [server EXCEPT !.artwork = None, !.transfer = 0]
      /\ UNCHANGED <<client, up, streams>>
  BY DEF EndArtwork, Connected
<1>3. Cancelling \o <<<<"end", "artwork">>>> \in Seq(Ours)
  BY OursLists, OursConcat
<1>4. /\ down' = down \o Sealed(server.keys, Cancelling \o <<<<"end", "artwork">>>>)
      /\ down' \in Seq(DownFrames) /\ Len(down') <= MaxDown
  BY <1>1, <1>2, <1>3, OursSent, SendsDownList
<1>5. SameSource(down, down') /\ Road(server', down', View(client))
  BY <1>2, <1>4, EndsArtwork
<1>6. server'.heard \subseteq server'.roles /\ SameForSource(server, server')
  BY <1>1, <1>2 DEF ServerStates, SameForSource
<1>7. streams' \in 0..MaxStreams
  BY <1>1, <1>2, Facts
<1> QED
  BY <1>2, <1>4, <1>5, <1>6, <1>7, CallKeeps

\* A channel that has no source any more is cleared.
LEMMA Clears ==
    ASSUME Typed, NEW s, NEW v, NEW r \in Seq(DownFrames), Road(s, r, v), s.keys = server.keys, s.phase # "closed",
           s.artwork # None, s.transfer = 0
    PROVE  /\ r \o Sealed(server.keys, <<<<"announce", 0>>>>) \in Seq(DownFrames)
           /\ SameSource(r, r \o Sealed(server.keys, <<<<"announce", 0>>>>))
           /\ Road(s, r \o Sealed(server.keys, <<<<"announce", 0>>>>), v)
<1>1. PICK m \in DownFrames : m = Frame(server.keys, "announce", 0) /\ m.kind = "announce"
  BY SentFrames, StreamsAssumption, FrameIs
<1>2. r \o Sealed(server.keys, <<<<"announce", 0>>>>) = Append(r, m)
  BY <1>1, SendsOne
<1>3. ServerOK(s) /\ [s EXCEPT !.transfer = 0] = s
  BY DEF Road, ServerOK, ServerStates
<1>4. Moves(s, m, s)
  <2>1. 0 \in 0..MaxParts
    BY StreamsAssumption
  <2> QED
    BY <1>1, <1>3, <2>1, AnnounceMoves
<1>5. Road(s, Append(r, m), v)
  BY <1>1, <1>4, RoadMore
<1>6. SameSource(r, Append(r, m)) /\ Append(r, m) \in Seq(DownFrames)
  BY <1>1, OtherFrame
<1> QED
  BY <1>2, <1>5, <1>6

LEMMA StartArtworkKeeps == ASSUME StreamsInv, StartArtwork PROVE StreamsInv'
<1>1. ServerOK(server) /\ server \in ServerStates /\ server.heard \subseteq server.roles /\ Typed
      /\ down \in Seq(DownFrames) /\ Road(server, down, View(client))
  BY ServerIs, Facts DEF StreamsInv, Way
<1>2. PICK renewed \in BOOLEAN, emptied \in BOOLEAN :
         /\ renewed <=> server.artwork \notin {None, server.config}
         /\ emptied <=> renewed /\ server.config = NoSource
  OBVIOUS
<1> DEFINE x == If(renewed, Cancelling)
           y == If(emptied, <<<<"announce", 0>>>>)
<1>3. /\ Connected /\ server.phase = "active" /\ "artwork" \in server.roles /\ client.phase # "closed"
      /\ ToClient(x \o y \o <<<<"startArtwork", server.config>>>>)
      /\ server' = [server EXCEPT !.artwork = server.config, !.transfer = IF renewed THEN 0 ELSE @]
      /\ UNCHANGED <<client, up, streams>>
  <2>1. (server.artwork \notin {None, server.config}) = renewed /\ (renewed /\ server.config = NoSource) = emptied
    BY <1>2
  <2> QED
    BY <2>1 DEF StartArtwork, Ready, Active, Connected
<1>4. PICK c \in Configs \cup {None} : c = server.config
  BY <1>1, ServerTypes
<1>5. x \in Seq(Ours) /\ y \in Seq(Ours) /\ <<<<"startArtwork", c>>>> \in Seq(Ours)
  BY OursLists DEF If
<1> HIDE DEF x, y
<1>6. x \o y \in Seq(Ours) /\ (x \o y) \o <<<<"startArtwork", c>>>> \in Seq(Ours)
  BY <1>5, OursConcat
<1>7. /\ down' = down \o Sealed(server.keys, (x \o y) \o <<<<"startArtwork", c>>>>)
      /\ down' \in Seq(DownFrames) /\ Len(down') <= MaxDown
  BY <1>1, <1>3, <1>4, <1>6, OursSent, SendsDownList
<1>8. PICK a : a = down \o Sealed(server.keys, x)
  OBVIOUS
<1>9. PICK s : s = IF renewed THEN [server EXCEPT !.transfer = 0] ELSE server
  OBVIOUS
<1>10. a \in Seq(DownFrames) /\ SameSource(down, a) /\ Road(s, a, View(client))
  <2>1. CASE renewed
    <3>1. a = down \o Sealed(server.keys, Cancelling) /\ server.artwork # None /\ server.phase # "closed"
      BY <1>2, <1>3, <1>8, <2>1 DEF x, If
    <3> QED
      BY <1>9, <2>1, <3>1, Cancels
  <2>2. CASE ~renewed
    <3>1. x = <<>>
      BY <2>2 DEF x, If
    <3>2. a = down
      BY <1>1, <1>8, <3>1, SealedNone, ConcatEmptySeq
    <3> QED
      BY <1>1, <1>9, <2>2, <3>2, SameSelf
  <2> QED
    BY <2>1, <2>2
<1>11. /\ s.phase = "active" /\ "artwork" \in s.roles /\ s.keys = server.keys /\ s.config = c
       /\ s.artwork = server.artwork /\ (renewed => s.transfer = 0) /\ ServerOK(s)
  <2>1. /\ s.phase = "active" /\ "artwork" \in s.roles /\ s.keys = server.keys /\ s.config = c
        /\ s.artwork = server.artwork /\ (renewed => s.transfer = 0)
    BY <1>1, <1>3, <1>4, <1>9 DEF ServerStates
  <2> QED
    BY <1>10, <2>1 DEF Road
<1>12. PICK r : r = a \o Sealed(server.keys, y)
  OBVIOUS
<1>13. r \in Seq(DownFrames) /\ SameSource(a, r) /\ Road(s, r, View(client))
  <2>1. CASE emptied
    <3>1. s.phase # "closed" /\ s.artwork # None /\ s.transfer = 0
      BY <1>2, <1>11, <2>1
    <3>2. r = a \o Sealed(server.keys, <<<<"announce", 0>>>>)
      BY <1>12, <2>1 DEF y, If
    <3> QED
      BY <1>1, <1>10, <1>11, <3>1, <3>2, Clears
  <2>2. CASE ~emptied
    <3>1. y = <<>>
      BY <2>2 DEF y, If
    <3>2. r = a
      BY <1>10, <1>12, <3>1, SealedNone, ConcatEmptySeq
    <3> QED
      BY <1>10, <3>2, SameSelf
  <2> QED
    BY <2>1, <2>2
<1>14. PICK m \in DownFrames : m = Frame(server.keys, "startArtwork", c) /\ m.kind = "startArtwork"
  BY <1>1, SentFrames, FrameIs
<1>15. down' = Append(r, m)
  <2>1. down \o Sealed(server.keys, (x \o y) \o <<<<"startArtwork", c>>>>)
            = (down \o Sealed(server.keys, x \o y)) \o Sealed(server.keys, <<<<"startArtwork", c>>>>)
    BY <1>1, <1>5, <1>6, OursOn
  <2>2. down \o Sealed(server.keys, x \o y) = r
    BY <1>1, <1>5, <1>8, <1>12, OursOn
  <2>3. down' = r \o Sealed(server.keys, <<<<"startArtwork", c>>>>)
    BY <1>7, <2>1, <2>2
  <2> QED
    BY <1>13, <1>14, <2>3, SendsOne
<1>16. Moves(s, m, [s EXCEPT !.artwork = s.config])
  <2>1. s.artwork \notin {None, s.config} => s.transfer = 0
    BY <1>2, <1>4, <1>11
  <2>2. Moves(s, Frame(s.keys, "startArtwork", s.config), [s EXCEPT !.artwork = s.config])
    BY <1>11, <2>1, StartArtworkMoves
  <2> QED
    BY <1>11, <1>14, <2>2
<1>17. server' = [s EXCEPT !.artwork = s.config]
  BY <1>1, <1>3, <1>9 DEF ServerStates
<1>18. Road(server', down', View(client))
  BY <1>13, <1>14, <1>15, <1>16, <1>17, RoadMore
<1>19. SameSource(down, down')
  <2>1. SameSource(down, r)
    BY <1>10, <1>13, SameTwice
  <2> QED
    BY <1>13, <1>14, <1>15, <2>1, OtherFrame, SameTwice
<1>20. server'.heard \subseteq server'.roles /\ SameForSource(server, server')
  BY <1>1, <1>3 DEF ServerStates, SameForSource
<1>21. streams' \in 0..MaxStreams
  BY <1>1, <1>3, Facts
<1> QED
  BY <1>3, <1>7, <1>18, <1>19, <1>20, <1>21, CallKeeps

\* The player's stream ends too, if it does.
LEMMA EndsPlayer ==
    ASSUME Typed, NEW s, NEW v, NEW r \in Seq(DownFrames), Road(s, r, v), s.keys = server.keys, s.phase # "closed",
           s.stream # None
    PROVE  /\ r \o Sealed(server.keys, <<<<"end", "player">>>>) \in Seq(DownFrames)
           /\ SameSource(r, r \o Sealed(server.keys, <<<<"end", "player">>>>))
           /\ Road([s EXCEPT !.stream = None], r \o Sealed(server.keys, <<<<"end", "player">>>>), v)
<1>1. PICK m \in DownFrames : m = Frame(server.keys, "end", "player") /\ m.kind = "end"
  BY SentFrames, FrameIs
<1>2. r \o Sealed(server.keys, <<<<"end", "player">>>>) = Append(r, m)
  BY <1>1, SendsOne
<1>3. ServerOK(s)
  BY DEF Road
<1>4. Moves(s, Frame(s.keys, "end", "player"), [s EXCEPT !.stream = None])
  BY <1>3, EndPlayerMoves
<1>5. Moves(s, m, [s EXCEPT !.stream = None])
  BY <1>1, <1>4
<1>6. Road([s EXCEPT !.stream = None], Append(r, m), v)
  BY <1>1, <1>5, RoadMore
<1>7. SameSource(r, Append(r, m)) /\ Append(r, m) \in Seq(DownFrames)
  BY <1>1, OtherFrame
<1> QED
  BY <1>2, <1>6, <1>7

\* activate() of the roles: the server's state, and the frames of it.
LEMMA ActivateSends ==
    ASSUME StreamsInv, NEW roles \in SUBSET Roles, Activate(roles)
    PROVE  /\ down' \in Seq(DownFrames) /\ Len(down') <= MaxDown
           /\ server' \in ServerStates /\ server'.heard \subseteq server'.roles
           /\ server'.phase = "active" /\ server'.roles = roles
           /\ server'.sourceOpen = (server.sourceOpen /\ "source" \in server.roles \cap roles)
           /\ Road(server', down', View(client))
           /\ \E q \in Seq(DownFrames) : \E m \in DownFrames :
                 SameSource(down, q) /\ m.kind = "activate" /\ m.body = roles /\ down' = Append(q, m)
<1>1. ServerOK(server) /\ server \in ServerStates /\ server.heard \subseteq server.roles /\ Typed
      /\ down \in Seq(DownFrames) /\ Road(server, down, View(client))
  BY ServerIs, Facts DEF StreamsInv, Way
<1>2. PICK e \in BOOLEAN : e <=> server.artwork # None /\ "artwork" \notin roles
  OBVIOUS
<1>3. PICK p \in BOOLEAN : p <=> server.stream # None /\ "player" \notin roles
  OBVIOUS
<1> DEFINE x == If(e, Cancelling \o <<<<"end", "artwork">>>>)
           y == If(p, <<<<"end", "player">>>>)
           z == <<<<"activate", roles>>>>
<1>4. /\ server.phase \in {"ready", "active"} /\ server.activations < MaxActivations
      /\ ToClient(x \o y \o z)
      /\ server' = [server EXCEPT
            !.phase = "active", !.roles = roles, !.activations = server.activations + 1,
            !.heard = server.heard \cap (server.roles \cap roles),
            !.stream = IF p THEN None ELSE server.stream,
            !.artwork = IF e THEN None ELSE server.artwork,
            !.transfer = IF e THEN 0 ELSE server.transfer,
            !.sourceStarted = server.sourceStarted /\ "source" \in server.roles \cap roles,
            !.sourceOpen = server.sourceOpen /\ "source" \in server.roles \cap roles]
  <2>1. (server.artwork # None /\ "artwork" \notin roles) = e /\ (server.stream # None /\ "player" \notin roles) = p
    BY <1>2, <1>3
  <2> QED
    BY <2>1 DEF Activate
<1>5. x \in Seq(Ours) /\ y \in Seq(Ours) /\ z \in Seq(Ours)
  <2>1. Cancelling \o <<<<"end", "artwork">>>> \in Seq(Ours)
    BY OursLists, OursConcat
  <2> QED
    BY <2>1, OursLists DEF If
<1> HIDE DEF x, y, z
<1>6. x \o y \in Seq(Ours) /\ (x \o y) \o z \in Seq(Ours)
  BY <1>5, OursConcat
<1>7. /\ down' = down \o Sealed(server.keys, (x \o y) \o z)
      /\ down' \in Seq(DownFrames) /\ Len(down') <= MaxDown
  BY <1>1, <1>4, <1>6, OursSent, SendsDownList
<1>8. PICK a : a = down \o Sealed(server.keys, x)
  OBVIOUS
<1>9. PICK q : q = a \o Sealed(server.keys, y)
  OBVIOUS
<1>10. down' = q \o Sealed(server.keys, z)
  <2>1. down \o Sealed(server.keys, (x \o y) \o z) = (down \o Sealed(server.keys, x \o y)) \o Sealed(server.keys, z)
    BY <1>1, <1>5, <1>6, OursOn
  <2>2. down \o Sealed(server.keys, x \o y) = q
    BY <1>1, <1>5, <1>8, <1>9, OursOn
  <2> QED
    BY <1>7, <2>1, <2>2
<1>11. PICK s1 : s1 = IF e THEN [server EXCEPT !.artwork = None, !.transfer = 0] ELSE server
  OBVIOUS
<1>12. a \in Seq(DownFrames) /\ SameSource(down, a) /\ Road(s1, a, View(client))
  <2>1. CASE e
    <3>1. /\ a = down \o Sealed(server.keys, Cancelling \o <<<<"end", "artwork">>>>)
          /\ server.artwork # None /\ server.phase # "closed"
      BY <1>2, <1>4, <1>8, <2>1 DEF x, If
    <3> QED
      BY <1>11, <2>1, <3>1, EndsArtwork
  <2>2. CASE ~e
    <3>1. x = <<>>
      BY <2>2 DEF x, If
    <3>2. a = down
      BY <1>1, <1>8, <3>1, SealedNone, ConcatEmptySeq
    <3> QED
      BY <1>1, <1>11, <2>2, <3>2, SameSelf
  <2> QED
    BY <2>1, <2>2
<1>13. /\ s1.keys = server.keys /\ s1.phase = server.phase /\ s1.stream = server.stream
       /\ s1 \in ServerStates
       /\ s1.artwork = (IF e THEN None ELSE server.artwork) /\ s1.transfer = (IF e THEN 0 ELSE server.transfer)
  <2>1. s1 \in ServerStates
    BY <1>12 DEF Road, ServerOK
  <2> QED
    BY <1>1, <1>11, <2>1 DEF ServerStates
<1>14. PICK s2 : s2 = IF p THEN [s1 EXCEPT !.stream = None] ELSE s1
  OBVIOUS
<1>15. q \in Seq(DownFrames) /\ SameSource(a, q) /\ Road(s2, q, View(client))
  <2>1. CASE p
    <3>1. s1.phase # "closed" /\ s1.stream # None
      BY <1>3, <1>4, <1>13, <2>1
    <3>2. q = a \o Sealed(server.keys, <<<<"end", "player">>>>)
      BY <1>9, <2>1 DEF y, If
    <3>3. s2 = [s1 EXCEPT !.stream = None]
      BY <1>14, <2>1
    <3> QED
      BY <1>1, <1>12, <1>13, <3>1, <3>2, <3>3, EndsPlayer
  <2>2. CASE ~p
    <3>1. y = <<>>
      BY <2>2 DEF y, If
    <3>2. q = a
      BY <1>9, <1>12, <3>1, SealedNone, ConcatEmptySeq
    <3> QED
      BY <1>12, <1>14, <2>2, <3>2, SameSelf
  <2> QED
    BY <2>1, <2>2
<1>16. /\ s2.keys = server.keys /\ s2.phase = server.phase
       /\ s2.stream = (IF p THEN None ELSE server.stream)
       /\ s2.artwork = (IF e THEN None ELSE server.artwork) /\ s2.transfer = (IF e THEN 0 ELSE server.transfer)
  BY <1>13, <1>14 DEF ServerStates
<1>17. /\ server' \in ServerStates /\ server'.phase = "active" /\ server'.roles = roles /\ server'.keys = server.keys
       /\ server'.stream = s2.stream /\ server'.artwork = s2.artwork /\ server'.transfer = s2.transfer
       /\ server'.heard = server.heard \cap (server.roles \cap roles)
       /\ server'.sourceOpen = (server.sourceOpen /\ "source" \in server.roles \cap roles)
  <2>1. server.activations + 1 \in 0..MaxActivations
    <3>1. server.activations \in 0..MaxActivations /\ MaxActivations \in Nat
      BY <1>1, ServerTypes, StreamsAssumption
    <3> QED
      BY <1>4, <3>1
  <2>2. /\ (server.sourceStarted /\ "source" \in server.roles \cap roles) \in BOOLEAN
        /\ (server.sourceOpen /\ "source" \in server.roles \cap roles) \in BOOLEAN
    OBVIOUS
  <2>3. /\ None \in 0..MaxStreams /\ 0 \in 0..MaxParts /\ server.heard \cap (server.roles \cap roles) \in SUBSET Roles
        /\ server.stream \in 0..MaxStreams /\ server.artwork \in Configs \cup {None} /\ server.transfer \in 0..MaxParts
    BY <1>1, ServerTypes
  <2>4. /\ (IF p THEN None ELSE server.stream) \in 0..MaxStreams
        /\ (IF e THEN None ELSE server.artwork) \in Configs \cup {None}
        /\ (IF e THEN 0 ELSE server.transfer) \in 0..MaxParts
    BY <2>3
  <2>5. PICK n \in 0..MaxActivations : n = server.activations + 1
    BY <2>1
  <2>6. PICK h \in SUBSET Roles : h = server.heard \cap (server.roles \cap roles)
    BY <2>3
  <2>7. PICK b \in BOOLEAN, c \in BOOLEAN :
           /\ b = (server.sourceStarted /\ "source" \in server.roles \cap roles)
           /\ c = (server.sourceOpen /\ "source" \in server.roles \cap roles)
    BY <2>2
  <2>8. PICK u \in 0..MaxStreams, v \in Configs \cup {None}, w \in 0..MaxParts :
           /\ u = (IF p THEN None ELSE server.stream)
           /\ v = (IF e THEN None ELSE server.artwork)
           /\ w = (IF e THEN 0 ELSE server.transfer)
    BY <2>4
  <2>9. server' = [server EXCEPT !.phase = "active", !.roles = roles, !.activations = n, !.heard = h,
                                 !.stream = u, !.artwork = v, !.transfer = w, !.sourceStarted = b, !.sourceOpen = c]
    BY <1>4, <2>5, <2>6, <2>7, <2>8
  <2>10. /\ server' \in ServerStates /\ server'.phase = "active" /\ server'.roles = roles
         /\ server'.keys = server.keys /\ server'.heard = h
         /\ server'.stream = u /\ server'.artwork = v /\ server'.transfer = w /\ server'.sourceOpen = c
    BY <1>1, <2>9 DEF ServerStates
  <2> QED
    BY <1>16, <2>6, <2>7, <2>8, <2>10
<1>18. PICK m \in DownFrames : m = Frame(server.keys, "activate", roles) /\ m.kind = "activate" /\ m.body = roles
  BY <1>1, SentFrames, FrameIs
<1>19. down' = Append(q, m)
  BY <1>10, <1>15, <1>18, SendsOne DEF z
<1>20. Moves(s2, m, server')
  <2>1. ServerOK(s2)
    BY <1>15 DEF Road
  <2>2. /\ s2.artwork # None => "artwork" \in roles
        /\ s2.stream # None => "player" \in roles
    BY <1>2, <1>3, <1>16
  <2>3. PICK t \in ServerStates : t = server'
    BY <1>17
  <2>4. /\ t.phase = "active" /\ t.roles = roles /\ t.keys = s2.keys
        /\ t.stream = s2.stream /\ t.artwork = s2.artwork /\ t.transfer = s2.transfer
        /\ s2.phase \in {"ready", "active"}
    BY <1>4, <1>16, <1>17, <2>3
  <2>5. Moves(s2, Frame(s2.keys, "activate", roles), t)
    BY <2>1, <2>2, <2>4, ActivateMoves
  <2> QED
    BY <1>16, <1>18, <2>3, <2>5
<1>21. Road(server', down', View(client))
  BY <1>15, <1>18, <1>19, <1>20, RoadMore
<1>22. server'.heard \subseteq server'.roles
  BY <1>17
<1>23. SameSource(down, q)
  BY <1>12, <1>15, SameTwice
<1> QED
  BY <1>7, <1>15, <1>17, <1>18, <1>19, <1>21, <1>22, <1>23

LEMMA ActivateKeeps == ASSUME StreamsInv, NEW roles \in SUBSET Roles, Activate(roles) PROVE StreamsInv'
<1>1. /\ down' \in Seq(DownFrames) /\ Len(down') <= MaxDown
      /\ server' \in ServerStates /\ server'.heard \subseteq server'.roles
      /\ server'.phase = "active" /\ server'.roles = roles
      /\ server'.sourceOpen = (server.sourceOpen /\ "source" \in server.roles \cap roles)
      /\ Road(server', down', View(client))
  BY ActivateSends
<1>2. PICK q \in Seq(DownFrames), m \in DownFrames :
         SameSource(down, q) /\ m.kind = "activate" /\ m.body = roles /\ down' = Append(q, m)
  BY ActivateSends
<1>3. /\ server.phase \in {"ready", "active"} /\ client.phase # "closed"
      /\ UNCHANGED <<client, up, streams>>
  BY DEF Activate, Connected
<1>4. Typed'
  BY <1>1, <1>3, Facts DEF StreamsInv, Typed, StreamsTypeOK
<1>5. Way'
  BY <1>1, <1>3 DEF Way
<1>6. Sourced(server', client', down', up')
  <2>1. /\ Covered(down, HasSource(server))
        /\ "source" \in client.roles => HasSource(server) \/ Lapses(down)
        /\ client.sourceOpen => "source" \in client.roles \cup client.carried
        /\ Told(up, client.sourceOpen)
        /\ Silent(up) => IF client.sourceOpen
                         THEN HasSource(server) => server.sourceOpen \/ Lapses(down) \/ "source" \in client.carried
                         ELSE ~server.sourceOpen
    BY <1>3 DEF StreamsInv, Sourced
  <2>2. Lapses(q) <=> Lapses(down)
    BY <1>2 DEF SameSource
  <2>3. Lapses(down') <=> Lapses(down) \/ Drops(m)
    BY <1>2, <2>2, LapsesMore
  <2>4. HasSource(server') <=> "source" \in roles
    BY <1>1 DEF HasSource
  <2>5. CASE "source" \notin roles
    <3>1. Drops(m)
      BY <1>2, <2>5 DEF Drops
    <3>2. HasSource(server') \in BOOLEAN
      BY DEF HasSource
    <3>3. Covered(down', HasSource(server'))
      BY <1>2, <3>1, <3>2, LapsesMore
    <3>4. ~server'.sourceOpen
      BY <1>1, <2>5
    <3> QED
      BY <1>1, <1>3, <2>1, <2>3, <3>1, <3>3, <3>4 DEF Sourced
  <2>6. CASE "source" \in roles
    <3>1. Gives(m) /\ HasSource(server') = TRUE
      BY <1>1, <1>2, <2>6 DEF Gives, HasSource
    <3>2. Covered(down', HasSource(server'))
      BY <1>2, <3>1, LapsesMore
    <3>3. Silent(up) /\ client.sourceOpen => server'.sourceOpen \/ Lapses(down') \/ "source" \in client.carried
      <4>1. ASSUME Silent(up), client.sourceOpen, ~Lapses(down), "source" \notin client.carried
            PROVE  server.sourceOpen /\ "source" \in server.roles
        <5>1. HasSource(server)
          BY <2>1, <4>1
        <5>2. "source" \in server.roles
          BY <5>1 DEF HasSource
        <5> QED
          BY <2>1, <4>1, <5>1, <5>2
      <4> QED
        BY <1>1, <2>3, <2>6, <4>1
    <3>4. Silent(up) /\ ~client.sourceOpen => ~server'.sourceOpen
      BY <1>1, <2>1
    <3> QED
      BY <1>1, <1>3, <2>1, <3>1, <3>2, <3>3, <3>4 DEF Sourced
  <2> QED
    BY <2>5, <2>6
<1> QED
  BY <1>4, <1>5, <1>6 DEF StreamsInv

----------------------------------------------------------------------------
(* ServerSession's handling of a frame.                                    *)

LEMMA UpTaken ==
    ASSUME Typed, up # <<>>, up' = Tail(up)
    PROVE  /\ up' \in Seq(UpFrames) /\ Len(up') <= MaxUp
           /\ Head(up) = up[1] /\ up[1] \in UpFrames
<1>1. up \in Seq(UpFrames) /\ Len(up) <= MaxUp /\ MaxUp \in Nat
  BY Facts, StreamsAssumption
<1>2. Tail(up) \in Seq(UpFrames) /\ Len(Tail(up)) = Len(up) - 1 /\ Head(up) = up[1] /\ up[1] \in UpFrames /\ Len(up) \in Nat
  BY <1>1
<1> QED
  BY <1>1, <1>2

LEMMA HandlerKeeps ==
    ASSUME StreamsInv, client.phase # "closed", UNCHANGED <<client, down, streams>>, up # <<>>, up' = Tail(up),
           ServerOK(server'), server'.heard \subseteq server'.roles, server'.keys = server.keys,
           \A w \in Views : Matches(server, w) => Matches(server', w),
           Sourced(server', client, down, up')
    PROVE  StreamsInv'
<1>1. Typed /\ up' \in Seq(UpFrames) /\ Len(up') <= MaxUp
  BY UpTaken DEF StreamsInv
<1>2. Typed'
  BY <1>1, Facts DEF Typed, StreamsTypeOK, ServerOK
<1>3. Way'
  <2>1. PICK t : t = server'
    OBVIOUS
  <2>2. Road(t, down, View(client))
    BY <1>1, <2>1, Facts, RoadStays DEF StreamsInv, Way
  <2> QED
    BY <2>1, <2>2 DEF Way
<1> QED
  BY <1>2, <1>3 DEF StreamsInv

\* A frame that says nothing of the stream leaves what the server is told.
LEMMA SourcedHears ==
    ASSUME NEW s, NEW t, NEW c, NEW q, NEW u \in Seq(UpFrames), Sourced(s, c, q, u), SameForSource(s, t), u # <<>>,
           ~Speaks(u[1]), c.sourceOpen \in BOOLEAN
    PROVE  Sourced(t, c, q, Tail(u))
<1>1. /\ Silent(Tail(u)) <=> Silent(u)
      /\ Told(u, c.sourceOpen) => Told(Tail(u), c.sourceOpen)
  BY ToldOn
<1>2. HasSource(t) = HasSource(s)
  BY DEF HasSource, SameForSource
<1> QED
  BY <1>1, <1>2 DEF Sourced, SameForSource

LEMMA ClientTypes ==
    ASSUME NEW c \in ClientStates
    PROVE  /\ c.phase \in {"hello", "provisional", "active", "closed"} /\ c.keys \in Keys /\ c.roles \in SUBSET Roles
           /\ c.activations \in Nat /\ c.external \in BOOLEAN /\ c.config \in Configs /\ c.sentState \in BOOLEAN
           /\ c.stream \in 0..MaxStreams /\ c.artwork \in Configs \cup {None} /\ c.transfer \in 0..MaxParts
           /\ c.sourceStarted \in BOOLEAN /\ c.sourceOpen \in BOOLEAN /\ c.carried \in SUBSET Roles
BY DEF ClientStates, Keys

LEMMA EstablishedKeeps == ASSUME StreamsInv, Established PROVE StreamsInv'
<1>1. ServerOK(server) /\ server \in ServerStates /\ Typed /\ down \in Seq(DownFrames) /\ Len(down) \in Nat
      /\ Road(server, down, View(client))
  BY ServerIs, Facts DEF StreamsInv, Way
<1>2. /\ client.phase # "closed" /\ up # <<>> /\ Head(up).kind = "handshake" /\ up' = Tail(up)
      /\ server.phase = "rehandshake" /\ Len(down) < MaxDown /\ UNCHANGED <<client, streams>>
      /\ server' = FreshServer(server.keys + 1)
      /\ down' = down \o Sealed(server.keys + 1, <<<<"hello", None>>>>)
  BY DEF Established, Hears, Connected
<1>3. up' \in Seq(UpFrames) /\ Len(up') <= MaxUp /\ Head(up) = up[1] /\ up[1] \in UpFrames
  BY <1>1, <1>2, UpTaken
<1>4. PICK k \in Keys : k = server.keys + 1
  BY <1>1, <1>2, ServerTypes, StreamsAssumption DEF ServerOK, Keys
<1>5. PICK m \in DownFrames : m = Frame(k, "hello", None) /\ m.kind = "hello"
  BY DownSent, FrameIs
<1>6. down' = Append(down, m)
  BY <1>1, <1>2, <1>4, <1>5, SendsOne
<1>7. down' \in Seq(DownFrames) /\ Len(down') <= MaxDown
  <2>1. Append(down, m) \in Seq(DownFrames) /\ Len(Append(down, m)) = Len(down) + 1
    BY <1>1
  <2>2. MaxDown \in Nat
    BY StreamsAssumption
  <2>3. ASSUME NEW i \in Nat, NEW n \in Nat, i < n PROVE i + 1 <= n
    BY <2>3
  <2>4. Len(down) + 1 <= MaxDown
    BY <1>1, <1>2, <2>2, <2>3
  <2> QED
    BY <1>6, <2>1, <2>4
<1>8. Road(server', down', View(client))
  <2>1. Moves(server, m, server')
    BY <1>1, <1>2, <1>4, <1>5, HelloMoves
  <2> QED
    BY <1>1, <1>6, <2>1, RoadMore
<1>9. /\ server'.phase = "hello" /\ server'.sourceOpen = FALSE
      /\ server'.heard = {} /\ server'.roles = {}
  BY <1>2 DEF FreshServer
<1>10. Typed'
  BY <1>1, <1>2, <1>3, <1>7, <1>8, <1>9, Facts DEF Typed, StreamsTypeOK, Road, ServerOK
<1>11. Way'
  BY <1>2, <1>8 DEF Way
<1>12. Sourced(server', client', down', up')
  <2>1. SameSource(down, down')
    BY <1>1, <1>5, <1>6, OtherFrame
  <2>2. ~HasSource(server') /\ ~HasSource(server) /\ HasSource(server) \in BOOLEAN /\ HasSource(server') = HasSource(server)
    BY <1>2, <1>9 DEF HasSource
  <2>3. (Lapses(down') <=> Lapses(down)) /\ (Covered(down, HasSource(server)) => Covered(down', HasSource(server')))
    BY <2>1, <2>2 DEF SameSource
  <2>4. client.sourceOpen \in BOOLEAN
    BY <1>1, Facts, ClientTypes
  <2>5. Told(up, client.sourceOpen) => Told(up', client.sourceOpen)
    BY <1>1, <1>2, <2>4, Facts, ToldOn
  <2> QED
    BY <1>2, <1>9, <2>2, <2>3, <2>5 DEF Sourced, StreamsInv
<1> QED
  BY <1>10, <1>11, <1>12 DEF StreamsInv

LEMMA DiscardedKeeps == ASSUME StreamsInv, Discarded PROVE StreamsInv'
<1>1. /\ client.phase # "closed" /\ up # <<>> /\ up' = Tail(up) /\ server.phase \in {"rehandshake", "hello"}
      /\ UNCHANGED <<server, client, down, streams>>
  BY DEF Discarded, Hears, Connected
<1>2. ServerOK(server) /\ server.heard \subseteq server.roles /\ up \in Seq(UpFrames) /\ client.sourceOpen \in BOOLEAN
  BY ServerIs, Facts, ClientTypes DEF StreamsInv
<1>3. Told(up, client.sourceOpen) => Told(up', client.sourceOpen)
  BY <1>1, <1>2, ToldOn
<1>4. Sourced(server', client, down, up')
  <2>1. ~HasSource(server)
    BY <1>1 DEF HasSource
  <2>2. server.phase # "rehandshake" => ~server.sourceOpen
    BY <1>1, <1>2 DEF ServerOK
  <2> QED
    BY <1>1, <1>3, <2>1, <2>2 DEF Sourced, StreamsInv
<1> QED
  BY <1>1, <1>2, <1>4, HandlerKeeps

LEMMA ClientHelloKeeps == ASSUME StreamsInv, ClientHello PROVE StreamsInv'
<1>1. /\ client.phase # "closed" /\ up # <<>> /\ Head(up).kind = "hello" /\ up' = Tail(up) /\ server.phase = "hello"
      /\ server' = [server EXCEPT !.phase = "ready"] /\ UNCHANGED <<client, down, streams>>
  BY DEF ClientHello, Hears, Connected
<1>2. /\ ServerOK(server) /\ server \in ServerStates /\ server.heard \subseteq server.roles /\ up \in Seq(UpFrames)
      /\ client.sourceOpen \in BOOLEAN /\ Head(up) = up[1]
  BY <1>1, ServerIs, Facts, ClientTypes, UpTaken DEF StreamsInv
<1>3. /\ server'.phase = "ready" /\ server'.keys = server.keys /\ server'.roles = server.roles
      /\ server'.stream = server.stream /\ server'.artwork = server.artwork /\ server'.transfer = server.transfer
      /\ server'.sourceOpen = server.sourceOpen /\ server'.heard = server.heard /\ server' \in ServerStates
  BY <1>1, <1>2 DEF ServerStates
<1>4. ServerOK(server')
  BY <1>1, <1>2, <1>3 DEF ServerOK
<1>5. \A w \in Views : Matches(server, w) => Matches(server', w)
  BY <1>1, <1>3 DEF Matches
<1>6. Sourced(server', client, down, up')
  <2>1. ~Speaks(up[1])
    BY <1>1, <1>2 DEF Speaks
  <2>2. /\ Silent(up') <=> Silent(up)
        /\ Told(up, client.sourceOpen) => Told(up', client.sourceOpen)
    BY <1>1, <1>2, <2>1, ToldOn
  <2>3. HasSource(server') = HasSource(server)
    BY <1>1, <1>3 DEF HasSource
  <2> QED
    BY <1>1, <1>3, <2>2, <2>3 DEF Sourced, StreamsInv
<1> QED
  BY <1>1, <1>2, <1>3, <1>4, <1>5, <1>6, HandlerKeeps

LEMMA ClientStateKeeps == ASSUME StreamsInv, ClientState PROVE StreamsInv'
<1> DEFINE body == Head(up).body
<1>1. /\ client.phase # "closed" /\ up # <<>> /\ Head(up).kind = "state" /\ up' = Tail(up)
      /\ server.phase \in {"ready", "active"} /\ UNCHANGED <<client, down, streams>>
      /\ server' = [server EXCEPT
            !.available = body.available,
            !.heard = @ \cup {role \in body.roles : Active(role)},
            !.config = IF "artwork" \in body.roles THEN body.config ELSE IF Active("artwork") THEN @ ELSE None,
            !.sourceStarted = @ /\ body.available]
  BY DEF ClientState, Hears, Connected
<1>2. /\ ServerOK(server) /\ server \in ServerStates /\ server.heard \subseteq server.roles /\ up \in Seq(UpFrames)
      /\ client.sourceOpen \in BOOLEAN /\ Head(up) = up[1] /\ up[1] \in UpFrames
  BY <1>1, ServerIs, Facts, ClientTypes, UpTaken DEF StreamsInv
<1>3. body \in Reports
  BY <1>1, <1>2, UpKinds
<1>4. PICK a \in BOOLEAN, c \in Configs \cup {None}, b \in BOOLEAN, h \in SUBSET Roles :
         /\ h = server.heard \cup {role \in body.roles : Active(role)} /\ h \subseteq server.roles
         /\ server' = [server EXCEPT !.available = a, !.heard = h, !.config = c, !.sourceStarted = b]
  <2>1. /\ body.available \in BOOLEAN /\ body.roles \in SUBSET Roles /\ body.config \in Configs
    BY <1>3 DEF Reports
  <2>2. server.heard \in SUBSET Roles /\ server.config \in Configs \cup {None} /\ server.sourceStarted \in BOOLEAN
    BY <1>2, ServerTypes
  <2>3. PICK h \in SUBSET Roles : h = server.heard \cup {role \in body.roles : Active(role)} /\ h \subseteq server.roles
    <3> DEFINE said == {role \in body.roles : Active(role)}
    <3>1. said \subseteq body.roles /\ said \subseteq server.roles
      BY DEF Active
    <3> HIDE DEF said, body
    <3>2. server.heard \cup said \in SUBSET Roles /\ server.heard \cup said \subseteq server.roles
      BY <1>2, <2>1, <2>2, <3>1
    <3> QED
      BY <3>2 DEF said
  <2>4. PICK c \in Configs \cup {None} :
           c = IF "artwork" \in body.roles THEN body.config ELSE IF Active("artwork") THEN server.config ELSE None
    BY <2>1, <2>2
  <2>5. PICK b \in BOOLEAN : b = (server.sourceStarted /\ body.available)
    BY <2>1, <2>2
  <2>6. PICK a \in BOOLEAN : a = body.available
    BY <2>1
  <2> HIDE DEF body
  <2>7. server' = [server EXCEPT !.available = a, !.heard = h, !.config = c, !.sourceStarted = b]
    BY <1>1, <2>3, <2>4, <2>5, <2>6
  <2> QED
    BY <2>3, <2>7
<1> HIDE DEF body
<1>5. /\ server' \in ServerStates /\ server'.phase = server.phase /\ server'.keys = server.keys
      /\ server'.roles = server.roles /\ server'.stream = server.stream
      /\ server'.artwork = server.artwork /\ server'.transfer = server.transfer
      /\ server'.sourceOpen = server.sourceOpen /\ server'.heard = h
  BY <1>2, <1>4 DEF ServerStates
<1>6. ServerOK(server')
  BY <1>2, <1>5 DEF ServerOK
<1>7. \A w \in Views : Matches(server, w) => Matches(server', w)
  BY <1>5 DEF Matches, Images
<1>8. Sourced(server', client, down, up')
  <2>1. ~Speaks(up[1])
    BY <1>1, <1>2 DEF Speaks
  <2>2. SameForSource(server, server')
    BY <1>5 DEF SameForSource
  <2> QED
    BY <1>1, <1>2, <2>1, <2>2, SourcedHears DEF StreamsInv
<1> QED
  BY <1>1, <1>4, <1>5, <1>6, <1>7, <1>8, HandlerKeeps

\* A start or an end of the input stream: what is said last is what the client has.
LEMMA StreamHeard ==
    ASSUME StreamsInv, Connected, up # <<>>, Speaks(up[1]), up' = Tail(up), server.phase \in {"ready", "active"},
           UNCHANGED <<client, down, streams>>, NEW open \in BOOLEAN, server' = [server EXCEPT !.sourceOpen = open],
           server.phase = "ready" => ~open,
           up[1].kind = "endSource" => ~open,
           up[1].kind = "startSource" /\ server.phase = "active" /\ "source" \in server.roles => open
    PROVE  StreamsInv'
<1>1. /\ ServerOK(server) /\ server \in ServerStates /\ server.heard \subseteq server.roles /\ up \in Seq(UpFrames)
      /\ client.sourceOpen \in BOOLEAN
  BY ServerIs, Facts, ClientTypes DEF StreamsInv
<1>2. /\ server' \in ServerStates /\ server'.phase = server.phase /\ server'.keys = server.keys
      /\ server'.roles = server.roles /\ server'.stream = server.stream
      /\ server'.artwork = server.artwork /\ server'.transfer = server.transfer
      /\ server'.sourceOpen = open /\ server'.heard = server.heard
  BY <1>1 DEF ServerStates
<1>3. ServerOK(server')
  BY <1>1, <1>2 DEF ServerOK
<1>4. \A w \in Views : Matches(server, w) => Matches(server', w)
  BY <1>2 DEF Matches, Images
<1>5. HasSource(server') = HasSource(server)
  BY <1>2 DEF HasSource
<1>6. Sourced(server', client, down, up')
  <2>1. /\ Covered(down, HasSource(server))
        /\ "source" \in client.roles => HasSource(server) \/ Lapses(down)
        /\ client.sourceOpen => "source" \in client.roles \cup client.carried
        /\ Told(up, client.sourceOpen)
    BY DEF StreamsInv, Sourced, Connected
  <2>2. Told(up', client.sourceOpen) /\ (Silent(up') => (up[1].kind = "startSource" <=> client.sourceOpen))
    BY <1>1, <2>1, ToldOn
  <2>3. ASSUME Silent(up')
        PROVE  IF client.sourceOpen THEN HasSource(server) => server'.sourceOpen ELSE ~server'.sourceOpen
    <3>1. CASE client.sourceOpen
      <4>1. up[1].kind = "startSource"
        BY <2>2, <2>3, <3>1
      <4>2. HasSource(server) => open
        BY <4>1 DEF HasSource
      <4> QED
        BY <1>2, <3>1, <4>2
    <3>2. CASE ~client.sourceOpen
      <4>1. up[1].kind = "endSource"
        BY <2>2, <2>3, <3>2 DEF Speaks
      <4> QED
        BY <1>2, <3>2, <4>1
    <3> QED
      BY <3>1, <3>2
  <2> QED
    BY <1>2, <1>5, <2>1, <2>2, <2>3 DEF Sourced
<1> QED
  BY <1>1, <1>2, <1>3, <1>4, <1>6, HandlerKeeps DEF Connected

LEMMA SourceStartsKeeps == ASSUME StreamsInv, SourceStarts PROVE StreamsInv'
<1>1. /\ Connected /\ up # <<>> /\ Head(up).kind = "startSource" /\ up' = Tail(up) /\ client.phase # "closed"
      /\ server.phase \in {"ready", "active"} /\ UNCHANGED <<client, down, streams>>
  BY DEF SourceStarts, Hears, Connected
<1>2. /\ ServerOK(server) /\ server \in ServerStates /\ server.heard \subseteq server.roles /\ Head(up) = up[1]
  BY <1>1, ServerIs, UpTaken DEF StreamsInv
<1>3. Speaks(up[1]) /\ up[1].kind = "startSource"
  BY <1>1, <1>2 DEF Speaks
<1>4. CASE ~Active("source")
  <2>1. server' = server
    BY <1>4 DEF SourceStarts
  <2>2. PICK open \in BOOLEAN : open = server.sourceOpen
    BY <1>2, ServerTypes
  <2>3. server' = [server EXCEPT !.sourceOpen = open]
    BY <1>2, <2>1, <2>2 DEF ServerStates
  <2>4. server.phase = "ready" => ~open
    BY <1>2, <2>2 DEF ServerOK
  <2>5. ~(server.phase = "active" /\ "source" \in server.roles)
    BY <1>4 DEF Active
  <2> QED
    BY <1>1, <1>3, <2>3, <2>4, <2>5, StreamHeard
<1>5. CASE Active("source") /\ ~server.sourceStarted
  <2>1. server' = [server EXCEPT !.phase = "closed"]
    BY <1>5 DEF SourceStarts
  <2>2. /\ server' \in ServerStates /\ server'.phase = "closed" /\ server'.keys = server.keys
        /\ server'.artwork = server.artwork /\ server'.transfer = server.transfer
        /\ server'.heard = server.heard /\ server'.roles = server.roles
    BY <1>2, <2>1 DEF ServerStates
  <2>3. ServerOK(server')
    BY <1>2, <2>2 DEF ServerOK
  <2>4. \A w \in Views : Matches(server', w)
    BY <2>2 DEF Matches
  <2>5. Sourced(server', client, down, up')
    BY <2>2 DEF Sourced
  <2> QED
    BY <1>1, <1>2, <2>2, <2>3, <2>4, <2>5, HandlerKeeps
<1>6. CASE Active("source") /\ server.sourceStarted
  <2>1. server' = [server EXCEPT !.sourceOpen = TRUE]
    BY <1>6 DEF SourceStarts
  <2>2. server.phase = "active"
    BY <1>6 DEF Active
  <2> QED
    BY <1>1, <1>3, <2>1, <2>2, StreamHeard
<1> QED
  BY <1>4, <1>5, <1>6

LEMMA SourceEndsKeeps == ASSUME StreamsInv, SourceEnds PROVE StreamsInv'
<1>1. /\ Connected /\ up # <<>> /\ Head(up).kind = "endSource" /\ up' = Tail(up)
      /\ server.phase \in {"ready", "active"} /\ UNCHANGED <<client, down, streams>>
      /\ server' = [server EXCEPT !.sourceOpen = FALSE]
  BY DEF SourceEnds, Hears
<1>2. Head(up) = up[1]
  BY <1>1, UpTaken DEF StreamsInv
<1>3. Speaks(up[1]) /\ up[1].kind = "endSource"
  BY <1>1, <1>2 DEF Speaks
<1> QED
  BY <1>1, <1>3, StreamHeard

----------------------------------------------------------------------------
(* What the client sends.                                                  *)

\* Nothing of the input stream is said, or that it has ended.
QuietUp(u, r) == (Silent(r) <=> Silent(u)) /\ \A open \in BOOLEAN : Told(u, open) => Told(r, open)
EndsUp(u, r)  == ~Silent(r) /\ Told(r, FALSE)

LEMMA QuietSelf == \A u : QuietUp(u, u)
BY DEF QuietUp

LEMMA QuietTwice ==
    ASSUME NEW u, NEW r, NEW t, QuietUp(r, t)
    PROVE  (QuietUp(u, r) => QuietUp(u, t)) /\ (EndsUp(u, r) => EndsUp(u, t))
BY DEF QuietUp, EndsUp

LEMMA SaysMore ==
    ASSUME NEW u \in Seq(UpFrames), NEW m \in UpFrames
    PROVE  /\ m.kind \in {"handshake", "hello", "state"} => QuietUp(u, Append(u, m))
           /\ m.kind = "endSource" => EndsUp(u, Append(u, m))
           /\ m.kind = "startSource" => ~Silent(Append(u, m)) /\ Told(Append(u, m), TRUE)
<1>1. m.kind \in {"handshake", "hello", "state"} => ~Speaks(m)
  BY DEF Speaks
<1>2. m.kind \in {"endSource", "startSource"} => Speaks(m)
  BY DEF Speaks
<1>3. m.kind = "endSource" => (m.kind = "startSource") = FALSE
  OBVIOUS
<1>4. m.kind = "startSource" => (m.kind = "startSource") = TRUE
  OBVIOUS
<1>5. /\ ~Speaks(m) => (Silent(Append(u, m)) <=> Silent(u)) /\ \A open \in BOOLEAN : Told(u, open) => Told(Append(u, m), open)
      /\ Speaks(m) => ~Silent(Append(u, m)) /\ Told(Append(u, m), m.kind = "startSource")
  BY ToldMore
<1> QED
  BY <1>1, <1>2, <1>3, <1>4, <1>5 DEF QuietUp, EndsUp

LEMMA SendsUp ==
    ASSUME Typed, NEW t, NEW b, Frame(client.keys, t, b) \in UpFrames, ToServer(<<<<t, b>>>>)
    PROVE  /\ up' = Append(up, Frame(client.keys, t, b))
           /\ up' \in Seq(UpFrames) /\ Len(up') <= MaxUp
<1>1. up \in Seq(UpFrames)
  BY DEF Typed
<1>2. up' = Append(up, Frame(client.keys, t, b))
  BY <1>1, SendsOne DEF ToServer
<1>3. Len(<<<<t, b>>>>) = 1
  OBVIOUS
<1>4. Len(up) + 1 <= MaxUp
  BY <1>3 DEF ToServer
<1>5. up' \in Seq(UpFrames) /\ Len(up') = Len(up) + 1
  BY <1>1, <1>2
<1> QED
  BY <1>2, <1>4, <1>5

LEMMA SaysUp ==
    ASSUME Typed, NEW t \in {"handshake", "hello", "startSource", "endSource"}, ToServer(<<<<t, None>>>>)
    PROVE  /\ up' \in Seq(UpFrames) /\ Len(up') <= MaxUp
           /\ t \in {"handshake", "hello"} => QuietUp(up, up')
           /\ t = "endSource" => EndsUp(up, up')
           /\ t = "startSource" => ~Silent(up') /\ Told(up', TRUE)
<1>1. client.keys \in Keys /\ up \in Seq(UpFrames)
  BY Facts
<1>2. PICK m \in UpFrames : m = Frame(client.keys, t, None) /\ m.kind = t
  BY <1>1, UpSent, FrameIs
<1>3. up' = Append(up, m) /\ up' \in Seq(UpFrames) /\ Len(up') <= MaxUp
  BY <1>2, SendsUp
<1> QED
  BY <1>1, <1>2, <1>3, SaysMore

LEMMA NothingSaid ==
    ASSUME Typed, ToServer(<<>>)
    PROVE  up' = up
BY Facts, SealedNone, ConcatEmptySeq DEF ToServer

Theirs == {<<"endSource", None>>} \cup ({"state"} \X Reports)

\* One list, then another.
LEMMA TheirsOn ==
    ASSUME NEW x \in Seq(Theirs), NEW y \in Seq(Theirs), NEW u \in Seq(UpFrames), NEW k,
           Sealed(k, x) \in Seq(UpFrames), Sealed(k, y) \in Seq(UpFrames)
    PROVE  u \o Sealed(k, x \o y) = (u \o Sealed(k, x)) \o Sealed(k, y)
BY SendsOn

LEMMA TheirsSent ==
    ASSUME Typed, NEW x \in Seq(Theirs), NEW y \in Seq(Theirs), ToServer(x \o y)
    PROVE  /\ up' = (up \o Sealed(client.keys, x)) \o Sealed(client.keys, y)
           /\ up' \in Seq(UpFrames) /\ Len(up') <= MaxUp
<1>1. client.keys \in Keys /\ up \in Seq(UpFrames)
  BY Facts
<1>2. \A p \in Theirs : Frame(client.keys, p[1], p[2]) \in UpFrames
  <2>1. Frame(client.keys, "endSource", None) \in UpFrames /\ \A b \in Reports : Frame(client.keys, "state", b) \in UpFrames
    BY <1>1, UpSent
  <2> QED
    BY <2>1 DEF Theirs
<1>3. x \o y \in Seq(Theirs)
  BY ConcatProperties
<1>4. up' = up \o Sealed(client.keys, x \o y) /\ up' \in Seq(UpFrames) /\ Len(up') <= MaxUp
  BY <1>2, <1>3, SendsUpList
<1>5. Sealed(client.keys, x) \in Seq(UpFrames) /\ Sealed(client.keys, y) \in Seq(UpFrames)
  BY <1>2, SealedType
<1>6. ASSUME NEW u \in Seq(UpFrames), NEW k, Sealed(k, x) \in Seq(UpFrames), Sealed(k, y) \in Seq(UpFrames)
      PROVE  u \o Sealed(k, x \o y) = (u \o Sealed(k, x)) \o Sealed(k, y)
  BY <1>6, TheirsOn
<1>7. up \o Sealed(client.keys, x \o y) = (up \o Sealed(client.keys, x)) \o Sealed(client.keys, y)
  BY <1>1, <1>5, <1>6
<1> QED
  BY <1>4, <1>7

\* The end of the input stream, if it ends; then the client's state, if it is owed.
LEMMA SaysEnd ==
    ASSUME Typed, NEW e \in BOOLEAN, NEW o \in BOOLEAN, NEW r \in Reports,
           ToServer(If(e, <<<<"endSource", None>>>>) \o If(o, <<<<"state", r>>>>))
    PROVE  /\ up' \in Seq(UpFrames) /\ Len(up') <= MaxUp
           /\ IF e THEN EndsUp(up, up') ELSE QuietUp(up, up')
<1> DEFINE x == If(e, <<<<"endSource", None>>>>)
           y == If(o, <<<<"state", r>>>>)
<1>1. client.keys \in Keys /\ up \in Seq(UpFrames)
  BY Facts
<1>2. x \in Seq(Theirs) /\ y \in Seq(Theirs)
  <2>1. <<"endSource", None>> \in Theirs /\ <<"state", r>> \in Theirs
    BY DEF Theirs
  <2>2. \A p \in Theirs : <<p>> \in Seq(Theirs)
    OBVIOUS
  <2>3. <<>> \in Seq(Theirs)
    OBVIOUS
  <2>4. <<<<"endSource", None>>>> \in Seq(Theirs) /\ <<<<"state", r>>>> \in Seq(Theirs)
    BY <2>1, <2>2
  <2> QED
    BY <2>3, <2>4 DEF If
<1>3. ToServer(x \o y)
  OBVIOUS
<1> HIDE DEF x, y
<1>4. /\ up' = (up \o Sealed(client.keys, x)) \o Sealed(client.keys, y)
      /\ up' \in Seq(UpFrames) /\ Len(up') <= MaxUp
  BY <1>2, <1>3, TheirsSent
<1>5. PICK a : a = up \o Sealed(client.keys, x)
  OBVIOUS
<1>6. up' = a \o Sealed(client.keys, y)
  BY <1>4, <1>5
<1>7. a \in Seq(UpFrames) /\ IF e THEN EndsUp(up, a) ELSE QuietUp(up, a)
  <2>1. CASE e
    <3>1. PICK m \in UpFrames : m = Frame(client.keys, "endSource", None) /\ m.kind = "endSource"
      BY <1>1, UpSent, FrameIs
    <3>2. x = <<<<"endSource", None>>>>
      BY <2>1 DEF x, If
    <3>3. a = Append(up, m)
      BY <1>1, <1>5, <3>1, <3>2, SendsOne
    <3>4. Append(up, m) \in Seq(UpFrames)
      BY <1>1
    <3>5. EndsUp(up, Append(up, m))
      BY <1>1, <3>1, SaysMore
    <3> QED
      BY <2>1, <3>3, <3>4, <3>5
  <2>2. CASE ~e
    <3>1. x = <<>>
      BY <2>2 DEF x, If
    <3>2. a = up
      BY <1>1, <1>5, <3>1, SealedNone, ConcatEmptySeq
    <3> QED
      BY <1>1, <2>2, <3>2, QuietSelf
  <2> QED
    BY <2>1, <2>2
<1>8. QuietUp(a, up')
  <2>1. CASE o
    <3>1. PICK m \in UpFrames : m = Frame(client.keys, "state", r) /\ m.kind = "state"
      BY <1>1, UpSent, FrameIs
    <3>2. y = <<<<"state", r>>>>
      BY <2>1 DEF y, If
    <3>3. up' = Append(a, m)
      BY <1>6, <1>7, <3>1, <3>2, SendsOne
    <3> QED
      BY <1>7, <3>1, <3>3, SaysMore
  <2>2. CASE ~o
    <3>1. y = <<>>
      BY <2>2 DEF y, If
    <3>2. up' = a
      BY <1>6, <1>7, <3>1, SealedNone, ConcatEmptySeq
    <3> QED
      BY <3>2, QuietSelf
  <2> QED
    BY <2>1, <2>2
<1> QED
  BY <1>4, <1>7, <1>8, QuietTwice

----------------------------------------------------------------------------
(* PlayerSession's handling of a frame.                                    *)

\* What the client says of the input stream with what becomes of it.
Says(c, d, u, r) ==
    IF c.sourceOpen /\ ~d.sourceOpen THEN EndsUp(u, r) ELSE d.sourceOpen = c.sourceOpen /\ QuietUp(u, r)

\* What becomes of the roles, and of those it has kept since before a re-handshake.
LEMMA TakenRoles ==
    ASSUME NEW c, NEW d, NEW m, View(c) \in Views, View(d) = Taken(View(c), m), d.phase # "closed"
    PROVE  /\ m.kind = "activate" => d.roles = m.body /\ d.carried = c.carried \cap m.body
           /\ m.kind = "handshake" => d.roles = {} /\ d.carried = c.carried \cup c.roles
           /\ m.kind \notin {"activate", "handshake"} => d.roles = c.roles /\ d.carried = c.carried
<1>1. PICK v \in Views : v = View(c) /\ v.roles = c.roles /\ v.carried = c.carried
  BY ViewIs
<1>2. PICK w : w = View(d) /\ w.roles = d.roles /\ w.carried = d.carried /\ w = Taken(v, m)
  BY <1>1, ViewIs
<1>3. m.kind = "activate" => w.roles = m.body /\ w.carried = v.carried \cap m.body
  BY <1>2 DEF Taken, Views
<1>4. m.kind = "handshake" => w.roles = {} /\ w.carried = v.carried \cup v.roles
  BY <1>2 DEF Taken, Views
<1>5. m.kind \notin {"activate", "handshake"} => w.roles = v.roles /\ w.carried = v.carried
  BY <1>2 DEF Taken, Views
<1> QED
  BY <1>1, <1>2, <1>3, <1>4, <1>5

\* A frame taken,
LEMMA SourcedTakes ==
    ASSUME NEW s, NEW c, NEW d, NEW q \in Seq(DownFrames), NEW u, NEW r, Sourced(s, c, q, u), q # <<>>,
           c.phase # "closed", c.sourceOpen \in BOOLEAN, d.sourceOpen \in BOOLEAN, Says(c, d, u, r),
           q[1].kind = "activate" => d.roles = q[1].body /\ d.carried = c.carried \cap q[1].body,
           q[1].kind = "handshake" => d.roles = {} /\ d.carried = c.carried \cup c.roles,
           q[1].kind \notin {"activate", "handshake"} => d.roles = c.roles /\ d.carried = c.carried,
           q[1].kind = "activate" => (d.sourceOpen => "source" \in d.roles)
    PROVE  Sourced(s, d, Tail(q), r)
<1> SUFFICES ASSUME s.phase # "closed"
             PROVE  Sourced(s, d, Tail(q), r)
  BY DEF Sourced
<1>1. /\ Covered(q, HasSource(s))
      /\ "source" \in c.roles => HasSource(s) \/ Lapses(q)
      /\ c.sourceOpen => "source" \in c.roles \cup c.carried
      /\ Told(u, c.sourceOpen)
      /\ Silent(u) /\ s.phase # "rehandshake" =>
            IF c.sourceOpen THEN HasSource(s) => s.sourceOpen \/ Lapses(q) \/ "source" \in c.carried
                            ELSE ~s.sourceOpen
  BY DEF Sourced
<1>2. HasSource(s) \in BOOLEAN
  BY DEF HasSource
<1>3. /\ ~Drops(q[1]) => (Lapses(Tail(q)) <=> Lapses(q))
      /\ Covered(Tail(q), HasSource(s))
      /\ Gives(q[1]) => HasSource(s) \/ Lapses(Tail(q))
  BY <1>1, <1>2, LapsesOn
<1>4. d.sourceOpen => c.sourceOpen
  BY DEF Says
<1>5. q[1].kind \notin {"activate", "handshake"} => ~Drops(q[1])
  BY DEF Drops
<1>6. q[1].kind = "activate" /\ d.sourceOpen => ~Drops(q[1]) /\ "source" \in q[1].body
  BY DEF Drops
<1>7. "source" \in d.roles => HasSource(s) \/ Lapses(Tail(q))
  <2>1. q[1].kind = "activate" /\ "source" \in d.roles => Gives(q[1])
    BY DEF Gives
  <2> QED
    BY <1>1, <1>3, <1>5, <2>1
<1>8. d.sourceOpen => "source" \in d.roles \cup d.carried
  BY <1>1, <1>4
<1>9. d.sourceOpen /\ (Lapses(q) \/ "source" \in c.carried \/ q[1].kind = "handshake") =>
          Lapses(Tail(q)) \/ "source" \in d.carried
  BY <1>3, <1>5, <1>6, <1>8
<1>10. CASE c.sourceOpen /\ ~d.sourceOpen
  <2>1. ~Silent(r) /\ Told(r, FALSE) /\ d.sourceOpen = FALSE
    BY <1>10 DEF Says, EndsUp
  <2> QED
    BY <1>3, <1>7, <2>1 DEF Sourced
<1>11. CASE ~(c.sourceOpen /\ ~d.sourceOpen)
  <2>1. d.sourceOpen = c.sourceOpen /\ (Silent(r) <=> Silent(u)) /\ Told(r, c.sourceOpen)
    BY <1>1, <1>11 DEF Says, QuietUp
  <2> QED
    BY <1>1, <1>3, <1>7, <1>8, <1>9, <2>1 DEF Sourced
<1> QED
  BY <1>10, <1>11

\* or none.
LEMMA SourcedSays ==
    ASSUME NEW s, NEW c, NEW d, NEW q, NEW u, NEW r, Sourced(s, c, q, u),
           c.phase # "closed", c.sourceOpen \in BOOLEAN, d.sourceOpen \in BOOLEAN, Says(c, d, u, r), d.roles = c.roles,
           d.carried = c.carried
    PROVE  Sourced(s, d, q, r)
<1>1. CASE c.sourceOpen /\ ~d.sourceOpen
  <2>1. ~Silent(r) /\ Told(r, FALSE) /\ d.sourceOpen = FALSE
    BY <1>1 DEF Says, EndsUp
  <2> QED
    BY <1>1, <2>1 DEF Sourced
<1>2. CASE ~(c.sourceOpen /\ ~d.sourceOpen)
  <2>1. d.sourceOpen = c.sourceOpen /\ (Silent(r) <=> Silent(u)) /\ (Told(u, c.sourceOpen) => Told(r, c.sourceOpen))
    BY <1>2 DEF Says, QuietUp
  <2> QED
    BY <2>1 DEF Sourced
<1> QED
  BY <1>1, <1>2

LEMMA DownTaken ==
    ASSUME StreamsInv, down # <<>>, down' = Tail(down)
    PROVE  /\ down' \in Seq(DownFrames) /\ Len(down') <= MaxDown /\ down \in Seq(DownFrames)
           /\ Head(down) = down[1] /\ down[1] \in DownFrames
           /\ Expected(View(client), down[1])
           /\ Road(server, down', After(View(client), down[1]))
<1>1. down \in Seq(DownFrames) /\ Len(down) <= MaxDown /\ MaxDown \in Nat
  BY Facts, StreamsAssumption DEF StreamsInv
<1>2. /\ Tail(down) \in Seq(DownFrames) /\ Len(Tail(down)) = Len(down) - 1
      /\ Head(down) = down[1] /\ down[1] \in DownFrames /\ Len(down) \in Nat
  BY <1>1
<1>3. Expected(View(client), down[1]) /\ Road(server, Tail(down), After(View(client), down[1]))
  BY <1>1, RoadOn DEF StreamsInv, Way
<1> QED
  BY <1>1, <1>2, <1>3

\* What is left to show of a handler.
LEMMA ClientTakes ==
    ASSUME StreamsInv, down # <<>>, down' = Tail(down), UNCHANGED <<server, streams>>,
           client' \in ClientStates, up' \in Seq(UpFrames), Len(up') <= MaxUp,
           View(client') = After(View(client), down[1]), Sourced(server, client', down', up')
    PROVE  StreamsInv'
<1>1. /\ down' \in Seq(DownFrames) /\ Len(down') <= MaxDown
      /\ Road(server, down', After(View(client), down[1]))
  BY DownTaken
<1>2. Typed'
  BY <1>1, Facts DEF StreamsInv, Typed, StreamsTypeOK
<1>3. Way'
  BY <1>1 DEF Way
<1> QED
  BY <1>2, <1>3 DEF StreamsInv

LEMMA ClientReads ==
    ASSUME StreamsInv, NEW kind, Takes(kind)
    PROVE  /\ Connected /\ client.phase # "closed" /\ down # <<>> /\ down' = Tail(down)
           /\ down[1] \in DownFrames /\ down[1].kind = kind /\ down[1].keys = client.keys /\ Body = down[1].body
           /\ Reads(View(client), down[1]) /\ After(View(client), down[1]) = Taken(View(client), down[1])
           /\ Expected(View(client), down[1])
           /\ Typed /\ client \in ClientStates /\ client.sourceOpen \in BOOLEAN /\ up \in Seq(UpFrames) /\ Len(up) <= MaxUp
<1>1. /\ Connected /\ client.phase # "closed" /\ down # <<>> /\ down' = Tail(down)
      /\ Head(down).keys = client.keys /\ Head(down).kind = kind
  BY DEF Takes, Opens, Connected
<1>2. Head(down) = down[1] /\ down[1] \in DownFrames /\ Expected(View(client), down[1])
  BY <1>1, DownTaken
<1>3. Reads(View(client), down[1])
  BY <1>1, <1>2, ViewIs DEF Reads
<1>4. After(View(client), down[1]) = Taken(View(client), down[1])
  BY <1>3 DEF After
<1>5. Typed /\ client \in ClientStates /\ client.sourceOpen \in BOOLEAN /\ up \in Seq(UpFrames) /\ Len(up) <= MaxUp
  BY Facts, ClientTypes DEF StreamsInv
<1> QED
  BY <1>1, <1>2, <1>3, <1>4, <1>5 DEF Body

LEMMA ClientKeeps ==
    ASSUME StreamsInv, NEW kind, Takes(kind), UNCHANGED <<server, streams>>,
           client' \in ClientStates, client'.phase # "closed", up' \in Seq(UpFrames), Len(up') <= MaxUp,
           View(client') = Taken(View(client), down[1]), Says(client, client', up, up'),
           kind = "activate" => (client'.sourceOpen => "source" \in client'.roles)
    PROVE  StreamsInv'
<1>1. /\ client.phase # "closed" /\ down # <<>> /\ down' = Tail(down) /\ down[1].kind = kind /\ Body = down[1].body
      /\ After(View(client), down[1]) = Taken(View(client), down[1]) /\ client.sourceOpen \in BOOLEAN
  BY ClientReads
<1>2. down \in Seq(DownFrames) /\ client'.sourceOpen \in BOOLEAN
  BY <1>1, DownTaken, ClientTypes
<1>3. Sourced(server, client', down', up')
  <2>1. PICK d : d = client'
    OBVIOUS
  <2>2. PICK r : r = up'
    OBVIOUS
  <2>3. /\ down[1].kind = "activate" => d.roles = down[1].body /\ d.carried = client.carried \cap down[1].body
        /\ down[1].kind = "handshake" => d.roles = {} /\ d.carried = client.carried \cup client.roles
        /\ down[1].kind \notin {"activate", "handshake"} => d.roles = client.roles /\ d.carried = client.carried
    <3>1. View(client) \in Views
      BY Facts, ViewType DEF StreamsInv
    <3> QED
      BY <2>1, <3>1, TakenRoles
  <2>4. Sourced(server, d, Tail(down), r)
    BY <1>1, <1>2, <2>1, <2>2, <2>3, SourcedTakes DEF StreamsInv
  <2> QED
    BY <1>1, <2>1, <2>2, <2>4
<1> QED
  BY <1>1, <1>3, ClientTakes

\* A handler that says nothing, and leaves the source as it is.
LEMMA QuietKeeps ==
    ASSUME StreamsInv, NEW kind, Takes(kind), kind # "activate", UNCHANGED <<server, up, streams>>,
           client' \in ClientStates, client'.phase # "closed", client'.roles = client.roles,
           client'.sourceOpen = client.sourceOpen, View(client') = Taken(View(client), down[1])
    PROVE  StreamsInv'
<1>1. up \in Seq(UpFrames) /\ Len(up) <= MaxUp /\ client.sourceOpen \in BOOLEAN
  BY ClientReads
<1>2. Says(client, client', up, up')
  BY <1>1, QuietSelf DEF Says
<1> QED
  BY <1>1, <1>2, ClientKeeps

LEMMA UnreadableKeeps == ASSUME StreamsInv, Unreadable PROVE StreamsInv'
<1>1. /\ client.phase # "closed" /\ down # <<>> /\ Head(down).keys # client.keys /\ down' = Tail(down)
      /\ client' = [client EXCEPT !.phase = "closed"] /\ UNCHANGED <<server, up, streams>>
  BY DEF Unreadable, Opens, Connected
<1>2. /\ Head(down) = down[1] /\ down \in Seq(DownFrames) /\ client \in ClientStates
      /\ up \in Seq(UpFrames) /\ Len(up) <= MaxUp
  BY <1>1, DownTaken, Facts DEF StreamsInv
<1>3. client' \in ClientStates /\ client'.phase = "closed" /\ client'.keys = client.keys
  BY <1>1, <1>2 DEF ClientStates
<1>4. View(client') = After(View(client), down[1])
  <2>1. After(View(client), down[1]) = [View(client) EXCEPT !.phase = "closed"]
    BY <1>1, <1>2, ViewIs DEF After, Reads
  <2> QED
    BY <1>1, <1>2, <2>1 DEF View, ClientStates
<1>5. Sourced(server, client', down', up')
  BY <1>3 DEF Sourced
<1> QED
  BY <1>1, <1>2, <1>3, <1>4, <1>5, ClientTakes

LEMMA OnRehandshakeKeeps == ASSUME StreamsInv, OnRehandshake PROVE StreamsInv'
<1>1. /\ Takes("handshake") /\ ToServer(<<<<"handshake", None>>>>) /\ UNCHANGED <<server, streams>>
      /\ client' = [client EXCEPT !.phase = "hello", !.keys = client.keys + 1, !.roles = {}, !.activations = 0,
                                 !.carried = client.carried \cup client.roles]
  BY DEF OnRehandshake
<1>2. /\ client \in ClientStates /\ down[1] \in DownFrames /\ down[1].kind = "handshake" /\ down[1].keys = client.keys
      /\ client.sourceOpen \in BOOLEAN /\ Typed
  BY <1>1, ClientReads
<1>3. up' \in Seq(UpFrames) /\ Len(up') <= MaxUp /\ QuietUp(up, up')
  BY <1>1, <1>2, SaysUp
<1>4. PICK k \in Keys : k = client.keys + 1
  <2>1. client.keys \in Keys /\ client.keys < MaxKeys
    BY <1>2, ClientTypes, DownKinds
  <2> QED
    BY <2>1, StreamsAssumption DEF Keys
<1>5. PICK o \in SUBSET Roles :
         /\ o = client.carried \cup client.roles
         /\ client' = [client EXCEPT !.phase = "hello", !.keys = k, !.roles = {}, !.activations = 0, !.carried = o]
  <2>1. client.carried \cup client.roles \in SUBSET Roles
    BY <1>2, ClientTypes
  <2> QED
    BY <1>1, <1>4, <2>1
<1>6. /\ client' \in ClientStates /\ client'.phase = "hello" /\ client'.keys = k /\ client'.roles = {}
      /\ client'.carried = o
      /\ client'.stream = client.stream /\ client'.artwork = client.artwork /\ client'.transfer = client.transfer
      /\ client'.sourceOpen = client.sourceOpen
  BY <1>2, <1>5 DEF ClientStates, Keys
<1>7. View(client') = Taken(View(client), down[1])
  BY <1>2, <1>4, <1>5, <1>6 DEF View, Taken
<1>8. Says(client, client', up, up')
  BY <1>2, <1>3, <1>6 DEF Says
<1> QED
  BY <1>1, <1>3, <1>6, <1>7, <1>8, ClientKeeps

LEMMA ServerHelloKeeps == ASSUME StreamsInv, ServerHello PROVE StreamsInv'
<1>1. Takes("hello") /\ UNCHANGED <<server, streams>>
  BY DEF ServerHello
<1>2. /\ client \in ClientStates /\ down[1].kind = "hello" /\ client.phase # "closed"
      /\ client.sourceOpen \in BOOLEAN /\ Typed
  BY <1>1, ClientReads
<1>3. CASE client.phase = "hello"
  <2>1. ToServer(<<<<"hello", None>>>>) /\ client' = [client EXCEPT !.phase = "provisional"]
    BY <1>3 DEF ServerHello
  <2>2. up' \in Seq(UpFrames) /\ Len(up') <= MaxUp /\ QuietUp(up, up')
    BY <1>2, <2>1, SaysUp
  <2>3. /\ client' \in ClientStates /\ client'.phase = "provisional" /\ client'.keys = client.keys
        /\ client'.roles = client.roles /\ client'.carried = client.carried /\ client'.stream = client.stream
        /\ client'.artwork = client.artwork /\ client'.transfer = client.transfer
        /\ client'.sourceOpen = client.sourceOpen
    BY <1>2, <2>1 DEF ClientStates
  <2>4. View(client') = Taken(View(client), down[1])
    BY <1>2, <1>3, <2>3 DEF View, Taken
  <2>5. Says(client, client', up, up')
    BY <1>2, <2>2, <2>3 DEF Says
  <2> QED
    BY <1>1, <2>2, <2>3, <2>4, <2>5, ClientKeeps
<1>4. CASE client.phase # "hello"
  <2>1. UNCHANGED <<client, up>>
    BY <1>4 DEF ServerHello
  <2>2. View(client) = Taken(View(client), down[1])
    BY <1>2, <1>4 DEF View, Taken
  <2> QED
    BY <1>1, <1>2, <2>1, <2>2, QuietKeeps
<1> QED
  BY <1>3, <1>4

LEMMA AudioKeeps == ASSUME StreamsInv, Audio PROVE StreamsInv'
<1>1. Takes("audio") /\ UNCHANGED <<server, client, up, streams>>
  BY DEF Audio
<1>2. client \in ClientStates /\ down[1].kind = "audio" /\ client.phase # "closed"
  BY <1>1, ClientReads
<1>3. View(client) = Taken(View(client), down[1])
  BY <1>2 DEF Taken
<1> QED
  BY <1>1, <1>2, <1>3, QuietKeeps

LEMMA StreamStartKeeps == ASSUME StreamsInv, StreamStart PROVE StreamsInv'
<1>1. UNCHANGED <<server, up, streams>>
  BY DEF StreamStart
<1>2. ASSUME Takes("startPlayer"),
             client' = IF Has("player") THEN [client EXCEPT !.stream = Body] ELSE client
      PROVE  StreamsInv'
  <2>1. /\ client \in ClientStates /\ down[1] \in DownFrames /\ down[1].kind = "startPlayer" /\ client.phase # "closed"
        /\ Body = down[1].body
    BY <1>2, ClientReads
  <2>2. PICK b \in 0..MaxStreams : b = down[1].body
    BY <2>1, DownKinds
  <2>3. client' = IF Has("player") THEN [client EXCEPT !.stream = b] ELSE client
    BY <1>2, <2>1, <2>2
  <2>4. /\ client' \in ClientStates /\ client'.phase = client.phase /\ client'.keys = client.keys
        /\ client'.roles = client.roles /\ client'.carried = client.carried /\ client'.stream = (IF Has("player") THEN b ELSE client.stream)
        /\ client'.artwork = client.artwork /\ client'.transfer = client.transfer
        /\ client'.sourceOpen = client.sourceOpen
    BY <2>1, <2>3 DEF ClientStates
  <2>5. View(client') = Taken(View(client), down[1])
    BY <2>1, <2>2, <2>4 DEF View, Taken, Plays, Has
  <2> QED
    BY <1>1, <1>2, <2>1, <2>4, <2>5, QuietKeeps
<1>3. ASSUME Takes("startArtwork"),
             client' = IF Has("artwork")
                       THEN [client EXCEPT !.artwork = Body,
                                           !.transfer = IF client.artwork \notin {None, Body} THEN 0 ELSE @]
                       ELSE client
      PROVE  StreamsInv'
  <2>1. /\ client \in ClientStates /\ down[1] \in DownFrames /\ down[1].kind = "startArtwork" /\ client.phase # "closed"
        /\ Body = down[1].body
    BY <1>3, ClientReads
  <2>2. PICK b \in Configs \cup {None} : b = down[1].body
    BY <2>1, DownKinds
  <2>3. PICK x \in 0..MaxParts : x = IF client.artwork \notin {None, b} THEN 0 ELSE client.transfer
    <3>1. client.transfer \in 0..MaxParts /\ 0 \in 0..MaxParts
      BY <2>1, ClientTypes, StreamsAssumption
    <3> QED
      BY <3>1
  <2>4. client' = IF Has("artwork") THEN [client EXCEPT !.artwork = b, !.transfer = x] ELSE client
    BY <1>3, <2>1, <2>2, <2>3
  <2>5. /\ client' \in ClientStates /\ client'.phase = client.phase /\ client'.keys = client.keys
        /\ client'.roles = client.roles /\ client'.carried = client.carried /\ client'.stream = client.stream
        /\ client'.artwork = (IF Has("artwork") THEN b ELSE client.artwork)
        /\ client'.transfer = (IF Has("artwork") THEN x ELSE client.transfer)
        /\ client'.sourceOpen = client.sourceOpen
    BY <2>1, <2>4 DEF ClientStates
  <2>6. View(client') = Taken(View(client), down[1])
    BY <2>1, <2>2, <2>3, <2>5 DEF View, Taken, Has
  <2> QED
    BY <1>1, <1>3, <2>1, <2>5, <2>6, QuietKeeps
<1> QED
  BY <1>2, <1>3 DEF StreamStart

LEMMA StreamEndKeeps == ASSUME StreamsInv, StreamEnd PROVE StreamsInv'
<1>1. Takes("end") /\ UNCHANGED <<server, up, streams>>
  BY DEF StreamEnd
<1>2. client \in ClientStates /\ down[1].kind = "end" /\ client.phase # "closed" /\ Body = down[1].body
  BY <1>1, ClientReads
<1>3. CASE client.phase # "active"
  <2>1. client' = client
    BY <1>3 DEF StreamEnd
  <2>2. View(client) = Taken(View(client), down[1])
    BY <1>2, <1>3 DEF View, Taken
  <2> QED
    BY <1>1, <1>2, <2>1, <2>2, QuietKeeps
<1>4. CASE client.phase = "active" /\ Body = "player"
  <2>1. client' = [client EXCEPT !.stream = None]
    BY <1>4 DEF StreamEnd
  <2>2. None \in 0..MaxStreams
    BY StreamsAssumption DEF None
  <2>3. /\ client' \in ClientStates /\ client'.phase = client.phase /\ client'.keys = client.keys
        /\ client'.roles = client.roles /\ client'.carried = client.carried /\ client'.stream = None
        /\ client'.artwork = client.artwork /\ client'.transfer = client.transfer
        /\ client'.sourceOpen = client.sourceOpen
    BY <1>2, <2>1, <2>2 DEF ClientStates
  <2>4. View(client') = Taken(View(client), down[1])
    BY <1>2, <1>4, <2>3 DEF View, Taken
  <2> QED
    BY <1>1, <1>2, <2>3, <2>4, QuietKeeps
<1>5. CASE client.phase = "active" /\ Body # "player"
  <2>1. PICK x \in 0..MaxParts : x = IF client.artwork # None THEN 0 ELSE client.transfer
    <3>1. client.transfer \in 0..MaxParts /\ 0 \in 0..MaxParts
      BY <1>2, ClientTypes, StreamsAssumption
    <3> QED
      BY <3>1
  <2>2. client' = [client EXCEPT !.artwork = None, !.transfer = x]
    BY <1>5, <2>1 DEF StreamEnd
  <2>3. /\ client' \in ClientStates /\ client'.phase = client.phase /\ client'.keys = client.keys
        /\ client'.roles = client.roles /\ client'.carried = client.carried /\ client'.stream = client.stream
        /\ client'.artwork = None /\ client'.transfer = x
        /\ client'.sourceOpen = client.sourceOpen
    BY <1>2, <2>2 DEF ClientStates
  <2>4. View(client') = Taken(View(client), down[1])
    BY <1>2, <1>5, <2>1, <2>3 DEF View, Taken
  <2> QED
    BY <1>1, <1>2, <2>3, <2>4, QuietKeeps
<1> QED
  BY <1>3, <1>4, <1>5

\* What an image's frames leave of the transfer.
LEMMA TransferLeft ==
    ASSUME StreamsInv, NEW kind, Takes(kind), kind # "activate", UNCHANGED <<server, up, streams>>,
           NEW counts, counts = (Has("artwork") /\ client.artwork # None), NEW x \in 0..MaxParts,
           client' = IF counts THEN [client EXCEPT !.transfer = x] ELSE client,
           Taken(View(client), down[1]) = IF counts THEN [View(client) EXCEPT !.transfer = x] ELSE View(client)
    PROVE  StreamsInv'
<1>1. client \in ClientStates /\ client.phase # "closed" /\ counts \in BOOLEAN
  BY ClientReads
<1>2. /\ client' \in ClientStates /\ client'.phase = client.phase /\ client'.keys = client.keys
      /\ client'.roles = client.roles /\ client'.carried = client.carried /\ client'.stream = client.stream /\ client'.artwork = client.artwork
      /\ client'.transfer = (IF counts THEN x ELSE client.transfer) /\ client'.sourceOpen = client.sourceOpen
  BY <1>1 DEF ClientStates
<1>3. View(client') = Taken(View(client), down[1])
  BY <1>1, <1>2 DEF View
<1> QED
  BY <1>1, <1>2, <1>3, QuietKeeps

\* The client closes over a frame.
LEMMA ClosesOnce ==
    ASSUME StreamsInv, NEW kind, Takes(kind), UNCHANGED <<server, up, streams>>,
           client' = [client EXCEPT !.phase = "closed"],
           Taken(View(client), down[1]) = [View(client) EXCEPT !.phase = "closed"]
    PROVE  StreamsInv'
<1>1. /\ client \in ClientStates /\ down # <<>> /\ down' = Tail(down) /\ up \in Seq(UpFrames) /\ Len(up) <= MaxUp
      /\ After(View(client), down[1]) = Taken(View(client), down[1])
  BY ClientReads
<1>2. client' \in ClientStates /\ client'.phase = "closed"
  BY <1>1 DEF ClientStates
<1>3. View(client') = After(View(client), down[1])
  BY <1>1 DEF View, ClientStates
<1>4. Sourced(server, client', down', up')
  BY <1>2 DEF Sourced
<1> QED
  BY <1>1, <1>2, <1>3, <1>4, ClientTakes

LEMMA OnArtworkKeeps == ASSUME StreamsInv, OnArtwork PROVE StreamsInv'
<1>1. UNCHANGED <<server, up, streams>>
  BY DEF OnArtwork
<1>2. PICK counts \in BOOLEAN : counts = (Has("artwork") /\ client.artwork # None)
  OBVIOUS
<1>3. counts = Counts(View(client)) /\ View(client).transfer = client.transfer
  BY <1>2, ViewIs DEF Has, Counts
<1>4. 0 \in 0..MaxParts
  BY StreamsAssumption
<1>5. ASSUME Takes("announce"),
             client' = CASE ~counts -> client
                         [] counts /\ client.transfer > 0 -> [client EXCEPT !.phase = "closed"]
                         [] OTHER -> [client EXCEPT !.transfer = Body]
      PROVE  StreamsInv'
  <2>1. /\ down[1] \in DownFrames /\ down[1].kind = "announce" /\ Body = down[1].body /\ client \in ClientStates
        /\ Expected(View(client), down[1]) /\ Reads(View(client), down[1])
    BY <1>5, ClientReads
  <2>2. PICK x \in 0..MaxParts : x = down[1].body
    BY <2>1, DownKinds
  <2>3. client.transfer \in 0..MaxParts
    BY <2>1, ClientTypes
  <2>4. CASE counts /\ client.transfer > 0
    <3>1. client' = [client EXCEPT !.phase = "closed"]
      BY <1>5, <2>4
    <3>2. Taken(View(client), down[1]) = [View(client) EXCEPT !.phase = "closed"]
      BY <1>3, <2>1, <2>4 DEF Taken
    <3> QED
      BY <1>1, <1>5, <3>1, <3>2, ClosesOnce
  <2>5. CASE ~(counts /\ client.transfer > 0)
    <3>1. client' = IF counts THEN [client EXCEPT !.transfer = x] ELSE client
      BY <1>5, <2>1, <2>2, <2>5
    <3>2. Taken(View(client), down[1]) = IF counts THEN [View(client) EXCEPT !.transfer = x] ELSE View(client)
      BY <1>3, <2>1, <2>2, <2>5 DEF Taken
    <3> QED
      BY <1>1, <1>2, <1>5, <3>1, <3>2, TransferLeft
  <2> QED
    BY <2>4, <2>5
<1>6. ASSUME Takes("part"),
             client' = CASE ~counts -> client
                         [] counts /\ client.transfer = 0 -> [client EXCEPT !.phase = "closed"]
                         [] OTHER -> [client EXCEPT !.transfer = client.transfer - 1]
      PROVE  StreamsInv'
  <2>1. /\ down[1].kind = "part" /\ client \in ClientStates
        /\ Expected(View(client), down[1]) /\ Reads(View(client), down[1])
    BY <1>6, ClientReads
  <2>2. client.transfer \in 0..MaxParts /\ MaxParts \in Nat
    BY <2>1, ClientTypes, StreamsAssumption
  <2>3. counts => client.transfer > 0
    BY <1>3, <2>1 DEF Expected
  <2>4. counts => client.transfer # 0
    BY <2>2, <2>3
  <2>5. PICK x \in 0..MaxParts : counts => x = client.transfer - 1
    <3>1. counts => client.transfer - 1 \in 0..MaxParts
      BY <2>2, <2>3
    <3> QED
      BY <1>4, <3>1
  <2>6. client' = IF counts THEN [client EXCEPT !.transfer = x] ELSE client
    BY <1>6, <2>4, <2>5
  <2>7. Taken(View(client), down[1]) = IF counts THEN [View(client) EXCEPT !.transfer = x] ELSE View(client)
    BY <1>3, <2>1, <2>5 DEF Taken
  <2> QED
    BY <1>1, <1>2, <1>6, <2>6, <2>7, TransferLeft
<1>7. ASSUME Takes("cancel"), client' = IF counts THEN [client EXCEPT !.transfer = 0] ELSE client
      PROVE  StreamsInv'
  <2>1. down[1].kind = "cancel"
    BY <1>7, ClientReads
  <2>2. Taken(View(client), down[1]) = IF counts THEN [View(client) EXCEPT !.transfer = 0] ELSE View(client)
    BY <1>3, <2>1 DEF Taken
  <2> QED
    BY <1>1, <1>2, <1>4, <1>7, <2>2, TransferLeft
<1> QED
  BY <1>2, <1>5, <1>6, <1>7 DEF OnArtwork

\* The end of the input stream, or nothing.
LEMMA EndSaid ==
    ASSUME Typed, NEW e \in BOOLEAN, ToServer(If(e, <<<<"endSource", None>>>>))
    PROVE  /\ up' \in Seq(UpFrames) /\ Len(up') <= MaxUp
           /\ IF e THEN EndsUp(up, up') ELSE QuietUp(up, up')
<1>1. CASE e
  <2>1. ToServer(<<<<"endSource", None>>>>)
    BY <1>1 DEF If
  <2> QED
    BY <1>1, <2>1, SaysUp
<1>2. CASE ~e
  <2>1. ToServer(<<>>)
    BY <1>2 DEF If
  <2>2. up' = up
    BY <2>1, NothingSaid
  <2>3. up \in Seq(UpFrames) /\ Len(up) <= MaxUp
    BY Facts
  <2> QED
    BY <1>2, <2>2, <2>3, QuietSelf
<1> QED
  BY <1>1, <1>2

LEMMA OnSourceCommandKeeps == ASSUME StreamsInv, OnSourceCommand PROVE StreamsInv'
<1>1. Takes("source") /\ UNCHANGED <<server, streams>>
  BY DEF OnSourceCommand
<1>2. /\ client \in ClientStates /\ client.sourceOpen \in BOOLEAN /\ down[1] \in DownFrames /\ down[1].kind = "source"
      /\ client.phase # "closed" /\ Body = down[1].body /\ Typed
  BY <1>1, ClientReads
<1>3. Taken(View(client), down[1]) = View(client)
  BY <1>2 DEF Taken
<1>4. CASE UNCHANGED <<client, up>>
  BY <1>1, <1>2, <1>3, <1>4, QuietKeeps
<1>5. CASE ~UNCHANGED <<client, up>>
  <2>1. PICK b \in BOOLEAN : b = Body
    BY <1>2, DownKinds
  <2>2. /\ client' = [client EXCEPT !.sourceStarted = b, !.sourceOpen = client.sourceOpen /\ b]
        /\ ToServer(If(~b /\ client.sourceOpen, <<<<"endSource", None>>>>))
    BY <1>5, <2>1 DEF OnSourceCommand
  <2>3. PICK o \in BOOLEAN, e \in BOOLEAN : o = (client.sourceOpen /\ b) /\ e = (~b /\ client.sourceOpen)
    BY <1>2
  <2>4. client' = [client EXCEPT !.sourceStarted = b, !.sourceOpen = o] /\ ToServer(If(e, <<<<"endSource", None>>>>))
    BY <2>2, <2>3
  <2>5. /\ client' \in ClientStates /\ client'.phase = client.phase /\ client'.keys = client.keys
        /\ client'.roles = client.roles /\ client'.carried = client.carried /\ client'.stream = client.stream /\ client'.artwork = client.artwork
        /\ client'.transfer = client.transfer /\ client'.sourceOpen = o
    BY <1>2, <2>4 DEF ClientStates
  <2>6. /\ up' \in Seq(UpFrames) /\ Len(up') <= MaxUp
        /\ IF e THEN EndsUp(up, up') ELSE QuietUp(up, up')
    BY <1>2, <2>4, EndSaid
  <2>7. Says(client, client', up, up')
    BY <1>2, <2>3, <2>5, <2>6 DEF Says
  <2>8. View(client') = Taken(View(client), down[1])
    BY <1>3, <2>5 DEF View
  <2> QED
    BY <1>1, <1>2, <2>5, <2>6, <2>7, <2>8, ClientKeeps
<1> QED
  BY <1>4, <1>5

LEMMA StateIs ==
    ASSUME NEW c \in ClientStates
    PROVE  \E r \in Reports : State(c) = <<"state", r>>
<1>1. PICK external \in BOOLEAN, roles \in SUBSET Roles, config \in Configs :
         c.external = external /\ c.roles = roles /\ c.config = config
  BY ClientTypes
<1>2. (~external) \in BOOLEAN
  OBVIOUS
<1>3. [available |-> ~external, roles |-> roles, config |-> config] \in Reports
  BY <1>2 DEF Reports
<1>4. State(c) = <<"state", [available |-> ~external, roles |-> roles, config |-> config]>>
  BY <1>1 DEF State
<1> QED
  BY <1>3, <1>4

LEMMA OnActivateKeeps == ASSUME StreamsInv, OnActivate PROVE StreamsInv'
<1> DEFINE roles == Body
           added == roles \ (IF client.phase = "active" THEN client.roles ELSE {})
           lost(role) == role \notin roles
           next == [client EXCEPT
               !.phase = "active", !.roles = roles, !.activations = @ + 1, !.carried = @ \cap roles,
               !.stream = IF Has("player") /\ lost("player") THEN None ELSE @,
               !.artwork = IF lost("artwork") THEN None ELSE @,
               !.transfer = IF lost("artwork") /\ client.artwork # None THEN 0 ELSE @,
               !.sourceStarted = @ /\ ~lost("source"), !.sourceOpen = @ /\ ~lost("source")]
           owes == roles # {} /\ (client.activations = 0 \/ added # {} \/ ~client.sentState)
<1>1. /\ Takes("activate") /\ UNCHANGED <<server, streams>>
      /\ ToServer(If(client.sourceOpen /\ lost("source"), <<<<"endSource", None>>>>)
                  \o If(owes, <<State(next)>>))
      /\ client' = [next EXCEPT !.sentState = @ \/ owes]
  BY DEF OnActivate
<1>2. /\ client \in ClientStates /\ client.sourceOpen \in BOOLEAN /\ down[1] \in DownFrames /\ down[1].kind = "activate"
      /\ client.phase # "closed" /\ Body = down[1].body /\ Typed
  BY <1>1, ClientReads
<1>3. PICK b \in SUBSET Roles : b = down[1].body
  BY <1>2, DownKinds
<1>4. /\ client.activations \in Nat /\ client.stream \in 0..MaxStreams /\ client.artwork \in Configs \cup {None}
      /\ client.transfer \in 0..MaxParts /\ client.sourceStarted \in BOOLEAN /\ client.sentState \in BOOLEAN
      /\ 0 \in 0..MaxParts /\ None \in 0..MaxStreams /\ None \in Configs \cup {None}
  BY <1>2, ClientTypes, StreamsAssumption DEF None
<1>5. PICK a \in Nat, ca \in SUBSET Roles : a = client.activations + 1 /\ ca = client.carried \cap b
  <2>1. client.activations + 1 \in Nat /\ client.carried \cap b \in SUBSET Roles
    BY <1>4
  <2> QED
    BY <2>1
<1>6. PICK st \in 0..MaxStreams : st = IF Has("player") /\ "player" \notin b THEN None ELSE client.stream
  BY <1>4
<1>7. PICK ar \in Configs \cup {None} : ar = IF "artwork" \notin b THEN None ELSE client.artwork
  BY <1>4
<1>8. PICK x \in 0..MaxParts : x = IF "artwork" \notin b /\ client.artwork # None THEN 0 ELSE client.transfer
  BY <1>4
<1>9. PICK ss \in BOOLEAN, so \in BOOLEAN :
         ss = (client.sourceStarted /\ ~("source" \notin b)) /\ so = (client.sourceOpen /\ ~("source" \notin b))
  BY <1>2, <1>4
<1>10. PICK o \in BOOLEAN : o = owes
  OBVIOUS
<1> HIDE DEF owes
<1>11. PICK e \in BOOLEAN, se \in BOOLEAN :
         e = (client.sourceOpen /\ "source" \notin b) /\ se = (client.sentState \/ o)
  BY <1>2, <1>4
<1>12. next = [client EXCEPT !.phase = "active", !.roles = b, !.activations = a, !.carried = ca, !.stream = st, !.artwork = ar,
                             !.transfer = x, !.sourceStarted = ss, !.sourceOpen = so]
  BY <1>2, <1>3, <1>5, <1>6, <1>7, <1>8, <1>9
<1> HIDE DEF next
<1>13. /\ next \in ClientStates /\ next.sentState = client.sentState /\ next.roles = b
       /\ next.phase = "active" /\ next.keys = client.keys /\ next.carried = ca /\ next.stream = st
       /\ next.artwork = ar /\ next.transfer = x /\ next.sourceOpen = so
  BY <1>2, <1>12 DEF ClientStates
<1>14. client' = [next EXCEPT !.sentState = se]
  BY <1>1, <1>10, <1>11, <1>13
<1>15. /\ client' \in ClientStates /\ client'.phase = "active" /\ client'.keys = client.keys
       /\ client'.roles = b /\ client'.carried = ca /\ client'.stream = st /\ client'.artwork = ar /\ client'.transfer = x
       /\ client'.sourceOpen = so
  BY <1>13, <1>14 DEF ClientStates
<1>16. PICK r \in Reports : State(next) = <<"state", r>>
  BY <1>13, StateIs
<1>17. ToServer(If(e, <<<<"endSource", None>>>>) \o If(o, <<<<"state", r>>>>))
  BY <1>1, <1>2, <1>3, <1>10, <1>11, <1>16
<1>18. /\ up' \in Seq(UpFrames) /\ Len(up') <= MaxUp
       /\ IF e THEN EndsUp(up, up') ELSE QuietUp(up, up')
  BY <1>2, <1>17, SaysEnd
<1>19. Says(client, client', up, up')
  BY <1>2, <1>9, <1>11, <1>15, <1>18 DEF Says
<1>20. View(client') = Taken(View(client), down[1])
  BY <1>2, <1>3, <1>5, <1>6, <1>7, <1>8, <1>15 DEF View, Taken, Plays, Has
<1>21. client'.sourceOpen => "source" \in client'.roles
  BY <1>9, <1>15
<1> QED
  BY <1>1, <1>15, <1>18, <1>19, <1>20, <1>21, ClientKeeps

----------------------------------------------------------------------------
(* The player's application.                                               *)

\* What is left to show of a call: what the server is told.
LEMMA ApplicationKeeps ==
    ASSUME StreamsInv, client.phase # "closed", UNCHANGED <<server, down, streams>>,
           client' \in ClientStates, up' \in Seq(UpFrames), Len(up') <= MaxUp,
           View(client') = View(client), client'.phase # "closed", Sourced(server, client', down, up')
    PROVE  StreamsInv'
<1>1. Typed'
  BY Facts DEF StreamsInv, Typed, StreamsTypeOK
<1>2. Way'
  BY DEF StreamsInv, Way
<1> QED
  BY <1>1, <1>2 DEF StreamsInv

LEMMA SaysKeeps ==
    ASSUME StreamsInv, client.phase # "closed", UNCHANGED <<server, down, streams>>,
           client' \in ClientStates, up' \in Seq(UpFrames), Len(up') <= MaxUp,
           View(client') = View(client), client'.phase # "closed", client'.roles = client.roles,
           client'.carried = client.carried, Says(client, client', up, up')
    PROVE  StreamsInv'
<1>1. client.sourceOpen \in BOOLEAN /\ client'.sourceOpen \in BOOLEAN
  BY Facts, ClientTypes DEF StreamsInv
<1>2. Sourced(server, client', down, up')
  <2>1. PICK d : d = client'
    OBVIOUS
  <2>2. PICK r : r = up'
    OBVIOUS
  <2>3. Sourced(server, d, down, r)
    BY <1>1, <2>1, <2>2, SourcedSays DEF StreamsInv
  <2> QED
    BY <2>1, <2>2, <2>3
<1> QED
  BY <1>2, ApplicationKeeps

LEMMA StartSourceStreamKeeps == ASSUME StreamsInv, StartSourceStream PROVE StreamsInv'
<1>1. /\ server.phase # "closed" /\ client.phase = "active" /\ "source" \in client.roles
      /\ ToServer(<<<<"startSource", None>>>>) /\ client' = [client EXCEPT !.sourceOpen = TRUE]
      /\ UNCHANGED <<server, down, streams>>
  BY DEF StartSourceStream, Connected, Has
<1>2. client \in ClientStates /\ Typed
  BY Facts DEF StreamsInv
<1>3. up' \in Seq(UpFrames) /\ Len(up') <= MaxUp /\ ~Silent(up') /\ Told(up', TRUE)
  BY <1>1, <1>2, SaysUp
<1>4. /\ client' \in ClientStates /\ client'.phase = client.phase /\ client'.keys = client.keys
      /\ client'.roles = client.roles /\ client'.carried = client.carried /\ client'.stream = client.stream /\ client'.artwork = client.artwork
      /\ client'.transfer = client.transfer /\ client'.sourceOpen = TRUE
  BY <1>1, <1>2 DEF ClientStates
<1>5. View(client') = View(client)
  BY <1>4 DEF View
<1>6. Sourced(server, client', down, up')
  <2>1. /\ Covered(down, HasSource(server)) /\ (HasSource(server) \/ Lapses(down))
        /\ "source" \in client.roles
    BY <1>1 DEF StreamsInv, Sourced
  <2> QED
    BY <1>3, <1>4, <2>1 DEF Sourced
<1> QED
  BY <1>1, <1>3, <1>4, <1>5, <1>6, ApplicationKeeps

LEMMA EndSourceStreamKeeps == ASSUME StreamsInv, EndSourceStream PROVE StreamsInv'
<1>1. /\ client.sourceOpen /\ client.phase # "closed" /\ ToServer(<<<<"endSource", None>>>>)
      /\ client' = [client EXCEPT !.sourceOpen = FALSE] /\ UNCHANGED <<server, down, streams>>
  BY DEF EndSourceStream, Connected
<1>2. client \in ClientStates /\ Typed
  BY Facts DEF StreamsInv
<1>3. up' \in Seq(UpFrames) /\ Len(up') <= MaxUp /\ EndsUp(up, up')
  BY <1>1, <1>2, SaysUp
<1>4. /\ client' \in ClientStates /\ client'.phase = client.phase /\ client'.keys = client.keys
      /\ client'.roles = client.roles /\ client'.carried = client.carried /\ client'.stream = client.stream /\ client'.artwork = client.artwork
      /\ client'.transfer = client.transfer /\ client'.sourceOpen = FALSE
  BY <1>1, <1>2 DEF ClientStates
<1>5. View(client') = View(client)
  BY <1>4 DEF View
<1>6. Says(client, client', up, up')
  BY <1>1, <1>3, <1>4 DEF Says
<1> QED
  BY <1>1, <1>3, <1>4, <1>5, <1>6, SaysKeeps

LEMMA SetExternalSourceKeeps ==
    ASSUME StreamsInv, NEW external \in BOOLEAN, SetExternalSource(external)
    PROVE  StreamsInv'
<1> DEFINE next == [client EXCEPT !.external = external,
                                  !.sourceOpen = client.sourceOpen /\ ~external,
                                  !.sourceStarted = client.sourceStarted /\ ~external]
<1>1. /\ client.phase # "closed" /\ client' = next /\ UNCHANGED <<server, down, streams>>
      /\ ToServer(If(external /\ client.sourceOpen, <<<<"endSource", None>>>>)
                  \o If(client.phase = "active" /\ client.sentState /\ client.roles # {}, <<State(next)>>))
  BY DEF SetExternalSource, Connected
<1>2. client \in ClientStates /\ Typed /\ client.sourceOpen \in BOOLEAN /\ client.sourceStarted \in BOOLEAN
      /\ client.sentState \in BOOLEAN
  BY Facts, ClientTypes DEF StreamsInv
<1>3. PICK so \in BOOLEAN, ss \in BOOLEAN :
         so = (client.sourceOpen /\ ~external) /\ ss = (client.sourceStarted /\ ~external)
  BY <1>2
<1>4. PICK e \in BOOLEAN, o \in BOOLEAN :
         e = (external /\ client.sourceOpen) /\ o = (client.phase = "active" /\ client.sentState /\ client.roles # {})
  BY <1>2
<1>5. next = [client EXCEPT !.external = external, !.sourceOpen = so, !.sourceStarted = ss]
  BY <1>3
<1> HIDE DEF next
<1>6. /\ next \in ClientStates /\ next.phase = client.phase /\ next.keys = client.keys
      /\ next.roles = client.roles /\ next.carried = client.carried /\ next.stream = client.stream /\ next.artwork = client.artwork
      /\ next.transfer = client.transfer /\ next.sourceOpen = so
  BY <1>2, <1>5 DEF ClientStates
<1>7. PICK r \in Reports : State(next) = <<"state", r>>
  BY <1>6, StateIs
<1>8. ToServer(If(e, <<<<"endSource", None>>>>) \o If(o, <<<<"state", r>>>>))
  BY <1>1, <1>4, <1>7
<1>9. up' \in Seq(UpFrames) /\ Len(up') <= MaxUp /\ (IF e THEN EndsUp(up, up') ELSE QuietUp(up, up'))
  BY <1>2, <1>8, SaysEnd
<1>10. Says(client, client', up, up')
  BY <1>1, <1>2, <1>3, <1>4, <1>6, <1>9 DEF Says
<1>11. View(client') = View(client)
  BY <1>1, <1>6 DEF View
<1> QED
  BY <1>1, <1>6, <1>9, <1>10, <1>11, SaysKeeps

LEMMA SetArtworkStateKeeps ==
    ASSUME StreamsInv, NEW config \in Configs, SetArtworkState(config)
    PROVE  StreamsInv'
<1>1. /\ client.phase # "closed" /\ client' = [client EXCEPT !.config = config] /\ UNCHANGED <<server, down, streams>>
      /\ ToServer(If(Has("artwork") /\ client.sentState, <<State(client')>>))
  BY DEF SetArtworkState, Connected
<1>2. client \in ClientStates /\ Typed /\ client.sourceOpen \in BOOLEAN /\ client.sentState \in BOOLEAN
      /\ up \in Seq(UpFrames) /\ Len(up) <= MaxUp /\ client.keys \in Keys
  BY Facts, ClientTypes DEF StreamsInv
<1>3. /\ client' \in ClientStates /\ client'.phase = client.phase /\ client'.keys = client.keys
      /\ client'.roles = client.roles /\ client'.carried = client.carried /\ client'.stream = client.stream /\ client'.artwork = client.artwork
      /\ client'.transfer = client.transfer /\ client'.sourceOpen = client.sourceOpen
  BY <1>1, <1>2 DEF ClientStates
<1>4. PICK o \in BOOLEAN : o = (Has("artwork") /\ client.sentState)
  OBVIOUS
<1>5. PICK r \in Reports : State(client') = <<"state", r>>
  BY <1>3, StateIs
<1>6. ToServer(If(o, <<<<"state", r>>>>))
  BY <1>1, <1>4, <1>5
<1>7. up' \in Seq(UpFrames) /\ Len(up') <= MaxUp /\ QuietUp(up, up')
  <2>1. CASE o
    <3>1. PICK m \in UpFrames : m = Frame(client.keys, "state", r) /\ m.kind = "state"
      BY <1>2, UpSent, FrameIs
    <3>2. ToServer(<<<<"state", r>>>>)
      BY <1>6, <2>1 DEF If
    <3>3. up' = Append(up, m) /\ up' \in Seq(UpFrames) /\ Len(up') <= MaxUp
      BY <1>2, <3>1, <3>2, SendsUp
    <3>4. QuietUp(up, Append(up, m))
      BY <1>2, <3>1, SaysMore
    <3> QED
      BY <3>3, <3>4
  <2>2. CASE ~o
    <3>1. ToServer(<<>>)
      BY <1>6, <2>2 DEF If
    <3>2. up' = up
      BY <1>2, <3>1, NothingSaid
    <3> QED
      BY <1>2, <3>2, QuietSelf
  <2> QED
    BY <2>1, <2>2
<1>8. Says(client, client', up, up')
  BY <1>2, <1>3, <1>7 DEF Says
<1>9. View(client') = View(client)
  BY <1>3 DEF View
<1> QED
  BY <1>1, <1>3, <1>7, <1>8, <1>9, SaysKeeps

----------------------------------------------------------------------------
(* The behaviours.                                                         *)

LEMMA StreamsStarts == StreamsInit => StreamsInv
<1> SUFFICES ASSUME StreamsInit
             PROVE  StreamsInv
  OBVIOUS
<1>1. /\ server = FreshServer(0) /\ client = FreshClient
      /\ up = <<>> /\ streams = 0
  BY DEF StreamsInit
<1>2. /\ 0 \in Keys /\ 0 \in 0..MaxStreams /\ 0 \in 0..MaxParts /\ MaxDown \in Nat /\ 1 <= MaxDown /\ MaxUp \in Nat
      /\ 0 \in 0..MaxActivations
  BY StreamsAssumption DEF Keys
<1>3. server \in ServerStates
  BY <1>1, <1>2, FreshType
<1>4. client \in ClientStates
  BY <1>1, <1>2 DEF FreshClient, ClientStates, Keys, None, Configs
<1>5. PICK m \in DownFrames : m = [kind |-> "hello", keys |-> 0] /\ m.kind = "hello" /\ m.keys = 0 /\ down = <<m>>
  <2>1. [kind |-> "hello", keys |-> 0] \in DownFrames
    BY <1>2 DEF DownFrames, Signals
  <2> QED
    BY <2>1 DEF StreamsInit
<1>6. down \in Seq(DownFrames) /\ Len(down) = 1 /\ down[1] = m /\ down = Append(<<>>, m) /\ up \in Seq(UpFrames) /\ Len(up) = 0
  BY <1>1, <1>5
<1>7. Typed
  <2>1. server.heard \subseteq server.roles
    BY <1>1 DEF FreshServer
  <2>2. Len(down) <= MaxDown /\ Len(up) <= MaxUp
    BY <1>2, <1>6
  <2> QED
    BY <1>1, <1>2, <1>3, <1>4, <1>6, <2>1, <2>2 DEF Typed, StreamsTypeOK
<1>8. Way
  <2>1. PICK v \in Views : v = View(client)
    BY <1>4, ViewType
  <2>2. v.phase = "hello" /\ v.keys = 0 /\ v.roles = {} /\ v.artwork = None /\ v.transfer = 0
    BY <1>1, <2>1, ViewIs DEF FreshClient
  <2>3. Reads(v, m) /\ Expected(v, m)
    BY <1>5, <2>2 DEF Reads, Expected
  <2>4. Reaches(v, down, After(v, m))
    <3>1. Reaches(v, <<>>, v) /\ <<>> \in Seq(DownFrames)
      BY ReachesNone
    <3> QED
      BY <1>6, <2>3, <3>1, ReachesMore
  <2>5. After(v, m) = [v EXCEPT !.phase = "provisional"]
    BY <1>5, <2>2, <2>3 DEF After, Taken
  <2>6. PICK w : w = After(v, m)
    OBVIOUS
  <2>7. w.phase = "provisional" /\ w.keys = 0 /\ w.roles = {} /\ w.artwork = None /\ w.transfer = 0
    BY <2>1, <2>2, <2>5, <2>6 DEF Views
  <2>8. /\ server.phase = "hello" /\ server.keys = 0 /\ server.stream = None /\ server.artwork = None
        /\ server.transfer = 0 /\ server.roles = {} /\ server.sourceOpen = FALSE
    BY <1>1 DEF FreshServer
  <2>9. Matches(server, w)
    BY <2>7, <2>8 DEF Matches
  <2>10. ServerOK(server)
    BY <1>3, <2>8 DEF ServerOK
  <2> QED
    BY <2>1, <2>4, <2>6, <2>9, <2>10 DEF Way, Road
<1>9. Sourced(server, client, down, up)
  <2>1. /\ server.phase = "hello" /\ server.sourceOpen = FALSE
        /\ client.sourceOpen = FALSE /\ client.roles = {}
        /\ ~HasSource(server)
    BY <1>1 DEF FreshServer, FreshClient, HasSource
  <2>2. Covered(down, HasSource(server))
    BY <1>5, <1>6 DEF Covered, Gives
  <2>3. Told(up, FALSE)
    BY <1>6 DEF Told
  <2> QED
    BY <2>1, <2>2, <2>3 DEF Sourced
<1> QED
  BY <1>7, <1>8, <1>9 DEF StreamsInv

LEMMA EngineKeeps == ASSUME StreamsInv, Engine PROVE StreamsInv'
<1>1. ASSUME NEW roles \in RoleSets, Activate(roles) PROVE StreamsInv'
  <2>1. roles \in SUBSET Roles
    BY StreamsAssumption DEF Roles
  <2> QED
    BY <1>1, <2>1, ActivateKeeps
<1> QED
  BY <1>1, StartStreamKeeps, SendAudioKeeps, EndStreamKeeps, StartArtworkKeeps, AnnounceKeeps, SendPartKeeps,
     CancelKeeps, EndArtworkKeeps, SourceCommandKeeps, RehandshakeKeeps DEF Engine

LEMMA HandlesKeeps == ASSUME StreamsInv, Handles PROVE StreamsInv'
BY EstablishedKeeps, DiscardedKeeps, ClientHelloKeeps, ClientStateKeeps, SourceStartsKeeps, SourceEndsKeeps,
   UnreadableKeeps, OnRehandshakeKeeps, ServerHelloKeeps, OnActivateKeeps, StreamStartKeeps, StreamEndKeeps,
   AudioKeeps, OnArtworkKeeps, OnSourceCommandKeeps DEF Handles

LEMMA StreamsStep == StreamsInv /\ [StreamsNext]_streamsVars => StreamsInv'
<1> SUFFICES ASSUME StreamsInv, [StreamsNext]_streamsVars
             PROVE  StreamsInv'
  OBVIOUS
<1>1. CASE Engine
  BY <1>1, EngineKeeps
<1>2. CASE Handles
  BY <1>2, HandlesKeeps
<1>3. CASE Application
  BY <1>3, StartSourceStreamKeeps, EndSourceStreamKeeps, SetExternalSourceKeeps, SetArtworkStateKeeps DEF Application
<1>4. CASE UNCHANGED streamsVars
  <2>1. UNCHANGED <<server, client, down, up, streams>>
    BY <1>4 DEF streamsVars
  <2>2. Typed' /\ Way'
    BY <2>1 DEF StreamsInv, Typed, StreamsTypeOK, Way
  <2>3. Sourced(server', client', down', up')
    BY <2>1 DEF StreamsInv
  <2> QED
    BY <2>2, <2>3 DEF StreamsInv
<1> QED
  BY <1>1, <1>2, <1>3, <1>4 DEF StreamsNext

LEMMA StreamsAlways == StreamsSpec => []StreamsInv
BY StreamsStarts, StreamsStep, PTL DEF StreamsSpec

\* Each side's state of the connection is of its type, whatever the bounds: the
\* counts of a transfer and of the re-handshakes never run past their ends, and
\* the server has heard of no role that it did not activate.
THEOREM StreamsTypeCorrect == StreamsSpec => []StreamsTypeOK
<1>1. StreamsInv => StreamsTypeOK
  BY DEF StreamsInv, Typed
<1> QED
  BY <1>1, StreamsAlways, PTL

\* A step that closes the client is of a frame sealed before a re-handshake, or
\* of an image announced over a transfer the client has kept from before one.
LEMMA ClosesOver ==
    ASSUME StreamsInv, [StreamsNext]_streamsVars, client'.phase = "closed", client.phase # "closed"
    PROVE  ~Opens \/ (Head(down).kind = "announce" /\ "artwork" \in client.carried)
<1>1. client \in ClientStates
  BY Facts DEF StreamsInv
<1>2. CASE UNCHANGED client
  BY <1>2
<1>3. CASE Engine
  BY <1>2, <1>3 DEF Engine, StartStream, SendAudio, EndStream, StartArtwork, Announce, SendPart, CancelArtwork, EndArtwork,
     SourceCommand, Activate, Rehandshake
<1>4. CASE Handles
  <2>1. ASSUME Established \/ Discarded \/ ClientHello \/ ClientState \/ SourceStarts \/ SourceEnds \/ Audio
        PROVE  UNCHANGED client
    BY <2>1 DEF Established, Discarded, ClientHello, ClientState, SourceStarts, SourceEnds, Audio
  <2>2. Unreadable => ~Opens
    BY DEF Unreadable
  <2>3. ~OnRehandshake
    BY <1>1 DEF OnRehandshake, ClientStates
  <2>4. ~ServerHello
    BY <1>1 DEF ServerHello, ClientStates
  <2>5. ~OnActivate
    BY <1>1 DEF OnActivate, ClientStates
  <2>6. ~StreamStart
    BY <1>1 DEF StreamStart, ClientStates
  <2>7. ~StreamEnd
    BY <1>1 DEF StreamEnd, ClientStates
  <2>8. ~OnSourceCommand
    BY <1>1 DEF OnSourceCommand, ClientStates
  <2>9. OnArtwork => Head(down).kind = "announce" /\ "artwork" \in client.carried
    <3>1. PICK counts \in BOOLEAN : counts = (Has("artwork") /\ client.artwork # None)
      OBVIOUS
    <3>2. counts = Counts(View(client)) /\ View(client).transfer = client.transfer
      BY <3>1, ViewIs DEF Has, Counts
    <3>3. Takes("announce") /\ counts /\ client.transfer > 0 => "artwork" \in client.carried
      <4>1. Takes("announce") /\ counts => client.transfer = 0 \/ "artwork" \in client.carried
        BY <3>2, ClientReads, ViewIs DEF Expected
      <4>2. ~(0 > 0)
        OBVIOUS
      <4> QED
        BY <4>1, <4>2
    <3>4. Takes("part") /\ counts => client.transfer # 0
      <4>1. Takes("part") /\ counts => client.transfer > 0
        BY <3>2, ClientReads DEF Expected
      <4> QED
        BY <4>1
    <3>5. /\ Takes("announce")
          /\ client' = CASE ~counts -> client
                         [] counts /\ client.transfer > 0 -> [client EXCEPT !.phase = "closed"]
                         [] OTHER -> [client EXCEPT !.transfer = Body]
          => Head(down).kind = "announce" /\ "artwork" \in client.carried
      <4>1. Takes("announce") => Head(down).kind = "announce"
        BY DEF Takes
      <4>2. [client EXCEPT !.transfer = Body].phase = client.phase
        BY <1>1 DEF ClientStates
      <4> QED
        BY <3>3, <4>1, <4>2
    <3>6. ~(Takes("part") /\ client' = CASE ~counts -> client
                                         [] counts /\ client.transfer = 0 -> [client EXCEPT !.phase = "closed"]
                                         [] OTHER -> [client EXCEPT !.transfer = client.transfer - 1])
      BY <1>1, <3>4 DEF ClientStates
    <3>7. ~(client' = IF counts THEN [client EXCEPT !.transfer = 0] ELSE client)
      BY <1>1 DEF ClientStates
    <3> QED
      BY <3>1, <3>5, <3>6, <3>7 DEF OnArtwork
  <2> QED
    BY <1>2, <1>4, <2>1, <2>2, <2>3, <2>4, <2>5, <2>6, <2>7, <2>8, <2>9 DEF Handles
<1>5. CASE Application
  BY <1>1, <1>5 DEF Application, StartSourceStream, EndSourceStream, SetExternalSource, SetArtworkState, ClientStates
<1> QED
  BY <1>2, <1>3, <1>4, <1>5 DEF StreamsNext, streamsVars

\* However the engine calls and whatever is in flight, the client closes the
\* connection over no frame a server of this code sends it but one sealed before
\* a re-handshake and sent across it, and an image announced to a client that
\* has had the artwork role since before a re-handshake: the other checks
\* PlayerSession makes of an image's frames never fail.
THEOREM NeverMalformed == StreamsSpec => NothingMalformed
<1>1. StreamsInv /\ [StreamsNext]_streamsVars =>
          (client'.phase = "closed" =>
               \/ client.phase = "closed" \/ ~Opens
               \/ Head(down).kind = "announce" /\ "artwork" \in client.carried)
  BY ClosesOver
<1> QED
  BY <1>1, StreamsAlways, PTL DEF StreamsSpec, NothingMalformed

\* Audio that an open connection's client can read comes to it with the player's
\* role and the stream it is of open, through activations, restarts and re-handshakes.
THEOREM AudioOfItsStream == StreamsSpec => []AudioIsOfItsStream
<1>1. StreamsInv => AudioIsOfItsStream
  <2> SUFFICES ASSUME StreamsInv, client.phase # "closed", down # <<>>, Opens, Head(down).kind = "audio"
               PROVE  Has("player") /\ client.stream = Body
    BY DEF AudioIsOfItsStream
  <2>1. down \in Seq(DownFrames) /\ Road(server, down, View(client))
    BY Facts DEF StreamsInv, Way
  <2>2. Head(down) = down[1] /\ Expected(View(client), down[1])
    BY <2>1, RoadOn
  <2>3. Reads(View(client), down[1])
    BY <2>2, ViewIs DEF Reads, Opens
  <2>4. Plays(View(client)) /\ View(client).stream = down[1].body
    BY <2>2, <2>3 DEF Expected
  <2> QED
    BY <2>2, <2>4, ViewIs DEF Plays, Has, Body
<1> QED
  BY <1>1, StreamsAlways, PTL

\* Once nothing is in flight either way, the two sessions agree on the roles, on
\* the streams the server has open and on how far an image has come, and no input
\* stream is open at the server alone; on everything, where the client keeps no
\* artwork or source state of before a re-handshake.
THEOREM AgreeOnceQuiet == StreamsSpec => []AgreeWhenQuiet
<1>1. StreamsInv => AgreeWhenQuiet
  <2> SUFFICES ASSUME StreamsInv, Quiet
               PROVE  /\ client.roles = server.roles
                      /\ server.stream # None => client.stream = server.stream
                      /\ server.artwork # None => client.artwork = server.artwork
                      /\ server.transfer > 0 => client.transfer = server.transfer
                      /\ server.sourceOpen => client.sourceOpen
                      /\ "artwork" \notin client.carried =>
                             client.artwork = server.artwork /\ client.transfer = server.transfer
                      /\ "source" \notin client.carried => client.sourceOpen = server.sourceOpen
    BY DEF AgreeWhenQuiet
  <2>1. down = <<>> /\ up = <<>> /\ server.phase = "active" /\ client.phase = "active"
    BY DEF Quiet
  <2>2. Len(<<>>) = 0
    OBVIOUS
  <2>3. Matches(server, View(client))
    <3>1. PICK w : Reaches(View(client), <<>>, w) /\ Matches(server, w)
      BY <2>1 DEF StreamsInv, Way, Road
    <3>2. w = View(client)
      BY <2>2, <3>1 DEF Reaches
    <3> QED
      BY <3>1, <3>2
  <2>4. /\ client.roles = server.roles
        /\ server.stream # None => client.stream = server.stream
        /\ server.artwork # None => client.artwork = server.artwork
        /\ server.transfer > 0 => client.transfer = server.transfer
        /\ "artwork" \notin client.carried =>
               client.artwork = server.artwork /\ client.transfer = server.transfer
    BY <2>1, <2>3, ViewIs DEF Matches, Images
  <2>5. Silent(up) /\ ~Lapses(down)
    BY <2>1, <2>2 DEF Silent, Lapses
  <2>6. client.sourceOpen \in BOOLEAN /\ server.sourceOpen \in BOOLEAN
    BY Facts, ClientTypes, ServerTypes DEF StreamsInv
  <2>7. /\ "source" \in client.roles => HasSource(server)
        /\ client.sourceOpen => "source" \in client.roles \cup client.carried
        /\ IF client.sourceOpen THEN HasSource(server) => server.sourceOpen \/ "source" \in client.carried
                               ELSE ~server.sourceOpen
    BY <2>1, <2>5 DEF StreamsInv, Sourced
  <2>8. server.sourceOpen => client.sourceOpen
    BY <2>7
  <2>9. "source" \notin client.carried => client.sourceOpen = server.sourceOpen
    BY <2>6, <2>7
  <2> QED
    BY <2>4, <2>8, <2>9
<1> QED
  BY <1>1, StreamsAlways, PTL

=============================================================================
