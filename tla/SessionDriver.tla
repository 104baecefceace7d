--------------------------- MODULE SessionDriver ---------------------------
(***************************************************************************)
(* One session over one transport connection (class SessionDriver): a      *)
(* reader thread hands the session what arrives, a writer thread sends     *)
(* what the session answers and ticks it, and the owner calls it from      *)
(* threads of its own.                                                     *)
(*                                                                         *)
(* One action is what a thread does between taking the session's lock and  *)
(* releasing it, or between releasing it and taking it again.  The session *)
(* is what its calls return: frames, whether to close, and whether its     *)
(* next tick has come closer.  Frames are numbered in the order they are   *)
(* accepted, modulo Cycle, and each counts as one byte.                    *)
(***************************************************************************)
EXTENDS Integers, Sequences

CONSTANTS
    MaxQueued,      \* max_queued_bytes_
    MaxFrames,      \* bound: frames one call of the session returns
    Cycle           \* bound: the numbers of frames in flight at once

ASSUME DriverAssumption ==
    MaxQueued \in Nat /\ MaxFrames \in Nat /\ Cycle \in Nat \ {0}

VARIABLES
    queue, queuedBytes, closing, ended, changed,    \* as in the class
    due,            \* the writer's due: "later", "soon" or "passed"
    nextTick,       \* what next_tick_us() would say: "later" or "soon"
    writer, reader, \* where each thread is
    sending,        \* the frame the writer has taken out, if any
    conn,           \* the transport connection: "open" or "closed"
    accepted,       \* history: the last frame accepted
    delivered,      \* history: the last frame sent
    flushed,        \* history: the writer ended because the queue was empty
    reports         \* history: calls of ended()

state   == <<queue, queuedBytes, closing, ended, changed>>
history == <<accepted, delivered, flushed, reports>>
vars    == <<state, due, nextTick, writer, reader, sending, conn, history>>

\* The writer holds the lock in "loop"; every other action is a whole section.
LockFree == writer # "loop"

Outputs == [frames : 0..MaxFrames, close : BOOLEAN]

Number(n)   == n % Cycle
Frames(k)   == [i \in 1..k |-> Number(accepted + i)]

----------------------------------------------------------------------------
(* deliver() and end_locked(), called with the lock held.                  *)

Wake == IF writer = "waiting" THEN "relock" ELSE writer

EndLocked ==
    /\ ended' = TRUE /\ queue' = <<>> /\ queuedBytes' = 0
    /\ UNCHANGED <<closing, changed>>

\* Mutation: the queue is not limited.
AcceptsAll(out) ==
    /\ accepted' = Number(accepted + out.frames)
    /\ closing' = out.close
    /\ queue' = queue \o Frames(out.frames)
    /\ queuedBytes' = queuedBytes + out.frames
    /\ changed' = TRUE
    /\ UNCHANGED <<ended, conn>>

\* Mutation: new frames go before those that wait.
AcceptsFirst(out) ==
    /\ queuedBytes + out.frames <= MaxQueued
    /\ accepted' = Number(accepted + out.frames)
    /\ closing' = out.close
    /\ queue' = Frames(out.frames) \o queue
    /\ queuedBytes' = queuedBytes + out.frames
    /\ changed' = TRUE
    /\ UNCHANGED <<ended, conn>>

Accepts(out) ==
    /\ accepted' = Number(accepted + out.frames)
    /\ closing' = out.close
    /\ IF queuedBytes + out.frames > MaxQueued
         THEN /\ ended' = TRUE /\ queue' = <<>> /\ queuedBytes' = 0
              /\ conn' = "closed"
              /\ UNCHANGED changed
         ELSE /\ queue' = queue \o Frames(out.frames)
              /\ queuedBytes' = queuedBytes + out.frames
              /\ changed' = TRUE
              /\ UNCHANGED <<ended, conn>>

\* Nothing more goes out once the session has asked to close or it has ended.
Deliver(out) ==
    IF ended \/ closing THEN UNCHANGED <<state, accepted, conn>> ELSE Accepts(out)

\* A call on the session may bring its next tick forward.
BringsForward == nextTick' \in {nextTick, "soon"}

----------------------------------------------------------------------------
Init ==
    /\ queue = <<>> /\ queuedBytes = 0
    /\ closing = FALSE /\ ended = FALSE /\ changed = FALSE
    /\ due = "later" /\ nextTick \in {"later", "soon"}
    /\ writer = "unstarted" /\ reader = "unstarted" /\ sending = <<>>
    /\ conn = "open"
    /\ accepted = 0 /\ delivered = 0 /\ flushed = FALSE /\ reports = 0

(* The owner's threads.                                                    *)

\* start(): what the session opens with, then both threads, the writer taking
\* its first due from the session.
Start ==
    /\ writer = "unstarted"
    /\ \E out \in Outputs : Deliver(out)
    /\ writer' = "relock" /\ reader' = "receive" /\ due' = nextTick
    /\ UNCHANGED <<nextTick, sending, delivered, flushed, reports>>

Call ==
    /\ LockFree /\ writer # "unstarted"
    /\ \E out \in Outputs : Deliver(out)
    /\ BringsForward
    /\ writer' = IF ended \/ closing THEN writer ELSE Wake
    /\ UNCHANGED <<due, reader, sending, delivered, flushed, reports>>

\* close(): the connection is closed after the lock is released, but nothing
\* that happens between is visible: the driver has ended.
Close ==
    /\ LockFree /\ writer # "unstarted"
    /\ EndLocked /\ writer' = Wake
    /\ conn' = "closed"
    /\ UNCHANGED <<due, nextTick, reader, sending, history>>

----------------------------------------------------------------------------
(* The reader thread.                                                      *)

Receive ==
    /\ reader = "receive"
    /\ reader' = IF conn = "open" THEN "frame" ELSE "eof"
    /\ UNCHANGED <<state, due, nextTick, writer, sending, conn, history>>

Handle ==
    /\ reader = "frame" /\ LockFree
    /\ reader' = "receive"
    /\ IF ended \/ closing THEN UNCHANGED <<state, accepted, conn, nextTick, writer>>
       ELSE /\ \E out \in Outputs : Deliver(out)
            /\ BringsForward /\ writer' = Wake
    /\ UNCHANGED <<due, sending, delivered, flushed, reports>>

ReadEnds ==
    /\ reader = "eof" /\ LockFree
    /\ EndLocked /\ writer' = Wake
    /\ reader' = "report"
    /\ UNCHANGED <<due, nextTick, sending, conn, history>>

Report ==
    /\ reader = "report"
    /\ reader' = "done" /\ reports' = reports + 1
    /\ UNCHANGED <<state, due, nextTick, writer, sending, conn, accepted, delivered, flushed>>

----------------------------------------------------------------------------
(* The writer thread: the loop's branches in its order.                    *)

Relock ==
    /\ writer = "relock"
    /\ writer' = "loop"
    /\ UNCHANGED <<state, due, nextTick, reader, sending, conn, history>>

Take ==
    /\ writer = "loop" /\ ~ended /\ queue # <<>>
    /\ sending' = <<Head(queue)>> /\ queue' = Tail(queue)
    /\ queuedBytes' = queuedBytes - 1
    /\ writer' = "sending"
    /\ UNCHANGED <<closing, ended, changed, due, nextTick, reader, conn, history>>

\* A send fails on a closed connection, and after the write timeout on an
\* open one whose peer does not read.
Sent ==
    /\ writer = "sending" /\ conn = "open"
    /\ delivered' = Head(sending) /\ sending' = <<>>
    /\ writer' = "relock"
    /\ UNCHANGED <<state, due, nextTick, reader, conn, accepted, flushed, reports>>

SendFails ==
    /\ writer = "sending"
    /\ writer' = "failed"
    /\ UNCHANGED <<state, due, nextTick, reader, sending, conn, history>>

SendFailed ==
    /\ writer = "failed"
    /\ EndLocked /\ sending' = <<>>
    /\ writer' = "loop"
    /\ UNCHANGED <<due, nextTick, reader, conn, history>>

\* Mutation: a session call does not change when the writer ticks.
DueUnchanged == due

\* A session call can bring the tick forward, and never pushes it back.
Due == IF changed /\ due = "later" THEN nextTick ELSE due

Idle == writer = "loop" /\ ~ended /\ queue = <<>> /\ ~closing

Tick ==
    /\ Idle /\ Due = "passed"
    /\ \E out \in Outputs : Deliver(out)
    /\ \E next \in {"later", "soon"} : nextTick' = next /\ due' = next
    /\ UNCHANGED <<writer, reader, sending, delivered, flushed, reports>>

Wait ==
    /\ Idle /\ Due # "passed"
    /\ due' = Due /\ changed' = FALSE
    /\ writer' = "waiting"
    /\ UNCHANGED <<queue, queuedBytes, closing, ended, nextTick, reader, sending, conn, history>>

\* Mutation: a session that asks to close is closed at once.
WriteEndsAtOnce ==
    /\ writer = "loop"
    /\ ended \/ closing
    /\ EndLocked
    /\ flushed' = ~ended
    /\ writer' = "close"
    /\ UNCHANGED <<due, nextTick, reader, sending, conn, accepted, delivered, reports>>

WriteEnds ==
    /\ writer = "loop"
    /\ ended \/ (queue = <<>> /\ closing)
    /\ EndLocked
    /\ flushed' = ~ended
    /\ writer' = "close"
    /\ UNCHANGED <<due, nextTick, reader, sending, conn, accepted, delivered, reports>>

\* Mutation: the connection is left to the owner.
LeaveConnection ==
    /\ writer = "close"
    /\ writer' = "done"
    /\ UNCHANGED <<state, conn, due, nextTick, reader, sending, history>>

CloseConnection ==
    /\ writer = "close"
    /\ conn' = "closed" /\ writer' = "done"
    /\ UNCHANGED <<state, due, nextTick, reader, sending, history>>

----------------------------------------------------------------------------
(* The clock and the peer.                                                 *)

Elapse ==
    /\ writer # "unstarted" /\ due # "passed"
    /\ due' = "passed" /\ writer' = Wake
    /\ UNCHANGED <<state, nextTick, reader, sending, conn, history>>

PeerCloses ==
    /\ conn = "open" /\ conn' = "closed"
    /\ UNCHANGED <<state, due, nextTick, writer, reader, sending, history>>

WriterStep == \/ Relock \/ Take \/ Sent \/ SendFails \/ SendFailed
              \/ Tick \/ Wait \/ WriteEnds \/ CloseConnection
ReaderStep == Receive \/ Handle \/ ReadEnds \/ Report

Next == Start \/ Call \/ Close \/ ReaderStep \/ WriterStep \/ Elapse \/ PeerCloses

\* Each thread runs, taking the lock whenever it keeps coming free; a send
\* returns within the write timeout; time passes.
Fairness ==
    /\ WF_vars(Start) /\ WF_vars(WriterStep) /\ WF_vars(Elapse)
    /\ WF_vars(Report) /\ WF_vars(conn = "closed" /\ Receive)
    /\ SF_vars(Handle) /\ SF_vars(ReadEnds)

Spec == Init /\ [][Next]_vars /\ Fairness

----------------------------------------------------------------------------
Writers == {"unstarted", "relock", "loop", "sending", "failed", "waiting", "close", "done"}
Readers == {"unstarted", "receive", "frame", "eof", "report", "done"}
Numbers == 0..Cycle - 1

TypeOK ==
    /\ queue \in Seq(Numbers) /\ queuedBytes \in Nat
    /\ closing \in BOOLEAN /\ ended \in BOOLEAN /\ changed \in BOOLEAN
    /\ due \in {"later", "soon", "passed"} /\ nextTick \in {"later", "soon"}
    /\ writer \in Writers /\ reader \in Readers
    /\ IF writer \in {"sending", "failed"} THEN \E n \in Numbers : sending = <<n>> ELSE sending = <<>>
    /\ conn \in {"open", "closed"}
    /\ accepted \in Numbers /\ delivered \in Numbers
    /\ flushed \in BOOLEAN /\ reports \in Nat

\* What waits to be sent is counted exactly and is bounded, whatever the peer
\* and the owner do.
QueueBounded == queuedBytes = Len(queue) /\ queuedBytes <= MaxQueued

\* The writer sleeps only with nothing to do: no frame waits, the driver has
\* neither ended nor been asked to close, and it will be up for the session's
\* next tick.  No wake-up is lost between a call and the wait.
SleepsOnlyIdle ==
    writer = "waiting" =>
        /\ queue = <<>> /\ ~ended /\ ~closing
        /\ nextTick = "soon" => due # "later"

\* Frames go out in the order the session produced them, none left out, until
\* the driver ends and drops what is left.
SentInOrder ==
    LET chain == <<delivered>> \o sending \o queue
    IN  /\ \A i \in 1..Len(chain) - 1 : chain[i + 1] = Number(chain[i] + 1)
        /\ ~ended => chain[Len(chain)] = accepted

\* A session's last words go out: a driver that ends because its session asked
\* to close has first sent every frame the session gave it.
FlushedFirst == flushed => delivered = accepted

\* A driver that has ended, or whose session has asked to close, finishes: both
\* threads return and the owner is told, once, whatever the threads are in.
Finishes == ended \/ closing ~> writer = "done" /\ reader = "done" /\ reports = 1
=============================================================================
