---------------------------- MODULE MonitorSink ----------------------------
(***************************************************************************)
(* The monitor output over ALSA: one caller's thread submits, flushes,     *)
(* pauses, stops and starts; the render thread moves what was submitted    *)
(* from the queue to the device, a period at a time.  They share the       *)
(* queue and a few atomics, and never wait for each other but in flush()   *)
(* and stop().  A store that the other thread may read before the next one *)
(* ends a step.                                                            *)
(*                                                                         *)
(* The queue is the ring as Fifo specifies it, one item to a frame; batch  *)
(* is the render thread's chunk.  A frame is its number.                   *)
(***************************************************************************)
EXTENDS Integers, Sequences

CONSTANTS
    Capacity,       \* of the queue, in frames
    Period,         \* the frames in a chunk
    DeviceSize,     \* the frames the device's own buffer holds
    CanPause,       \* can_pause
    WriteRetries,   \* kWriteRetries
    MaxFrames,      \* bound: frames submitted
    MaxFlushes      \* bound: flushes asked for

ASSUME MonitorAssumption ==
    /\ Capacity \in Nat /\ Period \in 1..Capacity /\ DeviceSize \in Nat \ {0} /\ DeviceSize % Period = 0
    /\ CanPause \in BOOLEAN /\ WriteRetries \in Nat
    /\ MaxFrames \in Nat /\ MaxFlushes \in Nat

VARIABLES
    queue, next, batch,         \* the ring; batch is chunk, what read() put in it
    running, paused, flushing,  \* the flags of Impl
    flushMark, flushes,         \* flush_mark, flushes
    submitted, rendered,        \* the counters stats() reports
    render,     \* the render thread: where it is, and the locals of its loop
    stop,       \* the worker's stop token
    device,     \* the PCM: its state and the frames it holds
    caller,     \* the caller: where it is, flush()'s local done; late: a flush gave up
    floor       \* history: what a flush that returned had promised to drop

ring   == <<queue, next, batch>>
shared == <<running, paused, flushing, flushMark, flushes, submitted, rendered, stop>>
monitorVars == <<ring, shared, render, device, caller, floor>>

Q == INSTANCE Fifo WITH Size <- Capacity, FrameItems <- 1, items <- queue

Silence == -1

NoThread == [at |-> "none", done |-> 0, retries |-> 0, paused |-> FALSE, dropped |-> FALSE]
Begun    == [NoThread EXCEPT !.at = "top"]
IdleCaller == [at |-> "idle", done |-> 0, late |-> FALSE]
Prepared == [state |-> "prepared", held |-> <<>>]

MonitorInit ==
    /\ Q!Init
    /\ running = FALSE /\ paused = FALSE /\ flushing = FALSE
    /\ flushMark = 0 /\ flushes = 0 /\ submitted = 0 /\ rendered = 0
    /\ render = NoThread /\ stop = FALSE /\ device = Prepared
    /\ caller = IdleCaller /\ floor = 0

----------------------------------------------------------------------------
(* The caller.                                                             *)

CallerAt(place) == caller.at = place
CallerGoes(place) == caller' = [caller EXCEPT !.at = place]
CallerReturns == caller' = [caller EXCEPT !.at = "idle", !.done = 0]

\* submit(): the queue takes all of it or submit refuses; the count follows.
SubmitWrite(k) ==
    /\ CallerAt("idle") /\ running /\ next + k <= MaxFrames
    /\ Q!Put(k)
    /\ caller' = [caller EXCEPT !.at = "count", !.done = k]
    /\ UNCHANGED <<shared, render, device, floor>>

SubmitCount ==
    /\ CallerAt("count")
    /\ submitted' = submitted + caller.done
    /\ CallerReturns
    /\ UNCHANGED <<ring, running, paused, flushing, flushMark, flushes, rendered, stop, render, device, floor>>

\* flush() stores the mark, raises the request, and polls the count of flushes
\* made for 200 ms at most.
FlushMark ==
    /\ CallerAt("idle") /\ running /\ flushes < MaxFlushes
    /\ flushMark' = next
    /\ caller' = [caller EXCEPT !.at = "marked", !.done = flushes]
    /\ UNCHANGED <<ring, running, paused, flushing, flushes, submitted, rendered, stop, render, device, floor>>

FlushAsk ==
    /\ CallerAt("marked")
    /\ flushing' = TRUE
    /\ CallerGoes("polling")
    /\ UNCHANGED <<ring, running, paused, flushMark, flushes, submitted, rendered, stop, render, device, floor>>

FlushReturns ==
    /\ CallerAt("polling") /\ (flushes # caller.done \/ ~running)
    /\ floor' = IF flushes # caller.done /\ ~caller.late THEN flushMark ELSE floor
    /\ CallerReturns
    /\ UNCHANGED <<ring, shared, render, device>>

FlushGivesUp ==
    /\ CallerAt("polling") /\ flushes = caller.done /\ running
    /\ caller' = [IdleCaller EXCEPT !.late = TRUE]
    /\ UNCHANGED <<ring, shared, render, device, floor>>

\* pause() and resume().
SetPaused(wanted) ==
    /\ CallerAt("idle") /\ running /\ paused # wanted
    /\ paused' = wanted
    /\ UNCHANGED <<ring, running, flushing, flushMark, flushes, submitted, rendered, stop, render, device, caller, floor>>

\* stop() asks the thread to end, joins it and closes the device.
StopAsk ==
    /\ CallerAt("idle") /\ render.at # "none"
    /\ stop' = TRUE
    /\ CallerGoes("joining")
    /\ UNCHANGED <<ring, running, paused, flushing, flushMark, flushes, submitted, rendered, render, device, floor>>

Cleared == running' = FALSE /\ paused' = FALSE /\ flushing' = FALSE /\ stop' = FALSE

Join ==
    /\ CallerAt("joining") /\ render.at = "ended"
    /\ Cleared /\ render' = NoThread /\ device' = Prepared
    /\ CallerReturns
    /\ UNCHANGED <<ring, flushMark, flushes, submitted, rendered, floor>>

\* start() joins a thread that ended with its device, opens the device and
\* begins anew, with another queue.
Start ==
    /\ CallerAt("idle") /\ ~running /\ render.at \in {"none", "ended"}
    /\ Q!Drop(Len(queue))
    /\ running' = TRUE /\ paused' = FALSE /\ flushing' = FALSE /\ stop' = FALSE
    /\ flushes' = 0 /\ submitted' = 0 /\ rendered' = 0
    /\ render' = Begun /\ device' = Prepared
    /\ caller' = IdleCaller
    /\ UNCHANGED <<flushMark, floor>>

\* The device does not open: start() has only made its stop().
StartFails ==
    /\ CallerAt("idle") /\ ~running /\ render.at = "ended"
    /\ Cleared /\ render' = NoThread /\ device' = Prepared
    /\ UNCHANGED <<ring, flushMark, flushes, submitted, rendered, caller, floor>>

----------------------------------------------------------------------------
(* The render thread.                                                      *)

RenderAt(place) == render.at = place
RenderGoes(place) == render' = [render EXCEPT !.at = place]
Frees(frames) == Len(device.held) + frames <= DeviceSize

\* The top of the loop: the stop token, then a pause that has changed.  The
\* hardware holds its frames only if it can pause, is running and does not
\* refuse; otherwise they are dropped.
Ends ==
    /\ RenderAt("top") /\ stop
    /\ render' = [NoThread EXCEPT !.at = "ended"] /\ device' = Prepared
    /\ UNCHANGED <<ring, shared, caller, floor>>

Unchanged ==
    /\ RenderAt("top") /\ ~stop /\ paused = render.paused
    /\ RenderGoes("asked")
    /\ UNCHANGED <<ring, shared, device, caller, floor>>

PauseDevice ==
    /\ RenderAt("top") /\ ~stop /\ paused /\ ~render.paused
    /\ \E held \in BOOLEAN :
         /\ held => CanPause /\ device.state = "running"
         /\ device' = IF held THEN [device EXCEPT !.state = "paused"] ELSE Prepared
         /\ render' = [render EXCEPT !.at = "asked", !.paused = TRUE, !.dropped = ~held]
    /\ UNCHANGED <<ring, shared, caller, floor>>

ResumeDevice ==
    /\ RenderAt("top") /\ ~stop /\ ~paused /\ render.paused
    /\ device' = IF render.dropped THEN device ELSE [device EXCEPT !.state = "running"]
    /\ render' = [render EXCEPT !.at = "asked", !.paused = FALSE, !.dropped = FALSE]
    /\ UNCHANGED <<ring, shared, caller, floor>>

Sleeps ==
    /\ RenderAt("asked") /\ render.paused /\ ~flushing
    /\ RenderGoes("top")
    /\ UNCHANGED <<ring, shared, device, caller, floor>>

NotAsked ==
    /\ RenderAt("asked") /\ ~render.paused /\ ~flushing
    /\ RenderGoes("wait")
    /\ UNCHANGED <<ring, shared, device, caller, floor>>

\* Mutation: the device keeps what it holds.
FlushTakenSoftly ==
    /\ RenderAt("asked") /\ flushing
    /\ flushing' = FALSE
    /\ RenderGoes("discard")
    /\ UNCHANGED <<ring, running, paused, flushMark, flushes, submitted, rendered, stop, device, caller, floor>>

\* The flush: the request is taken and the device dropped; the queue is
\* dropped up to the mark; the counters are reset, and the flush announced.
FlushTaken ==
    /\ RenderAt("asked") /\ flushing
    /\ flushing' = FALSE /\ device' = Prepared
    /\ RenderGoes("discard")
    /\ UNCHANGED <<ring, running, paused, flushMark, flushes, submitted, rendered, stop, caller, floor>>

Discard ==
    /\ RenderAt("discard")
    /\ \E k \in 0..Len(queue) : /\ \A i \in 1..Len(queue) : i <= k <=> queue[i] < flushMark
                                /\ Q!Drop(k)
    /\ rendered' = 0
    /\ RenderGoes("reset")
    /\ UNCHANGED <<running, paused, flushing, flushMark, flushes, submitted, stop, device, caller, floor>>

ResetSubmitted ==
    /\ RenderAt("reset")
    /\ submitted' = 0
    /\ RenderGoes("announce")
    /\ UNCHANGED <<ring, running, paused, flushing, flushMark, flushes, rendered, stop, device, caller, floor>>

Announce ==
    /\ RenderAt("announce")
    /\ flushes' = flushes + 1
    /\ render' = [render EXCEPT !.at = IF render.paused THEN "top" ELSE "wait",
                                !.dropped = render.paused]
    /\ UNCHANGED <<ring, running, paused, flushing, flushMark, submitted, rendered, stop, device, caller, floor>>

\* snd_pcm_wait: room for a period, and a chunk of the queue is read; or no
\* answer in time; or an error, which prepares the device again or ends it.
WaitReady ==
    /\ RenderAt("wait") /\ device.state # "xrun" /\ Frees(Period)
    /\ \E k \in 0..Period : /\ k = Period \/ k = Len(queue)
                            /\ Q!Get(k)
    /\ render' = [render EXCEPT !.at = "write", !.done = 0, !.retries = 0]
    /\ UNCHANGED <<shared, device, caller, floor>>

WaitNothing ==
    /\ RenderAt("wait") /\ device.state # "xrun"
    /\ RenderGoes("top")
    /\ UNCHANGED <<ring, shared, device, caller, floor>>

WaitFails ==
    /\ RenderAt("wait")
    /\ RenderGoes("top") \/ RenderGoes("lost")
    /\ device' = Prepared
    /\ UNCHANGED <<ring, shared, caller, floor>>

Writing == RenderAt("write") /\ ~stop /\ render.done < Period

\* The chunk is what was read, filled up with silence.
Chunk(i) == IF i <= Len(batch) THEN batch[i] ELSE Silence

\* Mutation: a short write is taken for a whole one.
WriteShort(n) ==
    /\ Writing /\ n <= Period - render.done
    /\ device.state # "xrun" /\ Frees(n)
    /\ LET held == device.held \o [i \in 1..n |-> Chunk(render.done + i)]
       IN  device' = [held |-> held,
                      state |-> IF Len(held) = DeviceSize THEN "running" ELSE device.state]
    /\ render' = [render EXCEPT !.done = Period]
    /\ UNCHANGED <<ring, shared, caller, floor>>

\* snd_pcm_writei takes some of the rest of the chunk; a full buffer starts the
\* device.
WriteSome(n) ==
    /\ Writing /\ n <= Period - render.done
    /\ device.state # "xrun" /\ Frees(n)
    /\ LET held == device.held \o [i \in 1..n |-> Chunk(render.done + i)]
       IN  device' = [held |-> held,
                      state |-> IF Len(held) = DeviceSize THEN "running" ELSE device.state]
    /\ render' = [render EXCEPT !.done = @ + n]
    /\ UNCHANGED <<ring, shared, caller, floor>>

\* An error: the device is prepared again and the rest of the chunk written
\* again, or given up on after kWriteRetries; or the device is lost.
WriteFails ==
    /\ Writing
    /\ device' = Prepared
    /\ \/ render' = [render EXCEPT !.retries = @ + 1,
                                   !.at = IF render.retries = WriteRetries THEN "written" ELSE "write"]
       \/ RenderGoes("lost")
    /\ UNCHANGED <<ring, shared, caller, floor>>

Written == RenderAt("written") \/ (RenderAt("write") /\ (stop \/ render.done = Period))

\* Mutation: a chunk given up on is not counted.
CountIfWritten ==
    /\ Written
    /\ rendered' = IF RenderAt("written") THEN rendered ELSE rendered + Len(batch)
    /\ render' = [render EXCEPT !.at = "top", !.done = 0, !.retries = 0]
    /\ UNCHANGED <<ring, running, paused, flushing, flushMark, flushes, submitted, stop, device, caller, floor>>

\* Whatever became of it, the chunk counts as rendered.
Count ==
    /\ Written
    /\ rendered' = rendered + Len(batch)
    /\ render' = [render EXCEPT !.at = "top", !.done = 0, !.retries = 0]
    /\ UNCHANGED <<ring, running, paused, flushing, flushMark, flushes, submitted, stop, device, caller, floor>>

\* The device is gone: only running says so until stop() or start().
Lost ==
    /\ RenderAt("lost")
    /\ running' = FALSE
    /\ render' = [NoThread EXCEPT !.at = "ended"] /\ device' = Prepared
    /\ UNCHANGED <<ring, paused, flushing, flushMark, flushes, submitted, rendered, stop, caller, floor>>

\* The hardware plays a frame, or runs dry.
DevicePlays ==
    /\ device.state = "running"
    /\ device' = IF device.held = <<>> THEN [device EXCEPT !.state = "xrun"]
                                       ELSE [device EXCEPT !.held = Tail(@)]
    /\ UNCHANGED <<ring, shared, render, caller, floor>>

----------------------------------------------------------------------------
Call == \/ \E k \in 1..Period : SubmitWrite(k)
        \/ SubmitCount \/ FlushMark \/ FlushAsk \/ FlushReturns \/ FlushGivesUp
        \/ \E wanted \in BOOLEAN : SetPaused(wanted)
        \/ StopAsk \/ Join \/ Start \/ StartFails

Render == \/ Ends \/ Unchanged \/ PauseDevice \/ ResumeDevice \/ Sleeps \/ NotAsked
          \/ FlushTaken \/ Discard \/ ResetSubmitted \/ Announce
          \/ WaitReady \/ WaitNothing \/ WaitFails
          \/ \E n \in 1..Period : WriteSome(n)
          \/ WriteFails \/ Count \/ Lost

MonitorNext == Call \/ Render \/ DevicePlays

\* The render thread is scheduled, the device plays while it runs, and a wait
\* does not time out or fail for ever; stop() comes back from its join.
MonitorFairness ==
    /\ WF_monitorVars(Render) /\ WF_monitorVars(DevicePlays)
    /\ SF_monitorVars(WaitReady) /\ WF_monitorVars(Join)

MonitorSpec == MonitorInit /\ [][MonitorNext]_monitorVars /\ MonitorFairness

----------------------------------------------------------------------------
Places == {"none", "top", "asked", "discard", "reset", "announce", "wait", "write", "written", "lost", "ended"}

Devices == [state : {"prepared", "running", "paused", "xrun"}, held : Seq(Nat \cup {Silence})]
Renders == [at : Places, done : 0..Period, retries : 0..WriteRetries + 1,
            paused : BOOLEAN, dropped : BOOLEAN]
Callers == [at : {"idle", "count", "marked", "polling", "joining"}, done : Nat, late : BOOLEAN]

MonitorTypeOK ==
    /\ queue \in Seq(Nat) /\ next \in 0..MaxFrames /\ batch \in Seq(Nat) /\ Len(batch) <= Period
    /\ running \in BOOLEAN /\ paused \in BOOLEAN /\ flushing \in BOOLEAN /\ stop \in BOOLEAN
    /\ flushMark \in Nat /\ flushes \in Nat /\ submitted \in Nat /\ rendered \in Nat /\ floor \in Nat
    /\ render \in Renders /\ caller \in Callers
    /\ device \in Devices /\ Len(device.held) <= DeviceSize

\* What is on its way, in the order it will be heard: the device's, the part of
\* the chunk the device has still to take, the queue's; and where a frame is in it.
Rest == IF RenderAt("write") THEN SubSeq(batch, render.done + 1, Len(batch)) ELSE <<>>
OnTheWay == device.held \o (Rest \o queue)
Sounding == {i \in DOMAIN OnTheWay : OnTheWay[i] # Silence}

\* What is still to be heard is the newest that was submitted, with nothing
\* missing, doubled or out of order, although a device that fails in the middle
\* of a chunk is given the rest again and a flush may come at any time.  (A
\* stop leaves the chunk where it is.)
Unbroken ==
    stop \/ \A i \in Sounding :
               /\ OnTheWay[i] < next
               /\ \A j \in Sounding : i < j => OnTheWay[i] < OnTheWay[j]
               /\ \A f \in OnTheWay[i]..next - 1 : \E j \in Sounding : OnTheWay[j] = f

\* Once flush() has returned, nothing submitted before it is heard: not from
\* the queue, not from the chunk the render thread had in hand, not from the
\* device.  (In a stream whose flushes were all made in time.)
FlushedIsSilent == \A i \in Sounding : OnTheWay[i] >= floor

Drained == rendered >= submitted \/ paused \/ ~running

\* A device that is not started, because it is not full, and has no room for a
\* period: a short write before a recovery left it off the grid of periods.
Stalled == device.state = "prepared" /\ ~Frees(Period)

\* What the code says of the counters: rendered means "taken from the queue
\* and finished with, and a drain has to end".  Only such a device keeps a drain
\* from ending, whatever fails and however often, in a stream whose flushes
\* were all made in time.
DrainEndsUnlessStalled == (submitted > rendered) ~> (Drained \/ Stalled \/ caller.late)
=============================================================================
