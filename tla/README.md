# TLA+ models of ac3forge's Sendspin core and audio ring

ac3forge is a family of audio codecs, containers and renderers, and the programs
around them: command line, GUI, the Hearth server with its Sendspin network
audio, a Sendspin test player and an ESP32 player.  The codecs are sequential
and numerical, and the repository's conformance tests reach them well.  The
behaviour that tests reach badly is elsewhere: in the Sendspin library, where
several connections, threads and operators act on one player, and in the ring
between audio threads.  That is what these modules model.

## Inventory

| Part | Source | State | Operations | Interacts with | Hard behaviour |
|---|---|---|---|---|---|
| Arbiter | `sendspin/src/arbiter.cpp` | the admitted connection, a pairing connection beside it, the last-playback server | `activation`, `attempt`, `ended`, `forget` | called by its two owners | order of calls, re-handshakes, attempts in progress |
| PlayerSession (client) | `sendspin/src/player_session.cpp` | phase, declared activities, roles, streams, pairing attempt | one handler per message, `displace`, `resume_pairing`, `cancel_pairing`, `tick` | its owner, through a listener; its peer | re-handshake, what is reported to the arbiter and when |
| Test sink (`Sink`) | `apps/hearth/testsink/sink.cpp` | connections, the worker's queue | `accept`, `on_activation`, `displace`, `remove`, `open_window`, `reset_rounds`, `cancel_pairing` | arbiter, drivers, worker, the operator's thread | displacements carried out later, on another thread; sessions that outlive their connection's end |
| Board (`SendspinHost`) | `esp-idf/.../sendspin_host.cpp` | connections, pending work | `on_upgraded`, `on_frame`, `free_connection`, `pending_work`, `forget_server` | arbiter, store, the HTTP server's task, the operator's task | two tasks, three locks, power loss |
| SendspinStore | `esp-idf/.../sendspin_store.cpp`, `pairing_records.hpp` | identity, Pairing PSK, pairing records, names, last-playback server: in RAM and in flash | `load`, `add_record`, `touch`, `set_name`, `remove_record`, `set_last_playback`, `forget` | board | a refused write or a power loss between two blobs |
| ClientPairing, ClientPairingState | `sendspin/src/pairing_flow.cpp` | an attempt; rounds and window shared by all attempts | `start`, `receive`, `resume`, `cancel`, `tick` | PlayerSession, the operator | limits shared over connections |
| ServerPairing, ServerSession | `sendspin/src/pairing_flow.cpp`, `server_session.cpp` | an attempt, pairing index, records | `activate`, `enter_code`, `cancel_pairing`, `receive`, `tick` | ClientPairing, over the connection | messages of superseded attempts, timeouts, loss |
| SessionDriver | `sendspin/src/session_driver.cpp` | send queue, flags, two threads | `start`, `call`, `close`, `read_loop`, `write_loop` | session, transport, owner | wake-ups, sends outside the lock, ends from every side |
| BasicRingBuffer | `audio/.../ring_buffer.hpp` | buffer, two indices | `write_frames`, `read`, `discard_to` | device thread and caller | lock-free interleaving |
| MonitorSink | `audio/src/backend/alsa/monitor.cpp` | flags and counters beside a ring, the device | `submit`, `flush`, `pause`, `resume`, `stop`, `start`, the render thread | ring, device | a flush that timed out, a device that fails within a chunk |
| ServerSession and PlayerSession: streams | `sendspin/src/server_session.cpp`, `player_session.cpp` | roles, streams, transfers, availability, on both sides | `activate`, `rehandshake`, one call or handler per stream message | each other, over the connection | frames crossing activations and re-handshakes |
| ServerHost | `sendspin/src/server_host.cpp` | connections, requested pairings, the worker's queue, groups | `dial_to_pair`, `pair`, `enter_pairing_token`, `decide`, `remove` | drivers, ServerSession, the store | lookups by client and URL while connections change |
| Codecs, containers, DSP, rendering, bindings, user interfaces | the rest | | | | sequential, numerical or presentation |

What makes each correct, in a line: the **arbiter** holds one connection and
displaces no pairing attempt; its **owners** run as admitted only what it holds;
the **board**'s flash never names another server than its arbiter;
**pairing** leaves the two sides the same record, proved by the right code, and
bounds how many codes a server gets to see or guess; the **driver** sends what
the session said, in order, and always finishes; the **ring** is a queue, and the
**monitor** plays it unbroken and stays silent after a flush; the two **sessions**
agree on every stream; the **store** keeps what it said it kept; the **host**
decides every pairing asked for, and no other.

## Modules

| Module | Models | Kind |
|---|---|---|
| `Arbiter` | class Arbiter as state functions, under any calls | component |
| `Admission` | PlayerSession as its arbiter sees it | shared by the two owners |
| `TestSink` | class Sink: readers under one lock, a worker | composes Admission, Arbiter |
| `BoardHost` | class SendspinHost with SendspinStore's calls | composes Admission, Arbiter |
| `SendspinStore` | class SendspinStore and PairingRecords, blob by blob | component |
| `ClientPairing` | ClientPairing, ClientPairingState, several connections | component |
| `PairingFlow` | ServerPairing against ClientPairing over a connection | composes ClientPairing |
| `SessionDriver` | class SessionDriver, its threads, clock and peer | component |
| `Fifo` | what a single-producer, single-consumer queue promises | abstract specification |
| `RingBuffer` | class BasicRingBuffer, load by load | implements Fifo |
| `MonitorSink` | class MonitorSink over ALSA, its render thread and a device | composes Fifo |
| `Streams` | ServerSession and PlayerSession with the channel up: roles and streams | composes the two sessions |
| `ServerHost` | class ServerHost: connections, worker, operator, store | component |
| `AdmissionProofs`, `TestSinkProofs`, `BoardHostProofs` | theorems on `Arbiter`, `Admission` and the two owners | proofs |
| `PairingProofs` | theorems on `ClientPairing` and `PairingFlow` | proofs |
| `AudioProofs` | theorems on `RingBuffer` and `MonitorSink` | proofs |
| `SessionProofs` | theorems on `SessionDriver` and `Streams` | proofs |
| `SendspinStoreProofs`, `ServerProofs` | theorems on `SendspinStore`, `ServerHost` | proofs |
| `MC*` | instances for TLC | |

Definitions marked `Mutation:` are not part of a model.  Each is a plausible bug
in the definition that follows it, kept so that a property can be shown to tell
the difference.

### Admission: Arbiter, Admission, TestSink, BoardHost

`arbiter` is the class's three members.  Every method takes the arbiter's mutex
for its whole body, so a call is one step; because an owner makes several calls
in one handler, the methods are functions from an arbiter to an arbiter and the
owners' actions apply them in the handler's order.  `Activation`, `Incoming`,
`Attempt`, `Ended`, `Forget` are the methods of those names; `GoesBeside` and
`TakesOver` are the branches of `incoming`.

`session[c]` keeps of a PlayerSession its phase, the rank of what it declares
and how its attempt stands.  kHello and kProvisional are one phase, "opening",
from whose next activation `first` is computed.  `Verdict` and
`ActivatedArbiter` are `on_activate` in order: end the old attempt, ask, start
the new one and report it.  Which activities the matched PSK allows is left out;
an inadmissible activation is one of the reasons for `Close`.

In `TestSink` a handler runs whole, under the drivers' shared lock, and only
posts a displacement; the worker takes what is posted in order.  `displace()` calls
the session under the shared lock, if the connection is still listed
(`RunDisplace`).  `remove()` is taken apart where it lets go of a lock: the
connection is erased (`RunRemove`), the arbiter is told `ended` (`TellEnded`), and
only then, at the end of the scope, does the session go, and not before the last
reference to it (`Destroy`).  `open_window()`, `reset_rounds()` and
`cancel_pairing()` copy the list of connections and then call `resume_pairing()` or
`cancel_pairing()` on one after another (`OperatorCalls`, `OperatorVisits`), which
reaches sessions whose driver has ended, that were erased, or of which the arbiter
was told they ended.  `MaxVisits` bounds how many connections one such call matters
to.  `Driven` says when a driver still calls its session.  `accept()` is one step:
nothing calls a session before `start()`, its last statement, has a driver for it.
A displaced session and one that closed by itself are both "closed", as neither
answers anything any more.  The sink's own store, its output and its control
surface are left out.

In `BoardHost` the HTTP server's task runs every handler, so handlers do not
interleave with each other; they do interleave with the operator's task, at each
lock.  `task` is where a handler stands between two locks: between reading the
store and establishing a session (`Handshake`, `Establish`) and between reading
the last-playback server and storing it (`ReadLast`, `WriteLast`).
`RemoveRecord`, `ArbiterForget`, `QueuePrune` are `forget_server`'s three locks
and `PendingWork` is what it queued.  The other two ways a record goes are on the
server's task: `Unpair` is `server/unpair`, whose `on_unpaired` takes the record out
of the store and tells neither the arbiter nor the server's other connections, and
`Paired` may evict a record that no other open connection rests on (`InUse`, which
is `on_paired`'s list; the store then has room, as it holds more records than the
board has connections).  `unpaired` is history: the servers that unpaired
themselves since the last prune, for `ForgottenLeaves` to except.  `Restart` keeps
`records` and `stored`.  "closed" is a session that has said goodbye, that was
displaced, or that a failing send has closed.
The board never reuses a connection's id; the model does once the connection is
freed, since nothing refers to that id any more.
Left out: a failing `httpd_queue_work`, `forget_pairings`, and `leave()`, whose
goodbye goes to every connection and drops a prune queued with it.  The store's
calls are atomic and succeed here; `SendspinStore` takes them apart.

### SendspinStore

`ram` is the object, `flash` the five blobs of NVS, and `call` the call that holds
the mutex, with the blobs it has yet to write, in its order.  A call changes `ram`
in its first step; every blob is then either `Written` or `Refused`, and
`PowerLoss` (also the board's `stop()`) may come at any step.  `Needed` tells the
writes whose refusal ends a call (`&&` in the code) from those whose answer is
ignored.  A blob that is written is written whole, which is what NVS promises.
`PairingRecords` is a sequence, the least recently used first, and `Added` and
`Touched` are its `add` and `touch`.  Both keys of an identity are one value.
`LoadNew` is every way `load()` comes to make new keys: none stored yet, NVS that
does not open, a key that does not read or is not usable.  The board is then a new
one, and what was paired before is void (`BoardHost`'s restarts read what is stored).
Left out: `saw()`, which marks what is never stored; a read of the records, the
names or the last-playback server that fails while the keys are read.

### Pairing: ClientPairing, PairingFlow

Each handler returns a `Step`: the attempt afterwards, the shared state, the
messages, and what becomes of the connection, as the code's does.  Cryptography
is what it decides: a CPace exchange is named by its sid (pairing index and
round), and a confirmation verifies exactly when both used the right code under
the same sid and heard each other's share.  A long-term PSK is named by the
attempt that drew it.  A timeout that may expire is an action that may happen.
The `Dialect` constant keeps the branches for aiosendspin 9.1.1; the runs use the
specification's.

`ClientPairing` alone runs several connections against servers that may send any
message at all.  The operator's gesture changes the shared state once and is
then followed by one `Resumes` for each connection, as the owner takes its lock
for each.  `PairingFlow` puts the real server on the other end of one
connection, with a FIFO each way; `Persists` is `ServerSession::paired`.  The
re-handshake that follows a pairing is where a run of it ends: the client checks
that the PSK it is asked for is the one it persisted.

### SessionDriver

One action is what a thread does while it holds the lock, or between releasing
and taking it.  `writer` is the writer's place in its loop: at "loop" it holds
the lock and `Take`, `WriteEnds`, `Tick` and `Wait` are the loop's branches in
its order; "sending" is outside the lock.  The session is what its calls return:
up to `MaxFrames` frames, whether to close, and whether its next tick came
nearer.  `due` and `nextTick` compare times only: later, soon or passed.
Spurious wake-ups change nothing the writer would not do anyway and are left
out.  `Close` does the work of `close()` before its join.

### RingBuffer, Fifo

Each load and store of an index and each item copied is a step; a thread's load
of the index it alone stores is merged with the next step.  Atomics are
sequentially consistent in the code (the defaults), so interleaving is all there
is.  Items are numbered, so a cell tells which write it came from.  Indices are
natural numbers: they are `size_t` and only grow, and `Size` divides 2^64.  The
store of `write_` and the addition to `dropped_` are one step, since no thread
relates them.  `reset()` is left out: it requires both threads stopped.
`Fifo` is the promise: a batch goes in, comes out or is dropped in one step.

### MonitorSink

The caller's thread and the render thread share the queue and a few atomics; a
step ends where the other thread may see a store.  The queue is `Fifo`, which the
run `ring` shows the ring to implement, one item to a frame.  `render.at` is the
place in the loop, and its other fields are the loop's locals (`done`, `retries`,
`device_paused`, `dropped_to_pause`).  The device holds up to `DeviceSize` frames,
starts when it is full, may take any part of a write, and may fail at any wait or
write; a recovery prepares it, which drops what it holds.  `flush()`'s 200 polls
are `FlushGivesUp`, at any time while it polls.  `floor` is what a flush that
returned in time had promised to drop.  Queue, mark and counters are numbered in
frames; `position()` and the under-run count are left out, as nothing acts on
them.

### Streams

`server` and `client` are the fields of the two sessions that concern roles,
phases and streams; `down` and `up` are the frames in flight, each with the keys it
was sealed with.  A call or the handling of a frame is one step, as both classes
are used under their driver's lock.  Three roles stand for all: the player (the
burst and visualizer streams start, end and are reset alike), artwork with one
channel and an image of `MaxParts` parts at most, and the source, which streams
towards the server.  The artwork channel's configuration changes once, to another
image source or to none.  The engine activates any of `RoleSets`, also right after a
re-handshake.  `carried` is history: the roles the client has had since before a
re-handshake without an activation that took them away, whose artwork and source
state it has therefore not reset.  `OnActivate` is of an activation the player
admits; verdicts are `Admission`'s.  The clock is taken to have converged.

### ServerHost

`connections[i]` is a HostConnection with what its session knows: how far it is,
which PSK matched, whether an attempt runs.  Its sessions' steps (`Establish`,
`OnHello`, `OnPaired`, `OnPairingEnded`, `Drops`, `Ended`) come at any time and
post work; the worker takes it in order.  `decide()` is four steps, since it reads
the view, the requests and the store under locks of their own and acts after them:
`Looks`, `TakesRequest`, `Chooses` and what it then does.  What it asks the store
(`approved`, `has_pairing_psk`, `choose`) is one read.  `remove()` is two
(`Removes`, `RemovesRequest`), as it lets go of the lock in between; `pair()`,
`dial_to_pair()` and `enter_pairing_token()` are split in the same way (`Found`,
`Posts`).  `last_decision_`, which would keep `decide()` from repeating itself, is
cleared by every caller of it first, so it decides nothing.  The table of services
found and its 5-second timer are `Redial`, at any time while nothing is posted.
`owed` is what `AskedIsDecided` is about: the requests left at a connection that
are not yet taken, dropped or cancelled.  Which roles an activation gets is left
out, and so are groups and the calls that only pass on to a session.

## Runs

Every run finishes exhaustively on the instance given.

| Run | Question | Bounds |
|---|---|---|
| `test_sink` | are sessions and arbiter consistent with deferred displacement and removal, and the arbiter itself under every order of calls its owner makes? | 3 connections of 2 servers; at most 2 calls posted, displacements and removals; an operator's call matters to one connection (`MaxVisits`), again and again |
| `board` | do sessions, arbiter and flash agree? | 3 connections open at once, of 2 servers, one of which may be forgotten, and both of which may unpair themselves and be evicted, again and again; connections come and go without bound |
| `client_pairing` | are the limits limits? | 2 connections, round limit 2, 2 failures a window, 2 activations a handshake, 3 rounds an attempt, 2 operator's acts |
| `flow` | do the two sides agree and finish? | 2 activations, 2 rounds, one operator's act; dynamic and static code |
| `flow_records` | and with the Pairing PSK? (they need not agree) | 2 activations |
| `driver` | does the driver keep its order, bound and word, and end? | a queue of 2, up to 3 frames a call, so that one call overflows an empty queue |
| `ring` | is the ring a queue? | 4 cells, frames of 2, batches of up to 2 frames, 12 items offered: the indices wrap three times |
| `monitor` | is what is heard what was submitted, and does a drain end? | 3 frames, chunks of 2, a queue of 4, a device of 2 chunks, one retry, one flush; pauses, stops, starts and failures without bound |
| `streams` | do the two sessions agree through everything in flight? | 3 frames down and 2 up in flight, 2 player streams, images of 2 parts, one re-handshake, 3 activations before it and 3 after |
| `store` | what does flash hold after refusals and power loss? | 3 servers for 2 records, 2 secrets, 2 identities; calls without bound |
| `host` | is every pairing asked for decided, and none other? | 1 client with 1 URL, 2 connections, 2 works posted, 2 operator's calls; the theorems are for any numbers of them |
| `host_token` | does a token entered name the Pairing PSK? (not always) | the same |

The instances are small because the hazards are: each concerns two or three
connections, one superseded attempt, one overflow, one chunk cut short, or one
wrap of the ring.  Symmetry is used between connections of the same server
(`test_sink`, `board`), between all connections (`client_pairing`), and between
servers, secrets and keys (`store`); no liveness is checked there.
`TestSink`, `PairingFlow`, `SessionDriver`, `RingBuffer`, `Streams` and
`ServerHost` really stop (all connections gone or used up, the connection closed,
the driver ended, a bound on items or calls reached), so deadlock is checked in
the others.

**What the properties mean.** `ActiveIsHeld`, `OnePlays` and `AttemptReported`
relate each session to the arbiter, through any interleaving of activations,
re-handshakes, attempts and ends.  In the sink they hold up to the displacements
the worker has yet to carry out; on the board, with no exception.
`LastsAgree` compares flash and arbiter whenever no handler is between them: they
never name two different servers, across restarts, forgetting and unpairing; one of
them may name none.  `ForgottenLeaves` says that the prune queued by
`forget_server` reaches the connection whose handshake had already read the
record, and that a pairing evicts no record a connection rests on; it excepts the
other connections of a server that unpaired itself, which nothing prunes.
`RoundsBounded` and `FailuresBounded` state the limits with the excess
the code allows, one attempt for each other connection.  `RecordsAgree` says
that the client persists a record only if the server has persisted that one:
what is left after any loss is at worst a record on the server alone, which
pairing again replaces.  `RecordIsProved` ties each record to a right code
entered for that very attempt.  `NoProtocolError` says that two conforming peers
never take each other's late messages for an error.  `SleepsOnlyIdle` is the
absence of lost wake-ups.  `IsAQueue` is the refinement of `Fifo`.
`AttemptLeftAlone` says that a running attempt leaves the arbiter only by a step of
its own session, which a displacement decided before it began also is, or by
`remove()` when its own driver has ended, which may find it running as `ended` is
told before the session goes; never because another connection is admitted, ends or
is displaced, or by the operator's call on another.

`Unbroken` reads the frames still to be heard, in the device, in the chunk in
hand and in the queue, and finds the newest submitted with none missing, doubled
or out of order, though the device under-runs within a chunk and the rest is
written again.  `FlushedIsSilent` finds none of them older than the mark of a
flush that returned in time.  `DrainEndsUnlessStalled` is `monitor.cpp`'s "a drain
has to end", with the one exception found (below).  `NothingMalformed` says that
a client of this code closes over nothing a server of this code sends, and
`AgreeWhenQuiet` that once nothing is in flight both have the same streams open,
the same transfer running and the source in the same state, though each decided on
its own when a crossing message had come too late.  Both except what a client keeps
across a re-handshake (`carried`, below): for `NothingMalformed` that is an image
announced to it, for `AgreeWhenQuiet` what the client alone has open.
`FlashFollows` is what a restart finds after completed calls; `PairedIsKept` and `RemovedIsGone` hold at
every step, so also when the power goes; a board that makes itself new keys has
nothing paired any more.  `PairsOnlyAsked` counts the code pairings
asked for and those begun; `AskedIsDecided` finds for every request left at a
connection something that will have the worker decide it.

**Fairness.**  `Finishes` assumes that each thread runs and gets the lock it
keeps being offered (weak fairness of the writer, strong fairness of the
reader's sections, since calls may take the lock between), that a send returns
(the transport's write timeout) and that time passes; it assumes nothing of the
peer.  `AttemptsEnd` assumes that both drivers read what arrives and tick their
sessions, and nothing of the operators.  `DrainEndsUnlessStalled` assumes that the
render thread runs, that a running device plays, that `snd_pcm_wait` on a device
with room does not answer "not ready" or fail for ever (strong fairness of
`WaitReady`), and that `stop()` comes back from its join; it assumes nothing of
the caller.

## Where the code and its documentation part

Two are runs of their own, whose counterexample TLC finds.

* `RecordsAgree` with the Pairing PSK (`flow_records`): `server_session.cpp:747`,
  messages of an ended attempt "are then discarded".  `client/pair-finalize` does
  not say which attempt it belongs to; after a second activation the server keeps
  the first attempt's PSK and the client the second's.  The re-handshake then fails
  and both keep records that do not match.
* `TokenIsNamed` (`host_token`): `server_host.hpp:191`, "the client pairs by its
  pairing PSK as soon as it is connected".  `decide()` re-handshakes to what the
  store chooses, which prefers a record to a token.  A client that lost its record
  comes by the Sentinel, is re-handshaked to the record it lost, closes, and comes
  again; the token entered for exactly this case takes no effect until `unpair()`.

The others were met while modelling; the properties above are stated so that they
hold with them, and say where.

* **Arbiter.** `tests/sendspin/test_arbiter.cpp:59`, "A rejected or displaced
  connection is no longer held, whatever it declares next."  After a re-handshake
  its activation is a first one, and the arbiter takes it in.  In the test sink a
  displaced connection may do that before the worker gets to it, displace its
  displacer, and then be closed by the old displacement; both leave.  The board
  displaces within the handler and is not affected.
* **Board, the last-playback server.** `arbiter.hpp:54`, "it is not the last-playback
  server any more".  A handler on the server's task that has read the last-playback
  server (`sendspin_host.cpp:318`) may store it after `forget_server` has removed it;
  it is back after the next restart.  Likewise `server/unpair` takes the server out of
  the store and not out of the arbiter, and the next handler stores it again.  And a
  restart between the arbiter's change and the write finds the older server.  In all
  three flash and arbiter differ by a missing name at most while the board runs, which
  is what `LastsAgree` says.
* **Board, a server that unpairs itself.** `server/unpair` prunes nothing: another
  connection of the same server, whose handshake matched the record, stays until the
  next `forget_server`.
* **Pairing window.** `pairing_flow.hpp:66`, "the connection that carried its first
  attempt, which alone may carry more".  A second gesture unbinds the window from
  an attempt still running.
* **Driver.** `session_driver.hpp:18`, the writer "ticks the session when its timers
  are due".  It does so only when its queue is empty, so a session whose calls add
  a frame during every send is not ticked at all.
* **Monitor, a flush that gave up.** `monitor.cpp:276` and `monitor.hpp` say audio
  submitted after a timed-out `flush()` is kept.  The queue keeps it, but a late
  flush also drops the device, which may hold it by then; and it sets the counters
  to zero, between a `submit()`'s write and its count perhaps, so that a drain
  waits for a frame already played.  A second `flush()` may return at the first
  one's completion.  `FlushedIsSilent` and `DrainEndsUnlessStalled` are about
  streams whose flushes were made in time.
* **Monitor, a stalled device.** A short write followed by a recovery leaves the
  device holding a number of frames that is not a multiple of a period; with less
  than a period free and not full, it is never started (the start threshold is the
  whole buffer) and never has room: a drain waits for ever.  `Stalled` is that
  state.
* **Streams, across a re-handshake.** `established()` and `on_rehandshake()` are
  commented as a new session.  The server resets its streams, the client keeps
  `stream_` and `burst_stream_`: no `on_stream_end`, and the next `stream/start` is
  taken for a change of a running stream.  `AgreeWhenQuiet` compares the player's
  stream only while the server has one open.
* **Streams, artwork and source across a re-handshake.** `player_session.cpp:689`,
  "roles, activities and pairing from before do not carry into the new session".
  `on_rehandshake()` clears the roles; `artwork_stream_`, `artwork_transfer_` and the
  source's state stay until an activation without the role, while the server's
  `established()` resets its own.  The next activation may have the roles: a client
  taken back to the Sentinel to pair (`server_host.cpp:285-288`) by a method it does
  not offer has that activation refused (`server_session.cpp:644`), and, approved by
  the operator, is activated for playback (`server_host.cpp:303-305`).  An image the
  server then announces meets the transfer of before and closes the connection
  (`player_session.cpp:276`); the input stream of before stays open at the client
  alone, or, ended by the application and started again, is one the server never
  started, and closes over.  `carried` marks these states; what the properties say
  with it is that nothing else goes wrong.
* **Streams, frames sent in a re-handshake.** `end_stream()`, `send_artwork_part()`
  and others are not refused between the two messages of a re-handshake; what
  they seal with the old keys reaches a client that has the new ones, which
  closes.  `NothingMalformed` excepts frames that do not open.
* **Source.** A stop and a start crossing (`server_session.cpp:402`): the client
  starts its input stream before it hears the stop, or reports itself unavailable
  and a start is under way; the server closes the connection over "a protocol
  error" of a client that followed the protocol.
* **Store.** `remove_record()` returns true though flash refused the records, and a
  restart brings the server back; a power loss in the middle leaves the
  last-playback server of a record that is gone.  A power loss after the first
  write of `forget()` leaves the old records under the new identity.  A
  `set_last_playback` that was refused is not tried again for the same server.
* **Host.** "A second connection to a client the host already holds is closed"
  (`server_host.cpp:244`): only the one with the greater id is, when it decides; an
  older connection that says hello later stays.  `cancel_pairing()` posts no
  decision, so a request made during the attempt waits for the next one (`owed`
  leaves it out, also when the attempt is cancelled between decide()'s view of it and
  its taking of the request).  A request left by `dial_to_pair()` for a held connection that
  ends after its hello stays for a later dial.  A redial that fails drops a request
  made meanwhile, and so does `remove()` of a connection that ended before its hello:
  a `dial_to_pair()` between its two locked sections loses its request, though it
  dials.  `decide()` erases a request before the activation that may be
  refused, because the session is closing or re-handshaking.

## Proofs

All theorems hold for every value of the constants that satisfies the modules'
assumptions, and rest on nothing else.

* `AdmissionProofs` begins with the arbiter under any calls: the inductive
  invariant is the conjunction of the three invariants; `BesideAHolder` needs
  `TypeOK` to speak of ids, and `Ended` needs `BesideAHolder` to promote the
  connection held beside.  One lemma per method (`HoldKeeps`, `IncomingKeeps`,
  `ActivationKeeps`, ...) says what the state function preserves, so that an
  owner's handler, which composes them, can cite the same lemmas.
  `AttemptNeverDisplaced` is an action property from the same invariant.
* `AdmissionProofs`, `TestSinkProofs`, `BoardHostProofs`: the owners' properties, for
  any number of connections.  What they share is `Told`: what the arbiter holds of a
  session is what that session last told it.  A session that is not active keeps
  no declaration and no attempt (`Blank`).  A handler calls the arbiter several times, so
  there is one lemma for each call, which says what the call may change of other
  connections (`NoNews`, `Judges`), and one for each handler, which composes them
  (`Activates`).  `FewHeld` counts what the arbiter can hold, and gives `OnePlays`.
  In the sink, the rest is about the worker's queue: a call appended
  (`PostedAppend`) or taken (`PostedTail`) changes what is posted by that call
  only; and about what is left of a connection that has ended: the arbiter holds none
  it was told had ended, whatever the operator still calls on its session.  On the
  board, `LastsAgree` and `ForgottenLeaves` speak of states between handlers;
  `LastFollows` says what a handler between two locks is about to store,
  `Rests` adds the handshake that has matched a record and is yet to be entered, and
  `KnownPresent` says that what is matched or being established is connected.
* `PairingProofs`, the limits: a limit that is checked when an attempt begins and
  charged later is exceeded by what has begun meanwhile.  `LimitsInv` therefore bounds
  each counter together with the attempts that may still charge it (`AllShowing`,
  `AllGuessing`).  `Charges` says what one handler may do to a counter, one lemma
  for each handler that it does (`ReceiveSound`, `MismatchSound`, ...), and
  `ChargesWithin` is the counting.  It needs finitely many connections.
* `PairingProofs`, the two ends: `FlowInv` says of every pair of server and client
  what may be in flight between them.  `Counted`: the activations the client has yet
  to hear make up the difference of the two counters, so an attempt of an older
  activation is told by its index.  `Chained`: what comes first is what the
  client's attempt waits for, and each message may follow the one before it.  While
  the server waits for the client to begin, `Waiting`; once it has, they are in one
  round and what is in flight is one of a few lists (`Together`), or the client has
  gone and its abort comes last (`Gone`).  `RightOf` and `RightAt` follow a right
  code from where it is entered to where it is believed, and `FinalFirst` keeps the
  server's word of its record ahead of the re-handshake that uses it.  A step of the
  server's is `Outcome`, one of the client's `Replies` and `Proves`, whichever
  handler makes it.  The theorems have the hypothesis `"psk" \notin Methods`: the
  client offers `pairing_psk` exactly when the handshake matched the Pairing PSK
  (`pairing_flow.cpp:92-95`), so one handshake never mixes it with codes.  With that
  method no code is entered, `RecordIsProved` says nothing, and `RecordsAgree` is
  refuted by `flow_records`; so nothing true is left out by it.
* `SessionProofs`, the driver: `SleepsOnlyIdle` is not inductive: nothing in it says
  that a tick brought nearer reaches the writer before it waits.  `DriverInv`
  adds `TickNoticed` (a nearer tick leaves `changed` set until the writer has
  taken it) and `Asleep` (the writer waits only with `changed` clear) to
  `TypeOK` and `QueueBounded`.  `SentInOrder` compares neighbours, so it does not
  say what an empty queue is followed by; `OrderInv` numbers every frame from the
  last one sent, and the last one accepted with them.  Numbers are modulo `Cycle`:
  `NumberAdd`, that counting on from a frame's number is counting on from the
  frame, is all the arithmetic there is.  `Flushed` adds to `FlushedFirst` where
  the writer is, since a driver that has ended accepts nothing more.
* `SessionProofs`, the streams: what a frame does to the client depends on every
  frame before it, so `StreamsInv` says where the client will be.  `View` is what of
  the client stream messages concern, `After` what a frame makes of it, `Expected`
  that the frame is none it closes over and no audio of another stream.  `Reaches` is
  a path through the frames in flight, each expected where it arrives, whose end
  `Matches` the server: a sequence of views in place of a recursion.  A call then
  has to show only what its frame does at that end (`Moves`, one lemma a frame:
  `ActivateMoves`, `ArtworkMoves`, ...; `RoadMore`), however much is in flight, and a
  handler that the client moves one view on (`RoadOn`); a call that sends several
  frames is one such move after another.  A client that has closed might find
  audio next that it can read, were it not that the first frame under other keys is
  always the server's hello (`Keyed`, `HeadClosed`).  The input stream goes the other
  way and is ended by either side: `Sourced` says that a client that has it has a
  server that means it to, or an activation on its way that takes the role
  (`Lapses`), which no later one gives back behind the server (`Covered`); and that
  what the server hears last of the stream is what the client has (`Told`), or, if
  it is to hear nothing, that the two agree already.  `MaxDown` is at least one, as
  the server's hello is in flight at first; the other bounds are any numbers.
* `AudioProofs`, the ring: `Inv` records how far each thread's copy has come, that
  the producer's copy stays within the free cells, and that the consumer's
  still lies between the indices.  `CellsApart` is the arithmetic: two indices
  less than `Size` apart are in different cells.  From it no copy touches a cell
  the other thread is still to use.  `FramesInv` adds that the write index, the
  count of what was dropped and the producer's batches are multiples of the frame
  width (`FramesWhole`); how many items a read takes is its caller's choice.  For `IsAQueue`, `HeldIsSpan` says
  that the cells between the indices are a run of consecutive items, so that the
  stores of the indices are `Fifo`'s put, get and drop, and every other step leaves
  the queue as it is (`StepIsQueueStep`).
* `AudioProofs`, the monitor: `StreamInv` counts back from the next frame to be
  submitted: the queue is the last `Len(queue)` frames, the chunk in hand the ones
  before (`QueueInOrder`, `ChunkInOrder`), and the device holds, between silences,
  an ascending run without a gap up to the first frame it has not been given
  (`Upcoming`; `HeldInOrder`).  That position does not move when a chunk is read,
  so a step either hands frames over or drops the oldest, and `Continuous` is kept
  by appending, by taking from the front and by clearing.  The device may under-run
  and fill with silence in the middle of a chunk.  `FlushInv` is about a value f
  and a place: `Above(f)`, nothing on its way is older than f.  A flush waited for
  is asked, under way or made (`Flushes`), and only once it has been made does the
  count move the caller waits for; then `Above(flushMark)` holds and stays, as
  what comes later is newer.
* `ServerProofs`: `PairsOnlyAsked` bounds a count that steps of three actors
  change, so `DueInv` says what each request still unspent is worth: those entered
  for a client (`requested`), for a URL that may turn out to be the client's
  (`requestedAt`), and one the operator's call has looked up and not yet entered
  (`Asked`).  `WorkerInv` is what the worker may rely on after reading under one lock
  and acting under another: the connection has its client still, no attempt has
  begun, and whatever was requested after it looked has its own work posted
  (`Coming`).  `OwedInv` says whose connection a request is left for, through
  connections that are dialled before they have a client.  A session's steps only
  move a connection on (`Evolves`) and never take a request from it, so all of
  those are one argument (`Steady`); the worker's are taken one by one.  The
  assumption that no client id is a URL only keeps the two kinds of request apart.
* `SendspinStoreProofs`: none of the three properties is inductive, since each is
  about flash and a call changes RAM first and blobs later.  `StoreInv` follows
  the call under way: which blobs agree with RAM, are still to be written or were
  refused (`Follows`); what was paired is in RAM too (`PairedInBoth`), as the
  records are next written from there; what was removed is neither in RAM nor in
  the names another call still holds (`StaysGone`); and what a removal has not yet
  written is all that is left of its server (`RemovesAll`, `Going`).  `KeysFirst`
  is why `load()` cannot lose a pairing to a new identity.  The eviction of the
  least recently used record needs that a sequence has a first element of a kind
  (`FirstExists`, by well-foundedness of the naturals).

Every safety property that a passing run checks is proved.  Only model-checked:
the liveness properties, `Finishes`, `AttemptsEnd` and `DrainEndsUnlessStalled`,
since liveness under fairness and ENABLED are out of the prover's reach.

## Not modelled

Audio data, codecs, containers and renderers are pure functions on large data.
The Noise handshake, CPace and the clock filter are arithmetic; the models say
what they decide.  `PlayHead`, which widens a device's counter, tells wraps,
restarts and stale readings apart by magnitude.  Volume, metadata, colour,
controller, visualizer and group messages are state copied from one side to the
other.  The other monitor backends repeat the one modelled over other systems'
calls.

## Plan

1. Groups in `ServerHost`: volume and mute of members that come and go.
2. The Hearth engine's network sink, which feeds several sessions from one clock.
3. `PlayHead` with a small word size.
