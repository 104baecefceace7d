----------------------------- MODULE BoardHost -----------------------------
(***************************************************************************)
(* The arbiter's owner on the ESP32 board (class SendspinHost).  The HTTP  *)
(* server's one task runs every session, so a displaced session is told at *)
(* once; what runs beside it is the operator's task, which forgets a       *)
(* server in three separate calls, and power loss.                         *)
(*                                                                         *)
(* The pairing records and the last-playback server are in flash (class    *)
(* SendspinStore); everything else is lost when the board restarts.        *)
(***************************************************************************)
EXTENDS Admission

CONSTANTS
    MaxConnections,     \* SendspinHostConfig::max_connections
    Forgettable         \* the servers the operator may forget

ASSUME BoardAssumption ==
    MaxConnections \in Nat \ {0} /\ Forgettable \subseteq Servers

VARIABLES
    records,        \* servers with a pairing record in the store
    stored,         \* the store's last_playback_
    longTerm,       \* connections whose handshake matched a record
    task,           \* where the server's task is inside a handler
    operator,       \* where the operator's task is inside forget_server
    prune,          \* pending_prune, with pending_work queued
    unpaired        \* history: servers that took their own record away, until the
                    \* next prune or pairing

flash == <<records, stored>>
vars == <<arbiter, session, flash, longTerm, task, operator, prune, unpaired>>

Idle == [at |-> "idle"]
Tasks == {Idle, [at |-> "readLast"]}
             \cup [at : {"establish"}, id : Connections, matched : BOOLEAN]
             \cup [at : {"writeLast"}, last : Servers]
Operators == {Idle, [at |-> "prune"]} \cup [at : {"forget"}, server : Servers]

Present(c) == session[c].phase # "absent"
Open       == {c \in Connections : Present(c)}

Boot(last) ==
    /\ arbiter' = New(last)
    /\ session' = [c \in Connections |-> In("absent")]
    /\ longTerm' = {} /\ task' = Idle /\ operator' = Idle /\ prune' = FALSE /\ unpaired' = {}

BoardInit ==
    /\ arbiter = New(NoServer) /\ stored = NoServer
    /\ session = [c \in Connections |-> In("absent")]
    /\ records \in SUBSET Servers
    /\ longTerm = {} /\ task = Idle /\ operator = Idle /\ prune = FALSE /\ unpaired = {}

----------------------------------------------------------------------------
(* The server's task.  A handler starts only when the last one is over.    *)

Connect(c) ==
    /\ task = Idle /\ session[c].phase = "absent"
    /\ Cardinality(Open) < MaxConnections
    /\ session' = [session EXCEPT ![c] = In("handshake")]
    /\ UNCHANGED <<arbiter, flash, longTerm, task, operator, prune, unpaired>>

\* The responder looks the server's PSK up in the store, whose lock it then
\* drops, and the handler goes on to establish the keys.  A re-handshake ends
\* what the session was doing.
Handshake(c) ==
    /\ task = Idle
    /\ \E matched \in BOOLEAN :
          /\ matched => ServerOf[c] \in records
          /\ task' = [at |-> "establish", id |-> c, matched |-> matched]
    /\ Handshakes(c)
    /\ UNCHANGED <<flash, longTerm, operator, prune, unpaired>>

Establish ==
    /\ task.at = "establish"
    /\ longTerm' = IF task.matched THEN longTerm \cup {task.id} ELSE longTerm \ {task.id}
    /\ task' = Idle
    /\ UNCHANGED <<arbiter, session, flash, operator, prune, unpaired>>

\* Mutation: a displaced connection is not told.
LeavingUntold(c, rank) == {}

\* on_activation: the connections the arbiter displaces leave at once.  Their
\* own reports do not reach it: it no longer holds them.
Leaving(c, rank) == Verdict(c, rank).displaced \ {c}

\* A long-term session is not admissible for pairing.
Activate(c) ==
    /\ task = Idle /\ session[c].phase \in {"opening", "active"}
    /\ \E rank \in (IF c \in longTerm THEN {None, Playback} ELSE Ranks) :
       \E att \in Begins(rank) :
          /\ session' = [d \in Connections |->
                            IF d = c THEN ActivatedSession(c, rank, att)
                            ELSE IF d \in Leaving(c, rank) THEN In("closed")
                            ELSE session[d]]
          /\ arbiter' = ActivatedArbiter(c, rank, att)
    /\ task' = [at |-> "readLast"]
    /\ UNCHANGED <<flash, longTerm, operator, prune, unpaired>>

\* Mutation: the handler writes what it read, be it no server.
ReadLastUnchecked ==
    /\ task.at = "readLast"
    /\ task' = [at |-> "writeLast", last |-> arbiter.lastPlayback]
    /\ UNCHANGED <<arbiter, session, flash, longTerm, operator, prune, unpaired>>

\* The same handler reads last_playback() from the arbiter, then gives it to
\* the store: two locks, each held for its own call only.
ReadLast ==
    /\ task.at = "readLast"
    /\ task' = IF arbiter.lastPlayback = NoServer THEN Idle
               ELSE [at |-> "writeLast", last |-> arbiter.lastPlayback]
    /\ UNCHANGED <<arbiter, session, flash, longTerm, operator, prune, unpaired>>

\* Mutation: a server already stored is not replaced.
WriteLastOnce ==
    /\ task.at = "writeLast"
    /\ stored' = IF stored = NoServer THEN task.last ELSE stored
    /\ task' = Idle
    /\ UNCHANGED <<arbiter, session, records, longTerm, operator, prune, unpaired>>

WriteLast ==
    /\ task.at = "writeLast"
    /\ stored' = task.last
    /\ task' = Idle
    /\ UNCHANGED <<arbiter, session, records, longTerm, operator, prune, unpaired>>

SessionStep(c) ==
    /\ task = Idle
    /\ AttemptBegins(c) \/ AttemptEnds(c) \/ Close(c)
    /\ UNCHANGED <<flash, longTerm, task, operator, prune, unpaired>>

\* Mutation: only activated connections keep the record they rest on.
InUseActivated(c) == {ServerOf[d] : d \in {d \in longTerm \ {c} : Active(d)}}

\* The servers whose records the other open connections rest on.
InUse(c) == {ServerOf[d] : d \in {d \in longTerm \ {c} : session[d].phase # "closed"}}

\* on_paired: the attempt ends with a record of the server.  A store that is full
\* of records, these servers' and others, gives up one that is not in use; it
\* holds more records than the board has connections.
Paired(c) ==
    /\ task = Idle /\ session[c].attempt = "running" /\ AttemptEnds(c)
    /\ \E evicted \in SUBSET (records \ InUse(c)) :
          /\ Cardinality(evicted) <= IF ServerOf[c] \in records THEN 0 ELSE 1
          /\ records' = (records \ evicted) \cup {ServerOf[c]}
    /\ unpaired' = unpaired \ {ServerOf[c]}
    /\ UNCHANGED <<stored, longTerm, task, operator, prune>>

\* server/unpair: on_unpaired takes the record, and the server's mark as the last
\* to play, out of the store, and this connection leaves.  Neither the arbiter
\* nor the server's other connections are told.
Unpair(c) ==
    /\ task = Idle /\ c \in longTerm /\ session[c].phase \in {"opening", "active"}
    /\ records' = records \ {ServerOf[c]}
    /\ IF ServerOf[c] \in records
         THEN /\ stored' = IF stored = ServerOf[c] THEN NoServer ELSE stored
              /\ unpaired' = unpaired \cup {ServerOf[c]}
         ELSE UNCHANGED <<stored, unpaired>>
    /\ session' = [session EXCEPT ![c] = In("closed")]
    /\ UNCHANGED <<arbiter, longTerm, task, operator, prune>>

\* free_connection: the socket has closed, whoever closed it.  Nothing refers to
\* its id any more, so that id can stand for the next connection's.
FreeConnection(c) ==
    /\ task = Idle /\ Present(c)
    /\ session' = [session EXCEPT ![c] = In("absent")]
    /\ arbiter' = Ended(arbiter, c)
    /\ longTerm' = longTerm \ {c}
    /\ UNCHANGED <<flash, task, operator, prune, unpaired>>

\* pending_work: long-term connections without a record are told goodbye.
PendingWork ==
    /\ task = Idle /\ prune
    /\ prune' = FALSE /\ unpaired' = {}
    /\ session' = [c \in Connections |->
                      IF c \in longTerm /\ Present(c) /\ ServerOf[c] \notin records
                        THEN In("closed") ELSE session[c]]
    /\ UNCHANGED <<arbiter, flash, longTerm, task, operator>>

----------------------------------------------------------------------------
(* The operator's task: forget_server, one step per lock it takes.         *)

RemoveRecord(s) ==
    /\ operator = Idle /\ s \in records
    /\ records' = records \ {s}
    /\ stored' = IF stored = s THEN NoServer ELSE stored
    /\ operator' = [at |-> "forget", server |-> s]
    /\ UNCHANGED <<arbiter, session, longTerm, task, prune, unpaired>>

ArbiterForget ==
    /\ operator.at = "forget"
    /\ arbiter' = Forget(arbiter, operator.server)
    /\ operator' = [at |-> "prune"]
    /\ UNCHANGED <<session, flash, longTerm, task, prune, unpaired>>

QueuePrune ==
    /\ operator.at = "prune"
    /\ prune' = TRUE
    /\ operator' = Idle
    /\ UNCHANGED <<arbiter, session, flash, longTerm, task, unpaired>>

\* Power loss, or a restart: the store is what is left.
Restart == Boot(stored) /\ UNCHANGED flash

ServerTask ==
    \/ Establish \/ ReadLast \/ WriteLast \/ PendingWork
    \/ \E c \in Connections :
          \/ Connect(c) \/ Handshake(c) \/ Activate(c)
          \/ SessionStep(c) \/ Paired(c) \/ Unpair(c) \/ FreeConnection(c)

OperatorTask == ArbiterForget \/ QueuePrune \/ \E s \in Forgettable : RemoveRecord(s)

BoardNext == ServerTask \/ OperatorTask \/ Restart

BoardSpec == BoardInit /\ [][BoardNext]_vars

----------------------------------------------------------------------------
BoardTypeOK ==
    /\ AdmissionTypeOK
    /\ records \subseteq Servers /\ stored \in Servers \cup {NoServer}
    /\ longTerm \subseteq Connections
    /\ task \in Tasks /\ operator \in Operators /\ prune \in BOOLEAN
    /\ unpaired \subseteq Servers

\* Displacing at once, the board never runs a session as admitted that the
\* arbiter does not hold.
ActiveIsHeld == \A c \in Connections : Active(c) => Holds(arbiter, c)

\* One server plays on the board, with at most a pairing connection beside it.
OnePlays ==
    /\ Cardinality({c \in Connections : Declares(c, Playback)}) <= 1
    /\ Cardinality({c \in Connections : Active(c)}) <= 2

\* Once a handler is over, the flash and the arbiter never name two different
\* servers as the last to play, so a restart never puts another server in the
\* place of the one the board knew: a server forgotten, or unpairing itself,
\* between the handler's two locks at worst leaves one of them without a name.
LastsAgree ==
    task.at \notin {"readLast", "writeLast"} =>
        arbiter.lastPlayback = stored \/ NoServer \in {arbiter.lastPlayback, stored}

\* Once forget_server's prune has run, no connection is left that rests on a
\* record the store no longer has, although a handshake may have read that
\* record just before it went, and although a pairing may have evicted one:
\* what is left are other connections of a server that unpaired itself since.
ForgottenLeaves ==
    operator = Idle /\ ~prune =>
        \A c \in longTerm :
            ServerOf[c] \in records \cup unpaired \/ session[c].phase = "closed"
=============================================================================
