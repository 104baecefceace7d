------------------------------ MODULE TestSink ------------------------------
(***************************************************************************)
(* The arbiter's owner in hearth-testsink (class Sink): one reader thread  *)
(* per connection runs the sessions' handlers under one shared lock, a     *)
(* worker thread runs what the handlers post, and the operator's thread    *)
(* resumes or cancels pairing on every connection.  A displaced session is *)
(* told so by the worker, later; a connection that ends is removed by it   *)
(* too, while the operator may still hold its session.                     *)
(***************************************************************************)
EXTENDS Admission

CONSTANTS
    MaxPosted,      \* bound: displacements and ends come while fewer calls are posted
    MaxVisits       \* bound: connections one operator's call matters to

ASSUME SinkAssumption == Nobody \notin Connections

VARIABLES
    posted,         \* posted_: the worker's queue
    ended,          \* connections whose driver has ended and posted remove()
    listed,         \* connections_: what find(), and the operator's calls, see
    removing,       \* the connection remove() has erased and is yet to tell of
    visiting        \* for_each_connection: those the operator's call is yet to visit

sinkVars == <<posted, ended, listed, removing, visiting>>
vars == <<arbiter, session, sinkVars>>

Work == [op : {"displace", "remove"}, id : Connections]
Posted(op, c) == \E i \in 1..Len(posted) : posted[i] = [op |-> op, id |-> c]

\* The driver calls the session until the connection ends or the session closes.
Driven(c) == session[c].phase \in {"handshake", "opening", "active"} /\ c \notin ended

\* Mutation: a displacement is not posted.
DisplacementsLost(ds) == <<>>

\* one verdict displaces at most one connection
Displacements(ds) ==
    IF ds = {} THEN <<>> ELSE <<[op |-> "displace", id |-> CHOOSE d \in ds : TRUE]>>

SinkInit ==
    /\ \E last \in Servers \cup {NoServer} : arbiter = New(last)
    /\ session = [c \in Connections |-> In("absent")]
    /\ posted = <<>> /\ ended = {} /\ listed = {}
    /\ removing = Nobody /\ visiting = {}

----------------------------------------------------------------------------
(* The readers' threads, and the listener's.                               *)

Accept(c) ==
    /\ session[c].phase = "absent"
    /\ session' = [session EXCEPT ![c] = In("handshake")]
    /\ listed' = listed \cup {c}
    /\ UNCHANGED <<arbiter, posted, ended, removing, visiting>>

Activate(c) ==
    /\ Driven(c) /\ session[c].phase # "handshake"
    /\ \E rank \in Ranks : \E att \in Begins(rank) :
          /\ session' = [session EXCEPT ![c] = ActivatedSession(c, rank, att)]
          /\ arbiter' = ActivatedArbiter(c, rank, att)
          /\ Verdict(c, rank).displaced = {} \/ Len(posted) < MaxPosted
          /\ posted' = posted \o Displacements(Verdict(c, rank).displaced)
    /\ UNCHANGED <<ended, listed, removing, visiting>>

SessionStep(c) ==
    /\ Driven(c)
    /\ Handshakes(c) \/ AttemptEnds(c) \/ Close(c)
    /\ UNCHANGED sinkVars

\* The peer drops the connection, or the writer closes it once the session has
\* asked to: the reader thread calls ended(), once.
DriverEnds(c) ==
    /\ session[c].phase # "absent" /\ c \notin ended
    /\ Len(posted) < MaxPosted
    /\ ended' = ended \cup {c}
    /\ posted' = Append(posted, [op |-> "remove", id |-> c])
    /\ UNCHANGED <<arbiter, session, listed, removing, visiting>>

----------------------------------------------------------------------------
(* run_posted: the worker runs one posted call after another, outside the  *)
(* queue's lock.                                                           *)

Takes(op, c) ==
    /\ removing = Nobody
    /\ posted # <<>> /\ Head(posted) = [op |-> op, id |-> c]
    /\ posted' = Tail(posted)

\* displace() calls the session, driven or not, if its connection is still there.
RunDisplace(c) ==
    /\ Takes("displace", c)
    /\ IF c \in listed
         THEN /\ session' = [session EXCEPT ![c] = In("closed")]
              /\ arbiter' = Displaced(arbiter, c)
         ELSE UNCHANGED <<session, arbiter>>
    /\ UNCHANGED <<ended, listed, removing, visiting>>

\* remove(): the connection is erased under the connections' mutex, then the
\* arbiter is told under its own.
RunRemove(c) ==
    /\ Takes("remove", c)
    /\ listed' = listed \ {c}
    /\ removing' = c
    /\ UNCHANGED <<arbiter, session, ended, visiting>>

\* The session goes with the last reference to its connection: the worker's, at
\* the end of remove(), unless the operator is yet to visit it.
TellEnded ==
    /\ removing # Nobody
    /\ arbiter' = Ended(arbiter, removing)
    /\ session' = IF removing \in visiting THEN session
                  ELSE [session EXCEPT ![removing] = In("gone")]
    /\ removing' = Nobody
    /\ UNCHANGED <<posted, ended, listed, visiting>>

\* The operator's reference was the last one; what it has visited is as good as
\* gone.
Destroy(c) ==
    /\ session[c].phase \notin {"absent", "gone"}
    /\ c \notin listed \cup visiting /\ c # removing
    /\ session' = [session EXCEPT ![c] = In("gone")]
    /\ UNCHANGED <<arbiter, sinkVars>>

RunPosted == TellEnded \/ \E c \in Connections : RunDisplace(c) \/ RunRemove(c) \/ Destroy(c)

----------------------------------------------------------------------------
(* The operator's thread: open_window and reset_rounds, which resume what  *)
(* was held back, and cancel_pairing.  Each visits what connections_ held  *)
(* when it began; of connections beyond MaxVisits it changes nothing.      *)

OperatorCalls ==
    /\ visiting = {}
    /\ \E cs \in SUBSET listed \ {{}} : Cardinality(cs) <= MaxVisits /\ visiting' = cs
    /\ UNCHANGED <<arbiter, session, posted, ended, listed, removing>>

\* call() runs resume_pairing() or cancel_pairing() whatever has become of the
\* connection since; either may find nothing to do.
OperatorVisits(c) ==
    /\ c \in visiting
    /\ AttemptBegins(c) \/ AttemptEnds(c) \/ UNCHANGED <<arbiter, session>>
    /\ visiting' = visiting \ {c}
    /\ UNCHANGED <<posted, ended, listed, removing>>

SinkNext ==
    \/ \E c \in Connections :
          Accept(c) \/ Activate(c) \/ SessionStep(c) \/ DriverEnds(c) \/ OperatorVisits(c)
    \/ RunPosted \/ OperatorCalls

SinkSpec == SinkInit /\ [][SinkNext]_vars

----------------------------------------------------------------------------
SinkTypeOK ==
    /\ AdmissionTypeOK /\ NothingCarried
    /\ posted \in Seq(Work) /\ ended \subseteq Connections /\ listed \subseteq Connections
    /\ removing \in Connections \cup {Nobody} /\ visiting \subseteq Connections

Leaving(c) == c \in ended \/ Posted("displace", c)

\* A session that acts as admitted is one the arbiter holds, unless its
\* displacement is already with the worker: a displacement is never lost
\* between the handler that decides it and the thread that carries it out.
ActiveIsHeld == \A c \in Connections : Active(c) /\ ~Leaving(c) => Holds(arbiter, c)

\* One server plays at a time, and a second connection is active only for
\* pairing beside it: no interleaving of activations, re-handshakes and
\* removals leaves two sessions declaring playback once those displaced leave.
OnePlays ==
    /\ Cardinality({c \in Connections : Declares(c, Playback) /\ ~Leaving(c)}) <= 1
    /\ Cardinality({c \in Connections : Active(c) /\ ~Leaving(c)}) <= 2

\* Nothing that happens elsewhere takes a running attempt out of the arbiter: no
\* other connection's activation, end or removal, no displacement decided for
\* another and no call of the operator's.  What does is a step of its own
\* session, or remove() once its own driver has ended.
AttemptLeftAlone ==
    [][\A c \in Connections :
          InProgress(arbiter, c) /\ session'[c] = session[c] =>
              InProgress(arbiter', c) \/ (removing = c /\ c \in ended)]_<<arbiter, session>>
=============================================================================
