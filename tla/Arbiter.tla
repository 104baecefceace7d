------------------------------ MODULE Arbiter ------------------------------
(***************************************************************************)
(* Admission between the servers connected to one client: which connection *)
(* the client holds, which one it rejects and which one an incoming        *)
(* connection displaces (class Arbiter).                                   *)
(*                                                                         *)
(* The arbiter only decides; its owners are TestSink and BoardHost.  The   *)
(* methods are state functions from an arbiter to an arbiter, because an   *)
(* owner calls several of them in one handler; every method runs under the *)
(* arbiter's own mutex, so each call is one step.  Spec lets an owner call *)
(* them in any order with any arguments.                                   *)
(***************************************************************************)
EXTENDS Integers

CONSTANTS
    Connections,    \* connection ids (Arbiter::Id), never reused by an owner
    Servers,        \* server keys
    ServerOf,       \* the key a connection's handshake authenticated
    Nobody,         \* std::nullopt for a held connection
    NoServer        \* std::nullopt for the last-playback server

\* Arbiter::Rank, in its own order.
None     == 0
Pairing  == 1
Playback == 2
Ranks    == {None, Pairing, Playback}

Held == [id : Connections, rank : Ranks, attempt : BOOLEAN]

ASSUME ArbiterAssumption ==
    /\ ServerOf \in [Connections -> Servers]
    /\ Nobody \notin Held
    /\ NoServer \notin Servers

VARIABLE arbiter

ArbiterStates == [admitted     : Held \cup {Nobody},
                  beside       : Held \cup {Nobody},
                  lastPlayback : Servers \cup {NoServer}]

IsAdmitted(a, c) == a.admitted # Nobody /\ a.admitted.id = c
IsBeside(a, c)   == a.beside # Nobody /\ a.beside.id = c
Holds(a, c)      == IsAdmitted(a, c) \/ IsBeside(a, c)

New(last) == [admitted |-> Nobody, beside |-> Nobody, lastPlayback |-> last]

----------------------------------------------------------------------------
(* The methods.  A verdict is the arbiter afterwards, whether the          *)
(* connection is admitted, and the connections it displaces (none or one). *)

Rejected(a)     == [arbiter |-> a, admit |-> FALSE, displaced |-> {}]
Admitted(a, ds) == [arbiter |-> a, admit |-> TRUE, displaced |-> ds]

\* Mutation: the last-playback server is not kept.
HoldOnly(a, h) == [a EXCEPT !.admitted = h]

Hold(a, h) ==
    [a EXCEPT !.admitted = h,
              !.lastPlayback = IF h.rank = Playback THEN ServerOf[h.id] ELSE @]

IsLast(a, h) == a.lastPlayback = ServerOf[h.id]

\* Mutation: a pairing attempt does not protect its connection.
TakesOverAttempt(a, h) ==
    IF h.rank = None /\ a.admitted.rank = None
      THEN IsLast(a, h) /\ ~IsLast(a, a.admitted)
      ELSE h.rank >= a.admitted.rank

\* With nothing declared on either side, only the last-playback server takes
\* the client, and only from a holder that is not that server.
TakesOver(a, h) ==
    /\ ~a.admitted.attempt
    /\ IF h.rank = None /\ a.admitted.rank = None
         THEN IsLast(a, h) /\ ~IsLast(a, a.admitted)
         ELSE h.rank >= a.admitted.rank

GoesBeside(a, h) ==
    /\ ~a.admitted.attempt
    /\ a.admitted.rank = Playback
    /\ h.rank = Pairing
    /\ a.beside = Nobody

Incoming(a, h) ==
    IF a.admitted = Nobody    THEN Admitted(Hold(a, h), {})
    ELSE IF GoesBeside(a, h)  THEN Admitted([a EXCEPT !.beside = h], {})
    ELSE IF TakesOver(a, h)   THEN Admitted(Hold(a, h), {a.admitted.id})
    ELSE Rejected(a)

\* Mutation: a connection held beside changes its declaration unarbitrated.
ActivationInPlace(a, c, rank, first) ==
    LET arriving == [id |-> c, rank |-> rank, attempt |-> FALSE]
    IN  IF first /\ ~Holds(a, c) THEN Incoming(a, arriving)
        ELSE IF IsAdmitted(a, c) THEN Admitted(Hold(a, arriving), {})
        ELSE IF IsBeside(a, c) THEN Admitted([a EXCEPT !.beside = arriving], {})
        ELSE Rejected(a)

\* A connection already held is not arbitrated again, even when a re-handshake
\* restarted its activations; one held beside is, once it drops pairing.
Activation(a, c, rank, first) ==
    LET arriving == [id |-> c, rank |-> rank, attempt |-> FALSE]
    IN  IF first /\ ~Holds(a, c) THEN Incoming(a, arriving)
        ELSE IF IsAdmitted(a, c) THEN
            Admitted(Hold(a, [arriving EXCEPT !.attempt = a.admitted.attempt]), {})
        ELSE IF IsBeside(a, c) /\ rank = Pairing THEN Admitted(a, {})
        ELSE IF IsBeside(a, c) THEN Incoming([a EXCEPT !.beside = Nobody], arriving)
        ELSE Rejected(a)

Attempt(a, c, inProgress) ==
    IF IsAdmitted(a, c)    THEN [a EXCEPT !.admitted.attempt = inProgress]
    ELSE IF IsBeside(a, c) THEN [a EXCEPT !.beside.attempt = inProgress]
    ELSE a

\* Mutation: the connection held beside stays there alone.
EndedAlone(a, c) ==
    IF IsAdmitted(a, c)    THEN [a EXCEPT !.admitted = Nobody]
    ELSE IF IsBeside(a, c) THEN [a EXCEPT !.beside = Nobody]
    ELSE a

\* The connection held beside takes the place of an admitted one that closes.
Ended(a, c) ==
    IF IsAdmitted(a, c)    THEN [a EXCEPT !.admitted = a.beside, !.beside = Nobody]
    ELSE IF IsBeside(a, c) THEN [a EXCEPT !.beside = Nobody]
    ELSE a

Forget(a, s) == IF a.lastPlayback = s THEN [a EXCEPT !.lastPlayback = NoServer] ELSE a

----------------------------------------------------------------------------
Init == \E last \in Servers \cup {NoServer} : arbiter = New(last)

CallActivation(c) ==
    \E rank \in Ranks, first \in BOOLEAN :
        arbiter' = Activation(arbiter, c, rank, first).arbiter
CallAttempt(c) == \E p \in BOOLEAN : arbiter' = Attempt(arbiter, c, p)
CallEnded(c)   == arbiter' = Ended(arbiter, c)
CallForget(s)  == arbiter' = Forget(arbiter, s)

Next == \/ \E c \in Connections : CallActivation(c) \/ CallAttempt(c) \/ CallEnded(c)
        \/ \E s \in Servers : CallForget(s)

Spec == Init /\ [][Next]_arbiter

----------------------------------------------------------------------------
TypeOK == arbiter \in ArbiterStates

\* A connection is never held beside nobody, never beside itself, and is held
\* beside only for pairing: whatever the order of the calls, ended() and a
\* beside connection's re-arbitration leave exactly one holder.
BesideAHolder ==
    arbiter.beside # Nobody =>
        /\ arbiter.admitted # Nobody
        /\ arbiter.beside.id # arbiter.admitted.id
        /\ arbiter.beside.rank = Pairing

\* A holder declaring playback is the last-playback server, unless the
\* operator has forgotten that server since.
LastWasHolder ==
    arbiter.admitted # Nobody /\ arbiter.admitted.rank = Playback =>
        arbiter.lastPlayback \in {ServerOf[arbiter.admitted.id], NoServer}

InProgress(a, c) == \/ IsAdmitted(a, c) /\ a.admitted.attempt
                    \/ IsBeside(a, c) /\ a.beside.attempt

\* A pairing attempt in progress is never displaced: the connection running
\* it stays held until that connection ends, re-activates, or ends the attempt.
AttemptKept ==
    [][\A c \in Connections :
          InProgress(arbiter, c) =>
              \/ InProgress(arbiter', c)
              \/ CallEnded(c) \/ CallActivation(c) \/ CallAttempt(c)]_arbiter
=============================================================================
