----------------------------- MODULE Admission -----------------------------
(***************************************************************************)
(* The sessions of one client (class PlayerSession) as its arbiter sees    *)
(* them: when they ask to be admitted, what they do with the verdict, when *)
(* they report a pairing attempt, and how they leave.  What a message      *)
(* carries besides the activities it declares is left out; so is which     *)
(* activities the matched PSK allows, an inadmissible activation being one *)
(* of the reasons for Close.                                               *)
(*                                                                         *)
(* The operators give the session record and the arbiter after a handler;  *)
(* TestSink and BoardHost own the threads that run them.                   *)
(***************************************************************************)
EXTENDS Arbiter, FiniteSets, Sequences

VARIABLE session

\* "opening" is kHello and kProvisional: established, and not activated since.
\* "gone" is a destroyed session.
Phases == {"absent", "handshake", "opening", "active", "closed", "gone"}

\* attempt_: none, held back by the window or the round limit, in progress, or
\* finished and kept until the next activation.
Attempts == {"none", "held", "running", "finished"}

Sessions == [phase : Phases, rank : Ranks, attempt : Attempts]

\* A session that is not active declares nothing and runs no attempt.
In(phase) == [phase |-> phase, rank |-> None, attempt |-> "none"]

Active(c)       == session[c].phase = "active"
PairingOn(c)    == Active(c) /\ session[c].rank = Pairing
Declares(c, r)  == Active(c) /\ session[c].rank = r

\* Mutation: an attempt's end is not reported.
EndPairingSilently(a, c) == a

\* end_pairing() and report_attempt(): an attempt that was in progress is
\* reported over, whether or not the session still holds one.
EndPairing(a, c) == IF session[c].attempt = "running" THEN Attempt(a, c, FALSE) ELSE a

\* on_activate: the attempt in progress ends before the arbiter is asked.
Verdict(c, rank) ==
    Activation(EndPairing(arbiter, c), c, rank, session[c].phase = "opening")

\* What the activation leaves the session with.  A pairing activation starts
\* an attempt, is held back, or is answered with pair/abort at once.
Begins(rank) == IF rank = Pairing THEN {"held", "running", "finished"} ELSE {"none"}

ActivatedSession(c, rank, att) ==
    IF Verdict(c, rank).admit
      THEN [phase |-> "active", rank |-> rank, attempt |-> att]
      ELSE In("closed")

ActivatedArbiter(c, rank, att) ==
    LET v == Verdict(c, rank)
    IN  IF v.admit /\ att = "running" THEN Attempt(v.arbiter, c, TRUE) ELSE v.arbiter

\* displace(): nothing for a session already closed; otherwise the attempt ends
\* and the session leaves with client/goodbye or pair/abort.
Displaced(a, c) == IF session[c].phase = "closed" THEN a ELSE EndPairing(a, c)

----------------------------------------------------------------------------
(* Session steps that involve neither another session nor the owner.       *)

\* Mutation: a re-handshake forgets to end what the session was doing.
HandshakesCarrying(c) ==
    /\ session[c].phase \in {"handshake", "opening", "active"}
    /\ session' = [session EXCEPT ![c].phase = "opening"]
    /\ UNCHANGED arbiter

\* The first handshake completes, or a re-handshake, over which roles,
\* activities and pairing do not carry (on_rehandshake).
Handshakes(c) ==
    /\ session[c].phase \in {"handshake", "opening", "active"}
    /\ session' = [session EXCEPT ![c] = In("opening")]
    /\ arbiter' = EndPairing(arbiter, c)

\* The operator's action lets a held-back attempt start (resume_pairing).
AttemptBegins(c) ==
    /\ PairingOn(c) /\ session[c].attempt = "held"
    /\ session' = [session EXCEPT ![c].attempt = "running"]
    /\ arbiter' = Attempt(arbiter, c, TRUE)

\* The attempt pairs, is aborted by either side, is cancelled or times out.
AttemptEnds(c) ==
    /\ PairingOn(c) /\ session[c].attempt \in {"held", "running"}
    /\ session' = [session EXCEPT ![c].attempt = "finished"]
    /\ arbiter' = EndPairing(arbiter, c)

\* Any other way a session closes itself.  A goodbye after an inadmissible
\* activation ends the attempt first; a silent close reports nothing.
Close(c) ==
    /\ session[c].phase \in {"handshake", "opening", "active"}
    /\ session' = [session EXCEPT ![c] = In("closed")]
    /\ UNCHANGED arbiter \/ arbiter' = EndPairing(arbiter, c)

OwnStep(c) == Handshakes(c) \/ AttemptBegins(c) \/ AttemptEnds(c) \/ Close(c)

----------------------------------------------------------------------------
AdmissionTypeOK == TypeOK /\ session \in [Connections -> Sessions]

\* No declaration and no attempt outlives the activation it came with: a session
\* that closed or was re-handshaked has neither.
NothingCarried == \A c \in Connections : ~Active(c) => session[c] = In(session[c].phase)

\* What the arbiter believes of an attempt is what the session last reported:
\* it shields a holder only while that holder's session is running one, or
\* closed during one and is about to be removed.
AttemptReported ==
    \A c \in Connections :
        Holds(arbiter, c) /\ session[c].phase # "closed" =>
            (InProgress(arbiter, c) <=> session[c].attempt = "running")

\* No step of another connection, of the worker or of the operator takes a
\* running pairing attempt out of the arbiter: only what happens to its own
\* session does.
AttemptUndisturbed ==
    [][\A c \in Connections :
          InProgress(arbiter, c) /\ session'[c] = session[c] => InProgress(arbiter', c)]_<<arbiter, session>>
=============================================================================
