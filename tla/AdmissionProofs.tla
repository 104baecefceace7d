-------------------------- MODULE AdmissionProofs --------------------------
(***************************************************************************)
(* The arbiter's type correctness and safety, for any set of connections   *)
(* and servers and any order of the calls; then what it and a session say  *)
(* of each other, for both owners: the arbiter holds a session as what it  *)
(* last declared and reported.  A call for one connection says nothing new *)
(* of another, and lets go of another only by naming it displaced.         *)
(***************************************************************************)
EXTENDS Admission, FiniteSetTheorems, TLAPS

\* The safety invariant of one arbiter value.  It is inductive as it stands:
\* each method keeps it for every arbiter it holds of.
ArbiterInv(a) ==
    /\ a \in ArbiterStates
    /\ a.beside # Nobody =>
           /\ a.admitted # Nobody
           /\ a.beside.id # a.admitted.id
           /\ a.beside.rank = Pairing
    /\ a.admitted # Nobody /\ a.admitted.rank = Playback =>
           a.lastPlayback \in {ServerOf[a.admitted.id], NoServer}

\* No attempt in progress in a, but the ones of the connections in cs, is lost in b.
Keeps(a, b, cs) == \A c \in Connections \ cs : InProgress(a, c) => InProgress(b, c)

\* Holding h in place of nobody, of itself or of a holder without an attempt.
LEMMA HoldKeeps ==
    ASSUME NEW a, ArbiterInv(a), NEW h \in Held,
           ~IsBeside(a, h.id),
           a.admitted # Nobody => a.admitted.id = h.id \/ ~a.admitted.attempt
    PROVE  ArbiterInv(Hold(a, h)) /\ Keeps(a, Hold(a, h), {h.id})
<1> USE ArbiterAssumption
<1>1. h.id \in Connections /\ h.rank \in Ranks /\ ServerOf[h.id] \in Servers
  BY DEF Held
<1>2. /\ Hold(a, h) \in ArbiterStates
      /\ Hold(a, h).admitted = h
      /\ Hold(a, h).beside = a.beside
      /\ h.rank = Playback => Hold(a, h).lastPlayback = ServerOf[h.id]
  BY <1>1 DEF Hold, ArbiterInv, ArbiterStates
<1>3. h # Nobody
  OBVIOUS
<1>4. ArbiterInv(Hold(a, h))
  BY <1>2, <1>3 DEF ArbiterInv, IsBeside
<1>5. Keeps(a, Hold(a, h), {h.id})
  BY <1>2 DEF Keeps, InProgress, IsAdmitted, IsBeside
<1> QED
  BY <1>4, <1>5

\* Incoming keeps the invariant and every attempt in progress.
LEMMA IncomingKeeps ==
    ASSUME NEW a, ArbiterInv(a), NEW h \in Held, ~Holds(a, h.id)
    PROVE  /\ ArbiterInv(Incoming(a, h).arbiter)
           /\ Keeps(a, Incoming(a, h).arbiter, {h.id})
<1> USE ArbiterAssumption
<1>1. CASE a.admitted = Nobody
  BY <1>1, HoldKeeps DEF Incoming, Admitted, Holds
<1>2. CASE a.admitted # Nobody /\ GoesBeside(a, h)
  <2>1. Incoming(a, h).arbiter = [a EXCEPT !.beside = h]
    BY <1>2 DEF Incoming, Admitted
  <2>2. ArbiterInv([a EXCEPT !.beside = h])
    BY <1>2 DEF GoesBeside, ArbiterInv, ArbiterStates, Holds, IsAdmitted, IsBeside
  <2>3. Keeps(a, [a EXCEPT !.beside = h], {h.id})
    BY <1>2 DEF GoesBeside, Keeps, ArbiterInv, ArbiterStates, InProgress, IsAdmitted, IsBeside
  <2> QED
    BY <2>1, <2>2, <2>3
<1>3. CASE a.admitted # Nobody /\ ~GoesBeside(a, h) /\ TakesOver(a, h)
  <2>1. Incoming(a, h).arbiter = Hold(a, h)
    BY <1>3 DEF Incoming, Admitted
  <2> QED
    BY <1>3, <2>1, HoldKeeps DEF TakesOver, Holds
<1>4. CASE a.admitted # Nobody /\ ~GoesBeside(a, h) /\ ~TakesOver(a, h)
  BY <1>4 DEF Incoming, Rejected, Keeps
<1> QED
  BY <1>1, <1>2, <1>3, <1>4

LEMMA ActivationKeeps ==
    ASSUME NEW a, ArbiterInv(a), NEW c \in Connections, NEW rank \in Ranks,
           NEW first \in BOOLEAN
    PROVE  /\ ArbiterInv(Activation(a, c, rank, first).arbiter)
           /\ Keeps(a, Activation(a, c, rank, first).arbiter, {c})
<1> USE ArbiterAssumption
<1> DEFINE arriving == [id |-> c, rank |-> rank, attempt |-> FALSE]
           again    == [id |-> c, rank |-> rank, attempt |-> a.admitted.attempt]
           alone    == [a EXCEPT !.beside = Nobody]
<1>1. arriving \in Held /\ arriving.id = c
  BY DEF Held
<1>2. CASE first /\ ~Holds(a, c)
  <2>1. Activation(a, c, rank, first) = Incoming(a, arriving)
    BY <1>2 DEF Activation
  <2> QED
    BY <1>1, <1>2, <2>1, IncomingKeeps
<1>3. CASE IsAdmitted(a, c)
  <2>1. Activation(a, c, rank, first).arbiter = Hold(a, again)
    BY <1>3 DEF Activation, Admitted, Holds
  <2>2. again \in Held /\ again.id = c
    BY <1>3 DEF Held, IsAdmitted, ArbiterInv, ArbiterStates
  <2>3. ~IsBeside(a, c) /\ a.admitted.id = c
    BY <1>3 DEF IsAdmitted, IsBeside, ArbiterInv
  <2> QED
    BY <2>1, <2>2, <2>3, HoldKeeps
<1>4. CASE ~IsAdmitted(a, c) /\ IsBeside(a, c) /\ rank = Pairing
  BY <1>4 DEF Activation, Admitted, Holds, Keeps
<1>5. CASE ~IsAdmitted(a, c) /\ IsBeside(a, c) /\ rank # Pairing
  <2>1. Activation(a, c, rank, first) = Incoming(alone, arriving)
    BY <1>5 DEF Activation, Holds
  <2>2. /\ alone \in ArbiterStates
        /\ alone.beside = Nobody
        /\ alone.admitted = a.admitted
        /\ alone.lastPlayback = a.lastPlayback
    BY DEF ArbiterInv, ArbiterStates
  <2>3. ArbiterInv(alone) /\ ~Holds(alone, c)
    BY <1>5, <2>2 DEF ArbiterInv, Holds, IsAdmitted, IsBeside
  <2>4. Keeps(a, alone, {c})
    BY <1>5, <2>2 DEF Keeps, InProgress, IsAdmitted, IsBeside
  <2>5. /\ ArbiterInv(Incoming(alone, arriving).arbiter)
        /\ Keeps(alone, Incoming(alone, arriving).arbiter, {c})
    BY <1>1, <2>3, IncomingKeeps
  <2> QED
    BY <2>1, <2>4, <2>5 DEF Keeps
<1>6. CASE ~Holds(a, c) /\ ~first
  BY <1>6 DEF Activation, Holds, Rejected, Keeps
<1> QED
  BY <1>2, <1>3, <1>4, <1>5, <1>6 DEF Holds

LEMMA AttemptKeeps ==
    ASSUME NEW a, ArbiterInv(a), NEW c \in Connections, NEW p \in BOOLEAN
    PROVE  ArbiterInv(Attempt(a, c, p)) /\ Keeps(a, Attempt(a, c, p), {c})
<1> USE ArbiterAssumption
<1>1. CASE IsAdmitted(a, c)
  <2>1. Attempt(a, c, p) = [a EXCEPT !.admitted = [@ EXCEPT !.attempt = p]]
    BY <1>1 DEF Attempt
  <2>2. [a.admitted EXCEPT !.attempt = p] \in Held
    BY <1>1 DEF IsAdmitted, ArbiterInv, ArbiterStates, Held
  <2>3. /\ [a.admitted EXCEPT !.attempt = p].id = a.admitted.id
        /\ [a.admitted EXCEPT !.attempt = p].rank = a.admitted.rank
    BY <1>1 DEF IsAdmitted, ArbiterInv, ArbiterStates, Held
  <2> QED
    BY <1>1, <2>1, <2>2, <2>3
    DEF ArbiterInv, ArbiterStates, Keeps, InProgress, IsAdmitted, IsBeside
<1>2. CASE ~IsAdmitted(a, c) /\ IsBeside(a, c)
  <2>1. Attempt(a, c, p) = [a EXCEPT !.beside = [@ EXCEPT !.attempt = p]]
    BY <1>2 DEF Attempt
  <2>2. [a.beside EXCEPT !.attempt = p] \in Held
    BY <1>2 DEF IsBeside, ArbiterInv, ArbiterStates, Held
  <2>3. /\ [a.beside EXCEPT !.attempt = p].id = a.beside.id
        /\ [a.beside EXCEPT !.attempt = p].rank = a.beside.rank
    BY <1>2 DEF IsBeside, ArbiterInv, ArbiterStates, Held
  <2> QED
    BY <1>2, <2>1, <2>2, <2>3
    DEF ArbiterInv, ArbiterStates, Keeps, InProgress, IsAdmitted, IsBeside
<1>3. CASE ~Holds(a, c)
  BY <1>3 DEF Attempt, Holds, Keeps
<1> QED
  BY <1>1, <1>2, <1>3 DEF Holds

LEMMA EndedKeeps ==
    ASSUME NEW a, ArbiterInv(a), NEW c \in Connections
    PROVE  ArbiterInv(Ended(a, c)) /\ Keeps(a, Ended(a, c), {c})
<1> USE ArbiterAssumption
<1>1. CASE IsAdmitted(a, c)
  <2>1. Ended(a, c) = [a EXCEPT !.admitted = a.beside, !.beside = Nobody]
    BY <1>1 DEF Ended
  <2>2. /\ Ended(a, c) \in ArbiterStates
        /\ Ended(a, c).admitted = a.beside
        /\ Ended(a, c).beside = Nobody
    BY <2>1 DEF ArbiterInv, ArbiterStates
  <2> QED
    BY <1>1, <2>2 DEF ArbiterInv, Keeps, InProgress, IsAdmitted, IsBeside, Pairing, Playback
<1>2. CASE ~IsAdmitted(a, c) /\ IsBeside(a, c)
  <2>1. Ended(a, c) = [a EXCEPT !.beside = Nobody]
    BY <1>2 DEF Ended
  <2> QED
    BY <1>2, <2>1 DEF ArbiterInv, ArbiterStates, Keeps, InProgress, IsAdmitted, IsBeside
<1>3. CASE ~Holds(a, c)
  BY <1>3 DEF Ended, Holds, Keeps
<1> QED
  BY <1>1, <1>2, <1>3 DEF Holds

LEMMA ForgetKeeps ==
    ASSUME NEW a, ArbiterInv(a), NEW s \in Servers
    PROVE  ArbiterInv(Forget(a, s)) /\ Keeps(a, Forget(a, s), {})
BY ArbiterAssumption
DEF Forget, ArbiterInv, ArbiterStates, Keeps, InProgress, IsAdmitted, IsBeside

----------------------------------------------------------------------------
(* The arbiter's own specification.                                        *)

Inv == ArbiterInv(arbiter)

LEMMA InitInv == Init => Inv
BY ArbiterAssumption DEF Init, New, Inv, ArbiterInv, ArbiterStates

\* Every call keeps the invariant and the attempts of the other connections.
LEMMA NextKeeps ==
    ASSUME Inv, [Next]_arbiter
    PROVE  /\ Inv'
           /\ \A c \in Connections :
                 InProgress(arbiter, c) =>
                     \/ InProgress(arbiter', c)
                     \/ CallEnded(c) \/ CallActivation(c) \/ CallAttempt(c)
<1> DEFINE Kept == \A c \in Connections :
                     InProgress(arbiter, c) =>
                         \/ InProgress(arbiter', c)
                         \/ CallEnded(c) \/ CallActivation(c) \/ CallAttempt(c)
<1>1. ASSUME NEW c \in Connections, CallActivation(c)
      PROVE  Inv' /\ Kept
  BY <1>1, ActivationKeeps DEF Inv, CallActivation, Keeps
<1>2. ASSUME NEW c \in Connections, CallAttempt(c)
      PROVE  Inv' /\ Kept
  BY <1>2, AttemptKeeps DEF Inv, CallAttempt, Keeps
<1>3. ASSUME NEW c \in Connections, CallEnded(c)
      PROVE  Inv' /\ Kept
  BY <1>3, EndedKeeps DEF Inv, CallEnded, Keeps
<1>4. ASSUME NEW s \in Servers, CallForget(s)
      PROVE  Inv' /\ Kept
  BY <1>4, ForgetKeeps DEF Inv, CallForget, Keeps
<1>5. CASE UNCHANGED arbiter
  BY <1>5 DEF Inv
<1> QED
  BY <1>1, <1>2, <1>3, <1>4, <1>5 DEF Next

\* The arbiter's state stays well formed, whatever calls its owner makes.
THEOREM TypeCorrect == Spec => []TypeOK
<1>1. Inv => TypeOK
  BY DEF Inv, ArbiterInv, TypeOK
<1> QED
  BY <1>1, InitInv, NextKeeps, PTL DEF Spec

\* No connection is held beside nobody, beside itself, or for anything but
\* pairing (incoming, ended and the re-arbitration of a beside connection).
THEOREM BesideAlwaysAHolder == Spec => []BesideAHolder
<1>1. Inv => BesideAHolder
  BY DEF Inv, ArbiterInv, BesideAHolder
<1> QED
  BY <1>1, InitInv, NextKeeps, PTL DEF Spec

\* A playback holder is the last-playback server unless it was forgotten.
THEOREM LastAlwaysWasHolder == Spec => []LastWasHolder
<1>1. Inv => LastWasHolder
  BY DEF Inv, ArbiterInv, LastWasHolder
<1> QED
  BY <1>1, InitInv, NextKeeps, PTL DEF Spec

\* A pairing attempt in progress is never displaced by another connection.
THEOREM AttemptNeverDisplaced == Spec => AttemptKept
<1>1. Inv /\ [Next]_arbiter =>
        [\A c \in Connections :
            InProgress(arbiter, c) =>
                \/ InProgress(arbiter', c)
                \/ CallEnded(c) \/ CallActivation(c) \/ CallAttempt(c)]_arbiter
  BY NextKeeps
<1> QED
  BY <1>1, InitInv, NextKeeps, PTL DEF Spec, AttemptKept

----------------------------------------------------------------------------
(* The sessions.                                                           *)

RankIn(a, c) == IF IsAdmitted(a, c) THEN a.admitted.rank ELSE a.beside.rank

\* What b holds of c, a held of it.
NoNews(a, b, c) ==
    Holds(b, c) => /\ Holds(a, c)
                   /\ InProgress(b, c) <=> InProgress(a, c)
                   /\ RankIn(b, c) = RankIn(a, c)

\* What the arbiter a holds of connection c is what its session s told it.
Told(a, s, c) ==
    Holds(a, c) =>
        /\ s.phase \notin {"absent", "gone"}
        /\ s.phase # "closed" => (InProgress(a, c) <=> s.attempt = "running")
        /\ s.phase = "active" => s.rank = RankIn(a, c)

Blank(s) == s.phase # "active" => s = In(s.phase)

AdmissionInv ==
    /\ ArbiterInv(arbiter)
    /\ session \in [Connections -> Sessions]
    /\ \A c \in Connections : Told(arbiter, session[c], c) /\ Blank(session[c])

LEMMA InType ==
    \A p \in Phases : In(p) \in Sessions /\ Blank(In(p)) /\ In(p).phase = p
                      /\ In(p).attempt = "none" /\ In(p).rank = None
BY DEF In, Sessions, Blank, Phases, Ranks, Attempts

\* A session is told of, whatever it was, once closed.
LEMMA ClosedTold ==
    ASSUME NEW a, NEW c PROVE Told(a, In("closed"), c)
BY DEF Told, In

LEMMA ToldKept ==
    ASSUME NEW a, NEW b, NEW s, NEW c, Told(a, s, c), NoNews(a, b, c)
    PROVE  Told(b, s, c)
BY DEF Told, NoNews

----------------------------------------------------------------------------
(* The calls.                                                              *)

\* b is a, but for the attempt it holds of c.
SameButAttempt(a, b, c) ==
    /\ ArbiterInv(b) /\ b.lastPlayback = a.lastPlayback
    /\ \A d \in Connections : (Holds(b, d) <=> Holds(a, d)) /\ RankIn(b, d) = RankIn(a, d)
    /\ \A d \in Connections \ {c} : InProgress(b, d) <=> InProgress(a, d)

\* attempt() changes what is in progress on its connection, if held.
LEMMA AttemptFacts ==
    ASSUME NEW a, ArbiterInv(a), NEW c \in Connections, NEW p \in BOOLEAN
    PROVE  /\ SameButAttempt(a, Attempt(a, c, p), c)
           /\ InProgress(Attempt(a, c, p), c) <=> Holds(a, c) /\ p
<1> USE ArbiterAssumption
<1> DEFINE b == Attempt(a, c, p)
<1>1. ArbiterInv(b)
  BY AttemptKeeps
<1>2. CASE IsAdmitted(a, c)
  <2>1. b = [a EXCEPT !.admitted = [@ EXCEPT !.attempt = p]]
    BY <1>2 DEF Attempt
  <2>2. a.admitted \in Held /\ a \in ArbiterStates
    BY <1>2 DEF IsAdmitted, ArbiterInv, ArbiterStates
  <2> DEFINE h == [a.admitted EXCEPT !.attempt = p]
  <2>3. h \in Held /\ h.id = a.admitted.id /\ h.rank = a.admitted.rank /\ h.attempt = p
    BY <2>2 DEF Held
  <2>4. b.admitted = h /\ b.beside = a.beside /\ b.lastPlayback = a.lastPlayback
    BY <2>1, <2>2 DEF ArbiterStates
  <2>5. h # Nobody /\ a.admitted # Nobody /\ a.admitted.id = c /\ ~IsBeside(a, c)
    BY <1>2, <2>3 DEF IsAdmitted, IsBeside, ArbiterInv
  <2> HIDE DEF h, b
  <2> QED
    BY <1>1, <2>3, <2>4, <2>5 DEF Holds, InProgress, IsAdmitted, IsBeside, RankIn, SameButAttempt, b
<1>3. CASE ~IsAdmitted(a, c) /\ IsBeside(a, c)
  <2>1. b = [a EXCEPT !.beside = [@ EXCEPT !.attempt = p]]
    BY <1>3 DEF Attempt
  <2>2. a.beside \in Held /\ a \in ArbiterStates
    BY <1>3 DEF IsBeside, ArbiterInv, ArbiterStates
  <2> DEFINE h == [a.beside EXCEPT !.attempt = p]
  <2>3. h \in Held /\ h.id = a.beside.id /\ h.rank = a.beside.rank /\ h.attempt = p
    BY <2>2 DEF Held
  <2>4. b.beside = h /\ b.admitted = a.admitted /\ b.lastPlayback = a.lastPlayback
    BY <2>1, <2>2 DEF ArbiterStates
  <2>5. h # Nobody /\ a.beside # Nobody /\ a.beside.id = c
    BY <1>3, <2>3 DEF IsBeside
  <2> HIDE DEF h, b
  <2> QED
    BY <1>1, <1>3, <2>3, <2>4, <2>5 DEF Holds, InProgress, IsAdmitted, IsBeside, RankIn, SameButAttempt, b
<1>4. CASE ~Holds(a, c)
  <2>1. b = a
    BY <1>4 DEF Attempt, Holds
  <2>2. ~InProgress(a, c)
    BY <1>4 DEF InProgress, Holds
  <2> QED
    BY <1>1, <1>4, <2>1, <2>2 DEF SameButAttempt
<1> QED
  BY <1>2, <1>3, <1>4 DEF Holds

\* ended() lets go of its connection and of no other.
LEMMA EndedFacts ==
    ASSUME NEW a, ArbiterInv(a), NEW c \in Connections
    PROVE  LET b == Ended(a, c)
           IN  /\ ArbiterInv(b) /\ b.lastPlayback = a.lastPlayback
               /\ ~Holds(b, c)
               /\ \A d \in Connections \ {c} :
                     /\ Holds(b, d) <=> Holds(a, d)
                     /\ RankIn(b, d) = RankIn(a, d) \/ ~Holds(a, d)
                     /\ InProgress(b, d) <=> InProgress(a, d)
<1> USE ArbiterAssumption
<1> DEFINE b == Ended(a, c)
<1>1. ArbiterInv(b)
  BY EndedKeeps
<1>2. CASE IsAdmitted(a, c)
  <2>1. /\ b.admitted = a.beside /\ b.beside = Nobody
        /\ b.lastPlayback = a.lastPlayback
    BY <1>2 DEF Ended, ArbiterInv, ArbiterStates
  <2>2. a.admitted # Nobody /\ a.admitted.id = c /\ ~IsBeside(a, c)
    BY <1>2 DEF IsAdmitted, IsBeside, ArbiterInv
  <2> HIDE DEF b
  <2> QED
    BY <1>1, <2>1, <2>2 DEF Holds, InProgress, IsAdmitted, IsBeside, RankIn, b
<1>3. CASE ~IsAdmitted(a, c) /\ IsBeside(a, c)
  <2>1. /\ b.admitted = a.admitted /\ b.beside = Nobody
        /\ b.lastPlayback = a.lastPlayback
    BY <1>3 DEF Ended, ArbiterInv, ArbiterStates
  <2> HIDE DEF b
  <2> QED
    BY <1>1, <1>3, <2>1 DEF Holds, InProgress, IsAdmitted, IsBeside, RankIn, b
<1>4. CASE ~Holds(a, c)
  BY <1>1, <1>4 DEF Ended, Holds
<1> QED
  BY <1>2, <1>3, <1>4 DEF Holds

\* What a verdict on c's activation with this rank says of every connection.
Judges(a, v, c, rank) ==
    /\ ArbiterInv(v.arbiter)
    /\ v.admit \in BOOLEAN
    /\ Holds(v.arbiter, c) <=> v.admit
    /\ ~InProgress(v.arbiter, c)
    /\ v.admit => RankIn(v.arbiter, c) = rank
    /\ v.displaced = {} \/ \E d \in Connections \ {c} : v.displaced = {d}
    /\ \A d \in Connections \ {c} :
          /\ NoNews(a, v.arbiter, d)
          /\ Holds(a, d) => Holds(v.arbiter, d) \/ d \in v.displaced
          /\ InProgress(a, d) => InProgress(v.arbiter, d)

\* The arbiter holds h in place of its holder, if any, and says nothing new.
LEMMA HoldJudges ==
    ASSUME NEW a, ArbiterInv(a), NEW h \in Held, ~h.attempt, ~IsBeside(a, h.id),
           NEW ds, a.admitted # Nobody => a.admitted.id = h.id \/ ~a.admitted.attempt,
           \/ (a.admitted = Nobody \/ a.admitted.id = h.id) /\ ds = {}
           \/ a.admitted # Nobody /\ a.admitted.id # h.id /\ ds = {a.admitted.id}
    PROVE  Judges(a, Admitted(Hold(a, h), ds), h.id, h.rank)
<1> USE ArbiterAssumption
<1> DEFINE b == Hold(a, h)
           c == h.id
<1>1. ArbiterInv(b) /\ Keeps(a, b, {c})
  BY HoldKeeps
<1>2. c \in Connections /\ h # Nobody
  BY DEF Held
<1>3. b.admitted = h /\ b.beside = a.beside
  BY DEF Hold, ArbiterInv, ArbiterStates
<1> HIDE DEF b
<1>4. Holds(b, c) /\ ~InProgress(b, c) /\ RankIn(b, c) = h.rank
  BY <1>2, <1>3 DEF Holds, IsAdmitted, IsBeside, InProgress, RankIn
<1>5. ds = {} \/ \E d \in Connections \ {c} : ds = {d}
  BY DEF ArbiterInv, ArbiterStates, Held
<1>6. ASSUME NEW d \in Connections \ {c}
      PROVE  /\ NoNews(a, b, d)
             /\ Holds(a, d) => Holds(b, d) \/ d \in ds
             /\ InProgress(a, d) => InProgress(b, d)
  <2>1. ~IsAdmitted(b, d) /\ (IsBeside(b, d) <=> IsBeside(a, d))
    BY <1>3 DEF IsAdmitted, IsBeside
  <2>2. IsBeside(a, d) => ~IsAdmitted(a, d)
    BY DEF IsAdmitted, IsBeside, ArbiterInv
  <2>3. NoNews(a, b, d)
    BY <1>3, <2>1, <2>2 DEF NoNews, Holds, InProgress, RankIn
  <2>4. Holds(a, d) => Holds(b, d) \/ d \in ds
    BY <2>1 DEF Holds, IsAdmitted
  <2>5. InProgress(a, d) => InProgress(b, d)
    BY <1>1 DEF Keeps
  <2> QED
    BY <2>3, <2>4, <2>5
<1>7. /\ Admitted(b, ds).arbiter = b /\ Admitted(b, ds).admit = TRUE
      /\ Admitted(b, ds).displaced = ds
  BY DEF Admitted
<1> QED
  BY <1>1, <1>4, <1>5, <1>6, <1>7 DEF Judges, b

LEMMA RejectedJudges ==
    ASSUME NEW a, ArbiterInv(a), NEW c \in Connections, NEW rank, ~Holds(a, c)
    PROVE  Judges(a, Rejected(a), c, rank)
<1>1. /\ Rejected(a).arbiter = a /\ Rejected(a).admit = FALSE
      /\ Rejected(a).displaced = {}
  BY DEF Rejected
<1>2. ~InProgress(a, c)
  BY DEF InProgress, Holds
<1> QED
  BY <1>1, <1>2 DEF Judges, NoNews

LEMMA IncomingJudges ==
    ASSUME NEW a, ArbiterInv(a), NEW h \in Held, ~h.attempt, ~Holds(a, h.id)
    PROVE  Judges(a, Incoming(a, h), h.id, h.rank)
<1> USE ArbiterAssumption
<1>1. h.id \in Connections /\ h # Nobody /\ ~IsBeside(a, h.id)
  BY DEF Held, Holds
<1>2. a.admitted # Nobody => a.admitted.id # h.id
  BY DEF Holds, IsAdmitted
<1>3. CASE a.admitted = Nobody
  BY <1>1, <1>3, HoldJudges DEF Incoming
<1>4. CASE a.admitted # Nobody /\ GoesBeside(a, h)
  <2> DEFINE b == [a EXCEPT !.beside = h]
             c == h.id
  <2>1. Incoming(a, h) = Admitted(b, {})
    BY <1>4 DEF Incoming
  <2>2. ArbiterInv(b)
    <3>1. ArbiterInv(Incoming(a, h).arbiter)
      BY IncomingKeeps
    <3>2. Admitted(b, {}).arbiter = b
      BY DEF Admitted
    <3> QED
      BY <2>1, <3>1, <3>2
  <2>3. /\ b.beside = h /\ b.admitted = a.admitted /\ a.beside = Nobody
        /\ a.admitted.id # c
    BY <1>2, <1>4 DEF ArbiterInv, ArbiterStates, GoesBeside
  <2> HIDE DEF b
  <2>4. Holds(b, c) /\ ~InProgress(b, c) /\ RankIn(b, c) = h.rank
    BY <1>1, <2>3 DEF Holds, IsAdmitted, IsBeside, InProgress, RankIn
  <2>5. ASSUME NEW d \in Connections \ {c}
        PROVE  /\ NoNews(a, b, d)
               /\ Holds(a, d) => Holds(b, d)
               /\ InProgress(a, d) => InProgress(b, d)
    <3>1. ~IsBeside(a, d) /\ ~IsBeside(b, d) /\ (IsAdmitted(b, d) <=> IsAdmitted(a, d))
      BY <2>3 DEF IsAdmitted, IsBeside
    <3> QED
      BY <2>3, <3>1 DEF NoNews, Holds, InProgress, RankIn
  <2>6. Admitted(b, {}).arbiter = b /\ Admitted(b, {}).admit = TRUE /\ Admitted(b, {}).displaced = {}
    BY DEF Admitted
  <2>7. Judges(a, Admitted(b, {}), c, h.rank)
    BY <2>2, <2>4, <2>5, <2>6 DEF Judges
  <2> QED
    BY <2>1, <2>7
<1>5. CASE a.admitted # Nobody /\ ~GoesBeside(a, h) /\ TakesOver(a, h)
  <2>1. Incoming(a, h) = Admitted(Hold(a, h), {a.admitted.id})
    BY <1>5 DEF Incoming
  <2> QED
    BY <1>1, <1>2, <1>5, <2>1, HoldJudges DEF TakesOver
<1>6. CASE a.admitted # Nobody /\ ~GoesBeside(a, h) /\ ~TakesOver(a, h)
  BY <1>1, <1>6, RejectedJudges DEF Incoming
<1> QED
  BY <1>3, <1>4, <1>5, <1>6

\* A verdict on a connection without an attempt in progress.
LEMMA ActivationJudges ==
    ASSUME NEW a, ArbiterInv(a), NEW c \in Connections, NEW rank \in Ranks,
           NEW first \in BOOLEAN, ~InProgress(a, c)
    PROVE  Judges(a, Activation(a, c, rank, first), c, rank)
<1> USE ArbiterAssumption
<1> DEFINE arriving == [id |-> c, rank |-> rank, attempt |-> FALSE]
           again    == [arriving EXCEPT !.attempt = a.admitted.attempt]
           alone    == [a EXCEPT !.beside = Nobody]
<1>1. arriving \in Held /\ arriving.id = c /\ arriving.rank = rank /\ ~arriving.attempt
  BY DEF Held
<1>2. CASE first /\ ~Holds(a, c)
  <2>1. Activation(a, c, rank, first) = Incoming(a, arriving)
    BY <1>2 DEF Activation
  <2> HIDE DEF arriving
  <2> QED
    BY <1>1, <1>2, <2>1, IncomingJudges
<1>3. CASE IsAdmitted(a, c)
  <2>1. Activation(a, c, rank, first) = Admitted(Hold(a, again), {})
    BY <1>3 DEF Activation, Holds
  <2>2. a.admitted \in Held /\ ~a.admitted.attempt
    BY <1>3 DEF IsAdmitted, ArbiterInv, ArbiterStates, InProgress
  <2>3. again \in Held /\ again.id = c /\ again.rank = rank /\ ~again.attempt
    BY <2>2 DEF Held
  <2>4. ~IsBeside(a, c) /\ a.admitted.id = c
    BY <1>3 DEF IsAdmitted, IsBeside, ArbiterInv
  <2> HIDE DEF again
  <2> QED
    BY <2>1, <2>3, <2>4, HoldJudges
<1>4. CASE ~IsAdmitted(a, c) /\ IsBeside(a, c) /\ rank = Pairing
  <2>1. Activation(a, c, rank, first) = Admitted(a, {})
    BY <1>4 DEF Activation, Holds
  <2>2. Admitted(a, {}).arbiter = a /\ Admitted(a, {}).admit = TRUE /\ Admitted(a, {}).displaced = {}
    BY DEF Admitted
  <2>3. Holds(a, c) /\ RankIn(a, c) = rank
    BY <1>4 DEF Holds, RankIn, ArbiterInv, IsBeside
  <2> QED
    BY <2>1, <2>2, <2>3 DEF Judges, NoNews
<1>5. CASE ~IsAdmitted(a, c) /\ IsBeside(a, c) /\ rank # Pairing
  <2>1. Activation(a, c, rank, first) = Incoming(alone, arriving)
    BY <1>5 DEF Activation, Holds
  <2>2. /\ alone \in ArbiterStates
        /\ alone.beside = Nobody
        /\ alone.admitted = a.admitted
        /\ alone.lastPlayback = a.lastPlayback
    BY DEF ArbiterInv, ArbiterStates
  <2> HIDE DEF alone, arriving
  <2>3. ArbiterInv(alone) /\ ~Holds(alone, c)
    BY <1>5, <2>2 DEF ArbiterInv, Holds, IsAdmitted, IsBeside
  <2>4. \A d \in Connections \ {c} :
            /\ Holds(alone, d) <=> Holds(a, d)
            /\ InProgress(alone, d) <=> InProgress(a, d)
            /\ Holds(a, d) => RankIn(alone, d) = RankIn(a, d)
    BY <1>5, <2>2 DEF Holds, IsAdmitted, IsBeside, InProgress, RankIn
  <2>5. Judges(alone, Incoming(alone, arriving), c, rank)
    BY <1>1, <2>3, IncomingJudges
  <2> QED
    BY <2>1, <2>4, <2>5 DEF Judges, NoNews
<1>6. CASE ~Holds(a, c) /\ ~first
  <2>1. Activation(a, c, rank, first) = Rejected(a)
    BY <1>6 DEF Activation, Holds
  <2> QED
    BY <1>6, <2>1, RejectedJudges
<1> QED
  BY <1>2, <1>3, <1>4, <1>5, <1>6 DEF Holds

----------------------------------------------------------------------------
(* The sessions' steps.                                                    *)

\* A step in which nothing new is held and sessions at most close.
LEMMA OthersKept ==
    ASSUME AdmissionInv, NEW C \in SUBSET Connections,
           \A d \in C : /\ NoNews(arbiter, arbiter', d)
                        /\ session'[d] = session[d] \/ session'[d] = In("closed")
    PROVE  \A d \in C : Told(arbiter', session'[d], d) /\ Blank(session'[d])
<1> TAKE d \in C
<1>1. CASE session'[d] = session[d]
  BY <1>1, ToldKept DEF AdmissionInv
<1>2. CASE session'[d] = In("closed")
  BY <1>2, ClosedTold, InType DEF Phases
<1> QED
  BY <1>1, <1>2

\* A step of c's session, in which others may be closed too.
LEMMA StepKeeps ==
    ASSUME AdmissionInv, ArbiterInv(arbiter'), session' \in [Connections -> Sessions],
           NEW c \in Connections, Told(arbiter', session'[c], c), Blank(session'[c]),
           \A d \in Connections \ {c} :
               /\ NoNews(arbiter, arbiter', d)
               /\ session'[d] = session[d] \/ session'[d] = In("closed")
    PROVE  AdmissionInv'
<1>1. \A d \in Connections \ {c} : Told(arbiter', session'[d], d) /\ Blank(session'[d])
  <2>1. Connections \ {c} \in SUBSET Connections
    OBVIOUS
  <2> QED
    BY <2>1, OthersKept
<1> QED
  BY <1>1 DEF AdmissionInv

\* An arbiter just made holds nobody.
LEMMA NewFacts ==
    ASSUME NEW last \in Servers \cup {NoServer}
    PROVE  /\ ArbiterInv(New(last)) /\ New(last).lastPlayback = last
           /\ \A c : ~Holds(New(last), c) /\ ~InProgress(New(last), c)
BY ArbiterAssumption
DEF New, ArbiterInv, ArbiterStates, Holds, IsAdmitted, IsBeside, InProgress

\* The end of an attempt, told to an arbiter that may hold its connection.
LEMMA EndPairingFacts ==
    ASSUME AdmissionInv, NEW c \in Connections
    PROVE  /\ SameButAttempt(arbiter, EndPairing(arbiter, c), c)
           /\ session[c].phase # "closed" => ~InProgress(EndPairing(arbiter, c), c)
<1>1. ArbiterInv(arbiter) /\ Told(arbiter, session[c], c)
  BY DEF AdmissionInv
<1>2. CASE session[c].attempt = "running"
  <2>1. EndPairing(arbiter, c) = Attempt(arbiter, c, FALSE)
    BY <1>2 DEF EndPairing
  <2>2. /\ SameButAttempt(arbiter, Attempt(arbiter, c, FALSE), c)
        /\ InProgress(Attempt(arbiter, c, FALSE), c) <=> Holds(arbiter, c) /\ FALSE
    BY <1>1, AttemptFacts, Zenon
  <2> QED
    BY <2>1, <2>2
<1>3. CASE session[c].attempt # "running"
  <2>1. EndPairing(arbiter, c) = arbiter
    BY <1>3 DEF EndPairing
  <2>2. InProgress(arbiter, c) => Holds(arbiter, c)
    BY DEF InProgress, Holds
  <2> QED
    BY <1>1, <1>3, <2>1, <2>2 DEF Told, SameButAttempt
<1> QED
  BY <1>2, <1>3

\* The session may end its attempt, and go to p, wherever it stands.
LEMMA EndingStep ==
    ASSUME AdmissionInv, NEW c \in Connections, NEW p \in {"opening", "closed"},
           session[c].phase \in {"handshake", "opening", "active"},
           session' = [session EXCEPT ![c] = In(p)],
           \/ arbiter' = EndPairing(arbiter, c)
           \/ p = "closed" /\ arbiter' = arbiter
    PROVE  /\ AdmissionInv' /\ arbiter'.lastPlayback = arbiter.lastPlayback
           /\ \A d \in Connections : Holds(arbiter', d) <=> Holds(arbiter, d)
           /\ \A d \in Connections \ {c} : InProgress(arbiter', d) <=> InProgress(arbiter, d)
<1>1. /\ SameButAttempt(arbiter, arbiter', c)
      /\ p # "closed" => ~InProgress(arbiter', c)
  BY EndPairingFacts DEF AdmissionInv, SameButAttempt
<1>2. p \in Phases /\ p \notin {"absent", "gone", "active"}
  BY DEF Phases
<1>3. In(p) \in Sessions /\ Blank(In(p)) /\ In(p).phase = p /\ In(p).attempt = "none"
  BY <1>2, InType
<1>4. session' \in [Connections -> Sessions] /\ session'[c] = In(p)
      /\ \A d \in Connections \ {c} : session'[d] = session[d]
  BY <1>3 DEF AdmissionInv
<1>5. Told(arbiter', In(p), c)
  BY <1>1, <1>2, <1>3 DEF Told
<1>6. \A d \in Connections \ {c} : NoNews(arbiter, arbiter', d)
  BY <1>1 DEF NoNews, SameButAttempt
<1>7. AdmissionInv'
  BY <1>1, <1>3, <1>4, <1>5, <1>6, StepKeeps DEF SameButAttempt
<1> QED
  BY <1>1, <1>7 DEF SameButAttempt

\* Only c's session, and what the arbiter holds of it, changes.
OwnOnly(c) ==
    /\ AdmissionInv' /\ arbiter'.lastPlayback = arbiter.lastPlayback
    /\ \A d \in Connections : Holds(arbiter', d) <=> Holds(arbiter, d)
    /\ \A d \in Connections \ {c} :
          /\ session'[d] = session[d]
          /\ InProgress(arbiter', d) <=> InProgress(arbiter, d)
    /\ session[c].phase \in {"handshake", "opening", "active"}
    /\ session'[c].phase \in {"opening", "active", "closed"}
    /\ session'[c].phase = "active" => session[c].phase = "active" /\ session'[c].rank = session[c].rank
    /\ InProgress(arbiter, c) => session'[c] # session[c]

LEMMA OwnStepKeeps ==
    ASSUME AdmissionInv, NEW c \in Connections, OwnStep(c)
    PROVE  OwnOnly(c)
<1>1. /\ ArbiterInv(arbiter) /\ session \in [Connections -> Sessions]
      /\ Told(arbiter, session[c], c) /\ Blank(session[c])
      /\ InProgress(arbiter, c) => Holds(arbiter, c)
  BY DEF AdmissionInv, InProgress, Holds
<1>2. CASE Handshakes(c) \/ Close(c)
  <2>1. PICK p \in {"opening", "closed"} :
            /\ session[c].phase \in {"handshake", "opening", "active"}
            /\ session' = [session EXCEPT ![c] = In(p)]
            /\ \/ arbiter' = EndPairing(arbiter, c)
               \/ p = "closed" /\ arbiter' = arbiter
    BY <1>2 DEF Handshakes, Close
  <2>2. In(p).phase = p /\ In(p).attempt = "none"
    BY DEF In
  <2>3. session'[c] = In(p) /\ \A d \in Connections \ {c} : session'[d] = session[d]
    BY <1>1, <2>1
  <2>4. /\ AdmissionInv' /\ arbiter'.lastPlayback = arbiter.lastPlayback
        /\ \A d \in Connections : Holds(arbiter', d) <=> Holds(arbiter, d)
        /\ \A d \in Connections \ {c} : InProgress(arbiter', d) <=> InProgress(arbiter, d)
    BY <2>1, EndingStep
  <2>5. InProgress(arbiter, c) => session'[c] # session[c]
    BY <1>1, <2>1, <2>2, <2>3 DEF Told
  <2> QED
    BY <2>1, <2>2, <2>3, <2>4, <2>5 DEF OwnOnly
<1>3. CASE AttemptBegins(c) \/ AttemptEnds(c)
  <2>1. PICK att \in {"running", "finished"} :
            /\ session[c].phase = "active" /\ session[c].rank = Pairing
            /\ session' = [session EXCEPT ![c].attempt = att]
            /\ att = "running" => session[c].attempt = "held" /\ arbiter' = Attempt(arbiter, c, TRUE)
            /\ att = "finished" => session[c].attempt # "finished" /\ arbiter' = EndPairing(arbiter, c)
    BY <1>3 DEF AttemptBegins, AttemptEnds, PairingOn, Active
  <2>2. /\ session' \in [Connections -> Sessions]
        /\ session'[c] = [session[c] EXCEPT !.attempt = att]
        /\ \A d \in Connections \ {c} : session'[d] = session[d]
    BY <1>1, <2>1 DEF Sessions, Attempts
  <2>3. /\ session'[c].phase = "active" /\ session'[c].rank = session[c].rank
        /\ session'[c].attempt = att
    BY <1>1, <2>1, <2>2 DEF Sessions
  <2>4. /\ SameButAttempt(arbiter, arbiter', c)
        /\ Holds(arbiter, c) => (InProgress(arbiter', c) <=> att = "running")
    <3>1. CASE att = "running"
      <4>1. /\ SameButAttempt(arbiter, Attempt(arbiter, c, TRUE), c)
            /\ InProgress(Attempt(arbiter, c, TRUE), c) <=> Holds(arbiter, c) /\ TRUE
        BY <1>1, AttemptFacts, Zenon
      <4> QED
        BY <2>1, <3>1, <4>1
    <3>2. CASE att = "finished"
      BY <1>1, <2>1, <3>2, EndPairingFacts
    <3> QED
      BY <3>1, <3>2
  <2>5. Told(arbiter', session'[c], c) /\ Blank(session'[c])
    BY <1>1, <2>1, <2>3, <2>4 DEF Told, Blank, SameButAttempt
  <2>6. \A d \in Connections \ {c} : NoNews(arbiter, arbiter', d)
    BY <2>4 DEF NoNews, SameButAttempt
  <2>7. AdmissionInv'
    BY <2>2, <2>4, <2>5, <2>6, StepKeeps DEF SameButAttempt
  <2>8. InProgress(arbiter, c) => session'[c] # session[c]
    BY <2>1, <2>3
  <2> QED
    BY <2>1, <2>2, <2>3, <2>4, <2>7, <2>8 DEF OwnOnly, SameButAttempt
<1> QED
  BY <1>2, <1>3 DEF OwnStep

\* What on_activate leaves of c's session and of the others in the arbiter.
Activates(c, b, s, displaced) ==
    /\ ArbiterInv(b)
    /\ s \in Sessions /\ Blank(s) /\ Told(b, s, c)
    /\ (s.phase = "active" /\ Holds(b, c)) \/ s = In("closed")
    /\ InProgress(arbiter, c) /\ s = session[c] => InProgress(b, c)
    /\ displaced = {} \/ \E d \in Connections \ {c} : displaced = {d}
    /\ \A d \in Connections \ {c} :
          /\ NoNews(arbiter, b, d)
          /\ Holds(arbiter, d) => Holds(b, d) \/ d \in displaced
          /\ InProgress(arbiter, d) => InProgress(b, d)

LEMMA ActivateFacts ==
    ASSUME AdmissionInv, NEW c \in Connections, NEW rank \in Ranks, NEW att \in Begins(rank),
           session[c].phase \in {"opening", "active"}
    PROVE  Activates(c, ActivatedArbiter(c, rank, att), ActivatedSession(c, rank, att),
                     Verdict(c, rank).displaced)
<1> DEFINE e == EndPairing(arbiter, c)
           v == Verdict(c, rank)
           b == ActivatedArbiter(c, rank, att)
           s == ActivatedSession(c, rank, att)
<1>1. SameButAttempt(arbiter, e, c) /\ ~InProgress(e, c)
  BY EndPairingFacts
<1>2. (session[c].phase = "opening") \in BOOLEAN
  OBVIOUS
<1>3. Judges(e, v, c, rank)
  <2>1. v = Activation(e, c, rank, session[c].phase = "opening")
    BY DEF Verdict
  <2>2. ArbiterInv(e)
    BY <1>1 DEF SameButAttempt
  <2> HIDE DEF e, v
  <2> QED
    BY <1>1, <1>2, <2>1, <2>2, ActivationJudges, Zenon
<1>4. att \in Attempts /\ (att = "running" => rank = Pairing) /\ (rank # Pairing => att = "none")
  BY DEF Begins, Attempts
<1>5. \A d \in Connections \ {c} :
          /\ NoNews(arbiter, v.arbiter, d)
          /\ Holds(arbiter, d) => Holds(v.arbiter, d) \/ d \in v.displaced
          /\ InProgress(arbiter, d) => InProgress(v.arbiter, d)
  <2> HIDE DEF e, v
  <2> QED
    BY <1>1, <1>3 DEF Judges, NoNews, SameButAttempt
<1>6. v.displaced = {} \/ \E d \in Connections \ {c} : v.displaced = {d}
  <2> HIDE DEF e, v
  <2> QED
    BY <1>3 DEF Judges
<1>7. InProgress(arbiter, c) => session[c].attempt = "running"
  BY DEF AdmissionInv, Told, InProgress, Holds
<1>8. CASE ~v.admit
  <2>1. b = v.arbiter /\ s = In("closed")
    BY <1>8 DEF ActivatedArbiter, ActivatedSession
  <2>2. In("closed") \in Sessions /\ Blank(In("closed")) /\ In("closed").attempt = "none"
    BY InType DEF Phases
  <2>3. ArbiterInv(v.arbiter)
    BY <1>3 DEF Judges
  <2> HIDE DEF b, s, v, e
  <2>4. Told(b, s, c)
    BY <2>1, ClosedTold
  <2>5. InProgress(arbiter, c) => s # session[c]
    BY <1>7, <2>1, <2>2
  <2>6. Activates(c, b, s, v.displaced)
    BY <1>5, <1>6, <2>1, <2>2, <2>3, <2>4, <2>5 DEF Activates
  <2> QED
    BY <2>6 DEF b, s, v
<1>9. CASE v.admit
  <2>1. s = [phase |-> "active", rank |-> rank, attempt |-> att]
    BY <1>9 DEF ActivatedSession
  <2>2. b = IF att = "running" THEN Attempt(v.arbiter, c, TRUE) ELSE v.arbiter
    BY <1>9 DEF ActivatedArbiter
  <2>3. /\ ArbiterInv(v.arbiter) /\ Holds(v.arbiter, c) /\ ~InProgress(v.arbiter, c)
        /\ RankIn(v.arbiter, c) = rank
    <3> HIDE DEF e, v
    <3> QED
      BY <1>3, <1>9 DEF Judges
  <2> HIDE DEF b, s, v, e
  <2>4. /\ SameButAttempt(v.arbiter, b, c)
        /\ InProgress(b, c) <=> att = "running"
    <3>1. CASE att = "running"
      <4>1. /\ SameButAttempt(v.arbiter, Attempt(v.arbiter, c, TRUE), c)
            /\ InProgress(Attempt(v.arbiter, c, TRUE), c) <=> Holds(v.arbiter, c) /\ TRUE
        BY <2>3, AttemptFacts, Zenon
      <4> QED
        BY <2>2, <2>3, <3>1, <4>1
    <3>2. CASE att # "running"
      BY <2>2, <2>3, <3>2 DEF SameButAttempt
    <3> QED
      BY <3>1, <3>2
  <2>5. s \in Sessions /\ s.phase = "active" /\ s.rank = rank /\ s.attempt = att
    BY <1>4, <2>1 DEF Sessions, Phases
  <2>6. Holds(b, c) /\ RankIn(b, c) = rank /\ ArbiterInv(b)
    BY <2>3, <2>4 DEF SameButAttempt
  <2>7. Blank(s) /\ Told(b, s, c)
    BY <2>4, <2>5, <2>6 DEF Blank, Told
  <2>8. InProgress(arbiter, c) /\ s = session[c] => InProgress(b, c)
    BY <1>7, <2>4, <2>5
  <2>9. \A d \in Connections \ {c} :
            /\ NoNews(arbiter, b, d)
            /\ Holds(arbiter, d) => Holds(b, d) \/ d \in v.displaced
            /\ InProgress(arbiter, d) => InProgress(b, d)
    BY <1>5, <2>4 DEF NoNews, SameButAttempt
  <2>10. Activates(c, b, s, v.displaced)
    BY <1>6, <2>5, <2>6, <2>7, <2>8, <2>9 DEF Activates
  <2> QED
    BY <2>10 DEF b, s, v
<1> QED
  BY <1>8, <1>9

----------------------------------------------------------------------------
(* What follows.                                                           *)

LEMMA ReportedFollows == AdmissionInv => AttemptReported
BY DEF AdmissionInv, AttemptReported, Told

\* The arbiter holds two connections at most, and one for playback.
LEMMA FewHeld ==
    ASSUME AdmissionInv, NEW S \in SUBSET Connections,
           \A c \in S : Active(c) /\ Holds(arbiter, c)
    PROVE  /\ Cardinality(S) <= 2
           /\ (\A c \in S : session[c].rank = Playback) => Cardinality(S) <= 1
<1> DEFINE x == arbiter.admitted.id
           y == arbiter.beside.id
<1>1. S \subseteq {x} \cup {y}
  BY DEF Holds, IsAdmitted, IsBeside
<1>2. /\ IsFiniteSet({x}) /\ Cardinality({x}) = 1
      /\ IsFiniteSet({x} \cup {y}) /\ Cardinality({x} \cup {y}) <= 2
  <2>1. IsFiniteSet({x}) /\ Cardinality({x}) = 1
    BY FS_Singleton
  <2> HIDE DEF x, y
  <2>2. /\ IsFiniteSet({x} \cup {y})
        /\ Cardinality({x} \cup {y}) =
               IF y \in {x} THEN Cardinality({x}) ELSE Cardinality({x}) + 1
    BY <2>1, FS_AddElement, Zenon
  <2> QED
    BY <2>1, <2>2
<1>3. IsFiniteSet(S) /\ Cardinality(S) <= 2
  <2>1. IsFiniteSet(S) /\ Cardinality(S) <= Cardinality({x} \cup {y})
    BY <1>1, <1>2, FS_Subset
  <2>2. Cardinality(S) \in Nat /\ Cardinality({x} \cup {y}) \in Nat
    BY <1>2, <2>1, FS_CardinalityType
  <2> QED
    BY <1>2, <2>1, <2>2
<1>4. ASSUME \A c \in S : session[c].rank = Playback
      PROVE  Cardinality(S) <= 1
  <2>1. S \subseteq {x}
    <3>1. SUFFICES ASSUME NEW c \in S PROVE IsAdmitted(arbiter, c)
      BY DEF IsAdmitted
    <3>2. session[c].rank = RankIn(arbiter, c) /\ RankIn(arbiter, c) = Playback
      BY <1>4 DEF AdmissionInv, Told, Active
    <3>3. IsBeside(arbiter, c) => arbiter.beside.rank = Pairing
      BY DEF AdmissionInv, ArbiterInv, IsBeside
    <3> QED
      BY <3>2, <3>3 DEF Holds, RankIn, Pairing, Playback
  <2> QED
    BY <1>2, <2>1, FS_Subset
<1> QED
  BY <1>3, <1>4
=============================================================================
