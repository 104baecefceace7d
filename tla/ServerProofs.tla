---------------------------- MODULE ServerProofs ----------------------------
(***************************************************************************)
(* What ServerHost keeps, whatever its threads' steps in between: a client *)
(* is asked to pair no more often than the operator asked, and a request   *)
(* left for a connection is decided.  For any clients, URLs and numbers of *)
(* connections, calls and work items.                                      *)
(***************************************************************************)
EXTENDS ServerHost, SequenceTheorems, FiniteSetTheorems, WellFoundedInduction, TLAPS

\* A connection's client is known from its handshake on; one that was dialled
\* is the client at its URL.
IsConnection(s) ==
    /\ s \in Connection
    /\ s.phase = "unused" => s = Unused
    /\ s.phase = "handshake" => s.client = NoClient
    /\ s.phase \in {"hello", "ready", "rehandshake"} \/ s.said => s.client \in Clients
    /\ s.phase = "ready" => s.said
    /\ s.client \in Clients /\ s.url \in Urls => s.client = ClientAt[s.url]

\* The worker may act on it.
Takeable(s) == s.phase \notin {"unused", "handshake", "removed"} /\ s.client \in Clients

\* It is c's, or will be if its handshake succeeds; or it is no more.
OwedFor(s, c) ==
    s.phase = "removed" \/ s.client = c \/ (s.client = NoClient /\ s.url \in Urls /\ ClientAt[s.url] = c)

\* The work that decides connection i is posted or about to be.
Coming(i) == \/ \E k \in 1..Len(posted) : posted[k] = Decide(i)
             \/ operator = [at |-> "post", work |-> Decide(i)]

Waits(i) == Ready(i) /\ ~connections[i].attempt

\* The worker has read of a connection: that a client asks, or that a request
\* is none of what it acts on.
Reads     == worker.at \in {"viewed", "asked", "decided"}
ReadsAsks == \/ worker.at = "asked" /\ worker.asks
             \/ worker.at = "decided" /\ worker.does = "code"
Unread(o) == \/ worker.at = "viewed" /\ worker.attempt /\ Waits(o[1])
             \/ worker.at = "asked" /\ (o[2] \in Urls \/ ~worker.asks)
             \/ worker.at = "decided" /\ (o[2] \in Urls \/ worker.does \in {"other", "toToken"})

\* The worker acts on what it read: the connection has still its client, and no
\* attempt but one that was seen, and a code is still asked for.  A request that
\* it has not read, or that it read as none, has its own work coming.
WorkerInv ==
    Reads =>
        /\ Takeable(connections[worker.id])
        /\ connections[worker.id].attempt => worker.at = "viewed" /\ worker.attempt
        /\ ReadsAsks => connections[worker.id].client \in requested
        /\ \A o \in owed : o[1] = worker.id /\ Unread(o) => Coming(o[1])

OperatorInv ==
    operator.at = "found" => /\ connections[operator.id].phase # "unused"
                             /\ OwedFor(connections[operator.id], operator.client)

\* What is owed is requested, and its connection is the client's or the URL's.
IsOwed(o) ==
    /\ connections[o[1]].phase # "unused"
    /\ o[2] \in Clients => o[2] \in requested /\ OwedFor(connections[o[1]], o[2])
    /\ o[2] \in Urls => /\ o[2] \in requestedAt
                        /\ connections[o[1]].phase = "removed" \/ connections[o[1]].url = o[2]

OwedInv == \A o \in owed : IsOwed(o)

\* The requests that are left, for one client: each is one the operator asked.
AtUrls(c) == {u \in requestedAt : ClientAt[u] = c}
Asked(c)  == (IF c \in requested THEN 1 ELSE 0) + Cardinality(AtUrls(c))
             + (IF operator.at = "found" /\ operator.client = c THEN 1 ELSE 0)
DueInv    == due \in [Clients -> Int] /\ IsFiniteSet(requestedAt) /\ \A c \in Clients : due[c] >= Asked(c)

HostInv ==
    /\ HostTypeOK /\ \A i \in Ids : IsConnection(connections[i])
    /\ WorkerInv /\ OperatorInv /\ OwedInv /\ AskedIsDecided /\ DueInv

----------------------------------------------------------------------------
(* Values.                                                                 *)

\* A set of positions that is not empty has a first one.
LEMMA FirstExists ==
    ASSUME NEW T \in SUBSET Nat, T # {}
    PROVE  \E i \in T : \A j \in T : i <= j
<1> DEFINE R == {ss \in Nat \X Nat : ss[1] < ss[2]}
<1>1. IsWellFoundedOn(R, Nat)
  BY NatLessThanWellFounded DEF OpToRel
<1>2. PICK i \in T : \A j \in T : <<j, i>> \notin R
  <2> HIDE DEF R
  <2> QED  BY <1>1, WFMin
<1>3. \A j \in T : i <= j
  <2> TAKE j \in T
  <2>1. i \in Nat /\ j \in Nat
    OBVIOUS
  <2>2. j < i => <<j, i>> \in R
    BY <2>1
  <2> HIDE DEF R
  <2> QED
    BY <1>2, <2>1, <2>2
<1> QED
  BY <1>2, <1>3

LEMMA LeastIn == ASSUME NEW S, S \subseteq Ids, S # {} PROVE Least(S) \in S
<1>1. S \in SUBSET Nat
  BY HostAssumption DEF Ids
<1>2. \E i \in S : \A j \in S : i <= j
  BY <1>1, FirstExists
<1> QED
  BY <1>2 DEF Least

LEMMA WorkTypes ==
    /\ \A i \in Ids : Decide(i) \in Work /\ [does |-> "remove", id |-> i] \in Work
    /\ \A u \in Urls : Dial(u) \in Work
    /\ \A c \in Clients : Find(c) \in Work
    /\ \A w \in Work : /\ w.does \in {"decide", "remove"} => w.id \in Ids
                       /\ w.does = "dial" => w.url \in Urls
                       /\ w.does = "find" => w.client \in Clients
                       /\ \A i : w = Decide(i) => w.does = "decide" /\ w.id = i
                       /\ w.does = "decide" => w = Decide(w.id)
BY DEF Work, Decide, Dial, Find

LEMMA ChoiceType == \A c : Choice(c) \in Psks
BY DEF Choice, Psks

----------------------------------------------------------------------------
(* One connection.                                                         *)

\* What a step leaves of a connection.
Evolves(s, t) ==
    /\ IsConnection(t)
    /\ s.phase # "unused" =>
         /\ t.phase # "unused"
         /\ s.phase = "removed" => t.phase = "removed"
         /\ t.phase = "removed" \/ t.url = s.url
         /\ \A c \in Clients : OwedFor(s, c) => OwedFor(t, c)
    /\ Takeable(s) => t.phase = "removed" \/ (Takeable(t) /\ t.client = s.client)

LEMMA SameEvolves == ASSUME NEW s, IsConnection(s) PROVE Evolves(s, s)
BY DEF Evolves

LEMMA ClosingEvolves ==
    ASSUME NEW s, IsConnection(s), s.phase \notin {"unused", "removed"}
    PROVE  /\ Evolves(s, Closing(s)) /\ Closing(s).phase \in {"closing", "ended"} /\ ~Closing(s).attempt
<1>1. s \in Connection /\ s.attempt \in BOOLEAN /\ s.said \in BOOLEAN
  BY DEF IsConnection, Connection
<1>2. /\ Closing(s) \in Connection
      /\ Closing(s).phase \in {"closing", "ended"} /\ Closing(s).attempt = FALSE
      /\ Closing(s).url = s.url /\ Closing(s).client = s.client /\ Closing(s).said = s.said
  BY <1>1 DEF Closing, Connection, Phases, Psks
<1>3. IsConnection(Closing(s))
  BY <1>2 DEF IsConnection
<1> QED
  BY <1>2, <1>3 DEF Evolves, OwedFor, Takeable

LEMMA UnusedIs == IsConnection(Unused) /\ IsConnection([Unused EXCEPT !.phase = "removed"])
<1>1. Unused \in Connection /\ [Unused EXCEPT !.phase = "removed"] \in Connection
  BY DEF Unused, Connection, Phases, Psks
<1>2. NoClient \notin Clients
  BY HostAssumption
<1> QED
  BY <1>1, <1>2 DEF IsConnection, Unused

LEMMA ConnectionsAre ==
    ASSUME HostInv
    PROVE  /\ connections \in [Ids -> Connection]
           /\ \A i \in Ids : IsConnection(connections[i]) /\ connections[i] \in Connection
           /\ \A i \in Ids : connections[i].url \in Urls \cup {NoUrl} /\ connections[i].client \in Clients \cup {NoClient}
BY DEF HostInv, HostTypeOK, IsConnection, Connection

LEMMA OneEvolves ==
    ASSUME HostInv, NEW i \in Ids, NEW t, connections' = [connections EXCEPT ![i] = t], Evolves(connections[i], t)
    PROVE  /\ connections' \in [Ids -> Connection]
           /\ \A j \in Ids : Evolves(connections[j], connections'[j])
           /\ \A j \in Ids : j # i => connections'[j] = connections[j]
           /\ connections'[i] = t
<1>1. connections \in [Ids -> Connection] /\ t \in Connection
  BY ConnectionsAre DEF Evolves, IsConnection
<1>2. \A j \in Ids : connections'[j] = IF j = i THEN t ELSE connections[j]
  BY <1>1
<1>3. \A j \in Ids : Evolves(connections[j], connections'[j])
  BY <1>2, ConnectionsAre, SameEvolves
<1> QED
  BY <1>1, <1>2, <1>3

\* What every step does to the connections; only remove() removes one.
AllEvolve ==
    /\ connections' \in [Ids -> Connection]
    /\ \A j \in Ids : Evolves(connections[j], connections'[j])

LEMMA UnchangedEvolve == ASSUME HostInv, UNCHANGED connections PROVE AllEvolve
BY ConnectionsAre, SameEvolves DEF AllEvolve

\* The sessions' steps.
LEMMA OpensEvolves ==
    ASSUME HostInv, NEW url \in Urls \cup {NoUrl}, Opens(url)
    PROVE  AllEvolve /\ \E i \in Ids : /\ connections[i].phase = "unused" /\ connections'[i].phase = "handshake"
                                       /\ ~connections'[i].attempt
                                       /\ \A j \in Ids \ {i} : connections'[j] = connections[j]
<1>1. PICK i \in Ids : /\ connections[i].phase = "unused"
                       /\ connections' = [connections EXCEPT ![i] = [Unused EXCEPT !.phase = "handshake", !.url = url]]
  BY DEF Opens
<1> DEFINE t == [Unused EXCEPT !.phase = "handshake", !.url = url]
<1>2. /\ t \in Connection /\ t.phase = "handshake" /\ t.client = NoClient /\ t.url = url /\ ~t.said /\ ~t.attempt
  BY DEF Unused, Connection, Phases, Psks
<1>3. connections' = [connections EXCEPT ![i] = t]
  BY <1>1
<1> HIDE DEF t
<1>4. IsConnection(t)
  BY <1>2, HostAssumption DEF IsConnection
<1>5. Evolves(connections[i], t)
  BY <1>1, <1>4 DEF Evolves, Takeable
<1>6. /\ AllEvolve /\ connections'[i] = t
      /\ \A j \in Ids : j # i => connections'[j] = connections[j]
  BY <1>3, <1>5, OneEvolves DEF AllEvolve
<1> QED
  BY <1>1, <1>2, <1>6

LEMMA EstablishEvolves ==
    ASSUME HostInv, NEW i \in Ids, Establish(i)
    PROVE  /\ AllEvolve /\ connections[i].phase = "handshake"
           /\ connections'[i].phase = "hello" /\ connections'[i].attempt = connections[i].attempt
           /\ \A j \in Ids : j # i => connections'[j] = connections[j]
<1> DEFINE s == connections[i]
<1>1. s.phase = "handshake" /\ IsConnection(s) /\ s \in Connection /\ s.client = NoClient /\ s.url \in Urls \cup {NoUrl}
  BY ConnectionsAre DEF Establish, IsConnection
<1>2. PICK c \in (IF s.url = NoUrl THEN Clients ELSE {ClientAt[s.url]}) :
          connections' = [connections EXCEPT ![i].phase = "hello", ![i].client = c,
                             ![i].psk = IF Matches(c, Choice(c)) THEN Choice(c) ELSE "sentinel"]
  BY DEF Establish
<1>3. c \in Clients /\ (s.url \in Urls => c = ClientAt[s.url])
  BY <1>1, <1>2, HostAssumption
<1> DEFINE psk == IF Matches(c, Choice(c)) THEN Choice(c) ELSE "sentinel"
           t   == [s EXCEPT !.phase = "hello", !.client = c, !.psk = psk]
<1>4. psk \in Psks
  BY ChoiceType DEF Psks
<1>5. connections' = [connections EXCEPT ![i] = t]
  BY <1>2, ConnectionsAre
<1> HIDE DEF psk
<1>6. /\ t \in Connection /\ t.phase = "hello" /\ t.client = c /\ t.url = s.url /\ t.said = s.said
      /\ t.attempt = s.attempt
  BY <1>1, <1>3, <1>4 DEF Connection, Phases
<1> HIDE DEF t
<1>7. IsConnection(t)
  BY <1>3, <1>6 DEF IsConnection
<1>8. Evolves(s, t)
  BY <1>1, <1>3, <1>6, <1>7, HostAssumption DEF Evolves, OwedFor, Takeable
<1> QED
  BY <1>1, <1>5, <1>6, <1>8, OneEvolves DEF AllEvolve

----------------------------------------------------------------------------
(* The sessions and the operator.                                          *)

LEMMA PostsAt ==
    ASSUME HostInv, NEW w \in Work, Post(w)
    PROVE  /\ posted' \in Seq(Work) /\ Len(posted') <= MaxPosted
           /\ \A k \in 1..Len(posted) : k \in 1..Len(posted') /\ posted'[k] = posted[k]
           /\ Len(posted') \in 1..Len(posted') /\ posted'[Len(posted')] = w
<1>1. posted \in Seq(Work) /\ Len(posted) \in Nat /\ MaxPosted \in Nat
  BY HostAssumption DEF HostInv, HostTypeOK
<1>2. posted' = Append(posted, w) /\ Len(posted) < MaxPosted
  BY DEF Post
<1> QED
  BY <1>1, <1>2

\* Nothing that is on its way to the worker is lost.
StillComing == \A j \in Ids : Coming(j) => Coming(j)'

LEMMA PostKeepsComing ==
    ASSUME HostInv, NEW w \in Work, Post(w), operator' = operator
    PROVE  StillComing /\ \A i \in Ids : w = Decide(i) => Coming(i)'
<1>1. \A k \in 1..Len(posted) : k \in 1..Len(posted') /\ posted'[k] = posted[k]
  BY PostsAt
<1>2. Len(posted') \in 1..Len(posted') /\ posted'[Len(posted')] = w
  BY PostsAt
<1> QED
  BY <1>1, <1>2 DEF StillComing, Coming

LEMMA NoPostKeepsComing == ASSUME posted' = posted, operator' = operator PROVE StillComing
BY DEF StillComing, Coming

\* A step that takes nothing from the worker, removes nothing and begins no
\* attempt; a connection that comes to wait for a decision has one coming.
Steady ==
    /\ AllEvolve /\ StillComing
    /\ worker' = worker /\ requested \subseteq requested' /\ requestedAt \subseteq requestedAt'
    /\ \A j \in Ids : /\ connections'[j].phase = "removed" => connections[j].phase = "removed"
                      /\ connections'[j].attempt => connections[j].attempt
    /\ owed' \subseteq Ids \X (Clients \cup Urls)
    /\ \A o \in owed' : /\ o \in owed \/ IsOwed(o)'
                        /\ (o \in owed /\ (Waits(o[1])' => Waits(o[1]))) \/ Coming(o[1])'

LEMMA OwedTypes ==
    ASSUME HostInv
    PROVE  \A o \in owed : o[1] \in Ids /\ (o[2] \in Clients \/ o[2] \in Urls)
BY DEF HostInv, HostTypeOK

LEMMA OwedStays ==
    ASSUME HostInv, AllEvolve, NEW o \in owed,
           o[2] \in requested => o[2] \in requested', o[2] \in requestedAt => o[2] \in requestedAt'
    PROVE  IsOwed(o)'
<1> DEFINE s == connections[o[1]]
           t == connections'[o[1]]
<1>1. o[1] \in Ids
  BY OwedTypes
<1>2. IsOwed(o)
  BY DEF HostInv, OwedInv
<1>3. Evolves(s, t)
  BY <1>1 DEF AllEvolve
<1> QED
  BY <1>2, <1>3 DEF IsOwed, Evolves

LEMMA WorkerIs ==
    ASSUME HostInv
    PROVE  /\ Reads => worker.id \in Ids /\ worker # Idle
           /\ worker.at = "viewed" => worker.psk \in Psks /\ worker.attempt \in BOOLEAN
           /\ worker.at = "asked" => worker.psk \in Psks /\ worker.asks \in BOOLEAN
           /\ worker.at = "decided" => worker.choice \in Psks /\ worker.does \in Decisions
           /\ worker.at = "gone" => worker.url \in Urls /\ worker # Idle
<1>1. worker \in {Idle} \cup Views \cup Choices \cup [at : {"gone"}, url : Urls]
  BY DEF HostInv, HostTypeOK
<1> QED
  BY <1>1 DEF Idle, Views, Choices, Reads

LEMMA SteadyKeeps ==
    ASSUME HostInv, Steady
    PROVE  WorkerInv' /\ OwedInv' /\ AskedIsDecided'
<1>1. OwedInv'
  BY OwedStays DEF Steady, OwedInv
<1>2. ASSUME Reads
      PROVE  worker.id \in Ids
  BY <1>2, WorkerIs
<1>3. \A o \in owed' : o[1] \in Ids
  BY DEF Steady
<1>4. WorkerInv'
  <2> SUFFICES ASSUME Reads PROVE WorkerInv'
    BY DEF WorkerInv, Steady, Reads
  <2> DEFINE s == connections[worker.id]
             t == connections'[worker.id]
  <2>1. worker.id \in Ids /\ worker' = worker
    BY <1>2 DEF Steady
  <2>2. /\ Takeable(s) /\ (s.attempt => worker.at = "viewed" /\ worker.attempt)
        /\ ReadsAsks => s.client \in requested
        /\ \A o \in owed : o[1] = worker.id /\ Unread(o) => Coming(o[1])
    BY DEF HostInv, WorkerInv
  <2>3. Evolves(s, t) /\ (t.phase = "removed" => s.phase = "removed") /\ (t.attempt => s.attempt)
    BY <2>1 DEF Steady, AllEvolve
  <2>4. Takeable(t) /\ t.client = s.client
    BY <2>2, <2>3 DEF Evolves, Takeable
  <2>5. \A o \in owed' : (o \in owed /\ (Waits(o[1])' => Waits(o[1]))) \/ Coming(o[1])'
    BY DEF Steady
  <2>6. \A o \in owed' : o[1] = worker.id /\ Unread(o)' => Coming(o[1])'
    BY <2>1, <2>2, <2>5 DEF Steady, StillComing, Unread
  <2>7. ReadsAsks => t.client \in requested'
    BY <2>2, <2>4 DEF Steady
  <2> QED
    BY <2>1, <2>2, <2>3, <2>4, <2>6, <2>7 DEF WorkerInv, ReadsAsks
<1>5. AskedIsDecided'
  <2> SUFFICES ASSUME NEW o \in owed', Waits(o[1])' PROVE WillDecide(o[1])'
    BY DEF AskedIsDecided, Waits
  <2>1. CASE Coming(o[1])'
    BY <2>1 DEF Coming, WillDecide
  <2>2. CASE o \in owed /\ Waits(o[1])
    <3>1. WillDecide(o[1])
      BY <2>2 DEF HostInv, AskedIsDecided, Waits
    <3>2. CASE Reads /\ worker.id = o[1]
      BY <3>2 DEF WillDecide, Steady, Reads
    <3>3. CASE Coming(o[1])
      BY <3>3, <2>1, <1>3 DEF Steady, StillComing
    <3> QED
      BY <3>1, <3>2, <3>3 DEF WillDecide, Coming, Reads
  <2> QED
    BY <2>1, <2>2 DEF Steady
<1> QED
  BY <1>1, <1>4, <1>5

PostedOK   == posted \in Seq(Work) /\ Len(posted) <= MaxPosted
StoreOK    == records \subseteq Clients /\ tokens \subseteq Clients /\ known \subseteq Clients
OperatorOK == \/ operator = Idle
              \/ operator \in [at : {"found"}, id : Ids, client : Clients] \cup [at : {"post"}, work : Work]

LEMMA OperatorStays == ASSUME HostInv, AllEvolve, operator' = operator PROVE OperatorInv'
<1> SUFFICES ASSUME operator.at = "found" PROVE OperatorInv'
  BY DEF OperatorInv
<1>1. operator.id \in Ids /\ operator.client \in Clients
  BY DEF HostInv, HostTypeOK, Idle
<1>2. connections[operator.id].phase # "unused" /\ OwedFor(connections[operator.id], operator.client)
  BY DEF HostInv, OperatorInv
<1>3. Evolves(connections[operator.id], connections'[operator.id])
  BY <1>1 DEF AllEvolve
<1> QED
  BY <1>1, <1>2, <1>3 DEF OperatorInv, Evolves

LEMMA DueStays == ASSUME HostInv, UNCHANGED <<requested, requestedAt, operator, due>> PROVE DueInv'
BY DEF HostInv, DueInv, Asked, AtUrls

LEMMA SteadyHost ==
    ASSUME HostInv, Steady, PostedOK', StoreOK', OperatorOK', OperatorInv', DueInv',
           requested' \subseteq Clients, requestedAt' \subseteq Urls
    PROVE  HostInv'
<1>1. WorkerInv' /\ OwedInv' /\ AskedIsDecided'
  BY SteadyKeeps
<1>2. \A i \in Ids : IsConnection(connections'[i])
  BY DEF Steady, AllEvolve, Evolves
<1>3. HostTypeOK'
  <2>1. connections' \in [Ids -> Connection] /\ owed' \subseteq Ids \X (Clients \cup Urls)
    BY DEF Steady, AllEvolve
  <2>2. (worker \in {Idle} \cup Views \cup Choices \cup [at : {"gone"}, url : Urls])'
    BY DEF HostInv, HostTypeOK, Steady
  <2> QED
    BY <2>1, <2>2 DEF HostTypeOK, PostedOK, StoreOK, OperatorOK
<1> QED
  BY <1>1, <1>2, <1>3 DEF HostInv

\* A session's step leaves the requests, the operator and the history alone.
LEMMA SessionKeeps ==
    ASSUME HostInv, Steady, PostedOK', StoreOK', UNCHANGED <<requested, requestedAt, operator, due>>
    PROVE  HostInv'
<1>1. OperatorInv' /\ DueInv'
  BY OperatorStays, DueStays DEF Steady
<1>2. OperatorOK' /\ requested' \subseteq Clients /\ requestedAt' \subseteq Urls
  BY DEF HostInv, HostTypeOK, OperatorOK
<1> QED
  BY <1>1, <1>2, SteadyHost

LEMMA ItsStore == ASSUME HostInv, UNCHANGED store PROVE StoreOK'
BY DEF HostInv, HostTypeOK, StoreOK, store
LEMMA ItsPosted == ASSUME HostInv, UNCHANGED posted PROVE PostedOK'
BY DEF HostInv, HostTypeOK, PostedOK
LEMMA ItsOwed == ASSUME HostInv, UNCHANGED owed PROVE owed' \subseteq Ids \X (Clients \cup Urls)
BY DEF HostInv, HostTypeOK

\* One connection changes, and none comes to wait.
LEMMA QuietChange ==
    ASSUME HostInv, NEW i \in Ids, NEW t, connections' = [connections EXCEPT ![i] = t],
           Evolves(connections[i], t), t.phase # "removed", t.attempt => connections[i].attempt,
           t.phase # "ready", UNCHANGED <<requested, requestedAt, posted, worker, operator, owed>>
    PROVE  Steady
<1>1. /\ AllEvolve /\ connections'[i] = t
      /\ \A j \in Ids : j # i => connections'[j] = connections[j]
  BY OneEvolves DEF AllEvolve
<1>2. StillComing
  BY NoPostKeepsComing
<1>3. \A o \in owed' : o \in owed /\ o[1] \in Ids /\ (Waits(o[1])' => Waits(o[1]))
  BY <1>1, OwedTypes DEF Waits, Ready
<1>4. \A j \in Ids : /\ connections'[j].phase = "removed" => connections[j].phase = "removed"
                     /\ connections'[j].attempt => connections[j].attempt
  BY <1>1
<1> QED
  BY <1>1, <1>2, <1>3, <1>4, ItsOwed DEF Steady

LEMMA AcceptKeeps == ASSUME HostInv, Accept PROVE HostInv'
<1>1. PICK i \in Ids : /\ connections[i].phase = "unused" /\ connections'[i].phase = "handshake"
                       /\ ~connections'[i].attempt
                       /\ \A j \in Ids \ {i} : connections'[j] = connections[j]
  BY OpensEvolves DEF Accept
<1>2. AllEvolve
  BY OpensEvolves DEF Accept
<1>3. UNCHANGED <<requested, requestedAt, posted, worker, operator, records, tokens, known, due, owed>>
  BY DEF Accept, store, counts
<1>4. \A o \in owed' : o \in owed /\ o[1] \in Ids /\ (Waits(o[1])' => Waits(o[1]))
  BY <1>1, <1>3, OwedTypes DEF Waits, Ready
<1>5. \A j \in Ids : /\ connections'[j].phase = "removed" => connections[j].phase = "removed"
                     /\ connections'[j].attempt => connections[j].attempt
  BY <1>1
<1>6. Steady
  BY <1>2, <1>3, <1>4, <1>5, NoPostKeepsComing, ItsOwed DEF Steady
<1> QED
  BY <1>3, <1>6, SessionKeeps, ItsStore, ItsPosted DEF store

LEMMA EstablishKeeps == ASSUME HostInv, NEW i \in Ids, Establish(i) PROVE HostInv'
<1>1. /\ connections[i].phase = "handshake"
      /\ connections'[i].phase = "hello" /\ connections'[i].attempt = connections[i].attempt
      /\ \A j \in Ids : j # i => connections'[j] = connections[j]
  BY EstablishEvolves
<1>2. AllEvolve
  BY EstablishEvolves
<1>3. UNCHANGED <<requested, requestedAt, posted, worker, operator, records, tokens, known, due, owed>>
  BY DEF Establish, store, counts
<1>4. \A o \in owed' : o \in owed /\ o[1] \in Ids /\ (Waits(o[1])' => Waits(o[1]))
  BY <1>1, <1>3, OwedTypes DEF Waits, Ready
<1>5. \A j \in Ids : /\ connections'[j].phase = "removed" => connections[j].phase = "removed"
                     /\ connections'[j].attempt => connections[j].attempt
  BY <1>1
<1>6. Steady
  BY <1>2, <1>3, <1>4, <1>5, NoPostKeepsComing, ItsOwed DEF Steady
<1> QED
  BY <1>3, <1>6, SessionKeeps, ItsStore, ItsPosted DEF store

LEMMA ReestablishKeeps == ASSUME HostInv, NEW i \in Ids, Reestablish(i) PROVE HostInv'
<1> DEFINE s == connections[i]
           h == [s EXCEPT !.phase = "hello", !.said = FALSE, !.psk = s.choice, !.choice = "sentinel"]
<1>1. s.phase = "rehandshake" /\ IsConnection(s) /\ s \in Connection
  BY ConnectionsAre DEF Reestablish
<1>2. UNCHANGED <<requested, requestedAt, posted, worker, operator, records, tokens, known, due, owed>>
  BY DEF Reestablish, store, counts
<1>3. PICK t : connections' = [connections EXCEPT ![i] = t] /\ (t = h \/ t = Closing(s))
  BY DEF Reestablish
<1>4. /\ h \in Connection /\ h.phase = "hello" /\ h.client = s.client /\ h.url = s.url /\ h.attempt = s.attempt
      /\ h.said = FALSE
  BY <1>1 DEF Connection, Phases, Psks
<1> HIDE DEF h
<1>5. IsConnection(h)
  BY <1>1, <1>4 DEF IsConnection
<1>6. Evolves(s, h)
  BY <1>1, <1>4, <1>5 DEF Evolves, OwedFor, Takeable
<1>7. Evolves(s, t) /\ t.phase \notin {"removed", "ready"} /\ (t.attempt => s.attempt)
  BY <1>1, <1>3, <1>4, <1>6, ClosingEvolves
<1>8. Steady
  BY <1>2, <1>3, <1>7, QuietChange
<1> QED
  BY <1>2, <1>8, SessionKeeps, ItsStore, ItsPosted DEF store

LEMMA OnHelloKeeps == ASSUME HostInv, NEW i \in Ids, OnHello(i) PROVE HostInv'
<1> DEFINE s == connections[i]
           t == [s EXCEPT !.phase = "ready", !.said = TRUE]
<1>1. s.phase = "hello" /\ IsConnection(s) /\ s \in Connection /\ Post(Decide(i))
  BY ConnectionsAre DEF OnHello
<1>2. UNCHANGED <<requested, requestedAt, worker, operator, records, tokens, known, due>>
  BY DEF OnHello, store
<1>3. connections' = [connections EXCEPT ![i] = t]
  BY ConnectionsAre DEF OnHello
<1>4. t \in Connection /\ t.phase = "ready" /\ t.client = s.client /\ t.url = s.url /\ t.attempt = s.attempt /\ t.said
  BY <1>1 DEF Connection, Phases
<1> HIDE DEF t
<1>5. IsConnection(t)
  BY <1>1, <1>4 DEF IsConnection
<1>6. Evolves(s, t)
  BY <1>1, <1>4, <1>5 DEF Evolves, OwedFor, Takeable
<1>7. AllEvolve /\ connections'[i] = t /\ \A j \in Ids : j # i => connections'[j] = connections[j]
  BY <1>3, <1>6, OneEvolves DEF AllEvolve
<1>8. PostedOK' /\ StillComing /\ Coming(i)'
  BY <1>1, <1>2, WorkTypes, PostsAt, PostKeepsComing DEF PostedOK
<1>9. \A o \in owed' : o \in owed \/ (o = <<i, s.url>> /\ s.url \in requestedAt)
  BY DEF OnHello
<1>10. requestedAt \subseteq Urls
  BY DEF HostInv, HostTypeOK
<1>11. \A o \in owed' : o[1] \in Ids /\ (o[1] = i => Coming(o[1])')
  BY <1>8, <1>9, OwedTypes
<1>12. \A o \in owed' : /\ o \in owed \/ IsOwed(o)'
                        /\ (o \in owed /\ (Waits(o[1])' => Waits(o[1]))) \/ Coming(o[1])'
  <2> TAKE o \in owed'
  <2>1. CASE o[1] = i
    <3>1. o = <<i, s.url>> /\ s.url \in requestedAt => IsOwed(o)'
      BY <1>2, <1>4, <1>7, <1>10, HostAssumption DEF IsOwed
    <3> QED
      BY <2>1, <3>1, <1>9, <1>11
  <2>2. CASE o[1] # i
    BY <2>2, <1>7, <1>9, <1>11 DEF Waits, Ready
  <2> QED
    BY <2>1, <2>2
<1>13. owed' \subseteq Ids \X (Clients \cup Urls)
  <2>1. owed \subseteq Ids \X (Clients \cup Urls)
    BY DEF HostInv, HostTypeOK
  <2> QED
    BY <2>1, <1>9, <1>10
<1>14. \A j \in Ids : /\ connections'[j].phase = "removed" => connections[j].phase = "removed"
                      /\ connections'[j].attempt => connections[j].attempt
  BY <1>4, <1>7
<1>15. Steady
  BY <1>2, <1>7, <1>8, <1>12, <1>13, <1>14 DEF Steady
<1> QED
  BY <1>2, <1>8, <1>15, SessionKeeps, ItsStore DEF store

\* An attempt ends and the connection stays as it is.
LEMMA AttemptEnds ==
    ASSUME HostInv, NEW i \in Ids, connections' = [connections EXCEPT ![i].attempt = FALSE], Ready(i)
    PROVE  /\ AllEvolve /\ \A j \in Ids : j # i => connections'[j] = connections[j]
           /\ connections'[i].phase = "ready" /\ ~connections'[i].attempt
<1> DEFINE s == connections[i]
           t == [s EXCEPT !.attempt = FALSE]
<1>1. IsConnection(s) /\ s \in Connection /\ connections' = [connections EXCEPT ![i] = t] /\ s.phase = "ready"
  BY ConnectionsAre DEF Ready
<1>2. t \in Connection /\ t.phase = s.phase /\ t.client = s.client /\ t.url = s.url /\ t.attempt = FALSE /\ t.said = s.said
  BY <1>1 DEF Connection
<1> HIDE DEF t
<1>3. IsConnection(t)
  BY <1>1, <1>2 DEF IsConnection
<1>4. Evolves(s, t)
  BY <1>1, <1>2, <1>3 DEF Evolves, OwedFor, Takeable
<1>5. AllEvolve /\ connections'[i] = t /\ \A j \in Ids : j # i => connections'[j] = connections[j]
  BY <1>1, <1>4, OneEvolves DEF AllEvolve
<1> QED
  BY <1>1, <1>2, <1>5

LEMMA OnPairingEndedKeeps == ASSUME HostInv, NEW i \in Ids, OnPairingEnded(i) PROVE HostInv'
<1>1. /\ AllEvolve /\ \A j \in Ids : j # i => connections'[j] = connections[j]
      /\ connections'[i].phase = "ready" /\ ~connections'[i].attempt
  BY AttemptEnds DEF OnPairingEnded
<1>2. UNCHANGED <<requested, requestedAt, worker, operator, records, tokens, known, due, owed>>
  BY DEF OnPairingEnded, store, counts
<1>3. PostedOK' /\ StillComing /\ Coming(i)'
  BY <1>2, WorkTypes, PostsAt, PostKeepsComing DEF OnPairingEnded, PostedOK
<1>4. \A o \in owed' : o \in owed /\ o[1] \in Ids /\ ((Waits(o[1])' => Waits(o[1])) \/ Coming(o[1])')
  <2> TAKE o \in owed'
  <2>1. o \in owed /\ o[1] \in Ids
    BY <1>2, OwedTypes
  <2>2. CASE o[1] = i
    BY <2>1, <2>2, <1>3
  <2>3. CASE o[1] # i
    BY <2>1, <2>3, <1>1 DEF Waits, Ready
  <2> QED
    BY <2>1, <2>2, <2>3
<1>5. \A j \in Ids : /\ connections'[j].phase = "removed" => connections[j].phase = "removed"
                     /\ connections'[j].attempt => connections[j].attempt
  BY <1>1
<1>6. Steady
  BY <1>1, <1>2, <1>3, <1>4, <1>5, ItsOwed DEF Steady
<1> QED
  BY <1>2, <1>3, <1>6, SessionKeeps, ItsStore DEF store

LEMMA OnPairedKeeps == ASSUME HostInv, NEW i \in Ids, OnPaired(i) PROVE HostInv'
<1> DEFINE s == connections[i]
           r == [s EXCEPT !.phase = "rehandshake", !.choice = "longTerm", !.attempt = FALSE]
<1>1. s.phase = "ready" /\ IsConnection(s) /\ s \in Connection /\ s.client \in Clients
  BY ConnectionsAre DEF OnPaired, Ready, IsConnection
<1>2. UNCHANGED <<requested, requestedAt, posted, worker, operator, due, owed>>
  BY DEF OnPaired, counts
<1>3. PICK t : connections' = [connections EXCEPT ![i] = t] /\ (t = r \/ t = Closing(s))
  BY ConnectionsAre DEF OnPaired
<1>4. /\ r \in Connection /\ r.phase = "rehandshake" /\ r.client = s.client /\ r.url = s.url /\ r.attempt = FALSE
      /\ r.said = s.said
  BY <1>1 DEF Connection, Phases, Psks
<1> HIDE DEF r
<1>5. IsConnection(r)
  BY <1>1, <1>4 DEF IsConnection
<1>6. Evolves(s, r)
  BY <1>1, <1>4, <1>5 DEF Evolves, OwedFor, Takeable
<1>7. Evolves(s, t) /\ t.phase \notin {"removed", "ready"} /\ ~t.attempt
  BY <1>1, <1>3, <1>4, <1>6, ClosingEvolves
<1>8. Steady
  BY <1>2, <1>3, <1>7, QuietChange
<1>9. StoreOK'
  BY <1>1 DEF OnPaired, store, HostInv, HostTypeOK, StoreOK
<1> QED
  BY <1>2, <1>8, <1>9, SessionKeeps, ItsPosted

LEMMA DropsKeeps == ASSUME HostInv, NEW i \in Ids, Drops(i) PROVE HostInv'
<1>1. connections[i].phase \in {"handshake", "hello", "ready", "rehandshake"} /\ IsConnection(connections[i])
  BY ConnectionsAre DEF Drops
<1>2. UNCHANGED <<requested, requestedAt, posted, worker, operator, records, tokens, known, due, owed>>
  BY DEF Drops, store, counts
<1>3. connections' = [connections EXCEPT ![i] = Closing(connections[i])]
  BY DEF Drops
<1>4. Steady
  BY <1>1, <1>2, <1>3, QuietChange, ClosingEvolves
<1> QED
  BY <1>2, <1>4, SessionKeeps, ItsStore, ItsPosted DEF store

LEMMA EndedKeeps == ASSUME HostInv, NEW i \in Ids, Ended(i) PROVE HostInv'
<1> DEFINE s == connections[i]
           t == [s EXCEPT !.phase = "ended"]
           w == [does |-> "remove", id |-> i]
<1>1. s.phase = "closing" /\ IsConnection(s) /\ s \in Connection /\ Post(w)
  BY ConnectionsAre DEF Ended
<1>2. UNCHANGED <<requested, requestedAt, worker, operator, records, tokens, known, due, owed>>
  BY DEF Ended, store, counts
<1>3. connections' = [connections EXCEPT ![i] = t]
  BY ConnectionsAre DEF Ended
<1>4. t \in Connection /\ t.phase = "ended" /\ t.client = s.client /\ t.url = s.url /\ t.attempt = s.attempt /\ t.said = s.said
  BY <1>1 DEF Connection, Phases
<1> HIDE DEF t
<1>5. IsConnection(t)
  BY <1>1, <1>4 DEF IsConnection
<1>6. Evolves(s, t)
  BY <1>1, <1>4, <1>5 DEF Evolves, OwedFor, Takeable
<1>7. AllEvolve /\ connections'[i] = t /\ \A j \in Ids : j # i => connections'[j] = connections[j]
  BY <1>3, <1>6, OneEvolves DEF AllEvolve
<1>8. w \in Work
  BY WorkTypes
<1> HIDE DEF w
<1>9. PostedOK' /\ StillComing
  BY <1>1, <1>2, <1>8, PostsAt, PostKeepsComing DEF PostedOK
<1>10. \A o \in owed' : o \in owed /\ o[1] \in Ids /\ (Waits(o[1])' => Waits(o[1]))
  BY <1>2, <1>4, <1>7, OwedTypes DEF Waits, Ready
<1>11. \A j \in Ids : /\ connections'[j].phase = "removed" => connections[j].phase = "removed"
                      /\ connections'[j].attempt => connections[j].attempt
  BY <1>4, <1>7
<1>12. Steady
  BY <1>2, <1>7, <1>9, <1>10, <1>11, ItsOwed DEF Steady
<1> QED
  BY <1>2, <1>9, <1>12, SessionKeeps, ItsStore DEF store

LEMMA NoChange ==
    ASSUME HostInv, UNCHANGED <<connections, worker, requested, requestedAt, owed>>, StillComing
    PROVE  Steady
<1>1. AllEvolve
  BY UnchangedEvolve
<1> QED
  BY <1>1, ItsOwed DEF Steady, Waits, Ready

LEMMA LosesRecordKeeps == ASSUME HostInv, NEW c \in Clients, LosesRecord(c) PROVE HostInv'
<1>1. UNCHANGED <<connections, requested, requestedAt, posted, worker, operator, due, owed>>
  BY DEF LosesRecord, counts
<1>2. StoreOK'
  BY DEF LosesRecord, HostInv, HostTypeOK, StoreOK
<1> QED
  BY <1>1, <1>2, NoChange, NoPostKeepsComing, SessionKeeps, ItsPosted

LEMMA SessionStepKeeps == ASSUME HostInv, SessionStep PROVE HostInv'
BY AcceptKeeps, EstablishKeeps, ReestablishKeeps, OnHelloKeeps, OnPairingEndedKeeps, OnPairedKeeps,
   DropsKeeps, EndedKeeps, LosesRecordKeeps DEF SessionStep

LEMMA SayingIn ==
    ASSUME HostInv, NEW c \in Clients, Saying(c) # {}
    PROVE  /\ Least(Saying(c)) \in Ids /\ Least(Saying(c)) \in Held
           /\ connections[Least(Saying(c))].said /\ connections[Least(Saying(c))].client = c
<1>1. Saying(c) \subseteq Ids
  BY DEF Saying, Held
<1>2. Least(Saying(c)) \in Saying(c)
  BY <1>1, LeastIn
<1> QED
  BY <1>2 DEF Saying, Held

LEMMA DueSame ==
    ASSUME HostInv, UNCHANGED <<requested, requestedAt, due>>, operator.at # "found", operator'.at # "found"
    PROVE  DueInv'
BY DEF HostInv, DueInv, Asked, AtUrls

LEMMA AtUrlsCount ==
    ASSUME HostInv, NEW c \in Clients
    PROVE  /\ IsFiniteSet(AtUrls(c)) /\ Cardinality(AtUrls(c)) \in Nat /\ due[c] \in Int /\ due[c] >= Asked(c)
<1>1. IsFiniteSet(requestedAt) /\ due \in [Clients -> Int] /\ due[c] >= Asked(c)
  BY DEF HostInv, DueInv
<1>2. AtUrls(c) \subseteq requestedAt
  BY DEF AtUrls
<1>3. IsFiniteSet(AtUrls(c))
  BY <1>1, <1>2, FS_Subset
<1> QED
  BY <1>1, <1>3, FS_CardinalityType

LEMMA OperatorStoreOK == ASSUME HostInv PROVE StoreOK /\ PostedOK /\ OperatorOK
BY DEF HostInv, HostTypeOK, StoreOK, PostedOK, OperatorOK

LEMMA ItsRequests == ASSUME HostInv PROVE requested \subseteq Clients /\ requestedAt \subseteq Urls
BY DEF HostInv, HostTypeOK

LEMMA ReconsiderKeeps == ASSUME HostInv, NEW c \in Clients, Reconsider(c) PROVE HostInv'
<1>0. PICK w : w = Decide(Least(Saying(c)))
  OBVIOUS
<1>1. w \in Work /\ Post(w)
  BY <1>0, SayingIn, WorkTypes DEF Reconsider
<1>2. UNCHANGED <<connections, requested, requestedAt, worker, operator, records, tokens, known, due, owed>>
  BY DEF Reconsider, store
<1>3. PostedOK' /\ StillComing
  BY <1>1, <1>2, PostsAt, PostKeepsComing DEF PostedOK
<1> QED
  BY <1>2, <1>3, NoChange, SessionKeeps, ItsStore DEF store

LEMMA EnterPairingTokenKeeps == ASSUME HostInv, NEW c \in Clients, EnterPairingToken(c) PROVE HostInv'
<1>1. /\ UNCHANGED <<connections, requested, requestedAt, posted, worker, records, known, due, owed>>
      /\ operator = Idle /\ operator' = [at |-> "post", work |-> Find(c)] /\ tokens' = tokens \cup {c}
  BY DEF EnterPairingToken, Calls
<1>2. StillComing
  BY <1>1 DEF StillComing, Coming, Idle
<1>3. OperatorOK' /\ OperatorInv' /\ StoreOK'
  BY <1>1, WorkTypes, OperatorStoreOK DEF OperatorOK, OperatorInv, StoreOK
<1>4. DueInv'
  BY <1>1, DueSame DEF Idle
<1> QED
  BY <1>1, <1>2, <1>3, <1>4, NoChange, SteadyHost, ItsPosted, ItsRequests

LEMMA PairKeeps == ASSUME HostInv, NEW c \in Clients, Pair(c) PROVE HostInv'
<1>0. PICK i : i = Least(Saying(c))
  OBVIOUS
<1>1. /\ UNCHANGED <<connections, requested, requestedAt, posted, worker, records, tokens, known, owed>>
      /\ operator = Idle /\ operator' = [at |-> "found", id |-> i, client |-> c]
      /\ due' = [due EXCEPT ![c] = @ + 1]
  BY <1>0 DEF Pair, Calls, store
<1>2. i \in Ids /\ connections[i].phase # "unused" /\ connections[i].client = c
  BY <1>0, SayingIn DEF Pair, Held
<1>3. StillComing
  BY <1>1 DEF StillComing, Coming, Idle
<1>4. OperatorOK' /\ OperatorInv'
  BY <1>1, <1>2 DEF OperatorOK, OperatorInv, OwedFor
<1>5. DueInv'
  <2>1. /\ operator.at # "found" /\ operator'.at = "found" /\ operator'.client = c
        /\ due \in [Clients -> Int] /\ IsFiniteSet(requestedAt)
    BY <1>1 DEF Idle, HostInv, DueInv
  <2>2. ASSUME NEW d \in Clients PROVE due'[d] >= Asked(d)'
    <3>1. AtUrls(d)' = AtUrls(d)
      BY <1>1 DEF AtUrls
    <3>2. Cardinality(AtUrls(d)) \in Nat /\ due[d] \in Int /\ due[d] >= Asked(d)
      BY AtUrlsCount
    <3>3. due'[d] = IF d = c THEN due[d] + 1 ELSE due[d]
      BY <1>1, <2>1
    <3> QED
      BY <1>1, <2>1, <3>1, <3>2, <3>3 DEF Asked
  <2>3. due' \in [Clients -> Int]
    BY <1>1, <2>1
  <2> QED
    BY <1>1, <2>1, <2>2, <2>3 DEF DueInv
<1> QED
  BY <1>1, <1>3, <1>4, <1>5, NoChange, SteadyHost, ItsPosted, ItsRequests, ItsStore DEF store

LEMMA FoundKeeps == ASSUME HostInv, Found PROVE HostInv'
<1>0. operator \in [at : {"found"}, id : Ids, client : Clients] /\ operator.at = "found"
  BY OperatorStoreOK DEF Found, OperatorOK, Idle
<1>1. PICK i \in Ids, c \in Clients : operator.id = i /\ operator.client = c /\ operator.at = "found"
  BY <1>0
<1>2. /\ UNCHANGED <<connections, requestedAt, posted, worker, records, tokens, known, due>>
      /\ operator' = [at |-> "post", work |-> Decide(i)]
      /\ requested' = requested \cup {c} /\ owed' = owed \cup {<<i, c>>}
  BY <1>1 DEF Found, store
<1>3. connections[i].phase # "unused" /\ OwedFor(connections[i], c)
  BY <1>1 DEF HostInv, OperatorInv
<1>4. AllEvolve
  BY <1>2, UnchangedEvolve
<1>5. StillComing /\ Coming(i)'
  BY <1>1, <1>2 DEF StillComing, Coming
<1>6. OperatorOK' /\ OperatorInv'
  BY <1>1, <1>2, WorkTypes DEF OperatorOK, OperatorInv
<1>7. IsOwed(<<i, c>>)'
  BY <1>1, <1>2, <1>3, HostAssumption DEF IsOwed
<1>8. owed' \subseteq Ids \X (Clients \cup Urls)
  BY <1>1, <1>2 DEF HostInv, HostTypeOK
<1>9. Steady
  <2>1. \A o \in owed' : /\ o \in owed \/ IsOwed(o)'
                         /\ (o \in owed /\ (Waits(o[1])' => Waits(o[1]))) \/ Coming(o[1])'
    <3> TAKE o \in owed'
    <3>1. CASE o \in owed
      BY <3>1, <1>2 DEF Waits, Ready
    <3>2. CASE o = <<i, c>>
      BY <3>2, <1>5, <1>7
    <3> QED
      BY <3>1, <3>2, <1>2
  <2> QED
    BY <1>2, <1>4, <1>5, <1>8, <2>1 DEF Steady
<1>10. DueInv'
  <2>1. /\ operator.client = c /\ operator'.at # "found"
        /\ due \in [Clients -> Int] /\ IsFiniteSet(requestedAt)
    BY <1>1, <1>2 DEF HostInv, DueInv
  <2>2. ASSUME NEW d \in Clients PROVE due'[d] >= Asked(d)'
    <3>1. AtUrls(d)' = AtUrls(d)
      BY <1>2 DEF AtUrls
    <3>2. Cardinality(AtUrls(d)) \in Nat /\ due[d] \in Int /\ due[d] >= Asked(d)
      BY AtUrlsCount
    <3> QED
      BY <1>1, <1>2, <2>1, <3>1, <3>2 DEF Asked
  <2> QED
    BY <1>2, <2>1, <2>2 DEF DueInv
<1>11. requested' \subseteq Clients /\ requestedAt' \subseteq Urls
  BY <1>1, <1>2, ItsRequests
<1> QED
  BY <1>2, <1>6, <1>9, <1>10, <1>11, SteadyHost, ItsPosted, ItsStore DEF store

LEMMA AtIn ==
    ASSUME NEW u, At(u) # {}
    PROVE  /\ Least(At(u)) \in Ids /\ connections[Least(At(u))].phase # "unused"
           /\ connections[Least(At(u))].url = u
<1>1. At(u) \subseteq Ids
  BY DEF At, Held
<1>2. Least(At(u)) \in At(u)
  BY <1>1, LeastIn
<1> QED
  BY <1>2 DEF At, Held

LEMMA DialToPairKeeps == ASSUME HostInv, NEW u \in Urls, DialToPair(u) PROVE HostInv'
<1> DEFINE k == ClientAt[u]
<1>0. PICK i : i = Least(At(u))
  OBVIOUS
<1>1. /\ UNCHANGED <<connections, requested, posted, worker, records, tokens, known>>
      /\ operator = Idle /\ requestedAt' = requestedAt \cup {u} /\ due' = [due EXCEPT ![k] = @ + 1]
  BY DEF DialToPair, Calls, store
<1>2. \/ At(u) = {} /\ operator' = [at |-> "post", work |-> Dial(u)] /\ owed' = owed
      \/ At(u) # {} /\ operator' = [at |-> "post", work |-> Decide(i)] /\ owed' = owed \cup {<<i, u>>}
  BY <1>0 DEF DialToPair
<1>3. k \in Clients
  BY HostAssumption
<1>4. At(u) # {} => i \in Ids /\ connections[i].phase # "unused" /\ connections[i].url = u
  BY <1>0, AtIn
<1> HIDE DEF k
<1>5. AllEvolve
  BY <1>1, UnchangedEvolve
<1>6. StillComing /\ (At(u) # {} => Coming(i)')
  BY <1>1, <1>2 DEF StillComing, Coming, Idle
<1>7. \E w \in Work : operator' = [at |-> "post", work |-> w]
  BY <1>2, <1>4, WorkTypes
<1>8. OperatorOK' /\ OperatorInv'
  BY <1>7 DEF OperatorOK, OperatorInv
<1>9. At(u) # {} => IsOwed(<<i, u>>)'
  BY <1>1, <1>4, HostAssumption DEF IsOwed
<1>10. owed' \subseteq Ids \X (Clients \cup Urls)
  BY <1>2, <1>4 DEF HostInv, HostTypeOK
<1>11. Steady
  <2>1. \A o \in owed' : /\ o \in owed \/ IsOwed(o)'
                         /\ (o \in owed /\ (Waits(o[1])' => Waits(o[1]))) \/ Coming(o[1])'
    <3> TAKE o \in owed'
    <3>1. CASE o \in owed
      BY <3>1, <1>1 DEF Waits, Ready
    <3>2. CASE At(u) # {} /\ o = <<i, u>>
      BY <3>2, <1>6, <1>9
    <3> QED
      BY <3>1, <3>2, <1>2
  <2> QED
    BY <1>1, <1>5, <1>6, <1>10, <2>1 DEF Steady
<1>12. DueInv'
  <2>1. /\ operator.at # "found" /\ operator'.at # "found"
        /\ due \in [Clients -> Int] /\ IsFiniteSet(requestedAt)
    BY <1>1, <1>7 DEF Idle, HostInv, DueInv
  <2>2. ASSUME NEW d \in Clients PROVE due'[d] >= Asked(d)'
    <3>1. AtUrls(d)' = IF d = k THEN AtUrls(d) \cup {u} ELSE AtUrls(d)
      BY <1>1 DEF AtUrls, k
    <3>2. IsFiniteSet(AtUrls(d)) /\ Cardinality(AtUrls(d)) \in Nat /\ due[d] \in Int /\ due[d] >= Asked(d)
      BY AtUrlsCount
    <3>3. due'[d] = IF d = k THEN due[d] + 1 ELSE due[d]
      BY <1>1, <2>1
    <3>4. Cardinality(AtUrls(d) \cup {u}) \in {Cardinality(AtUrls(d)), Cardinality(AtUrls(d)) + 1}
      BY <3>2, FS_AddElement
    <3>5. /\ Cardinality(AtUrls(d)') \in Int
          /\ Cardinality(AtUrls(d)') <= Cardinality(AtUrls(d)) + (IF d = k THEN 1 ELSE 0)
      BY <3>1, <3>2, <3>4
    <3>6. Asked(d)' = (IF d \in requested THEN 1 ELSE 0) + Cardinality(AtUrls(d)')
      BY <1>1, <2>1, <3>5 DEF Asked
    <3>7. Asked(d) = (IF d \in requested THEN 1 ELSE 0) + Cardinality(AtUrls(d))
      BY <2>1, <3>2 DEF Asked
    <3> QED
      BY <3>2, <3>3, <3>5, <3>6, <3>7
  <2>3. due' \in [Clients -> Int] /\ IsFiniteSet(requestedAt')
    <3>1. IsFiniteSet(requestedAt \cup {u})
      BY <2>1, FS_AddElement
    <3>2. IsFiniteSet(requestedAt')
      BY <1>1, <3>1
    <3>3. due' \in [Clients -> Int]
      BY <1>1, <1>3, <2>1
    <3> QED
      BY <3>2, <3>3
  <2> QED
    BY <2>2, <2>3 DEF DueInv
<1>13. requested' \subseteq Clients /\ requestedAt' \subseteq Urls
  BY <1>1, ItsRequests
<1> QED
  BY <1>1, <1>8, <1>11, <1>12, <1>13, SteadyHost, ItsPosted, ItsStore DEF store

LEMMA PostsKeeps == ASSUME HostInv, Posts PROVE HostInv'
<1>0. PICK w : w = operator.work
  OBVIOUS
<1>1. operator.at = "post" /\ w \in Work /\ Post(w) /\ operator' = Idle
  BY <1>0, OperatorStoreOK DEF Posts, OperatorOK, Idle
<1>2. UNCHANGED <<connections, requested, requestedAt, worker, records, tokens, known, due, owed>>
  BY DEF Posts, store, counts
<1>3. PostedOK' /\ StillComing
  <2>1. /\ \A k \in 1..Len(posted) : k \in 1..Len(posted') /\ posted'[k] = posted[k]
        /\ Len(posted') \in 1..Len(posted') /\ posted'[Len(posted')] = w
    BY <1>1, PostsAt
  <2>2. \A j : operator = [at |-> "post", work |-> Decide(j)] => w = Decide(j)
    BY <1>0
  <2> QED
    BY <1>1, <2>1, <2>2, PostsAt DEF PostedOK, StillComing, Coming
<1>4. OperatorOK' /\ OperatorInv'
  BY <1>1 DEF OperatorOK, OperatorInv, Idle
<1>5. DueInv'
  BY <1>1, <1>2, DueSame DEF Idle
<1> QED
  BY <1>2, <1>3, <1>4, <1>5, NoChange, SteadyHost, ItsRequests, ItsStore DEF store

LEMMA CancelPairingKeeps == ASSUME HostInv, NEW c \in Clients, CancelPairing(c) PROVE HostInv'
<1>0. PICK i : i = Least(Saying(c))
  OBVIOUS
<1>1. /\ UNCHANGED <<requested, requestedAt, posted, worker, operator, records, tokens, known, due>>
      /\ Ready(i) /\ connections' = [connections EXCEPT ![i].attempt = FALSE]
      /\ owed' = {o \in owed : o[1] # i}
  BY <1>0 DEF CancelPairing, store
<1>2. i \in Ids
  BY <1>0, SayingIn DEF CancelPairing
<1>3. /\ AllEvolve /\ \A j \in Ids : j # i => connections'[j] = connections[j]
      /\ connections'[i].phase = "ready" /\ ~connections'[i].attempt
  BY <1>1, <1>2, AttemptEnds
<1>4. \A o \in owed' : o \in owed /\ o[1] \in Ids /\ (Waits(o[1])' => Waits(o[1]))
  BY <1>1, <1>3, OwedTypes DEF Waits, Ready
<1>5. \A j \in Ids : /\ connections'[j].phase = "removed" => connections[j].phase = "removed"
                     /\ connections'[j].attempt => connections[j].attempt
  BY <1>3
<1>6. owed' \subseteq Ids \X (Clients \cup Urls)
  BY <1>1 DEF HostInv, HostTypeOK
<1>7. Steady
  BY <1>1, <1>3, <1>4, <1>5, <1>6, NoPostKeepsComing DEF Steady
<1> QED
  BY <1>1, <1>7, SessionKeeps, ItsStore, ItsPosted DEF store

LEMMA UnpairKeeps == ASSUME HostInv, NEW c \in Clients, Unpair(c) PROVE HostInv'
<1>1. /\ UNCHANGED <<connections, requested, requestedAt, posted, worker, operator, tokens, known, due, owed>>
      /\ records' = records \ {c}
  BY DEF Unpair
<1>2. StoreOK'
  BY <1>1, OperatorStoreOK DEF StoreOK
<1> QED
  BY <1>1, <1>2, NoChange, NoPostKeepsComing, SessionKeeps, ItsPosted

LEMMA OperatorStepKeeps == ASSUME HostInv, OperatorStep PROVE HostInv'
BY FoundKeeps, PostsKeeps, ReconsiderKeeps, EnterPairingTokenKeeps, PairKeeps, CancelPairingKeeps, UnpairKeeps,
   DialToPairKeeps DEF OperatorStep

----------------------------------------------------------------------------
(* The worker.                                                             *)

WorkerOK == worker \in {Idle} \cup Views \cup Choices \cup [at : {"gone"}, url : Urls]

LEMMA WorkerHost ==
    ASSUME HostInv, AllEvolve, operator' = operator, UNCHANGED store, PostedOK', WorkerOK',
           requested' \subseteq Clients, requestedAt' \subseteq Urls, owed' \subseteq Ids \X (Clients \cup Urls),
           WorkerInv', OwedInv', AskedIsDecided', DueInv'
    PROVE  HostInv'
<1>1. OperatorInv' /\ StoreOK'
  BY OperatorStays, ItsStore
<1>2. OperatorOK'
  BY OperatorStoreOK DEF OperatorOK
<1>3. \A i \in Ids : IsConnection(connections'[i])
  BY DEF AllEvolve, Evolves
<1>4. HostTypeOK'
  BY <1>1, <1>2 DEF HostTypeOK, PostedOK, StoreOK, OperatorOK, WorkerOK, AllEvolve
<1> QED
  BY <1>1, <1>3, <1>4 DEF HostInv

LEMMA IdleKeeps == ASSUME worker' = Idle PROVE WorkerOK' /\ WorkerInv'
BY DEF WorkerOK, WorkerInv, Reads, Idle

\* Requests are only dropped.
LEMMA DueLess ==
    ASSUME HostInv, operator' = operator, requested' \subseteq requested, requestedAt' \subseteq requestedAt, due' = due
    PROVE  DueInv'
<1>1. due \in [Clients -> Int] /\ IsFiniteSet(requestedAt)
  BY DEF HostInv, DueInv
<1>2. IsFiniteSet(requestedAt')
  BY <1>1, FS_Subset
<1>3. ASSUME NEW c \in Clients PROVE due'[c] >= Asked(c)'
  <2>1. AtUrls(c)' \subseteq AtUrls(c)
    BY DEF AtUrls
  <2>2. IsFiniteSet(AtUrls(c)) /\ Cardinality(AtUrls(c)) \in Nat /\ due[c] \in Int /\ due[c] >= Asked(c)
    BY AtUrlsCount
  <2>3. IsFiniteSet(AtUrls(c)') /\ Cardinality(AtUrls(c)') <= Cardinality(AtUrls(c))
    BY <2>1, <2>2, FS_Subset
  <2>4. Cardinality(AtUrls(c)') \in Nat
    BY <2>3, FS_CardinalityType
  <2>5. c \in requested' => c \in requested
    OBVIOUS
  <2> QED
    BY <2>2, <2>3, <2>4, <2>5 DEF Asked
<1> QED
  BY <1>1, <1>2, <1>3 DEF DueInv

\* Only the work that is taken is not coming any more.
LEMMA Taken ==
    ASSUME HostInv, Takes, operator' = operator
    PROVE  /\ PostedOK' /\ Work1 \in Work /\ worker = Idle
           /\ \A j \in Ids : Coming(j) => Coming(j)' \/ Work1 = Decide(j)
           /\ \A o \in owed : o[1] \in Ids /\ (Waits(o[1]) => Coming(o[1])' \/ Work1 = Decide(o[1]))
<1>1. posted \in Seq(Work) /\ Len(posted) \in Nat /\ MaxPosted \in Nat /\ Len(posted) <= MaxPosted
  BY HostAssumption DEF HostInv, HostTypeOK
<1>2. posted # <<>> /\ posted' = Tail(posted) /\ worker = Idle
  BY DEF Takes
<1>3. /\ posted' \in Seq(Work) /\ Len(posted') = Len(posted) - 1 /\ posted[1] \in Work
      /\ \A k \in 1..Len(posted) : k = 1 \/ (k - 1 \in 1..Len(posted') /\ posted'[k - 1] = posted[k])
  BY <1>1, <1>2
<1>4. Work1 = posted[1]
  BY <1>1, <1>2 DEF Work1
<1>5. PostedOK' /\ Work1 \in Work
  BY <1>1, <1>3, <1>4 DEF PostedOK
<1>6. ASSUME NEW j \in Ids, Coming(j) PROVE Coming(j)' \/ Work1 = Decide(j)
  <2>1. CASE operator = [at |-> "post", work |-> Decide(j)]
    BY <2>1 DEF Coming
  <2>2. CASE \E k \in 1..Len(posted) : posted[k] = Decide(j)
    <3>1. PICK k \in 1..Len(posted) : posted[k] = Decide(j)
      BY <2>2
    <3> QED
      BY <3>1, <1>3, <1>4 DEF Coming
  <2> QED
    BY <1>6, <2>1, <2>2 DEF Coming
<1>7. ASSUME NEW o \in owed, Waits(o[1]) PROVE Coming(o[1])
  <2>1. WillDecide(o[1])
    BY <1>7 DEF HostInv, AskedIsDecided, Waits
  <2> QED
    BY <2>1, <1>2 DEF WillDecide, Coming, Idle
<1> QED
  BY <1>2, <1>5, <1>6, <1>7, OwedTypes

LEMMA ToDecideIs ==
    ASSUME HostInv, Work1 \in Work
    PROVE  /\ ToDecide \subseteq Ids
           /\ \A j \in Ids : Work1 = Decide(j) => ToDecide = {j}
<1>1. CASE Work1.does = "decide"
  BY <1>1, WorkTypes DEF ToDecide
<1>2. CASE Work1.does = "find" /\ Saying(Work1.client) # {}
  <2>1. Work1.client \in Clients
    BY <1>2, WorkTypes
  <2> QED
    BY <1>2, <2>1, WorkTypes, SayingIn DEF ToDecide
<1>3. CASE ~(Work1.does = "decide") /\ ~(Work1.does = "find" /\ Saying(Work1.client) # {})
  BY <1>3, WorkTypes DEF ToDecide
<1> QED
  BY <1>1, <1>2, <1>3

LEMMA WaitsDecides == ASSUME HostInv, NEW i \in Ids, Waits(i) PROVE Decides(i)
<1>1. IsConnection(connections[i]) /\ connections[i].phase = "ready"
  BY ConnectionsAre DEF Waits, Ready
<1> QED
  BY <1>1 DEF IsConnection, Decides, Held

LEMMA LooksAwayKeeps == ASSUME HostInv, LooksAway PROVE HostInv'
<1>1. /\ Takes
      /\ UNCHANGED <<requested, requestedAt, worker, operator, records, tokens, known, due, owed>>
  BY DEF LooksAway, store, counts
<1>2. /\ PostedOK' /\ Work1 \in Work /\ worker = Idle
      /\ \A o \in owed : o[1] \in Ids /\ (Waits(o[1]) => Coming(o[1])' \/ Work1 = Decide(o[1]))
  BY <1>1, Taken
<1>3. ToDecide \subseteq Ids /\ \A j \in Ids : Work1 = Decide(j) => ToDecide = {j}
  BY <1>2, ToDecideIs
<1>4. AllEvolve /\ \A j \in Ids : Waits(j)' => Waits(j) /\ ToDecide # {j}
  <2>1. CASE ~(\E i \in ToDecide : Decides(i)) /\ UNCHANGED connections
    BY <2>1, <1>3, UnchangedEvolve, WaitsDecides DEF Waits, Ready
  <2>2. CASE \E i \in ToDecide : Decides(i) /\ connections' = [connections EXCEPT ![i] = Closing(@)]
    <3>1. PICK i \in ToDecide : Decides(i) /\ connections' = [connections EXCEPT ![i] = Closing(@)]
      BY <2>2
    <3>2. /\ i \in Ids /\ IsConnection(connections[i]) /\ connections[i].phase \notin {"unused", "removed"}
          /\ connections' = [connections EXCEPT ![i] = Closing(connections[i])]
      BY <3>1, <1>3, ConnectionsAre DEF Decides, Held
    <3>3. /\ Evolves(connections[i], Closing(connections[i]))
          /\ Closing(connections[i]).phase \in {"closing", "ended"}
      BY <3>2, ClosingEvolves
    <3>4. /\ AllEvolve /\ connections'[i].phase \in {"closing", "ended"}
          /\ \A j \in Ids : j # i => connections'[j] = connections[j]
      BY <3>2, <3>3, OneEvolves DEF AllEvolve
    <3> QED
      BY <3>1, <3>4 DEF Waits, Ready
  <2> QED
    BY <2>1, <2>2 DEF LooksAway
<1>5. OwedInv'
  BY <1>1, <1>4, OwedStays DEF OwedInv
<1>6. AskedIsDecided'
  <2> SUFFICES ASSUME NEW o \in owed, Waits(o[1])' PROVE WillDecide(o[1])'
    BY <1>1 DEF AskedIsDecided, Waits
  <2>1. Coming(o[1])'
    BY <1>2, <1>3, <1>4
  <2> QED
    BY <2>1 DEF WillDecide, Coming
<1>7. DueInv'
  BY <1>1, DueStays
<1>8. WorkerOK' /\ WorkerInv'
  BY <1>1, <1>2, IdleKeeps
<1>9. requested' \subseteq Clients /\ requestedAt' \subseteq Urls
  BY <1>1, ItsRequests
<1> QED
  BY <1>1, <1>2, <1>4, <1>5, <1>6, <1>7, <1>8, <1>9, WorkerHost, ItsOwed DEF store

\* What decide() reads of the connection it takes.
LEMMA LooksAt ==
    ASSUME HostInv, NEW i \in Ids, Decides(i)
    PROVE  Takeable(connections[i]) /\ connections[i].psk \in Psks
<1>1. /\ IsConnection(connections[i]) /\ connections[i] \in Connection
      /\ connections[i].said /\ connections[i].phase \notin {"unused", "removed"}
  BY ConnectionsAre DEF Decides, Held
<1>2. connections[i].phase # "handshake"
  BY <1>1, HostAssumption DEF IsConnection
<1> QED
  BY <1>1, <1>2 DEF IsConnection, Takeable, Connection

\* A request that was left for the URL of a connection is for its client.
LEMMA UrlIsItsClients ==
    ASSUME HostInv, NEW u \in Urls, NEW j \in Ids, connections[j].phase = "removed" \/ connections[j].url = u
    PROVE  OwedFor(connections[j], ClientAt[u])
<1>1. IsConnection(connections[j]) /\ connections[j].client \in Clients \cup {NoClient}
  BY ConnectionsAre
<1> QED
  BY <1>1 DEF OwedFor, IsConnection

\* A request changes from a URL to its client and is counted once.
LEMMA DueMoves ==
    ASSUME HostInv, operator' = operator, due' = due, NEW u \in requestedAt,
           requested' = requested \cup {ClientAt[u]}, requestedAt' = requestedAt \ {u}
    PROVE  DueInv'
<1>1. due \in [Clients -> Int] /\ IsFiniteSet(requestedAt) /\ u \in Urls /\ ClientAt[u] \in Clients
  BY HostAssumption DEF HostInv, DueInv, HostTypeOK
<1>2. IsFiniteSet(requestedAt')
  BY <1>1, FS_Subset
<1>3. ASSUME NEW c \in Clients PROVE due'[c] >= Asked(c)'
  <2>1. IsFiniteSet(AtUrls(c)) /\ Cardinality(AtUrls(c)) \in Nat /\ due[c] \in Int /\ due[c] >= Asked(c)
    BY AtUrlsCount
  <2>2. CASE c = ClientAt[u]
    <3>1. AtUrls(c)' = AtUrls(c) \ {u} /\ u \in AtUrls(c)
      BY <2>2 DEF AtUrls
    <3>2. Cardinality(AtUrls(c) \ {u}) = Cardinality(AtUrls(c)) - 1
      BY <2>1, <3>1, FS_RemoveElement
    <3>3. Cardinality(AtUrls(c)') = Cardinality(AtUrls(c)) - 1
      BY <3>1, <3>2
    <3> QED
      BY <2>1, <3>3 DEF Asked
  <2>3. CASE c # ClientAt[u]
    <3>1. AtUrls(c)' = AtUrls(c)
      BY <2>3 DEF AtUrls
    <3>2. c \in requested' <=> c \in requested
      BY <2>3
    <3> QED
      BY <2>1, <3>1, <3>2 DEF Asked
  <2> QED
    BY <2>2, <2>3
<1> QED
  BY <1>1, <1>2, <1>3 DEF DueInv

\* What the worker has read, when it goes on with it.
LEMMA ReadIs ==
    ASSUME HostInv, Reads
    PROVE  /\ worker # Idle /\ worker.id \in Ids
           /\ LET s == connections[worker.id] IN
                /\ IsConnection(s) /\ s \in Connection /\ Takeable(s) /\ s.client \in Clients
                /\ s.attempt => worker.at = "viewed" /\ worker.attempt
                /\ ReadsAsks => s.client \in requested
           /\ \A o \in owed : o[1] = worker.id /\ Unread(o) => Coming(o[1])
<1>1. worker # Idle /\ worker.id \in Ids
  BY WorkerIs
<1> QED
  BY <1>1, ConnectionsAre DEF HostInv, WorkerInv, Takeable

\* A view is taken of a connection; nothing else changes but the queue.
LEMMA LooksKeeps == ASSUME HostInv, Looks PROVE HostInv'
<1>1. /\ Takes
      /\ UNCHANGED <<connections, requested, requestedAt, operator, records, tokens, known, due, owed>>
  BY DEF Looks, store, counts
<1>2. /\ PostedOK' /\ Work1 \in Work
      /\ \A o \in owed : o[1] \in Ids /\ (Waits(o[1]) => Coming(o[1])' \/ Work1 = Decide(o[1]))
  BY <1>1, Taken
<1>3. ToDecide \subseteq Ids /\ \A j \in Ids : Work1 = Decide(j) => ToDecide = {j}
  BY <1>2, ToDecideIs
<1>4. PICK i \in ToDecide :
        /\ Decides(i)
        /\ worker' = [at |-> "viewed", id |-> i, psk |-> connections[i].psk, attempt |-> connections[i].attempt]
  BY DEF Looks
<1>5. i \in Ids /\ Takeable(connections[i]) /\ connections[i].psk \in Psks /\ connections[i].attempt \in BOOLEAN
  BY <1>3, <1>4, LooksAt, ConnectionsAre DEF Connection
<1>6. /\ WorkerOK' /\ Reads' /\ worker'.id = i /\ worker'.at = "viewed"
      /\ worker'.attempt = connections[i].attempt
  BY <1>4, <1>5 DEF WorkerOK, Views, Reads
<1>7. WorkerInv'
  <2>1. \A o \in owed' : o[1] = worker'.id => ~Unread(o)'
    BY <1>1, <1>6 DEF Unread, Waits, Ready
  <2> QED
    BY <1>1, <1>5, <1>6, <2>1 DEF WorkerInv, ReadsAsks
<1>8. AskedIsDecided'
  <2> SUFFICES ASSUME NEW o \in owed', Waits(o[1])' PROVE WillDecide(o[1])'
    BY DEF AskedIsDecided, Waits
  <2>1. o[1] \in Ids /\ (Coming(o[1])' \/ Work1 = Decide(o[1]))
    BY <1>1, <1>2 DEF Waits, Ready
  <2>2. CASE Coming(o[1])'
    BY <2>2 DEF WillDecide, Coming
  <2>3. CASE Work1 = Decide(o[1])
    BY <2>1, <2>3, <1>3, <1>4, <1>6 DEF WillDecide
  <2> QED
    BY <2>1, <2>2, <2>3
<1>9. AllEvolve /\ DueInv'
  BY <1>1, UnchangedEvolve, DueStays
<1>10. OwedInv'
  BY <1>1, <1>9, OwedStays DEF OwedInv
<1>11. requested' \subseteq Clients /\ requestedAt' \subseteq Urls
  BY <1>1, ItsRequests
<1> QED
  BY <1>1, <1>2, <1>6, <1>7, <1>8, <1>9, <1>10, <1>11, WorkerHost, ItsOwed DEF store

LEMMA TakesRequestKeeps == ASSUME HostInv, TakesRequest PROVE HostInv'
<1>1. PICK i, u, k : i = worker.id /\ u = connections[worker.id].url /\ k = connections[worker.id].client
  OBVIOUS
<1> DEFINE over == worker.attempt /\ ~connections[i].attempt
<1>2. /\ worker.at = "viewed" /\ due' = due
      /\ UNCHANGED <<connections, posted, operator, records, tokens, known>>
  BY DEF TakesRequest, store
<1>3. /\ requested' = (IF u \in requestedAt THEN requested \cup {k} ELSE requested)
      /\ requestedAt' = requestedAt \ {u}
      /\ owed' = IF u \notin requestedAt THEN owed
                 ELSE {<<o[1], IF o[2] = u THEN k ELSE o[2]>> : o \in owed \cup IF over THEN {} ELSE {<<i, u>>}}
      /\ worker' = IF worker.attempt THEN Idle
                   ELSE [at |-> "asked", id |-> i, psk |-> worker.psk, asks |-> k \in requested']
  BY <1>1 DEF TakesRequest
<1>4. /\ worker # Idle /\ i \in Ids /\ worker.psk \in Psks /\ k \in Clients
      /\ Takeable(connections[i]) /\ IsConnection(connections[i])
      /\ connections[i].attempt => worker.attempt
      /\ \A o \in owed : o[1] = i /\ Unread(o) => Coming(o[1])
  BY <1>1, <1>2, ReadIs, WorkerIs DEF Reads
<1> HIDE DEF over
<1>5. u \in Urls => k = ClientAt[u]
  BY <1>1, <1>4 DEF IsConnection
<1>6. requested \subseteq Clients /\ requestedAt \subseteq Urls
  BY ItsRequests
<1>7. AllEvolve
  BY <1>2, UnchangedEvolve
<1>8. \A o \in owed' : IsOwed(o)' /\ o[1] \in Ids /\ o \in Ids \X (Clients \cup Urls)
                        /\ ((o[1] = i /\ ~over) \/ \E o2 \in owed : o2[1] = o[1])
  <2>1. owed \subseteq Ids \X (Clients \cup Urls)
    BY DEF HostInv, HostTypeOK
  <2>2. ASSUME NEW o \in owed, o[2] # u PROVE IsOwed(o)'
    BY <2>2, <1>3, <1>7, OwedStays
  <2>3. ASSUME NEW j \in Ids, u \in requestedAt, connections[j].phase # "unused",
               connections[j].phase = "removed" \/ connections[j].url = u
        PROVE  IsOwed(<<j, k>>)'
    <3>1. OwedFor(connections[j], k)
      BY <2>3, <1>5, <1>6, UrlIsItsClients
    <3>2. k \in requested' /\ k \notin Urls
      BY <2>3, <1>4, <1>3, HostAssumption
    <3> QED
      BY <2>3, <1>2, <3>1, <3>2 DEF IsOwed, OwedFor
  <2>4. CASE u \notin requestedAt
    <3>1. owed' = owed
      BY <2>4, <1>3
    <3>2. \A o \in owed : o[2] \in requestedAt => o[2] # u
      BY <2>4
    <3>3. \A o \in owed : IsOwed(o)'
      BY <3>2, <2>4, <1>3, <1>7, OwedStays
    <3> QED
      BY <2>1, <3>1, <3>3
  <2>5. CASE u \in requestedAt
    <3> SUFFICES ASSUME NEW p \in owed \cup (IF over THEN {} ELSE {<<i, u>>}), NEW o, o = <<p[1], IF p[2] = u THEN k ELSE p[2]>>
                 PROVE  IsOwed(o)' /\ o[1] \in Ids /\ o \in Ids \X (Clients \cup Urls)
                        /\ ((o[1] = i /\ ~over) \/ \E o2 \in owed : o2[1] = o[1])
      BY <2>5, <1>3
    <3>1. CASE p \in owed /\ p[2] # u
      <4>1. o = p
        BY <3>1, <2>1
      <4> QED
        BY <4>1, <3>1, <2>1, <2>2
    <3>2. CASE p \in owed /\ p[2] = u
      <4>1. p[1] \in Ids /\ o = <<p[1], k>> /\ u \in Urls
        BY <3>2, <2>1, <2>5, <1>6
      <4>2. IsOwed(p)
        BY <3>2 DEF HostInv, OwedInv
      <4>3. connections[p[1]].phase # "unused" /\ (connections[p[1]].phase = "removed" \/ connections[p[1]].url = u)
        BY <3>2, <4>1, <4>2 DEF IsOwed
      <4>4. IsOwed(<<p[1], k>>)'
        BY <2>3, <2>5, <4>1, <4>3
      <4> QED
        BY <4>1, <4>4, <3>2, <1>4
    <3>3. CASE ~over /\ p = <<i, u>>
      <4>1. o = <<i, k>>
        BY <3>3
      <4>2. connections[i].phase # "unused"
        BY <1>4 DEF Takeable
      <4>3. IsOwed(<<i, k>>)'
        BY <2>3, <2>5, <4>2, <1>1, <1>4
      <4> QED
        BY <4>1, <4>3, <1>4
    <3> QED
      BY <3>1, <3>2, <3>3
  <2> QED
    BY <2>4, <2>5
<1>9. OwedInv' /\ owed' \subseteq Ids \X (Clients \cup Urls)
  BY <1>8 DEF OwedInv
<1>10. requested' \subseteq Clients /\ requestedAt' \subseteq Urls
  BY <1>4, <1>3, <1>6
<1>11. DueInv'
  <2>1. CASE u \in requestedAt
    BY <2>1, <1>2, <1>3, <1>5, <1>6, DueMoves
  <2>2. CASE u \notin requestedAt
    BY <2>2, <1>2, <1>3, DueLess
  <2> QED
    BY <2>1, <2>2
<1>12. ASSUME NEW o \in owed', Waits(o[1])', o[1] = i => worker.attempt
       PROVE  WillDecide(o[1])'
  <2>1. o[1] \in Ids /\ Waits(o[1])
    BY <1>12, <1>2, <1>8 DEF Waits, Ready
  <2>2. PICK o2 \in owed : o2[1] = o[1]
    <3>1. o[1] = i => over
      BY <1>12, <2>1 DEF over, Waits
    <3> QED
      BY <1>8, <3>1
  <2>3. Coming(o[1])
    <3>1. CASE o[1] = i
      BY <1>2, <1>4, <1>12, <2>1, <2>2, <3>1 DEF Unread
    <3>2. CASE o[1] # i
      <4>1. WillDecide(o2[1])
        BY <2>1, <2>2 DEF HostInv, AskedIsDecided, Waits
      <4> QED
        BY <4>1, <3>2, <2>2, <1>1 DEF WillDecide, Coming
    <3> QED
      BY <3>1, <3>2
  <2> QED
    BY <1>2, <2>3 DEF WillDecide, Coming
<1>13. CASE worker.attempt
  <2>1. WorkerOK' /\ WorkerInv'
    BY <1>13, <1>3, IdleKeeps
  <2>2. AskedIsDecided'
    BY <1>12, <1>13 DEF AskedIsDecided, Waits
  <2> QED
    BY <1>2, <1>7, <1>9, <1>10, <1>11, <2>1, <2>2, ItsPosted, WorkerHost DEF store
<1>14. CASE ~worker.attempt
  <2>1. PICK asks \in BOOLEAN : asks <=> k \in requested'
    OBVIOUS
  <2>2. worker' = [at |-> "asked", id |-> i, psk |-> worker.psk, asks |-> asks]
    BY <1>14, <1>3, <2>1
  <2>3. /\ WorkerOK' /\ Reads' /\ worker'.at = "asked" /\ worker'.id = i
        /\ (worker'.asks <=> k \in requested')
    BY <1>4, <2>1, <2>2 DEF WorkerOK, Views, Reads
  <2>4. ASSUME NEW o \in owed', o[1] = i, o[2] \in Urls \/ k \notin requested' PROVE FALSE
    <3>1. IsOwed(o)' /\ (o[2] \in Clients \/ o[2] \in Urls)
      BY <1>8
    <3>2. connections'[i].phase # "removed" /\ connections'[i].client = k /\ connections'[i].url = u /\ k # NoClient
      BY <1>1, <1>2, <1>4, HostAssumption DEF Takeable
    <3>3. CASE o[2] \in Urls
      BY <3>1, <3>2, <3>3, <2>4, <1>3 DEF IsOwed
    <3>4. CASE o[2] \in Clients /\ k \notin requested'
      BY <3>1, <3>2, <3>4, <2>4 DEF IsOwed, OwedFor
    <3> QED
      BY <2>4, <3>1, <3>3, <3>4
  <2>5. WorkerInv'
    <3>1. Takeable(connections'[i]) /\ ~connections'[i].attempt /\ connections'[i].client = k
      BY <1>1, <1>2, <1>4, <1>14
    <3>2. \A o \in owed' : o[1] = i => ~Unread(o)'
      BY <2>3, <2>4 DEF Unread
    <3> QED
      BY <2>3, <3>1, <3>2 DEF WorkerInv, ReadsAsks
  <2>6. AskedIsDecided'
    <3> SUFFICES ASSUME NEW o \in owed', Waits(o[1])' PROVE WillDecide(o[1])'
      BY DEF AskedIsDecided, Waits
    <3>1. CASE o[1] = i
      BY <3>1, <2>3 DEF WillDecide
    <3> QED
      BY <3>1, <1>12
  <2> QED
    BY <1>2, <1>7, <1>9, <1>10, <1>11, <2>3, <2>5, <2>6, ItsPosted, WorkerHost DEF store
<1> QED
  BY <1>4, <1>13, <1>14, WorkerIs, <1>2

\* The decision is of the same request.
LEMMA ChoosesKeeps == ASSUME HostInv, Chooses PROVE HostInv'
<1>1. PICK i, k : i = worker.id /\ k = connections[worker.id].client
  OBVIOUS
<1>2. PICK does : does = Decision(worker.psk, k, worker.asks)
  OBVIOUS
<1>3. /\ worker.at = "asked" /\ worker' = [at |-> "decided", id |-> i, choice |-> Choice(k), does |-> does]
      /\ UNCHANGED <<connections, requested, requestedAt, posted, operator, records, tokens, known, due, owed>>
  BY <1>1, <1>2 DEF Chooses, store, counts
<1>4. /\ worker # Idle /\ i \in Ids /\ worker.psk \in Psks /\ worker.asks \in BOOLEAN
      /\ Takeable(connections[i]) /\ ~connections[i].attempt
      /\ worker.asks => k \in requested
      /\ \A o \in owed : o[1] = i /\ (o[2] \in Urls \/ ~worker.asks) => Coming(o[1])
  BY <1>1, <1>3, ReadIs, WorkerIs DEF Reads, ReadsAsks, Unread
<1>5. does \in Decisions /\ (does = "code" => worker.asks) /\ (does \in {"other", "toToken"} => ~worker.asks)
  <2>1. CASE worker.psk = "pairing"
    BY <2>1, <1>2 DEF Decision, Decisions
  <2>2. CASE worker.psk = "longTerm"
    BY <2>2, <1>2, <1>4 DEF Decision, Decisions
  <2>3. CASE worker.psk = "sentinel"
    BY <2>3, <1>2, <1>4 DEF Decision, Decisions
  <2> QED
    BY <2>1, <2>2, <2>3, <1>4 DEF Psks
<1>6. /\ WorkerOK' /\ Reads' /\ worker'.at = "decided" /\ worker'.id = i /\ worker'.does = does
  BY <1>3, <1>4, <1>5, ChoiceType DEF WorkerOK, Choices, Reads
<1>7. WorkerInv'
  <2>1. \A o \in owed' : o[1] = i /\ Unread(o)' => Coming(o[1])'
    BY <1>3, <1>4, <1>5, <1>6 DEF Unread, Coming
  <2> QED
    BY <1>1, <1>3, <1>4, <1>5, <1>6, <2>1 DEF WorkerInv, ReadsAsks
<1>8. AskedIsDecided'
  <2> SUFFICES ASSUME NEW o \in owed', Waits(o[1])' PROVE WillDecide(o[1])'
    BY DEF AskedIsDecided, Waits
  <2>1. WillDecide(o[1])
    BY <1>3 DEF HostInv, AskedIsDecided, Waits, Ready
  <2> QED
    BY <1>1, <1>3, <1>6, <2>1 DEF WillDecide
<1>9. AllEvolve /\ DueInv'
  BY <1>3, UnchangedEvolve, DueStays
<1>10. OwedInv'
  BY <1>3, <1>9, OwedStays DEF OwedInv
<1>11. requested' \subseteq Clients /\ requestedAt' \subseteq Urls
  BY <1>3, ItsRequests
<1> QED
  BY <1>3, <1>6, <1>7, <1>8, <1>9, <1>10, <1>11, ItsPosted, ItsOwed, WorkerHost DEF store

\* What the worker has decided about, when it comes to act on it.
LEMMA DecidedIs ==
    ASSUME HostInv, worker.at = "decided"
    PROVE  /\ worker # Idle /\ worker.id \in Ids
           /\ LET s == connections[worker.id] IN
                /\ IsConnection(s) /\ s \in Connection /\ Takeable(s) /\ s.client \in Clients /\ ~s.attempt
                /\ worker.does = "code" => s.client \in requested
           /\ \A o \in owed : o[1] = worker.id /\ (o[2] \in Urls \/ worker.does \in {"other", "toToken"}) => Coming(o[1])
<1>1. Reads
  BY DEF Reads
<1> QED
  BY <1>1, ReadIs DEF ReadsAsks, Unread

\* Activating changes the attempt only.
LEMMA ActivatesEvolves ==
    ASSUME HostInv, worker.at = "decided", NEW pairs \in BOOLEAN, Activates(worker.id, pairs)
    PROVE  /\ AllEvolve
           /\ \A j \in Ids : Waits(j)' => j = worker.id \/ Waits(j)
<1>1. PICK i : i = worker.id
  OBVIOUS
<1> DEFINE s == connections[i]
           t == [s EXCEPT !.attempt = pairs]
<1>2. i \in Ids /\ IsConnection(s) /\ s \in Connection
  BY <1>1, DecidedIs
<1>3. CASE Ready(i) /\ connections' = [connections EXCEPT ![i].attempt = pairs]
  <2>1. s.phase = "ready" /\ connections' = [connections EXCEPT ![i] = t]
    BY <1>3, ConnectionsAre DEF Ready
  <2>2. t \in Connection /\ t.phase = s.phase /\ t.client = s.client /\ t.url = s.url /\ t.said = s.said
    BY <1>2 DEF Connection
  <2> HIDE DEF t
  <2>3. IsConnection(t)
    BY <1>2, <2>1, <2>2 DEF IsConnection
  <2>4. Evolves(s, t)
    BY <1>2, <2>1, <2>2, <2>3 DEF Evolves, OwedFor, Takeable
  <2>5. AllEvolve /\ \A j \in Ids : j # i => connections'[j] = connections[j]
    BY <1>2, <2>1, <2>4, OneEvolves DEF AllEvolve
  <2> QED
    BY <1>1, <2>5 DEF Waits, Ready
<1>4. CASE UNCHANGED connections
  BY <1>4, UnchangedEvolve DEF Waits, Ready
<1> QED
  BY <1>1, <1>3, <1>4 DEF Activates

\* The worker is idle again; what else was asked of its connection is coming.
LEMMA ActedDecides ==
    ASSUME HostInv, worker.at = "decided", UNCHANGED <<posted, operator>>, owed' \subseteq owed,
           \A j \in Ids : Waits(j)' => j = worker.id \/ Waits(j),
           \A o \in owed' : o[1] = worker.id /\ Waits(o[1])' => Coming(o[1])
    PROVE  AskedIsDecided'
<1> SUFFICES ASSUME NEW o \in owed', Waits(o[1])' PROVE WillDecide(o[1])'
  BY DEF AskedIsDecided, Waits
<1>1. o[1] \in Ids /\ o \in owed
  BY OwedTypes
<1>2. Coming(o[1])
  <2>1. CASE o[1] = worker.id
    BY <2>1
  <2>2. CASE o[1] # worker.id
    <3>1. Waits(o[1])
      BY <2>2, <1>1
    <3>2. WillDecide(o[1])
      BY <1>1, <3>1 DEF HostInv, AskedIsDecided, Waits
    <3> QED
      BY <2>2, <3>2 DEF WillDecide, Coming
  <2> QED
    BY <2>1, <2>2
<1> QED
  BY <1>2 DEF WillDecide, Coming

LEMMA ActivatesPairingKeeps == ASSUME HostInv, ActivatesPairing PROVE HostInv'
<1>1. PICK i, c : i = worker.id /\ c = connections[worker.id].client
  OBVIOUS
<1>2. /\ worker.at = "decided" /\ requested' = requested \ {c} /\ owed' = {o \in owed : o[2] # c}
      /\ Activates(worker.id, TRUE) /\ worker' = Idle
      /\ UNCHANGED <<requestedAt, posted, operator, records, tokens, known>>
  BY <1>1 DEF ActivatesPairing, store
<1>3. /\ i \in Ids /\ c \in Clients /\ Takeable(connections[i])
      /\ worker.does = "code" => c \in requested
      /\ \A o \in owed : o[1] = i /\ o[2] \in Urls => Coming(o[1])
  BY <1>1, <1>2, DecidedIs
<1>4. AllEvolve /\ \A j \in Ids : Waits(j)' => j = worker.id \/ Waits(j)
  BY <1>2, ActivatesEvolves
<1>5. OwedInv'
  <2> SUFFICES ASSUME NEW o \in owed' PROVE IsOwed(o)'
    BY DEF OwedInv
  <2> QED
    BY <1>2, <1>4, OwedStays
<1>6. AskedIsDecided'
  <2>1. ASSUME NEW o \in owed', o[1] = worker.id PROVE Coming(o[1])
    <3>1. o \in owed /\ o[2] # c /\ (o[2] \in Clients \/ o[2] \in Urls) /\ IsOwed(o)
      BY <1>2, OwedTypes DEF HostInv, OwedInv
    <3>2. o[2] \notin Clients
      BY <1>1, <1>3, <2>1, <3>1, HostAssumption DEF IsOwed, OwedFor, Takeable
    <3> QED
      BY <1>1, <1>3, <2>1, <3>1, <3>2
  <2> QED
    BY <1>2, <1>4, <2>1, ActedDecides
<1>7. DueInv'
  <2>1. CASE due' = due
    BY <2>1, <1>2, DueLess
  <2>2. CASE worker.does = "code" /\ due' = [due EXCEPT ![c] = @ - 1]
    <3>1. due \in [Clients -> Int] /\ IsFiniteSet(requestedAt) /\ c \in requested
      BY <1>3, <2>2 DEF HostInv, DueInv
    <3>2. ASSUME NEW d \in Clients PROVE due'[d] >= Asked(d)'
      <4>1. Cardinality(AtUrls(d)) \in Nat /\ due[d] \in Int /\ due[d] >= Asked(d)
        BY AtUrlsCount
      <4>2. AtUrls(d)' = AtUrls(d)
        BY <1>2 DEF AtUrls
      <4>3. due'[d] = IF d = c THEN due[d] - 1 ELSE due[d]
        BY <2>2, <3>1
      <4>4. d \in requested' <=> d \in requested /\ d # c
        BY <1>2
      <4> QED
        BY <1>2, <3>1, <4>1, <4>2, <4>3, <4>4 DEF Asked
    <3>3. due' \in [Clients -> Int] /\ requestedAt' = requestedAt
      BY <1>2, <1>3, <2>2, <3>1
    <3> QED
      BY <3>1, <3>2, <3>3 DEF DueInv
  <2> QED
    BY <1>1, <1>2, <2>1, <2>2 DEF Activates
<1>8. requested' \subseteq Clients /\ requestedAt' \subseteq Urls
  BY <1>2, ItsRequests
<1>9. owed' \subseteq Ids \X (Clients \cup Urls)
  BY <1>2 DEF HostInv, HostTypeOK
<1> QED
  BY <1>2, <1>4, <1>5, <1>6, <1>7, <1>8, <1>9, IdleKeeps, ItsPosted, WorkerHost DEF store

LEMMA ActivatesOtherKeeps == ASSUME HostInv, ActivatesOther PROVE HostInv'
<1>1. /\ worker.at = "decided" /\ worker.does = "other" /\ Activates(worker.id, FALSE) /\ worker' = Idle
      /\ UNCHANGED <<requested, requestedAt, posted, operator, records, tokens, known, owed>>
  BY DEF ActivatesOther, store
<1>2. AllEvolve /\ \A j \in Ids : Waits(j)' => j = worker.id \/ Waits(j)
  BY <1>1, ActivatesEvolves
<1>3. \A o \in owed : o[1] = worker.id => Coming(o[1])
  BY <1>1, DecidedIs
<1>4. AskedIsDecided'
  BY <1>1, <1>2, <1>3, ActedDecides
<1>5. OwedInv'
  BY <1>1, <1>2, OwedStays DEF OwedInv
<1>6. DueInv'
  BY <1>1, DueStays DEF Activates
<1>7. requested' \subseteq Clients /\ requestedAt' \subseteq Urls
  BY <1>1, ItsRequests
<1> QED
  BY <1>1, <1>2, <1>4, <1>5, <1>6, <1>7, IdleKeeps, ItsPosted, ItsOwed, WorkerHost DEF store

LEMMA RehandshakesKeeps == ASSUME HostInv, Rehandshakes PROVE HostInv'
<1>1. PICK i : i = worker.id
  OBVIOUS
<1>2. /\ worker.at = "decided" /\ worker' = Idle
      /\ UNCHANGED <<requested, requestedAt, posted, operator, records, tokens, known, due, owed>>
  BY DEF Rehandshakes, store, counts
<1> DEFINE s == connections[i]
           p == IF worker.does = "back" THEN "sentinel" ELSE worker.choice
           t == [s EXCEPT !.phase = "rehandshake", !.choice = p]
<1>3. i \in Ids /\ IsConnection(s) /\ s \in Connection /\ s.client \in Clients
  BY <1>1, <1>2, DecidedIs
<1>4. AllEvolve /\ (Waits(i)' => FALSE) /\ \A j \in Ids : j # i => connections'[j] = connections[j]
  <2>1. CASE (~Ready(i) \/ s.attempt) /\ UNCHANGED connections
    BY <2>1, UnchangedEvolve DEF Waits, Ready
  <2>2. CASE Ready(i) /\ connections' = [connections EXCEPT ![i].phase = "rehandshake", ![i].choice = p]
    <3>1. p \in Psks
      <4>1. worker.choice \in Psks
        BY <1>2, WorkerIs
      <4> QED
        BY <4>1 DEF Psks
    <3> HIDE DEF p
    <3>2. s.phase = "ready" /\ connections' = [connections EXCEPT ![i] = t]
      BY <2>2, ConnectionsAre DEF Ready
    <3>3. /\ t \in Connection /\ t.phase = "rehandshake" /\ t.client = s.client /\ t.url = s.url
          /\ t.attempt = s.attempt /\ t.said = s.said
      BY <1>3, <3>1 DEF Connection, Phases
    <3> HIDE DEF t
    <3>4. IsConnection(t)
      BY <1>3, <3>3 DEF IsConnection
    <3>5. Evolves(s, t)
      BY <1>3, <3>2, <3>3, <3>4 DEF Evolves, OwedFor, Takeable
    <3>6. AllEvolve /\ connections'[i] = t /\ \A j \in Ids : j # i => connections'[j] = connections[j]
      BY <1>3, <3>2, <3>5, OneEvolves DEF AllEvolve
    <3> QED
      BY <3>3, <3>6 DEF Waits, Ready
  <2>3. connections' = IF ~Ready(i) \/ s.attempt THEN connections
                       ELSE [connections EXCEPT ![i].phase = "rehandshake", ![i].choice = p]
    BY <1>1 DEF Rehandshakes
  <2> HIDE DEF p
  <2> QED
    BY <2>1, <2>2, <2>3
<1>5. AskedIsDecided'
  <2>1. \A j \in Ids : Waits(j)' => j = worker.id \/ Waits(j)
    BY <1>1, <1>4 DEF Waits, Ready
  <2>2. \A o \in owed' : o[1] = worker.id /\ Waits(o[1])' => Coming(o[1])
    BY <1>1, <1>4
  <2> QED
    BY <1>2, <2>1, <2>2, ActedDecides
<1>6. OwedInv'
  BY <1>2, <1>4, OwedStays DEF OwedInv
<1>7. DueInv'
  BY <1>2, DueStays
<1>8. requested' \subseteq Clients /\ requestedAt' \subseteq Urls
  BY <1>2, ItsRequests
<1> QED
  BY <1>2, <1>4, <1>5, <1>6, <1>7, <1>8, IdleKeeps, ItsPosted, ItsOwed, WorkerHost DEF store

\* A dial changes nothing that waits, and drops no request but the URL's.
LEMMA DialsKeep ==
    ASSUME HostInv, NEW u \in Urls, Dials(u), worker = Idle, PostedOK', StillComing,
           UNCHANGED <<requested, worker, operator, records, tokens, known, due>>
    PROVE  HostInv'
<1>1. /\ AllEvolve /\ \A j \in Ids : Waits(j)' => Waits(j)
      /\ requestedAt' \subseteq requestedAt /\ owed' \subseteq owed
      /\ \A o \in owed' : o[2] \in requestedAt => o[2] \in requestedAt'
  <2>1. CASE Opens(u) /\ UNCHANGED <<requestedAt, owed>>
    <3>1. PICK i \in Ids : /\ connections[i].phase = "unused" /\ connections'[i].phase = "handshake"
                           /\ \A j \in Ids \ {i} : connections'[j] = connections[j]
      BY <2>1, OpensEvolves
    <3>2. AllEvolve
      BY <2>1, OpensEvolves
    <3> QED
      BY <2>1, <3>1, <3>2 DEF Waits, Ready
  <2>2. CASE Erases(u) /\ UNCHANGED connections
    BY <2>2, UnchangedEvolve DEF Erases, Waits, Ready
  <2> QED
    BY <2>1, <2>2 DEF Dials
<1>2. AskedIsDecided'
  <2> SUFFICES ASSUME NEW o \in owed', Waits(o[1])' PROVE WillDecide(o[1])'
    BY DEF AskedIsDecided, Waits
  <2>1. o[1] \in Ids /\ o \in owed /\ Waits(o[1])
    BY <1>1, OwedTypes
  <2>2. WillDecide(o[1])
    BY <2>1 DEF HostInv, AskedIsDecided, Waits
  <2>3. Coming(o[1])
    BY <2>2 DEF WillDecide, Coming, Idle
  <2>4. Coming(o[1])'
    BY <2>1, <2>3 DEF StillComing
  <2> QED
    BY <2>4 DEF WillDecide, Coming
<1>3. OwedInv'
  <2> SUFFICES ASSUME NEW o \in owed' PROVE IsOwed(o)'
    BY DEF OwedInv
  <2> QED
    BY <1>1, OwedStays
<1>4. DueInv'
  BY <1>1, DueLess
<1>5. requested' \subseteq Clients /\ requestedAt' \subseteq Urls /\ owed' \subseteq Ids \X (Clients \cup Urls)
  BY <1>1, ItsRequests DEF HostInv, HostTypeOK
<1> QED
  BY <1>1, <1>2, <1>3, <1>4, <1>5, IdleKeeps, WorkerHost DEF store

LEMMA DialPostedKeeps == ASSUME HostInv, DialPosted PROVE HostInv'
<1>1. /\ Takes /\ Work1.does = "dial" /\ Dials(Work1.url)
      /\ UNCHANGED <<requested, worker, operator, records, tokens, known, due>>
  BY DEF DialPosted, store
<1>2. /\ PostedOK' /\ Work1 \in Work /\ worker = Idle
      /\ \A j \in Ids : Coming(j) => Coming(j)' \/ Work1 = Decide(j)
  BY <1>1, Taken
<1>3. StillComing /\ Work1.url \in Urls
  BY <1>1, <1>2, WorkTypes DEF StillComing
<1> QED
  BY <1>1, <1>2, <1>3, DialsKeep

LEMMA RedialKeeps == ASSUME HostInv, NEW u \in Urls, Redial(u) PROVE HostInv'
<1>1. /\ worker = Idle /\ Dials(u)
      /\ UNCHANGED <<requested, posted, worker, operator, records, tokens, known, due>>
  BY DEF Redial, store
<1> QED
  BY <1>1, NoPostKeepsComing, ItsPosted, DialsKeep

LEMMA RemovesKeeps == ASSUME HostInv, Removes PROVE HostInv'
<1>1. /\ Takes /\ Work1.does = "remove"
      /\ UNCHANGED <<requested, requestedAt, operator, records, tokens, known, due>>
  BY DEF Removes, store
<1>2. /\ PostedOK' /\ Work1 \in Work /\ worker = Idle
      /\ \A o \in owed : o[1] \in Ids /\ (Waits(o[1]) => Coming(o[1])' \/ Work1 = Decide(o[1]))
  BY <1>1, Taken
<1>3. PICK i \in Ids : i = Work1.id
  BY <1>1, <1>2, WorkTypes
<1>4. PICK u, said : u = connections[i].url /\ said = connections[i].said
  OBVIOUS
<1>u. u \in Urls \cup {NoUrl}
  BY <1>4, ConnectionsAre DEF Connection
<1> DEFINE t == [Unused EXCEPT !.phase = "removed"]
<1>5. /\ connections' = [connections EXCEPT ![i] = t]
      /\ owed' = {o \in owed : o[1] # i}
      /\ worker' = IF said \/ u = NoUrl THEN Idle ELSE [at |-> "gone", url |-> u]
  BY <1>3, <1>4 DEF Removes
<1>6. IsConnection(t) /\ t.phase = "removed"
  BY UnusedIs DEF Unused
<1> HIDE DEF t
<1>7. Evolves(connections[i], t)
  BY <1>6 DEF Evolves, OwedFor
<1>8. /\ AllEvolve /\ connections'[i] = t
      /\ \A j \in Ids : j # i => connections'[j] = connections[j]
  BY <1>5, <1>7, OneEvolves DEF AllEvolve
<1>9. AskedIsDecided'
  <2> SUFFICES ASSUME NEW o \in owed', Waits(o[1])' PROVE WillDecide(o[1])'
    BY DEF AskedIsDecided, Waits
  <2>1. o \in owed /\ o[1] \in Ids /\ Waits(o[1])
    BY <1>5, <1>8, OwedTypes DEF Waits, Ready
  <2>2. Coming(o[1])'
    BY <1>1, <1>2, <2>1, WorkTypes
  <2> QED
    BY <2>2 DEF WillDecide, Coming
<1>10. OwedInv'
  <2> SUFFICES ASSUME NEW o \in owed' PROVE IsOwed(o)'
    BY DEF OwedInv
  <2> QED
    BY <1>1, <1>5, <1>8, OwedStays
<1>11. DueInv'
  BY <1>1, DueStays
<1>12. requested' \subseteq Clients /\ requestedAt' \subseteq Urls
  BY <1>1, ItsRequests
<1>13. owed' \subseteq Ids \X (Clients \cup Urls)
  BY <1>5 DEF HostInv, HostTypeOK
<1>14. WorkerOK' /\ WorkerInv'
  BY <1>5, <1>u DEF WorkerOK, WorkerInv, Reads, Idle
<1> QED
  BY <1>1, <1>2, <1>8, <1>9, <1>10, <1>11, <1>12, <1>13, <1>14, WorkerHost DEF store

LEMMA RemovesRequestKeeps == ASSUME HostInv, RemovesRequest PROVE HostInv'
<1>1. /\ worker.at = "gone" /\ Erases(worker.url) /\ worker' = Idle
      /\ UNCHANGED <<connections, requested, posted, operator, records, tokens, known, due>>
  BY DEF RemovesRequest, store
<1>2. /\ requestedAt' \subseteq requestedAt /\ owed' \subseteq owed
      /\ \A o \in owed' : o[2] \in requestedAt => o[2] \in requestedAt'
  BY <1>1 DEF Erases
<1>3. AskedIsDecided'
  <2> SUFFICES ASSUME NEW o \in owed', Waits(o[1])' PROVE WillDecide(o[1])'
    BY DEF AskedIsDecided, Waits
  <2>1. WillDecide(o[1])
    BY <1>1, <1>2 DEF HostInv, AskedIsDecided, Waits, Ready
  <2> QED
    BY <1>1, <2>1 DEF WillDecide
<1>4. AllEvolve
  BY <1>1, UnchangedEvolve
<1>5. OwedInv'
  BY <1>1, <1>2, <1>4, OwedStays DEF OwedInv
<1>6. DueInv'
  BY <1>1, <1>2, DueLess
<1>7. requested' \subseteq Clients /\ requestedAt' \subseteq Urls /\ owed' \subseteq Ids \X (Clients \cup Urls)
  BY <1>1, <1>2, ItsRequests DEF HostInv, HostTypeOK
<1> QED
  BY <1>1, <1>3, <1>4, <1>5, <1>6, <1>7, IdleKeeps, ItsPosted, WorkerHost DEF store

LEMMA WorkerStepKeeps == ASSUME HostInv, WorkerStep PROVE HostInv'
BY LooksAwayKeeps, LooksKeeps, TakesRequestKeeps, ChoosesKeeps, ActivatesPairingKeeps, ActivatesOtherKeeps,
   RehandshakesKeeps, DialPostedKeeps, RemovesKeeps, RemovesRequestKeeps, RedialKeeps DEF WorkerStep

----------------------------------------------------------------------------
(* The specification.                                                      *)

LEMMA HostInit == Init => HostInv
<1> SUFFICES ASSUME Init PROVE HostInv
  OBVIOUS
<1>1. /\ connections = [i \in Ids |-> Unused] /\ requested = {} /\ requestedAt = {}
      /\ posted = <<>> /\ worker = Idle /\ operator = Idle /\ owed = {}
      /\ records \subseteq Clients /\ known = records /\ tokens = {} /\ due = [c \in Clients |-> 0]
  BY DEF Init
<1>2. \A i \in Ids : connections[i] = Unused /\ IsConnection(Unused)
  BY <1>1, UnusedIs
<1>3. HostTypeOK
  <2>1. connections \in [Ids -> Connection]
    BY <1>1, <1>2 DEF IsConnection
  <2>2. posted \in Seq(Work) /\ Len(posted) <= MaxPosted
    BY <1>1, HostAssumption
  <2> QED
    BY <1>1, <2>1, <2>2 DEF HostTypeOK
<1>4. WorkerInv /\ OperatorInv /\ OwedInv /\ AskedIsDecided
  BY <1>1 DEF WorkerInv, Reads, OperatorInv, OwedInv, AskedIsDecided, Idle
<1>5. DueInv
  <2>1. IsFiniteSet({}) /\ Cardinality({}) = 0
    BY FS_EmptySet
  <2>2. \A c \in Clients : AtUrls(c) = {}
    BY <1>1 DEF AtUrls
  <2>3. ASSUME NEW c \in Clients PROVE Asked(c) = 0
    <3>1. Cardinality(AtUrls(c)) = 0
      BY <2>1, <2>2
    <3>2. c \notin requested /\ operator.at # "found"
      BY <1>1 DEF Idle
    <3> QED
      BY <3>1, <3>2 DEF Asked
  <2> QED
    BY <1>1, <2>1, <2>3 DEF DueInv
<1> QED
  BY <1>2, <1>3, <1>4, <1>5 DEF HostInv

LEMMA HostStutters == ASSUME HostInv, UNCHANGED vars PROVE HostInv'
BY DEF HostInv, vars, HostTypeOK, WorkerInv, Reads, ReadsAsks, Unread, Waits, OperatorInv, OwedInv, IsOwed, AskedIsDecided,
   WillDecide, DueInv, Asked, AtUrls, Coming, Ready

LEMMA HostStep == HostInv /\ [Next]_vars => HostInv'
BY SessionStepKeeps, OperatorStepKeeps, WorkerStepKeeps, HostStutters DEF Next

\* The state of the host is always of its type: the connections, the worker's
\* queue within its bound, and the worker and the operator where they can be.
THEOREM HostTypeCorrect == Spec => []HostTypeOK
<1>1. HostInv => HostTypeOK
  BY DEF HostInv
<1> QED
  BY <1>1, HostInit, HostStep, PTL DEF Spec

\* The host never starts more pairings by a code with a client than the
\* operator asked for, by the client or by a URL it answers at.
THEOREM NeverMoreThanAsked == Spec => []PairsOnlyAsked
<1>1. HostInv => PairsOnlyAsked
  <2> SUFFICES ASSUME HostInv, NEW c \in Clients PROVE due[c] >= 0
    BY DEF PairsOnlyAsked
  <2>1. Cardinality(AtUrls(c)) \in Nat /\ due[c] \in Int /\ due[c] >= Asked(c)
    BY AtUrlsCount
  <2> QED
    BY <2>1 DEF Asked
<1> QED
  BY <1>1, HostInit, HostStep, PTL DEF Spec

\* Every request left for a connection is decided by the worker once the
\* connection is ready without an attempt, whatever the threads' order.
THEOREM RequestsAreDecided == Spec => []AskedIsDecided
<1>1. HostInv => AskedIsDecided
  BY DEF HostInv
<1> QED
  BY <1>1, HostInit, HostStep, PTL DEF Spec
=============================================================================
