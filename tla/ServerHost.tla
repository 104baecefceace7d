----------------------------- MODULE ServerHost -----------------------------
(***************************************************************************)
(* The server's side of many connections (class ServerHost): the worker's  *)
(* queue, the pairings the operator asked for by client or by URL, and the *)
(* decision what each connection is activated for.                         *)
(*                                                                         *)
(* Three kinds of threads meet here.  The operator's calls leave a request *)
(* and post work; the sessions' threads report what their clients do and   *)
(* post work; the one worker runs what was posted, in order, reading       *)
(* sessions, requests and the store one after the other, each under a lock *)
(* of its own, and acting on what it read when it has let go of them all.  *)
(***************************************************************************)
EXTENDS Integers, Sequences

CONSTANTS
    Clients,            \* client keys
    Urls,               \* where a client can be dialled
    ClientAt,           \* the client that answers at a URL
    NoClient, NoUrl,
    MaxConnections,     \* bound: connections made (State::next_id)
    MaxPosted,          \* bound: length of the worker's queue
    MaxCalls            \* bound: calls the operator makes

ASSUME HostAssumption ==
    /\ ClientAt \in [Urls -> Clients]
    /\ NoClient \notin Clients /\ NoUrl \notin Urls /\ Clients \cap Urls = {}
    /\ MaxConnections \in Nat /\ MaxPosted \in Nat /\ MaxCalls \in Nat

VARIABLES
    connections,    \* HostConnection and its session, by id
    requested,      \* clients the operator asked to pair by a code
    requestedAt,    \* URLs the operator asked to pair at, whoever is there
    posted,         \* the worker's queue
    worker,         \* where the worker is inside decide() or remove()
    operator,       \* where the operator's thread is inside a call
    records,        \* ServerStore: clients with a long-term PSK
    tokens,         \* ServerStore: clients whose pairing PSK was entered
    known,          \* clients that hold their record of this server
    calls, due,     \* history: calls made; pairings asked for and not begun
    owed            \* history: the connections each request is left for

vars == <<connections, requested, requestedAt, posted, worker, operator,
          records, tokens, known, calls, due, owed>>

store  == <<records, tokens, known>>
counts == <<calls, due, owed>>

Ids       == 1..MaxConnections
Psks      == {"sentinel", "pairing", "longTerm"}
Phases    == {"unused", "handshake", "hello", "ready", "rehandshake",
              "closing", "ended", "removed"}
Decisions == {"code", "token", "back", "toToken", "other"}

\* `client` is known once the handshake is done, `said` once it has said hello.
Connection == [phase : Phases, url : Urls \cup {NoUrl}, client : Clients \cup {NoClient},
               said : BOOLEAN, psk : Psks, choice : Psks, attempt : BOOLEAN]
Work       == [does : {"decide", "remove"}, id : Ids] \cup [does : {"dial"}, url : Urls]
              \cup [does : {"find"}, client : Clients]
Idle       == [at |-> "idle"]
Views      == [at : {"viewed"}, id : Ids, psk : Psks, attempt : BOOLEAN]
              \cup [at : {"asked"}, id : Ids, psk : Psks, asks : BOOLEAN]
Choices    == [at : {"decided"}, id : Ids, choice : Psks, does : Decisions]

Unused == [phase |-> "unused", url |-> NoUrl, client |-> NoClient,
           said |-> FALSE, psk |-> "sentinel", choice |-> "sentinel", attempt |-> FALSE]

Held     == {i \in Ids : connections[i].phase \notin {"unused", "removed"}}
Ready(i) == connections[i].phase = "ready"
Saying(c) == {i \in Held : connections[i].said /\ connections[i].client = c}
At(u)     == {i \in Held : connections[i].url = u}
Least(S)  == CHOOSE i \in S : \A j \in S : i <= j
Decide(i) == [does |-> "decide", id |-> i]
Dial(u)   == [does |-> "dial", url |-> u]
Find(c)   == [does |-> "find", client |-> c]

Post(work) == Len(posted) < MaxPosted /\ posted' = Append(posted, work)

\* MemoryServerStore::choose
Choice(c) == IF c \in records THEN "longTerm" ELSE IF c \in tokens THEN "pairing" ELSE "sentinel"

Matches(c, psk) == psk = "longTerm" => c \in known

\* Nothing is called on a closing session any more but what it said of itself.
Closing(c) == [c EXCEPT !.phase = IF @ = "ended" THEN @ ELSE "closing", !.attempt = FALSE,
                        !.choice = "sentinel"]

Init ==
    /\ connections = [i \in Ids |-> Unused]
    /\ requested = {} /\ requestedAt = {}
    /\ posted = <<>> /\ worker = Idle /\ operator = Idle
    /\ records \in SUBSET Clients /\ known = records /\ tokens = {}
    /\ calls = 0 /\ due = [c \in Clients |-> 0] /\ owed = {}

----------------------------------------------------------------------------
(* Connections and their sessions.                                         *)

Opens(url) ==
    \E i \in Ids :
        /\ connections[i].phase = "unused" /\ \A j \in 1..i - 1 : connections[j].phase # "unused"
        /\ connections' = [connections EXCEPT ![i] = [Unused EXCEPT !.phase = "handshake", !.url = url]]

Accept == Opens(NoUrl) /\ UNCHANGED <<requested, requestedAt, posted, worker, operator, store, counts>>

\* A client that has lost its record falls back to the Sentinel.
Establish(i) ==
    /\ connections[i].phase = "handshake"
    /\ \E c \in (IF connections[i].url = NoUrl THEN Clients ELSE {ClientAt[connections[i].url]}) :
          connections' = [connections EXCEPT ![i].phase = "hello", ![i].client = c,
                             ![i].psk = IF Matches(c, Choice(c)) THEN Choice(c) ELSE "sentinel"]
    /\ UNCHANGED <<requested, requestedAt, posted, worker, operator, store, counts>>

\* In a re-handshake there is no fallback: a client without the PSK closes.
Reestablish(i) ==
    LET c == connections[i] IN
    /\ c.phase = "rehandshake"
    /\ connections' = [connections EXCEPT ![i] =
          IF Matches(c.client, c.choice)
            THEN [c EXCEPT !.phase = "hello", !.said = FALSE, !.psk = c.choice, !.choice = "sentinel"]
            ELSE Closing(c)]
    /\ UNCHANGED <<requested, requestedAt, posted, worker, operator, store, counts>>

OnHello(i) ==
    /\ connections[i].phase = "hello"
    /\ connections' = [connections EXCEPT ![i].phase = "ready", ![i].said = TRUE]
    /\ Post(Decide(i))
    /\ owed' = IF connections[i].url \in requestedAt THEN owed \cup {<<i, connections[i].url>>} ELSE owed
    /\ UNCHANGED <<requested, requestedAt, worker, operator, store, calls, due>>

\* Mutation: the host does not decide again.
OnPairingEndedQuietly(i) ==
    /\ Ready(i) /\ connections[i].attempt
    /\ connections' = [connections EXCEPT ![i].attempt = FALSE]
    /\ UNCHANGED <<requested, requestedAt, posted, worker, operator, store, counts>>

\* The attempt ends without pairing, by either side or a timeout.
OnPairingEnded(i) ==
    /\ Ready(i) /\ connections[i].attempt
    /\ connections' = [connections EXCEPT ![i].attempt = FALSE]
    /\ Post(Decide(i))
    /\ UNCHANGED <<requested, requestedAt, worker, operator, store, counts>>

\* The record is stored and the session re-handshakes to it at once; when it
\* cannot be stored the session closes.
OnPaired(i) ==
    LET c == connections[i].client IN
    /\ Ready(i) /\ connections[i].attempt
    /\ \/ /\ records' = records \cup {c} /\ tokens' = tokens \ {c} /\ known' = known \cup {c}
          /\ connections' = [connections EXCEPT ![i].phase = "rehandshake",
                                ![i].choice = "longTerm", ![i].attempt = FALSE]
       \/ /\ connections' = [connections EXCEPT ![i] = Closing(@)]
          /\ UNCHANGED store
    /\ UNCHANGED <<requested, requestedAt, posted, worker, operator, counts>>

\* The client leaves, the connection drops, or the session times out.
Drops(i) ==
    /\ connections[i].phase \in {"handshake", "hello", "ready", "rehandshake"}
    /\ connections' = [connections EXCEPT ![i] = Closing(@)]
    /\ UNCHANGED <<requested, requestedAt, posted, worker, operator, store, counts>>

\* The driver's threads are over.
Ended(i) ==
    /\ connections[i].phase = "closing"
    /\ connections' = [connections EXCEPT ![i].phase = "ended"]
    /\ Post([does |-> "remove", id |-> i])
    /\ UNCHANGED <<requested, requestedAt, worker, operator, store, counts>>

\* The client's own operator forgets this server.
LosesRecord(c) ==
    /\ c \in known /\ known' = known \ {c}
    /\ UNCHANGED <<connections, requested, requestedAt, posted, worker, operator, records, tokens, counts>>

SessionStep ==
    \/ Accept
    \/ \E i \in Ids : \/ Establish(i) \/ Reestablish(i) \/ OnHello(i)
                      \/ OnPairingEnded(i) \/ OnPaired(i) \/ Drops(i) \/ Ended(i)
    \/ \E c \in Clients : LosesRecord(c)

----------------------------------------------------------------------------
(* The operator's calls, one at a time.                                    *)

Calls == operator = Idle /\ calls < MaxCalls /\ calls' = calls + 1

\* A call about the client's connection that leaves nothing but work for it:
\* approve(), allow_source().
Reconsider(c) ==
    /\ Calls /\ Saying(c) # {}
    /\ Post(Decide(Least(Saying(c))))
    /\ UNCHANGED <<connections, requested, requestedAt, worker, operator, store, due, owed>>

\* enter_pairing_token(): the worker finds the client's connection, if any.
EnterPairingToken(c) ==
    /\ Calls
    /\ tokens' = tokens \cup {c}
    /\ operator' = [at |-> "post", work |-> Find(c)]
    /\ UNCHANGED <<connections, requested, requestedAt, posted, worker, records, known, due, owed>>

\* pair() finds the connection, leaves the request and posts, under three locks.
Pair(c) ==
    /\ Calls /\ Saying(c) # {}
    /\ due' = [due EXCEPT ![c] = @ + 1]
    /\ operator' = [at |-> "found", id |-> Least(Saying(c)), client |-> c]
    /\ UNCHANGED <<connections, requested, requestedAt, posted, worker, store, owed>>

Found ==
    /\ operator.at = "found"
    /\ requested' = requested \cup {operator.client}
    /\ operator' = [at |-> "post", work |-> Decide(operator.id)]
    /\ owed' = owed \cup {<<operator.id, operator.client>>}
    /\ UNCHANGED <<connections, requestedAt, posted, worker, store, calls, due>>

\* dial_to_pair() decides the connection at the URL, or else dials it.
DialToPair(u) ==
    /\ Calls
    /\ due' = [due EXCEPT ![ClientAt[u]] = @ + 1]
    /\ requestedAt' = requestedAt \cup {u}
    /\ IF At(u) = {}
         THEN operator' = [at |-> "post", work |-> Dial(u)] /\ UNCHANGED owed
         ELSE /\ operator' = [at |-> "post", work |-> Decide(Least(At(u)))]
              /\ owed' = owed \cup {<<Least(At(u)), u>>}
    /\ UNCHANGED <<connections, requested, posted, worker, store>>

Posts ==
    /\ operator.at = "post"
    /\ Post(operator.work)
    /\ operator' = Idle
    /\ UNCHANGED <<connections, requested, requestedAt, worker, store, counts>>

\* cancel_pairing(): the session leaves pairing, and nothing is decided.  A
\* request left meanwhile stays, but it is not owed any more.
CancelPairing(c) ==
    /\ Calls /\ Saying(c) # {}
    /\ LET i == Least(Saying(c)) IN
          /\ Ready(i) /\ connections[i].attempt
          /\ connections' = [connections EXCEPT ![i].attempt = FALSE]
          /\ owed' = {o \in owed : o[1] # i}
    /\ UNCHANGED <<requested, requestedAt, posted, worker, operator, store, due>>

\* unpair(): the client is told, and removes its own record when it hears it.
Unpair(c) ==
    /\ Calls /\ Saying(c) # {} /\ c \in records
    /\ records' = records \ {c}
    /\ UNCHANGED <<connections, requested, requestedAt, posted, worker, operator, tokens, known, due, owed>>

OperatorStep ==
    \/ Found \/ Posts
    \/ \E c \in Clients : \/ Reconsider(c) \/ EnterPairingToken(c) \/ Pair(c)
                          \/ CancelPairing(c) \/ Unpair(c)
    \/ \E u \in Urls : DialToPair(u)

----------------------------------------------------------------------------
(* The worker.  decide() is four steps: what it reads of the sessions, of  *)
(* the requests and of the store, and what it then does; remove() is two.  *)

Takes == worker = Idle /\ posted # <<>> /\ posted' = Tail(posted)
Work1 == Head(posted)

\* The connections the worker is to decide: one at most.
ToDecide == CASE Work1.does = "decide" -> {Work1.id}
              [] Work1.does = "find" /\ Saying(Work1.client) # {} -> {Least(Saying(Work1.client))}
              [] OTHER -> {}

\* The connections this one is a second one to.
Older(i) == {j \in Held : j < i /\ connections[j].client = connections[i].client}

\* What a connection without an attempt is activated for, or re-handshaked to.
Decision(psk, c, asks) ==
    CASE psk = "pairing"  -> "token"
      [] psk = "longTerm" -> IF asks THEN "back" ELSE "other"
      [] psk = "sentinel" -> IF asks THEN "code"
                             ELSE IF c \in tokens THEN "toToken" ELSE "other"

Decides(i) == i \in Held /\ connections[i].said

\* A connection that has not said hello is left alone; a second one is closed.
LooksAway ==
    /\ Takes /\ Work1.does \in {"decide", "find"}
    /\ \/ /\ ~\E i \in ToDecide : Decides(i)
          /\ UNCHANGED connections
       \/ \E i \in ToDecide :
             /\ Decides(i) /\ Older(i) # {}
             /\ connections' = [connections EXCEPT ![i] = Closing(@)]
    /\ UNCHANGED <<requested, requestedAt, worker, operator, store, counts>>

\* Otherwise the worker has its view of the connection.
Looks ==
    /\ Takes
    /\ \E i \in ToDecide :
          /\ Decides(i) /\ Older(i) = {}
          /\ worker' = [at |-> "viewed", id |-> i, psk |-> connections[i].psk,
                        attempt |-> connections[i].attempt]
    /\ UNCHANGED <<connections, requested, requestedAt, operator, store, counts>>

\* A request left for its URL is its client's from now on.  An attempt that was
\* running is left alone; if it is over since, its end has posted a decision, or
\* it was cancelled and nothing is owed.
TakesRequest ==
    LET i == worker.id  c == connections[i].client  url == connections[i].url IN
    /\ worker.at = "viewed"
    /\ requested' = IF url \in requestedAt THEN requested \cup {c} ELSE requested
    /\ requestedAt' = requestedAt \ {url}
    /\ owed' = IF url \notin requestedAt THEN owed
              ELSE {<<o[1], IF o[2] = url THEN c ELSE o[2]>> :
                      o \in owed \cup IF worker.attempt /\ ~connections[i].attempt THEN {} ELSE {<<i, url>>}}
    /\ worker' = IF worker.attempt THEN Idle
                 ELSE [at |-> "asked", id |-> i, psk |-> worker.psk, asks |-> c \in requested']
    /\ UNCHANGED <<connections, posted, operator, store, calls, due>>

\* What the store has decides the activation.
Chooses ==
    LET c == connections[worker.id].client IN
    /\ worker.at = "asked"
    /\ worker' = [at |-> "decided", id |-> worker.id, choice |-> Choice(c),
                  does |-> Decision(worker.psk, c, worker.asks)]
    /\ UNCHANGED <<connections, requested, requestedAt, posted, operator, store, counts>>

\* The session starts a pairing attempt, unless it is not where decide() saw it
\* or the client does not offer the method.
Activates(i, pairs) ==
    \/ /\ Ready(i) /\ connections' = [connections EXCEPT ![i].attempt = pairs]
       /\ due' = IF pairs /\ worker.does = "code"
                   THEN [due EXCEPT ![connections[i].client] = @ - 1] ELSE due
    \/ /\ ~Ready(i) \/ pairs
       /\ UNCHANGED <<connections, due>>

\* Mutation: the request stays after the activation it asked for.
ActivatesPairingStill ==
    /\ worker.at = "decided" /\ worker.does \in {"code", "token"}
    /\ Activates(worker.id, TRUE)
    /\ worker' = Idle
    /\ UNCHANGED <<requested, requestedAt, posted, operator, store, calls, owed>>

ActivatesPairing ==
    LET c == connections[worker.id].client IN
    /\ worker.at = "decided" /\ worker.does \in {"code", "token"}
    /\ requested' = requested \ {c}
    /\ owed' = {o \in owed : o[2] # c}
    /\ Activates(worker.id, TRUE)
    /\ worker' = Idle
    /\ UNCHANGED <<requestedAt, posted, operator, store, calls>>

ActivatesOther ==
    /\ worker.at = "decided" /\ worker.does = "other"
    /\ Activates(worker.id, FALSE)
    /\ worker' = Idle
    /\ UNCHANGED <<requested, requestedAt, posted, operator, store, calls, owed>>

\* Back to the Sentinel for a code, or to what the store chooses for a token.
Rehandshakes ==
    /\ worker.at = "decided" /\ worker.does \in {"back", "toToken"}
    /\ LET i == worker.id IN
          connections' = IF ~Ready(i) \/ connections[i].attempt THEN connections
                         ELSE [connections EXCEPT ![i].phase = "rehandshake",
                                  ![i].choice = IF worker.does = "back" THEN "sentinel"
                                                ELSE worker.choice]
    /\ worker' = Idle
    /\ UNCHANGED <<requested, requestedAt, posted, operator, store, counts>>

\* A request left for a URL is dropped.
Erases(u) ==
    /\ requestedAt' = requestedAt \ {u}
    /\ owed' = {o \in owed : o[2] # u}

\* on_dial_failed(): the request left for the URL, if any, goes with the dial.
Dials(u) ==
    \/ Opens(u) /\ UNCHANGED <<requestedAt, owed>>
    \/ Erases(u) /\ UNCHANGED connections

DialPosted ==
    /\ Takes /\ Work1.does = "dial"
    /\ Dials(Work1.url)
    /\ UNCHANGED <<requested, worker, operator, store, calls, due>>

\* With nothing posted, the worker dials what browsing found and nothing serves.
Redial(u) ==
    /\ worker = Idle /\ posted = <<>> /\ At(u) = {}
    /\ Dials(u)
    /\ UNCHANGED <<requested, posted, worker, operator, store, calls, due>>

\* remove() takes the connection out, and then drops the request left for its
\* URL when it ended before hello: one made in between is lost.
Removes ==
    /\ Takes /\ Work1.does = "remove"
    /\ LET c == connections[Work1.id] IN
          /\ connections' = [connections EXCEPT ![Work1.id] = [Unused EXCEPT !.phase = "removed"]]
          /\ worker' = IF c.said \/ c.url = NoUrl THEN Idle ELSE [at |-> "gone", url |-> c.url]
    /\ owed' = {o \in owed : o[1] # Work1.id}
    /\ UNCHANGED <<requested, requestedAt, operator, store, calls, due>>

RemovesRequest ==
    /\ worker.at = "gone"
    /\ Erases(worker.url)
    /\ worker' = Idle
    /\ UNCHANGED <<connections, requested, posted, operator, store, calls, due>>

WorkerStep ==
    \/ LooksAway \/ Looks \/ TakesRequest \/ Chooses
    \/ ActivatesPairing \/ ActivatesOther \/ Rehandshakes
    \/ DialPosted \/ Removes \/ RemovesRequest \/ \E u \in Urls : Redial(u)

Next == SessionStep \/ OperatorStep \/ WorkerStep

Spec == Init /\ [][Next]_vars

----------------------------------------------------------------------------
HostTypeOK ==
    /\ connections \in [Ids -> Connection]
    /\ requested \subseteq Clients /\ requestedAt \subseteq Urls /\ owed \subseteq Ids \X (Clients \cup Urls)
    /\ posted \in Seq(Work) /\ Len(posted) <= MaxPosted
    /\ worker \in {Idle} \cup Views \cup Choices \cup [at : {"gone"}, url : Urls]
    /\ \/ operator = Idle
       \/ operator \in [at : {"found"}, id : Ids, client : Clients] \cup [at : {"post"}, work : Work]
    /\ records \subseteq Clients /\ tokens \subseteq Clients /\ known \subseteq Clients

\* A client is never asked to pair by a code more often than the operator asked
\* for it, whatever its connections, attempts and dials did in between.
PairsOnlyAsked == \A c \in Clients : due[c] >= 0

WillDecide(i) ==
    \/ worker.at \in {"viewed", "asked", "decided"} /\ worker.id = i
    \/ \E k \in 1..Len(posted) : posted[k] = Decide(i)
    \/ operator = [at |-> "post", work |-> Decide(i)]

\* A request left for a connection, by its client or its URL, is never passed
\* over: until it is taken, dropped or cancelled, the connection is on its way to
\* another hello or closing, runs an attempt, or the worker is about to decide
\* what it is for.
AskedIsDecided ==
    \A o \in owed : Ready(o[1]) /\ ~connections[o[1]].attempt => WillDecide(o[1])

\* "The client pairs by its pairing PSK as soon as it is connected": a
\* re-handshake for an entered token names the Pairing PSK.
TokenIsNamed == worker.at = "decided" /\ worker.does = "toToken" => worker.choice = "pairing"

=============================================================================
