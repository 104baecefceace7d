---------------------------- MODULE PairingFlow ----------------------------
(***************************************************************************)
(* Pairing over one connection: ClientPairing inside a PlayerSession       *)
(* against ServerPairing inside a ServerSession, with a FIFO of messages   *)
(* in each direction.  The server's operator activates pairing, enters     *)
(* codes and cancels; the client's operator cancels, opens the window and  *)
(* resets the round limit; either side times out; the connection may drop. *)
(*                                                                         *)
(* One handshake is modelled: a re-handshake starts both sides anew under  *)
(* new keys, so the one that follows a pairing is where a run ends.        *)
(***************************************************************************)
EXTENDS ClientPairing

CONSTANTS
    Conn,       \* the connection
    NoRecord    \* no pairing record

ASSUME FlowAssumption == Connections = {Conn} /\ NoRecord \notin Nat

VARIABLES
    server,         \* attempt_ of the ServerSession
    phase,          \* its phase_: "active", "rehandshake" or "closed"
    serverIndex,    \* its pairing_index_
    toServer, toClient,
    clientRecord, serverRecord,     \* the long-term PSK each side has persisted
    proved,         \* history: attempts for which the right code was entered
    errors          \* history: closes for a protocol error

serverVars == <<server, phase, serverIndex, serverRecord>>
links      == <<toServer, toClient>>
flowVars   == <<clientVars, serverVars, links, clientRecord, proved, errors>>

ServerStates == {"none", "init", "code", "clientAuth", "confirm", "finalize", "done"}

NoServerAttempt ==
    [state |-> "none", method |-> "psk", index |-> 0, round |-> 0, entry |-> NoEntry, heard |-> NoSid]

\* attempt_running() and started().
Running(s) == s.state \notin {"none", "done"}
Started(s) == s.state \notin {"none", "init"}

Activate(method) == [type |-> "activate", method |-> method]
Rehandshake(psk) == [type |-> "rehandshake", psk |-> psk]
ServerInit(n)    == [type |-> "init", nonce |-> n]
EntryOf(t, e)    == [type |-> t, entry |-> e]

----------------------------------------------------------------------------
(* ServerPairing: the attempt after, what follows and the messages.        *)

Reply(after, s, out) == [after |-> after, server |-> s, out |-> out]
Ended(s)             == [NoServerAttempt EXCEPT !.state = "done"]
Fails(s)             == Reply("error", Ended(s), <<>>)
Ignores(s)           == Reply("continue", s, <<>>)

\* Mutation: rounds are counted down.
NextRoundBack(s, nonce) ==
    Reply("continue", [s EXCEPT !.state = "code", !.round = @ - 1, !.entry = NoEntry, !.heard = NoSid],
          <<ServerInit(nonce)>>)

NextRound(s, nonce) ==
    Reply("continue", [s EXCEPT !.state = "code", !.round = @ + 1, !.entry = NoEntry, !.heard = NoSid],
          <<ServerInit(nonce)>>)

\* The dynamic round opens with the server's nonce, the static code at once.
Initiated(s) ==
    IF s.method = "dynamic" THEN NextRound(s, TRUE)
    ELSE Reply("continue", [s EXCEPT !.state = "code", !.round = 1], <<>>)

\* verify() on client_kc: the same code under the same sid on both sides.
Matches(s, sid) == s.entry = [sid |-> sid, code |-> "right"] /\ s.heard = sid

Finalized(s, m) == [after |-> "paired", server |-> NoServerAttempt, out |-> <<>>, psk |-> m.psk]

\* Mutation: messages of the attempt before are out of sequence.
InInitStrict(s, m) ==
    IF m.type # "init" \/ m.index # s.index \/ m.commit # (s.method = "dynamic") THEN Fails(s)
    ELSE Initiated(s)

InInit(s, m) ==
    IF s.method = "psk"
      THEN IF m.type = "finalize" /\ m.wrap = NoSid THEN Finalized(s, m) ELSE Fails(s)
    ELSE IF m.type # "init" THEN IF s.index > 1 THEN Ignores(s) ELSE Fails(s)
    ELSE IF m.index > s.index THEN Fails(s)
    ELSE IF m.index < s.index THEN Ignores(s)
    ELSE IF m.commit # (s.method = "dynamic") THEN Fails(s)
    ELSE Initiated(s)

InClientAuth(s, m) ==
    IF m.type = "auth"
      THEN Reply("continue", [s EXCEPT !.state = "confirm", !.heard = m.sid], <<EntryOf("confirm", s.entry)>>)
    ELSE Fails(s)

InConfirm(s, m) ==
    IF m.type = "retry" /\ s.method = "dynamic" /\ Dialect = "specification" THEN NextRound(s, FALSE)
    ELSE IF m.type # "confirm" THEN Fails(s)
    ELSE IF Matches(s, m.sid) THEN Reply("continue", [s EXCEPT !.state = "finalize"], <<>>)
    ELSE Reply("ended", Ended(s), <<PairAbort("mismatch")>>)

InFinalize(s, m) ==
    IF m.type = "finalize" /\ m.wrap = s.entry.sid THEN Finalized(s, m) ELSE Fails(s)

\* Messages of an ended attempt are discarded; before any pairing activation
\* one is out of sequence.
ServerReceive(s, m, index) ==
    IF s.state = "none" THEN IF index > 0 THEN Ignores(s) ELSE Fails(s)
    ELSE IF s.state = "done" THEN Ignores(s)
    ELSE IF m.type = "abort"
      THEN Reply(IF m.reason = "concurrent" THEN "close" ELSE "ended", Ended(s), <<>>)
    ELSE IF m.type = "pending"
      THEN IF m.index > s.index \/ s.state # "init" THEN Fails(s) ELSE Ignores(s)
    ELSE CASE s.state = "init"       -> InInit(s, m)
           [] s.state = "code"       -> Fails(s)
           [] s.state = "clientAuth" -> InClientAuth(s, m)
           [] s.state = "confirm"    -> InConfirm(s, m)
           [] s.state = "finalize"   -> InFinalize(s, m)

----------------------------------------------------------------------------
FlowInit ==
    /\ ClientInit
    /\ server = NoServerAttempt /\ phase = "active" /\ serverIndex = 0
    /\ toServer = <<>> /\ toClient = <<>>
    /\ clientRecord = NoRecord /\ serverRecord = NoRecord
    /\ proved = {} /\ errors = 0

(* The server's side.                                                      *)

\* activate() for pairing, over whatever attempt there is.
ServerActivates(method) ==
    /\ phase = "active" /\ serverIndex < MaxIndex
    /\ serverIndex' = serverIndex + 1
    /\ server' = [NoServerAttempt EXCEPT !.state = "init", !.method = method, !.index = serverIndex + 1]
    /\ toClient' = Append(toClient, Activate(method))
    /\ UNCHANGED <<clientVars, phase, serverRecord, toServer, clientRecord, proved, errors>>

\* leave_pairing(): an activation that declares nothing follows.
Leaves(out) ==
    /\ server' = NoServerAttempt
    /\ toClient' = toClient \o out \o <<Activate("none")>>
    /\ UNCHANGED <<clientVars, phase, serverIndex, serverRecord, toServer, clientRecord, proved, errors>>

ServerCancels ==
    /\ phase = "active" /\ server.state # "none"
    /\ Leaves(IF server.state = "done" THEN <<>> ELSE <<PairAbort("cancelled")>>)

\* Mutation: an attempt the client has not begun does not time out.
StartedTimesOut == phase = "active" /\ Running(server) /\ Started(server) /\ Leaves(<<>>)

\* tick(): the attempt did not start, or did not finish, in time.
ServerTimesOut == phase = "active" /\ Running(server) /\ Leaves(<<>>)

EnterCode(code) ==
    LET entry == [sid |-> <<server.index, server.round>>, code |-> code]
    IN  /\ phase = "active" /\ server.state = "code"
        /\ server' = [server EXCEPT !.state = "clientAuth", !.entry = entry]
        /\ toClient' = Append(toClient, EntryOf("auth", entry))
        /\ proved' = IF code = "right" THEN proved \cup {server.index} ELSE proved
        /\ UNCHANGED <<clientVars, phase, serverIndex, serverRecord, toServer, clientRecord, errors>>

\* Mutation: the client is told before the record is persisted.
PersistsLast(psk) ==
    /\ toClient' = toClient \o <<[type |-> "finalize"], Rehandshake(psk)>>
    /\ \/ serverRecord' = psk /\ phase' = "rehandshake"
       \/ UNCHANGED serverRecord /\ phase' = "closed"

\* paired(): the record is persisted first, or the connection closes; then
\* server/pair-finalize and message 1 of the re-handshake go out together.
Persists(psk) ==
    \/ /\ serverRecord' = psk /\ phase' = "rehandshake"
       /\ toClient' = toClient \o <<[type |-> "finalize"], Rehandshake(psk)>>
    \/ /\ phase' = "closed"
       /\ UNCHANGED <<serverRecord, toClient>>

\* Until the re-handshake is answered the server discards what arrives.
ServerReceives ==
    /\ toServer # <<>> /\ phase # "closed"
    /\ toServer' = Tail(toServer)
    /\ LET reply == ServerReceive(server, Head(toServer), serverIndex)
       IN  IF phase = "rehandshake" THEN UNCHANGED <<serverVars, toClient, errors>>
           ELSE /\ server' = reply.server
                /\ errors' = IF reply.after = "error" THEN errors + 1 ELSE errors
                /\ IF reply.after = "paired" THEN Persists(reply.psk)
                   ELSE /\ phase' = IF reply.after \in {"close", "error"} THEN "closed" ELSE phase
                        /\ toClient' = toClient \o reply.out
                        /\ UNCHANGED serverRecord
                /\ UNCHANGED serverIndex
    /\ UNCHANGED <<clientVars, clientRecord, proved>>

----------------------------------------------------------------------------
(* The client's side: steps of ClientPairing, their messages sent on.      *)

Sends(step) ==
    /\ Takes(Conn, step)
    /\ toServer' = toServer \o step.out
    /\ errors' = IF step.after = "error" THEN errors + 1 ELSE errors
    /\ UNCHANGED <<serverVars, proved>>

Hears(m) ==
    CASE m.type = "activate" /\ m.method = "none" ->
            /\ Sends(Step("continue", NoAttempt, shared, <<>>))
            /\ UNCHANGED <<pairingIndex, resuming, acts, clientRecord>>
      [] m.type = "activate" /\ m.method # "none" ->
            /\ Sends(Start(m.method, pairingIndex[Conn] + 1, shared, Conn))
            /\ pairingIndex' = [pairingIndex EXCEPT ![Conn] = @ + 1]
            /\ UNCHANGED <<resuming, acts, clientRecord>>
      [] m.type = "rehandshake" ->
            /\ Sends(Step(IF m.psk = clientRecord THEN "continue" ELSE "close", NoAttempt, shared, <<>>))
            /\ UNCHANGED <<pairingIndex, resuming, acts, clientRecord>>
      [] OTHER ->
            LET discarded == IF pairingIndex[Conn] > 0 THEN "continue" ELSE "error"
            IN  /\ Sends(IF attempt[Conn].state = "none"
                           THEN Step(discarded, NoAttempt, shared, <<>>)
                           ELSE Receive(attempt[Conn], shared, m))
                /\ clientRecord' = IF attempt[Conn].state = "finalize" /\ m.type = "finalize"
                                     THEN attempt[Conn].index ELSE clientRecord
                /\ UNCHANGED <<pairingIndex, resuming, acts>>

ClientReceives ==
    /\ toClient # <<>>
    /\ toClient' = Tail(toClient)
    /\ Hears(Head(toClient))

ClientActs ==
    /\ \/ Resumes(Conn) /\ Sends(Resume(attempt[Conn], shared, Conn))
       \/ Cancels(Conn) /\ Sends(Cancel(attempt[Conn], shared))
       \/ TimesOut(Conn) /\ Sends(Abort(attempt[Conn], shared, "timeout"))
    /\ UNCHANGED <<toClient, clientRecord>>

OperatorOfClient ==
    /\ OpensWindow \/ ResetsRounds \/ WindowExpires
    /\ UNCHANGED <<serverVars, links, clientRecord, proved, errors>>

\* The connection is lost, with what was in flight.
LinkLost ==
    /\ live # {} \/ phase # "closed"
    /\ live' = {} /\ phase' = "closed" /\ toServer' = <<>> /\ toClient' = <<>>
    /\ attempt' = [attempt EXCEPT ![Conn] = NoAttempt] /\ server' = NoServerAttempt
    /\ shared' = Dropped(shared, Conn)
    /\ UNCHANGED <<pairingIndex, resuming, acts, serverIndex, serverRecord, clientRecord, proved, errors>>

FlowNext ==
    \/ \E method \in Methods : ServerActivates(method)
    \/ \E code \in {"right", "wrong"} : EnterCode(code)
    \/ ServerCancels \/ ServerTimesOut \/ ServerReceives
    \/ ClientReceives \/ ClientActs \/ OperatorOfClient \/ LinkLost

\* Both drivers read what arrives and tick their sessions.
FlowFairness ==
    /\ WF_flowVars(ServerReceives) /\ WF_flowVars(ClientReceives)
    /\ WF_flowVars(ServerTimesOut) /\ WF_flowVars(TimesOut(Conn) /\ ClientActs)

FlowSpec == FlowInit /\ [][FlowNext]_flowVars /\ FlowFairness

----------------------------------------------------------------------------
ServerAttempts ==
    [state : ServerStates, method : Methods \cup {"psk"}, index : Nat, round : Nat,
     entry : [sid : Nat \X Nat, code : {"right", "wrong"}], heard : Nat \X Nat]

FlowTypeOK ==
    /\ ClientTypeOK
    /\ server \in ServerAttempts /\ phase \in {"active", "rehandshake", "closed"}
    /\ serverIndex \in 0..MaxIndex
    /\ {clientRecord, serverRecord} \subseteq (1..MaxIndex) \cup {NoRecord}
    /\ proved \subseteq 1..MaxIndex /\ errors \in 0..2

\* The client persists a record only when the server has persisted the same
\* one, however activations, cancellations and timeouts cross in flight.
RecordsAgree == clientRecord \in {NoRecord, serverRecord}

\* The PSK leaves the client, and either side keeps it, only in an attempt
\* whose right code the server's operator entered: no proof, record or round
\* of one attempt serves another.
RecordIsProved ==
    /\ {clientRecord, serverRecord} \ {NoRecord} \subseteq proved
    /\ attempt[Conn].state = "finalize" => attempt[Conn].index \in proved
    /\ server.state = "finalize" => server.index \in proved

\* Two conforming peers never close on each other for a protocol error: each
\* message of a superseded or abandoned attempt is one the other discards.
NoProtocolError == errors = 0

\* Whatever is lost or half open, both sides' attempts end.
AttemptsEnd ==
    \A i \in 1..MaxIndex :
        /\ InProgress(attempt[Conn]) /\ attempt[Conn].index = i
              ~> ~(InProgress(attempt[Conn]) /\ attempt[Conn].index = i)
        /\ Running(server) /\ server.index = i ~> phase = "closed" \/ ~(Running(server) /\ server.index = i)
=============================================================================
