------------------------------ MODULE Streams ------------------------------
(***************************************************************************)
(* The roles and the streams of one connection: ServerSession and          *)
(* PlayerSession once the channel is up, and the frames in flight between  *)
(* them, each way in order.  A call of the engine's or of the player's     *)
(* application, and the handling of a frame, each end to end, is a step.   *)
(*                                                                         *)
(* Three roles stand for the seven: a player's stream and its audio (the   *)
(* burst and visualizer streams are handled alike), artwork and its        *)
(* transfers on one channel, and the source, which streams the other way.  *)
(* A frame names the keys it was sealed with, which a re-handshake changes.*)
(***************************************************************************)
EXTENDS Integers, Sequences

CONSTANTS
    RoleSets,       \* bound: the sets of roles the engine activates
    MaxDown, MaxUp, \* bounds: frames in flight
    MaxStreams,     \* bound: player streams started
    MaxParts,       \* bound: the parts of an image
    MaxKeys,        \* bound: re-handshakes
    MaxActivations  \* bound: activations between two handshakes

ASSUME StreamsAssumption ==
    /\ RoleSets \subseteq SUBSET {"player", "artwork", "source"}
    /\ MaxDown \in Nat \ {0}      \* the server's hello is in flight at first
    /\ {MaxUp, MaxStreams, MaxParts, MaxKeys, MaxActivations} \subseteq Nat

VARIABLES
    server,     \* ServerSession
    client,     \* PlayerSession
    down, up,   \* the frames in flight to the client and to the server
    streams     \* history: player streams started

streamsVars == <<server, client, down, up, streams>>

Roles == {"player", "artwork", "source"}
None == 0
Configs == 1..3     \* what an artwork channel asks for; it changes once, from 1
NoSource == 3       \* the channel asks for no images

\* A session as established() leaves it.
FreshServer(keys) ==
    [phase |-> "hello", keys |-> keys, roles |-> {}, activations |-> 0,
     heard |-> {}, available |-> FALSE, config |-> None,
     stream |-> None, artwork |-> None, transfer |-> 0,
     sourceStarted |-> FALSE, sourceOpen |-> FALSE]

\* carried is history: the roles it has had since before a re-handshake, whose
\* artwork and source state it has not reset.
FreshClient ==
    [phase |-> "hello", keys |-> 0, roles |-> {}, activations |-> 0,
     external |-> FALSE, config |-> 1, sentState |-> FALSE,
     stream |-> None, artwork |-> None, transfer |-> 0,
     sourceStarted |-> FALSE, sourceOpen |-> FALSE, carried |-> {}]

StreamsInit ==
    /\ server = FreshServer(0) /\ client = FreshClient
    /\ down = <<[kind |-> "hello", keys |-> 0]>> /\ up = <<>>
    /\ streams = 0

Sealed(keys, list) == [i \in DOMAIN list |-> [keys |-> keys, kind |-> list[i][1], body |-> list[i][2]]]

\* Frames sealed with the sender's keys, while the bound has room for them.
ToClient(list) ==
    /\ Len(down) + Len(list) <= MaxDown
    /\ down' = down \o Sealed(server.keys, list)
ToServer(list) ==
    /\ Len(up) + Len(list) <= MaxUp
    /\ up' = up \o Sealed(client.keys, list)

Connected == server.phase # "closed" /\ client.phase # "closed"
If(condition, list) == IF condition THEN list ELSE <<>>

----------------------------------------------------------------------------
(* The engine's calls on ServerSession.                                    *)

Active(role) == server.phase = "active" /\ role \in server.roles

\* A role the client has reported its state for since it was activated, while
\* the client is available.
Ready(role) == Active(role) /\ role \in server.heard /\ server.available

StartStream ==
    /\ Connected /\ Ready("player") /\ streams < MaxStreams
    /\ ToClient(<<<<"startPlayer", streams + 1>>>>)
    /\ server' = [server EXCEPT !.stream = streams + 1]
    /\ streams' = streams + 1
    /\ UNCHANGED <<client, up>>

SendAudio ==
    /\ Connected /\ Active("player") /\ server.stream # None
    /\ ToClient(<<<<"audio", server.stream>>>>)
    /\ UNCHANGED <<server, client, up, streams>>

\* A call that asks only for a stream is taken in any phase: also between the
\* two messages of a re-handshake.
EndStream ==
    /\ Connected /\ server.stream # None
    /\ ToClient(<<<<"end", "player">>>>)
    /\ server' = [server EXCEPT !.stream = None]
    /\ UNCHANGED <<client, up, streams>>

Cancelling == If(server.transfer > 0, <<<<"cancel", None>>>>)

\* Mutation: a changed channel does not cancel the transfer in flight on it.
StartArtworkOver ==
    /\ Connected /\ Ready("artwork")
    /\ ToClient(<<<<"startArtwork", server.config>>>>)
    /\ server' = [server EXCEPT !.artwork = server.config]
    /\ UNCHANGED <<client, up, streams>>

\* start_artwork_stream(): a transfer on a channel that changes is cancelled,
\* and a channel whose source becomes none is cleared.
StartArtwork ==
    LET changed == server.artwork \notin {None, server.config}
        cleared == changed /\ server.config = NoSource
    IN  /\ Connected /\ Ready("artwork")
        /\ ToClient(If(changed, Cancelling) \o If(cleared, <<<<"announce", 0>>>>)
                    \o <<<<"startArtwork", server.config>>>>)
        /\ server' = [server EXCEPT !.artwork = server.config,
                                    !.transfer = IF changed THEN 0 ELSE @]
        /\ UNCHANGED <<client, up, streams>>

Announce(parts) ==
    /\ Connected /\ Active("artwork") /\ server.artwork \notin {None, NoSource} /\ server.transfer = 0
    /\ ToClient(<<<<"announce", parts>>>>)
    /\ server' = [server EXCEPT !.transfer = parts]
    /\ UNCHANGED <<client, up, streams>>

SendPart ==
    /\ Connected /\ server.artwork # None /\ server.transfer > 0
    /\ ToClient(<<<<"part", None>>>>)
    /\ server' = [server EXCEPT !.transfer = @ - 1]
    /\ UNCHANGED <<client, up, streams>>

CancelArtwork ==
    /\ Connected /\ server.artwork # None
    /\ ToClient(<<<<"cancel", None>>>>)
    /\ server' = [server EXCEPT !.transfer = 0]
    /\ UNCHANGED <<client, up, streams>>

EndArtwork ==
    /\ Connected /\ server.artwork # None
    /\ ToClient(Cancelling \o <<<<"end", "artwork">>>>)
    /\ server' = [server EXCEPT !.artwork = None, !.transfer = 0]
    /\ UNCHANGED <<client, up, streams>>

SourceCommand(start) ==
    /\ Connected /\ Active("source") /\ "source" \in server.heard
    /\ start => server.available
    /\ ToClient(<<<<"source", start>>>>)
    /\ server' = [server EXCEPT !.sourceStarted = start]
    /\ UNCHANGED <<client, up, streams>>

\* Mutation: a stream outlives the role it is of.
ActivateOnly(roles) ==
    LET kept == server.roles \cap roles
    IN  /\ Connected /\ server.phase \in {"ready", "active"} /\ server.activations < MaxActivations
        /\ ToClient(<<<<"activate", roles>>>>)
        /\ server' = [server EXCEPT
                !.phase = "active", !.roles = roles, !.activations = @ + 1,
                !.heard = @ \cap kept,
                !.sourceStarted = @ /\ "source" \in kept, !.sourceOpen = @ /\ "source" \in kept]
        /\ UNCHANGED <<client, up, streams>>

\* activate(): the streams of the roles it takes away end before it; a role
\* added starts anew.
Activate(roles) ==
    LET kept == server.roles \cap roles
        endsArtwork == server.artwork # None /\ "artwork" \notin roles
        endsPlayer == server.stream # None /\ "player" \notin roles
    IN  /\ Connected /\ server.phase \in {"ready", "active"} /\ server.activations < MaxActivations
        /\ ToClient(If(endsArtwork, Cancelling \o <<<<"end", "artwork">>>>)
                    \o If(endsPlayer, <<<<"end", "player">>>>)
                    \o <<<<"activate", roles>>>>)
        /\ server' = [server EXCEPT
                !.phase = "active", !.roles = roles, !.activations = @ + 1,
                !.heard = @ \cap kept,
                !.stream = IF endsPlayer THEN None ELSE @,
                !.artwork = IF endsArtwork THEN None ELSE @,
                !.transfer = IF endsArtwork THEN 0 ELSE @,
                !.sourceStarted = @ /\ "source" \in kept, !.sourceOpen = @ /\ "source" \in kept]
        /\ UNCHANGED <<client, up, streams>>

Rehandshake ==
    /\ Connected /\ server.phase \in {"ready", "active"} /\ server.keys < MaxKeys
    /\ ToClient(<<<<"handshake", None>>>>)
    /\ server' = [server EXCEPT !.phase = "rehandshake"]
    /\ UNCHANGED <<client, up, streams>>

----------------------------------------------------------------------------
(* ServerSession's handling of a frame.                                    *)

Hears(kind) == Connected /\ up # <<>> /\ Head(up).kind = kind /\ up' = Tail(up)

Established ==
    /\ Hears("handshake") /\ server.phase = "rehandshake"
    /\ server' = FreshServer(server.keys + 1)
    /\ Len(down) < MaxDown
    /\ down' = down \o Sealed(server.keys + 1, <<<<"hello", None>>>>)
    /\ UNCHANGED <<client, streams>>

\* Under the old keys, before the client saw the first message, or ahead of the
\* client's hello: discarded.
Discarded ==
    /\ \/ server.phase = "rehandshake" /\ \E kind \in {"state", "startSource", "endSource", "hello"} : Hears(kind)
       \/ server.phase = "hello" /\ \E kind \in {"state", "startSource", "endSource"} : Hears(kind)
    /\ UNCHANGED <<server, client, down, streams>>

ClientHello ==
    /\ Hears("hello") /\ server.phase = "hello"
    /\ server' = [server EXCEPT !.phase = "ready"]
    /\ UNCHANGED <<client, down, streams>>

\* client/state: the objects of the roles reported; without one, a role still
\* active keeps its own.
ClientState ==
    LET state == Head(up).body
        reported == "artwork" \in state.roles
    IN  /\ Hears("state") /\ server.phase \in {"ready", "active"}
        /\ server' = [server EXCEPT
                !.available = state.available,
                !.heard = @ \cup {role \in state.roles : Active(role)},
                !.config = IF reported THEN state.config ELSE IF Active("artwork") THEN @ ELSE None,
                !.sourceStarted = @ /\ state.available]
        /\ UNCHANGED <<client, down, streams>>

\* A stream the server did not start is a protocol error.
SourceStarts ==
    /\ Hears("startSource") /\ server.phase \in {"ready", "active"}
    /\ server' = CASE ~Active("source") -> server
                    [] Active("source") /\ ~server.sourceStarted -> [server EXCEPT !.phase = "closed"]
                    [] OTHER -> [server EXCEPT !.sourceOpen = TRUE]
    /\ UNCHANGED <<client, down, streams>>

SourceEnds ==
    /\ Hears("endSource") /\ server.phase \in {"ready", "active"}
    /\ server' = [server EXCEPT !.sourceOpen = FALSE]
    /\ UNCHANGED <<client, down, streams>>

----------------------------------------------------------------------------
(* PlayerSession's handling of a frame.                                    *)

\* The frame opens under the keys the client has.
Opens == Head(down).keys = client.keys
Takes(kind) == Connected /\ down # <<>> /\ Opens /\ Head(down).kind = kind /\ down' = Tail(down)
Body == Head(down).body

Has(role) == client.phase = "active" /\ role \in client.roles
State(of) == <<"state", [available |-> ~of.external, roles |-> of.roles, config |-> of.config]>>

Unreadable ==
    /\ Connected /\ down # <<>> /\ ~Opens
    /\ client' = [client EXCEPT !.phase = "closed"] /\ down' = Tail(down)
    /\ UNCHANGED <<server, up, streams>>

\* Message 2 goes under the keys in use.  Roles do not carry into the new
\* session; the streams, the transfer and the source are left as they are.
OnRehandshake ==
    /\ Takes("handshake")
    /\ ToServer(<<<<"handshake", None>>>>)
    /\ client' = [client EXCEPT !.phase = "hello", !.keys = @ + 1, !.roles = {}, !.activations = 0,
                               !.carried = @ \cup client.roles]
    /\ UNCHANGED <<server, streams>>

ServerHello ==
    /\ Takes("hello")
    /\ IF client.phase = "hello"
       THEN ToServer(<<<<"hello", None>>>>) /\ client' = [client EXCEPT !.phase = "provisional"]
       ELSE UNCHANGED <<client, up>>
    /\ UNCHANGED <<server, streams>>

\* Mutation: an input stream outlives the role.
OnActivateOpen ==
    LET roles == Body
        added == roles \ (IF client.phase = "active" THEN client.roles ELSE {})
        lost(role) == role \notin roles
        next == [client EXCEPT
            !.phase = "active", !.roles = roles, !.activations = @ + 1, !.carried = @ \cap roles,
            !.stream = IF Has("player") /\ lost("player") THEN None ELSE @,
            !.artwork = IF lost("artwork") THEN None ELSE @,
            !.transfer = IF lost("artwork") /\ client.artwork # None THEN 0 ELSE @,
            !.sourceStarted = @ /\ ~lost("source")]
        owes == roles # {} /\ (client.activations = 0 \/ added # {} \/ ~client.sentState)
    IN  /\ Takes("activate") /\ client.phase \in {"provisional", "active"}
        /\ ToServer(If(owes, <<State(next)>>))
        /\ client' = [next EXCEPT !.sentState = @ \/ owes]
        /\ UNCHANGED <<server, streams>>

\* on_activate(), of an activation the player admits: the streams of the roles
\* gone end, and a role added owes the server a state.
OnActivate ==
    LET roles == Body
        added == roles \ (IF client.phase = "active" THEN client.roles ELSE {})
        lost(role) == role \notin roles
        next == [client EXCEPT
            !.phase = "active", !.roles = roles, !.activations = @ + 1, !.carried = @ \cap roles,
            !.stream = IF Has("player") /\ lost("player") THEN None ELSE @,
            !.artwork = IF lost("artwork") THEN None ELSE @,
            !.transfer = IF lost("artwork") /\ client.artwork # None THEN 0 ELSE @,
            !.sourceStarted = @ /\ ~lost("source"), !.sourceOpen = @ /\ ~lost("source")]
        owes == roles # {} /\ (client.activations = 0 \/ added # {} \/ ~client.sentState)
    IN  /\ Takes("activate") /\ client.phase \in {"provisional", "active"}
        /\ ToServer(If(client.sourceOpen /\ lost("source"), <<<<"endSource", None>>>>)
                    \o If(owes, <<State(next)>>))
        /\ client' = [next EXCEPT !.sentState = @ \/ owes]
        /\ UNCHANGED <<server, streams>>

\* The stream messages, of the roles the client has.
StreamStart ==
    /\ \/ /\ Takes("startPlayer")
          /\ client' = IF Has("player") THEN [client EXCEPT !.stream = Body] ELSE client
       \/ /\ Takes("startArtwork")
          /\ client' = IF Has("artwork")
                       THEN [client EXCEPT !.artwork = Body,
                                           !.transfer = IF client.artwork \notin {None, Body} THEN 0 ELSE @]
                       ELSE client
    /\ UNCHANGED <<server, up, streams>>

StreamEnd ==
    /\ Takes("end")
    /\ client' = CASE client.phase # "active" -> client
                    [] client.phase = "active" /\ Body = "player" -> [client EXCEPT !.stream = None]
                    [] OTHER -> [client EXCEPT !.artwork = None,
                                               !.transfer = IF client.artwork # None THEN 0 ELSE @]
    /\ UNCHANGED <<server, up, streams>>

Audio == Takes("audio") /\ UNCHANGED <<server, client, up, streams>>

\* At most one transfer in flight, whose parts stop at its size; anything else
\* closes the connection.
OnArtwork ==
    LET counts == Has("artwork") /\ client.artwork # None
        closed == [client EXCEPT !.phase = "closed"]
    IN  /\ \/ /\ Takes("announce")
             /\ client' = CASE ~counts -> client
                             [] counts /\ client.transfer > 0 -> closed
                             [] OTHER -> [client EXCEPT !.transfer = Body]
          \/ /\ Takes("part")
             /\ client' = CASE ~counts -> client
                             [] counts /\ client.transfer = 0 -> closed
                             [] OTHER -> [client EXCEPT !.transfer = @ - 1]
          \/ /\ Takes("cancel")
             /\ client' = IF counts THEN [client EXCEPT !.transfer = 0] ELSE client
        /\ UNCHANGED <<server, up, streams>>

\* A start while unavailable is ignored, and each command is idempotent.
OnSourceCommand ==
    /\ Takes("source")
    /\ IF ~Has("source") \/ Body = client.sourceStarted \/ (Body /\ client.external)
       THEN UNCHANGED <<client, up>>
       ELSE /\ client' = [client EXCEPT !.sourceStarted = Body, !.sourceOpen = @ /\ Body]
            /\ ToServer(If(~Body /\ client.sourceOpen, <<<<"endSource", None>>>>))
    /\ UNCHANGED <<server, streams>>

----------------------------------------------------------------------------
(* The player's application.                                               *)

StartSourceStream ==
    /\ Connected /\ Has("source") /\ client.sourceStarted /\ ~client.external /\ ~client.sourceOpen
    /\ ToServer(<<<<"startSource", None>>>>)
    /\ client' = [client EXCEPT !.sourceOpen = TRUE]
    /\ UNCHANGED <<server, down, streams>>

EndSourceStream ==
    /\ Connected /\ client.sourceOpen
    /\ ToServer(<<<<"endSource", None>>>>)
    /\ client' = [client EXCEPT !.sourceOpen = FALSE]
    /\ UNCHANGED <<server, down, streams>>

\* set_external_source(): an input stream ends before the client reports itself
\* unavailable.  With no roles, while pairing, and before an activation, the
\* report waits.
SetExternalSource(external) ==
    LET next == [client EXCEPT !.external = external,
                               !.sourceOpen = @ /\ ~external, !.sourceStarted = @ /\ ~external]
    IN  /\ Connected /\ client.external # external
        /\ ToServer(If(external /\ client.sourceOpen, <<<<"endSource", None>>>>)
                    \o If(client.phase = "active" /\ client.sentState /\ client.roles # {}, <<State(next)>>))
        /\ client' = next
        /\ UNCHANGED <<server, down, streams>>

SetArtworkState(config) ==
    /\ Connected /\ client.config = 1 /\ config # 1
    /\ client' = [client EXCEPT !.config = config]
    /\ ToServer(If(Has("artwork") /\ client.sentState, <<State(client')>>))
    /\ UNCHANGED <<server, down, streams>>

----------------------------------------------------------------------------
Engine == \/ StartStream \/ SendAudio \/ EndStream
          \/ StartArtwork \/ (\E parts \in 0..MaxParts : Announce(parts))
          \/ SendPart \/ CancelArtwork \/ EndArtwork
          \/ (\E start \in BOOLEAN : SourceCommand(start))
          \/ (\E roles \in RoleSets : Activate(roles)) \/ Rehandshake

Handles == \/ Established \/ Discarded \/ ClientHello \/ ClientState \/ SourceStarts \/ SourceEnds
           \/ Unreadable \/ OnRehandshake \/ ServerHello \/ OnActivate
           \/ StreamStart \/ StreamEnd \/ Audio \/ OnArtwork \/ OnSourceCommand

Application == \/ StartSourceStream \/ EndSourceStream
               \/ (\E external \in BOOLEAN : SetExternalSource(external))
               \/ (\E config \in Configs : SetArtworkState(config))

StreamsNext == Engine \/ Handles \/ Application

StreamsSpec == StreamsInit /\ [][StreamsNext]_streamsVars

----------------------------------------------------------------------------
ServerStates ==
    [phase : {"hello", "ready", "active", "rehandshake", "closed"}, keys : 0..MaxKeys,
     roles : SUBSET Roles, activations : 0..MaxActivations, heard : SUBSET Roles,
     available : BOOLEAN, config : Configs \cup {None}, stream : 0..MaxStreams,
     artwork : Configs \cup {None}, transfer : 0..MaxParts, sourceStarted : BOOLEAN, sourceOpen : BOOLEAN]

ClientStates ==
    [phase : {"hello", "provisional", "active", "closed"}, keys : 0..MaxKeys,
     roles : SUBSET Roles, activations : Nat, external : BOOLEAN, config : Configs,
     sentState : BOOLEAN, stream : 0..MaxStreams, artwork : Configs \cup {None},
     transfer : 0..MaxParts, sourceStarted : BOOLEAN, sourceOpen : BOOLEAN,
     carried : SUBSET Roles]

StreamsTypeOK ==
    /\ server \in ServerStates /\ client \in ClientStates
    /\ server.heard \subseteq server.roles
    /\ Len(down) <= MaxDown /\ Len(up) <= MaxUp /\ streams \in 0..MaxStreams

\* The client closes the connection over nothing a server of this code sends
\* it, whatever of its own is in flight the other way: no transfer is announced
\* over another, and no part comes outside one.  But for a frame sealed before
\* a re-handshake and sent across it, and for an image announced to a client
\* that has kept the transfer of before a re-handshake.
NothingMalformed ==
    [][client'.phase = "closed" =>
           \/ client.phase = "closed" \/ ~Opens
           \/ Head(down).kind = "announce" /\ "artwork" \in client.carried]_streamsVars

\* Audio reaches an open connection's client when it has the player's role and
\* the stream the audio is of, through activations, restarts and re-handshakes.
AudioIsOfItsStream ==
    (client.phase # "closed" /\ down # <<>> /\ Opens /\ Head(down).kind = "audio") =>
        Has("player") /\ client.stream = Body

\* When nothing is in flight the two sides agree on the roles, on the streams
\* the server has open and on how far an image has come, and no input stream is
\* open at the server alone; on what the client alone has open, where it keeps
\* nothing of before a re-handshake.
Quiet == down = <<>> /\ up = <<>> /\ server.phase = "active" /\ client.phase = "active"
AgreeWhenQuiet ==
    Quiet => /\ client.roles = server.roles
             /\ server.stream # None => client.stream = server.stream
             /\ server.artwork # None => client.artwork = server.artwork
             /\ server.transfer > 0 => client.transfer = server.transfer
             /\ server.sourceOpen => client.sourceOpen
             /\ "artwork" \notin client.carried =>
                    client.artwork = server.artwork /\ client.transfer = server.transfer
             /\ "source" \notin client.carried => client.sourceOpen = server.sourceOpen
=============================================================================
