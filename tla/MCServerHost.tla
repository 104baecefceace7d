---------------------------- MODULE MCServerHost ----------------------------
(* An instance of ServerHost: one client, which is dialled at a URL and may *)
(* also dial the server itself.                                            *)
EXTENDS ServerHost

CONSTANTS a, u

MCClientAt == [x \in {u} |-> a]
=============================================================================
