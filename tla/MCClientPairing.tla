-------------------------- MODULE MCClientPairing --------------------------
(* Instances of ClientPairing: two connections against any servers.        *)
EXTENDS ClientPairing, TLC

CONSTANTS c1, c2

\* Connections are interchangeable.
AnyConnection == Permutations(Connections)
=============================================================================
