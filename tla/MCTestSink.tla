----------------------------- MODULE MCTestSink -----------------------------
(* An instance of TestSink: three connections from two servers.            *)
EXTENDS TestSink, TLC

CONSTANTS c1, c2, c3, s1, s2

MCServerOf == [c \in Connections |-> IF c = c2 THEN s2 ELSE s1]

\* Two connections from the same server are interchangeable.
SameServer == Permutations({c1, c3})
=============================================================================
