-------------------------- MODULE MCSendspinStore --------------------------
(* An instance of SendspinStore: three servers, room for two records.      *)
EXTENDS SendspinStore

CONSTANTS s1, s2, s3, p1, p2, k1, k2

Alike == Permutations({s1, s2, s3}) \cup Permutations({p1, p2}) \cup Permutations({k1, k2})
=============================================================================
