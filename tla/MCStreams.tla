----------------------------- MODULE MCStreams -----------------------------
(* Instances of Streams: the engine has its client play, show artwork or be *)
(* a source beside either, or none of it, as for a pairing.                 *)
EXTENDS Streams

MCRoleSets == {{}, {"player", "source"}, {"artwork"}}
=============================================================================
