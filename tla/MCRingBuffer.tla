---------------------------- MODULE MCRingBuffer ----------------------------
(* Instances of RingBuffer: four cells, so that stereo frames straddle the  *)
(* wrap and a full ring leaves an odd slot.                                 *)
EXTENDS RingBuffer
=============================================================================
