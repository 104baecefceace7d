-------------------------- MODULE MCSessionDriver --------------------------
(* Instances of SessionDriver: a queue of two frames and a cycle of frame  *)
(* numbers longer than the queue, the frame being sent and the last sent.  *)
EXTENDS SessionDriver
=============================================================================
