--------------------------- MODULE MCMonitorSink ---------------------------
(* Instances of MonitorSink: a chunk of two frames, a device that holds two *)
(* chunks and a queue of a chunk and a half.                                *)
EXTENDS MonitorSink
=============================================================================
