---------------------------- MODULE MCCalMaster ----------------------------
(* CalMaster with a Sync interval of two ticks, so that a fault (one tick) *)
(* ends before a timer left behind elapses, a sequence counter that wraps, *)
(* and every kind of frame.                                                *)
EXTENDS CalMaster

MCFrames == [kind : Kinds, id : {0}]
=============================================================================
