----------------------------- MODULE MCCalBench -----------------------------
(* CalBench with a PPS every two ticks and captures of up to four Syncs.   *)
EXTENDS CalBench

MCFrames == [kind : Kinds, id : SeqIds]
=============================================================================
