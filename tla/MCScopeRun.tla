----------------------------- MODULE MCScopeRun -----------------------------
(* ScopeRun with a delay on the estimate and one outside of the tolerance. *)
EXTENDS ScopeRun

MCDelays == {0, 2}
=============================================================================
