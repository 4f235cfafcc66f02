---------------------------- MODULE MCTxBuffers ----------------------------
(* TxBuffers with two streams and a CPU that have four packets, an IP      *)
(* header of two words and other headers of one.  Of the frames of up to   *)
(* six words the memory takes the second one and not the third.            *)
EXTENDS TxBuffers

MCPackets == [s \in Sources |-> IF s = CPU THEN <<2>> ELSE IF s = 0 THEN <<1, 2>> ELSE <<1>>]
=============================================================================
