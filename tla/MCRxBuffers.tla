---------------------------- MODULE MCRxBuffers ----------------------------
(* RxBuffers with eight words of memory and frames of two and three words, *)
(* one of them the header: with payload, padded, without payload, for no   *)
(* port and not UDP.                                                       *)
EXTENDS RxBuffers

Frame(l, k, d) == [len |-> l, kind |-> k, data |-> d]

MCFrames == {Frame(3, "udp", 2), Frame(3, "udp", 1), Frame(2, "noport", 0), Frame(3, "raw", 0)}
=============================================================================
