---------------------------- MODULE MCChecksum ----------------------------
(* Checksum with words of three bits and as many of them as it allows.     *)
EXTENDS Checksum
=============================================================================
