--------------------------- MODULE MCT4Correction ---------------------------
(* T4Correction with radixes 5 and 7: raw fields beyond both ends of their *)
(* columns, and bit slides of either sign larger than a nanosecond.        *)
EXTENDS T4Correction

MCRawStamps == [sec : {0, 3}, ns : -8 .. 8, ph : -2 .. 12]
MCBitslides == {-7, -1, 0, 4, 11}

=============================================================================
