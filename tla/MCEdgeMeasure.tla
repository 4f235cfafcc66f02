---------------------------- MODULE MCEdgeMeasure ----------------------------
(* EdgeMeasure with the symbols of edge_sfd.py at two samples a bit,       *)
(* records of an even and an odd length, longer ones, a shorter one and    *)
(* one that the pattern does not fit in, a pulse that is too long, and     *)
(* estimates that are right, just near enough, just not, far off, and off  *)
(* the axis of all but the longest.                                        *)
EXTENDS EdgeMeasure

D21_2 == <<1, 0, 1, 0, 1, 0, 0, 1, 0, 1>>
D21_6 == <<1, 0, 1, 0, 1, 0, 0, 1, 1, 0>>
D1_0m == <<0, 1, 1, 1, 0, 1, 0, 1, 0, 0>>

MCSfd   == D21_2 \o D21_6
MCFrame == D21_2 \o MCSfd \o D1_0m
MCRecords ==
  {[points |-> n, p |-> p, width |-> w, p3 |-> p + d, q |-> q] :
     <<n, p, w, d, q>> \in
       {<<84, 42, 8, 1, 22>>, <<85, 46, 8, 2, 23>>, <<90, 43, 8, 0, 22>>,
        <<70, 30, 8, 1, 22>>, <<84, 42, 9, 1, 22>>, <<30, 3, 8, 1, 0>>}}
MCEstimates ==
  {[edge |-> 0, sfd |-> 0], [edge |-> -5, sfd |-> 1], [edge |-> -12, sfd |-> 0], [edge |-> -44, sfd |-> 0]}
MCArgLists  == {<<>>, <<"-d">>, <<"-d", "-t">>, <<"-t", "-d">>}
=============================================================================
