--------------------------- MODULE MCWaveformFile ---------------------------
(* WaveformFile with two channels, in either order, signals of two lengths *)
(* with numbers whose two bytes differ, and panels left in other formats.  *)
EXTENDS WaveformFile

MCLists    == {<<1, 3>>, <<3, 1>>}
MCTimeBase == <<5, -8>>
MCSettings ==
  {[order |-> o, format |-> f, unsigned |-> u, delay |-> d, time_div |-> <<1, -6>>] :
     <<o, f, u, d>> \in {<<"MSBFIRST", "WORD", TRUE, 0>>, <<"LSBFIRST", "BYTE", FALSE, 4>>}}
MCSignals ==
  {[points |-> 2, count |-> 1, x_inc |-> 1, gain |-> 2, offset |-> 1, raw |-> <<-2, 300>>],
   [points |-> 2, count |-> 4, x_inc |-> 1, gain |-> 1, offset |-> 0, raw |-> <<258, -1>>],
   [points |-> 3, count |-> 4, x_inc |-> 2, gain |-> 1, offset |-> 3, raw |-> <<0, 1, -300>>]}
MCReadings == {<<>>, << <<7, -3>>, <<8, -4>>, <<7, -3>> >>}
=============================================================================
