------------------------- MODULE Keysight_DSO_S_254A -------------------------
(***************************************************************************)
(* lib/Keysight_DSO_S_254A.py: a preamble is one line of 24 fields, and    *)
(* neither it nor the data names the channel.                              *)
(***************************************************************************)
EXTENDS ScopeData

Tag == "Keysight DSO-S 254A"

-----------------------------------------------------------------------------
(* The instrument                                                          *)

FormatCode == [ASCII |-> 0, BYTE |-> 1, WORD |-> 2, LONG |-> 3]

Preamble(scope, s) ==
  [i \in 1..24 |->
     CASE i = 1 -> FormatCode[scope.format] [] i = 2 -> IF s.count > 1 THEN 2 ELSE 1
       [] i = 3 -> s.points [] i = 4 -> s.count [] i = 5 -> s.x_inc
       [] i = 6 -> scope.delay - s.x_inc * (s.points \div 2)
       [] i = 8 -> s.gain [] i = 9 -> s.offset
       [] i = 12 -> <<scope.time_div[1], scope.time_div[2] + 1>> [] OTHER -> 0]

Volt(s, n) == n * s.gain + s.offset

-----------------------------------------------------------------------------
(* osc_init and get_waveforms                                              *)

\* :TIMebase:DELay 0, :TIMebase:RANGe
osc_init(scope, time_base) == [scope EXCEPT !.delay = 0, !.time_div = time_base]

\* :WAVeform:BYTeorder LSBFirst and :WAVeform:FORMat WORD
Setup(scope) == [scope EXCEPT !.format = "WORD", !.order = "LSBFIRST"]

get_waveforms(scope, channels, screen, data) ==
  CommaFile(Tag, channels, [c \in DOMAIN screen |-> Preamble(scope, screen[c])], data)

-----------------------------------------------------------------------------
(* file_to_waveform                                                        *)

Formats == [i \in 0..3 |-> CASE i = 0 -> "ASCII" [] i = 1 -> "BYTE" [] i = 2 -> "WORD" [] i = 3 -> "LONG"]
Types   == {1, 2, 3, 4, 6, 10}

\* No KeyError, no field missing and none left.
Decodable(fields) == Len(fields) = 24 /\ fields[1] \in DOMAIN Formats /\ fields[2] \in Types

preamble_string_to_dict(fields) ==
  [format |-> Formats[fields[1]], points |-> fields[3], count |-> fields[4],
   x_increment |-> fields[5], x_origin |-> fields[6],
   y_increment |-> fields[8], y_origin |-> fields[9], x_display_range |-> fields[12]]

raw_to_scipy_array(raw, order, pre) == Samples(raw, order, pre)

check_waveforms(pre) == Differing(pre, {"points", "count", "x_increment", "x_display_range"})

file_to_waveform(rd, line) ==
  IF rd.next \in {"tag", "version"} THEN Opening(rd, line, Tag)
  ELSE CommaReader(rd, line, Decodable(line[2]), preamble_string_to_dict(line[2]),
                   raw_to_scipy_array(line[2], rd.order, rd.pre[WaveformChannel(rd)]))
=============================================================================
