-------------------------- MODULE Agilent_DSO6104A --------------------------
(***************************************************************************)
(* lib/Agilent_DSO6104A.py: as the Keysight library, with a preamble of 10 *)
(* fields, which has no range, and data that may be unsigned.              *)
(***************************************************************************)
EXTENDS ScopeData

Tag == "Agilent DSO6104A"

-----------------------------------------------------------------------------
(* The instrument                                                          *)

FormatCode == [BYTE |-> 0, WORD |-> 1, ASCII |-> 4]

Preamble(scope, s) ==
  << FormatCode[scope.format], IF s.count > 1 THEN 2 ELSE 0, s.points, s.count, s.x_inc,
     scope.delay - s.x_inc * (s.points \div 2), 0, s.gain, s.offset, 0 >>

Volt(s, n) == n * s.gain + s.offset

-----------------------------------------------------------------------------
(* osc_init and get_waveforms                                              *)

osc_init(scope, time_base) == [scope EXCEPT !.delay = 0, !.time_div = time_base]

\* :WAVeform:UNSigned OFF too
Setup(scope) == [scope EXCEPT !.format = "WORD", !.order = "LSBFIRST", !.unsigned = FALSE]

get_waveforms(scope, channels, screen, data) ==
  CommaFile(Tag, channels, [c \in DOMAIN screen |-> Preamble(scope, screen[c])], data)

-----------------------------------------------------------------------------
(* file_to_waveform                                                        *)

Formats == [i \in {0, 1, 4} |-> CASE i = 0 -> "BYTE" [] i = 1 -> "WORD" [] i = 4 -> "ASCII"]

Decodable(fields) == Len(fields) = 10 /\ fields[1] \in DOMAIN Formats /\ fields[2] \in 0..2

preamble_string_to_dict(fields) ==
  [format |-> Formats[fields[1]], points |-> fields[3], count |-> fields[4],
   x_increment |-> fields[5], x_origin |-> fields[6],
   y_increment |-> fields[8], y_origin |-> fields[9]]

raw_to_scipy_array(raw, order, pre) == Samples(raw, order, pre)

check_waveforms(pre) == Differing(pre, {"points", "count", "x_increment"})

file_to_waveform(rd, line) ==
  IF rd.next \in {"tag", "version"} THEN Opening(rd, line, Tag)
  ELSE CommaReader(rd, line, Decodable(line[2]), preamble_string_to_dict(line[2]),
                   raw_to_scipy_array(line[2], rd.order, rd.pre[WaveformChannel(rd)]))
=============================================================================
