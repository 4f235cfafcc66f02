------------------------ MODULE RohdeSchwarz_RTO2024 ------------------------
(***************************************************************************)
(* lib/RohdeSchwarz_RTO2024.py: a copy of the Keysight library with other  *)
(* commands in osc_init.  The files it writes carry the Keysight tag and   *)
(* name, and it reads no others.                                           *)
(***************************************************************************)
EXTENDS ScopeData

KS == INSTANCE Keysight_DSO_S_254A

Tag == "Keysight DSO-S 254A"

\* :TIMebase:HORizontal:POSition 0, REFerence 50, RANGe
osc_init(scope, time_base) == [scope EXCEPT !.delay = 0, !.time_div = time_base]

Setup(scope) == [scope EXCEPT !.format = "WORD", !.order = "LSBFIRST"]

get_waveforms(scope, channels, screen, data) ==
  CommaFile(Tag, channels, [c \in DOMAIN screen |-> KS!Preamble(scope, screen[c])], data)

preamble_string_to_dict(fields) ==
  [format |-> KS!Formats[fields[1]], points |-> fields[3], count |-> fields[4],
   x_increment |-> fields[5], x_origin |-> fields[6],
   y_increment |-> fields[8], y_origin |-> fields[9], x_display_range |-> fields[12]]

raw_to_scipy_array(raw, order, pre) == Samples(raw, order, pre)

check_waveforms(pre) == Differing(pre, {"points", "count", "x_increment", "x_display_range"})

file_to_waveform(rd, line) ==
  IF rd.next \in {"tag", "version"} THEN Opening(rd, line, Tag)
  ELSE CommaReader(rd, line, KS!Decodable(line[2]), preamble_string_to_dict(line[2]),
                   raw_to_scipy_array(line[2], rd.order, rd.pre[WaveformChannel(rd)]))
=============================================================================
