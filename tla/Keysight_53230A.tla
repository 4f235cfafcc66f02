--------------------------- MODULE Keysight_53230A ---------------------------
(***************************************************************************)
(* lib/Keysight_53230A.py: the time interval counter, whose file holds one *)
(* reading a line.  A reading is <<m, e>>, printed as m and an exponent; a *)
(* line that was cut may be m alone.                                       *)
(***************************************************************************)
EXTENDS ScopeData

Tag == "Keysight 53230A"

\* READ?, num_meas times, after the header.
get_time_interval(readings) ==
  << <<"#MeasurementData", Tag>>, <<"#version", "0.3">>, <<"#type", "ASCII">>,
     <<"#Time Interval 1->2", "">>, <<"#date", "">>, <<"#time", "">>,
     <<"#byteorder", "n.a.">>, <<"#measurements", "">> >>
    \o Map(readings, LAMBDA x : <<"reading", x>>)

\* Slip: the exponent is not read.
Float_mantissa(x) == <<x[1], 0>>

\* scipy.float64 of a line
Float(x) == IF Len(x) = 2 THEN x ELSE <<x[1], 0>>

\* Lines that begin with "#" are passed over; the exceptions of the first two
\* are made, not raised.
file_to_scipy_array(rd, line) ==
  CASE rd.next = "tag" ->
         IF line = <<"#MeasurementData", Tag>> THEN [rd EXCEPT !.next = "version"]
         ELSE Stopped(rd, "none")
    [] rd.next = "version" ->
         IF line = <<"#version", "0.3">> THEN [rd EXCEPT !.next = "line"]
         ELSE Stopped(rd, "none")
    [] rd.next = "line" /\ line[1] = "reading" -> [rd EXCEPT !.values = Append(@, Float(line[2]))]
    [] OTHER -> rd
=============================================================================
