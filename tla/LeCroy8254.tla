----------------------------- MODULE LeCroy8254 -----------------------------
(***************************************************************************)
(* lib/LeCroy8254.py: the library edge_sfd.py and edge_edge.py use.  Its   *)
(* answers name their channel, and a preamble is a line for each field.    *)
(***************************************************************************)
EXTENDS ScopeData

Tag == "LeCroy8254"

-----------------------------------------------------------------------------
(* The instrument, as the library asks it: s is what it has acquired on a  *)
(* channel, scope its settings.                                            *)

Inspect(scope, s) ==
  << <<"COMM_TYPE", scope.format>>, <<"WAVE_ARRAY_COUNT", s.points>>,
     <<"SWEEPS_PER_ACQ", s.count>>, <<"HORIZ_INTERVAL", s.x_inc>>,
     <<"HORIZ_OFFSET", scope.delay - s.x_inc * (s.points \div 2)>>,
     <<"VERTICAL_GAIN", s.gain>>, <<"VERTICAL_OFFSET", s.offset>>,
     <<"TIMEBASE", scope.time_div>> >>

Volt(s, n) == n * s.gain - s.offset

-----------------------------------------------------------------------------
(* osc_init and get_waveforms                                              *)

\* TRIG_DELAY 0 ns, TIME_DIV
osc_init(scope, time_base) == [scope EXCEPT !.delay = 0, !.time_div = time_base]

\* COMM_FORMAT DEF9,WORD,BIN and COMM_ORDER LO
Setup(scope) == [scope EXCEPT !.format = "WORD", !.order = "LSBFIRST"]

\* The header, all preambles, all descriptors, all waveforms.
get_waveforms(scope, channels, screen, data) ==
  Header(Tag, channels)
    \o FlattenSeq(Map(channels, LAMBDA c :
         << <<"#preamble", "">>, <<"INSP", c>> >> \o Inspect(scope, screen[c])
         \o << <<"#preamble_end", "">> >>))
    \o FlattenSeq(Map(channels, LAMBDA c : << <<"#waveform_desc", "">>, <<"DESC", c>> >>))
    \o FlattenSeq(Map(channels, LAMBDA c :
         << <<"#waveform_data", "">>, <<"DAT1", c>>, <<"data", data[c]>> >>))

-----------------------------------------------------------------------------
(* file_to_waveform                                                        *)

\* _timebase: a label and a value are <<m, e>>, m * 10^e seconds.  From 2 us
\* on the mantissa of the value is the one of the label before.
Timebase(label) ==
  IF label[2] < -6 \/ label = <<1, -6>> THEN label
  ELSE <<CASE label[1] = 1 -> 5 [] label[1] = 2 -> 1 [] label[1] = 5 -> 2, label[2]>>

\* The keys of the preamble, and the fields they become.
Fields == [COMM_TYPE |-> "format", WAVE_ARRAY_COUNT |-> "points", SWEEPS_PER_ACQ |-> "count",
           HORIZ_INTERVAL |-> "x_increment", HORIZ_OFFSET |-> "x_origin",
           VERTICAL_GAIN |-> "y_increment", VERTICAL_OFFSET |-> "y_origin",
           TIMEBASE |-> "x_display_range"]

\* A turn of get_preamble_from_file: the grid of ten divisions is the range.
get_preamble_from_file(pre, line) ==
  LET v == IF line[1] = "TIMEBASE"
             THEN <<Timebase(line[2])[1], Timebase(line[2])[2] + 1>> ELSE line[2]
  IN  IF line[1] \in DOMAIN Fields THEN With(pre, Fields[line[1]], v) ELSE pre

\* VERTICAL_OFFSET is subtracted.
raw_to_scipy_array(raw, order, pre) ==
  [i \in 1..pre.points |-> <<(i - 1) * pre.x_increment + pre.x_origin,
                             Numbers(raw, order, pre)[i] * pre.y_increment - pre.y_origin>>]

\* Slip: the sweeps are not compared.
check_waveforms_count(pre) == Differing(pre, {"points", "x_increment", "x_display_range"})

check_waveforms(pre) == Differing(pre, {"points", "count", "x_increment", "x_display_range"})

\* A line of the body: the channel is read from the answer itself, and no
\* number can be read from the beginning of one.
Body(rd, line) ==
  CASE rd.next = "line" /\ line[1] = "#byteorder" -> [rd EXCEPT !.order = line[2]]
    [] rd.next = "line" /\ line[1] = "#preamble" -> [rd EXCEPT !.next = "chan"]
    [] rd.next = "line" /\ line[1] = "#waveform_data" -> [rd EXCEPT !.next = "header"]
    [] rd.next = "chan" /\ line[1] = "INSP" ->
         [rd EXCEPT !.ch = line[2], !.pre = With(@, line[2], <<>>), !.next = "preamble"]
    [] rd.next = "preamble" ->
         IF line[1] = "#preamble_end" THEN [rd EXCEPT !.next = "line"]
         ELSE [rd EXCEPT !.pre[rd.ch] = get_preamble_from_file(@, line)]
    [] rd.next = "header" /\ line[1] = "DAT1" -> [rd EXCEPT !.ch = line[2], !.next = "data"]
    [] rd.next = "data" ->
         IF Fits(line[2], rd.pre[rd.ch])
           THEN [rd EXCEPT !.wf = With(@, rd.ch, raw_to_scipy_array(line[2], rd.order, rd.pre[rd.ch])),
                           !.next = "line"]
           ELSE Stopped(rd, "raised")
    [] rd.next = "line" /\ line[1] \notin {"#byteorder", "#preamble", "#waveform_data"} -> rd
    [] OTHER -> Stopped(rd, "raised")

file_to_waveform(rd, line) ==
  IF rd.next \in {"tag", "version"} THEN Opening(rd, line, Tag) ELSE Body(rd, line)

\* In the middle of a preamble the reader goes on with what it has got.
Eof(rd) ==
  CASE rd.next \in {"tag", "version"} -> Stopped(rd, "none")
    [] rd.next \in {"chan", "header", "data"} -> Stopped(rd, "raised")
    [] OTHER -> Stopped(rd, "done")
=============================================================================
