------------------------------ MODULE ScopeData ------------------------------
(***************************************************************************)
(* What the libraries of the four oscilloscopes have in common: the lines  *)
(* of a waveform file, the conversion of its raw data, and the reader of   *)
(* the three libraries that keep a preamble as one line of fields.         *)
(*                                                                         *)
(* A line is a pair <<tag, value>>.  Raw data is a sequence of bytes.  A   *)
(* reader is a record that file_to_waveform's loop turns with every line:  *)
(*   status   "reading", "done", "none" (returned without data), "raised"  *)
(*   next     what the next line is taken for                              *)
(*   channels, pre_idx, wf_idx, ch    the channel list and places in it    *)
(*   order    byte_order                                                   *)
(*   pre, wf  waveform_data: the preambles and the waveforms, by channel   *)
(*   values   the readings, of a counter's file                            *)
(***************************************************************************)
EXTENDS Integers, SequencesExt

NoReader == [status |-> "reading", next |-> "tag", channels |-> <<>>, pre_idx |-> 0,
             wf_idx |-> 0, ch |-> 0, order |-> "none", pre |-> <<>>, wf |-> <<>>,
             values |-> <<>>]

Stopped(rd, why) == [rd EXCEPT !.status = why]

\* waveform_data[ch] = ...
With(f, ch, v) == [c \in DOMAIN f \cup {ch} |-> IF c = ch THEN v ELSE f[c]]

Map(s, Op(_)) == [i \in DOMAIN s |-> Op(s[i])]

-----------------------------------------------------------------------------
(* Raw data                                                                *)

\* _byteorder_conversion, for the formats an instrument can name: "LONG" and
\* "ASCII" are not in it.
Width == [BYTE |-> 1, WORD |-> 2]

Signed(u, bits) == IF u >= 2^(bits - 1) THEN u - 2^bits ELSE u

\* struct.unpack of one number, "b" or "h", with the byte order "<" or ">".
Number(b, order) ==
  Signed(FoldLeft(LAMBDA n, x : 256 * n + x, 0,
                  IF order = "LSBFIRST" THEN Reverse(b) ELSE b), 8 * Len(b))

\* A field is missing (KeyError), or struct.unpack raises: the data must be
\* exactly as long as the format says.
Fits(raw, pre) == /\ {"format", "points", "x_increment", "x_origin", "y_increment", "y_origin"}
                       \subseteq DOMAIN pre
                  /\ pre.format \in DOMAIN Width
                  /\ Len(raw) = pre.points * Width[pre.format]

Numbers(raw, order, pre) ==
  LET w == Width[pre.format]
  IN  [i \in 1..pre.points |-> Number(SubSeq(raw, w * (i - 1) + 1, w * i), order)]

\* x_data and y_data, of the libraries that add y_origin.
Samples(raw, order, pre) ==
  [i \in 1..pre.points |-> <<(i - 1) * pre.x_increment + pre.x_origin,
                             Numbers(raw, order, pre)[i] * pre.y_increment + pre.y_origin>>]

-----------------------------------------------------------------------------
(* check_waveforms                                                         *)

\* The fields of the first channel's preamble that another one's differ from.
Differing(pre, fields) ==
  LET first == CHOOSE c \in DOMAIN pre : \A d \in DOMAIN pre : c <= d
  IN  {f \in fields : \E c \in DOMAIN pre : pre[c][f] # pre[first][f]}

-----------------------------------------------------------------------------
(* Files                                                                   *)

\* file_header
Header(tag, channels) ==
  << <<"#WaveformData", tag>>, <<"#version", "0.2">>, <<"#type", "RAW">>,
     <<"#channel", channels>>, <<"#date", "">>, <<"#time", "">>,
     <<"#byteorder", "LSBFIRST">> >>

\* The header, all preambles, all waveforms, in the order of the channels.
CommaFile(tag, channels, preambles, data) ==
  Header(tag, channels)
    \o FlattenSeq(Map(channels, LAMBDA c : << <<"#preamble", "">>, <<"fields", preambles[c]>> >>))
    \o FlattenSeq(Map(channels, LAMBDA c : << <<"#waveform", "">>, <<"data", data[c]>> >>))

\* The first two lines of every reader: the exception is made, not raised.
Opening(rd, line, tag) ==
  CASE rd.next = "tag" ->
         IF line = <<"#WaveformData", tag>> THEN [rd EXCEPT !.next = "version"]
         ELSE Stopped(rd, "none")
    [] rd.next = "version" ->
         IF line = <<"#version", "0.2">> THEN [rd EXCEPT !.next = "line"]
         ELSE Stopped(rd, "none")

\* Slip: the waveforms are taken in the order of the channel numbers.
WaveformChannel_sorted(rd) ==
  SetToSortSeq({rd.channels[i] : i \in DOMAIN rd.channels}, <)[rd.wf_idx + 1]

\* Slip: waveform_idx is not counted.
WaveformChannel_first(rd) == rd.channels[1]

\* waveform_chan
WaveformChannel(rd) == rd.channels[rd.wf_idx + 1]

\* A line of the body: preambles and waveforms belong to the channels of the
\* "#channel:" line by their position.  The last three parameters are what the
\* library makes of the line, should it be a preamble or data.
CommaReader(rd, line, decodable, preamble, waveform) ==
  CASE rd.next = "line" /\ line[1] = "#channel" -> [rd EXCEPT !.channels = line[2]]
    [] rd.next = "line" /\ line[1] = "#byteorder" -> [rd EXCEPT !.order = line[2]]
    [] rd.next = "line" /\ line[1] = "#preamble" -> [rd EXCEPT !.next = "fields"]
    [] rd.next = "line" /\ line[1] = "#waveform" -> [rd EXCEPT !.next = "data"]
    [] rd.next = "fields" ->
         IF decodable
           THEN [rd EXCEPT !.pre = With(@, rd.channels[rd.pre_idx + 1], preamble),
                           !.pre_idx = @ + 1, !.next = "line"]
           ELSE Stopped(rd, "raised")
    [] rd.next = "data" ->
         LET ch == WaveformChannel(rd)
         IN  IF Fits(line[2], rd.pre[ch])
               THEN [rd EXCEPT !.wf = With(@, ch, waveform),
                               !.wf_idx = @ + 1, !.next = "line"]
               ELSE Stopped(rd, "raised")
    [] OTHER -> rd

\* readline() or read() at the end of the file.
CommaEof(rd) ==
  CASE rd.next \in {"tag", "version"} -> Stopped(rd, "none")
    [] rd.next \in {"fields", "data"} -> Stopped(rd, "raised")
    [] OTHER -> Stopped(rd, "done")
=============================================================================
