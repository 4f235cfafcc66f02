---------------------------- MODULE WaveformFile ----------------------------
(***************************************************************************)
(* A measurement from the instrument to the arrays the delays are computed *)
(* from: a library sets the oscilloscope up, fetches the waveforms, saves  *)
(* them, and a library, mostly the same one, reads the file back and       *)
(* checks it.  The oscilloscope is found with whatever settings its front  *)
(* panel was left with, and the script that saves a file may die (a full   *)
(* disk, a lost machine), so that the file ends anywhere.                  *)
(***************************************************************************)
EXTENDS ScopeData

CONSTANTS Channels,   \* the inputs of an oscilloscope
          Lists,      \* the channel lists a script asks for
          Settings,   \* settings of the front panel
          TimeBase,   \* the time base asked for, <<m, e>>
          Signals,    \* what an acquisition may leave on a channel
          Readings    \* sequences of readings of the counter

LC == INSTANCE LeCroy8254
KS == INSTANCE Keysight_DSO_S_254A
AG == INSTANCE Agilent_DSO6104A
RS == INSTANCE RohdeSchwarz_RTO2024
CT == INSTANCE Keysight_53230A

Scopes == {"LeCroy8254", "Keysight_DSO_S_254A", "Agilent_DSO6104A", "RohdeSchwarz_RTO2024"}
Libs   == Scopes \cup {"Keysight_53230A"}

VARIABLES
  lib,       \* the library of the instrument at hand
  scope,     \* its settings: [order, format, unsigned, delay, time_div]
  screen,    \* the acquisition: for each channel [points, count, x_inc, gain, offset, raw]
  readings,  \* what the counter has measured
  chans,     \* the channels asked for
  todo,      \* the lines to be written
  file,      \* the lines that are in the file
  rlib,      \* the library that reads it
  rd,        \* its reader
  result,    \* of check_waveforms: [status, points, warned]
  phase

vars == <<lib, scope, screen, readings, chans, todo, file, rlib, rd, result, phase>>

Unchecked == [status |-> "none", points |-> 0, warned |-> {}]

NoScreen  == [c \in Channels |-> "off"]

Init ==
  /\ lib \in Libs /\ scope \in Settings
  /\ screen = NoScreen /\ readings = <<>> /\ chans = <<>>
  /\ todo = <<>> /\ file = <<>>
  /\ rlib = "none" /\ rd = NoReader /\ result = Unchecked
  /\ phase = "ready"

-----------------------------------------------------------------------------
(* The instrument                                                          *)

\* The bytes of a number, in the format and order that are set; only the
\* Agilent sends unsigned numbers.
Encode(n) ==
  LET w == Width[scope'.format]
      z == IF scope'.unsigned /\ lib = "Agilent_DSO6104A" THEN 2^(8 * w - 1) ELSE 0
      u == (n + z) % 2^(8 * w)
      b == [i \in 1..w |-> (u \div 256^(i - 1)) % 256]
  IN  IF scope'.order = "LSBFIRST" THEN b ELSE Reverse(b)

Data == [c \in Channels |-> FlattenSeq(Map(screen'[c].raw, Encode))]

Panel ==
  /\ phase = "ready"
  /\ scope' \in Settings
  /\ UNCHANGED <<lib, screen, readings, chans, todo, file, rlib, rd, result, phase>>

-----------------------------------------------------------------------------
(* Taking and saving                                                       *)

OscInit ==
  /\ phase = "ready" /\ lib \in Scopes
  /\ scope' = CASE lib = "LeCroy8254" -> LC!osc_init(scope, TimeBase)
                [] lib = "Keysight_DSO_S_254A" -> KS!osc_init(scope, TimeBase)
                [] lib = "Agilent_DSO6104A" -> AG!osc_init(scope, TimeBase)
                [] lib = "RohdeSchwarz_RTO2024" -> RS!osc_init(scope, TimeBase)
  /\ UNCHANGED <<lib, screen, readings, chans, todo, file, rlib, rd, result, phase>>

\* The formats are set, an acquisition is made, header, preambles and data
\* are collected and the file is opened.
GetWaveforms ==
  /\ phase = "ready" /\ lib \in Scopes
  /\ scope' = CASE lib = "LeCroy8254" -> LC!Setup(scope)
                [] lib = "Keysight_DSO_S_254A" -> KS!Setup(scope)
                [] lib = "Agilent_DSO6104A" -> AG!Setup(scope)
                [] lib = "RohdeSchwarz_RTO2024" -> RS!Setup(scope)
  /\ screen' \in [Channels -> Signals]
  /\ chans' \in Lists
  /\ todo' = CASE lib = "LeCroy8254" -> LC!get_waveforms(scope', chans', screen', Data)
               [] lib = "Keysight_DSO_S_254A" -> KS!get_waveforms(scope', chans', screen', Data)
               [] lib = "Agilent_DSO6104A" -> AG!get_waveforms(scope', chans', screen', Data)
               [] lib = "RohdeSchwarz_RTO2024" -> RS!get_waveforms(scope', chans', screen', Data)
  /\ phase' = "save"
  /\ UNCHANGED <<lib, readings, file, rlib, rd, result>>

GetTimeInterval ==
  /\ phase = "ready" /\ lib = "Keysight_53230A"
  /\ readings' \in Readings
  /\ todo' = CT!get_time_interval(readings')
  /\ phase' = "save"
  /\ UNCHANGED <<lib, scope, screen, chans, file, rlib, rd, result>>

Save ==
  /\ phase = "save"
  /\ file' = todo
  /\ phase' = "saved"
  /\ UNCHANGED <<lib, scope, screen, readings, chans, todo, rlib, rd, result>>

\* What may be left of a line: some of the first items of a list, a beginning
\* that is not recognised, or, where a value is read, none that can be read.
Cut(line) ==
  (IF line[1] \in {"data", "fields", "#channel", "reading"}
     THEN {<<line[1], SubSeq(line[2], 1, k)>> : k \in 1..(Len(line[2]) - 1)}
     ELSE {<<"cut", "">>})
  \cup (IF line[1] \in {"#version", "#time", "reading"} \cup DOMAIN LC!Fields
          THEN {<<"no value", "">>} ELSE {})

\* The script dies after k lines, at the end of one or in the next.
Die ==
  /\ phase = "save"
  /\ \E k \in 0..(Len(todo) - 1) :
       \/ file' = SubSeq(todo, 1, k)
       \/ \E line \in Cut(todo[k + 1]) : file' = Append(SubSeq(todo, 1, k), line)
  /\ phase' = "saved"
  /\ UNCHANGED <<lib, scope, screen, readings, chans, todo, rlib, rd, result>>

-----------------------------------------------------------------------------
(* Reading and checking                                                    *)

Line(l, r, line) ==
  CASE l = "LeCroy8254" -> LC!file_to_waveform(r, line)
    [] l = "Keysight_DSO_S_254A" -> KS!file_to_waveform(r, line)
    [] l = "Agilent_DSO6104A" -> AG!file_to_waveform(r, line)
    [] l = "RohdeSchwarz_RTO2024" -> RS!file_to_waveform(r, line)
    [] l = "Keysight_53230A" -> CT!file_to_scipy_array(r, line)

End(l, r) == IF l = "LeCroy8254" THEN LC!Eof(r) ELSE CommaEof(r)

\* A line without its value: IndexError, KeyError or ValueError.  A reader that
\* has returned or raised reads no further.
Turn(l, r, line) ==
  CASE r.status # "reading" -> r
    [] r.status = "reading" /\ line[1] = "no value" -> Stopped(r, "raised")
    [] OTHER -> Line(l, r, line)

Read(l, lines) ==
  LET r == FoldLeft(LAMBDA a, line : Turn(l, a, line), NoReader, lines)
  IN  IF r.status = "reading" THEN End(l, r) ELSE r

FileToWaveform ==
  /\ phase = "saved"
  /\ rlib' \in Libs
  /\ rd' = Read(rlib', file)
  /\ phase' = "read"
  /\ UNCHANGED <<lib, scope, screen, readings, chans, todo, file, result>>

\* What check_waveforms looks up in every preamble.
Looked(l) == {"points", "count", "x_increment"}
               \cup (IF l = "Agilent_DSO6104A" THEN {} ELSE {"x_display_range"})

\* None has no keys, no channel leaves points unbound, a field may be missing.
CheckRaises(l, r) ==
  \/ r.status \in {"none", "raised"}
  \/ DOMAIN r.pre = {}
  \/ \E c \in DOMAIN r.pre : ~(Looked(l) \subseteq DOMAIN r.pre[c])

CheckWaveforms ==
  /\ phase = "read" /\ rlib \in Scopes
  /\ result' =
       IF CheckRaises(rlib, rd) THEN [Unchecked EXCEPT !.status = "raised"]
       ELSE [status |-> "checked",
             points |-> rd.pre[CHOOSE c \in DOMAIN rd.pre : \A d \in DOMAIN rd.pre : c <= d].points,
             warned |-> CASE rlib = "LeCroy8254" -> LC!check_waveforms(rd.pre)
                          [] rlib = "Keysight_DSO_S_254A" -> KS!check_waveforms(rd.pre)
                          [] rlib = "Agilent_DSO6104A" -> AG!check_waveforms(rd.pre)
                          [] rlib = "RohdeSchwarz_RTO2024" -> RS!check_waveforms(rd.pre)]
  /\ phase' = "checked"
  /\ UNCHANGED <<lib, scope, screen, readings, chans, todo, file, rlib, rd>>

\* The next measurement, of this run of the script or of another.
Again ==
  /\ phase \in {"read", "checked"}
  /\ screen' = NoScreen /\ readings' = <<>> /\ chans' = <<>>
  /\ todo' = <<>> /\ file' = <<>>
  /\ rlib' = "none" /\ rd' = NoReader /\ result' = Unchecked
  /\ phase' = "ready"
  /\ UNCHANGED <<lib, scope>>

Next == \/ Panel \/ OscInit \/ GetWaveforms \/ GetTimeInterval \/ Save \/ Die
        \/ FileToWaveform \/ CheckWaveforms \/ Again

Spec == Init /\ [][Next]_vars

-----------------------------------------------------------------------------
(* Properties                                                              *)

\* The samples of a channel, as the instrument shows them.
Shown(c) ==
  LET s == screen[c]
  IN  [i \in 1..s.points |->
         <<scope.delay + (i - 1 - s.points \div 2) * s.x_inc,
           IF lib = "LeCroy8254" THEN LC!Volt(s, s.raw[i]) ELSE KS!Volt(s, s.raw[i])>>]

(* Whatever the front panel was set to, in whatever order the channels are *)
(* asked for, wherever the file ends and whichever library reads it, a     *)
(* waveform that is returned has the voltages and times of the channel it  *)
(* is filed under (raw_to_scipy_array, Keysight_DSO_S_254A.py:409-428).    *)
OwnSamples ==
  phase \in {"read", "checked"} =>
    \A c \in DOMAIN rd.wf : c \in ToSet(chans) /\ rd.wf[c] = Shown(c)

(* All waveforms are returned exactly for a whole file read by a library   *)
(* that knows its tag: a file that was cut never looks whole.              *)
WholeOrLess ==
  (phase = "read" /\ lib \in Scopes /\ rlib \in Scopes) =>
    LET known == rlib = lib \/ {lib, rlib} = {"Keysight_DSO_S_254A", "RohdeSchwarz_RTO2024"}
    IN  (rd.status = "done" /\ DOMAIN rd.wf = ToSet(chans)) <=> (known /\ file = todo)

(* The counter's readings come back in order, all of a whole file; of a    *)
(* file that was cut only the last may be wrong (Keysight_53230A.py:118).  *)
CounterBack ==
  (phase = "read" /\ lib = "Keysight_53230A" /\ rlib = lib) =>
    LET n == Len(rd.values)
    IN  /\ n <= Len(readings)
        /\ \A i \in 1..(n - 1) : rd.values[i] = readings[i]
        /\ file = todo => rd.values = readings

(* check_waveforms passes without a word only on channels that were        *)
(* sampled alike, and returns their length (LeCroy8254.py:447-486).        *)
QuietMeansAlike ==
  (result.status = "checked" /\ result.warned = {}) =>
    \A c \in DOMAIN rd.pre : /\ screen[c].points = result.points
                             /\ \A d \in DOMAIN rd.pre : /\ screen[c].count = screen[d].count
                                                         /\ screen[c].x_inc = screen[d].x_inc
=============================================================================
