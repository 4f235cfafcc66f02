----------------------------- MODULE EdgeMeasure -----------------------------
(***************************************************************************)
(* What edge_sfd.py and edge_edge.py compute: the options of the command   *)
(* line, and for each measurement the correlations of the waveforms, of    *)
(* the pulse and the frame with patterns or of two pulses with each other, *)
(* their peaks and the delay.  Every record may have another length.       *)
(*                                                                         *)
(* How waveforms are acquired, saved and read back is the subject of       *)
(* ScopeRun and WaveformFile.  Positions are sample numbers; delays are in *)
(* steps of 1/Q sample.                                                    *)
(***************************************************************************)
EXTENDS DelayDetermination, PatGen

CONSTANTS
  Scripts,     \* "edge_sfd", "edge_edge"
  Sfd,         \* the two symbols D21_2 and D21_6, as bits
  Frame,       \* the bits on the line, Sfd among them
  SfdAt,       \* how many bits of Frame come before Sfd
  BitTime,     \* one bit
  Period,      \* x_increment
  BitWidth,    \* bits of a pulse, as the option says
  Records,     \* what may be recorded: [points, p, width, p3, q]
  Estimates,   \* expect_max_edge and expect_max_sfd
  ArgLists,    \* the options of the command line, in order
  DefaultTol, DelTol, GivenTol,   \* tolerances: none given, with -d, as -t says
  EstimatedDelay,                 \* as -d says
  NumMeas, Q

ASSUME MeasureAssumption ==
  /\ BitTime \in Nat \ {0} /\ Period \in 1..BitTime /\ Q \in Nat \ {0} /\ NumMeas \in Nat \ {0}
  /\ DefaultTol \in Nat /\ DelTol \in Nat /\ GivenTol \in Nat \ {DefaultTol}
  /\ \A r \in Records : r.points \in Nat

VARIABLES
  script,
  args,       \* options still to be looked at
  tolerance, estimate,
  expect,     \* [edge, sfd]
  phase,
  i,          \* the measurement
  rec,        \* the record: its length, where pulse, other pulse and pattern start
  y1, y3,     \* channel 1, and channel 3 or 3 - 4
  edge, sfd,  \* the patterns, of the first record
  first,      \* how many samples that had
  c_edge, c_sfd,   \* the correlations
  lst         \* the delays kept, with the record each is from

vars == <<script, args, tolerance, estimate, expect, phase, i, rec, y1, y3, edge, sfd,
          first, c_edge, c_sfd, lst>>

None0 == <<>>

Init ==
  /\ script \in Scripts
  /\ args \in ArgLists
  /\ tolerance = DefaultTol /\ estimate = 0
  /\ expect \in Estimates
  /\ phase = "options"
  /\ i = 0 /\ rec = None0 /\ y1 = None0 /\ y3 = None0 /\ edge = None0 /\ sfd = None0
  /\ first = 0 /\ c_edge = None0 /\ c_sfd = None0 /\ lst = <<>>

-----------------------------------------------------------------------------
(* The command line                                                        *)

\* Slip: the tolerance that goes with -d is always taken.
WithDelay_always(tol) == DelTol

\* When a delay is given the default tolerance is another, unless one was given.
WithDelay(tol) == IF tol = DefaultTol THEN DelTol ELSE tol

Option ==
  /\ phase = "options" /\ args # <<>>
  /\ \/ Head(args) = "-d" /\ estimate' = EstimatedDelay /\ tolerance' = WithDelay(tolerance)
     \/ Head(args) = "-t" /\ tolerance' = GivenTol /\ UNCHANGED estimate
  /\ args' = Tail(args)
  /\ UNCHANGED <<script, expect, phase, i, rec, y1, y3, edge, sfd, first, c_edge, c_sfd, lst>>

\* edge_edge.py has its estimate and tolerance in its text.
Started ==
  /\ phase = "options" /\ args = <<>>
  /\ IF script = "edge_edge" THEN estimate' = EstimatedDelay /\ tolerance' = DelTol
     ELSE UNCHANGED <<estimate, tolerance>>
  /\ phase' = "measure"
  /\ UNCHANGED <<script, args, expect, i, rec, y1, y3, edge, sfd, first, c_edge, c_sfd, lst>>

-----------------------------------------------------------------------------
(* The signals                                                             *)

Spb == samples_per_bit(BitTime, Period)

Pulse(n, p, width) == [x \in 0..(n - 1) |-> IF x \in p..(p + width - 1) THEN 1 ELSE 0]

\* y3 - y4: a bit is +1 or -1; q is where Sfd starts.
Line(n, q) ==
  [x \in 0..(n - 1) |->
     LET b == (x - (q - SfdAt * Spb)) \div Spb + 1
     IN  IF b \notin 1..Len(Frame) THEN 0 ELSE IF Frame[b] = 1 THEN 1 ELSE -1]

-----------------------------------------------------------------------------
(* A measurement                                                           *)

\* Slip: an odd sample is kept.
Samples_odd(points) == points

\* 2 * divmod(samples, 2)[0]
Samples(points) == 2 * (points \div 2)

PulsePattern == [b \in 1..(2 * BitWidth) |-> IF b <= BitWidth THEN 0 ELSE 1]

\* The patterns are made once, for the first record.
Patterns(n) ==
  IF i = 0 /\ script = "edge_sfd"
    THEN /\ edge' = scipy_array_from_pattern(PulsePattern, n, Spb, 1, 0, 0)
         /\ sfd' = scipy_array_from_pattern(Sfd, n, Spb, 1, 0, 0)
    ELSE UNCHANGED <<edge, sfd>>

\* A pattern that does not fit is None, and None[1] raises.
NoPattern(n) ==
  /\ i = 0 /\ script = "edge_sfd"
  /\ TooLong(PulsePattern, n, Spb) \/ TooLong(Sfd, n, Spb)

Acquired ==
  /\ phase = "measure" /\ i < NumMeas
  /\ rec' \in Records
  /\ LET n == Samples(rec'.points)
     IN  IF NoPattern(n)
           THEN /\ phase' = "failed"
                /\ UNCHANGED <<y1, y3, edge, sfd, first>>
           ELSE /\ y1' = Pulse(n, rec'.p, rec'.width)
                /\ y3' = IF script = "edge_sfd" THEN Line(n, rec'.q) ELSE Pulse(n, rec'.p3, rec'.width)
                /\ Patterns(n)
                /\ first' = IF i = 0 THEN n ELSE first
                /\ phase' = "correlate"
  /\ UNCHANGED <<script, args, tolerance, estimate, expect, i, c_edge, c_sfd, lst>>

Correlate ==
  /\ phase = "correlate"
  /\ IF script = "edge_sfd"
       THEN /\ c_sfd' = correlate_circular(y3, sfd, FALSE)
            /\ c_edge' = correlate_circular(y1, edge, FALSE)
       ELSE c_edge' = correlate_circular(y1, y3, FALSE) /\ UNCHANGED c_sfd
  /\ phase' = "peak"
  /\ UNCHANGED <<script, args, tolerance, estimate, expect, i, rec, y1, y3, edge, sfd, first, lst>>

\* Whether a peak may have no maximum to be found at, and whether one has none.
MayRaise == \/ PeakMayRaise(c_edge, expect.edge)
            \/ script = "edge_sfd" /\ PeakMayRaise(c_sfd, expect.sfd)
Raises == \/ PeakRaises(c_edge, expect.edge)
          \/ script = "edge_sfd" /\ PeakRaises(c_sfd, expect.sfd)

\* d_edge - d_sfd, or the one delay
DelaysOf ==
  IF script = "edge_sfd"
    THEN {e - s : e \in peak_position(c_edge, expect.edge, Q), s \in peak_position(c_sfd, expect.sfd, Q)}
    ELSE peak_position(c_edge, expect.edge, Q)

Outlier(d) == 2 * (d - estimate) < -tolerance \/ 2 * (d - estimate) > tolerance

Peak ==
  /\ phase = "peak"
  /\ \/ MayRaise /\ phase' = "failed" /\ UNCHANGED <<i, lst>>
     \/ /\ ~Raises
        /\ \E d \in DelaysOf :
             lst' = IF Outlier(d) THEN lst ELSE Append(lst, [delay |-> d, rec |-> rec])
        /\ i' = i + 1
        /\ phase' = "measure"
  /\ UNCHANGED <<script, args, tolerance, estimate, expect, rec, y1, y3, edge, sfd, first,
                 c_edge, c_sfd>>

Next == Option \/ Started \/ Acquired \/ Correlate \/ Peak

Spec == Init /\ [][Next]_vars

-----------------------------------------------------------------------------
(* Properties                                                              *)

\* From the pulse to the second symbol of Sfd, or to the other pulse.
Truth(r) == IF script = "edge_sfd" THEN r.q + (Len(Sfd) * Spb) \div 2 - r.p ELSE r.p3 - r.p

\* The frame's peak is less than a bit from the estimate of the user.
NearSfd(r) == Abs(expect.sfd - (r.q - (first - Len(Sfd) * Spb) \div 2)) < Spb

\* The pulse's peak is less than half a pulse from it: farther off the flat
\* part beside the peak is as near, and has a maximum wherever rounding puts it.
NearEdge(r) ==
  LET peak == IF script = "edge_sfd" THEN r.p - first \div 2 ELSE r.p - r.p3
  IN  2 * Abs(expect.edge - peak) <= r.width

(* Every delay kept, of the first record and of any later one that is not  *)
(* shorter, is the time from edge to SFD or from edge to edge, up to the   *)
(* interpolation between two samples, as long as the estimates are what    *)
(* edge_sfd.py:11-16 asks the user for: the SFD's good to a bit, a pulse's *)
(* to half of it, and the pulse as long as --bitwidth says                 *)
(* (edge_sfd.py:166-227, edge_edge.py:88-124).                             *)
DelayRight ==
  \A v \in {lst[x] : x \in DOMAIN lst} :
    (/\ Samples(v.rec.points) >= first /\ NearEdge(v.rec)
     /\ script = "edge_sfd" => NearSfd(v.rec) /\ v.rec.width = BitWidth * Spb) =>
      Abs(v.delay - Q * Truth(v.rec)) <= (Q - 1) * (IF script = "edge_sfd" THEN 2 ELSE 1)

(* A measurement fails only for a pattern longer than the record, an       *)
(* estimate off the axis, or a pulse that is not as long as its pattern:   *)
(* its correlation has no highest sample but by rounding                   *)
(* (nearest_maximum_index, delay_determination.py:620).                    *)
FailsForAReason ==
  phase = "failed" =>
    LET n    == Samples(rec.points)
        half == (IF script = "edge_sfd" THEN Most(n, first) ELSE n) \div 2
    IN  \/ NoPattern(n)
        \/ expect.edge \notin (-half)..(half - 1)
        \/ script = "edge_sfd" /\ expect.sfd \notin (-half)..(half - 1)
        \/ script = "edge_sfd" /\ rec.width # BitWidth * Spb

(* The correlation of signals of the same even length is the circular one, *)
(* each sum at the lag its place on the axis says (correlate_circular,     *)
(* delay_determination.py:500-512).                                        *)
CircularRight ==
  (phase = "peak" /\ script = "edge_sfd" /\ Size(y1) = Size(edge)) =>
    LET n == Size(y1)
    IN  \A p \in 0..(n - 1) :
          c_edge[p] = SumTo([x \in 0..(n - 1) |-> y1[x] * edge[(x - delay_axis(n)[p]) % n]], n)

(* correlate_linear around any centre, within what the signals leave:      *)
(* every sum is of the lag it is filed under, over one and the same window *)
(* of the first signal, and nothing is wrapped around; the padding changes *)
(* no value (delay_determination.py:396-471).                              *)
LinearRight ==
  phase = "peak" =>
    \A center \in {-(Size(y1) \div 2), -2, 0, 3, Size(y1) \div 2}, shift \in {0, 1, 3}, length \in {None, 2} :
      LinearOk(y1, y3, center, shift, length)

(* A tolerance given on the command line is the one that is used, whether  *)
(* -t comes before or after -d (edge_sfd.py:258-265).                      *)
ToleranceKept ==
  [][phase = "options" /\ tolerance = GivenTol => tolerance' = GivenTol \/ script = "edge_edge"]_vars
=============================================================================
