------------------------- MODULE DelayDetermination -------------------------
(***************************************************************************)
(* delay_determination.py: the correlation functions.  Arrays are          *)
(* functions on 0..n-1; "/" of Python 2 rounds down, as \div does.         *)
(***************************************************************************)
EXTENDS Integers, FiniteSets

Size(s)   == Cardinality(DOMAIN s)
Abs(x)    == IF x < 0 THEN -x ELSE x
Least(a, b) == IF a < b THEN a ELSE b
Most(a, b)  == IF a < b THEN b ELSE a

\* f[0] + ... + f[n-1]
SumTo(f, n) == LET s[k \in 0..n] == IF k = 0 THEN 0 ELSE s[k - 1] + f[k - 1] IN s[n]

-----------------------------------------------------------------------------
(* Extrema                                                                 *)

\* take(mode = 'clip')
Clip(n, i) == IF i < 0 THEN 0 ELSE IF i >= n THEN n - 1 ELSE i

Compares(comparator, a, b) ==
  CASE comparator = "greater" -> a > b
    [] comparator = "less" -> a < b

\* The places that compare with all neighbours up to order away: with a strict
\* comparison never the ends, nor a place on a plateau.
boolrelextrema(data, comparator, order) ==
  {i \in DOMAIN data : \A d \in 1..order :
     /\ Compares(comparator, data[i], data[Clip(Size(data), i + d)])
     /\ Compares(comparator, data[i], data[Clip(Size(data), i - d)])}

argrelextrema(data, comparator, order) == boolrelextrema(data, comparator, order)

argrelmax(data) == argrelextrema(data, "greater", 1)

\* Where rounding may leave a maximum: values that are equal here are sums of
\* floats in the code (fftconvolve) and come out in any order.  The ends are
\* compared with themselves and are never one.
maybe_relmax(data) ==
  {i \in DOMAIN data :
     i - 1 \in DOMAIN data /\ i + 1 \in DOMAIN data /\ data[i] >= data[i - 1] /\ data[i] >= data[i + 1]}

-----------------------------------------------------------------------------
(* correlate_linear                                                        *)

\* length=None
None == -1

window_length(n1, n2, center, shift) == Least(n1, n2) - Abs(center) - 2 * shift

\* The length the caller asks for cannot be reached.
Truncated(n1, n2, center, shift, length) ==
  length # None /\ window_length(n1, n2, center, shift) < length

\* The length that is used.
Window(n1, n2, center, shift, length) ==
  IF length = None THEN window_length(n1, n2, center, shift) ELSE length

signal1_lower_index(center, shift) == IF shift + center < 0 THEN 0 ELSE shift + center

\* Slip: signal2 is not shifted by what signal1 could not be.
signal2_boundary_index(center, shift, k) == k + shift

signal2_boundary(center, shift, k) ==
  IF shift + center < 0 THEN k + shift + Abs(shift + center) ELSE k + shift

\* The upper end of [lo:hi]: a negative one counts from the end.
SliceEnd(n, hi) == IF hi < 0 THEN Most(0, n + hi) ELSE Least(n, hi)

\* How many samples signal1_cut and signal2_shift have.
Count1(n1, center, shift, wl) ==
  LET lo == signal1_lower_index(center, shift)
  IN  Most(0, SliceEnd(n1, lo + wl) - lo)
Count2(n2, wl) == SliceEnd(n2, wl)

\* shifted_indices: from the boundary to the end, then from the beginning.
shifted_index(n2, boundary, m) ==
  LET tail == Most(0, n2 - boundary) IN IF m < tail THEN boundary + m ELSE m - tail

Term(correlation_type, a, b) ==
  CASE correlation_type = "DC" -> a * b
    [] correlation_type = "ASDF" -> (a - b) * (a - b)
    [] correlation_type = "AMDF" -> a - b

\* The turn of the loop for k; numpy takes a single sample with every other.
Correlated(signal1, signal2, center, shift, wl, correlation_type, k) ==
  LET n1 == Size(signal1)
      n2 == Size(signal2)
      c1 == Count1(n1, center, shift, wl)
      c2 == Count2(n2, wl)
      lo == signal1_lower_index(center, shift)
      i(m) == IF c1 = 1 THEN lo ELSE lo + m
      j(m) == shifted_index(n2, signal2_boundary(center, shift, k), IF c2 = 1 THEN 0 ELSE m)
      n  == IF c1 = 0 \/ c2 = 0 THEN 0 ELSE Most(c1, c2)
  IN  SumTo([m \in 0..(n - 1) |-> Term(correlation_type, signal1[i(m)], signal2[j(m)])], n)

\* k is correlated at shift - k; the axis is shifted by the centre.
correlate_linear(signal1, signal2, center, shift, length, correlation_type) ==
  LET wl == Window(Size(signal1), Size(signal2), center, shift, length)
  IN  [axis |-> [p \in 0..(2 * shift) |-> p - shift + center],
       correlation |-> [p \in 0..(2 * shift) |->
          Correlated(signal1, signal2, center, shift, wl, correlation_type, shift - p)]]

\* One zero fewer is put before than after.
zero_padd(r, length) ==
  LET n  == Size(r.axis)
      zl == length \div 2 - n \div 2
      before == IF zl > 1 THEN zl - 1 ELSE 0
      after  == IF zl > 0 THEN zl ELSE 0
  IN  [axis |-> [p \in 0..(before + n + after - 1) |-> r.axis[0] - before + p],
       correlation |-> [p \in 0..(before + n + after - 1) |->
          IF p - before \in 0..(n - 1) THEN r.correlation[p - before] ELSE 0]]

\* What correlate_linear is for: the products of samples d apart, added up over
\* wl samples of signal1 from lo on, with no sample from outside the signals.
LagSum(signal1, signal2, lo, wl, d) ==
  SumTo([m \in 0..(wl - 1) |-> signal1[lo + m] * signal2[lo + m - d]], wl)

LagInside(signal1, signal2, lo, wl, d) ==
  \A m \in 0..(wl - 1) : lo + m \in DOMAIN signal1 /\ lo + m - d \in DOMAIN signal2

\* Value v stands at delay d.
Stands(r, d, v) == \E x \in DOMAIN r.axis : r.axis[x] = d /\ r.correlation[x] = v

LinearOk(signal1, signal2, center, shift, length) ==
  LET n1 == Size(signal1)
      n2 == Size(signal2)
      wl == Window(n1, n2, center, shift, length)
      r  == correlate_linear(signal1, signal2, center, shift, length, "DC")
      lo == Most(0, shift + center)
  IN  (wl >= 0 /\ ~Truncated(n1, n2, center, shift, length)) =>
        \A p \in DOMAIN r.axis :
          /\ LagInside(signal1, signal2, lo, wl, r.axis[p])
          /\ r.correlation[p] = LagSum(signal1, signal2, lo, wl, r.axis[p])
          /\ Stands(zero_padd(r, wl), r.axis[p], r.correlation[p])

-----------------------------------------------------------------------------
(* correlate_circular                                                      *)

\* fftconvolve(signal1, signal2[::-1], "full"), without its rounding: that only
\* tells equal values apart, see maybe_relmax.
Full(signal1, signal2) ==
  LET n1 == Size(signal1)
      n2 == Size(signal2)
  IN  [m \in 0..(n1 + n2 - 2) |->
         LET lag == m - (n2 - 1)
             lo  == Most(0, lag)
             hi  == Least(n1, n2 + lag)
         IN  SumTo([x \in 0..(hi - lo - 1) |-> signal1[lo + x] * signal2[lo + x - lag]], hi - lo)]

\* Where Full is read for place k of the cyclic signal: the last n1 items, and
\* the first n2 - 1.
LastPart(n1, n2, k)  == (n1 + n2 - 1) - n1 + k - (Most(n1, n2) - n1)

\* Slip: the two parts overlap by one.
FirstPart_one(n1, n2, k) == k - (Most(n1, n2) - n2)

FirstPart(n1, n2, k) == k - (Most(n1, n2) - n2 + 1)

Cyclic(full, n1, n2) ==
  [k \in 0..(Most(n1, n2) - 1) |->
     (IF LastPart(n1, n2, k) >= n2 - 1 THEN full[LastPart(n1, n2, k)] ELSE 0)
     + (IF FirstPart(n1, n2, k) \in 0..(n2 - 2) THEN full[FirstPart(n1, n2, k)] ELSE 0)]

\* fftpack.fftshift
fftshift(c) == [p \in DOMAIN c |-> c[(p - Size(c) \div 2) % Size(c)]]

\* scipy.arange(-len / 2, len / 2)
delay_axis(n) == [p \in 0..(n - 1) |-> (-n) \div 2 + p]

\* In the time domain the full correlation is shifted as it is.
correlate_circular(signal1, signal2, time_domain) ==
  LET full == Full(signal1, signal2)
  IN  fftshift(IF time_domain THEN full ELSE Cyclic(full, Size(signal1), Size(signal2)))

-----------------------------------------------------------------------------
(* The peak                                                                *)

\* The part of the axis around an index, width points of it at most.
interpolate_axis(n, index, width) ==
  LET lo == index - width \div 2 + (IF width % 2 = 0 THEN 1 ELSE 0)
      hi == index + width \div 2
  IN  Most(lo, 0)..Least(hi, n - 1)

time_axis(x, delta_t, signal1_t0, signal2_t0) == x * delta_t + signal1_t0 - signal2_t0

\* x comes before y in the search from index: it is nearer, or as near and first.
Before(x, y, index) ==
  Abs(x - index) < Abs(y - index) \/ (Abs(x - index) = Abs(y - index) /\ x < y)

\* What the first of the nearest maxima may be: every argrelmax is a maximum,
\* a maybe_relmax may be one.
nearest_maximum_index(signal, index) ==
  {x \in maybe_relmax(signal) : \A y \in argrelmax(signal) : ~Before(y, x, index)}

\* Slip: the estimate is taken for an index.
OnAxis_index(n, x_estimate) == x_estimate \in 0..(n - 1)

\* Exactly one place of the axis is within half a step of the estimate.
OnAxis(n, x_estimate) == \E p \in 0..(n - 1) : delay_axis(n)[p] = x_estimate

\* .min() of an empty array raises: without a maximum, or where rounding may
\* leave none.
PeakMayRaise(signal, x_estimate) ==
  ~OnAxis(Size(signal), x_estimate) \/ argrelmax(signal) = {}
PeakRaises(signal, x_estimate) ==
  ~OnAxis(Size(signal), x_estimate) \/ maybe_relmax(signal) = {}

\* The positions the maximum of the spline may have, in steps of 1/Q: inside
\* of the part of the axis, as at its ends the signal is lower, or at an end
\* that only rounding makes lower.
Interpolated(signal, index, Q) ==
  LET n == Size(signal)
      part == interpolate_axis(n, index, 3)
      inner == {x \in 0..(Q * n) : \E lo, hi \in part : Q * lo < x /\ x < Q * hi}
      equal == {Q * x : x \in {y \in part : signal[y] = signal[index]}}
  IN  {Q * delay_axis(n)[0] + x : x \in inner \union equal}

\* delta_x is the step of the axis, 1, and there are no offsets.
peak_position(signal, x_estimate, Q) ==
  LET n == Size(signal)
      index == CHOOSE p \in 0..(n - 1) : delay_axis(n)[p] = x_estimate
  IN  {-time_axis(x, 1, 0, 0) :
         x \in UNION {Interpolated(signal, m, Q) : m \in nearest_maximum_index(signal, index)}}
=============================================================================
