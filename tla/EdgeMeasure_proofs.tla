-------------------------- MODULE EdgeMeasure_proofs --------------------------
(***************************************************************************)
(* What the correlation functions of DelayDetermination compute from any   *)
(* two signals, what they compute from the waveforms the measuring scripts *)
(* give them, and that the options keep the tolerance.                     *)
(***************************************************************************)
EXTENDS EdgeMeasure, FiniteSetTheorems, WellFoundedInduction, TLAPS

-----------------------------------------------------------------------------
(* The index arithmetic of the correlation functions, for signals of every *)
(* length and content.                                                     *)

(* The length of an array is the length of its interval of indices.        *)
LEMMA SizeOfArray ==
  ASSUME NEW n \in Nat, NEW s, DOMAIN s = 0..(n - 1)
  PROVE  Size(s) = n
  BY FS_Interval, 0 \in Int, n - 1 \in Int DEF Size

\* The window of every lag lies inside of the signals.
WindowFits(n1, n2, center, shift, wl) == wl <= window_length(n1, n2, center, shift)

\* The slices of one turn are whole and center - k apart.
SlicesInside(n1, n2, center, shift, wl, k) ==
  /\ signal1_lower_index(center, shift) \in Nat
  /\ signal2_boundary(center, shift, k) \in Nat
  /\ signal1_lower_index(center, shift) + wl <= n1
  /\ signal2_boundary(center, shift, k) + wl <= n2
  /\ signal1_lower_index(center, shift) - signal2_boundary(center, shift, k) = center - k
  /\ Count1(n1, center, shift, wl) = wl
  /\ Count2(n2, wl) = wl
  /\ \A m \in 0..(wl - 1) :
       shifted_index(n2, signal2_boundary(center, shift, k), m)
         = signal2_boundary(center, shift, k) + m

(* Both slices of a turn of correlate_linear's loop have the length of the *)
(* window and lie inside of the signals, and what is multiplied is center  *)
(* - k samples apart (delay_determination.py:408-437).                     *)
LEMMA WindowInside ==
  ASSUME NEW n1 \in Nat, NEW n2 \in Nat, NEW center \in Int, NEW shift \in Nat,
         NEW wl \in Nat, WindowFits(n1, n2, center, shift, wl),
         NEW k \in (-shift)..shift
  PROVE  SlicesInside(n1, n2, center, shift, wl, k)
<1> DEFINE lo == signal1_lower_index(center, shift)
           b  == signal2_boundary(center, shift, k)
<1>1. lo \in Nat /\ b \in Nat /\ lo - b = center - k
  BY DEF signal1_lower_index, signal2_boundary, Abs
<1>2. lo + wl <= n1 /\ b + wl <= n2
  BY DEF WindowFits, signal1_lower_index, signal2_boundary, Abs, window_length, Least
<1> HIDE DEF lo, b
<1>3. SliceEnd(n1, lo + wl) = lo + wl /\ SliceEnd(n2, wl) = wl
  BY <1>1, <1>2 DEF SliceEnd, Least, Most
<1>4. Count1(n1, center, shift, wl) = wl
  BY <1>1, <1>3 DEF Count1, Most, lo
<1>5. Count2(n2, wl) = wl
  BY <1>3 DEF Count2
<1>6. \A m \in 0..(wl - 1) : shifted_index(n2, b, m) = b + m
  BY <1>1, <1>2 DEF shifted_index, Most
<1>7. QED
  BY <1>1, <1>2, <1>4, <1>5, <1>6 DEF lo, b, SlicesInside

\* The sum filed at p is that of its lag.
LagFiled(signal1, signal2, center, shift, wl, p) ==
  LET lo == Most(0, shift + center)
      a  == p - shift + center
  IN  /\ LagInside(signal1, signal2, lo, wl, a)
      /\ Correlated(signal1, signal2, center, shift, wl, "DC", shift - p)
           = LagSum(signal1, signal2, lo, wl, a)

(* A window that fits: a turn of the loop adds up, over one fixed window of *)
(* the first signal, the products at the lag p - shift + center.           *)
LEMMA TurnCorrelates ==
  ASSUME NEW n1 \in Nat, NEW n2 \in Nat, NEW center \in Int, NEW shift \in Nat,
         NEW signal1, DOMAIN signal1 = 0..(n1 - 1),
         NEW signal2, DOMAIN signal2 = 0..(n2 - 1),
         NEW wl \in Nat, WindowFits(n1, n2, center, shift, wl),
         NEW p \in 0..(2 * shift)
  PROVE  LagFiled(signal1, signal2, center, shift, wl, p)
<1> DEFINE lo == Most(0, shift + center)
           k  == shift - p
           a  == p - shift + center
           b  == signal2_boundary(center, shift, k)
<1>1. k \in (-shift)..shift /\ a \in Int /\ a = center - k
  OBVIOUS
<1>2. Size(signal1) = n1 /\ Size(signal2) = n2
  BY SizeOfArray
<1>3. lo = signal1_lower_index(center, shift)
  BY DEF signal1_lower_index, Most
<1>4. /\ lo \in Nat /\ b \in Nat
      /\ lo + wl <= n1 /\ b + wl <= n2
      /\ lo - b = a
      /\ Count1(n1, center, shift, wl) = wl
      /\ Count2(n2, wl) = wl
      /\ \A m \in 0..(wl - 1) : shifted_index(n2, b, m) = b + m
  <2> HIDE DEF k, b, lo, a
  <2>1. k \in (-shift)..shift
    BY <1>1
  <2>2. SlicesInside(n1, n2, center, shift, wl, k)
    BY <2>1, WindowInside, SMTT(60)
  <2>3. QED
    BY <1>1, <1>3, <2>2 DEF b, SlicesInside
<1> HIDE DEF lo, k, a, b
<1>5. Correlated(signal1, signal2, center, shift, wl, "DC", k)
        = LagSum(signal1, signal2, lo, wl, a)
  <2> DEFINE one(m) == IF wl = 1 THEN lo ELSE lo + m
             two(m) == shifted_index(n2, b, IF wl = 1 THEN 0 ELSE m)
             n      == IF wl = 0 \/ wl = 0 THEN 0 ELSE Most(wl, wl)
  <2>1. n = wl
    BY DEF Most
  <2>2. \A m \in 0..(wl - 1) : one(m) = lo + m /\ two(m) = lo + m - a
    <3> TAKE m \in 0..(wl - 1)
    <3>1. one(m) = lo + m
      BY <1>4
    <3>2. two(m) = b + m
      BY <1>4
    <3>3. QED
      BY <1>1, <1>4, <3>1, <3>2
  <2>3. Correlated(signal1, signal2, center, shift, wl, "DC", k)
          = SumTo([m \in 0..(n - 1) |-> Term("DC", signal1[one(m)], signal2[two(m)])], n)
    BY <1>2, <1>3, <1>4 DEF Correlated, b
  <2> HIDE DEF one, two, n
  <2>a. \A x, y : Term("DC", x, y) = x * y
    BY DEF Term
  <2>4. [m \in 0..(n - 1) |-> Term("DC", signal1[one(m)], signal2[two(m)])]
          = [m \in 0..(wl - 1) |-> signal1[lo + m] * signal2[lo + m - a]]
    BY <2>1, <2>2, <2>a
  <2>5. QED
    BY <2>1, <2>3, <2>4 DEF LagSum
<1>6. LagInside(signal1, signal2, lo, wl, a)
  BY <1>1, <1>4 DEF LagInside
<1>7. QED
  BY <1>5, <1>6 DEF lo, a, k, LagFiled

(* Padding a correlation with zeros keeps every value at its place on the  *)
(* axis (delay_determination.py:453-471).                                  *)
LEMMA PaddingKeeps ==
  ASSUME NEW n \in Nat \ {0}, NEW axis, NEW correlation, NEW length \in Int,
         DOMAIN axis = 0..(n - 1), NEW a0 \in Int, \A x \in 0..(n - 1) : axis[x] = a0 + x,
         NEW p \in 0..(n - 1)
  PROVE  LET z == zero_padd([axis |-> axis, correlation |-> correlation], length)
         IN  Stands(z, axis[p], correlation[p])
<1> DEFINE zl == length \div 2 - n \div 2
           before == IF zl > 1 THEN zl - 1 ELSE 0
           after  == IF zl > 0 THEN zl ELSE 0
           z == zero_padd([axis |-> axis, correlation |-> correlation], length)
<1>1. Size(axis) = n
  BY SizeOfArray
<1>2. before \in Nat /\ after \in Nat
  OBVIOUS
<1>3. /\ z.axis = [x \in 0..(before + n + after - 1) |-> axis[0] - before + x]
      /\ z.correlation = [x \in 0..(before + n + after - 1) |->
                            IF x - before \in 0..(n - 1) THEN correlation[x - before] ELSE 0]
  BY <1>1 DEF zero_padd
<1> HIDE DEF zl, before, after, z
<1>4. before + p \in 0..(before + n + after - 1) /\ (before + p) - before = p
  BY <1>2
<1>5. axis[0] - before + (before + p) = axis[p]
  BY <1>2
<1>6. before + p \in DOMAIN z.axis /\ z.axis[before + p] = axis[p]
  BY <1>3, <1>4, <1>5
<1>7. z.correlation[before + p] = correlation[p]
  BY <1>3, <1>4
<1>8. QED
  BY <1>6, <1>7 DEF z, Stands

(* For signals of any lengths, any centre, any shift and any length asked  *)
(* for that leaves a window: every value of the direct linear correlation  *)
(* is the sum over one fixed window of the first signal of the products at *)
(* the lag the axis names, no sample wraps around, and the padding leaves  *)
(* every value at its lag (delay_determination.py:396-471).                *)
THEOREM LinearCorrelates ==
  ASSUME NEW n1 \in Nat, NEW n2 \in Nat, NEW center \in Int, NEW shift \in Nat,
         NEW length \in Nat \cup {None},
         NEW signal1, DOMAIN signal1 = 0..(n1 - 1),
         NEW signal2, DOMAIN signal2 = 0..(n2 - 1)
  PROVE  LinearOk(signal1, signal2, center, shift, length)
<1> DEFINE wl == Window(n1, n2, center, shift, length)
           r  == correlate_linear(signal1, signal2, center, shift, length, "DC")
           lo == Most(0, shift + center)
<1>1. Size(signal1) = n1 /\ Size(signal2) = n2
  BY SizeOfArray
<1>2. wl \in Int
  BY DEF Window, window_length, Least, Abs, None
<1>3. r.axis = [p \in 0..(2 * shift) |-> p - shift + center]
  BY DEF correlate_linear
<1>4. r = [axis |-> r.axis, correlation |-> r.correlation]
  BY DEF correlate_linear
<1>5. ASSUME wl >= 0, ~Truncated(n1, n2, center, shift, length), NEW p \in DOMAIN r.axis
      PROVE  /\ LagInside(signal1, signal2, lo, wl, r.axis[p])
             /\ r.correlation[p] = LagSum(signal1, signal2, lo, wl, r.axis[p])
             /\ Stands(zero_padd(r, wl), r.axis[p], r.correlation[p])
  <2>1. p \in 0..(2 * shift)
    BY <1>3
  <2>2. wl \in Nat
    BY <1>2, <1>5
  <2>3. WindowFits(n1, n2, center, shift, wl)
    <3>1. window_length(n1, n2, center, shift) \in Int
      BY DEF window_length, Least, Abs
    <3>2. QED
      BY <1>5, <3>1 DEF Truncated, Window, WindowFits
  <2>4. r.axis[p] = p - shift + center
    BY <1>3, <2>1
  <2>5. r.correlation[p] = Correlated(signal1, signal2, center, shift, wl, "DC", shift - p)
    BY <1>1, <2>1 DEF correlate_linear
  <2> HIDE DEF wl, r, lo
  <2>6. /\ LagInside(signal1, signal2, lo, wl, p - shift + center)
        /\ Correlated(signal1, signal2, center, shift, wl, "DC", shift - p)
             = LagSum(signal1, signal2, lo, wl, p - shift + center)
    <3>1. LagFiled(signal1, signal2, center, shift, wl, p)
      BY <2>1, <2>2, <2>3, TurnCorrelates, ZenonT(60)
    <3>2. QED
      BY <3>1, Zenon DEF lo, LagFiled
  <2>7. Stands(zero_padd(r, wl), r.axis[p], r.correlation[p])
    <3> DEFINE N == 2 * shift + 1
               a0 == center - shift
    <3>1. N \in Nat \ {0} /\ a0 \in Int /\ p \in 0..(N - 1)
      BY <2>1
    <3>2. DOMAIN r.axis = 0..(N - 1) /\ \A x \in 0..(N - 1) : r.axis[x] = a0 + x
      BY <1>3
    <3> HIDE DEF N, a0
    <3>3. Stands(zero_padd([axis |-> r.axis, correlation |-> r.correlation], wl),
                 r.axis[p], r.correlation[p])
      BY <1>2, <3>1, <3>2, PaddingKeeps, ZenonT(60)
    <3>4. QED
      BY <1>4, <3>3
  <2>8. QED
    BY <2>4, <2>5, <2>6, <2>7
<1> HIDE DEF r
<1>6. QED
  BY <1>1, <1>5 DEF LinearOk, r

-----------------------------------------------------------------------------
\* The sum of the products of samples that are d apart.
AtLag(signal1, signal2, d) == Full(signal1, signal2)[d + Size(signal2) - 1]

(* The place on the axis differs from the lag by what n is odd.            *)
LEMMA AxisPlace ==
  ASSUME NEW n \in Nat \ {0}, NEW p \in 0..(n - 1)
  PROVE  delay_axis(n)[p] + (n % 2) = p - n \div 2
  BY DEF delay_axis

(* The circular correlation of two signals of n samples: at every place of *)
(* the axis stand the sums of the lag it names and of that lag less n, for *)
(* every even n; for an odd n all stand one place too low, so that the zero *)
(* lag is found at -1 (delay_determination.py:505-512).                    *)
THEOREM CircularFolds ==
  ASSUME NEW n \in Nat \ {0},
         NEW signal1, DOMAIN signal1 = 0..(n - 1),
         NEW signal2, DOMAIN signal2 = 0..(n - 1),
         NEW p \in 0..(n - 1)
  PROVE  LET k == (delay_axis(n)[p] + (n % 2)) % n
         IN  correlate_circular(signal1, signal2, FALSE)[p]
               = AtLag(signal1, signal2, k)
                 + (IF k = 0 THEN 0 ELSE AtLag(signal1, signal2, k - n))
<1> DEFINE k    == (p - n \div 2) % n
           full == Full(signal1, signal2)
           c    == Cyclic(full, n, n)
<1>1. Size(signal1) = n /\ Size(signal2) = n
  BY SizeOfArray
<1>2. k \in 0..(n - 1)
  OBVIOUS
<1>3. Most(n, n) = n
  BY DEF Most
<1>4. DOMAIN c = 0..(n - 1)
  BY <1>3 DEF Cyclic
<1>5. Size(c) = n
  BY <1>4, SizeOfArray
<1>6. correlate_circular(signal1, signal2, FALSE) = fftshift(c)
  BY <1>1 DEF correlate_circular
<1>7. fftshift(c)[p] = c[k]
  BY <1>4, <1>5 DEF fftshift
<1> HIDE DEF k, full
<1>8. c[k] = full[n - 1 + k] + (IF k = 0 THEN 0 ELSE full[k - 1])
  <2>1. LastPart(n, n, k) = n - 1 + k /\ FirstPart(n, n, k) = k - 1
    BY <1>2, <1>3 DEF LastPart, FirstPart
  <2>2. c[k] = (IF n - 1 + k >= n - 1 THEN full[n - 1 + k] ELSE 0)
               + (IF k - 1 \in 0..(n - 2) THEN full[k - 1] ELSE 0)
    BY <1>2, <1>3, <2>1 DEF Cyclic
  <2>3. n - 1 + k >= n - 1 /\ (k - 1 \in 0..(n - 2) <=> k # 0)
    BY <1>2
  <2>4. QED
    BY <2>2, <2>3
<1>9. k + n - 1 = n - 1 + k /\ (k - n) + n - 1 = k - 1
  BY <1>2
<1>10. AtLag(signal1, signal2, k) = full[n - 1 + k] /\ AtLag(signal1, signal2, k - n) = full[k - 1]
  BY <1>1, <1>9 DEF AtLag, full
<1>11. k = (delay_axis(n)[p] + (n % 2)) % n
  BY AxisPlace DEF k
<1>12. QED
  BY <1>6, <1>7, <1>8, <1>10, <1>11

-----------------------------------------------------------------------------
(* SumTo: induction over the items, and sums in parts.                     *)

(* A set of natural numbers that is not empty has a least one.             *)
LEMMA LeastOf ==
  ASSUME NEW T, T \subseteq Nat, T # {}
  PROVE  \E x \in T : \A y \in T : x <= y
<1> DEFINE R == OpToRel(<, Nat)
<1>1. IsWellFoundedOn(R, Nat)
  BY NatLessThanWellFounded
<1>2. \A x, y \in Nat : <<y, x>> \in R <=> y < x
  BY DEF OpToRel
<1> HIDE DEF R
<1>3. PICK x \in T : \A y \in T : ~ (<<y, x>> \in R)
  BY <1>1, WFMin
<1>4. ASSUME NEW y \in T PROVE x <= y
  <2>1. x \in Nat /\ y \in Nat
    OBVIOUS
  <2>2. ~ (<<y, x>> \in R)
    BY <1>3
  <2>3. ~ (y < x)
    BY <1>2, <2>1, <2>2
  <2> QED BY <2>1, <2>3
<1> QED BY <1>4

(* Induction over a set: one that has 0, and with each number the next, has *)
(* all of them.  Stated of a set, it needs no operator as a parameter.      *)
LEMMA SetInduction ==
  ASSUME NEW S, 0 \in S, \A n \in Nat : n \in S => n + 1 \in S
  PROVE  Nat \subseteq S
<1> DEFINE T == Nat \ S
<1>1. SUFFICES ASSUME T # {} PROVE FALSE
  OBVIOUS
<1>2. PICK x \in T : \A y \in T : x <= y
  BY <1>1, LeastOf
<1>3. x # 0 /\ x - 1 \in Nat /\ x - 1 \notin T
  BY <1>2
<1>4. x - 1 \in S /\ (x - 1) + 1 = x
  BY <1>3
<1> QED BY <1>2, <1>3, <1>4

\* The sums of the first k items, for k up to n.
SumsUpto(s, f, n) == s = [k \in 0..n |-> IF k = 0 THEN 0 ELSE s[k - 1] + f[k - 1]]

\* There is such a function for every n: each is the one before and a turn more.
LEMMA SumsExist ==
  ASSUME NEW f
  PROVE  \A n \in Nat : \E s : SumsUpto(s, f, n)
<1> DEFINE S == {n \in Nat : \E s : SumsUpto(s, f, n)}
<1>1. 0 \in S
  <2> DEFINE s == [k \in 0..0 |-> 0]
  <2>1. SumsUpto(s, f, 0)
    BY DEF SumsUpto
  <2> QED BY <2>1
<1>2. ASSUME NEW n \in Nat, n \in S PROVE n + 1 \in S
  <2>1. PICK s : SumsUpto(s, f, n)
    BY <1>2
  <2> DEFINE t == [k \in 0..(n + 1) |-> IF k = n + 1 THEN s[n] + f[n] ELSE s[k]]
  <2>2. \A k \in 0..n : t[k] = s[k]
    OBVIOUS
  <2>3. \A k \in 0..n : s[k] = IF k = 0 THEN 0 ELSE s[k - 1] + f[k - 1]
    BY <2>1 DEF SumsUpto
  <2>4. ASSUME NEW k \in 0..(n + 1)
        PROVE  t[k] = IF k = 0 THEN 0 ELSE t[k - 1] + f[k - 1]
    <3>1. CASE k = n + 1
      <4>1. t[k] = s[n] + f[n] /\ k # 0 /\ k - 1 = n
        BY <3>1
      <4>2. t[n] = s[n]
        BY <2>2
      <4> HIDE DEF t
      <4> QED BY <3>1, <4>1, <4>2
    <3>2. CASE k # n + 1
      <4>1. k \in 0..n /\ (k # 0 => k - 1 \in 0..n)
        BY <3>2
      <4> HIDE DEF t
      <4> QED BY <2>2, <2>3, <4>1
    <3> QED BY <3>1, <3>2
  <2>5. SumsUpto(t, f, n + 1)
    <3>1. DOMAIN t = 0..(n + 1) /\ t = [k \in 0..(n + 1) |-> t[k]]
      OBVIOUS
    <3> HIDE DEF t
    <3> QED BY <2>4, <3>1 DEF SumsUpto
  <2> QED BY <2>5
<1> HIDE DEF S
<1>3. Nat \subseteq S
  BY <1>1, <1>2, SetInduction
<1> QED BY <1>3 DEF S

\* SumTo is the last of them.
LEMMA SumIsLast ==
  ASSUME NEW f, NEW n \in Nat
  PROVE  \E s : SumsUpto(s, f, n) /\ SumTo(f, n) = s[n]
<1> DEFINE s == CHOOSE t : SumsUpto(t, f, n)
<1>1. SumsUpto(s, f, n)
  <2>1. \E t : SumsUpto(t, f, n)
    BY SumsExist
  <2> QED BY <2>1
<1>2. SumTo(f, n) = s[n]
  BY Zenon DEF SumTo, SumsUpto
<1> HIDE DEF s
<1> QED BY <1>1, <1>2

\* Of the items of f that both add up, two such functions have the same sums.
LEMMA SumsAgree ==
  ASSUME NEW f, NEW g, NEW m \in Nat, NEW n \in Nat, m <= n,
         NEW s, SumsUpto(s, f, m), NEW t, SumsUpto(t, g, n),
         \A k \in 0..(m - 1) : f[k] = g[k]
  PROVE  s[m] = t[m]
<1> DEFINE S == {k \in Nat : k <= m => s[k] = t[k]}
<1>1. 0 \in S
  BY DEF SumsUpto
<1>2. ASSUME NEW k \in Nat, k \in S PROVE k + 1 \in S
  <2> SUFFICES ASSUME k + 1 <= m PROVE s[k + 1] = t[k + 1]
    OBVIOUS
  <2>1. k + 1 \in 0..m /\ k + 1 \in 0..n /\ k \in 0..(m - 1) /\ k + 1 # 0 /\ (k + 1) - 1 = k
    OBVIOUS
  <2>2. s[k + 1] = s[k] + f[k]
    BY <2>1 DEF SumsUpto
  <2>3. t[k + 1] = t[k] + g[k]
    BY <2>1 DEF SumsUpto
  <2>4. s[k] = t[k]
    BY <1>2, <2>1
  <2> QED BY <2>1, <2>2, <2>3, <2>4
<1> HIDE DEF S
<1>3. m \in S
  BY <1>1, <1>2, SetInduction
<1> QED BY <1>3 DEF S

(* SumTo starts at 0.                                                      *)
LEMMA SumOfNone ==
  ASSUME NEW f
  PROVE  SumTo(f, 0) = 0
<1>1. PICK s : SumsUpto(s, f, 0) /\ SumTo(f, 0) = s[0]
  BY SumIsLast
<1> QED BY <1>1 DEF SumsUpto

(* One item more adds that item.                                           *)
LEMMA SumOfMore ==
  ASSUME NEW f, NEW n \in Nat
  PROVE  SumTo(f, n + 1) = SumTo(f, n) + f[n]
<1>1. PICK s : SumsUpto(s, f, n) /\ SumTo(f, n) = s[n]
  BY SumIsLast
<1>2. PICK t : SumsUpto(t, f, n + 1) /\ SumTo(f, n + 1) = t[n + 1]
  BY SumIsLast
<1>3. s[n] = t[n]
  BY <1>1, <1>2, SumsAgree
<1>4. t[n + 1] = t[n] + f[n]
  <2>1. n + 1 \in 0..(n + 1) /\ n + 1 # 0 /\ (n + 1) - 1 = n
    OBVIOUS
  <2> QED BY <1>2, <2>1 DEF SumsUpto
<1> QED BY <1>1, <1>2, <1>3, <1>4

(* Items alike have the same sum.                                          *)
LEMMA SumOfSame ==
  ASSUME NEW f, NEW g, NEW n \in Nat, \A k \in 0..(n - 1) : f[k] = g[k]
  PROVE  SumTo(f, n) = SumTo(g, n)
<1>1. PICK s : SumsUpto(s, f, n) /\ SumTo(f, n) = s[n]
  BY SumIsLast
<1>2. PICK t : SumsUpto(t, g, n) /\ SumTo(g, n) = t[n]
  BY SumIsLast
<1> QED BY <1>1, <1>2, SumsAgree

(* Integers add up to integers, so far as there are any.                   *)
LEMMA SumOfInts ==
  ASSUME NEW f, NEW m \in Nat, \A k \in 0..(m - 1) : f[k] \in Int
  PROVE  \A n \in 0..m : SumTo(f, n) \in Int
<1> DEFINE S == {n \in Nat : n <= m => SumTo(f, n) \in Int}
<1>1. 0 \in S
  BY SumOfNone
<1>2. ASSUME NEW n \in Nat, n \in S PROVE n + 1 \in S
  <2> SUFFICES ASSUME n + 1 <= m PROVE SumTo(f, n + 1) \in Int
    OBVIOUS
  <2>1. f[n] \in Int /\ SumTo(f, n) \in Int
    BY <1>2
  <2> QED BY <2>1, SumOfMore
<1> HIDE DEF S
<1>3. Nat \subseteq S
  BY <1>1, <1>2, SetInduction
<1> QED BY <1>3 DEF S

\* Two sums, one behind the other.
LEMMA SumOfTwo ==
  ASSUME NEW f, NEW a \in Nat, NEW b \in Nat, NEW g,
         \A k \in 0..(a + b - 1) : f[k] \in Int, \A k \in 0..(b - 1) : g[k] = f[a + k]
  PROVE  SumTo(f, a + b) = SumTo(f, a) + SumTo(g, b)
<1> DEFINE S == {n \in Nat : n <= b => SumTo(f, a + n) = SumTo(f, a) + SumTo(g, n)}
<1>a. a + b \in Nat /\ \A n \in 0..(a + b) : SumTo(f, n) \in Int
  BY SumOfInts
<1>b. \A n \in 0..b : SumTo(g, n) \in Int
  <2>1. \A k \in 0..(b - 1) : g[k] \in Int
    OBVIOUS
  <2> QED BY <2>1, SumOfInts
<1>1. 0 \in S
  <2>1. a + 0 = a /\ SumTo(f, a) \in Int
    BY <1>a
  <2> QED BY <2>1, SumOfNone
<1>2. ASSUME NEW n \in Nat, n \in S PROVE n + 1 \in S
  <2> SUFFICES ASSUME n + 1 <= b PROVE SumTo(f, a + (n + 1)) = SumTo(f, a) + SumTo(g, n + 1)
    OBVIOUS
  <2>1. SumTo(f, (a + n) + 1) = SumTo(f, a + n) + f[a + n] /\ a + (n + 1) = (a + n) + 1
    BY SumOfMore
  <2>2. SumTo(g, n + 1) = SumTo(g, n) + g[n]
    BY SumOfMore
  <2>3. g[n] = f[a + n] /\ f[a + n] \in Int /\ SumTo(g, n) \in Int /\ SumTo(f, a) \in Int
    BY <1>a, <1>b
  <2>4. SumTo(f, a + n) = SumTo(f, a) + SumTo(g, n)
    BY <1>2
  <2> DEFINE x == SumTo(f, a)
             y == SumTo(g, n)
             z == f[a + n]
  <2>5. SumTo(f, a + (n + 1)) = (x + y) + z /\ SumTo(g, n + 1) = y + z
    BY <2>1, <2>2, <2>3, <2>4
  <2>6. x \in Int /\ y \in Int /\ z \in Int
    BY <2>3
  <2> HIDE DEF x, y, z
  <2>7. (x + y) + z = x + (y + z)
    BY <2>6
  <2> QED BY <2>5, <2>7 DEF x
<1> HIDE DEF S
<1>3. b \in S
  BY <1>1, <1>2, SetInduction
<1> QED BY <1>3 DEF S

\* The first n items of f, and what comes after the first a of them.
IntItems(f, n)   == n \in Nat /\ \A k \in 0..(n - 1) : f[k] \in Int
Rest(g, f, a, n) == a \in 0..n /\ \A k \in 0..(n - a - 1) : g[k] = f[a + k]
InParts(g, f, a, n) == SumTo(f, n) = SumTo(f, a) + SumTo(g, n - a)

\* A sum in two parts.
LEMMA SumInParts ==
  ASSUME NEW f, NEW n, IntItems(f, n), NEW a, NEW g, Rest(g, f, a, n)
  PROVE  InParts(g, f, a, n)
<1> SUFFICES ASSUME NEW m \in Nat, m = n, NEW c \in Nat, c = a, NEW b \in Nat, m = c + b
             PROVE  InParts(g, f, a, n)
  <2>1. n \in Nat /\ a \in Nat /\ n - a \in Nat /\ n = a + (n - a)
    BY DEF IntItems, Rest
  <2> QED BY <2>1
<1>1. /\ \A k \in 0..(c + b - 1) : f[k] \in Int
      /\ \A k \in 0..(b - 1) : g[k] = f[c + k]
  BY DEF IntItems, Rest
<1>2. SumTo(f, c + b) = SumTo(f, c) + SumTo(g, b)
  BY <1>1, SumOfTwo
<1>3. n - a = b /\ n = c + b
  OBVIOUS
<1> QED BY <1>2, <1>3 DEF InParts

-----------------------------------------------------------------------------
(* The circular correlation as one turn around the second signal.          *)

\* A remainder of what is less than one turn outside.
LEMMA WrapsOnce ==
  ASSUME NEW n \in Nat \ {0}, NEW y \in Int
  PROVE  /\ y \in 0..(n - 1) => y % n = y
         /\ y \in (-n)..(-1) => y % n = y + n
         /\ y \in n..(2 * n - 1) => y % n = y - n
<1>1. y \in 0..(n - 1) => y % n = y
  OBVIOUS
<1>2. y \in (-n)..(-1) => y % n = y + n
  OBVIOUS
<1>3. y \in n..(2 * n - 1) => y % n = y - n
  OBVIOUS
<1> QED BY <1>1, <1>2, <1>3

\* g has the products at the lag k, l has those at the lag k - n.
LagItems(signal1, signal2, n, k, g, l) ==
  /\ DOMAIN signal1 = 0..(n - 1) /\ DOMAIN signal2 = 0..(n - 1)
  /\ \A x \in 0..(n - k - 1) : g[x] = signal1[k + x] * signal2[x]
  /\ \A x \in 0..(k - 1) : l[x] = signal1[x] * signal2[x - (k - n)]

LagSums(signal1, signal2, n, k, g, l) ==
  /\ AtLag(signal1, signal2, k) = SumTo(g, n - k)
  /\ k # 0 => AtLag(signal1, signal2, k - n) = SumTo(l, k)

\* The sums of the two lags that meet at one place of the cyclic signal.
LEMMA LagsAddUp ==
  ASSUME NEW n \in Nat \ {0}, NEW signal1, NEW signal2, NEW k \in 0..(n - 1), NEW g, NEW l,
         LagItems(signal1, signal2, n, k, g, l)
  PROVE  LagSums(signal1, signal2, n, k, g, l)
<1>0. /\ DOMAIN signal1 = 0..(n - 1) /\ DOMAIN signal2 = 0..(n - 1)
      /\ \A x \in 0..(n - k - 1) : g[x] = signal1[k + x] * signal2[x]
      /\ \A x \in 0..(k - 1) : l[x] = signal1[x] * signal2[x - (k - n)]
  BY DEF LagItems
<1> DEFINE u == [x \in 0..(n - k - 1) |-> signal1[k + x] * signal2[k + x - k]]
           v == [x \in 0..(k - 0 - 1) |-> signal1[0 + x] * signal2[0 + x - (k - n)]]
           F(lag) == LET lo == Most(0, lag)
                         hi == Least(n, n + lag)
                     IN  SumTo([x \in 0..(hi - lo - 1) |->
                                  signal1[lo + x] * signal2[lo + x - lag]], hi - lo)
<1>s. Size(signal1) = n /\ Size(signal2) = n
  BY <1>0, SizeOfArray
<1>f. \A m \in 0..(n + n - 2) : Full(signal1, signal2)[m] = F(m - (n - 1))
  BY <1>s DEF Full
<1>l. \A lag \in (1 - n)..(n - 1) : AtLag(signal1, signal2, lag) = F(lag)
  <2> SUFFICES ASSUME NEW lag \in (1 - n)..(n - 1) PROVE AtLag(signal1, signal2, lag) = F(lag)
    OBVIOUS
  <2>1. lag + n - 1 \in 0..(n + n - 2) /\ (lag + n - 1) - (n - 1) = lag
    OBVIOUS
  <2>2. AtLag(signal1, signal2, lag) = Full(signal1, signal2)[lag + n - 1]
    BY <1>s DEF AtLag
  <2> HIDE DEF F
  <2> QED BY <1>f, <2>1, <2>2
<1>a. Most(0, k) = k /\ Least(n, n + k) = n
  BY DEF Most, Least
<1>b. k # 0 => Most(0, k - n) = 0 /\ Least(n, n + (k - n)) = k
  BY DEF Most, Least
<1>c. k \in (1 - n)..(n - 1) /\ (k # 0 => k - n \in (1 - n)..(n - 1))
  OBVIOUS
<1>d. F(k) = SumTo(u, n - k)
  BY <1>a
<1>e. k # 0 => F(k - n) = SumTo(v, k - 0)
  BY <1>b
<1> HIDE DEF F, u, v
<1>1. AtLag(signal1, signal2, k) = SumTo(u, n - k)
  BY <1>c, <1>d, <1>l
<1>2. k # 0 => AtLag(signal1, signal2, k - n) = SumTo(v, k - 0)
  BY <1>c, <1>e, <1>l
<1> USE DEF u, v
<1>3. \A x \in 0..(n - k - 1) : u[x] = g[x]
  <2> SUFFICES ASSUME NEW x \in 0..(n - k - 1) PROVE u[x] = g[x]
    OBVIOUS
  <2>1. u[x] = signal1[k + x] * signal2[k + x - k] /\ k + x - k = x
    OBVIOUS
  <2> HIDE DEF u
  <2> QED BY <1>0, <2>1
<1>4. \A x \in 0..(k - 1) : v[x] = l[x]
  <2> SUFFICES ASSUME NEW x \in 0..(k - 1) PROVE v[x] = l[x]
    OBVIOUS
  <2>1. x \in 0..(k - 0 - 1) /\ 0 + x = x /\ 0 + x - (k - n) = x - (k - n)
    OBVIOUS
  <2>2. v[x] = signal1[0 + x] * signal2[0 + x - (k - n)]
    BY <2>1
  <2> HIDE DEF v
  <2> QED BY <1>0, <2>1, <2>2
<1> HIDE DEF u, v
<1>5. n - k \in Nat /\ k \in Nat /\ k - 0 = k
  OBVIOUS
<1>6. SumTo(u, n - k) = SumTo(g, n - k)
  <2> DEFINE b == n - k
  <2>1. b \in Nat /\ \A x \in 0..(b - 1) : u[x] = g[x]
    BY <1>3, <1>5
  <2> HIDE DEF b
  <2>2. SumTo(u, b) = SumTo(g, b)
    BY <2>1, SumOfSame
  <2> QED BY <2>2 DEF b
<1>7. SumTo(v, k) = SumTo(l, k)
  BY <1>4, <1>5, SumOfSame
<1> QED BY <1>1, <1>2, <1>5, <1>6, <1>7 DEF LagSums

\* Two signals of n samples, an even number.
Pairs(signal1, signal2, n) ==
  /\ n \in Nat \ {0} /\ n % 2 = 0
  /\ DOMAIN signal1 = 0..(n - 1) /\ \A x \in 0..(n - 1) : signal1[x] \in Int
  /\ DOMAIN signal2 = 0..(n - 1) /\ \A x \in 0..(n - 1) : signal2[x] \in Int

\* f holds the products of one turn at the lag a, which is k or k less n.
Turns(f, signal1, signal2, n, a, k) ==
  /\ a \in Int /\ k \in 0..(n - 1) /\ k = IF a >= 0 THEN a ELSE a + n
  /\ -n <= a /\ a < n
  /\ \A x \in 0..(n - 1) : f[x] = signal1[x] * signal2[(x - a) % n]

\* It meets the first signal at k with the beginning of the second, and
\* before that with its end.
LEMMA TurnMeets ==
  ASSUME NEW signal1, NEW signal2, NEW n \in Nat \ {0}, NEW f, NEW a \in Int, NEW k \in Int,
         Turns(f, signal1, signal2, n, a, k)
  PROVE  \A x \in 0..(n - 1) :
            f[x] = IF x < k THEN signal1[x] * signal2[x - (k - n)] ELSE signal1[x] * signal2[x - k]
<1>1. /\ k \in 0..(n - 1) /\ k = IF a >= 0 THEN a ELSE a + n
      /\ -n <= a /\ a < n
      /\ \A x \in 0..(n - 1) : f[x] = signal1[x] * signal2[(x - a) % n]
  BY DEF Turns
<1> SUFFICES ASSUME NEW x \in 0..(n - 1)
             PROVE  (x - a) % n = IF x < k THEN x - (k - n) ELSE x - k
  BY <1>1
<1> DEFINE y == x - a
<1>2. y \in Int
  OBVIOUS
<1>3. CASE a >= 0 /\ x < k
  <2>1. y \in (-n)..(-1) /\ y + n = x - (k - n)
    BY <1>1, <1>3
  <2> QED BY <1>2, <1>3, <2>1, WrapsOnce
<1>4. CASE a >= 0 /\ ~ (x < k)
  <2>1. y \in 0..(n - 1) /\ y = x - k
    BY <1>1, <1>4
  <2> QED BY <1>2, <1>4, <2>1, WrapsOnce
<1>5. CASE ~ (a >= 0) /\ x < k
  <2>1. y \in 0..(n - 1) /\ y = x - (k - n)
    BY <1>1, <1>5
  <2> QED BY <1>2, <1>5, <2>1, WrapsOnce
<1>6. CASE ~ (a >= 0) /\ ~ (x < k)
  <2>1. y \in n..(2 * n - 1) /\ y - n = x - k
    BY <1>1, <1>6
  <2> QED BY <1>2, <1>6, <2>1, WrapsOnce
<1> QED BY <1>3, <1>4, <1>5, <1>6

\* The sum of n items is that of the two lags k and k - n.
LagsOf(f, signal1, signal2, n, k) ==
  SumTo(f, n) = AtLag(signal1, signal2, k) + (IF k = 0 THEN 0 ELSE AtLag(signal1, signal2, k - n))

(* The products of one turn add up to the two lags correlate_circular folds *)
(* onto one place (delay_determination.py:500-508).                        *)
LEMMA TurnIsLags ==
  ASSUME NEW signal1, NEW signal2, NEW n \in Nat \ {0}, Pairs(signal1, signal2, n),
         NEW f, NEW a \in Int, NEW k \in 0..(n - 1), Turns(f, signal1, signal2, n, a, k)
  PROVE  LagsOf(f, signal1, signal2, n, k)
<1>1. /\ DOMAIN signal1 = 0..(n - 1) /\ \A x \in 0..(n - 1) : signal1[x] \in Int
      /\ DOMAIN signal2 = 0..(n - 1) /\ \A x \in 0..(n - 1) : signal2[x] \in Int
  BY DEF Pairs
<1>2. \A x \in 0..(n - 1) :
         f[x] = IF x < k THEN signal1[x] * signal2[x - (k - n)] ELSE signal1[x] * signal2[x - k]
  BY TurnMeets
<1>3. \A x \in 0..(n - 1) : f[x] \in Int
  <2> SUFFICES ASSUME NEW x \in 0..(n - 1) PROVE f[x] \in Int
    OBVIOUS
  <2>1. CASE x < k
    <3>1. f[x] = signal1[x] * signal2[x - (k - n)] /\ x - (k - n) \in 0..(n - 1)
      BY <1>2, <2>1
    <3> QED BY <1>1, <3>1
  <2>2. CASE ~ (x < k)
    <3>1. f[x] = signal1[x] * signal2[x - k] /\ x - k \in 0..(n - 1)
      BY <1>2, <2>2
    <3> QED BY <1>1, <3>1
  <2> QED BY <2>1, <2>2
<1> DEFINE g == [x \in 0..(n - k - 1) |-> f[k + x]]
<1>4. \A x \in 0..(n - k - 1) : g[x] = f[k + x]
  OBVIOUS
<1> HIDE DEF g
<1>5. \A x \in 0..(n - k - 1) : g[x] = signal1[k + x] * signal2[x]
  <2> SUFFICES ASSUME NEW x \in 0..(n - k - 1) PROVE g[x] = signal1[k + x] * signal2[x]
    OBVIOUS
  <2> DEFINE y == k + x
  <2>1. y \in 0..(n - 1) /\ ~ (y < k) /\ y - k = x
    OBVIOUS
  <2> HIDE DEF y
  <2>2. f[y] = signal1[y] * signal2[x]
    BY <1>2, <2>1
  <2> QED BY <1>4, <2>2 DEF y
<1>6. \A x \in 0..(k - 1) : f[x] = signal1[x] * signal2[x - (k - n)]
  <2> SUFFICES ASSUME NEW x \in 0..(k - 1) PROVE f[x] = signal1[x] * signal2[x - (k - n)]
    OBVIOUS
  <2>1. x \in 0..(n - 1) /\ x < k
    OBVIOUS
  <2> QED BY <1>2, <2>1
<1>7. /\ AtLag(signal1, signal2, k) = SumTo(g, n - k)
      /\ k # 0 => AtLag(signal1, signal2, k - n) = SumTo(f, k)
  <2>1. LagItems(signal1, signal2, n, k, g, f)
    BY <1>1, <1>5, <1>6 DEF LagItems
  <2>2. LagSums(signal1, signal2, n, k, g, f)
    BY <2>1, LagsAddUp
  <2> QED BY <2>2 DEF LagSums
<1>8. InParts(g, f, k, n)
  <2>1. IntItems(f, n)
    BY <1>3 DEF IntItems
  <2>2. Rest(g, f, k, n)
    BY <1>4 DEF Rest
  <2> QED BY <2>1, <2>2, SumInParts
<1>9. k = 0 => SumTo(f, k) = 0
  BY SumOfNone
<1>10. SumTo(f, k) \in Int /\ SumTo(g, n - k) \in Int
  <2>1. SumTo(f, k) \in Int
    BY <1>3, SumOfInts
  <2> DEFINE b == n - k
  <2>2. b \in Nat /\ \A x \in 0..(b - 1) : g[x] \in Int
    <3>1. \A x \in 0..(n - k - 1) : k + x \in 0..(n - 1)
      OBVIOUS
    <3> QED BY <1>3, <1>4, <3>1
  <2> HIDE DEF b
  <2>3. SumTo(g, b) \in Int
    BY <2>2, SumOfInts
  <2> QED BY <2>1, <2>3 DEF b
<1> DEFINE u == SumTo(f, k)
           v == SumTo(g, n - k)
           w == AtLag(signal1, signal2, k - n)
           c == SumTo(f, n)
           d == AtLag(signal1, signal2, k)
<1>11. /\ u \in Int /\ v \in Int /\ (k = 0 => u = 0) /\ (k # 0 => w = u)
       /\ d = v /\ c = u + v
  BY <1>7, <1>8, <1>9, <1>10 DEF InParts
<1> HIDE DEF u, v, w, c, d
<1>12. c = d + (IF k = 0 THEN 0 ELSE w)
  <2>1. CASE k = 0
    <3>1. c = v /\ d = v
      BY <1>11, <2>1
    <3> QED BY <1>11, <2>1, <3>1
  <2>2. CASE k # 0
    <3>1. d + (IF k = 0 THEN 0 ELSE w) = v + u
      BY <1>11, <2>2
    <3> QED BY <1>11, <3>1
  <2> QED BY <2>1, <2>2
<1> QED BY <1>12 DEF LagsOf, c, d, w

\* What stands at a place of the axis.
PlacesLags(signal1, signal2, n, p, k) ==
  correlate_circular(signal1, signal2, FALSE)[p]
    = AtLag(signal1, signal2, k) + (IF k = 0 THEN 0 ELSE AtLag(signal1, signal2, k - n))

\* For an even number of samples it is the lag on the axis.
LEMMA EvenPlace ==
  ASSUME NEW n \in Nat \ {0}, NEW signal1, NEW signal2, Pairs(signal1, signal2, n),
         NEW p \in 0..(n - 1)
  PROVE  /\ delay_axis(n)[p] = p - n \div 2
         /\ PlacesLags(signal1, signal2, n, p, delay_axis(n)[p] % n)
<1> DEFINE a == delay_axis(n)[p]
           j == (a + (n % 2)) % n
<1>1. DOMAIN signal1 = 0..(n - 1) /\ DOMAIN signal2 = 0..(n - 1) /\ n % 2 = 0
  BY DEF Pairs
<1>2. PlacesLags(signal1, signal2, n, p, j)
  BY <1>1, CircularFolds, ZenonT(60) DEF PlacesLags
<1>3. a \in Int
  BY DEF delay_axis
<1>4. a + (n % 2) = p - n \div 2
  BY AxisPlace
<1> HIDE DEF a
<1>5. a + (n % 2) = a /\ a = p - n \div 2
  BY <1>1, <1>3, <1>4
<1> QED BY <1>2, <1>5 DEF a

\* The products of the samples a lag apart, added up over one turn.
TurnSum(signal1, signal2, n, p) ==
  SumTo([x \in 0..(n - 1) |-> signal1[x] * signal2[(x - delay_axis(n)[p]) % n]], n)

(* The circular correlation of two signals of the same even number of      *)
(* samples is the circular one: at each place of the axis stands the sum   *)
(* over one turn at the lag of that place (delay_determination.py:500-512).*)
THEOREM CircularTurns ==
  ASSUME NEW n \in Nat \ {0}, NEW signal1, NEW signal2, Pairs(signal1, signal2, n),
         NEW p \in 0..(n - 1)
  PROVE  correlate_circular(signal1, signal2, FALSE)[p] = TurnSum(signal1, signal2, n, p)
<1> DEFINE a == delay_axis(n)[p]
           f == [x \in 0..(n - 1) |-> signal1[x] * signal2[(x - a) % n]]
<1>1. a = p - n \div 2 /\ PlacesLags(signal1, signal2, n, p, a % n)
  BY EvenPlace
<1>2. \A x \in 0..(n - 1) : f[x] = signal1[x] * signal2[(x - a) % n]
  OBVIOUS
<1> HIDE DEF a, f
<1>3. a \in Int /\ -n <= a /\ a < n
  BY <1>1
<1>4. PICK k \in 0..(n - 1) : k = a % n
  BY <1>3
<1>5. k = IF a >= 0 THEN a ELSE a + n
  <2>1. CASE a >= 0
    <3>1. a \in 0..(n - 1)
      BY <1>3, <2>1
    <3>2. a % n = a
      BY <1>3, <3>1, WrapsOnce
    <3> QED BY <1>4, <2>1, <3>2
  <2>2. CASE ~ (a >= 0)
    <3>1. a \in (-n)..(-1)
      BY <1>3, <2>2
    <3>2. a % n = a + n
      BY <1>3, <3>1, WrapsOnce
    <3> QED BY <1>4, <2>2, <3>2
  <2> QED BY <2>1, <2>2
<1>6. Turns(f, signal1, signal2, n, a, k)
  BY <1>2, <1>3, <1>5 DEF Turns
<1>7. LagsOf(f, signal1, signal2, n, k)
  BY <1>3, <1>6, TurnIsLags
<1>8. PlacesLags(signal1, signal2, n, p, k)
  BY <1>1, <1>4
<1>9. correlate_circular(signal1, signal2, FALSE)[p] = SumTo(f, n)
  BY <1>7, <1>8, Zenon DEF LagsOf, PlacesLags
<1> QED BY <1>9 DEF f, a, TurnSum

-----------------------------------------------------------------------------
(* The measuring scripts, which hand waveforms to these functions.         *)

\* The two signals of a measurement are arrays of the same length.
SameLength ==
  phase \in {"correlate", "peak"} =>
    \E n \in Nat : DOMAIN y1 = 0..(n - 1) /\ DOMAIN y3 = 0..(n - 1)

(* Whatever the record, an even number of samples is taken of both         *)
(* channels (edge_sfd.py:171-173, edge_edge.py:92-94).                     *)
LEMMA AcquiredLength ==
  ASSUME Acquired
  PROVE  SameLength'
<1> DEFINE n == Samples(rec'.points)
<1>1. rec' \in Records /\ n \in Nat
  BY MeasureAssumption DEF Acquired, Samples
<1>2. CASE NoPattern(n)
  BY <1>2 DEF Acquired, SameLength
<1>3. CASE ~NoPattern(n)
  <2>1. y1' = Pulse(n, rec'.p, rec'.width)
    BY <1>3 DEF Acquired
  <2>2. DOMAIN y1' = 0..(n - 1)
    BY <2>1 DEF Pulse
  <2>3. y3' = Line(n, rec'.q) \/ y3' = Pulse(n, rec'.p3, rec'.width)
    BY <1>3 DEF Acquired
  <2>4. DOMAIN y3' = 0..(n - 1)
    BY <2>3 DEF Pulse, Line
  <2>5. QED
    BY <1>1, <2>2, <2>4 DEF SameLength
<1>4. QED
  BY <1>2, <1>3

(* Every step keeps the signals arrays of one length.                      *)
LEMMA SameLengthKept == Spec => []SameLength
<1>1. Init => SameLength
  BY DEF Init, SameLength
<1>2. SameLength /\ [Next]_vars => SameLength'
  <2> SUFFICES ASSUME SameLength, [Next]_vars PROVE SameLength'
    OBVIOUS
  <2>1. CASE Option
    BY <2>1 DEF Option, SameLength
  <2>2. CASE Started
    BY <2>2 DEF Started, SameLength
  <2>3. CASE Acquired
    BY <2>3, AcquiredLength
  <2>4. CASE Correlate
    BY <2>4 DEF Correlate, SameLength
  <2>5. CASE Peak
    BY <2>5 DEF Peak, SameLength
  <2>6. CASE UNCHANGED vars
    BY <2>6 DEF vars, SameLength
  <2>7. QED
    BY <2>1, <2>2, <2>3, <2>4, <2>5, <2>6 DEF Next
<1>3. QED
  BY <1>1, <1>2, PTL DEF Spec

(* On arrays of one length the linear correlation is right.                *)
LEMMA RightOnArrays ==
  ASSUME SameLength
  PROVE  LinearRight
<1> SUFFICES ASSUME phase = "peak" PROVE LinearRight
  BY DEF LinearRight
<1>1. PICK n \in Nat : DOMAIN y1 = 0..(n - 1) /\ DOMAIN y3 = 0..(n - 1)
  BY DEF SameLength
<1>2. Size(y1) = n
  BY <1>1, SizeOfArray
<1>3. ASSUME NEW center \in {-(Size(y1) \div 2), -2, 0, 3, Size(y1) \div 2},
             NEW shift \in {0, 1, 3}, NEW length \in {None, 2}
      PROVE  LinearOk(y1, y3, center, shift, length)
  <2>1. center \in Int
    BY <1>2
  <2>2. shift \in Nat /\ length \in Nat \cup {None}
    OBVIOUS
  <2>3. QED
    BY <1>1, <2>1, <2>2, LinearCorrelates
<1>4. QED
  BY <1>3 DEF LinearRight

(* For every value of the constants, correlate_linear applied to the two   *)
(* waveforms of any measurement adds up, over one window of the first, the *)
(* products at the lag under which each value is filed, wraps nothing      *)
(* around, and padding keeps every value (delay_determination.py:396-471). *)
THEOREM LinearAlwaysRight == Spec => []LinearRight
  BY SameLengthKept, RightOnArrays, PTL

\* An array of an even number of samples, all of them integers.
EvenArray(s) == \E m \in Nat : /\ DOMAIN s = 0..(2 * m - 1)
                               /\ \A x \in 0..(2 * m - 1) : s[x] \in Int

\* What edge_sfd.py has by the time it looks for the peak.
Taken == phase \in {"correlate", "peak"} => EvenArray(y1)
NoneYet == phase = "options" => i = 0
Made ==
  (script = "edge_sfd" /\ (phase \in {"correlate", "peak"} \/ (phase = "measure" /\ i # 0)))
    => EvenArray(edge)
Correlates ==
  (script = "edge_sfd" /\ phase = "peak") => c_edge = correlate_circular(y1, edge, FALSE)

CircularInv == Taken /\ NoneYet /\ Made /\ Correlates

(* The sampled pulse and the pattern made of bits are such arrays          *)
(* (pat_gen.py:42-67, edge_sfd.py:173-190).                              *)
LEMMA ArraysEven ==
  ASSUME NEW m \in Nat
  PROVE  /\ \A p, w : EvenArray(Pulse(2 * m, p, w))
         /\ \A pattern, spb : EvenArray(scipy_array_from_pattern(pattern, 2 * m, spb, 1, 0, 0))
<1>1. ASSUME NEW p, NEW w PROVE EvenArray(Pulse(2 * m, p, w))
  BY DEF EvenArray, Pulse
<1>2. ASSUME NEW pattern, NEW spb
      PROVE  EvenArray(scipy_array_from_pattern(pattern, 2 * m, spb, 1, 0, 0))
  <2> DEFINE s == scipy_array_from_pattern(pattern, 2 * m, spb, 1, 0, 0)
  <2>1. (2 * m) \div 2 = m
    OBVIOUS
  <2>2. DOMAIN s = 0..(2 * m - 1)
    BY <2>1 DEF scipy_array_from_pattern
  <2>3. \A x \in 0..(2 * m - 1) : s[x] \in {0, 1}
    BY <2>1 DEF scipy_array_from_pattern
  <2> HIDE DEF s
  <2>4. \A x \in 0..(2 * m - 1) : s[x] \in Int
    BY <2>3
  <2>5. EvenArray(s)
    BY <2>2, <2>4 DEF EvenArray
  <2> QED BY <2>5 DEF s
<1> QED BY <1>1, <1>2

(* The first record of edge_sfd.py makes the pattern, a later one keeps it *)
(* (edge_sfd.py:176-190).                                                  *)
LEMMA AcquiredEven ==
  ASSUME CircularInv, Acquired
  PROVE  CircularInv'
<1> DEFINE n == Samples(rec'.points)
<1>1. phase = "measure" /\ rec' \in Records /\ UNCHANGED <<script, i>>
  BY DEF Acquired
<1>2. PICK m \in Nat : n = 2 * m
  <2>1. rec'.points \in Nat
    BY <1>1, MeasureAssumption
  <2>2. rec'.points \div 2 \in Nat
    BY <2>1
  <2> QED BY <2>2 DEF Samples
<1>3. CASE NoPattern(n)
  <2>1. phase' = "failed"
    BY <1>3 DEF Acquired
  <2> QED BY <2>1 DEF CircularInv, Taken, NoneYet, Made, Correlates
<1>4. CASE ~NoPattern(n)
  <2>1. y1' = Pulse(n, rec'.p, rec'.width) /\ Patterns(n) /\ phase' = "correlate"
    BY <1>4 DEF Acquired
  <2> HIDE DEF n
  <2>2. EvenArray(y1')
    BY <1>2, <2>1, ArraysEven
  <2>3. script = "edge_sfd" => EvenArray(edge')
    <3>1. CASE i = 0
      BY <1>2, <2>1, <3>1, ArraysEven DEF Patterns
    <3>2. CASE i # 0
      BY <1>1, <2>1, <3>2 DEF Patterns, CircularInv, Made
    <3> QED BY <3>1, <3>2
  <2> QED BY <1>1, <2>1, <2>2, <2>3 DEF CircularInv, Taken, NoneYet, Made, Correlates, EvenArray
<1> QED BY <1>3, <1>4

(* Every step keeps pulse and pattern even, and looks for the peak in the  *)
(* correlation of these two.                                               *)
LEMMA CircularInvKept == Spec => []CircularInv
<1>1. Init => CircularInv
  BY DEF Init, CircularInv, Taken, NoneYet, Made, Correlates
<1>2. CircularInv /\ [Next]_vars => CircularInv'
  <2> SUFFICES ASSUME CircularInv, [Next]_vars PROVE CircularInv'
    OBVIOUS
  <2> USE DEF CircularInv, Taken, NoneYet, Made, Correlates, EvenArray
  <2>1. CASE Option
    BY <2>1 DEF Option
  <2>2. CASE Started
    BY <2>2 DEF Started
  <2>3. CASE Acquired
    BY <2>3, AcquiredEven
  <2>4. CASE Correlate
    BY <2>4 DEF Correlate
  <2>5. CASE Peak
    BY <2>5 DEF Peak
  <2>6. CASE UNCHANGED vars
    BY <2>6 DEF vars
  <2> QED BY <2>1, <2>2, <2>3, <2>4, <2>5, <2>6 DEF Next
<1> QED BY <1>1, <1>2, PTL DEF Spec

(* Of such arrays of one size the circular correlation is right.           *)
LEMMA CircularOnArrays ==
  ASSUME CircularInv
  PROVE  CircularRight
<1> SUFFICES ASSUME phase = "peak", script = "edge_sfd", Size(y1) = Size(edge)
             PROVE  CircularRight
  BY DEF CircularRight
<1>1. PICK m \in Nat : DOMAIN y1 = 0..(2 * m - 1) /\ \A x \in 0..(2 * m - 1) : y1[x] \in Int
  BY DEF CircularInv, Taken, EvenArray
<1>2. PICK k \in Nat : DOMAIN edge = 0..(2 * k - 1) /\ \A x \in 0..(2 * k - 1) : edge[x] \in Int
  BY DEF CircularInv, Made, EvenArray
<1>3. Size(y1) = 2 * m /\ Size(edge) = 2 * k /\ k = m
  <2>1. 2 * m \in Nat /\ 2 * k \in Nat
    OBVIOUS
  <2>2. Size(y1) = 2 * m /\ Size(edge) = 2 * k
    BY <1>1, <1>2, <2>1, SizeOfArray
  <2>3. 2 * m = 2 * k
    BY <2>2
  <2>4. k = m
    BY <2>3
  <2> QED BY <2>2, <2>4
<1>4. c_edge = correlate_circular(y1, edge, FALSE)
  BY DEF CircularInv, Correlates
<1> DEFINE n == Size(y1)
<1>5. ASSUME NEW p \in 0..(n - 1)
      PROVE  c_edge[p] = SumTo([x \in 0..(n - 1) |-> y1[x] * edge[(x - delay_axis(n)[p]) % n]], n)
  <2>1. n = 2 * m /\ n \in Nat \ {0} /\ (n % 2) = 0
    BY <1>3, <1>5
  <2> HIDE DEF n
  <2>2. Pairs(y1, edge, n)
    BY <1>1, <1>2, <1>3, <2>1 DEF Pairs
  <2>3. correlate_circular(y1, edge, FALSE)[p] = TurnSum(y1, edge, n, p)
    BY <1>5, <2>1, <2>2, CircularTurns
  <2> QED BY <1>4, <2>3 DEF TurnSum
<1> QED BY <1>5 DEF CircularRight

(* For every value of the constants: whenever edge_sfd.py looks for the    *)
(* pulse in the correlation of a record with a pattern of the same length, *)
(* each place of the axis holds the sum over one turn at the lag of that   *)
(* place (correlate_circular, delay_determination.py:500-512).             *)
THEOREM CircularAlwaysRight == Spec => []CircularRight
  BY CircularInvKept, CircularOnArrays, PTL

(* A tolerance given with -t is never replaced by the one that goes with   *)
(* -d, whatever the order of the options (edge_sfd.py:258-265).            *)
THEOREM GivenToleranceKept == Spec => ToleranceKept
<1>1. [Next]_vars => [phase = "options" /\ tolerance = GivenTol
                        => tolerance' = GivenTol \/ script = "edge_edge"]_vars
  <2> SUFFICES ASSUME Next, phase = "options", tolerance = GivenTol
               PROVE  tolerance' = GivenTol \/ script = "edge_edge"
    OBVIOUS
  <2>1. GivenTol # DefaultTol
    BY MeasureAssumption
  <2>2. CASE Option
    BY <2>1, <2>2 DEF Option, WithDelay
  <2>3. CASE Started
    BY <2>3 DEF Started
  <2>4. ~Acquired /\ ~Correlate /\ ~Peak
    BY DEF Acquired, Correlate, Peak
  <2>5. QED
    BY <2>2, <2>3, <2>4 DEF Next
<1>2. QED
  BY <1>1, PTL DEF Spec, ToleranceKept
=============================================================================
