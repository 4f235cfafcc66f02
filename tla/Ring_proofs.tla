----------------------------- MODULE Ring_proofs -----------------------------
(***************************************************************************)
(* Addresses in a memory that is used as a ring: a pointer into it and an  *)
(* offset of less than its size (ipmux.vhd:1709-1743).                     *)
(***************************************************************************)
EXTENDS Integers, TLAPS

CONSTANT Size

\* The remainder of an address that is out by less than a size.
LEMMA Wrap ==
  ASSUME Size \in Nat \ {0}, NEW a \in Int
  PROVE  /\ 0 <= a /\ a < Size => a % Size = a
         /\ Size <= a /\ a < 2 * Size => a % Size = a - Size
         /\ -Size <= a /\ a < 0 => a % Size = a + Size
OBVIOUS

\* An offset from a pointer wraps once at most.
LEMMA Around ==
  ASSUME Size \in Nat \ {0}, NEW p \in 0 .. Size - 1, NEW d \in 0 .. Size - 1
  PROVE  /\ (p + d) % Size = IF p + d < Size THEN p + d ELSE p + d - Size
         /\ (p + d) % Size \in 0 .. Size - 1
<1>1. p + d \in Int /\ 0 <= p + d /\ p + d < 2 * Size
  OBVIOUS
<1>2. (p + d) % Size = IF p + d < Size THEN p + d ELSE p + d - Size
  BY <1>1, Wrap
<1> QED BY <1>1, <1>2

\* Different offsets are different addresses.
LEMMA Apart ==
  ASSUME Size \in Nat \ {0}, NEW p \in 0 .. Size - 1, NEW d \in 0 .. Size - 1, NEW e \in 0 .. Size - 1,
         (p + d) % Size = (p + e) % Size
  PROVE  d = e
<1> DEFINE x == (p + d) % Size
           y == (p + e) % Size
<1>1. x = IF p + d < Size THEN p + d ELSE p + d - Size
  BY Around
<1>2. y = IF p + e < Size THEN p + e ELSE p + e - Size
  BY Around
<1>3. x = y
  OBVIOUS
<1> HIDE DEF x, y
<1> QED BY <1>1, <1>2, <1>3

\* An offset of an offset.
LEMMA Shifted ==
  ASSUME Size \in Nat \ {0}, NEW p \in 0 .. Size - 1, NEW k \in Nat, NEW d \in Nat, k + d < Size
  PROVE  (((p + k) % Size) + d) % Size = (p + (k + d)) % Size
<1>1. k \in 0 .. Size - 1 /\ d \in 0 .. Size - 1 /\ k + d \in 0 .. Size - 1
  OBVIOUS
<1> DEFINE o == (p + k) % Size
<1>2. /\ o = IF p + k < Size THEN p + k ELSE p + k - Size
      /\ o \in 0 .. Size - 1
  BY <1>1, Around
<1> HIDE DEF o
<1> DEFINE e == k + d
<1>3. /\ e \in 0 .. Size - 1
      /\ (p + e) % Size = IF p + e < Size THEN p + e ELSE p + e - Size
  <2>1. e \in 0 .. Size - 1
    BY <1>1
  <2> HIDE DEF e
  <2> QED BY <2>1, Around
<1> DEFINE y == (p + e) % Size
<1>e. y = IF p + e < Size THEN p + e ELSE p + e - Size
  BY <1>3
<1> HIDE DEF y
<1>4. (o + d) % Size = IF o + d < Size THEN o + d ELSE o + d - Size
  BY <1>1, <1>2, Around
<1> DEFINE z == (o + d) % Size
<1>5. z = IF o + d < Size THEN o + d ELSE o + d - Size
  BY <1>4
<1> HIDE DEF z
<1>6. z = y
  BY <1>1, <1>2, <1>e, <1>5
<1> QED BY <1>6 DEF o, y, z

\* How far one pointer is ahead of another.
LEMMA Distance ==
  ASSUME Size \in Nat \ {0}, NEW p \in 0 .. Size - 1, NEW v \in 0 .. Size - 1
  PROVE  /\ (v - p) % Size = IF p <= v THEN v - p ELSE v - p + Size
         /\ (v - p) % Size \in 0 .. Size - 1
         /\ (p + ((v - p) % Size)) % Size = v
         /\ (v - p) % Size = 0 <=> v = p
<1>1. (v - p) % Size = IF p <= v THEN v - p ELSE v - p + Size
  BY Wrap
<1>2. (v - p) % Size \in 0 .. Size - 1
  BY <1>1
<1> DEFINE x == (v - p) % Size
<1>3. (p + x) % Size = v
  <2>1. x = (IF p <= v THEN v - p ELSE v - p + Size) /\ x \in 0 .. Size - 1
    BY <1>1, <1>2
  <2> HIDE DEF x
  <2>2. (p + x) % Size = IF p + x < Size THEN p + x ELSE p + x - Size
    BY <2>1, Around
  <2> DEFINE y == (p + x) % Size
  <2>3. y = IF p + x < Size THEN p + x ELSE p + x - Size
    BY <2>2
  <2> HIDE DEF y
  <2>4. y = v
    BY <2>1, <2>3
  <2> QED BY <2>4 DEF y
<1>4. x = 0 <=> v = p
  <2>1. x = IF p <= v THEN v - p ELSE v - p + Size
    BY <1>1
  <2> HIDE DEF x
  <2> QED BY <2>1
<1> QED BY <1>1, <1>2, <1>3, <1>4

(* A pointer moved by k is k further from one behind it, and k nearer to   *)
(* one ahead of it.                                                        *)
LEMMA Further ==
  ASSUME Size \in Nat \ {0}, NEW p \in 0 .. Size - 1, NEW v \in 0 .. Size - 1, NEW k \in Nat,
         ((v - p) % Size) + k < Size
  PROVE  (((v + k) % Size) - p) % Size = ((v - p) % Size) + k
<1>1. k \in 0 .. Size - 1
  BY Distance
<1>2. /\ (v + k) % Size = IF v + k < Size THEN v + k ELSE v + k - Size
      /\ (v + k) % Size \in 0 .. Size - 1
  BY <1>1, Around
<1> DEFINE x == (v + k) % Size
<1>3. (x - p) % Size = IF p <= x THEN x - p ELSE x - p + Size
  BY <1>2, Distance
<1> HIDE DEF x
<1>4. (v - p) % Size = IF p <= v THEN v - p ELSE v - p + Size
  BY Distance
<1>5. x = (IF v + k < Size THEN v + k ELSE v + k - Size) /\ x \in 0 .. Size - 1
  BY <1>2 DEF x
<1>6. (x - p) % Size = ((v - p) % Size) + k
  BY <1>1, <1>3, <1>4, <1>5
<1> QED BY <1>6 DEF x

LEMMA Nearer ==
  ASSUME Size \in Nat \ {0}, NEW p \in 0 .. Size - 1, NEW v \in 0 .. Size - 1, NEW k \in Nat,
         k <= (v - p) % Size
  PROVE  (v - ((p + k) % Size)) % Size = ((v - p) % Size) - k
<1>1. k \in 0 .. Size - 1
  BY Distance
<1> DEFINE x == (p + k) % Size
<1>2. /\ x = IF p + k < Size THEN p + k ELSE p + k - Size
      /\ x \in 0 .. Size - 1
  BY <1>1, Around
<1> HIDE DEF x
<1>3. (v - x) % Size = IF x <= v THEN v - x ELSE v - x + Size
  BY <1>2, Distance
<1>4. (v - p) % Size = IF p <= v THEN v - p ELSE v - p + Size
  BY Distance
<1>5. (v - x) % Size = ((v - p) % Size) - k
  BY <1>1, <1>2, <1>3, <1>4
<1> QED BY <1>5 DEF x

=============================================================================
