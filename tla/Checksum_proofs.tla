--------------------------- MODULE Checksum_proofs ---------------------------
(***************************************************************************)
(* OwnAccepted and ExcessSeen for every width of a word.  The halves of    *)
(* the sum are told apart by the number of words: the carries counted in   *)
(* hi are fewer than the words, so that hi is below Radix - 1 and the      *)
(* second addition of Fold does not overflow.  With the checksum added the *)
(* halves of the transmitter's sum then add up to all ones, without a      *)
(* carry.  The receiver's sum, with the word of Din that is still to be    *)
(* added, is larger by the excess, spread over the halves by two carries   *)
(* at most, and what is added to both keeps them so.                       *)
(***************************************************************************)
EXTENDS Checksum, TLAPS

\* The halves of a sum of k words at most.
Sums(k) == [hi : 0 .. k, lo : Values]

\* The sum a is larger than the sum b by d.
Drift(a, b, d) ==
  \/ a.hi = b.hi - 1 /\ a.lo = b.lo + d + Radix
  \/ a.hi = b.hi /\ a.lo = b.lo + d
  \/ a.hi = b.hi + 1 /\ a.lo = b.lo + d - Radix
  \/ a.hi = b.hi + 2 /\ a.lo = b.lo + d - 2 * Radix

\* With its checksum a sum of halves that drifted by d is all ones and d,
\* but for the carries.
Settled(sum, d) ==
  /\ \/ sum = d + 2 * (Radix - 1)
     \/ sum = d + (Radix - 1)
     \/ sum = d
     \/ sum = d - (Radix - 1)
  /\ d = 0 => sum = Radix - 1

\* One word out of place, and the MAC word on top.
Excesses == 1 - Radix .. 2 * Radix - 2

\* The receiver's sum when Din has been added to it.
Total == IF of = "udp" THEN Add(rx, din) ELSE rx

Drifted ==
  /\ check = -1 /\ plain => Drift(Total, tx, Excess)
  /\ check # -1 /\ plain => Settled(rx.hi + rx.lo, Excess)

Types ==
  /\ of \in {"ip", "udp"} /\ mac \in Values /\ din \in Values
  /\ tx \in Sums(n) /\ rx \in Sums(n + 2)
  /\ n \in 0 .. MaxWords /\ check \in Values \cup {-1}
  /\ damage \in 1 - Radix .. Radix - 1
  /\ data \in BOOLEAN /\ plain \in BOOLEAN
  /\ (check = -1 => rx \in Sums(n))

IInv == Types /\ Drifted

\* A sum grows by one carry at most.
LEMMA AddTyped ==
  ASSUME NEW k \in Nat, NEW s \in Sums(k), NEW w \in Values
  PROVE  Add(s, w) \in Sums(k + 1)
BY WidthAssumption, SMT DEF Add, Sums, Values

\* The checksum is a word.
LEMMA CheckTyped ==
  ASSUME NEW s \in Sums(MaxWords)
  PROVE  Not(Fold(s)) \in Values
BY WidthAssumption, SMT DEF Not, Fold, Sums, Values

\* A sum and its own checksum: the halves are complementary.
LEMMA CheckCompletes ==
  ASSUME NEW s \in Sums(MaxWords)
  PROVE  Add(s, Not(Fold(s))).hi + Add(s, Not(Fold(s))).lo = Radix - 1
<1>1. s.hi \in Nat /\ s.hi <= Radix - 2 /\ s.lo \in 0 .. Radix - 1
  BY WidthAssumption DEF Sums, Values
<1>2. CASE s.hi + s.lo < Radix
  <2>1. Not(Fold(s)) = Radix - 1 - s.hi - s.lo
    BY <1>1, <1>2, WidthAssumption DEF Not, Fold
  <2>2. Add(s, Not(Fold(s))) = [hi |-> s.hi, lo |-> Radix - 1 - s.hi]
    BY <1>1, <2>1, WidthAssumption DEF Add
  <2> QED BY <1>1, <2>2, WidthAssumption
<1>3. CASE ~(s.hi + s.lo < Radix)
  <2>1. Not(Fold(s)) = 2 * Radix - 2 - s.hi - s.lo
    BY <1>1, <1>3, WidthAssumption DEF Not, Fold
  <2>2. Add(s, Not(Fold(s))) = [hi |-> s.hi + 1, lo |-> Radix - 2 - s.hi]
    BY <1>1, <2>1, WidthAssumption DEF Add
  <2> QED BY <1>1, <2>2, WidthAssumption
<1> QED BY <1>2, <1>3

\* The order of two words does not matter to a sum.
LEMMA AddCommutes ==
  ASSUME NEW k \in Nat, NEW s \in Sums(k), NEW v \in Values, NEW w \in Values
  PROVE  Add(Add(s, v), w) = Add(Add(s, w), v)
<1>1. /\ Radix \in Nat /\ s.hi \in Nat /\ s.lo \in 0 .. Radix - 1
      /\ v \in 0 .. Radix - 1 /\ w \in 0 .. Radix - 1
  BY WidthAssumption DEF Sums, Values
<1>2. CASE s.lo + v < Radix /\ s.lo + w < Radix
  BY <1>1, <1>2 DEF Add
<1>3. CASE s.lo + v < Radix /\ ~(s.lo + w < Radix)
  BY <1>1, <1>3 DEF Add
<1>4. CASE ~(s.lo + v < Radix) /\ s.lo + w < Radix
  BY <1>1, <1>4 DEF Add
<1>5. CASE ~(s.lo + v < Radix) /\ ~(s.lo + w < Radix)
  BY <1>1, <1>5 DEF Add
<1> QED BY <1>2, <1>3, <1>4, <1>5

\* A word added to each of two sums puts them apart by the difference.
LEMMA DriftGrows ==
  ASSUME NEW k \in Nat, NEW a \in Sums(k), NEW b \in Sums(k),
         NEW v \in Values, NEW w \in Values, NEW d \in Excesses,
         Drift(a, b, d), d + v - w \in Excesses
  PROVE  Drift(Add(a, v), Add(b, w), d + v - w)
<1>1. /\ Radix \in Nat /\ a.hi \in Nat /\ a.lo \in 0 .. Radix - 1
      /\ b.hi \in Nat /\ b.lo \in 0 .. Radix - 1
      /\ v \in 0 .. Radix - 1 /\ w \in 0 .. Radix - 1
      /\ d \in 1 - Radix .. 2 * Radix - 2 /\ d + v - w \in 1 - Radix .. 2 * Radix - 2
  BY WidthAssumption DEF Sums, Values, Excesses
<1>2. CASE a.lo + v < Radix /\ b.lo + w < Radix
  BY <1>1, <1>2 DEF Add, Drift
<1>3. CASE a.lo + v < Radix /\ ~(b.lo + w < Radix)
  BY <1>1, <1>3 DEF Add, Drift
<1>4. CASE ~(a.lo + v < Radix) /\ b.lo + w < Radix
  <2>1. /\ Add(a, v).hi = a.hi + 1 /\ Add(a, v).lo = a.lo + v - Radix
        /\ Add(b, w).hi = b.hi /\ Add(b, w).lo = b.lo + w
    BY <1>1, <1>4 DEF Add
  <2>2. CASE a.hi = b.hi + 2 /\ a.lo = b.lo + d - 2 * Radix
    BY <1>1, <1>4, <2>2
  <2>3. CASE ~(a.hi = b.hi + 2 /\ a.lo = b.lo + d - 2 * Radix)
    BY <1>1, <2>1, <2>3 DEF Drift
  <2> QED BY <2>2, <2>3
<1>5. CASE ~(a.lo + v < Radix) /\ ~(b.lo + w < Radix)
  BY <1>1, <1>5 DEF Add, Drift
<1> QED BY <1>2, <1>3, <1>4, <1>5

\* With the transmitter's checksum added, a sum is all ones and its drift.
LEMMA DriftSettles ==
  ASSUME NEW s \in Sums(MaxWords + 1), NEW b \in Sums(MaxWords), NEW d \in Excesses,
         Drift(s, b, d)
  PROVE  Settled(Add(s, Not(Fold(b))).hi + Add(s, Not(Fold(b))).lo, d)
<1> DEFINE c == Not(Fold(b))
           g == Add(s, c)
           h == Add(b, c)
<1>1. c \in Values
  BY CheckTyped
<1>2. b \in Sums(MaxWords + 1) /\ MaxWords + 1 \in Nat
  BY WidthAssumption DEF Sums
<1>3. h.hi + h.lo = Radix - 1
  BY CheckCompletes
<1>4. g \in Sums(MaxWords + 2) /\ h \in Sums(MaxWords + 2)
  <2>1. g \in Sums(MaxWords + 1 + 1) /\ h \in Sums(MaxWords + 1 + 1)
    BY <1>1, <1>2, AddTyped
  <2> QED BY <2>1, WidthAssumption
<1>5. Drift(g, h, d)
  <2>1. d + c - c = d
    BY <1>1, WidthAssumption DEF Excesses, Values
  <2> HIDE DEF c
  <2>2. Drift(Add(s, c), Add(b, c), d + c - c)
    BY <1>1, <1>2, <2>1, DriftGrows
  <2> QED BY <2>1, <2>2
<1> HIDE DEF g, h
<1>6. /\ Radix \in Nat /\ d \in Int /\ g.hi \in Int /\ g.lo \in 0 .. Radix - 1
      /\ h.hi \in Int /\ h.lo \in 0 .. Radix - 1
  BY <1>4, WidthAssumption DEF Sums, Values, Excesses
<1>7. Settled(g.hi + g.lo, d)
  BY <1>3, <1>5, <1>6 DEF Drift, Settled
<1> QED BY <1>7 DEF g

\* Before the first word the sums are apart by the MAC word in Din only.
LEMMA InitIInv == Init => IInv
<1> SUFFICES ASSUME Init PROVE IInv
  OBVIOUS
<1>1. Radix \in Nat /\ 2 <= Radix /\ MaxWords \in Nat
  BY WidthAssumption
<1>2. Types
  <2>1. tx \in Sums(n) /\ rx \in Sums(n) /\ rx \in Sums(n + 2)
    BY <1>1 DEF Init, Sums, Values
  <2>2. data \in BOOLEAN /\ plain \in BOOLEAN
    BY DEF Init
  <2>3. n \in 0 .. MaxWords /\ check \in {-1} /\ damage \in 1 - Radix .. Radix - 1
    BY <1>1 DEF Init
  <2> QED BY <2>1, <2>2, <2>3 DEF Init, Types
<1>3. Drift(Total, tx, Excess)
  <2>1. mac \in 0 .. Radix - 1 /\ din = mac /\ damage = 0
    BY DEF Init, Values
  <2>2. rx.hi = 0 /\ rx.lo = 0 /\ tx.hi = 0 /\ tx.lo = 0
    BY DEF Init
  <2>3. CASE of = "udp"
    BY <1>1, <2>1, <2>2, <2>3 DEF Total, Excess, Drift, Add
  <2>4. CASE of # "udp"
    BY <1>1, <2>1, <2>2, <2>4 DEF Total, Excess, Drift
  <2> QED BY <2>3, <2>4
<1> QED BY <1>2, <1>3 DEF IInv, Drifted, Init

\* The excess is that of one word and the MAC word.
LEMMA ExcessTyped == Types => Excess \in Excesses
BY WidthAssumption DEF Types, Excess, Excesses, Values

\* A word that arrives leaves the registers what they are but for the sum.
LEMMA ArrivesTyped ==
  ASSUME Types, NEW w \in Values, NEW v \in Values, Arrives(w, v)
  PROVE  /\ n \in Nat /\ n' \in 0 .. MaxWords /\ n' = n + 1 /\ tx' \in Sums(n')
         /\ damage' \in 1 - Radix .. Radix - 1
         /\ of' = of /\ mac' = mac /\ check' = check /\ check = -1
         /\ Excess' = Excess + v - w /\ Excess' \in Excesses
<1>1. n \in Nat /\ n' \in 0 .. MaxWords /\ n' = n + 1
  BY WidthAssumption DEF Types, Arrives
<1>2. tx' \in Sums(n')
  BY <1>1, AddTyped DEF Types, Arrives
<1>3. damage' \in 1 - Radix .. Radix - 1
  BY WidthAssumption DEF Types, Arrives, Values
<1>4. Excess' = Excess + v - w
  BY WidthAssumption DEF Types, Arrives, Values, Excess
<1>5. Excess + v - w \in Excesses
  <2>1. damage + v - w \in 1 - Radix .. Radix - 1 /\ damage \in Int
    BY <1>3 DEF Arrives, Types
  <2>2. v \in Int /\ w \in Int /\ mac \in 0 .. Radix - 1
    BY DEF Types, Values
  <2> QED BY <2>1, <2>2, WidthAssumption DEF Excess, Excesses
<1> QED BY <1>1, <1>2, <1>3, <1>4, <1>5 DEF Arrives

\* Each addition of lines 696-843 and 1240-1373 keeps them as far apart.
LEMMA NextIInv == IInv /\ [Next]_vars => IInv'
<1> SUFFICES ASSUME IInv, [Next]_vars PROVE IInv'
  OBVIOUS
<1>0. Types /\ Drifted /\ Excess \in Excesses
  BY ExcessTyped DEF IInv
<1>1. CASE UNCHANGED vars
  BY <1>1 DEF IInv, Types, Drifted, Total, Excess, vars
<1>2. ASSUME NEW w \in Values, NEW v \in Values, HeaderWord(w, v) PROVE IInv'
  <2>1. Arrives(w, v) /\ rx' = Add(rx, v) /\ din' = din /\ data' = data /\ plain' = plain
    BY <1>2 DEF HeaderWord
  <2>2. rx \in Sums(n) /\ din \in Values /\ tx \in Sums(n) /\ n \in Nat /\ n' = n + 1
    BY <1>0, <2>1, ArrivesTyped DEF Types
  <2>3. rx' \in Sums(n') /\ n' \in Nat
    BY <2>1, <2>2, AddTyped
  <2>4. Types'
    BY <1>0, <2>1, <2>3, ArrivesTyped DEF Types, Sums
  <2>5. Total' = Add(Total, v)
    BY <1>0, <2>1, <2>2, ArrivesTyped, AddCommutes DEF Total
  <2>6. plain => Drift(Total', tx', Excess')
    <3> HAVE plain
    <3>1. Drift(Total, tx, Excess)
      BY <1>0, <2>1, ArrivesTyped DEF Drifted
    <3>2. Total \in Sums(n + 1) /\ tx \in Sums(n + 1) /\ n + 1 \in Nat
      BY <2>2, AddTyped DEF Total, Sums
    <3>3. Excess' = Excess + v - w /\ Excess' \in Excesses
      BY <1>0, <2>1, ArrivesTyped
    <3>4. Drift(Add(Total, v), Add(tx, w), Excess + v - w)
      BY <1>0, <3>1, <3>2, <3>3, DriftGrows
    <3> QED BY <2>1, <2>5, <3>3, <3>4 DEF Arrives
  <2>7. check' = -1 /\ plain' = plain
    BY <1>0, <2>1, ArrivesTyped
  <2> QED BY <2>4, <2>6, <2>7 DEF IInv, Drifted
<1>3. ASSUME NEW w \in Values, NEW v \in Values, NEW full \in BOOLEAN,
             DataWord(w, v, full)
      PROVE  IInv'
  <2>1. /\ Arrives(w, v) /\ of = "udp" /\ din' = v /\ data' = TRUE
        /\ rx' = Add(rx, IF full THEN v ELSE din) /\ plain' = (plain /\ ~full)
    BY <1>3 DEF DataWord
  <2>2. rx \in Sums(n) /\ din \in Values /\ tx \in Sums(n) /\ n \in Nat /\ n' = n + 1
    BY <1>0, <2>1, ArrivesTyped DEF Types
  <2>3. rx' \in Sums(n') /\ n' \in Nat
    BY <2>1, <2>2, AddTyped
  <2>4. plain' \in BOOLEAN /\ data' \in BOOLEAN
    BY <2>1
  <2>5. Types'
    BY <1>0, <2>1, <2>3, <2>4, ArrivesTyped DEF Types, Sums
  <2>6. ~full => Total' = Add(Total, v)
    BY <1>0, <2>1, <2>2, ArrivesTyped DEF Total
  <2>7. plain' => Drift(Total', tx', Excess')
    <3> HAVE plain'
    <3>0. plain /\ ~full
      BY <2>1
    <3>1. Drift(Total, tx, Excess)
      BY <1>0, <2>1, <3>0, ArrivesTyped DEF Drifted
    <3>2. Total \in Sums(n + 1) /\ tx \in Sums(n + 1) /\ n + 1 \in Nat
      BY <2>2, AddTyped DEF Total, Sums
    <3>3. Excess' = Excess + v - w /\ Excess' \in Excesses
      BY <1>0, <2>1, ArrivesTyped
    <3>4. Drift(Add(Total, v), Add(tx, w), Excess + v - w)
      BY <1>0, <3>1, <3>2, <3>3, DriftGrows
    <3> QED BY <2>1, <2>6, <3>0, <3>3, <3>4 DEF Arrives
  <2>8. check' = -1
    BY <1>0, <2>1, ArrivesTyped
  <2> QED BY <2>5, <2>7, <2>8 DEF IInv, Drifted
<1>4. ASSUME NEW padded \in BOOLEAN, WriteCheckSum(padded) PROVE IInv'
  <2> DEFINE last == IF of = "udp" /\ ~padded THEN Add(rx, din) ELSE rx
  <2>1. /\ check = -1 /\ check' = Not(Fold(tx)) /\ rx' = Add(last, Not(Fold(tx)))
        /\ plain' = (plain /\ (of = "udp" => ~padded))
        /\ UNCHANGED <<of, tx, mac, din, data, n, damage>>
    BY <1>4 DEF WriteCheckSum
  <2>2. /\ n \in Nat /\ tx \in Sums(n) /\ tx \in Sums(MaxWords)
        /\ rx \in Sums(n) /\ din \in Values
    BY <1>0, <2>1, WidthAssumption DEF Types, Sums
  <2>3. last \in Sums(n + 1)
    BY <2>2, AddTyped DEF Sums
  <2>4. check' \in Values /\ check' # -1
    BY <2>1, <2>2, CheckTyped DEF Values
  <2>5. Add(last, check') \in Sums(n + 1 + 1) /\ n + 1 + 1 = n + 2
    BY <2>2, <2>3, <2>4, AddTyped
  <2>6. plain' \in BOOLEAN
    BY <2>1
  <2>7. Types'
    BY <1>0, <2>1, <2>4, <2>5, <2>6 DEF Types
  <2>8. plain' => Settled(rx'.hi + rx'.lo, Excess')
    <3> HAVE plain'
    <3>1. plain /\ last = Total
      BY <1>0, <2>1 DEF Types, Total
    <3>2. Drift(last, tx, Excess)
      BY <1>0, <2>1, <3>1 DEF Drifted
    <3>3. last \in Sums(MaxWords + 1)
      BY <1>0, <2>3, WidthAssumption DEF Types, Sums
    <3>4. Excess' = Excess
      BY <2>1 DEF Excess
    <3> HIDE DEF last
    <3> QED BY <1>0, <2>1, <2>2, <3>2, <3>3, <3>4, DriftSettles
  <2> QED BY <2>4, <2>7, <2>8 DEF IInv, Drifted
<1> QED BY <1>1, <1>2, <1>3, <1>4 DEF Next

\* The invariant holds in every state.
LEMMA Invariant == Spec => []IInv
BY InitIInv, NextIInv, PTL DEF Spec

(* The registers keep their widths: the low half is a word, and the        *)
(* checksum written is one (CheckSum in tx_data2buf, lines 1340-1352).     *)
THEOREM TypeCorrect == Spec => []TypeOK
<1>1. IInv => TypeOK
  BY WidthAssumption DEF IInv, Types, TypeOK, Sums
<1> QED BY <1>1, Invariant, PTL

\* The test fails unless the halves of the sum are complementary.
LEMMA TestOfSum ==
  ASSUME Types PROVE Fails(rx) <=> rx.hi + rx.lo # Radix - 1
<1>1. rx.hi \in 0 .. n + 2 /\ rx.lo \in 0 .. Radix - 1 /\ n \in 0 .. MaxWords
  BY DEF Types, Sums, Values
<1> DEFINE S == rx.hi + rx.lo
<1>2. Radix \in Nat /\ S \in Nat /\ S <= 2 * Radix - 2
  BY <1>1, WidthAssumption
<1>3. Fails(rx) <=> (Radix - 1 - (IF S < Radix THEN S ELSE S - Radix)) # 0
  BY DEF Fails, Remainder, Not
<1> HIDE DEF S
<1>4. Fails(rx) <=> S # Radix - 1
  BY <1>2, <1>3
<1> QED BY <1>4 DEF S

(* An IP header that arrives as tx_data2buf sent it passes the test of     *)
(* rx_buf2data, whatever its words are (ErrorVector(1)), and so does a     *)
(* datagram when nothing is left of the MAC word of line 820.              *)
THEOREM OwnAlwaysAccepted == Spec => []OwnAccepted
<1>1. IInv => OwnAccepted
  BY TestOfSum DEF IInv, OwnAccepted, Drifted, Settled
<1> QED BY <1>1, Invariant, PTL

(* Every other sum fails the receiver's test, although it drops a carry,   *)
(* but for an excess of all ones: a damaged IP header is noticed, and an   *)
(* intact datagram is called damaged for its MAC word (lines 715, 820).    *)
THEOREM ExcessAlwaysSeen == Spec => []ExcessSeen
<1>1. IInv => ExcessSeen
  <2> SUFFICES ASSUME IInv, check # -1, plain,
                      Excess \notin {1 - Radix, 0, Radix - 1, 2 * Radix - 2}
               PROVE  Fails(rx)
    BY DEF ExcessSeen
  <2>1. Types /\ Settled(rx.hi + rx.lo, Excess) /\ Excess \in Int
    BY ExcessTyped, WidthAssumption DEF IInv, Drifted, Excesses
  <2>2. rx.hi + rx.lo # Radix - 1
    BY <2>1, WidthAssumption DEF Settled
  <2> QED BY <2>1, <2>2, TestOfSum
<1> QED BY <1>1, Invariant, PTL
=============================================================================
