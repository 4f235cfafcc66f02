------------------------------ MODULE Checksum ------------------------------
(***************************************************************************)
(* The Internet checksums of the IP multiplexer (ipmux.vhd): tx_data2buf   *)
(* sums words in a double-width register, folds it with the carry brought  *)
(* around and writes its complement; rx_buf2data sums the words it reads,  *)
(* adds the halves without bringing the carry around and expects zero      *)
(* after complementing.  The sums of an IP header see the same words.  The *)
(* receiver adds the payload of a UDP datagram from Din, which is a word   *)
(* behind: the first addition is of the first word of the frame, its       *)
(* destination MAC address.  A behaviour is one sum; the order of its      *)
(* words does not matter, and the checksum comes last.                     *)
(***************************************************************************)
EXTENDS Integers

CONSTANTS Radix,     \* 2**16, the values of a word
          MaxWords   \* bound on the words of a sum, the checksum not counted

\* Even a jumbo frame has far fewer words than a word has values.
ASSUME WidthAssumption ==
  Radix \in Nat /\ MaxWords \in Nat /\ MaxWords + 3 <= Radix

VARIABLES
  of,      \* "ip": the sum of an IP header; "udp": of a UDP datagram
  tx,      \* CheckSum of tx_data2buf, as its two halves
  rx,      \* IP_CheckSum or UDP_CheckSum of rx_buf2data
  mac,     \* the first word of the frame, at Offset 0
  din,     \* Din of rx_buf2data, the word fetched at the previous edge
  data,    \* the payload has begun
  n,       \* words summed so far
  check,   \* the checksum written, -1 before
  damage,  \* by how much a word arrived larger than it was sent
  plain    \* history: no stall in the payload and no padding behind it

vars == <<of, tx, rx, mac, din, data, n, check, damage, plain>>

Values == 0 .. Radix - 1

\* Offset is 0 when the headers have been read (lines 720 and 763).
Init ==
  /\ of \in {"ip", "udp"} /\ mac \in Values /\ din = mac
  /\ tx = [hi |-> 0, lo |-> 0] /\ rx = [hi |-> 0, lo |-> 0]
  /\ data = FALSE /\ n = 0 /\ check = -1 /\ damage = 0 /\ plain = TRUE

Add(s, w) ==
  IF s.lo + w < Radix THEN [hi |-> s.hi, lo |-> s.lo + w]
  ELSE [hi |-> s.hi + 1, lo |-> s.lo + w - Radix]

Not(w) == Radix - 1 - w

\* Slip: the overflow bit of the first addition is forgotten.
Fold_nocarry(s) ==
  LET sum == s.hi + s.lo IN IF sum < Radix THEN sum ELSE sum - Radix

\* Two additions: the second adds the overflow bit of the first.
Fold(s) ==
  LET sum == s.hi + s.lo IN IF sum < Radix THEN sum ELSE sum - Radix + 1

\* What the receiver makes of its sum: an addition of one word's width.
Remainder(s) ==
  LET sum == s.hi + s.lo IN Not(IF sum < Radix THEN sum ELSE sum - Radix)

\* Slip: a sum of zero is taken for a checksum that was not calculated.
Fails_unlessZero(s) == Remainder(s) # 0 /\ Remainder(s) # Not(0)

Fails(s) == Remainder(s) # 0

-----------------------------------------------------------------------------

\* The word w arrives as v: one word of a packet may be damaged.
Arrives(w, v) ==
  /\ check = -1 /\ n < MaxWords /\ n' = n + 1
  /\ v # w => damage = 0
  /\ damage' = damage + v - w
  /\ tx' = Add(tx, w)
  /\ UNCHANGED <<of, mac, check>>

\* A word of the IP header, or of the UDP header and its pseudo header.
HeaderWord(w, v) ==
  /\ ~data
  /\ Arrives(w, v)
  /\ rx' = Add(rx, v)
  /\ UNCHANGED <<din, data, plain>>

\* The receiver counts the payload word v and adds Din, which is the word
\* before v, or v itself when Full has held it up for an edge or more.
DataWord(w, v, full) ==
  /\ of = "udp"
  /\ Arrives(w, v)
  /\ rx' = Add(rx, IF full THEN v ELSE din)
  /\ din' = v /\ data' = TRUE
  /\ plain' = (plain /\ ~full)

\* The last payload word is added at the end of the frame if it is written
\* to the stream at that edge, which it is not when padding follows it.
WriteCheckSum(padded) ==
  /\ check = -1 /\ (of = "udp" => data)
  /\ check' = Not(Fold(tx))
  /\ rx' = Add(IF of = "udp" /\ ~padded THEN Add(rx, din) ELSE rx, check')
  /\ plain' = (plain /\ (of = "udp" => ~padded))
  /\ UNCHANGED <<of, tx, mac, din, data, n, damage>>

Next ==
  \/ \E w, v \in Values : HeaderWord(w, v)
  \/ \E w, v \in Values, full \in BOOLEAN : DataWord(w, v, full)
  \/ \E padded \in BOOLEAN : WriteCheckSum(padded)

Spec == Init /\ [][Next]_vars

-----------------------------------------------------------------------------

TypeOK ==
  /\ of \in {"ip", "udp"} /\ mac \in Values /\ din \in Values
  /\ tx \in [hi : Nat, lo : Values] /\ rx \in [hi : Nat, lo : Values]
  /\ n \in 0 .. MaxWords /\ check \in Values \cup {-1} /\ damage \in Int
  /\ data \in BOOLEAN /\ plain \in BOOLEAN

\* By how much the receiver's words exceed the transmitter's.
Excess == damage + (IF of = "udp" THEN mac ELSE 0)

(* ErrorVector(1) and UDP_CheckSumErr: what the transmitter completes      *)
(* passes the receiver's test, although the receiver drops the carry that  *)
(* the transmitter brings around (lines 715, 838 and 1347-1351).  That is  *)
(* every IP header that arrives as it was sent; of the datagrams only      *)
(* those that the MAC word added at line 820 leaves as they are: because   *)
(* it is zero, or because damage makes up for it.                          *)
OwnAccepted == check # -1 /\ plain /\ Excess = 0 => ~Fails(rx)

(* Any other sum fails the test, but for an excess of all ones, which no   *)
(* such sum can tell from zero: the receiver notices every other damaged   *)
(* word of an IP header, and it signals an error for every intact datagram *)
(* to a MAC address that does not begin with zeros or ones (line 820).     *)
ExcessSeen ==
  check # -1 /\ plain /\ Excess \notin {1 - Radix, 0, Radix - 1, 2 * Radix - 2}
    => Fails(rx)
=============================================================================
