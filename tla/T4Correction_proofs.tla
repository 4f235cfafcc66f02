------------------------ MODULE T4Correction_proofs ------------------------
(***************************************************************************)
(* The normalisation of t4 is right for every radix, raw stamp and bit     *)
(* slide.  The argument is one inductive invariant, IInv: each loop leaves *)
(* its own bound behind (Progress), and no iteration changes the value in  *)
(* picoseconds (ValuePreserved).                                           *)
(***************************************************************************)
EXTENDS T4Correction, TLAPS

\* One unit of the middle column is PsPerNs of the right one, one unit of the
\* left column is NsPerSec of the middle one: the ring identities behind
\* the four loop bodies of ts_sub and ts_add.
LEMMA NanosecondIdentity ==
  \A x, P \in Int : x * P \in Int /\ (x - 1) * P = x * P - P /\ (x + 1) * P = x * P + P
  OBVIOUS

LEMMA SecondIdentity ==
  \A s, n, N \in Int : /\ (s - 1) * N + (n + N) = s * N + n
                       /\ (s + 1) * N + (n - N) = s * N + n
  OBVIOUS

LEMMA InitIInv == Init => IInv
<1> SUFFICES ASSUME Init PROVE IInv
  OBVIOUS
<1>1. raw \in Times /\ bts \in Int
  BY InputAssumption DEF Init
<1>2. c = [sec |-> raw.sec, ns |-> raw.ns, ph |-> raw.ph - bts]
  BY <1>1 DEF Init, Times
<1>3. TypeOK
  BY <1>1, <1>2 DEF Init, TypeOK, Times, Loops
<1>4. Progress
  BY DEF Init, Progress
<1>5. ValuePreserved
  <2>1. (raw.sec * NsPerSec + raw.ns) * PsPerNs \in Int
    BY <1>1, RadixAssumption DEF Times
  <2> QED BY <1>1, <1>2, <2>1 DEF ValuePreserved, Total, Times
<1> QED BY <1>3, <1>4, <1>5 DEF IInv

LEMMA NextIInv == IInv /\ [Next]_vars => IInv'
<1> SUFFICES ASSUME IInv, [Next]_vars PROVE IInv'
  OBVIOUS
<1> USE RadixAssumption
<1>t. /\ raw \in Times /\ bts \in Int /\ c \in Times
      /\ c.sec \in Int /\ c.ns \in Int /\ c.ph \in Int
      /\ NsPerSec \in Int /\ PsPerNs \in Int
  BY DEF IInv, TypeOK, Times
<1>1. CASE BorrowNs
  <2>1. c' = [sec |-> c.sec, ns |-> c.ns - 1, ph |-> c.ph + PsPerNs]
    BY <1>1, <1>t DEF BorrowNs, Times
  <2>2. TypeOK'
    BY <1>1, <2>1, <1>t DEF IInv, BorrowNs, TypeOK, Times
  <2>3. Progress'
    BY <1>1, <2>1 DEF IInv, Progress, BorrowNs
  <2>4. Total(c)' = Total(c)
    <3> DEFINE x == c.sec * NsPerSec + c.ns
    <3>1. x \in Int /\ c'.sec * NsPerSec + c'.ns = x - 1
      BY <1>t, <2>1
    <3>2. Total(c) = x * PsPerNs + c.ph /\ Total(c)' = (x - 1) * PsPerNs + (c.ph + PsPerNs)
      BY <2>1, <3>1 DEF Total
    <3> HIDE DEF x
    <3> QED BY <1>t, <3>1, <3>2, NanosecondIdentity
  <2> QED BY <1>1, <2>2, <2>3, <2>4 DEF IInv, ValuePreserved, BorrowNs, Total
<1>2. CASE BorrowSec
  <2>1. c' = [sec |-> c.sec - 1, ns |-> c.ns + NsPerSec, ph |-> c.ph]
    BY <1>2, <1>t DEF BorrowSec, Times
  <2>2. TypeOK'
    BY <1>2, <2>1, <1>t DEF IInv, BorrowSec, TypeOK, Times
  <2>3. Progress'
    BY <1>2, <2>1 DEF IInv, Progress, BorrowSec
  <2>4. Total(c)' = Total(c)
    <3>1. ((c.sec - 1) * NsPerSec + (c.ns + NsPerSec)) * PsPerNs + c.ph
            = (c.sec * NsPerSec + c.ns) * PsPerNs + c.ph
      BY <1>t, SecondIdentity
    <3> QED BY <2>1, <3>1 DEF Total
  <2> QED BY <1>2, <2>2, <2>3, <2>4 DEF IInv, ValuePreserved, BorrowSec, Total
<1>3. CASE CarryNs
  <2>1. c' = [sec |-> c.sec, ns |-> c.ns + 1, ph |-> c.ph - PsPerNs]
    BY <1>3, <1>t DEF CarryNs, Times
  <2>2. TypeOK'
    BY <1>3, <2>1, <1>t DEF IInv, CarryNs, TypeOK, Times
  <2>3. Progress'
    BY <1>3, <2>1, <1>t DEF IInv, Progress, CarryNs
  <2>4. Total(c)' = Total(c)
    <3> DEFINE x == c.sec * NsPerSec + c.ns
    <3>1. x \in Int /\ c'.sec * NsPerSec + c'.ns = x + 1
      BY <1>t, <2>1
    <3>2. Total(c) = x * PsPerNs + c.ph /\ Total(c)' = (x + 1) * PsPerNs + (c.ph - PsPerNs)
      BY <2>1, <3>1 DEF Total
    <3> HIDE DEF x
    <3> QED BY <1>t, <3>1, <3>2, NanosecondIdentity
  <2> QED BY <1>3, <2>2, <2>3, <2>4 DEF IInv, ValuePreserved, CarryNs, Total
<1>4. CASE CarrySec
  <2>1. c' = [sec |-> c.sec + 1, ns |-> c.ns - NsPerSec, ph |-> c.ph]
    BY <1>4, <1>t DEF CarrySec, Times
  <2>2. TypeOK'
    BY <1>4, <2>1, <1>t DEF IInv, CarrySec, TypeOK, Times
  <2>3. Progress'
    BY <1>4, <2>1, <1>t DEF IInv, Progress, CarrySec
  <2>4. Total(c)' = Total(c)
    <3>1. ((c.sec + 1) * NsPerSec + (c.ns - NsPerSec)) * PsPerNs + c.ph
            = (c.sec * NsPerSec + c.ns) * PsPerNs + c.ph
      BY <1>t, SecondIdentity
    <3> QED BY <2>1, <3>1 DEF Total
  <2> QED BY <1>4, <2>2, <2>3, <2>4 DEF IInv, ValuePreserved, CarrySec, Total
<1>5. CASE LeaveLoop
  <2>1. \/ pc = "sub_ph" /\ c.ph >= 0 /\ pc' = "sub_ns"
        \/ pc = "sub_ns" /\ c.ns >= 0 /\ pc' = "add_ph"
        \/ pc = "add_ph" /\ c.ph < PsPerNs /\ pc' = "add_ns"
        \/ pc = "add_ns" /\ c.ns < NsPerSec /\ pc' = "printed"
    BY <1>5 DEF LeaveLoop, LoopDone, NextLoop
  <2>2. UNCHANGED <<raw, bts, c>>
    BY <1>5 DEF LeaveLoop
  <2>3. TypeOK'
    BY <2>1, <2>2 DEF IInv, TypeOK, Loops
  <2>4. Progress'
    BY <2>1, <2>2 DEF IInv, Progress
  <2> QED BY <2>2, <2>3, <2>4 DEF IInv, ValuePreserved, Total
<1>6. CASE UNCHANGED vars
  BY <1>6 DEF vars, IInv, TypeOK, Progress, ValuePreserved, Total
<1> QED BY <1>1, <1>2, <1>3, <1>4, <1>5, <1>6 DEF Next

\* The inductive invariant holds in every state of the receive path.
THEOREM InductiveInvariant == Spec => []IInv
  BY InitIInv, NextIInv, PTL DEF Spec

\* Types of wrpc_net_recv's locals, for all radixes and inputs.
THEOREM TypeCorrect == Spec => []TypeOK
<1>1. IInv => TypeOK
  BY DEF IInv
<1> QED BY InductiveInvariant, <1>1, PTL

\* wrpc-socket.c:114-118: whatever the raw stamp and the bit slide, the t4
\* that is printed has its phase below 1 ns and its nanoseconds below 1 s.
THEOREM T4Normalised == Spec => []PrintedNormalised
<1>1. IInv => PrintedNormalised
  BY RadixAssumption DEF IInv, TypeOK, Progress, PrintedNormalised, Times
<1> QED BY InductiveInvariant, <1>1, PTL

\* wrpc-socket.c:13-49: ts_sub and ts_add neither lose nor gain time.
THEOREM T4Exact == Spec => []ValuePreserved
<1>1. IInv => ValuePreserved
  BY DEF IInv
<1> QED BY InductiveInvariant, <1>1, PTL
=============================================================================
