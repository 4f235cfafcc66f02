-------------------------- MODULE TxBuffers_proofs --------------------------
(***************************************************************************)
(* The transmit path for any number of streams, any sizes and any packets. *)
(* Of the streams: none is starved (TurnInv), none loses a packet unless   *)
(* the CPU comes between the state machines (HandsInv), and one is read    *)
(* only when its packet is whole (StreamInv).  Of the buffer: what is      *)
(* stored is the frame that is due, word by word (StoreInv), the frames    *)
(* lie one behind the other (QueueInv), and the reader is at its place in  *)
(* the first (ReadInv), from which the path implements FrameStream.        *)
(***************************************************************************)
EXTENDS TxBuffers, SequenceTheorems, TLAPS

INSTANCE Ring_proofs

-----------------------------------------------------------------------------
(* Round robin.                                                            *)

SelTypes ==
  /\ sel.at \in {"Idle", "SearchConnect", "State_Connected", "ReadUntilEOP"}
  /\ sel.ptr \in Streams
  /\ eods \in [Streams -> Nat]
  /\ passed \in [Streams -> Nat]

\* The packet of a stream is taken off the count after it was connected.
PopInv == sel.pop => sel.at = "State_Connected" /\ passed[sel.ptr] = 0

\* A stream is passed over only while it has a packet.
Waiting(s) == passed[s] > 0 => eods[s] > 0

\* Streams that may be connected before s: those from the pointer on while
\* the search looks at it, and those behind it otherwise.
Before(s) ==
  LET next == IF sel.at = "SearchConnect" THEN s - sel.ptr ELSE s - sel.ptr - 1
  IN IF next < 0 THEN next + Ports ELSE next

Turn(s) == passed[s] + Before(s) < Ports

TurnInv == SelTypes /\ PopInv /\ \A s \in Streams : Waiting(s) /\ Turn(s)

\* ipmux.vhd:106-177: what one edge does to the pointer, the count of packets
\* and the streams passed over.
LEMMA EveryEdgeSelects ==
  ASSUME NEW ws, NEW stall, Edge(ws, stall)
  PROVE  TxStreamSel /\ TxFifos(ws) /\ History(stall)
  BY DEF Edge, CpuRests, CpuAsks, CpuWrites, CpuReleases, Clock

\* The count of a stream only falls when its packet was connected.
LEMMA CountFalls ==
  ASSUME TurnInv, NEW ws, TxFifos(ws)
  PROVE  /\ eods' \in [Streams -> Nat]
         /\ \A s \in Streams : eods'[s] >= eods[s] \/ (sel.pop /\ s = sel.ptr)
<1>1. ASSUME NEW s \in Streams
      PROVE  eods'[s] \in Nat /\ (eods'[s] >= eods[s] \/ (sel.pop /\ s = sel.ptr))
  <2>1. eods'[s] = eods[s] - (IF sel.pop /\ s = sel.ptr /\ Packet(s) THEN 1 ELSE 0)
                           + (IF s \in ws /\ WrReqEod(s) THEN 1 ELSE 0)
    BY DEF TxFifos
  <2>2. eods[s] \in Nat
    BY DEF TurnInv, SelTypes
  <2> QED BY <2>1, <2>2 DEF Packet
<1> QED BY <1>1 DEF TxFifos

LEMMA TurnStep ==
  ASSUME TurnInv, NEW ws, NEW stall, Edge(ws, stall)
  PROVE  TurnInv'
<1> USE SizesAssumption DEF Streams
<1>1. TxStreamSel /\ TxFifos(ws) /\ History(stall)
  BY EveryEdgeSelects
<1>2. /\ eods' \in [Streams -> Nat]
      /\ \A s \in Streams : eods'[s] >= eods[s] \/ (sel.pop /\ s = sel.ptr)
  BY <1>1, CountFalls
<1>3. NextPort \in Streams
  BY DEF TurnInv, SelTypes, NextPort
<1>4. CASE Found
  <2>1. /\ sel.at = "SearchConnect" /\ sel'.at = "State_Connected"
        /\ sel'.ptr = sel.ptr /\ sel'.pop = TRUE
    BY <1>4 DEF Found, Select
  <2>2. passed' = [s \in Streams |-> IF s = sel.ptr \/ ~Packet(s) THEN 0 ELSE passed[s] + 1]
    BY <1>1, <1>4 DEF History, Found
  <2>3. SelTypes' /\ PopInv'
    <3>1. sel.ptr \in Streams /\ \A s \in Streams : passed[s] \in Nat
      BY DEF TurnInv, SelTypes
    <3>2. passed' \in [Streams -> Nat]
      BY <2>2, <3>1
    <3>3. passed'[sel.ptr] = 0
      BY <2>2, <3>1
    <3>4. SelTypes'
      BY <1>2, <2>1, <3>1, <3>2 DEF SelTypes
    <3> QED BY <2>1, <3>3, <3>4 DEF PopInv
  <2>4. ASSUME NEW s \in Streams PROVE Waiting(s)' /\ Turn(s)'
    <3>1. eods'[s] >= eods[s] /\ eods[s] \in Nat /\ eods'[s] \in Nat /\ passed[s] \in Nat
      BY <1>2, <2>1 DEF TurnInv, SelTypes, PopInv
    <3>2. Waiting(s)'
      BY <2>2, <3>1 DEF Waiting, Packet
    <3>3. Turn(s)
      BY DEF TurnInv
    <3>4. Before(s) = (IF s - sel.ptr < 0 THEN s - sel.ptr + Ports ELSE s - sel.ptr)
      BY <2>1 DEF Before
    <3>5. Before(s)' = IF s - sel.ptr - 1 < 0 THEN s - sel.ptr - 1 + Ports ELSE s - sel.ptr - 1
      BY <2>1 DEF Before
    <3>6. passed'[s] = 0 \/ (s # sel.ptr /\ passed'[s] = passed[s] + 1)
      BY <2>2
    <3>7. sel.ptr \in 0 .. Ports - 1 /\ Ports \in Nat
      BY DEF TurnInv, SelTypes
    <3>8. passed'[s] + Before(s)' < Ports
      BY <3>1, <3>3, <3>4, <3>5, <3>6, <3>7 DEF Turn
    <3> QED BY <3>2, <3>8 DEF Turn
  <2> QED BY <2>3, <2>4 DEF TurnInv
<1>5. CASE Search \/ SearchOn
  <2>1. /\ sel.at \in {"Idle", "SearchConnect"} /\ sel'.at = "SearchConnect"
        /\ sel'.ptr = NextPort /\ sel'.pop = sel.pop
        /\ sel.at = "SearchConnect" => ~Packet(sel.ptr)
    BY <1>5 DEF Search, SearchOn, Select
  <2>2. passed' = passed /\ ~sel.pop
    BY <1>1, <2>1 DEF History, TurnInv, PopInv
  <2>3. SelTypes' /\ PopInv'
    BY <1>2, <1>3, <2>1, <2>2 DEF TurnInv, SelTypes, PopInv
  <2>4. ASSUME NEW s \in Streams PROVE Waiting(s)' /\ Turn(s)'
    <3>1. eods'[s] >= eods[s] /\ eods[s] \in Nat /\ eods'[s] \in Nat /\ passed[s] \in Nat
      BY <1>2, <2>2 DEF TurnInv, SelTypes
    <3>2. Waiting(s) /\ Turn(s)
      BY DEF TurnInv
    <3>3. sel.at = "SearchConnect" /\ s = sel.ptr => passed[s] = 0
      BY <2>1, <3>1, <3>2 DEF Waiting, Packet
    <3>4. Waiting(s)'
      BY <2>2, <3>1, <3>2 DEF Waiting
    <3>5. sel.ptr \in 0 .. Ports - 1 /\ Ports \in Nat
      BY DEF TurnInv, SelTypes
    <3>6. Before(s)' = IF s - NextPort < 0 THEN s - NextPort + Ports ELSE s - NextPort
      BY <2>1 DEF Before
    <3>7. CASE sel.at = "SearchConnect"
      <4>1. Before(s) = IF s - sel.ptr < 0 THEN s - sel.ptr + Ports ELSE s - sel.ptr
        BY <3>7 DEF Before
      <4>2. s = sel.ptr \/ Before(s)' < Before(s)
        BY <3>5, <3>6, <4>1 DEF NextPort
      <4>3. Before(s)' < Ports /\ Before(s)' \in Int /\ Before(s) \in Int
        BY <3>5, <3>6, <4>1 DEF NextPort
      <4>4. passed[s] + Before(s)' < Ports
        BY <3>1, <3>2, <3>3, <3>5, <3>7, <4>2, <4>3 DEF Turn
      <4> QED BY <2>2, <3>4, <4>4 DEF Turn
    <3>8. CASE sel.at # "SearchConnect"
      <4>1. Before(s) = IF s - sel.ptr - 1 < 0 THEN s - sel.ptr - 1 + Ports ELSE s - sel.ptr - 1
        BY <3>8 DEF Before
      <4>2. Before(s)' = Before(s)
        BY <3>5, <3>6, <4>1 DEF NextPort
      <4> QED BY <2>2, <3>2, <3>4, <4>2 DEF Turn
    <3> QED BY <3>7, <3>8
  <2> QED BY <2>3, <2>4 DEF TurnInv
<1>6. CASE NoSearch \/ Handshake \/ NoHandshake \/ Reading
  <2>1. /\ sel.at # "SearchConnect" /\ sel'.at # "SearchConnect" /\ sel'.ptr = sel.ptr
        /\ sel'.at \in {"Idle", "State_Connected", "ReadUntilEOP"}
        /\ sel'.pop => sel.pop /\ sel.at # "State_Connected"
    BY <1>6 DEF NoSearch, Handshake, NoHandshake, Reading, Select
  <2>2. passed' = passed /\ ~sel'.pop
    BY <1>1, <2>1 DEF History, TurnInv, PopInv
  <2>3. SelTypes' /\ PopInv'
    BY <1>2, <2>1, <2>2 DEF TurnInv, SelTypes, PopInv
  <2>4. ASSUME NEW s \in Streams PROVE Waiting(s)' /\ Turn(s)'
    <3>1. /\ eods[s] \in Nat /\ eods'[s] \in Nat /\ passed[s] \in Nat
          /\ eods'[s] >= eods[s] \/ passed[s] = 0
      BY <1>2 DEF TurnInv, SelTypes, PopInv
    <3>2. Waiting(s) /\ Turn(s)
      BY DEF TurnInv
    <3>3. Waiting(s)'
      BY <2>2, <3>1, <3>2 DEF Waiting
    <3> QED BY <2>1, <2>2, <3>2, <3>3 DEF Turn, Before
  <2> QED BY <2>3, <2>4 DEF TurnInv
<1> QED BY <1>1, <1>4, <1>5, <1>6 DEF TxStreamSel

LEMMA TurnInvariant == Spec => []TurnInv
<1>1. Init => TurnInv
  BY SizesAssumption DEF Init, TurnInv, SelTypes, PopInv, Waiting, Turn, Before, Streams
<1>2. TurnInv /\ [Next]_vars => TurnInv'
  <2> SUFFICES ASSUME TurnInv, [Next]_vars PROVE TurnInv'
    OBVIOUS
  <2>1. CASE Next
    BY <2>1, TurnStep DEF Next
  <2>2. CASE UNCHANGED vars
    BY <2>2 DEF vars, TurnInv, SelTypes, PopInv, Waiting, Turn, Before
  <2> QED BY <2>1, <2>2
<1> QED BY <1>1, <1>2, PTL DEF Spec

\* ipmux.vhd:115-177: with any number of streams, whatever they write and
\* whenever the CPU takes the buffer, a stream that has a packet is connected
\* after every other was connected once at most.
THEOREM NoneIsStarved == Spec => []RoundRobin
<1>1. TurnInv => RoundRobin
  <2> SUFFICES ASSUME TurnInv, NEW s \in Streams PROVE passed[s] < Ports
    BY DEF RoundRobin
  <2>1. Turn(s) /\ passed[s] \in Nat /\ sel.ptr \in 0 .. Ports - 1 /\ s \in 0 .. Ports - 1
    BY DEF TurnInv, SelTypes, Streams
  <2> QED BY <2>1, SizesAssumption DEF Turn, Before
<1> QED BY <1>1, TurnInvariant, PTL

-----------------------------------------------------------------------------
(* The handshake between TxStreamSel and tx_data2buf.                      *)

\* The CPU has not asked for the buffer yet.
Away == cpu = "off" /\ put[CPU].n = 0

\* Asking once is on record: the request ends with a packet written.
CpuInv ==
  /\ cpu \in {"off", "asks", "done"}
  /\ put \in [Sources -> [n : Nat, i : Nat]]
  /\ cpu = "done" => put[CPU].n # 0

\* Connected is up only in the state that waits for the answer, and until
\* then tx_data2buf does not leave Idle.
Hands ==
  /\ {"at", "connectReq"} \subseteq DOMAIN d
  /\ d.connectReq <=> d.at = "Idle"
  /\ d.at # "AccessByCPU"
  /\ sel.connected => sel.at = "State_Connected"
  /\ sel.at = "SearchConnect" => d.at = "Idle"
  /\ sel.at = "State_Connected" => d.at \in {"Idle", "More_Data"}

HandsInv == CpuInv /\ (Away => Hands /\ lost = {})

LEMMA CpuStep ==
  ASSUME CpuInv, NEW ws \in SUBSET {s \in Streams : Left(s)}, NEW stall, Edge(ws, stall)
  PROVE  CpuInv' /\ (Away' => Away)
<1> USE SizesAssumption
<1>1. CPU \in Sources /\ CPU \notin ws
  BY DEF CPU, Sources, Streams
<1>2. ASSUME NEW ss, Put(ss)
      PROVE  /\ put' \in [Sources -> [n : Nat, i : Nat]]
             /\ CPU \notin ss => put'[CPU] = put[CPU]
             /\ CPU \in ss /\ NextWord(CPU).eop => put'[CPU].n = put[CPU].n + 1
  BY <1>1, <1>2 DEF Put, CpuInv
<1>3. put[CPU].n \in Nat
  BY <1>1 DEF CpuInv
<1>4. CASE CpuRests(ws, stall) \/ CpuAsks(ws, stall) \/ CpuReleases(ws, stall)
  <2>1. put' \in [Sources -> [n : Nat, i : Nat]] /\ put'[CPU] = put[CPU]
    BY <1>1, <1>2, <1>4 DEF CpuRests, CpuAsks, CpuReleases
  <2> QED BY <1>4, <2>1 DEF CpuRests, CpuAsks, CpuReleases, CpuInv, Away
<1>5. CASE CpuWrites(ws, stall)
  <2>1. Put(ws \cup {CPU}) /\ cpu = "asks"
        /\ cpu' = IF NextWord(CPU).eop THEN "done" ELSE cpu
    BY <1>5 DEF CpuWrites, Granted
  <2>2. put' \in [Sources -> [n : Nat, i : Nat]]
        /\ (NextWord(CPU).eop => put'[CPU].n = put[CPU].n + 1)
    BY <1>2, <2>1
  <2> QED BY <1>3, <2>1, <2>2 DEF CpuInv, Away
<1> QED BY <1>4, <1>5 DEF Edge

LEMMA HandsStep ==
  ASSUME Away, Hands, lost = {}, TxStreamSel, NEW bus, TxData2Buf(bus), NEW stall, History(stall)
  PROVE  Hands' /\ lost' = {}
<1>1. ~req
  BY DEF Away, req
<1>2. lost' = {}
  BY DEF History, Misread, Hands
<1>3. /\ {"at", "connectReq"} \subseteq DOMAIN d'
      /\ d'.connectReq <=> d'.at = "Idle"
      /\ d'.at # "AccessByCPU"
      /\ d.at = "Idle" => d'.at = IF sel.connected /\ ~BufFull THEN "More_Data" ELSE "Idle"
  <2>1. CASE Accept
    BY <2>1 DEF Hands, Accept, Follow
  <2>2. CASE NotReady
    BY <1>1, <2>2 DEF Hands, NotReady, Released
  <2>3. CASE MoreData
    BY <2>3 DEF Hands, MoreData, Follow
  <2>4. CASE LastData
    BY <2>4 DEF Hands, LastData, Header
  <2>5. CASE UdpHeader
    BY <2>5 DEF Hands, UdpHeader, Header
  <2>6. CASE IpHeader
    BY <2>6 DEF Hands, IpHeader, Header
  <2>7. CASE IpCheckSum \/ MacHeader
    BY <2>7 DEF Hands, IpCheckSum, MacHeader, Header
  <2>8. CASE Store
    BY <1>1, <2>8 DEF Hands, Store, Stores, Released
  <2>9. ~Grant(bus) /\ ~AccessByCPU(bus)
    BY <1>1 DEF Grant, AccessByCPU
  <2> QED BY <2>1, <2>2, <2>3, <2>4, <2>5, <2>6, <2>7, <2>8, <2>9 DEF TxData2Buf
<1>4. /\ sel'.connected => sel'.at = "State_Connected"
      /\ sel'.at = "SearchConnect" => d.at = "Idle" /\ ~sel.connected
      /\ sel'.at = "State_Connected" => d.at = "Idle"
  BY DEF Hands, TxStreamSel, Search, NoSearch, Found, SearchOn, Handshake, NoHandshake,
         Reading, Select
<1> QED BY <1>2, <1>3, <1>4 DEF Hands

LEMMA HandsInvariant == Spec => []HandsInv
<1>1. Init => HandsInv
  <2> SUFFICES ASSUME Init PROVE HandsInv
    OBVIOUS
  <2>1. CpuInv
    BY DEF Init, CpuInv
  <2>2. Hands /\ lost = {}
    BY DEF Init, Hands, Released
  <2> QED BY <2>1, <2>2 DEF HandsInv
<1>2. HandsInv /\ [Next]_vars => HandsInv'
  <2> SUFFICES ASSUME HandsInv, [Next]_vars PROVE HandsInv'
    OBVIOUS
  <2>1. ASSUME NEW ws \in SUBSET {s \in Streams : Left(s)}, NEW stall \in BOOLEAN, Edge(ws, stall)
        PROVE  HandsInv'
    <3>1. CpuInv' /\ (Away' => Away)
      BY <2>1, CpuStep DEF HandsInv
    <3>2. TxStreamSel /\ History(stall) /\ \E bus : TxData2Buf(bus)
      BY <2>1 DEF Edge, CpuRests, CpuAsks, CpuWrites, CpuReleases, Clock
    <3>3. Away' => Hands' /\ lost' = {}
      BY <3>1, <3>2, HandsStep DEF HandsInv
    <3> QED BY <3>1, <3>3 DEF HandsInv
  <2>2. CASE UNCHANGED vars
    BY <2>2 DEF vars, HandsInv, CpuInv, Away, Hands
  <2> QED BY <2>1, <2>2 DEF Next
<1> QED BY <1>1, <1>2, PTL DEF Spec

\* ipmux.vhd:134-173 against 1216-1319: without the CPU the handshake has no
\* gap, whatever the streams, the sizes and the fabric: a packet that is read
\* from its fifo is being stored.
THEOREM OnlyTheCpuLoses == Spec => []OnlyCpuLoses
<1>1. HandsInv => OnlyCpuLoses
  BY DEF HandsInv, Away, OnlyCpuLoses
<1> QED BY <1>1, HandsInvariant, PTL

-----------------------------------------------------------------------------
(* What a stream has waiting: the word in the output register of its fifo, *)
(* when it is valid, and those in the fifo behind it.                      *)

Kinds == {"none", "mac", "ip", "sum", "udp", "data"}

Words == [is : Kinds, src : Nat, n : Nat, len : Int, i : Nat, eop : BOOLEAN]

FifoTypes ==
  /\ fifo \in [Streams -> Seq(Words)]
  /\ out \in [Streams -> [word : Words, valid : BOOLEAN]]

Held(s) == Len(fifo[s]) + (IF out[s].valid THEN 1 ELSE 0)

HeldAt(s, k) ==
  IF ~out[s].valid THEN fifo[s][k] ELSE IF k = 1 THEN out[s].word ELSE fifo[s][k - 1]

\* Words that leave at an edge.
Gone(s) == IF RdReqOut(s) /\ out[s].valid THEN 1 ELSE 0

\* The place of the k-th word in the traffic of its stream: the number of
\* its packet and the position in it, of the word to be written at the end.
PlaceN(s, k) == IF k > Held(s) THEN put[s].n + 1 ELSE HeldAt(s, k).n
PlaceI(s, k) == IF k > Held(s) THEN put[s].i ELSE HeldAt(s, k).i

\* w is a word of a packet of s.
Carries(w, s) ==
  /\ w.n \in DOMAIN Packets[s] /\ w.i \in 0 .. Packets[s][w.n] - 1
  /\ w = DataWord(s, w.n, w.i)

\* The words come in order and without a gap.
InOrder(s, k) ==
  /\ Carries(HeldAt(s, k), s)
  /\ IF HeldAt(s, k).eop
     THEN PlaceN(s, k + 1) = HeldAt(s, k).n + 1 /\ PlaceI(s, k + 1) = 0
     ELSE PlaceN(s, k + 1) = HeldAt(s, k).n /\ PlaceI(s, k + 1) = HeldAt(s, k).i + 1

\* The last word of the packet n is there.
Ended(s, n) == \E k \in 1 .. Held(s) : HeldAt(s, k).eop /\ HeldAt(s, k).n = n

Traffic(s) ==
  /\ \A k \in 1 .. Held(s) : InOrder(s, k)
  /\ \A n \in PlaceN(s, 1) .. put[s].n : Ended(s, n)

\* A source is within a packet, or has no more.
Progress(s) ==
  /\ put[s].n <= Len(Packets[s])
  /\ IF put[s].n = Len(Packets[s]) THEN put[s].i = 0
     ELSE put[s].i < Packets[s][put[s].n + 1]

\* A word made of its fields is a word.
LEMMA WdTyped ==
  ASSUME NEW is \in Kinds, NEW src \in Nat, NEW n \in Nat, NEW len \in Int, NEW i \in Nat,
         NEW eop \in BOOLEAN
  PROVE  Wd(is, src, n, len, i, eop) \in Words
  BY DEF Wd, Words

\* The words that a source writes, and those that wait.
LEMMA WordTypes ==
  ASSUME NEW s \in Sources, CpuInv, Progress(s), put[s].n < Len(Packets[s])
  PROVE  /\ NextWord(s) \in Words
         /\ Carries(NextWord(s), s)
         /\ NextWord(s).n = put[s].n + 1 /\ NextWord(s).i = put[s].i
<1>1. put[s].n \in Nat /\ put[s].i \in Nat
  BY DEF CpuInv
<1>2. s \in Nat
  BY SizesAssumption DEF Sources
<1>3. Packets[s] \in Seq(1 .. MaxReserv)
  BY PacketsAssumption
<1>4. put[s].n + 1 \in DOMAIN Packets[s] /\ Packets[s][put[s].n + 1] \in Nat
  <2>1. DOMAIN Packets[s] = 1 .. Len(Packets[s]) /\ Len(Packets[s]) \in Nat
    BY <1>3
  <2>2. put[s].n + 1 \in 1 .. Len(Packets[s])
    BY <1>1, <2>1
  <2>3. Packets[s][put[s].n + 1] \in 1 .. MaxReserv
    BY <1>3, <2>2, ElementOfSeq
  <2> QED BY <2>1, <2>2, <2>3, SizesAssumption
<1>5. put[s].i < Packets[s][put[s].n + 1]
  <2>1. put[s].n # Len(Packets[s])
    BY <1>1, <1>3, LenProperties
  <2> QED BY <2>1 DEF Progress
<1>6. /\ NextWord(s).n = put[s].n + 1 /\ NextWord(s).i = put[s].i
      /\ NextWord(s) = DataWord(s, put[s].n + 1, put[s].i)
  BY DEF NextWord, DataWord, Wd
<1>7. NextWord(s) \in Words
  <2> DEFINE e == put[s].i + 1 = Packets[s][put[s].n + 1]
  <2>1. e \in BOOLEAN
    OBVIOUS
  <2> DEFINE a == put[s].n + 1
  <2>2. NextWord(s) = Wd("data", s, a, 0, put[s].i, e)
    BY DEF NextWord, DataWord
  <2>3. a \in Nat /\ 0 \in Int
    BY <1>1
  <2> HIDE DEF e, a
  <2>4. "data" \in Kinds /\ put[s].i \in Nat
    BY <1>1 DEF Kinds
  <2>5. Wd("data", s, a, 0, put[s].i, e) \in Words
    BY <1>2, <2>1, <2>3, <2>4, WdTyped, Zenon
  <2> QED BY <2>2, <2>5, Zenon
<1> QED BY <1>1, <1>4, <1>5, <1>6, <1>7 DEF Carries

\* ipmux.vhd:253-363: the words that wait move up, and a new one comes last.
LEMMA HeldStep ==
  ASSUME FifoTypes, NEW ws, TxFifos(ws), NEW s \in Streams,
         s \in ws => NextWord(s) \in Words
  PROVE  /\ fifo'[s] \in Seq(Words) /\ out'[s] \in [word : Words, valid : BOOLEAN]
         /\ Held(s) \in Nat /\ Gone(s) \in {0, 1} /\ Gone(s) <= Held(s)
         /\ Held(s)' = Held(s) - Gone(s) + (IF s \in ws THEN 1 ELSE 0)
         /\ \A k \in 1 .. Held(s) - Gone(s) : HeldAt(s, k)' = HeldAt(s, k + Gone(s))
         /\ \A k : s \in ws /\ k = Held(s) - Gone(s) + 1 => HeldAt(s, k)' = NextWord(s)
<1> DEFINE f == fifo[s]
           o == out[s]
           x == NextWord(s)
           new == IF s \in ws THEN <<x>> ELSE <<>>
           base == IF Pulled(s) THEN Tail(f) ELSE f
           g == fifo'[s]
           p == out'[s]
           rd == RdReqOut(s)
<1>1. f \in Seq(Words) /\ o \in [word : Words, valid : BOOLEAN]
  BY DEF FifoTypes
<1>2. g = base \o new
  BY DEF TxFifos
<1>3. p = [word  |-> IF Pulled(s) THEN Head(f) ELSE o.word,
           valid |-> f # <<>> \/ (o.valid /\ ~rd)]
  BY DEF TxFifos
<1>4. Pulled(s) <=> f # <<>> /\ (~o.valid \/ rd)
  BY DEF Pulled
<1>5. Len(f) \in Nat /\ (f = <<>> <=> Len(f) = 0)
  BY <1>1, EmptySeq, LenProperties
<1>6. f # <<>> => /\ Head(f) = f[1] /\ Head(f) \in Words /\ Tail(f) \in Seq(Words)
                  /\ Len(Tail(f)) = Len(f) - 1
                  /\ \A k \in 1 .. Len(f) - 1 : Tail(f)[k] = f[k + 1]
  BY <1>1, <1>5, HeadTailProperties, ElementOfSeq
<1>7. /\ base \in Seq(Words)
      /\ Len(base) = Len(f) - (IF Pulled(s) THEN 1 ELSE 0)
      /\ \A k \in 1 .. Len(base) : base[k] = IF Pulled(s) THEN f[k + 1] ELSE f[k]
  BY <1>1, <1>4, <1>5, <1>6
<1>8. new \in Seq(Words) /\ Len(new) = (IF s \in ws THEN 1 ELSE 0) /\ (s \in ws => new[1] = x)
  OBVIOUS
<1> HIDE DEF base, new
<1>9. /\ g \in Seq(Words) /\ Len(g) = Len(base) + Len(new)
      /\ \A k \in 1 .. Len(base) : g[k] = base[k]
      /\ s \in ws => g[Len(base) + 1] = x
  <2>1. Len(base) \in Nat /\ Len(new) \in Nat
    BY <1>7, <1>8, LenProperties
  <2>2. /\ g \in Seq(Words) /\ Len(g) = Len(base) + Len(new)
        /\ \A k \in 1 .. Len(base) + Len(new) :
             g[k] = IF k <= Len(base) THEN base[k] ELSE new[k - Len(base)]
    <3>1. base \in Seq(Words) /\ new \in Seq(Words)
      BY <1>7, <1>8
    <3>2. /\ base \o new \in Seq(Words) /\ Len(base \o new) = Len(base) + Len(new)
          /\ \A k \in 1 .. Len(base) + Len(new) :
               (base \o new)[k] = IF k <= Len(base) THEN base[k] ELSE new[k - Len(base)]
      BY <3>1, ConcatProperties, Zenon
    <3> QED BY <1>2, <3>2, Zenon
  <2>3. \A k \in 1 .. Len(base) : g[k] = base[k]
    BY <2>1, <2>2
  <2>4. ASSUME s \in ws PROVE g[Len(base) + 1] = x
    <3> DEFINE j == Len(base) + 1
    <3>1. j \in 1 .. Len(base) + Len(new) /\ ~(j <= Len(base)) /\ j - Len(base) = 1
      BY <1>8, <2>1, <2>4
    <3> HIDE DEF j
    <3>2. g[j] = new[1]
      BY <2>2, <3>1
    <3> QED BY <1>8, <2>4, <3>2 DEF j
  <2> QED BY <2>2, <2>3, <2>4
<1>10. p \in [word : Words, valid : BOOLEAN]
  BY <1>1, <1>3, <1>4, <1>6
<1> HIDE DEF f, g, o, p, x, rd
<1>11. /\ Held(s) = Len(f) + (IF o.valid THEN 1 ELSE 0)
       /\ Held(s)' = Len(g) + (IF p.valid THEN 1 ELSE 0)
       /\ Gone(s) = IF rd /\ o.valid THEN 1 ELSE 0
  BY DEF Held, Gone, f, g, o, p, rd
<1>12. ASSUME NEW k
       PROVE  /\ HeldAt(s, k) = IF ~o.valid THEN f[k] ELSE IF k = 1 THEN o.word ELSE f[k - 1]
              /\ HeldAt(s, k)' = IF ~p.valid THEN g[k] ELSE IF k = 1 THEN p.word ELSE g[k - 1]
  BY DEF HeldAt, f, g, o, p
<1>13. p.valid <=> f # <<>> \/ (o.valid /\ ~rd)
  BY <1>3
<1>14. p.word = IF Pulled(s) THEN Head(f) ELSE o.word
  BY <1>3
<1>15. Held(s) \in Nat /\ Gone(s) \in {0, 1} /\ Gone(s) <= Held(s)
  BY <1>5, <1>11
<1>16. Held(s)' = Held(s) - Gone(s) + (IF s \in ws THEN 1 ELSE 0)
  <2> DEFINE c == IF s \in ws THEN 1 ELSE 0
             l == Len(f)
             b == Len(base)
             h == Held(s)'
  <2>1. h = b + c + (IF p.valid THEN 1 ELSE 0)
    BY <1>8, <1>9, <1>11
  <2>2. b = l - (IF Pulled(s) THEN 1 ELSE 0) /\ l \in Nat /\ c \in Nat
    BY <1>5, <1>7
  <2>3. f = <<>> <=> l = 0
    BY <1>5
  <2>4. Held(s) = l + (IF o.valid THEN 1 ELSE 0)
    BY <1>11
  <2> HIDE DEF c, l, b, h
  <2>5. h = Held(s) - Gone(s) + c
    <3>1. Gone(s) = IF rd /\ o.valid THEN 1 ELSE 0
      BY <1>11
    <3>2. CASE Pulled(s)
      BY <1>4, <1>13, <2>1, <2>2, <2>3, <2>4, <3>1, <3>2
    <3>3. CASE ~Pulled(s)
      BY <1>4, <1>13, <2>1, <2>2, <2>3, <2>4, <3>1, <3>3
    <3> QED BY <3>2, <3>3
  <2> QED BY <2>5 DEF c, h
<1>17. ASSUME NEW k \in 1 .. Held(s) - Gone(s) PROVE HeldAt(s, k)' = HeldAt(s, k + Gone(s))
  <2> DEFINE j == k + Gone(s)
  <2>1. HeldAt(s, j) = IF ~o.valid THEN f[j] ELSE IF j = 1 THEN o.word ELSE f[j - 1]
    BY <1>12
  <2>2. HeldAt(s, k)' = IF ~p.valid THEN g[k] ELSE IF k = 1 THEN p.word ELSE g[k - 1]
    BY <1>12
  <2>3. CASE Pulled(s)
    <3>1. p.valid /\ p.word = f[1] /\ j = IF o.valid THEN k + 1 ELSE k
      BY <1>4, <1>6, <1>11, <1>13, <1>14, <2>3
    <3>2. k # 1 => g[k - 1] = f[k]
      <4>1. Len(base) = Len(f) - 1 /\ k <= Len(f)
        BY <1>4, <1>7, <1>11, <1>15, <2>3
      <4>2. k # 1 => k - 1 \in 1 .. Len(base)
        BY <1>5, <4>1
      <4>3. \A i \in 1 .. Len(base) : g[i] = f[i + 1]
        BY <1>7, <1>9, <2>3
      <4> QED BY <4>2, <4>3
    <3>3. j - 1 = k \/ ~o.valid
      BY <1>15, <3>1
    <3>4. j # 1 \/ ~o.valid
      BY <3>1
    <3> QED BY <2>1, <2>2, <3>1, <3>2, <3>3, <3>4
  <2>4. CASE ~Pulled(s)
    <3>1. Gone(s) = 0 /\ j = k /\ (p.valid <=> o.valid)
      BY <1>4, <1>5, <1>11, <1>13, <1>15, <2>4
    <3>2. p.valid /\ k = 1 => p.word = o.word
      BY <1>14, <2>4
    <3>3. \A i \in 1 .. Len(f) : g[i] = f[i]
      BY <1>5, <1>7, <1>9, <2>4
    <3>4. k \in 1 .. Len(f) \/ (o.valid /\ (k = 1 \/ k - 1 \in 1 .. Len(f)))
      BY <1>5, <1>11, <3>1
    <3>5. o.valid /\ k # 1 => k - 1 \in 1 .. Len(f)
      BY <1>5, <1>11, <3>1
    <3>6. ~o.valid => k \in 1 .. Len(f)
      BY <3>4
    <3> QED BY <2>1, <2>2, <3>1, <3>2, <3>3, <3>5, <3>6
  <2> QED BY <2>3, <2>4
<1>18. ASSUME s \in ws, NEW k, k = Held(s) - Gone(s) + 1 PROVE HeldAt(s, k)' = x
  <2> DEFINE b == Len(base)
             l == Len(f)
  <2>1. b \in Nat
    BY <1>7, LenProperties
  <2>2. b = l - (IF Pulled(s) THEN 1 ELSE 0) /\ l \in Nat /\ (f = <<>> <=> l = 0)
    BY <1>5, <1>7
  <2>3. HeldAt(s, k)' = IF ~p.valid THEN g[k] ELSE IF k = 1 THEN p.word ELSE g[k - 1]
    BY <1>12
  <2>4. Held(s) = l + (IF o.valid THEN 1 ELSE 0)
    BY <1>11
  <2>5. g[b + 1] = x
    BY <1>9, <1>18
  <2> HIDE DEF b, l
  <2>6. k = IF p.valid THEN b + 2 ELSE b + 1
    BY <1>4, <1>11, <1>13, <1>18, <2>1, <2>2, <2>4
  <2>7. p.valid => k # 1 /\ k - 1 = b + 1
    BY <2>1, <2>6
  <2> QED BY <2>3, <2>5, <2>6, <2>7
<1> QED BY <1>9, <1>10, <1>15, <1>16, <1>17, <1>18 DEF g, p, x

\* Putting a word moves a source on in its packet.
LEMMA Advances ==
  ASSUME CpuInv, NEW ss, Put(ss), NEW s \in Sources
  PROVE  /\ s \notin ss => put'[s].n = put[s].n /\ put'[s].i = put[s].i
         /\ s \in ss /\ NextWord(s).eop => put'[s].n = put[s].n + 1 /\ put'[s].i = 0
         /\ s \in ss /\ ~NextWord(s).eop => put'[s].n = put[s].n /\ put'[s].i = put[s].i + 1
         /\ put'[s].n \in Nat /\ put'[s].i \in Nat
<1>1. put[s] \in [n : Nat, i : Nat]
  BY DEF CpuInv
<1>2. put'[s] = IF s \notin ss THEN put[s]
                ELSE IF NextWord(s).eop THEN [n |-> put[s].n + 1, i |-> 0]
                ELSE [put[s] EXCEPT !.i = @ + 1]
  BY DEF Put
<1> QED BY <1>1, <1>2

\* A source stays within its packets.
LEMMA ProgressStep ==
  ASSUME CpuInv, NEW ss, Put(ss), NEW s \in Sources, Progress(s), s \in ss => Left(s)
  PROVE  Progress(s)'
<1> DEFINE n == put[s].n
           i == put[s].i
           n2 == put'[s].n
           i2 == put'[s].i
           P == Packets[s]
<1>1. n \in Nat /\ i \in Nat
  BY DEF CpuInv
<1>2. Len(P) \in Nat
  <2>1. P \in Seq(1 .. MaxReserv)
    BY PacketsAssumption
  <2> QED BY <2>1, LenProperties
<1>3. \A k \in 1 .. Len(P) : P[k] \in Nat /\ 0 < P[k]
  <2>1. P \in Seq(1 .. MaxReserv)
    BY PacketsAssumption
  <2>2. \A k \in 1 .. Len(P) : P[k] \in 1 .. MaxReserv
    BY <2>1, ElementOfSeq
  <2> QED BY <2>2, SizesAssumption
<1>4. NextWord(s).eop <=> i + 1 = P[n + 1]
  BY DEF NextWord, DataWord, Wd
<1>5. /\ s \notin ss => n2 = n /\ i2 = i
      /\ s \in ss /\ i + 1 = P[n + 1] => n2 = n + 1 /\ i2 = 0
      /\ s \in ss /\ i + 1 # P[n + 1] => n2 = n /\ i2 = i + 1
  BY <1>4, Advances
<1>6. n <= Len(P) /\ IF n = Len(P) THEN i = 0 ELSE i < P[n + 1]
  BY DEF Progress
<1>7. s \in ss => n < Len(P)
  BY DEF Left
<1> DEFINE Q == P
<1> HIDE DEF n, i, n2, i2, P
<1>8. n2 <= Len(P) /\ IF n2 = Len(P) THEN i2 = 0 ELSE i2 < P[n2 + 1]
  <2>1. CASE s \notin ss
    BY <1>5, <1>6, <2>1
  <2>2. CASE s \in ss /\ i + 1 = P[n + 1]
    <3>1. n2 = n + 1 /\ i2 = 0 /\ n < Len(P)
      BY <1>5, <1>7, <2>2
    <3>2. n2 # Len(P) => n2 + 1 \in 1 .. Len(P)
      BY <1>1, <1>2, <3>1
    <3> QED BY <1>1, <1>2, <1>3, <3>1, <3>2
  <2>3. CASE s \in ss /\ i + 1 # P[n + 1]
    <3>1. n2 = n /\ i2 = i + 1 /\ n < Len(P) /\ n # Len(P)
      BY <1>1, <1>2, <1>5, <1>7, <2>3
    <3>2. n + 1 \in 1 .. Len(P)
      BY <1>1, <1>2, <3>1
    <3>3. P[n + 1] \in Nat /\ i < P[n + 1]
      BY <1>3, <1>6, <3>1, <3>2
    <3> QED BY <1>1, <1>2, <2>3, <3>1, <3>3
  <2> QED BY <2>1, <2>2, <2>3
<1> QED BY <1>8 DEF Progress, n2, i2, P

\* The words that wait keep their places, and so does the next to come.
LEMMA PlacesMove ==
  ASSUME FifoTypes, CpuInv, NEW ws, TxFifos(ws), NEW ss, Put(ss), NEW s \in Streams,
         s \in ss <=> s \in ws, s \in ws => Left(s), Progress(s),
         NEW k \in 1 .. Held(s) - Gone(s) + 1
  PROVE  PlaceN(s, k)' = PlaceN(s, k + Gone(s)) /\ PlaceI(s, k)' = PlaceI(s, k + Gone(s))
<1>1. s \in Sources
  BY SizesAssumption DEF Sources, Streams
<1>2. s \in ws => /\ NextWord(s) \in Words
                  /\ NextWord(s).n = put[s].n + 1 /\ NextWord(s).i = put[s].i
  BY <1>1, WordTypes DEF Left
<1>3. /\ Held(s) \in Nat /\ Gone(s) \in {0, 1} /\ Gone(s) <= Held(s)
      /\ Held(s)' = Held(s) - Gone(s) + (IF s \in ws THEN 1 ELSE 0)
      /\ \A j \in 1 .. Held(s) - Gone(s) : HeldAt(s, j)' = HeldAt(s, j + Gone(s))
      /\ \A j : s \in ws /\ j = Held(s) - Gone(s) + 1 => HeldAt(s, j)' = NextWord(s)
  BY <1>2, HeldStep
<1> DEFINE l == k + Gone(s)
<1>4. PlaceN(s, l) = (IF l > Held(s) THEN put[s].n + 1 ELSE HeldAt(s, l).n)
      /\ PlaceI(s, l) = (IF l > Held(s) THEN put[s].i ELSE HeldAt(s, l).i)
  BY DEF PlaceN, PlaceI
<1>5. PlaceN(s, k)' = (IF k > Held(s)' THEN put'[s].n + 1 ELSE HeldAt(s, k)'.n)
      /\ PlaceI(s, k)' = (IF k > Held(s)' THEN put'[s].i ELSE HeldAt(s, k)'.i)
  BY DEF PlaceN, PlaceI
<1>6. CASE k <= Held(s) - Gone(s)
  <2>1. HeldAt(s, k)' = HeldAt(s, l)
    BY <1>3, <1>6
  <2>2. ~(k > Held(s)') /\ ~(l > Held(s))
    BY <1>3, <1>6
  <2> QED BY <1>4, <1>5, <2>1, <2>2
<1>7. CASE k = Held(s) - Gone(s) + 1
  <2>1. l > Held(s)
    BY <1>3, <1>7
  <2>2. CASE s \in ws
    <3>1. HeldAt(s, k)' = NextWord(s) /\ ~(k > Held(s)')
      BY <1>3, <1>7, <2>2
    <3> QED BY <1>2, <1>4, <1>5, <2>1, <2>2, <3>1
  <2>3. CASE s \notin ws
    <3>1. k > Held(s)'
      BY <1>3, <1>7, <2>3
    <3>2. put'[s].n = put[s].n /\ put'[s].i = put[s].i
      BY <1>1, <2>3, Advances
    <3> QED BY <1>4, <1>5, <2>1, <3>1, <3>2
  <2> QED BY <2>2, <2>3
<1>8. k <= Held(s) - Gone(s) \/ k = Held(s) - Gone(s) + 1
  BY <1>3
<1> QED BY <1>6, <1>7, <1>8

\* ipmux.vhd:253-363: the words that wait stay in order, without a gap.
LEMMA TrafficStep ==
  ASSUME FifoTypes, CpuInv, NEW ws, TxFifos(ws), NEW ss, Put(ss), NEW s \in Streams,
         s \in ss <=> s \in ws, s \in ws => Left(s), Progress(s), Traffic(s)
  PROVE  Traffic(s)'
<1>1. s \in Sources
  BY SizesAssumption DEF Sources, Streams
<1> DEFINE x == NextWord(s)
           c == Held(s) - Gone(s)
           h == Gone(s)
<1>2. s \in ws => /\ x \in Words /\ Carries(x, s) /\ x.n = put[s].n + 1 /\ x.i = put[s].i
  BY <1>1, WordTypes DEF Left
<1>3. /\ Held(s) \in Nat /\ (h = 0 \/ h = 1) /\ c \in Nat /\ c + h = Held(s)
      /\ Held(s)' = c + (IF s \in ws THEN 1 ELSE 0)
  BY <1>2, HeldStep
<1>4. \A j \in 1 .. c : HeldAt(s, j)' = HeldAt(s, j + h)
  BY <1>2, HeldStep
<1>5. \A j : s \in ws /\ j = c + 1 => HeldAt(s, j)' = x
  BY <1>2, HeldStep
<1>6. \A k \in 1 .. c + 1 : PlaceN(s, k)' = PlaceN(s, k + h) /\ PlaceI(s, k)' = PlaceI(s, k + h)
  BY PlacesMove
<1>7. /\ s \in ws /\ x.eop => put'[s].n = put[s].n + 1 /\ put'[s].i = 0
      /\ s \in ws /\ ~x.eop => put'[s].n = put[s].n /\ put'[s].i = put[s].i + 1
      /\ s \notin ws => put'[s].n = put[s].n /\ put'[s].i = put[s].i
  BY <1>1, Advances
<1>8. put[s].n \in Nat /\ put[s].i \in Nat
  BY <1>1 DEF CpuInv
<1>9. ASSUME NEW k \in 1 .. Held(s)' PROVE InOrder(s, k)'
  <2> SUFFICES /\ Carries(HeldAt(s, k)', s)
               /\ IF HeldAt(s, k)'.eop
                  THEN PlaceN(s, k + 1)' = HeldAt(s, k)'.n + 1 /\ PlaceI(s, k + 1)' = 0
                  ELSE PlaceN(s, k + 1)' = HeldAt(s, k)'.n /\ PlaceI(s, k + 1)' = HeldAt(s, k)'.i + 1
    BY DEF InOrder, Carries, DataWord, Wd
  <2>1. CASE k \in 1 .. c
    <3> DEFINE j == k + h
               k2 == k + 1
               j2 == j + 1
    <3>1. j \in 1 .. Held(s) /\ k2 \in 1 .. c + 1 /\ j2 = k2 + h
      BY <1>3, <2>1
    <3>2. InOrder(s, j)
      BY <3>1 DEF Traffic
    <3>3. HeldAt(s, k)' = HeldAt(s, j)
      BY <1>4, <2>1
    <3> HIDE DEF k2
    <3>4. PlaceN(s, k2)' = PlaceN(s, j2) /\ PlaceI(s, k2)' = PlaceI(s, j2)
      BY <1>6, <3>1
    <3> QED BY <3>2, <3>3, <3>4 DEF InOrder, k2
  <2>2. CASE k = c + 1 /\ s \in ws
    <3>1. HeldAt(s, k)' = x
      BY <1>5, <2>2
    <3> DEFINE k2 == k + 1
    <3>2. k2 > Held(s)'
      BY <1>3, <2>2
    <3> HIDE DEF k2
    <3>3. PlaceN(s, k2)' = put'[s].n + 1 /\ PlaceI(s, k2)' = put'[s].i
      BY <3>2 DEF PlaceN, PlaceI
    <3> QED BY <1>2, <1>7, <1>8, <2>2, <3>1, <3>3 DEF k2
  <2>3. k \in 1 .. c \/ (k = c + 1 /\ s \in ws)
    BY <1>3
  <2> QED BY <2>1, <2>2, <2>3
<1>10. ASSUME NEW n \in Int, PlaceN(s, 1)' <= n, n <= put'[s].n PROVE Ended(s, n)'
  <2> SUFFICES \E k \in 1 .. Held(s)' : HeldAt(s, k)'.eop /\ HeldAt(s, k)'.n = n
    BY DEF Ended
  <2> DEFINE j == 1 + h
  <2>1. 1 \in 1 .. c + 1
    BY <1>3
  <2>2. PlaceN(s, 1)' = PlaceN(s, j)
    BY <1>6, <2>1
  <2>3. CASE n <= put[s].n
    <3>1. PlaceN(s, 1) <= n
      <4>1. CASE h = 0
        BY <1>10, <2>2, <4>1
      <4>2. CASE h = 1
        <5>1. 1 \in 1 .. Held(s) /\ j = 1 + 1
          BY <1>3, <4>2
        <5>2. InOrder(s, 1)
          BY <5>1 DEF Traffic
        <5>3. PlaceN(s, 1) = HeldAt(s, 1).n
          BY <1>3, <5>1 DEF PlaceN
        <5>4. HeldAt(s, 1).n \in Int
          <6>1. HeldAt(s, 1).n \in DOMAIN Packets[s] /\ Packets[s] \in Seq(1 .. MaxReserv)
            BY <1>1, <5>2, PacketsAssumption DEF InOrder, Carries
          <6> QED BY <6>1
        <5>5. PlaceN(s, j) = HeldAt(s, 1).n + 1 \/ PlaceN(s, j) = HeldAt(s, 1).n
          BY <5>1, <5>2 DEF InOrder
        <5> QED BY <1>10, <2>2, <5>3, <5>4, <5>5
      <4> QED BY <1>3, <4>1, <4>2
    <3>2. n \in PlaceN(s, 1) .. put[s].n
      <4>1. PlaceN(s, 1) \in Int
        <5>1. CASE Held(s) = 0
          BY <1>8, <5>1 DEF PlaceN
        <5>2. CASE Held(s) # 0
          <6>1. 1 \in 1 .. Held(s)
            BY <1>3, <5>2
          <6>2. HeldAt(s, 1).n \in DOMAIN Packets[s] /\ Packets[s] \in Seq(1 .. MaxReserv)
            BY <1>1, <6>1, PacketsAssumption DEF Traffic, InOrder, Carries
          <6>3. HeldAt(s, 1).n \in Int
            BY <6>2
          <6> QED BY <1>3, <6>1, <6>3 DEF PlaceN
        <5> QED BY <5>1, <5>2
      <4> QED BY <1>8, <2>3, <3>1, <4>1
    <3>3. PICK k \in 1 .. Held(s) : HeldAt(s, k).eop /\ HeldAt(s, k).n = n
      BY <3>2 DEF Traffic, Ended
    <3>4. k - h \in 1 .. c
      <4>1. CASE h = 0
        BY <1>3, <3>3, <4>1
      <4>2. CASE h = 1
        <5>1. k # 1
          <6> SUFFICES ASSUME k = 1 PROVE FALSE
            OBVIOUS
          <6>1. InOrder(s, 1) /\ j = 1 + 1
            BY <3>3, <4>2 DEF Traffic
          <6>2. PlaceN(s, j) = n + 1
            BY <3>3, <6>1 DEF InOrder
          <6> QED BY <1>10, <2>2, <6>2
        <5> QED BY <1>3, <4>2, <5>1
      <4> QED BY <1>3, <4>1, <4>2
    <3> PICK i \in Int : i = k - h
      BY <1>3
    <3>5. i + h = k /\ i \in 1 .. Held(s)'
      BY <1>3, <3>4
    <3>6. i \in 1 .. c
      BY <3>4
    <3>7. HeldAt(s, i)' = HeldAt(s, k)
      BY <1>4, <3>5, <3>6
    <3> QED BY <3>3, <3>5, <3>7
  <2>4. CASE ~(n <= put[s].n)
    <3>1. s \in ws /\ x.eop /\ n = put[s].n + 1
      BY <1>7, <1>8, <1>10, <2>4
    <3> PICK i \in Int : i = c + 1
      BY <1>3
    <3>2. i \in 1 .. Held(s)' /\ HeldAt(s, i)' = x
      BY <1>3, <1>5, <3>1
    <3> QED BY <1>2, <3>1, <3>2
  <2> QED BY <2>3, <2>4
<1>11. \A k \in 1 .. Held(s)' : InOrder(s, k)'
  BY <1>9
<1>12. \A n \in PlaceN(s, 1)' .. put'[s].n : Ended(s, n)'
  BY <1>10
<1> QED BY <1>11, <1>12 DEF Traffic

\* The packets of a stream that are complete: those connected and those counted.
Counted(s) == eods[s] = put[s].n - conn[s] + (IF sel.pop /\ s = sel.ptr THEN 1 ELSE 0)

Serves(s) == s = sel.ptr /\ sel.at \in {"State_Connected", "ReadUntilEOP"}

\* The first word waiting is of the packet that is served, which is complete,
\* or begins the next one.
Front(s) ==
  IF Serves(s)
  THEN /\ out[s].valid /\ conn[s] <= put[s].n /\ PlaceN(s, 1) = conn[s]
       /\ sel.at = "State_Connected" => PlaceI(s, 1) = 0
  ELSE PlaceN(s, 1) = conn[s] + 1 /\ PlaceI(s, 1) = 0

StreamInv ==
  /\ FifoTypes /\ conn \in [Streams -> Nat]
  /\ cpu = "asks" => Left(CPU)
  /\ \A s \in Sources : Progress(s)
  /\ \A s \in Streams : Traffic(s) /\ Counted(s) /\ Front(s)

\* Who writes a word at an edge.
LEMMA EdgePuts ==
  ASSUME StreamInv, NEW ws \in SUBSET {s \in Streams : Left(s)}, NEW stall, Edge(ws, stall)
  PROVE  \E ss : /\ Put(ss) /\ \A s \in Streams : s \in ss <=> s \in ws
                 /\ \A s \in Sources : s \in ss => Left(s)
                 /\ CPU \in ss <=> CpuWrites(ws, stall)
<1>1. CPU \in Sources /\ CPU \notin Streams /\ ws \subseteq Streams /\ Streams \subseteq Sources
  BY SizesAssumption DEF CPU, Sources, Streams
<1>2. CASE CpuWrites(ws, stall)
  <2>1. Put(ws \cup {CPU}) /\ Left(CPU)
    BY <1>2 DEF CpuWrites, Granted, StreamInv
  <2> WITNESS ws \cup {CPU}
  <2> QED BY <1>1, <1>2, <2>1
<1>3. CASE ~CpuWrites(ws, stall)
  <2>1. Put(ws)
    BY <1>3 DEF Edge, CpuRests, CpuAsks, CpuReleases
  <2> WITNESS ws
  <2> QED BY <1>1, <1>3, <2>1
<1> QED BY <1>2, <1>3

\* The CPU asks only while it has a frame.
LEMMA AskStep ==
  ASSUME StreamInv, CpuInv, NEW ws \in SUBSET {s \in Streams : Left(s)}, NEW stall, Edge(ws, stall)
  PROVE  cpu' = "asks" => Left(CPU)'
<1>1. CPU \in Sources /\ CPU \notin ws
  BY SizesAssumption DEF CPU, Sources, Streams
<1>2. CASE CpuRests(ws, stall) \/ CpuAsks(ws, stall) \/ CpuReleases(ws, stall)
  <2>1. Put(ws)
    BY <1>2 DEF CpuRests, CpuAsks, CpuReleases
  <2>2. put'[CPU].n = put[CPU].n
    BY <1>1, <2>1, Advances
  <2>3. cpu' = "asks" => Left(CPU)
    BY <1>2 DEF CpuRests, CpuAsks, CpuReleases, StreamInv
  <2> QED BY <2>2, <2>3 DEF Left
<1>3. CASE CpuWrites(ws, stall)
  <2>1. Put(ws \cup {CPU}) /\ Left(CPU) /\ (cpu' = "asks" => ~NextWord(CPU).eop)
    BY <1>3 DEF CpuWrites, Granted, StreamInv
  <2>2. cpu' = "asks" => put'[CPU].n = put[CPU].n
    BY <1>1, <2>1, Advances
  <2> QED BY <2>1, <2>2 DEF Left
<1> QED BY <1>2, <1>3 DEF Edge

\* ipmux.vhd:278-285: a packet is counted when its last word is written, and
\* taken off the count when it is connected.
LEMMA CountStep ==
  ASSUME TurnInv, CpuInv, StreamInv, NEW ws, TxFifos(ws), TxStreamSel, NEW stall, History(stall),
         NEW ss, Put(ss), NEW s \in Streams, s \in ss <=> s \in ws
  PROVE  conn'[s] \in Nat /\ Counted(s)'
<1>1. s \in Sources
  BY SizesAssumption DEF Sources, Streams
<1> DEFINE c == conn[s]
           c2 == conn'[s]
           n == put[s].n
           n2 == put'[s].n
           e == eods[s]
           e2 == eods'[s]
           p == IF sel.pop /\ s = sel.ptr THEN 1 ELSE 0
           p2 == IF sel'.pop /\ s = sel'.ptr THEN 1 ELSE 0
           g == IF s \in ws /\ WrReqEod(s) THEN 1 ELSE 0
           f == IF sel.at = "SearchConnect" /\ Packet(sel.ptr) /\ s = sel.ptr THEN 1 ELSE 0
<1>2. c \in Nat /\ n \in Nat /\ e \in Nat /\ sel.ptr \in Streams
  BY <1>1 DEF StreamInv, CpuInv, TurnInv, SelTypes
<1>3. e = n - c + p
  BY DEF StreamInv, Counted
<1>4. n2 = n + g
  BY <1>1, <1>2, Advances DEF WrReqEod
<1>5. c2 = c + f
  <2>1. conn' = IF sel.at = "SearchConnect" /\ Packet(sel.ptr)
                THEN [conn EXCEPT ![sel.ptr] = @ + 1] ELSE conn
    BY DEF History
  <2>2. conn \in [Streams -> Nat]
    BY DEF StreamInv
  <2> QED BY <1>2, <2>1, <2>2
<1>6. e2 = e - (IF sel.pop /\ s = sel.ptr /\ Packet(s) THEN 1 ELSE 0) + g
  BY DEF TxFifos
<1>7. Packet(s) <=> e > 0
  BY DEF Packet
<1>8. sel.pop => sel.at = "State_Connected"
  BY DEF TurnInv, PopInv
<1>9. sel.pop /\ s = sel.ptr => c <= n
  BY <1>8 DEF StreamInv, Front, Serves
<1>10. sel'.pop <=> (sel.at = "SearchConnect" /\ Packet(sel.ptr))
  BY <1>8 DEF TxStreamSel, Search, NoSearch, Found, SearchOn, Handshake, NoHandshake, Reading, Select
<1>11. sel'.pop => sel'.ptr = sel.ptr
  BY <1>10 DEF TxStreamSel, Search, NoSearch, Found, SearchOn, Handshake, NoHandshake, Reading, Select
<1>12. p2 = f
  BY <1>10, <1>11
<1>13. Counted(s)' <=> e2 = n2 - c2 + p2
  BY DEF Counted
<1>14. g \in Nat /\ f \in Nat
  OBVIOUS
<1>15. e2 = e - p + g
  <2>1. sel.pop /\ s = sel.ptr => Packet(s)
    BY <1>2, <1>3, <1>7, <1>9
  <2> QED BY <1>6, <2>1
<1> HIDE DEF c, c2, n, n2, e, e2, p2, g, f
<1>16. e2 = n2 - c2 + p2 /\ c2 \in Nat
  BY <1>2, <1>3, <1>4, <1>5, <1>12, <1>14, <1>15
<1> QED BY <1>13, <1>16 DEF c2

\* The first word that waits.
LEMMA FirstHeld ==
  ASSUME StreamInv, NEW s \in Streams
  PROVE  /\ Held(s) \in Nat /\ Len(fifo[s]) \in Nat
         /\ out[s].valid => /\ Held(s) = Len(fifo[s]) + 1 /\ HeldAt(s, 1) = out[s].word
                            /\ PlaceN(s, 1) = out[s].word.n /\ PlaceI(s, 1) = out[s].word.i
                            /\ InOrder(s, 1)
<1>1. fifo[s] \in Seq(Words)
  BY DEF StreamInv, FifoTypes
<1>2. Len(fifo[s]) \in Nat
  BY <1>1, LenProperties
<1>3. Held(s) \in Nat /\ (out[s].valid => Held(s) = Len(fifo[s]) + 1)
  <2> DEFINE l == Len(fifo[s])
  <2>1. Held(s) = l + (IF out[s].valid THEN 1 ELSE 0)
    BY DEF Held
  <2> HIDE DEF l
  <2>2. l \in Nat
    BY <1>2 DEF l
  <2>3. Held(s) \in Nat /\ (out[s].valid => Held(s) = l + 1)
    BY <2>1, <2>2
  <2> QED BY <2>3 DEF l
<1>4. out[s].valid => HeldAt(s, 1) = out[s].word
  BY DEF HeldAt
<1>5. out[s].valid => ~(1 > Held(s)) /\ 1 \in 1 .. Held(s)
  BY <1>2, <1>3
<1>6. out[s].valid => InOrder(s, 1)
  BY <1>5 DEF StreamInv, Traffic
<1> QED BY <1>2, <1>3, <1>4, <1>5, <1>6 DEF PlaceN, PlaceI

\* ipmux.vhd:106-177: the first word that waits is the one to be read next.
LEMMA FrontStep ==
  ASSUME TurnInv, CpuInv, StreamInv, NEW ws, TxFifos(ws), TxStreamSel, NEW stall, History(stall),
         NEW ss, Put(ss), NEW s \in Streams, s \in ss <=> s \in ws, s \in ws => Left(s)
  PROVE  Front(s)'
<1>1. s \in Sources
  BY SizesAssumption DEF Sources, Streams
<1>2. Progress(s) /\ Traffic(s) /\ Counted(s) /\ Front(s) /\ FifoTypes
  BY <1>1 DEF StreamInv
<1> DEFINE h == Gone(s)
<1>3. /\ Held(s) \in Nat /\ (h = 0 \/ h = 1) /\ h <= Held(s)
  <2>1. s \in ws => NextWord(s) \in Words
    BY <1>1, <1>2, WordTypes DEF Left
  <2> QED BY <1>2, <2>1, HeldStep
<1>4. PlaceN(s, 1)' = PlaceN(s, 1 + h) /\ PlaceI(s, 1)' = PlaceI(s, 1 + h)
  <2>1. 1 \in 1 .. Held(s) - h + 1
    BY <1>3
  <2> QED BY <1>2, <2>1, PlacesMove
<1>5. /\ conn[s] \in Nat /\ put[s].n \in Nat /\ put'[s].n \in Nat /\ put[s].n <= put'[s].n
      /\ eods[s] \in Nat /\ sel.ptr \in Streams
  <2>1. put[s].n \in Nat /\ eods[s] \in Nat /\ sel.ptr \in Streams /\ conn[s] \in Nat
    BY <1>1 DEF StreamInv, CpuInv, TurnInv, SelTypes
  <2> QED BY <1>1, <2>1, Advances
<1>6. conn'[s] = IF sel.at = "SearchConnect" /\ Packet(sel.ptr) /\ s = sel.ptr
                 THEN conn[s] + 1 ELSE conn[s]
  <2>1. conn' = IF sel.at = "SearchConnect" /\ Packet(sel.ptr)
                THEN [conn EXCEPT ![sel.ptr] = @ + 1] ELSE conn
    BY DEF History
  <2>2. conn \in [Streams -> Nat]
    BY DEF StreamInv
  <2> QED BY <1>5, <2>1, <2>2
<1>7. out'[s].valid <=> fifo[s] # <<>> \/ (out[s].valid /\ ~RdReqOut(s))
  BY DEF TxFifos
<1>8. h = IF RdReqOut(s) /\ out[s].valid THEN 1 ELSE 0
  BY DEF Gone
<1>9. RdReqOut(s) <=> sel.at = "ReadUntilEOP" /\ s = sel.ptr
  BY DEF RdReqOut
<1>10. Front(s)' <=>
         IF s = sel'.ptr /\ sel'.at \in {"State_Connected", "ReadUntilEOP"}
         THEN /\ out'[s].valid /\ conn'[s] <= put'[s].n /\ PlaceN(s, 1)' = conn'[s]
              /\ sel'.at = "State_Connected" => PlaceI(s, 1)' = 0
         ELSE PlaceN(s, 1)' = conn'[s] + 1 /\ PlaceI(s, 1)' = 0
  BY DEF Front, Serves
<1>11. CASE ~RdReqOut(s)
  <2>1. PlaceN(s, 1)' = PlaceN(s, 1) /\ PlaceI(s, 1)' = PlaceI(s, 1)
    BY <1>4, <1>8, <1>11
  <2>2. CASE s = sel.ptr /\ Found
    <3>1. /\ sel.at = "SearchConnect" /\ Packet(s) /\ sel'.at = "State_Connected" /\ sel'.ptr = s
      BY <2>2 DEF Found, Select
    <3>2. PlaceN(s, 1) = conn[s] + 1 /\ PlaceI(s, 1) = 0
      BY <1>2, <3>1 DEF Front, Serves
    <3>3. conn'[s] = conn[s] + 1
      BY <1>6, <2>2, <3>1
    <3>4. ~sel.pop
      BY <3>1 DEF TurnInv, PopInv
    <3>5. conn[s] < put[s].n
      BY <1>2, <1>5, <3>1, <3>4 DEF Counted, Packet
    <3>6. out'[s].valid
      <4>1. conn[s] + 1 \in PlaceN(s, 1) .. put[s].n
        BY <1>5, <3>2, <3>5
      <4>2. PICK k \in 1 .. Held(s) : HeldAt(s, k).eop
        BY <1>2, <4>1 DEF Traffic, Ended
      <4>3. Held(s) # 0
        BY <1>3, <4>2
      <4>4. fifo[s] \in Seq(Words) /\ (fifo[s] = <<>> => Len(fifo[s]) = 0)
        BY <1>2 DEF FifoTypes
      <4>5. fifo[s] # <<>> \/ out[s].valid
        <5>1. Held(s) = Len(fifo[s]) + (IF out[s].valid THEN 1 ELSE 0)
          BY DEF Held
        <5>2. fifo[s] = <<>> /\ ~out[s].valid => Held(s) = 0
          BY <4>4, <5>1
        <5> QED BY <4>3, <5>2
      <4> QED BY <1>7, <1>11, <4>5
    <3> QED BY <1>5, <1>10, <2>1, <3>1, <3>2, <3>3, <3>5, <3>6
  <2>3. CASE s = sel.ptr /\ ~Found
    <3>1. sel.at # "ReadUntilEOP"
      BY <1>9, <1>11, <2>3
    <3>2. ~(sel.at = "SearchConnect" /\ Packet(sel.ptr))
      BY <2>3 DEF TxStreamSel, Search, NoSearch, SearchOn, Handshake, NoHandshake, Reading
    <3>3. conn'[s] = conn[s]
      BY <1>6, <3>2
    <3>4. CASE sel.at = "State_Connected"
      <4>1. /\ sel'.ptr = sel.ptr /\ sel'.at \in {"State_Connected", "ReadUntilEOP"}
        BY <3>4 DEF TxStreamSel, Search, NoSearch, Found, SearchOn, Handshake, NoHandshake, Reading,
                    Select
      <4>2. out[s].valid /\ conn[s] <= put[s].n /\ PlaceN(s, 1) = conn[s] /\ PlaceI(s, 1) = 0
        BY <1>2, <2>3, <3>4 DEF Front, Serves
      <4> QED BY <1>5, <1>7, <1>10, <1>11, <2>1, <2>3, <3>3, <4>1, <4>2
    <3>5. CASE sel.at # "State_Connected"
      <4>1. sel'.at \in {"Idle", "SearchConnect"}
        BY <2>3, <3>1, <3>5 DEF TxStreamSel, Search, NoSearch, SearchOn, Handshake, NoHandshake,
                    Reading, Select
      <4>2. PlaceN(s, 1) = conn[s] + 1 /\ PlaceI(s, 1) = 0
        BY <1>2, <3>1, <3>5 DEF Front, Serves
      <4> QED BY <1>10, <2>1, <3>3, <4>1, <4>2
    <3> QED BY <3>4, <3>5
  <2>4. CASE s # sel.ptr
    <3>1. conn'[s] = conn[s]
      BY <1>6, <2>4
    <3>2. PlaceN(s, 1) = conn[s] + 1 /\ PlaceI(s, 1) = 0
      BY <1>2, <2>4 DEF Front, Serves
    <3>3. sel'.at \in {"State_Connected", "ReadUntilEOP"} => sel'.ptr = sel.ptr
      BY DEF TxStreamSel, Search, NoSearch, Found, SearchOn, Handshake, NoHandshake, Reading, Select
    <3> QED BY <1>10, <2>1, <2>4, <3>1, <3>2, <3>3
  <2> QED BY <2>2, <2>3, <2>4
<1>12. CASE RdReqOut(s)
  <2>1. sel.at = "ReadUntilEOP" /\ s = sel.ptr
    BY <1>9, <1>12
  <2>2. out[s].valid /\ conn[s] <= put[s].n /\ PlaceN(s, 1) = conn[s]
    BY <1>2, <2>1 DEF Front, Serves
  <2>3. h = 1 /\ conn'[s] = conn[s]
    BY <1>6, <1>8, <1>12, <2>1, <2>2
  <2>4. PlaceN(s, 1)' = PlaceN(s, 1 + 1) /\ PlaceI(s, 1)' = PlaceI(s, 1 + 1)
    BY <1>4, <2>3
  <2> DEFINE x == out[s].word
  <2>5. /\ Held(s) = Len(fifo[s]) + 1 /\ Len(fifo[s]) \in Nat /\ HeldAt(s, 1) = x
        /\ InOrder(s, 1) /\ PlaceN(s, 1) = x.n
    BY <2>2, FirstHeld
  <2>6. /\ x.eop => PlaceN(s, 1)' = conn[s] + 1 /\ PlaceI(s, 1)' = 0
        /\ ~x.eop => PlaceN(s, 1)' = conn[s]
    BY <2>2, <2>4, <2>5 DEF InOrder
  <2>7. sel'.at = (IF x.eop THEN "Idle" ELSE "ReadUntilEOP") /\ sel'.ptr = sel.ptr
    BY <2>1 DEF TxStreamSel, Search, NoSearch, Found, SearchOn, Handshake, NoHandshake, Reading,
                Select
  <2>8. CASE x.eop
    BY <1>10, <2>3, <2>6, <2>7, <2>8
  <2>9. CASE ~x.eop
    <3>1. PICK k \in 1 .. Held(s) : HeldAt(s, k).eop
      <4>1. conn[s] \in PlaceN(s, 1) .. put[s].n
        BY <1>5, <2>2
      <4> QED BY <1>2, <4>1 DEF Traffic, Ended
    <3>2. k # 1
      BY <2>5, <2>9, <3>1
    <3>3. Len(fifo[s]) # 0
      BY <2>5, <3>1, <3>2
    <3>4. fifo[s] # <<>>
      BY <3>3
    <3>5. out'[s].valid
      BY <1>7, <3>4
    <3> QED BY <1>5, <1>10, <2>1, <2>2, <2>3, <2>6, <2>7, <2>9, <3>5
  <2> QED BY <2>8, <2>9
<1> QED BY <1>11, <1>12

\* What holds of the streams is kept at every edge.
LEMMA StreamStep ==
  ASSUME TurnInv, CpuInv, StreamInv, NEW ws \in SUBSET {s \in Streams : Left(s)}, NEW stall,
         Edge(ws, stall)
  PROVE  StreamInv'
<1>1. TxStreamSel /\ TxFifos(ws) /\ History(stall)
  BY EveryEdgeSelects
<1>2. PICK ss : /\ Put(ss) /\ \A s \in Streams : s \in ss <=> s \in ws
                /\ \A s \in Sources : s \in ss => Left(s)
  BY EdgePuts
<1>3. \A s \in Streams : s \in Sources /\ (s \in ws => Left(s)) /\ Progress(s) /\ Traffic(s) /\ FifoTypes
  BY SizesAssumption DEF Sources, Streams, StreamInv
<1>4. FifoTypes'
  <2>1. ASSUME NEW s \in Streams
        PROVE  fifo'[s] \in Seq(Words) /\ out'[s] \in [word : Words, valid : BOOLEAN]
    <3>1. s \in ws => NextWord(s) \in Words
      BY <1>3, WordTypes DEF Left
    <3> QED BY <1>1, <1>3, <3>1, HeldStep
  <2>2. fifo' = [s \in Streams |-> fifo'[s]] /\ out' = [s \in Streams |-> out'[s]]
    BY <1>1 DEF TxFifos
  <2> QED BY <2>1, <2>2 DEF FifoTypes
<1>5. \A s \in Streams : conn'[s] \in Nat /\ Counted(s)'
  BY <1>1, <1>2, CountStep
<1>6. conn' \in [Streams -> Nat]
  <2>1. conn' = [s \in Streams |-> conn'[s]]
    BY <1>1 DEF History, StreamInv
  <2> QED BY <1>5, <2>1
<1>7. cpu' = "asks" => Left(CPU)'
  BY AskStep
<1>8. \A s \in Sources : Progress(s)'
  BY <1>2, ProgressStep DEF StreamInv
<1>9. \A s \in Streams : Traffic(s)'
  BY <1>1, <1>2, <1>3, TrafficStep
<1>10. \A s \in Streams : Front(s)'
  BY <1>1, <1>2, <1>3, FrontStep
<1> QED BY <1>4, <1>5, <1>6, <1>7, <1>8, <1>9, <1>10 DEF StreamInv

\* It holds at first, when nothing waits.
LEMMA InitStream == Init => StreamInv
<1> SUFFICES ASSUME Init PROVE StreamInv
  OBVIOUS
<1>1. NoWord \in Words
  <2>1. "none" \in Kinds /\ 0 \in Nat /\ 0 \in Int /\ FALSE \in BOOLEAN
    BY DEF Kinds
  <2> QED BY <2>1, WdTyped, Zenon DEF NoWord
<1>2. FifoTypes
  BY <1>1 DEF Init, FifoTypes
<1>3. conn \in [Streams -> Nat] /\ cpu # "asks"
  BY DEF Init
<1>4. ASSUME NEW s \in Sources PROVE put[s].n = 0 /\ put[s].i = 0
  BY DEF Init
<1>5. ASSUME NEW s \in Sources PROVE Progress(s)
  <2>1. Packets[s] \in Seq(1 .. MaxReserv)
    BY PacketsAssumption
  <2>2. Len(Packets[s]) \in Nat
    BY <2>1, LenProperties
  <2>3. 0 # Len(Packets[s]) => Packets[s][1] \in 1 .. MaxReserv
    <3> SUFFICES ASSUME 0 # Len(Packets[s]) PROVE Packets[s][1] \in 1 .. MaxReserv
      OBVIOUS
    <3>1. 1 \in 1 .. Len(Packets[s])
      BY <2>2
    <3> QED BY <2>1, <3>1, ElementOfSeq
  <2>4. 0 # Len(Packets[s]) => 0 < Packets[s][1]
    BY <2>3, SizesAssumption
  <2> QED BY <1>4, <2>2, <2>4 DEF Progress
<1>6. ASSUME NEW s \in Streams PROVE Traffic(s) /\ Counted(s) /\ Front(s)
  <2>1. s \in Sources
    BY SizesAssumption DEF Sources, Streams
  <2>2. fifo[s] = <<>> /\ ~out[s].valid /\ eods[s] = 0 /\ conn[s] = 0 /\ ~sel.pop /\ sel.at = "Idle"
    BY DEF Init
  <2>3. Held(s) = 0
    BY <2>2 DEF Held
  <2>4. PlaceN(s, 1) = 1 /\ PlaceI(s, 1) = 0
    BY <1>4, <2>1, <2>3 DEF PlaceN, PlaceI
  <2>5. Traffic(s)
    BY <1>4, <2>1, <2>3, <2>4 DEF Traffic
  <2>6. Counted(s) /\ Front(s)
    BY <1>4, <2>1, <2>2, <2>4 DEF Counted, Front, Serves
  <2> QED BY <2>5, <2>6
<1> QED BY <1>2, <1>3, <1>5, <1>6 DEF StreamInv

\* It holds when nothing moves.
LEMMA StreamStutters == StreamInv /\ UNCHANGED vars => StreamInv'
  BY DEF StreamInv, vars, FifoTypes, Left, Progress, Traffic, InOrder, Ended, Counted, Front,
         Serves, PlaceN, PlaceI, Held, HeldAt, Carries

\* What holds of the selection, the hand-over and the streams at every edge.
LEMMA StreamsHold == Spec => [](TurnInv /\ HandsInv /\ StreamInv)
<1>1. Init => StreamInv
  BY InitStream
<1>2. TurnInv /\ HandsInv /\ StreamInv /\ [Next]_vars => StreamInv'
  <2> SUFFICES ASSUME TurnInv, HandsInv, StreamInv, [Next]_vars PROVE StreamInv'
    OBVIOUS
  <2>1. CpuInv
    BY DEF HandsInv
  <2>2. CASE Next
    BY <2>1, <2>2, StreamStep DEF Next
  <2>3. CASE UNCHANGED vars
    BY <2>3, StreamStutters
  <2> QED BY <2>2, <2>3
<1> QED BY <1>1, <1>2, TurnInvariant, HandsInvariant, PTL DEF Spec

\* ipmux.vhd:278-285 with 134-173: whatever the streams write and whenever,
\* the stream that is being read holds its packet to the last word, so that
\* no state machine waits for a source.
THEOREM ReadsWholePackets == Spec => []WholePacket
<1>1. TurnInv /\ HandsInv /\ StreamInv => WholePacket
  <2> SUFFICES ASSUME TurnInv, HandsInv, StreamInv, sel.at = "ReadUntilEOP" 
               PROVE  \E i \in 0 .. Len(fifo[sel.ptr]) :
                        LET w == IF i = 0 THEN out[sel.ptr].word ELSE fifo[sel.ptr][i]
                        IN w.eop /\ w.n = conn[sel.ptr]
    BY DEF WholePacket
  <2> DEFINE s == sel.ptr
  <2>1. s \in Streams
    BY DEF TurnInv, SelTypes
  <2>2. Front(s) /\ Traffic(s) /\ conn[s] \in Nat
    BY <2>1 DEF StreamInv
  <2>3. out[s].valid /\ conn[s] <= put[s].n /\ PlaceN(s, 1) = conn[s]
    BY <2>2 DEF Front, Serves
  <2>4. put[s].n \in Nat
    BY <2>1, SizesAssumption DEF HandsInv, CpuInv, Sources, Streams
  <2>5. conn[s] \in PlaceN(s, 1) .. put[s].n
    BY <2>2, <2>3, <2>4
  <2>6. PICK k \in 1 .. Held(s) : HeldAt(s, k).eop /\ HeldAt(s, k).n = conn[s]
    BY <2>2, <2>5 DEF Traffic, Ended
  <2>7. Held(s) = Len(fifo[s]) + 1 /\ Len(fifo[s]) \in Nat
    BY <2>1, <2>3, FirstHeld
  <2> DEFINE i == k - 1
  <2>8. i \in 0 .. Len(fifo[s]) /\ (i = 0 <=> k = 1)
    BY <2>6, <2>7
  <2>9. HeldAt(s, k) = IF i = 0 THEN out[s].word ELSE fifo[s][i]
    BY <2>3, <2>8 DEF HeldAt
  <2> HIDE DEF i
  <2>10. LET w == IF i = 0 THEN out[s].word ELSE fifo[s][i] IN w.eop /\ w.n = conn[s]
    BY <2>6, <2>9
  <2> QED BY <2>8, <2>10
<1> QED BY <1>1, StreamsHold, PTL

-----------------------------------------------------------------------------
(* The machine that stores a packet: its states and outputs.               *)

Fields == {"at", "off", "ptr", "end", "rdReq", "connectReq", "selSm", "wrEn", "gnt", "dout",
           "idx", "len", "src"}

Headers == {"UDP_WriteHeader", "IP_WriteHeader", "IP_WriteCheckSum", "MAC_WriteHeader"}

Control ==
  /\ DOMAIN d = Fields
  /\ sel.connected <=> sel.at = "State_Connected"
  /\ sel.at \in {"SearchConnect", "State_Connected"} => ~sel.valid
  /\ d.at \in {"Idle", "More_Data", "AccessByCPU"} \cup Headers
  /\ d.gnt <=> d.at = "AccessByCPU"
  /\ d.selSm <=> d.at # "More_Data"
  /\ d.at = "Idle" => ~d.wrEn /\ d.off = PAYLOAD /\ (d.connectReq \/ req)
  /\ d.at # "Idle" => ~d.connectReq
  /\ d.at \in Headers => d.wrEn /\ sel.at = "Idle"
  /\ d.at = "More_Data" => d.rdReq
  /\ cpu = "done" => d.at = "AccessByCPU"

\* ipmux.vhd:1951-2026: what the CPU does at an edge.
CpuRest(bus) ==
  /\ bus = NoBus /\ put'[CPU] = put[CPU]
  /\ \/ cpu' = cpu
     \/ cpu = "off" /\ cpu' = "asks"
     \/ cpu = "done" /\ cpu' = "off"

CpuWord(bus) ==
  /\ bus = [wrEn |-> TRUE, word |-> NextWord(CPU)] /\ cpu = "asks" /\ d.gnt
  /\ IF NextWord(CPU).eop THEN cpu' = "done" /\ put'[CPU].n = put[CPU].n + 1 /\ put'[CPU].i = 0
     ELSE cpu' = "asks" /\ put'[CPU].n = put[CPU].n /\ put'[CPU].i = put[CPU].i + 1

\* Every edge is one of those, and a step of tx_data2buf.
LEMMA EdgeMoves ==
  ASSUME CpuInv, NEW ws \in SUBSET Streams, NEW stall, Edge(ws, stall)
  PROVE  \E bus : (CpuRest(bus) \/ CpuWord(bus)) /\ TxData2Buf(bus)
<1>1. CPU \in Sources /\ CPU \notin ws
  BY SizesAssumption DEF CPU, Sources, Streams
<1>2. Put(ws) => put'[CPU] = put[CPU]
  BY <1>1 DEF Put
<1>3. CASE CpuRests(ws, stall)
  <2>1. CpuRest(NoBus) /\ TxData2Buf(NoBus)
    BY <1>2, <1>3 DEF CpuRests, Clock, CpuRest
  <2> QED BY <2>1
<1>4. CASE CpuAsks(ws, stall)
  <2>1. CpuRest(NoBus) /\ TxData2Buf(NoBus)
    BY <1>2, <1>4 DEF CpuAsks, Clock, CpuRest
  <2> QED BY <2>1
<1>5. CASE CpuReleases(ws, stall)
  <2>1. CpuRest(NoBus) /\ TxData2Buf(NoBus)
    BY <1>2, <1>5 DEF CpuReleases, Clock, CpuRest
  <2> QED BY <2>1
<1>6. CASE CpuWrites(ws, stall)
  <2> DEFINE bus == [wrEn |-> TRUE, word |-> NextWord(CPU)]
  <2>1. /\ TxData2Buf(bus) /\ cpu = "asks" /\ d.gnt /\ Put(ws \cup {CPU})
        /\ cpu' = IF NextWord(CPU).eop THEN "done" ELSE "asks"
    BY <1>6 DEF CpuWrites, Clock, Granted
  <2>2. /\ NextWord(CPU).eop => put'[CPU].n = put[CPU].n + 1 /\ put'[CPU].i = 0
        /\ ~NextWord(CPU).eop => put'[CPU].n = put[CPU].n /\ put'[CPU].i = put[CPU].i + 1
    BY <1>1, <2>1, Advances
  <2>3. CpuWord(bus)
    BY <2>1, <2>2 DEF CpuWord
  <2> QED BY <2>1, <2>3
<1> QED BY <1>3, <1>4, <1>5, <1>6 DEF Edge

\* All machines are clocked at every edge.
LEMMA EdgeClocks ==
  ASSUME NEW ws, NEW stall, Edge(ws, stall)
  PROVE  /\ TxStreamSel /\ TxFifos(ws) /\ PacketBuffer /\ TxPkt2Mac(stall) /\ History(stall)
  BY DEF Edge, CpuRests, CpuAsks, CpuWrites, CpuReleases, Clock

\* ipmux.vhd:106-132: the pipeline is clocked in every state.
LEMMA SelectPipe ==
  ASSUME NEW at, NEW ptr, NEW connected, NEW pop, Select(at, ptr, connected, pop)
  PROVE  /\ sel'.stream = sel.ptr /\ sel'.dout = out[sel.ptr].word
         /\ sel'.valid <=> sel.at = "ReadUntilEOP" /\ out[sel.ptr].valid /\ RdReqIn
<1> DEFINE v == sel.at = "ReadUntilEOP" /\ out[sel.ptr].valid /\ RdReqIn
<1>1. sel'.stream = sel.ptr /\ sel'.dout = out[sel.ptr].word
  BY DEF Select
<1>2. sel'.valid = v
  BY DEF Select
<1> QED BY <1>1, <1>2, Zenon

\* The pipeline, whatever the state machine does.
LEMMA SelPipe ==
  ASSUME TxStreamSel
  PROVE  /\ sel'.stream = sel.ptr /\ sel'.dout = out[sel.ptr].word
         /\ sel'.valid <=> sel.at = "ReadUntilEOP" /\ out[sel.ptr].valid /\ RdReqIn
<1>1. \E at, ptr, connected, pop : Select(at, ptr, connected, pop)
  BY DEF TxStreamSel, Search, NoSearch, Found, SearchOn, Handshake, NoHandshake, Reading
<1> QED BY <1>1, SelectPipe, Zenon

\* ipmux.vhd:1213-1645: the state machine moves, and its outputs with it.
LEMMA ControlStep ==
  ASSUME Control, SelTypes, NEW bus, CpuRest(bus) \/ CpuWord(bus), TxData2Buf(bus), TxStreamSel,
         LastData => sel.at = "Idle"
  PROVE  Control'
<1>1. /\ sel'.connected <=> sel'.at = "State_Connected"
      /\ sel'.at \in {"SearchConnect", "State_Connected"} => ~sel'.valid
      /\ sel.at = "Idle" /\ ~d.connectReq => sel'.at = "Idle"
  <2>1. sel.connected <=> sel.at = "State_Connected"
    BY DEF Control
  <2>2. sel'.connected <=> sel'.at = "State_Connected"
    BY <2>1 DEF TxStreamSel, Search, NoSearch, Found, SearchOn, Handshake, NoHandshake, Reading,
                Select
  <2>3. sel'.valid => sel.at = "ReadUntilEOP"
    BY SelPipe
  <2>4. sel.at = "ReadUntilEOP" => sel'.at \in {"Idle", "ReadUntilEOP"}
    BY DEF TxStreamSel, Search, NoSearch, Found, SearchOn, Handshake, NoHandshake, Reading, Select
  <2>5. sel.at = "Idle" /\ ~d.connectReq => sel'.at = "Idle"
    BY DEF TxStreamSel, Search, NoSearch, Found, SearchOn, Handshake, NoHandshake, Reading, Select
  <2> QED BY <2>2, <2>3, <2>4, <2>5
<1>2. /\ cpu' = "done" => (cpu = "done" \/ (cpu = "asks" /\ d.gnt))
      /\ cpu # "off" /\ cpu # "done" => cpu' # "off"
      /\ cpu = "off" => cpu' # "done"
  BY DEF CpuRest, CpuWord
<1> DEFINE Outs ==
  /\ DOMAIN d' = Fields
  /\ d'.at \in {"Idle", "More_Data", "AccessByCPU"} \cup Headers
  /\ d'.gnt <=> d'.at = "AccessByCPU"
  /\ d'.selSm <=> d'.at # "More_Data"
  /\ d'.at = "Idle" => ~d'.wrEn /\ d'.off = PAYLOAD /\ (d'.connectReq \/ req')
  /\ d'.at # "Idle" => ~d'.connectReq
  /\ d'.at \in Headers => d'.wrEn /\ sel.at = "Idle" /\ ~d.connectReq
  /\ d'.at = "More_Data" => d'.rdReq
  /\ cpu' = "done" => d'.at = "AccessByCPU"
<1>3. ASSUME Grant(bus) PROVE Outs
  BY <1>2, <1>3 DEF Control, Grant, CpuAccess, Fields, Headers
<1>4. ASSUME Accept PROVE Outs
  BY <1>2, <1>4 DEF Control, Accept, Follow, Fields, Headers, req
<1>5. ASSUME NotReady PROVE Outs
  BY <1>2, <1>5 DEF Control, NotReady, Released, Fields, Headers, req
<1>6. ASSUME MoreData PROVE Outs
  BY <1>2, <1>6 DEF Control, MoreData, Follow, Fields, Headers
<1>7. ASSUME LastData PROVE Outs
  BY <1>2, <1>7 DEF Control, LastData, Header, Fields, Headers
<1>8. ASSUME UdpHeader PROVE Outs
  BY <1>2, <1>8 DEF Control, UdpHeader, Header, Fields, Headers
<1>9. ASSUME IpHeader PROVE Outs
  BY <1>2, <1>9 DEF Control, IpHeader, Header, Fields, Headers
<1>10. ASSUME IpCheckSum PROVE Outs
  BY <1>2, <1>10 DEF Control, IpCheckSum, Header, Fields, Headers
<1>11. ASSUME MacHeader PROVE Outs
  BY <1>2, <1>11 DEF Control, MacHeader, Header, Fields, Headers
<1>12. ASSUME AccessByCPU(bus) PROVE Outs
  BY <1>2, <1>12 DEF Control, AccessByCPU, CpuAccess, Fields, Headers
<1>13. ASSUME Store PROVE Outs
  BY <1>2, <1>13 DEF Control, Store, Stores, Released, Fields, Headers, req
<1>14. Outs
  BY <1>3, <1>4, <1>5, <1>6, <1>7, <1>8, <1>9, <1>10, <1>11, <1>12, <1>13 DEF TxData2Buf
<1> QED BY <1>1, <1>14 DEF Control

-----------------------------------------------------------------------------
(* The hand-over: the address follows the words on their way from the fifo *)
(* of the stream that is served to the memory.                             *)

\* The packet is expected and no word of it read yet.
Waits == sel.at = "State_Connected" /\ d.off = PAYLOAD

\* The word before the one in the output register is on its way.
Reads ==
  LET s == sel.ptr
      i == out[s].word.i
  IN /\ sel.at = "ReadUntilEOP"
     /\ IF sel.valid
        THEN /\ i > 0 /\ d.off = PAYLOAD + i - 1
             /\ sel.stream = s /\ sel.dout = DataWord(s, conn[s], i - 1)
        ELSE i = 0 /\ d.off = PAYLOAD

\* The last word is on its way.
Ends ==
  LET s == sel.ptr
      n == conn[s]
  IN /\ sel.at = "Idle" /\ sel.valid /\ sel.stream = s
     /\ n \in DOMAIN Packets[s] /\ d.off = PAYLOAD + Packets[s][n] - 1
     /\ sel.dout = DataWord(s, n, Packets[s][n] - 1)

Handing == d.at = "More_Data" => Waits \/ Reads \/ Ends

\* The lengths of the packets.
LEMMA PacketLengths ==
  ASSUME NEW s \in Sources
  PROVE  /\ DOMAIN Packets[s] = 1 .. Len(Packets[s]) /\ Len(Packets[s]) \in Nat
         /\ \A n \in DOMAIN Packets[s] : Packets[s][n] \in 1 .. MaxReserv
<1>1. Packets[s] \in Seq(1 .. MaxReserv)
  BY PacketsAssumption
<1>2. DOMAIN Packets[s] = 1 .. Len(Packets[s]) /\ Len(Packets[s]) \in Nat
  BY <1>1
<1> QED BY <1>1, <1>2, ElementOfSeq

\* The CPU is one source, the streams the others.
LEMMA StreamsAreSources == Streams \subseteq Sources /\ CPU \in Sources /\ CPU \notin Streams
  BY SizesAssumption DEF Streams, Sources, CPU

\* The headers come before the data, the UDP header last.
LEMMA PayloadNat == PAYLOAD \in Nat /\ MacWords <= IP_HDR /\ IP_HDR < UDP_HDR /\ UDP_HDR < PAYLOAD
  BY SizesAssumption DEF PAYLOAD, IP_HDR, UDP_HDR

\* Only the last word of a packet has EOD.
LEMMA LastOfPacket ==
  ASSUME NEW s, NEW n, NEW i
  PROVE  DataWord(s, n, i).eop <=> i + 1 = Packets[s][n]
<1> DEFINE e == i + 1 = Packets[s][n]
<1>1. DataWord(s, n, i).eop = e
  BY DEF DataWord, Wd
<1> QED BY <1>1, Zenon

\* The output register of the stream that is served.
LEMMA ServedWord ==
  ASSUME StreamInv, NEW s \in Streams, Serves(s)
  PROVE  /\ out[s].valid /\ out[s].word = DataWord(s, conn[s], out[s].word.i)
         /\ conn[s] \in DOMAIN Packets[s] /\ out[s].word.i \in 0 .. Packets[s][conn[s]] - 1
<1>1. out[s].valid /\ PlaceN(s, 1) = conn[s]
  BY DEF StreamInv, Front
<1>2. Carries(out[s].word, s) /\ out[s].word.n = conn[s]
  BY <1>1, FirstHeld DEF InOrder
<1> QED BY <1>1, <1>2 DEF Carries

\* The place of the first word is in the output register.
LEMMA ServedNext ==
  ASSUME StreamInv', NEW s \in Streams, out'[s].valid
  PROVE  PlaceI(s, 1)' = out'[s].word.i
<1>1. fifo'[s] \in Seq(Words)
  BY DEF StreamInv, FifoTypes
<1>2. Len(fifo'[s]) \in Nat
  BY <1>1, LenProperties
<1> DEFINE l == Len(fifo'[s])
           h == Held(s)'
<1>3. h = l + 1
  BY DEF Held
<1>4. ~(1 > h)
  <2> HIDE DEF l, h
  <2>1. l \in Nat
    BY <1>2 DEF l
  <2> QED BY <1>3, <2>1
<1>5. HeldAt(s, 1)' = out'[s].word
  BY DEF HeldAt
<1> QED BY <1>4, <1>5 DEF PlaceI

\* The next word of the packet comes to the output register.
LEMMA ReadStep ==
  ASSUME StreamInv, CpuInv, StreamInv', NEW ws \in SUBSET {s \in Streams : Left(s)}, NEW stall,
         Edge(ws, stall), NEW s \in Streams, s = sel.ptr, out'[s].valid
  PROVE  /\ sel.at = "State_Connected" => out'[s].word.i = 0
         /\ sel.at = "ReadUntilEOP" /\ ~out[s].word.eop => out'[s].word.i = out[s].word.i + 1
<1>1. TxFifos(ws)
  BY EdgeClocks
<1>2. PICK ss : Put(ss) /\ (s \in ss <=> s \in ws)
  BY EdgePuts
<1>3. s \in Sources /\ Progress(s) /\ FifoTypes /\ (s \in ws => Left(s))
  BY StreamsAreSources DEF StreamInv
<1> DEFINE h == Gone(s)
<1>4. Held(s) \in Nat /\ h <= Held(s) /\ (h = 0 \/ h = 1)
  <2>1. s \in ws => NextWord(s) \in Words
    BY <1>3, WordTypes DEF Left
  <2> QED BY <1>1, <1>3, <2>1, HeldStep
<1>5. PlaceI(s, 1)' = PlaceI(s, 1 + h)
  <2>1. 1 \in 1 .. Held(s) - h + 1
    BY <1>4
  <2> QED BY <1>1, <1>2, <1>3, <2>1, PlacesMove
<1>6. PlaceI(s, 1)' = out'[s].word.i
  BY ServedNext
<1>7. CASE sel.at = "State_Connected"
  <2>1. h = 0 /\ PlaceI(s, 1) = 0
    BY <1>7 DEF Gone, RdReqOut, StreamInv, Front, Serves
  <2> QED BY <1>5, <1>6, <1>7, <2>1
<1>8. CASE sel.at = "ReadUntilEOP" /\ ~out[s].word.eop
  <2>1. out[s].valid /\ Serves(s)
    BY <1>8 DEF StreamInv, Front, Serves
  <2>2. h = 1
    BY <1>8, <2>1 DEF Gone, RdReqOut
  <2>3. InOrder(s, 1) /\ HeldAt(s, 1) = out[s].word
    BY <2>1, FirstHeld
  <2>4. PlaceI(s, 1 + 1) = out[s].word.i + 1
    BY <1>8, <2>3 DEF InOrder
  <2> QED BY <1>5, <1>6, <1>8, <2>2, <2>4
<1> QED BY <1>7, <1>8

\* The machine leaves More_Data with the last word.
LEMMA LastAtEnd ==
  ASSUME Control, StreamInv, SelTypes, Handing, LastData
  PROVE  Ends
<1>1. d.at = "More_Data" /\ sel.dout.eop /\ sel.valid
  BY DEF LastData
<1>2. ~Waits
  BY <1>1 DEF Waits, Control
<1>3. ~Reads
  <2> SUFFICES ASSUME Reads PROVE FALSE
    OBVIOUS
  <2> DEFINE s == sel.ptr
             i == out[s].word.i
  <2>1. s \in Streams /\ Serves(s)
    BY DEF SelTypes, Reads, Serves
  <2>2. sel.dout = DataWord(s, conn[s], i - 1)
    BY <1>1 DEF Reads
  <2>3. i - 1 + 1 = Packets[s][conn[s]]
    BY <1>1, <2>2, LastOfPacket
  <2>4. conn[s] \in DOMAIN Packets[s] /\ i \in 0 .. Packets[s][conn[s]] - 1
    BY <2>1, ServedWord
  <2>5. Packets[s][conn[s]] \in Nat
    BY <2>1, <2>4, PacketLengths, StreamsAreSources, SizesAssumption
  <2> QED BY <2>3, <2>4, <2>5
<1> QED BY <1>1, <1>2, <1>3 DEF Handing

\* The longest frame is shorter than the memory.
LEMMA SizePositive == Size \in Nat \ {0} /\ MaxReserv \in Nat /\ MaxReserv < Size
  BY SizesAssumption

\* The words stored and not sent.
Used == (d.ptr - m.ptr) % Size

Pointers == d.ptr \in 0 .. Size - 1 /\ m.ptr \in 0 .. Size - 1

\* ipmux.vhd:1709-1743: what is stored and the room make up the memory.
LEMMA UsedAndRoom ==
  ASSUME Pointers
  PROVE  /\ Used \in 0 .. Size - 1
         /\ BufEmpty <=> Used = 0
         /\ ~BufEmpty => Room = Size - Used
         /\ ~BufFull <=> Used + MaxReserv < Size
<1> DEFINE u == (d.ptr - m.ptr) % Size
           o == (m.ptr - d.ptr) % Size
           dp == d.ptr
           mp == m.ptr
<1>1. dp \in 0 .. Size - 1 /\ mp \in 0 .. Size - 1
  BY DEF Pointers
<1>2. /\ u = IF mp <= dp THEN dp - mp ELSE dp - mp + Size
      /\ u \in 0 .. Size - 1 /\ (u = 0 <=> dp = mp)
  BY <1>1, Distance, SizePositive
<1>3. o = (IF dp <= mp THEN mp - dp ELSE mp - dp + Size) /\ o \in 0 .. Size - 1
  BY <1>1, Distance, SizePositive
<1>4. Used = u /\ Room = o /\ (BufEmpty <=> mp = dp)
  BY DEF Used, Room, BufEmpty
<1>5. BufFull <=> o <= MaxReserv /\ mp # dp
  BY <1>4 DEF BufFull
<1> HIDE DEF u, o, dp, mp
<1>6. mp # dp => o = Size - u
  BY <1>1, <1>2, <1>3, SizePositive
<1>7. ~(o <= MaxReserv /\ mp # dp) <=> u + MaxReserv < Size
  BY <1>1, <1>2, <1>3, <1>6, SizePositive
<1> QED BY <1>2, <1>4, <1>5, <1>6, <1>7

\* A packet is accepted only when the longest frame fits.
RoomInv == d.at # "Idle" => Used + MaxReserv < Size

\* A word of a header on its way to the memory.
LEMMA HeaderFields ==
  ASSUME DOMAIN d = Fields, NEW at, NEW w, NEW off, NEW idx
  PROVE  /\ Header(at, w, off, idx).at = at /\ Header(at, w, off, idx).dout = w
         /\ Header(at, w, off, idx).off = off /\ Header(at, w, off, idx).idx = idx
         /\ Header(at, w, off, idx).ptr = d.ptr /\ Header(at, w, off, idx).end = d.end
         /\ Header(at, w, off, idx).len = d.len /\ Header(at, w, off, idx).src = d.src
         /\ DOMAIN Header(at, w, off, idx) = Fields
  BY DEF Header, Fields

\* ipmux.vhd:1321-1363: the end and the length of the packet are kept.
LEMMA HeaderBegins ==
  ASSUME Control, LastData
  PROVE  LET udp == UdpWords + d.off + 1 - PAYLOAD
         IN /\ d'.at = "UDP_WriteHeader" /\ d'.dout = UdpWord(sel.stream, udp, 0)
            /\ d'.off = UDP_HDR /\ d'.idx = 1 /\ d'.ptr = d.ptr /\ d'.end = d.off
            /\ d'.len = udp /\ d'.src = sel.stream
<1> DEFINE udp == UdpWords + d.off + 1 - PAYLOAD
           h == Header("UDP_WriteHeader", UdpWord(sel.stream, udp, 0), UDP_HDR, 1)
<1>1. d' = [h EXCEPT !.end = d.off, !.len = udp, !.src = sel.stream]
  BY DEF LastData
<1>2. /\ h.at = "UDP_WriteHeader" /\ h.dout = UdpWord(sel.stream, udp, 0)
      /\ h.off = UDP_HDR /\ h.idx = 1 /\ h.ptr = d.ptr /\ DOMAIN h = Fields
  BY HeaderFields DEF Control
<1> HIDE DEF h, udp
<1>3. /\ d'.at = "UDP_WriteHeader" /\ d'.dout = UdpWord(sel.stream, udp, 0)
      /\ d'.off = UDP_HDR /\ d'.idx = 1 /\ d'.ptr = d.ptr /\ d'.end = d.off
      /\ d'.len = udp /\ d'.src = sel.stream
  BY <1>1, <1>2 DEF Fields
<1> QED BY <1>3 DEF udp

\* ipmux.vhd:1229-1376 with 71-94: the address stays with the word.
LEMMA HandingStep ==
  ASSUME Control, StreamInv, CpuInv, SelTypes, Handing, RoomInv, Pointers, StreamInv', SelTypes',
         NEW ws \in SUBSET {s \in Streams : Left(s)}, NEW stall, Edge(ws, stall), 
         NEW bus, TxData2Buf(bus)
  PROVE  Handing'
<1> SUFFICES ASSUME d'.at = "More_Data" PROVE (Waits \/ Reads \/ Ends)'
  BY DEF Handing
<1>1. TxStreamSel /\ TxFifos(ws) /\ History(stall)
  BY EdgeClocks
<1>2. Accept \/ MoreData
  <2>1. ~Grant(bus) /\ ~AccessByCPU(bus)
    BY DEF Control, Fields, Grant, AccessByCPU, CpuAccess
  <2>2. ~NotReady /\ ~Store
    BY DEF NotReady, Store, Released
  <2>3. ~LastData /\ ~UdpHeader /\ ~IpHeader /\ ~IpCheckSum /\ ~MacHeader
    <3>1. "at" \in DOMAIN d
      BY DEF Control, Fields
    <3>2. ~LastData
      BY HeaderBegins
    <3>3. ~UdpHeader
      BY <3>1 DEF UdpHeader, Header
    <3>4. ~IpHeader
      BY <3>1 DEF IpHeader, Header
    <3>5. ~IpCheckSum /\ ~MacHeader
      BY <3>1 DEF IpCheckSum, MacHeader, Header
    <3> QED BY <3>2, <3>3, <3>4, <3>5
  <2> QED BY <2>1, <2>2, <2>3 DEF TxData2Buf
<1> DEFINE s == sel.ptr
<1>3. s \in Streams
  BY DEF SelTypes
<1>4. CASE Accept
  <2>1. d.at = "Idle" /\ ~req /\ sel.at = "State_Connected" /\ ~sel.valid /\ d.off = PAYLOAD
        /\ d.connectReq
    BY <1>4 DEF Accept, Control
  <2>2. d'.off = PAYLOAD
    BY <1>4, <2>1 DEF Accept, Follow, Control, Fields
  <2>3. sel'.at = "State_Connected"
    BY <1>1, <2>1 DEF TxStreamSel, Search, NoSearch, Found, SearchOn, Handshake, NoHandshake,
                      Reading, Select
  <2> QED BY <2>2, <2>3 DEF Waits
<1>5. CASE MoreData
  <2>1. d.at = "More_Data" /\ ~(sel.dout.eop /\ sel.valid) /\ ~d.connectReq /\ d.rdReq
    BY <1>5 DEF MoreData, Control
  <2>2. d'.off = IF sel.valid THEN d.off + 1 ELSE d.off
    BY <1>5, <2>1 DEF MoreData, Follow, Control, Fields
  <2>3. ~Ends
    <3> SUFFICES ASSUME Ends PROVE FALSE
      OBVIOUS
    <3>1. sel.valid /\ conn[s] \in DOMAIN Packets[s] /\ sel.dout = DataWord(s, conn[s], Packets[s][conn[s]] - 1)
      BY DEF Ends
    <3>2. Packets[s][conn[s]] - 1 + 1 = Packets[s][conn[s]]
      BY <1>3, <3>1, PacketLengths, StreamsAreSources, SizesAssumption
    <3>3. sel.dout.eop
      BY <3>1, <3>2, LastOfPacket
    <3> QED BY <2>1, <3>1, <3>3
  <2>4. CASE Waits
    <3>1. sel.at = "State_Connected" /\ ~sel.valid /\ d.off = PAYLOAD
      BY <2>4 DEF Waits, Control
    <3>2. sel'.at = "ReadUntilEOP" /\ sel'.ptr = s
      BY <1>1, <2>1, <3>1 DEF TxStreamSel, Search, NoSearch, Found, SearchOn, Handshake,
                              NoHandshake, Reading, Select
    <3>3. ~sel'.valid
      BY <1>1, <3>1, SelPipe
    <3>4. out'[s].valid
      BY <1>3, <3>2 DEF StreamInv, Front, Serves
    <3>5. out'[s].word.i = 0
      BY <1>3, <3>1, <3>4, ReadStep
    <3>6. Reads'
      BY <2>2, <3>1, <3>2, <3>3, <3>5 DEF Reads
    <3> QED BY <3>6
  <2>5. CASE Reads
    <3> DEFINE x == out[s].word
    <3>1. sel.at = "ReadUntilEOP" /\ Serves(s)
      BY <2>5 DEF Reads, Serves
    <3>2. /\ out[s].valid /\ x = DataWord(s, conn[s], x.i)
          /\ conn[s] \in DOMAIN Packets[s] /\ x.i \in 0 .. Packets[s][conn[s]] - 1
      BY <1>3, <3>1, ServedWord
    <3>3. Packets[s][conn[s]] \in Nat
      BY <1>3, <3>2, PacketLengths, StreamsAreSources, SizesAssumption
    <3>4. d'.off = PAYLOAD + x.i
      <4>1. d.off = IF sel.valid THEN PAYLOAD + x.i - 1 ELSE PAYLOAD + x.i
        BY <2>5, PayloadNat DEF Reads
      <4> DEFINE o == d.off
                 o2 == d'.off
                 i == x.i
      <4>2. i \in Int
        BY <3>2, <3>3
      <4>3. o = (IF sel.valid THEN PAYLOAD + i - 1 ELSE PAYLOAD + i)
            /\ o2 = IF sel.valid THEN o + 1 ELSE o
        BY <2>2, <4>1
      <4> HIDE DEF o, o2, i
      <4>4. o2 = PAYLOAD + i
        BY <4>2, <4>3, PayloadNat
      <4> QED BY <4>4 DEF o2, i
    <3>5. ~BufFull
      BY <2>1, UsedAndRoom DEF RoomInv
    <3>6. sel'.valid /\ sel'.stream = s /\ sel'.dout = x
      BY <1>1, <2>1, <3>1, <3>2, <3>5, SelPipe DEF RdReqIn
    <3>7. conn' = conn
      BY <1>1, <3>1 DEF History
    <3>8. sel'.at = (IF x.eop THEN "Idle" ELSE "ReadUntilEOP") /\ sel'.ptr = s
      BY <1>1, <3>1 DEF TxStreamSel, Search, NoSearch, Found, SearchOn, Handshake, NoHandshake,
                        Reading, Select
    <3>9. x.eop <=> x.i + 1 = Packets[s][conn[s]]
      BY <3>2, LastOfPacket
    <3>10. CASE x.eop
      <4>1. x.i = Packets[s][conn[s]] - 1
        BY <3>2, <3>3, <3>9, <3>10
      <4>2. d'.off = PAYLOAD + Packets[s][conn[s]] - 1
        BY <3>3, <3>4, <4>1, PayloadNat
      <4>3. Ends'
        BY <3>2, <3>6, <3>7, <3>8, <3>10, <4>1, <4>2 DEF Ends
      <4> QED BY <4>3
    <3>11. CASE ~x.eop
      <4>1. out'[s].valid
        BY <1>3, <3>8, <3>11 DEF StreamInv, Front, Serves
      <4>2. out'[s].word.i = x.i + 1
        BY <1>3, <3>1, <3>11, <4>1, ReadStep
      <4>3. out'[s].word.i > 0 /\ out'[s].word.i - 1 = x.i /\ d'.off = PAYLOAD + out'[s].word.i - 1
        BY <3>2, <3>3, <3>4, <4>2, PayloadNat
      <4>4. Reads'
        BY <3>2, <3>6, <3>7, <3>8, <3>11, <4>3 DEF Reads
      <4> QED BY <4>4
    <3> QED BY <3>10, <3>11
  <2> QED BY <2>1, <2>3, <2>4, <2>5 DEF Handing
<1> QED BY <1>2, <1>4, <1>5

-----------------------------------------------------------------------------
(* The frame that is being stored, word by word.                           *)

\* The word at the offset o of the frame for the n-th packet of a source.
FrameWord(src, n, o) ==
  LET udp == UdpWords + Packets[src][n]
  IN IF src = CPU THEN DataWord(src, n, o)
     ELSE IF o < MacWords THEN MacWord(o)
     ELSE IF o < UDP_HDR THEN IF o = IP_HDR + ChecksIdx THEN SumWord(udp) ELSE IpWord(udp, o - IP_HDR)
     ELSE IF o < PAYLOAD THEN UdpWord(src, udp, o - UDP_HDR)
     ELSE DataWord(src, n, o - PAYLOAD)

FrameLen(src, n) == IF src = CPU THEN Packets[src][n] ELSE PAYLOAD + Packets[src][n]

\* No frame is longer than the longest.
LEMMA FrameFits ==
  ASSUME NEW s \in Sources, NEW n \in DOMAIN Packets[s]
  PROVE  FrameLen(s, n) \in 1 .. MaxReserv
<1>1. Packets[s][n] \in 1 .. MaxReserv
  BY PacketLengths
<1>2. s # CPU => s \in Streams
  BY SizesAssumption DEF Sources, Streams, CPU
<1>3. s # CPU => PAYLOAD + Packets[s][n] <= MaxReserv
  BY <1>2, PacketsAssumption
<1> QED BY <1>1, <1>3, PayloadNat, SizesAssumption DEF FrameLen

\* A word of the memory, by its distance from a pointer.
Slot(c, p, o) == c[(p + o) % Size]

\* ipmux.vhd:1780-1782: what TxWrDataSrcSel lets through.
Datum == IF d.selSm THEN d.dout ELSE sel.dout

MemTypes == DOMAIN mem = 0 .. Size - 1

\* The memory keeps its addresses.
LEMMA MemStep ==
  ASSUME MemTypes, Pointers, PacketBuffer
  PROVE  MemTypes'
  BY DEF MemTypes, PacketBuffer

\* A write changes the word at its offset and no other.
LEMMA WriteStep ==
  ASSUME MemTypes, Pointers, PacketBuffer, WrEn => d.off \in 0 .. Size - 1, NEW o \in 0 .. Size - 1
  PROVE  Slot(mem', d.ptr, o) = IF WrEn /\ o = d.off THEN Datum ELSE Slot(mem, d.ptr, o)
<1> DEFINE p == d.ptr
           e == d.off
           a == (p + o) % Size
           b == (p + e) % Size
           c == mem
           c2 == mem'
<1>1. c2 = IF WrEn THEN [c EXCEPT ![b] = Datum] ELSE c
  BY DEF PacketBuffer, Datum
<1>2. p \in 0 .. Size - 1 /\ DOMAIN c = 0 .. Size - 1
  BY DEF Pointers, MemTypes
<1>3. a \in 0 .. Size - 1
  <2> HIDE DEF p
  <2> QED BY <1>2, Around, SizePositive
<1>4. WrEn /\ o # e => a # b
  <2>1. WrEn => e \in 0 .. Size - 1
    OBVIOUS
  <2> HIDE DEF p, e
  <2> QED BY <1>2, <2>1, Apart, SizePositive
<1>5. o = e => a = b
  OBVIOUS
<1>6. Slot(mem', d.ptr, o) = c2[a] /\ Slot(mem, d.ptr, o) = c[a]
  BY DEF Slot
<1> HIDE DEF a, b, c, c2, e
<1>7. c2[a] = IF WrEn /\ o = e THEN Datum ELSE c[a]
  BY <1>1, <1>2, <1>3, <1>4, <1>5
<1> QED BY <1>6, <1>7 DEF e

\* A word written within the room leaves those alone that are not sent.
LEMMA UnreadKept ==
  ASSUME MemTypes, Pointers, PacketBuffer, WrEn => d.off \in Nat /\ Used + d.off < Size,
         NEW o \in 0 .. Used - 1
  PROVE  Slot(mem', m.ptr, o) = Slot(mem, m.ptr, o)
<1> DEFINE p == m.ptr
           v == d.ptr
           e == d.off
           u == (v - p) % Size
           a == (p + o) % Size
           b == (v + e) % Size
           c == mem
           c2 == mem'
<1>1. c2 = IF WrEn THEN [c EXCEPT ![b] = Datum] ELSE c
  BY DEF PacketBuffer, Datum
<1>2. p \in 0 .. Size - 1 /\ v \in 0 .. Size - 1 /\ DOMAIN c = 0 .. Size - 1
  BY DEF Pointers, MemTypes
<1>3. Slot(mem', m.ptr, o) = c2[a] /\ Slot(mem, m.ptr, o) = c[a]
  BY DEF Slot
<1>4. (WrEn => e \in Nat /\ u + e < Size) /\ o \in 0 .. u - 1
  BY DEF Used
<1> HIDE DEF p, v, e, c, c2
<1>5. u \in 0 .. Size - 1 /\ (p + u) % Size = v
  BY <1>2, Distance, SizePositive
<1> HIDE DEF u
<1>6. ASSUME WrEn PROVE a # b
  <2>1. e \in Nat /\ u + e < Size /\ u \in Nat /\ o \in 0 .. Size - 1
    BY <1>4, <1>5, <1>6, SizePositive
  <2>2. (((p + u) % Size) + e) % Size = (p + (u + e)) % Size
    BY <1>2, <2>1, Shifted, SizePositive
  <2> DEFINE k == u + e
  <2>3. b = (p + k) % Size
    BY <1>5, <2>2
  <2>4. k \in 0 .. Size - 1 /\ k # o
    BY <1>4, <1>5, <2>1, SizePositive
  <2> HIDE DEF k, b
  <2>5. (p + o) % Size # (p + k) % Size
    BY <1>2, <2>1, <2>4, Apart, SizePositive
  <2> QED BY <2>3, <2>5
<1>7. a \in 0 .. Size - 1
  BY <1>2, <1>4, <1>5, Around, SizePositive
<1> HIDE DEF a, b
<1>8. c2[a] = c[a]
  BY <1>1, <1>2, <1>6, <1>7
<1> QED BY <1>3, <1>8

\* While the data come, those before the offset are in the memory.
DataInv ==
  d.at = "More_Data" =>
    \A o \in PAYLOAD .. d.off - 1 : Slot(mem, d.ptr, o) = FrameWord(sel.ptr, conn[sel.ptr], o)

\* The header that is being written, and how far it is.
HeaderPlace ==
  /\ d.at = "UDP_WriteHeader" => d.idx \in 1 .. UdpWords /\ d.off = UDP_HDR + d.idx - 1
  /\ d.at = "IP_WriteHeader" => d.idx \in 1 .. IpWords /\ d.off = IP_HDR + d.idx - 1
  /\ d.at = "IP_WriteCheckSum" => d.off = IP_HDR + ChecksIdx
  /\ d.at = "MAC_WriteHeader" => d.idx \in 1 .. MacWords /\ d.off = d.idx - 1

\* Words of the frame that are in the memory while the headers are written.
Done(o) ==
  \/ d.at = "UDP_WriteHeader" /\ (o >= PAYLOAD \/ (o >= UDP_HDR /\ o < d.off))
  \/ /\ d.at = "IP_WriteHeader"
     /\ o >= UDP_HDR \/ (o >= IP_HDR /\ o < d.off /\ o # IP_HDR + ChecksIdx)
  \/ d.at = "IP_WriteCheckSum" /\ o >= IP_HDR /\ o # d.off
  \/ d.at = "MAC_WriteHeader" /\ (o >= IP_HDR \/ o < d.off)

HeaderInv ==
  d.at \in Headers =>
    LET s == sel.ptr
        n == conn[s]
    IN /\ n \in DOMAIN Packets[s] /\ d.src = s /\ d.len = UdpWords + Packets[s][n]
       /\ d.end = FrameLen(s, n) - 1
       /\ HeaderPlace
       /\ d.dout = IF d.at = "IP_WriteHeader" THEN IpWord(d.len, d.idx - 1) ELSE FrameWord(s, n, d.off)
       /\ \A o \in 0 .. d.end : Done(o) => Slot(mem, d.ptr, o) = FrameWord(s, n, o)

\* The frame of the CPU: its number, and the words it has put on its port.
CpuFrame == IF cpu = "asks" THEN put[CPU].n + 1 ELSE put[CPU].n
CpuCount == IF cpu = "asks" THEN put[CPU].i ELSE Packets[CPU][CpuFrame]

PortInv ==
  /\ cpu # "asks" \/ d.at # "AccessByCPU" => put[CPU].i = 0
  /\ d.at = "AccessByCPU" =>
       /\ CpuFrame \in DOMAIN Packets[CPU]
       /\ d.wrEn => /\ cpu # "off" /\ CpuCount > 0 /\ d.off = CpuCount - 1
                    /\ d.dout = DataWord(CPU, CpuFrame, CpuCount - 1)
       /\ \A o \in 0 .. CpuCount - 1 :
            (d.wrEn /\ o = d.off) \/ Slot(mem, d.ptr, o) = DataWord(CPU, CpuFrame, o)
       /\ cpu # "asks" => d.end = CpuCount - 1

StoreInv == Control /\ Handing /\ Pointers /\ MemTypes /\ RoomInv /\ DataInv /\ HeaderInv /\ PortInv

\* The CPU's place in its frame.
LEMMA CpuCounts ==
  ASSUME CpuInv, StreamInv, PortInv, d.at = "AccessByCPU"
  PROVE  /\ CpuFrame \in DOMAIN Packets[CPU] /\ Packets[CPU][CpuFrame] \in 1 .. MaxReserv
         /\ CpuCount \in 0 .. Packets[CPU][CpuFrame]
<1> DEFINE n == put[CPU].n
           P == Packets[CPU]
<1>1. n \in Nat /\ put[CPU].i \in Nat
  BY StreamsAreSources DEF CpuInv
<1>2. CpuFrame \in DOMAIN P /\ P[CpuFrame] \in 1 .. MaxReserv
  BY PacketLengths, StreamsAreSources DEF PortInv
<1>3. CASE cpu = "asks"
  <2>1. Progress(CPU) /\ n < Len(P)
    BY <1>3, StreamsAreSources DEF StreamInv, Left
  <2>2. n # Len(P)
    BY <1>1, <2>1, PacketLengths, StreamsAreSources
  <2>3. put[CPU].i < P[n + 1]
    BY <2>1, <2>2 DEF Progress
  <2> QED BY <1>1, <1>2, <1>3, <2>3 DEF CpuFrame, CpuCount
<1>4. CASE cpu # "asks"
  BY <1>2, <1>4 DEF CpuCount
<1> QED BY <1>2, <1>3, <1>4

\* ipmux.vhd:1181 and 1167: whatever is written lies within the longest frame.
LEMMA OffsetFits ==
  ASSUME CpuInv, StreamInv, SelTypes, StoreInv
  PROVE  /\ WrEn => d.off \in 0 .. MaxReserv - 1
         /\ d.at = "More_Data" => d.off \in PAYLOAD .. MaxReserv
<1>1. d.at = "Idle" => ~WrEn
  BY DEF StoreInv, Control, WrEn
<1>2. d.at = "More_Data" => (d.off \in PAYLOAD .. MaxReserv /\ (sel.valid => d.off \in 0 .. MaxReserv - 1))
  <2> SUFFICES ASSUME d.at = "More_Data" PROVE d.off \in PAYLOAD .. MaxReserv /\ (sel.valid => d.off \in 0 .. MaxReserv - 1)
    OBVIOUS
  <2> DEFINE s == sel.ptr
             x == out[s].word
             l == Packets[s][conn[s]]
             o == d.off
  <2>1. s \in Streams /\ s \in Sources
    BY StreamsAreSources DEF SelTypes
  <2>2. conn[s] \in DOMAIN Packets[s] /\ (Waits \/ Reads => x.i \in 0 .. l - 1)
    <3>1. Waits \/ Reads => Serves(s)
      BY DEF Waits, Reads, Serves
    <3>2. Waits \/ Reads \/ Ends
      BY DEF StoreInv, Handing
    <3> QED BY <2>1, <3>1, <3>2, ServedWord DEF Ends
  <2>3. l \in Nat /\ 0 < l /\ PAYLOAD + l <= MaxReserv
    <3>1. l \in 1 .. MaxReserv
      BY <2>1, <2>2, PacketLengths
    <3>2. PAYLOAD + l <= MaxReserv
      BY <2>1, <2>2, PacketsAssumption
    <3> QED BY <3>1, <3>2, SizesAssumption
  <2>4. CASE Waits
    <3>1. ~sel.valid /\ o = PAYLOAD
      BY <2>4 DEF Waits, StoreInv, Control
    <3> HIDE DEF o, l
    <3>2. o \in PAYLOAD .. MaxReserv
      BY <2>3, <3>1, PayloadNat, SizesAssumption
    <3> QED BY <3>1, <3>2 DEF o
  <2>5. CASE Reads
    <3> DEFINE i == x.i
    <3>1. i \in 0 .. l - 1
      BY <2>2, <2>5
    <3>2. IF sel.valid THEN i > 0 /\ o = PAYLOAD + i - 1 ELSE o = PAYLOAD
      BY <2>5 DEF Reads
    <3> HIDE DEF i, l, o
    <3>3. o \in PAYLOAD .. MaxReserv /\ (sel.valid => o \in 0 .. MaxReserv - 1)
      BY <2>3, <3>1, <3>2, PayloadNat, SizesAssumption
    <3> QED BY <3>3 DEF o
  <2>6. CASE Ends
    <3>1. o = PAYLOAD + l - 1
      BY <2>6 DEF Ends
    <3> HIDE DEF l, o
    <3>2. o \in PAYLOAD .. MaxReserv /\ o \in 0 .. MaxReserv - 1
      BY <2>3, <3>1, PayloadNat, SizesAssumption
    <3> QED BY <3>2 DEF o
  <2> QED BY <2>4, <2>5, <2>6 DEF StoreInv, Handing
<1>3. d.at \in Headers => d.off \in 0 .. PAYLOAD - 1 /\ PAYLOAD <= MaxReserv
  <2> SUFFICES ASSUME d.at \in Headers PROVE d.off \in 0 .. PAYLOAD - 1 /\ PAYLOAD <= MaxReserv
    OBVIOUS
  <2> DEFINE s == sel.ptr
  <2>1. s \in Streams /\ s \in Sources /\ s # CPU
    BY StreamsAreSources DEF SelTypes
  <2>2. conn[s] \in DOMAIN Packets[s] /\ HeaderPlace
    BY DEF StoreInv, HeaderInv
  <2>3. PAYLOAD <= MaxReserv
    <3>1. Packets[s][conn[s]] \in 1 .. MaxReserv /\ PAYLOAD + Packets[s][conn[s]] <= MaxReserv
      BY <2>1, <2>2, PacketLengths, PacketsAssumption
    <3> QED BY <3>1, PayloadNat, SizesAssumption
  <2>4. d.off \in 0 .. PAYLOAD - 1
    BY <2>2, SizesAssumption DEF HeaderPlace, Headers, IP_HDR, UDP_HDR, PAYLOAD
  <2> QED BY <2>3, <2>4
<1>4. d.at = "AccessByCPU" /\ WrEn => d.off \in 0 .. MaxReserv - 1
  <2> SUFFICES ASSUME d.at = "AccessByCPU", WrEn PROVE d.off \in 0 .. MaxReserv - 1
    OBVIOUS
  <2>1. d.wrEn
    BY DEF WrEn, StoreInv, Control
  <2>2. CpuCount > 0 /\ d.off = CpuCount - 1 /\ CpuCount \in 0 .. MaxReserv
    BY <2>1, CpuCounts, SizesAssumption DEF StoreInv, PortInv
  <2> QED BY <2>2, SizesAssumption
<1>5. d.at = "More_Data" => (WrEn => sel.valid)
  BY DEF WrEn, StoreInv, Control
<1>6. d.at \in {"Idle", "More_Data", "AccessByCPU"} \cup Headers
  BY DEF StoreInv, Control
<1>7. d.at \in Headers => d.off \in 0 .. MaxReserv - 1
  BY <1>3, PayloadNat, SizesAssumption
<1> QED BY <1>1, <1>2, <1>4, <1>5, <1>6, <1>7

\* The parts of a frame, each from its first word.
LEMMA FrameWords ==
  ASSUME NEW s \in Streams, NEW n
  PROVE  LET udp == UdpWords + Packets[s][n]
         IN /\ \A j \in Nat : FrameWord(s, n, PAYLOAD + j) = DataWord(s, n, j)
            /\ \A j \in 0 .. UdpWords - 1 : FrameWord(s, n, UDP_HDR + j) = UdpWord(s, udp, j)
            /\ \A j \in 0 .. IpWords - 1 :
                 FrameWord(s, n, IP_HDR + j) = IF j = ChecksIdx THEN SumWord(udp) ELSE IpWord(udp, j)
            /\ \A j \in 0 .. MacWords - 1 : FrameWord(s, n, j) = MacWord(j)
<1> DEFINE udp == UdpWords + Packets[s][n]
<1>1. s # CPU
  BY StreamsAreSources
<1>2. ASSUME NEW o
      PROVE  FrameWord(s, n, o) =
             IF o < MacWords THEN MacWord(o)
             ELSE IF o < UDP_HDR THEN IF o = IP_HDR + ChecksIdx THEN SumWord(udp) ELSE IpWord(udp, o - IP_HDR)
             ELSE IF o < PAYLOAD THEN UdpWord(s, udp, o - UDP_HDR)
             ELSE DataWord(s, n, o - PAYLOAD)
  BY <1>1 DEF FrameWord
<1> HIDE DEF udp
<1>3. ASSUME NEW j \in Nat PROVE FrameWord(s, n, PAYLOAD + j) = DataWord(s, n, j)
  <2> DEFINE o == PAYLOAD + j
  <2>1. ~(o < MacWords) /\ ~(o < UDP_HDR) /\ ~(o < PAYLOAD) /\ o - PAYLOAD = j
    BY SizesAssumption DEF PAYLOAD, UDP_HDR
  <2> HIDE DEF o
  <2>2. FrameWord(s, n, o) = DataWord(s, n, j)
    BY <1>2, <2>1
  <2> QED BY <2>2 DEF o
<1>4. ASSUME NEW j \in 0 .. UdpWords - 1 PROVE FrameWord(s, n, UDP_HDR + j) = UdpWord(s, udp, j)
  <2> DEFINE o == UDP_HDR + j
  <2>1. ~(o < MacWords) /\ ~(o < UDP_HDR) /\ o < PAYLOAD /\ o - UDP_HDR = j
    BY SizesAssumption DEF PAYLOAD, UDP_HDR
  <2> HIDE DEF o
  <2>2. FrameWord(s, n, o) = UdpWord(s, udp, j)
    BY <1>2, <2>1
  <2> QED BY <2>2 DEF o
<1>5. ASSUME NEW j \in 0 .. IpWords - 1
      PROVE  FrameWord(s, n, IP_HDR + j) = IF j = ChecksIdx THEN SumWord(udp) ELSE IpWord(udp, j)
  <2> DEFINE o == IP_HDR + j
  <2>1. ~(o < MacWords) /\ o < UDP_HDR /\ o - IP_HDR = j /\ (o = IP_HDR + ChecksIdx <=> j = ChecksIdx)
    BY SizesAssumption DEF UDP_HDR, IP_HDR
  <2> HIDE DEF o
  <2>2. FrameWord(s, n, o) = IF j = ChecksIdx THEN SumWord(udp) ELSE IpWord(udp, j)
    BY <1>2, <2>1
  <2> QED BY <2>2 DEF o
<1>6. ASSUME NEW j \in 0 .. MacWords - 1 PROVE FrameWord(s, n, j) = MacWord(j)
  BY <1>2, SizesAssumption
<1> QED BY <1>3, <1>4, <1>5, <1>6 DEF udp

\* While a packet is stored the stream it comes from is not left.
LEMMA StreamStays ==
  ASSUME StoreInv, SelTypes, d.at = "More_Data" \/ d.at \in Headers, TxStreamSel, NEW stall,
         History(stall)
  PROVE  sel'.ptr = sel.ptr /\ conn' = conn
<1>1. ~d.connectReq
  BY DEF StoreInv, Control, Headers
<1>2. sel.at # "SearchConnect"
  BY DEF StoreInv, Control, Handing, Waits, Reads, Ends
<1>3. conn' = conn
  BY <1>2 DEF History
<1>4. sel'.ptr = sel.ptr
  BY <1>1, <1>2 DEF TxStreamSel, Search, NoSearch, Found, SearchOn, Handshake, NoHandshake, Reading,
                    Select
<1> QED BY <1>3, <1>4

\* The data are followed only after a packet was accepted.
LEMMA ToMoreData ==
  ASSUME Control, NEW bus, TxData2Buf(bus), d'.at = "More_Data"
  PROVE  Accept \/ MoreData
<1>1. "at" \in DOMAIN d
  BY DEF Control, Fields
<1>2. ~Grant(bus) /\ ~AccessByCPU(bus)
  BY <1>1 DEF Grant, AccessByCPU, CpuAccess
<1>3. ~NotReady /\ ~Store
  BY DEF NotReady, Store, Released
<1>4. ~LastData
  BY HeaderBegins
<1>5. ~UdpHeader /\ ~IpHeader
  BY <1>1 DEF UdpHeader, IpHeader, Header
<1>6. ~IpCheckSum /\ ~MacHeader
  BY <1>1 DEF IpCheckSum, MacHeader, Header
<1> QED BY <1>2, <1>3, <1>4, <1>5, <1>6 DEF TxData2Buf

\* The word that is on its way and the place it goes to.
LEMMA WordOnItsWay ==
  ASSUME StoreInv, StreamInv, SelTypes, d.at = "More_Data", sel.valid
  PROVE  sel.dout = FrameWord(sel.ptr, conn[sel.ptr], d.off)
<1> DEFINE s == sel.ptr
           n == conn[s]
<1>1. s \in Streams /\ s \in Sources
  BY StreamsAreSources DEF SelTypes
<1>2. CASE Reads
  <2> DEFINE i == out[s].word.i
             j == i - 1
  <2>1. i > 0 /\ d.off = PAYLOAD + i - 1 /\ sel.dout = DataWord(s, n, j)
    BY <1>2 DEF Reads
  <2>2. i \in Int
    <3>1. Serves(s)
      BY <1>2 DEF Reads, Serves
    <3>2. n \in DOMAIN Packets[s] /\ i \in 0 .. Packets[s][n] - 1
      BY <1>1, <3>1, ServedWord
    <3> QED BY <3>2
  <2>3. j \in Nat /\ d.off = PAYLOAD + j
    <3> DEFINE o == d.off
    <3>1. o = PAYLOAD + i - 1 /\ i > 0
      BY <2>1
    <3> HIDE DEF o, i
    <3>2. i - 1 \in Nat /\ o = PAYLOAD + (i - 1)
      BY <2>2, <3>1, PayloadNat
    <3> QED BY <3>2 DEF o
  <2> HIDE DEF j
  <2>4. FrameWord(s, n, PAYLOAD + j) = DataWord(s, n, j)
    BY <1>1, <2>3, FrameWords
  <2> QED BY <2>1, <2>3, <2>4
<1>3. CASE Ends
  <2> DEFINE j == Packets[s][n] - 1
  <2>1. n \in DOMAIN Packets[s] /\ d.off = PAYLOAD + Packets[s][n] - 1 /\ sel.dout = DataWord(s, n, j)
    BY <1>3 DEF Ends
  <2>2. Packets[s][n] \in 1 .. MaxReserv
    BY <1>1, <2>1, PacketLengths
  <2>3. j \in Nat /\ d.off = PAYLOAD + j
    BY <2>1, <2>2, PayloadNat, SizesAssumption
  <2> HIDE DEF j
  <2>4. FrameWord(s, n, PAYLOAD + j) = DataWord(s, n, j)
    BY <1>1, <2>3, FrameWords
  <2> QED BY <2>1, <2>3, <2>4
<1>4. ~Waits
  BY DEF Waits, StoreInv, Control
<1> QED BY <1>2, <1>3, <1>4 DEF StoreInv, Handing

\* ipmux.vhd:1320-1376: the data are stored word by word.
LEMMA DataStep ==
  ASSUME StoreInv, CpuInv, StreamInv, SelTypes, TxStreamSel, PacketBuffer, NEW stall, History(stall),
         NEW bus, TxData2Buf(bus)
  PROVE  DataInv'
<1> SUFFICES ASSUME d'.at = "More_Data", NEW o \in PAYLOAD .. d'.off - 1
             PROVE  Slot(mem', d'.ptr, o) = FrameWord(sel'.ptr, conn'[sel'.ptr], o)
  BY DEF DataInv, Slot, FrameWord
<1>1. Control
  BY DEF StoreInv
<1>2. CASE Accept
  <2>1. d'.off = PAYLOAD
    BY <1>1, <1>2 DEF Accept, Follow, Control, Fields
  <2> QED BY <2>1, PayloadNat
<1>3. CASE MoreData
  <2>1. d.at = "More_Data" /\ ~d.connectReq /\ ~d.selSm
    BY <1>1, <1>3 DEF MoreData, Control
  <2>2. d'.off = (IF sel.valid THEN d.off + 1 ELSE d.off) /\ d'.ptr = d.ptr
    BY <1>1, <1>3, <2>1 DEF MoreData, Follow, Control, Fields
  <2>3. sel'.ptr = sel.ptr /\ conn' = conn
    BY <2>1, StreamStays
  <2>4. d.off \in PAYLOAD .. MaxReserv /\ (WrEn => d.off \in 0 .. MaxReserv - 1)
    BY <2>1, OffsetFits
  <2>5. o \in 0 .. Size - 1 /\ (WrEn => d.off \in 0 .. Size - 1)
        /\ (o \in PAYLOAD .. d.off - 1 \/ (o = d.off /\ sel.valid))
    <3> DEFINE e == d.off
               e2 == d'.off
    <3>1. e2 = (IF sel.valid THEN e + 1 ELSE e) /\ e \in PAYLOAD .. MaxReserv
          /\ (WrEn => e \in 0 .. MaxReserv - 1) /\ o \in PAYLOAD .. e2 - 1 /\ (sel.valid <=> WrEn)
      BY <2>1, <2>2, <2>4 DEF WrEn
    <3> HIDE DEF e, e2
    <3>2. o \in 0 .. Size - 1 /\ (WrEn => e \in 0 .. Size - 1)
          /\ (o \in PAYLOAD .. e - 1 \/ (o = e /\ sel.valid))
      BY <3>1, PayloadNat, SizesAssumption
    <3> QED BY <3>2 DEF e
  <2>6. Slot(mem', d.ptr, o) = IF WrEn /\ o = d.off THEN Datum ELSE Slot(mem, d.ptr, o)
    BY <2>5, WriteStep DEF StoreInv
  <2>7. CASE o = d.off /\ sel.valid
    <3>1. WrEn /\ Datum = sel.dout
      BY <2>1, <2>7 DEF WrEn, Datum
    <3>2. sel.dout = FrameWord(sel.ptr, conn[sel.ptr], o)
      BY <2>1, <2>7, WordOnItsWay
    <3> QED BY <2>2, <2>3, <2>6, <2>7, <3>1, <3>2
  <2>8. CASE o \in PAYLOAD .. d.off - 1
    <3>1. o # d.off
      BY <2>4, <2>8
    <3>2. Slot(mem, d.ptr, o) = FrameWord(sel.ptr, conn[sel.ptr], o)
      BY <2>1, <2>8 DEF StoreInv, DataInv
    <3> QED BY <2>2, <2>3, <2>6, <3>1, <3>2
  <2> QED BY <2>5, <2>7, <2>8
<1> QED BY <1>1, <1>2, <1>3, ToMoreData

\* A header is written after the data or after a word of a header.
LEMMA ToHeader ==
  ASSUME Control, NEW bus, TxData2Buf(bus), d'.at \in Headers
  PROVE  LastData \/ UdpHeader \/ IpHeader \/ IpCheckSum \/ MacHeader
<1>1. "at" \in DOMAIN d
  BY DEF Control, Fields
<1>2. ~Grant(bus) /\ ~AccessByCPU(bus)
  BY <1>1 DEF Grant, AccessByCPU, CpuAccess, Headers
<1>3. ~NotReady /\ ~Store
  BY DEF NotReady, Store, Released, Headers
<1>4. d'.at # "More_Data"
  BY DEF Headers
<1>5. ~Accept
  BY <1>1, <1>4 DEF Accept, Follow
<1>6. ~MoreData
  BY <1>1, <1>4 DEF MoreData, Follow
<1> QED BY <1>2, <1>3, <1>5, <1>6 DEF TxData2Buf

\* The words of a frame that are in the memory after an edge.
LEMMA FrameGrows ==
  ASSUME StoreInv, CpuInv, StreamInv, SelTypes, PacketBuffer, NEW o \in 0 .. MaxReserv - 1,
         NEW x,
         \/ ~(WrEn /\ o = d.off) /\ Slot(mem, d.ptr, o) = x
         \/ WrEn /\ o = d.off /\ Datum = x
  PROVE  Slot(mem', d.ptr, o) = x
<1>1. o \in 0 .. Size - 1 /\ (WrEn => d.off \in 0 .. Size - 1)
  BY OffsetFits, SizesAssumption
<1>2. Slot(mem', d.ptr, o) = IF WrEn /\ o = d.off THEN Datum ELSE Slot(mem, d.ptr, o)
  BY <1>1, WriteStep DEF StoreInv
<1> QED BY <1>2

\* The first header follows the last word of the data.
LEMMA HeadersBegin ==
  ASSUME StoreInv, CpuInv, StreamInv, SelTypes, TxStreamSel, PacketBuffer, NEW stall,
         History(stall), LastData
  PROVE  HeaderInv'
<1> DEFINE s == sel.ptr
           n == conn[s]
           l == Packets[s][n]
           udp == UdpWords + l
<1>1. d.at = "More_Data" /\ sel.valid /\ Ends
  BY LastAtEnd DEF LastData, StoreInv
<1>2. s \in Streams /\ s \in Sources /\ s # CPU
  BY StreamsAreSources DEF SelTypes
<1>3. /\ n \in DOMAIN Packets[s] /\ d.off = PAYLOAD + l - 1 /\ sel.stream = s
  BY <1>1 DEF Ends
<1>4. l \in 1 .. MaxReserv /\ PAYLOAD + l <= MaxReserv
  BY <1>2, <1>3, PacketLengths, PacketsAssumption
<1>5. UdpWords + d.off + 1 - PAYLOAD = udp
  <2> DEFINE o == d.off
  <2>1. o = PAYLOAD + l - 1 /\ l \in Int
    BY <1>3, <1>4
  <2> HIDE DEF o, l
  <2> QED BY <2>1, PayloadNat, SizesAssumption DEF o
<1>6. /\ d'.at = "UDP_WriteHeader" /\ d'.dout = UdpWord(s, udp, 0)
      /\ d'.off = UDP_HDR /\ d'.idx = 1 /\ d'.ptr = d.ptr /\ d'.end = d.off
      /\ d'.len = udp /\ d'.src = s
  BY <1>3, <1>5, HeaderBegins DEF StoreInv
<1>7. sel'.ptr = s /\ conn' = conn
  BY <1>1, StreamStays
<1>8. d'.dout = FrameWord(s, n, d'.off)
  <2>1. FrameWord(s, n, UDP_HDR + 0) = UdpWord(s, udp, 0)
    BY <1>2, FrameWords, SizesAssumption
  <2>2. UDP_HDR + 0 = UDP_HDR
    BY SizesAssumption DEF UDP_HDR
  <2> QED BY <1>6, <2>1, <2>2
<1>9. d'.end = FrameLen(s, n) - 1
  <2>1. FrameLen(s, n) = PAYLOAD + l
    BY <1>2 DEF FrameLen
  <2>2. d'.end = PAYLOAD + l - 1
    BY <1>3, <1>6
  <2> HIDE DEF l
  <2> QED BY <1>4, <2>1, <2>2, PayloadNat
<1>10. HeaderPlace'
  BY <1>6, SizesAssumption DEF HeaderPlace, UDP_HDR
<1>11. ASSUME NEW o \in 0 .. d'.end, Done(o)' PROVE Slot(mem', d.ptr, o) = FrameWord(s, n, o)
  <2>1. o >= PAYLOAD /\ o <= d.off
    BY <1>6, <1>11, SizesAssumption DEF Done, UDP_HDR
  <2>2. d.off \in 0 .. MaxReserv - 1 /\ d.off \in Int
    BY <1>3, <1>4, PayloadNat, SizesAssumption
  <2>3. o \in 0 .. MaxReserv - 1 /\ o \in Int
    <3> DEFINE e == d.off
    <3>1. o \in 0 .. e /\ e \in 0 .. MaxReserv - 1
      BY <1>6, <2>2
    <3> HIDE DEF e
    <3> QED BY <3>1, SizesAssumption
  <2>4. WrEn /\ Datum = sel.dout
    BY <1>1 DEF WrEn, Datum, StoreInv, Control
  <2>5. CASE o = d.off
    <3>1. sel.dout = FrameWord(s, n, o)
      BY <1>1, <2>5, WordOnItsWay
    <3> QED BY <2>3, <2>4, <2>5, <3>1, FrameGrows
  <2>6. CASE o # d.off
    <3>1. o \in PAYLOAD .. d.off - 1
      BY <1>6, <2>1, <2>2, <2>6, PayloadNat
    <3>2. Slot(mem, d.ptr, o) = FrameWord(s, n, o)
      BY <1>1, <3>1 DEF StoreInv, DataInv
    <3> QED BY <2>3, <2>6, <3>2, FrameGrows
  <2> QED BY <2>5, <2>6
<1>12. HeaderInv' <=>
         /\ n \in DOMAIN Packets[s] /\ d'.src = s /\ d'.len = udp /\ d'.end = FrameLen(s, n) - 1
         /\ HeaderPlace' /\ d'.dout = FrameWord(s, n, d'.off)
         /\ \A o \in 0 .. d'.end : Done(o)' => Slot(mem', d'.ptr, o) = FrameWord(s, n, o)
  BY <1>6, <1>7 DEF HeaderInv, Headers, Slot, FrameWord, FrameLen
<1> QED BY <1>3, <1>6, <1>8, <1>9, <1>10, <1>11, <1>12

\* A header goes on, or the next one follows.
LEMMA HeadersGoOn ==
  ASSUME StoreInv, CpuInv, StreamInv, SelTypes, TxStreamSel, PacketBuffer, NEW stall,
         History(stall), d.at \in Headers, d'.at \in Headers,
         d'.ptr = d.ptr, d'.end = d.end, d'.len = d.len, d'.src = d.src, HeaderPlace',
         d'.dout = IF d'.at = "IP_WriteHeader" THEN IpWord(d.len, d'.idx - 1)
                   ELSE FrameWord(sel.ptr, conn[sel.ptr], d'.off),
         \A o \in Nat : Done(o)' => \/ Done(o) /\ o # d.off
                                    \/ o = d.off /\ d.dout = FrameWord(sel.ptr, conn[sel.ptr], o)
  PROVE  HeaderInv'
<1> DEFINE s == sel.ptr
           n == conn[s]
<1>1. s \in Streams /\ s \in Sources
  BY StreamsAreSources DEF SelTypes
<1>2. sel'.ptr = s /\ conn' = conn
  BY StreamStays
<1>3. /\ n \in DOMAIN Packets[s] /\ d.src = s /\ d.len = UdpWords + Packets[s][n]
      /\ d.end = FrameLen(s, n) - 1
      /\ \A o \in 0 .. d.end : Done(o) => Slot(mem, d.ptr, o) = FrameWord(s, n, o)
  BY DEF StoreInv, HeaderInv
<1>4. FrameLen(s, n) \in 1 .. MaxReserv
  BY <1>1, <1>3, FrameFits
<1>5. WrEn /\ Datum = d.dout
  BY DEF WrEn, Datum, StoreInv, Control, Headers
<1>6. ASSUME NEW o \in 0 .. d.end, Done(o)' PROVE Slot(mem', d.ptr, o) = FrameWord(s, n, o)
  <2>1. o \in 0 .. MaxReserv - 1 /\ o \in Nat
    BY <1>3, <1>4, SizesAssumption
  <2>2. CASE Done(o) /\ o # d.off
    <3>1. Slot(mem, d.ptr, o) = FrameWord(s, n, o)
      BY <1>3, <2>2
    <3> QED BY <2>1, <2>2, <3>1, FrameGrows
  <2>3. CASE o = d.off /\ d.dout = FrameWord(s, n, o)
    BY <1>5, <2>1, <2>3, FrameGrows
  <2> QED BY <1>6, <2>1, <2>2, <2>3
<1>7. HeaderInv' <=>
         /\ n \in DOMAIN Packets[s] /\ d'.src = s /\ d'.len = UdpWords + Packets[s][n]
         /\ d'.end = FrameLen(s, n) - 1 /\ HeaderPlace'
         /\ d'.dout = (IF d'.at = "IP_WriteHeader" THEN IpWord(d'.len, d'.idx - 1)
                       ELSE FrameWord(s, n, d'.off))
         /\ \A o \in 0 .. d'.end : Done(o)' => Slot(mem', d'.ptr, o) = FrameWord(s, n, o)
  BY <1>2 DEF HeaderInv, Slot, FrameWord, FrameLen
<1> QED BY <1>3, <1>6, <1>7

\* What is known of the header that is being written.
LEMMA InHeader ==
  ASSUME StoreInv, SelTypes, d.at \in Headers
  PROVE  LET s == sel.ptr
             n == conn[s]
         IN /\ s \in Streams /\ n \in DOMAIN Packets[s] /\ d.src = s /\ d.len = UdpWords + Packets[s][n]
            /\ HeaderPlace /\ DOMAIN d = Fields
            /\ d.at # "IP_WriteHeader" => d.dout = FrameWord(s, n, d.off)
            /\ d.at = "IP_WriteHeader" => d.dout = IpWord(d.len, d.idx - 1)
  BY DEF StoreInv, HeaderInv, SelTypes, Control

\* A header's word is stored and another put in its place.
LEMMA HeadersStep ==
  ASSUME StoreInv, CpuInv, StreamInv, SelTypes, TxStreamSel, PacketBuffer, NEW stall,
         History(stall), d.at \in Headers, NEW at \in Headers, NEW w, NEW off, NEW idx,
         d' = Header(at, w, off, idx),
         at = "UDP_WriteHeader" => idx \in 1 .. UdpWords /\ off = UDP_HDR + idx - 1,
         at = "IP_WriteHeader" => idx \in 1 .. IpWords /\ off = IP_HDR + idx - 1,
         at = "IP_WriteCheckSum" => off = IP_HDR + ChecksIdx,
         at = "MAC_WriteHeader" => idx \in 1 .. MacWords /\ off = idx - 1,
         w = IF at = "IP_WriteHeader" THEN IpWord(d.len, idx - 1)
             ELSE FrameWord(sel.ptr, conn[sel.ptr], off),
         \A o \in Nat :
           (\/ at = "UDP_WriteHeader" /\ (o >= PAYLOAD \/ (o >= UDP_HDR /\ o < off))
            \/ /\ at = "IP_WriteHeader"
               /\ o >= UDP_HDR \/ (o >= IP_HDR /\ o < off /\ o # IP_HDR + ChecksIdx)
            \/ at = "IP_WriteCheckSum" /\ o >= IP_HDR /\ o # off
            \/ at = "MAC_WriteHeader" /\ (o >= IP_HDR \/ o < off))
           => \/ Done(o) /\ o # d.off
              \/ o = d.off /\ d.dout = FrameWord(sel.ptr, conn[sel.ptr], o)
  PROVE  HeaderInv'
<1>1. DOMAIN d = Fields
  BY InHeader
<1>2. /\ d'.at = at /\ d'.dout = w /\ d'.off = off /\ d'.idx = idx
      /\ d'.ptr = d.ptr /\ d'.end = d.end /\ d'.len = d.len /\ d'.src = d.src
  BY <1>1, HeaderFields
<1>3. HeaderPlace'
  BY <1>2 DEF HeaderPlace
<1>4. \A o \in Nat : Done(o)' => \/ Done(o) /\ o # d.off
                                 \/ o = d.off /\ d.dout = FrameWord(sel.ptr, conn[sel.ptr], o)
  BY <1>2 DEF Done
<1>5. d'.dout = IF d'.at = "IP_WriteHeader" THEN IpWord(d.len, d'.idx - 1)
                ELSE FrameWord(sel.ptr, conn[sel.ptr], d'.off)
  BY <1>2
<1> QED BY <1>2, <1>3, <1>4, <1>5, HeadersGoOn

\* ipmux.vhd:1377-1415: a word of the UDP header.
LEMMA UdpHeaderStep ==
  ASSUME StoreInv, CpuInv, StreamInv, SelTypes, TxStreamSel, PacketBuffer, NEW stall,
         History(stall), UdpHeader
  PROVE  HeaderInv'
<1> DEFINE s == sel.ptr
           n == conn[s]
           x == d.idx
           e == d.off
           udp == UdpWords + Packets[s][n]
<1>1. d.at = "UDP_WriteHeader" /\ d.at \in Headers
  BY DEF UdpHeader, Headers
<1>2. s \in Streams /\ x \in 1 .. UdpWords /\ e = UDP_HDR + x - 1 /\ d.dout = FrameWord(s, n, e)
      /\ d.src = s /\ d.len = udp
  BY <1>1, InHeader DEF HeaderPlace
<1>3. \A o : Done(o) <=> (o >= PAYLOAD \/ (o >= UDP_HDR /\ o < e))
  BY <1>1 DEF Done
<1>4. CASE x = UdpWords
  <2> DEFINE at == "IP_WriteHeader"
             w == IpWord(d.len, 0)
  <2>1. d' = Header(at, w, IP_HDR, 1)
    BY <1>4 DEF UdpHeader
  <2>2. 1 \in 1 .. IpWords /\ IP_HDR = IP_HDR + 1 - 1 /\ 1 - 1 = 0
    BY SizesAssumption DEF IP_HDR
  <2>3. ASSUME NEW o \in Nat, o >= UDP_HDR \/ (o >= IP_HDR /\ o < IP_HDR /\ o # IP_HDR + ChecksIdx)
        PROVE  \/ (o >= PAYLOAD \/ (o >= UDP_HDR /\ o < e)) /\ o # e
               \/ o = e
    <3> HIDE DEF x, e
    <3> QED BY <1>2, <1>4, <2>3, SizesAssumption DEF UDP_HDR, PAYLOAD, IP_HDR
  <2>4. at \in Headers
    BY DEF Headers
  <2> QED BY <1>1, <1>2, <1>3, <2>1, <2>2, <2>3, <2>4, HeadersStep
<1>5. CASE x # UdpWords
  <2> DEFINE at == "UDP_WriteHeader"
             w == UdpWord(d.src, d.len, x)
             off == UDP_HDR + x
             idx == x + 1
  <2>1. d' = Header(at, w, off, idx)
    BY <1>1, <1>5 DEF UdpHeader
  <2>2. idx \in 1 .. UdpWords /\ off = UDP_HDR + idx - 1 /\ x \in 0 .. UdpWords - 1
    <3> HIDE DEF x
    <3> QED BY <1>2, <1>5, SizesAssumption DEF UDP_HDR
  <2>3. w = FrameWord(s, n, off)
    <3>1. FrameWord(s, n, UDP_HDR + x) = UdpWord(s, udp, x)
      BY <1>2, <2>2, FrameWords
    <3> QED BY <1>2, <3>1
  <2>4. ASSUME NEW o \in Nat, o >= PAYLOAD \/ (o >= UDP_HDR /\ o < off)
        PROVE  \/ (o >= PAYLOAD \/ (o >= UDP_HDR /\ o < e)) /\ o # e
               \/ o = e
    <3> HIDE DEF x, e
    <3> QED BY <1>2, <1>5, <2>4, SizesAssumption DEF UDP_HDR, PAYLOAD
  <2>5. at \in Headers /\ at # "IP_WriteHeader" /\ at # "IP_WriteCheckSum" /\ at # "MAC_WriteHeader"
    BY DEF Headers
  <2> HIDE DEF w, off, idx
  <2> QED BY <1>1, <1>2, <1>3, <2>1, <2>2, <2>3, <2>4, <2>5, HeadersStep
<1> QED BY <1>4, <1>5

\* ipmux.vhd:1416-1442: a word of the IP header.
LEMMA IpHeaderStep ==
  ASSUME StoreInv, CpuInv, StreamInv, SelTypes, TxStreamSel, PacketBuffer, NEW stall,
         History(stall), IpHeader
  PROVE  HeaderInv'
<1> DEFINE s == sel.ptr
           n == conn[s]
           x == d.idx
           e == d.off
           udp == UdpWords + Packets[s][n]
           c == IP_HDR + ChecksIdx
<1>1. d.at = "IP_WriteHeader" /\ d.at \in Headers
  BY DEF IpHeader, Headers
<1>2. s \in Streams /\ x \in 1 .. IpWords /\ e = IP_HDR + x - 1 /\ d.dout = IpWord(udp, x - 1)
      /\ d.src = s /\ d.len = udp
  BY <1>1, InHeader DEF HeaderPlace
<1>3. \A o : Done(o) <=> (o >= UDP_HDR \/ (o >= IP_HDR /\ o < e /\ o # c))
  BY <1>1 DEF Done
<1>4. e # c => d.dout = FrameWord(s, n, e)
  <2> DEFINE j == x - 1
  <2>1. j \in 0 .. IpWords - 1 /\ e = IP_HDR + j /\ (e # c => j # ChecksIdx)
    <3> HIDE DEF x, e
    <3> QED BY <1>2, SizesAssumption DEF IP_HDR
  <2>2. FrameWord(s, n, IP_HDR + j) = IF j = ChecksIdx THEN SumWord(udp) ELSE IpWord(udp, j)
    BY <1>2, <2>1, FrameWords
  <2>3. d.dout = IpWord(udp, j)
    BY <1>2
  <2> HIDE DEF j, e, c, udp
  <2> QED BY <2>1, <2>2, <2>3
<1>5. CASE x = IpWords
  <2> DEFINE at == "IP_WriteCheckSum"
             w == SumWord(d.len)
  <2>1. d' = Header(at, w, c, x)
    BY <1>5 DEF IpHeader
  <2>2. w = FrameWord(s, n, c)
    <3>1. FrameWord(s, n, IP_HDR + ChecksIdx) = SumWord(udp)
      BY <1>2, FrameWords, SizesAssumption
    <3> QED BY <1>2, <3>1
  <2>3. ASSUME NEW o \in Nat, o >= IP_HDR /\ o # c
        PROVE  \/ (o >= UDP_HDR \/ (o >= IP_HDR /\ o < e /\ o # c)) /\ o # e
               \/ o = e /\ e # c
    <3> HIDE DEF x, e
    <3> QED BY <1>2, <1>5, <2>3, SizesAssumption DEF UDP_HDR, PAYLOAD, IP_HDR
  <2>4. at \in Headers /\ at # "IP_WriteHeader" /\ at # "UDP_WriteHeader" /\ at # "MAC_WriteHeader"
    BY DEF Headers
  <2>5. \A o \in Nat : o >= IP_HDR /\ o # c => (Done(o) /\ o # e)
                                             \/ (o = e /\ d.dout = FrameWord(s, n, o))
    <3> HIDE DEF e, c, s, n
    <3>1. ASSUME NEW o \in Nat, o >= IP_HDR /\ o # c, o # e PROVE Done(o)
      BY <1>3, <2>3, <3>1
    <3> QED BY <1>4, <3>1, Zenon
  <2> HIDE DEF w
  <2> QED BY <1>1, <2>1, <2>2, <2>4, <2>5, HeadersStep
<1>6. CASE x # IpWords
  <2> DEFINE at == "IP_WriteHeader"
             w == IpWord(d.len, x)
             off == IP_HDR + x
             idx == x + 1
  <2>1. d' = Header(at, w, off, idx)
    BY <1>1, <1>6 DEF IpHeader
  <2>2. idx \in 1 .. IpWords /\ off = IP_HDR + idx - 1 /\ idx - 1 = x
    <3> HIDE DEF x
    <3> QED BY <1>2, <1>6, SizesAssumption DEF IP_HDR
  <2>3. w = IpWord(d.len, idx - 1)
    BY <2>2
  <2>4. ASSUME NEW o \in Nat, o >= UDP_HDR \/ (o >= IP_HDR /\ o < off /\ o # c)
        PROVE  \/ (o >= UDP_HDR \/ (o >= IP_HDR /\ o < e /\ o # c)) /\ o # e
               \/ o = e /\ e # c
    <3> HIDE DEF x, e
    <3> QED BY <1>2, <1>6, <2>4, SizesAssumption DEF UDP_HDR, PAYLOAD, IP_HDR
  <2>5. \A o \in Nat : o >= UDP_HDR \/ (o >= IP_HDR /\ o < off /\ o # c)
                      => (Done(o) /\ o # e)
                         \/ (o = e /\ d.dout = FrameWord(s, n, o))
    <3> HIDE DEF e, c
    <3> QED BY <1>3, <1>4, <2>4
  <2>6. at \in Headers /\ at # "UDP_WriteHeader" /\ at # "IP_WriteCheckSum" /\ at # "MAC_WriteHeader"
    BY DEF Headers
  <2> HIDE DEF w, off, idx
  <2> QED BY <1>1, <2>1, <2>2, <2>3, <2>5, <2>6, HeadersStep
<1> QED BY <1>5, <1>6

\* ipmux.vhd:1443-1460: the checksum of the IP header.
LEMMA IpCheckSumStep ==
  ASSUME StoreInv, CpuInv, StreamInv, SelTypes, TxStreamSel, PacketBuffer, NEW stall,
         History(stall), IpCheckSum
  PROVE  HeaderInv'
<1> DEFINE s == sel.ptr
           n == conn[s]
           at == "MAC_WriteHeader"
           w == MacWord(0)
<1>1. d.at = "IP_WriteCheckSum" /\ d.at \in Headers
  BY DEF IpCheckSum, Headers
<1>2. s \in Streams /\ d.dout = FrameWord(s, n, d.off)
  BY <1>1, InHeader
<1>3. \A o : Done(o) <=> o >= IP_HDR /\ o # d.off
  BY <1>1 DEF Done
<1>4. d' = Header(at, w, 0, 1)
  BY DEF IpCheckSum
<1>5. 1 \in 1 .. MacWords /\ 0 = 1 - 1 /\ \A o \in Nat : ~(o < 0)
  BY SizesAssumption
<1>6. w = FrameWord(s, n, 0)
  <2>1. 0 \in 0 .. MacWords - 1
    BY SizesAssumption
  <2> QED BY <1>2, <2>1, FrameWords
<1>7. at \in Headers /\ at # "UDP_WriteHeader" /\ at # "IP_WriteHeader" /\ at # "IP_WriteCheckSum"
  BY DEF Headers
<1>8. \A o \in Nat : o >= IP_HDR \/ o < 0 => (Done(o) /\ o # d.off)
                                          \/ (o = d.off /\ d.dout = FrameWord(s, n, o))
  <2> DEFINE e == d.off
  <2> HIDE DEF e
  <2>1. ASSUME NEW o \in Nat, o >= IP_HDR, o # e PROVE Done(o)
    BY <1>3, <2>1 DEF e
  <2>2. d.dout = FrameWord(s, n, e)
    BY <1>2 DEF e
  <2> HIDE DEF s, n
  <2>3. \A o \in Nat : o >= IP_HDR \/ o < 0 => (Done(o) /\ o # e)
                                            \/ (o = e /\ d.dout = FrameWord(s, n, o))
    BY <1>5, <2>1, <2>2, Zenon
  <2> QED BY <2>3 DEF e, s, n
<1> HIDE DEF w
<1> QED BY <1>1, <1>4, <1>5, <1>6, <1>7, <1>8, HeadersStep

\* ipmux.vhd:1540-1551: a word of the MAC header.
LEMMA MacHeaderStep ==
  ASSUME StoreInv, CpuInv, StreamInv, SelTypes, TxStreamSel, PacketBuffer, NEW stall,
         History(stall), MacHeader
  PROVE  HeaderInv'
<1> DEFINE s == sel.ptr
           n == conn[s]
           x == d.idx
           e == d.off
           at == "MAC_WriteHeader"
           w == MacWord(x)
           idx == x + 1
<1>1. d.at = at /\ d.at \in Headers /\ x # MacWords
  BY DEF MacHeader, Headers
<1>2. s \in Streams /\ x \in 1 .. MacWords /\ e = x - 1 /\ d.dout = FrameWord(s, n, e)
  BY <1>1, InHeader DEF HeaderPlace
<1>3. \A o : Done(o) <=> o >= IP_HDR \/ o < e
  BY <1>1 DEF Done
<1>4. d' = Header(at, w, x, idx)
  BY DEF MacHeader
<1>5. idx \in 1 .. MacWords /\ x = idx - 1 /\ x \in 0 .. MacWords - 1
  <2> HIDE DEF x
  <2> QED BY <1>1, <1>2, SizesAssumption
<1>6. w = FrameWord(s, n, x)
  BY <1>2, <1>5, FrameWords
<1>7. at \in Headers /\ at # "UDP_WriteHeader" /\ at # "IP_WriteHeader" /\ at # "IP_WriteCheckSum"
  BY DEF Headers
<1>8. ASSUME NEW o \in Nat, o >= IP_HDR \/ o < x
      PROVE  ((o >= IP_HDR \/ o < e) /\ o # e) \/ o = e
  <2> HIDE DEF x, e
  <2> QED BY <1>2, <1>8, SizesAssumption DEF IP_HDR
<1>9. \A o \in Nat : o >= IP_HDR \/ o < x => (Done(o) /\ o # e)
                                          \/ (o = e /\ d.dout = FrameWord(s, n, o))
  <2> HIDE DEF e
  <2>1. ASSUME NEW o \in Nat, o >= IP_HDR \/ o < x, o # e PROVE Done(o)
    BY <1>3, <1>8, <2>1
  <2>2. d.dout = FrameWord(s, n, e)
    BY <1>2
  <2> HIDE DEF s, n
  <2> QED BY <2>1, <2>2, Zenon
<1> HIDE DEF w, idx, x
<1> QED BY <1>1, <1>4, <1>5, <1>6, <1>7, <1>9, HeadersStep

\* ipmux.vhd:1377-1551: word by word the headers are put before the data.
LEMMA HeaderStep ==
  ASSUME StoreInv, CpuInv, StreamInv, SelTypes, TxStreamSel, PacketBuffer, NEW stall,
         History(stall), NEW bus, TxData2Buf(bus)
  PROVE  HeaderInv'
<1>1. CASE d'.at \in Headers
  <2>1. LastData \/ UdpHeader \/ IpHeader \/ IpCheckSum \/ MacHeader
    BY <1>1, ToHeader DEF StoreInv
  <2> QED BY <2>1, HeadersBegin, UdpHeaderStep, IpHeaderStep, IpCheckSumStep, MacHeaderStep
<1>2. CASE d'.at \notin Headers
  BY <1>2 DEF HeaderInv
<1> QED BY <1>1, <1>2

\* The CPU gets the buffer when it asks, and keeps it while it does.
LEMMA ToAccess ==
  ASSUME Control, NEW bus, TxData2Buf(bus), d'.at = "AccessByCPU"
  PROVE  Grant(bus) \/ AccessByCPU(bus)
<1>1. "at" \in DOMAIN d
  BY DEF Control, Fields
<1>2. ~Accept /\ ~MoreData
  <2> DEFINE a == d'.at
  <2>1. Accept => a = "More_Data"
    BY <1>1 DEF Accept, Follow
  <2>2. MoreData => a = "More_Data"
    BY <1>1 DEF MoreData, Follow
  <2> QED BY <2>1, <2>2
<1>3. ~NotReady /\ ~Store
  BY DEF NotReady, Store, Released
<1>4. ~LastData
  BY HeaderBegins
<1>5. ~UdpHeader /\ ~IpHeader
  BY <1>1 DEF UdpHeader, IpHeader, Header
<1>6. ~IpCheckSum /\ ~MacHeader
  BY <1>1 DEF IpCheckSum, MacHeader, Header
<1> QED BY <1>2, <1>3, <1>4, <1>5, <1>6 DEF TxData2Buf

\* ipmux.vhd:1629-1641: what is on the CPU's port goes to the registers.
LEMMA AccessMoves ==
  ASSUME DOMAIN d = Fields, NEW bus, d' = CpuAccess(bus)
  PROVE  /\ d'.at = "AccessByCPU" /\ d'.ptr = d.ptr /\ d'.off = bus.word.i
         /\ d'.dout = bus.word /\ (d'.wrEn <=> bus.wrEn)
         /\ d'.end = IF bus.word.eop /\ bus.wrEn THEN bus.word.i ELSE d.end
<1>1. /\ d'.at = "AccessByCPU" /\ d'.ptr = d.ptr /\ d'.off = bus.word.i
      /\ d'.dout = bus.word /\ d'.wrEn = bus.wrEn
  BY DEF CpuAccess, Fields
<1>2. d'.end = IF bus.word.eop /\ bus.wrEn THEN bus.word.i ELSE d.end
  BY DEF CpuAccess, Fields
<1> QED BY <1>1, <1>2, Zenon

\* What the CPU has put on its port is in the memory an edge later.
LEMMA PortWords ==
  ASSUME StoreInv, CpuInv, StreamInv, SelTypes, PacketBuffer, d.at = "AccessByCPU",
         NEW o \in 0 .. CpuCount - 1
  PROVE  Slot(mem', d.ptr, o) = DataWord(CPU, CpuFrame, o)
<1>1. PortInv /\ (WrEn <=> d.wrEn) /\ (WrEn => Datum = d.dout)
  BY DEF StoreInv, Control, WrEn, Datum
<1>2. o \in 0 .. MaxReserv - 1 /\ CpuCount \in Int
  <2> DEFINE c == CpuCount
             l == Packets[CPU][CpuFrame]
  <2>1. c \in 0 .. l /\ l \in 1 .. MaxReserv /\ o \in 0 .. c - 1
    BY <1>1, CpuCounts
  <2> HIDE DEF c, l
  <2>2. o \in 0 .. MaxReserv - 1 /\ c \in Int
    BY <2>1, SizesAssumption
  <2> QED BY <2>2 DEF c
<1>3. CASE d.wrEn /\ o = d.off
  <2>1. d.off = CpuCount - 1 /\ d.dout = DataWord(CPU, CpuFrame, CpuCount - 1)
    BY <1>1, <1>3 DEF PortInv
  <2>2. d.dout = DataWord(CPU, CpuFrame, o)
    BY <1>3, <2>1
  <2> QED BY <1>1, <1>2, <1>3, <2>2, FrameGrows
<1>4. CASE ~(d.wrEn /\ o = d.off)
  <2>1. Slot(mem, d.ptr, o) = DataWord(CPU, CpuFrame, o)
    BY <1>1, <1>4 DEF PortInv
  <2> QED BY <1>1, <1>2, <1>4, <2>1, FrameGrows
<1> QED BY <1>3, <1>4

\* ipmux.vhd:1629-1641: the words of the port of the CPU.
LEMMA PortStep ==
  ASSUME StoreInv, CpuInv, StreamInv, SelTypes, PacketBuffer, NEW bus, TxData2Buf(bus),
         CpuRest(bus) \/ CpuWord(bus)
  PROVE  PortInv'
<1> DEFINE n == put[CPU].n
           i == put[CPU].i
<1>1. Control /\ PortInv /\ DOMAIN d = Fields /\ n \in Nat /\ i \in Nat
  BY StreamsAreSources DEF StoreInv, Control, CpuInv
<1>2. /\ d.gnt <=> d.at = "AccessByCPU"
      /\ cpu = "done" => d.at = "AccessByCPU"
  BY <1>1 DEF Control
<1>3. d.at = "AccessByCPU" /\ cpu = "asks" => d'.at = "AccessByCPU"
  <2> SUFFICES ASSUME d.at = "AccessByCPU", cpu = "asks" PROVE d'.at = "AccessByCPU"
    OBVIOUS
  <2>1. AccessByCPU(bus)
    BY DEF TxData2Buf, Grant, Accept, NotReady, MoreData, LastData, UdpHeader, IpHeader, IpCheckSum,
           MacHeader, Store, Stores, req
  <2> QED BY <1>1, <2>1, AccessMoves DEF AccessByCPU
<1>4. cpu' # "asks" \/ d'.at # "AccessByCPU" => put'[CPU].i = 0
  BY <1>1, <1>2, <1>3 DEF PortInv, CpuRest, CpuWord
<1>5. ASSUME d'.at = "AccessByCPU", Grant(bus)
      PROVE  /\ CpuFrame' \in DOMAIN Packets[CPU] /\ ~d'.wrEn /\ CpuCount' = 0 /\ cpu' = "asks"
  <2>1. d.at = "Idle" /\ cpu # "off" /\ d' = CpuAccess(bus) /\ ~d.gnt
    BY <1>2, <1>5 DEF Grant, req
  <2>2. bus = NoBus /\ put'[CPU] = put[CPU] /\ cpu # "done"
    BY <1>2, <2>1 DEF CpuRest, CpuWord
  <2>3. cpu = "asks" /\ cpu' = "asks"
    BY <2>1, <2>2 DEF CpuInv, CpuRest, CpuWord
  <2>4. ~d'.wrEn
    <3>1. ~bus.wrEn
      BY <2>2 DEF NoBus
    <3> QED BY <1>1, <2>1, <3>1, AccessMoves
  <2>5. CpuCount' = 0
    BY <1>1, <2>1, <2>2, <2>3 DEF PortInv, CpuCount
  <2>6. n < Len(Packets[CPU])
    BY <2>3 DEF StreamInv, Left
  <2>7. n + 1 \in DOMAIN Packets[CPU]
    BY <1>1, <2>6, PacketLengths, StreamsAreSources
  <2>8. CpuFrame' = n + 1
    BY <2>2, <2>3 DEF CpuFrame
  <2> QED BY <2>3, <2>4, <2>5, <2>7, <2>8
<1>6. ASSUME d.at = "AccessByCPU", AccessByCPU(bus), CpuRest(bus)
      PROVE  /\ CpuFrame' = CpuFrame /\ CpuCount' = CpuCount /\ ~d'.wrEn /\ d'.ptr = d.ptr
             /\ d'.end = d.end /\ (cpu' = "asks" <=> cpu = "asks")
  <2>1. bus = NoBus /\ put'[CPU] = put[CPU] /\ (cpu' = "asks" <=> cpu = "asks")
    BY <1>6 DEF CpuRest, AccessByCPU, req
  <2>2. CpuFrame' = CpuFrame /\ CpuCount' = CpuCount
    BY <2>1 DEF CpuFrame, CpuCount
  <2>3. d' = CpuAccess(bus) /\ ~bus.wrEn
    BY <1>6, <2>1 DEF AccessByCPU, NoBus
  <2> QED BY <1>1, <2>1, <2>2, <2>3, AccessMoves
<1>7. ASSUME d.at = "AccessByCPU", AccessByCPU(bus), CpuWord(bus)
      PROVE  /\ CpuFrame' = CpuFrame /\ CpuCount' = CpuCount + 1 /\ d'.wrEn /\ d'.ptr = d.ptr
             /\ d'.off = CpuCount /\ d'.dout = DataWord(CPU, CpuFrame, CpuCount)
             /\ cpu' # "off" /\ (cpu' # "asks" => d'.end = CpuCount)
  <2>1. /\ bus = [wrEn |-> TRUE, word |-> NextWord(CPU)] /\ cpu = "asks"
        /\ IF NextWord(CPU).eop THEN cpu' = "done" /\ put'[CPU].n = n + 1 /\ put'[CPU].i = 0
           ELSE cpu' = "asks" /\ put'[CPU].n = n /\ put'[CPU].i = i + 1
    BY <1>7 DEF CpuWord
  <2>2. CpuFrame = n + 1 /\ CpuCount = i /\ NextWord(CPU) = DataWord(CPU, n + 1, i)
    BY <2>1 DEF CpuFrame, CpuCount, NextWord
  <2>3. NextWord(CPU).eop <=> i + 1 = Packets[CPU][n + 1]
    BY <2>2, LastOfPacket
  <2>4. NextWord(CPU).i = i
    BY <2>2 DEF DataWord, Wd
  <2>5. d' = CpuAccess(bus) /\ bus.wrEn /\ bus.word = NextWord(CPU)
    BY <1>7, <2>1 DEF AccessByCPU
  <2>6. /\ d'.wrEn /\ d'.ptr = d.ptr /\ d'.off = i /\ d'.dout = DataWord(CPU, n + 1, i)
        /\ NextWord(CPU).eop => d'.end = i
    BY <1>1, <2>2, <2>4, <2>5, AccessMoves
  <2>7. CpuFrame' = n + 1 /\ CpuCount' = i + 1
    BY <2>1, <2>3 DEF CpuFrame, CpuCount
  <2> QED BY <2>1, <2>2, <2>6, <2>7
<1>8. ASSUME d'.at = "AccessByCPU"
      PROVE  /\ CpuFrame' \in DOMAIN Packets[CPU]
             /\ d'.wrEn => /\ cpu' # "off" /\ CpuCount' > 0 /\ d'.off = CpuCount' - 1
                           /\ d'.dout = DataWord(CPU, CpuFrame', CpuCount' - 1)
             /\ \A o \in 0 .. CpuCount' - 1 :
                  (d'.wrEn /\ o = d'.off) \/ Slot(mem', d'.ptr, o) = DataWord(CPU, CpuFrame', o)
             /\ cpu' # "asks" => d'.end = CpuCount' - 1
  <2>1. CASE Grant(bus)
    BY <1>5, <1>8, <2>1
  <2>2. CASE AccessByCPU(bus)
    <3> DEFINE c == CpuCount
               f == CpuFrame
    <3>1. d.at = "AccessByCPU"
      BY <2>2 DEF AccessByCPU
    <3>2. f \in DOMAIN Packets[CPU] /\ c \in Nat
      BY <1>1, <3>1, CpuCounts, SizesAssumption
    <3>3. \A o \in 0 .. c - 1 : Slot(mem', d.ptr, o) = DataWord(CPU, f, o)
      BY <3>1, PortWords
    <3>4. CASE CpuRest(bus)
      <4>1. cpu # "asks" => d.end = c - 1
        BY <1>1, <3>1 DEF PortInv
      <4> HIDE DEF c, f
      <4> QED BY <1>6, <2>2, <3>1, <3>2, <3>3, <3>4, <4>1 DEF c, f
    <3>5. CASE CpuWord(bus)
      <4>1. /\ CpuFrame' = f /\ CpuCount' = c + 1 /\ d'.wrEn /\ d'.ptr = d.ptr
            /\ d'.off = c /\ d'.dout = DataWord(CPU, f, c)
            /\ cpu' # "off" /\ (cpu' # "asks" => d'.end = c)
        BY <1>7, <2>2, <3>1, <3>5
      <4> HIDE DEF c, f
      <4>2. c + 1 > 0 /\ c + 1 - 1 = c /\ \A o \in 0 .. c : o = c \/ o \in 0 .. c - 1
        BY <3>2
      <4> QED BY <3>2, <3>3, <4>1, <4>2
    <3> QED BY <3>4, <3>5
  <2> QED BY <1>1, <1>8, <2>1, <2>2, ToAccess
<1> QED BY <1>4, <1>8 DEF PortInv, Slot, DataWord

\* Only the last word of a frame has EOP.
LEMMA LastOfFrame ==
  ASSUME NEW s \in Sources, NEW n \in DOMAIN Packets[s], NEW o \in 0 .. FrameLen(s, n) - 1
  PROVE  FrameWord(s, n, o).eop <=> o + 1 = FrameLen(s, n)
<1> DEFINE l == Packets[s][n]
           udp == UdpWords + l
<1>1. l \in 1 .. MaxReserv /\ FrameLen(s, n) = IF s = CPU THEN l ELSE PAYLOAD + l
  BY PacketLengths DEF FrameLen
<1>2. o \in Int
  BY <1>1, PayloadNat, SizesAssumption
<1>3. CASE s = CPU
  <2>1. FrameWord(s, n, o) = DataWord(s, n, o)
    BY <1>3 DEF FrameWord
  <2> QED BY <1>1, <1>3, <2>1, LastOfPacket
<1>4. CASE s # CPU /\ o >= PAYLOAD
  <2>1. ~(o < PAYLOAD) /\ ~(o < UDP_HDR) /\ ~(o < MacWords)
    BY <1>2, <1>4, SizesAssumption DEF PAYLOAD, UDP_HDR
  <2>2. FrameWord(s, n, o) = DataWord(s, n, o - PAYLOAD)
    BY <1>4, <2>1 DEF FrameWord
  <2>3. FrameWord(s, n, o).eop <=> o - PAYLOAD + 1 = l
    BY <2>2, LastOfPacket
  <2> HIDE DEF l
  <2> QED BY <1>1, <1>2, <1>4, <2>3, PayloadNat
<1>5. CASE s # CPU /\ ~(o >= PAYLOAD)
  <2>1. \/ FrameWord(s, n, o) = MacWord(o)
        \/ FrameWord(s, n, o) = SumWord(udp)
        \/ FrameWord(s, n, o) = IpWord(udp, o - IP_HDR)
        \/ FrameWord(s, n, o) = UdpWord(s, udp, o - UDP_HDR)
    BY <1>2, <1>5, PayloadNat DEF FrameWord
  <2>2. FrameWord(s, n, o).eop = FALSE
    BY <2>1 DEF MacWord, SumWord, IpWord, UdpWord, Wd
  <2>3. o + 1 # FrameLen(s, n)
    <3> HIDE DEF l
    <3> QED BY <1>1, <1>2, <1>5, PayloadNat
  <2> QED BY <2>2, <2>3
<1> QED BY <1>3, <1>4, <1>5

\* ipmux.vhd:1461-1539: what is complete when the pointer moves past it.
LEMMA StoredFrame ==
  ASSUME StoreInv, CpuInv, StreamInv, SelTypes, PacketBuffer, Stores
  PROVE  /\ Source \in Sources /\ Number \in DOMAIN Packets[Source] /\ Number \in Nat
         /\ d.end + 1 = FrameLen(Source, Number) /\ d.end \in Nat
         /\ \A o \in 0 .. FrameLen(Source, Number) - 1 :
              Slot(mem', d.ptr, o) = FrameWord(Source, Number, o)
<1>1. CASE d.at = "MAC_WriteHeader" /\ d.idx = MacWords
  <2> DEFINE s == sel.ptr
             n == conn[s]
             l == FrameLen(s, n)
             e == d.off
             b == d.end
  <2>1. d.at \in Headers /\ d.at # "AccessByCPU" /\ d.at # "IP_WriteHeader"
    BY <1>1 DEF Headers
  <2>2. s \in Streams /\ s \in Sources /\ n \in DOMAIN Packets[s] /\ d.dout = FrameWord(s, n, e)
        /\ HeaderPlace
    BY <2>1, InHeader, StreamsAreSources
  <2>3. b = l - 1 /\ \A o \in 0 .. b : Done(o) => Slot(mem, d.ptr, o) = FrameWord(s, n, o)
    BY <2>1 DEF StoreInv, HeaderInv
  <2>4. l \in 1 .. MaxReserv
    BY <2>2, FrameFits
  <2>5. e = MacWords - 1
    BY <1>1, <2>2 DEF HeaderPlace
  <2>6. \A o : Done(o) <=> o >= IP_HDR \/ o < e
    BY <1>1 DEF Done
  <2>7. WrEn /\ Datum = d.dout
    BY <2>1 DEF WrEn, Datum, StoreInv, Control, Headers
  <2>8. ASSUME NEW o \in 0 .. l - 1 PROVE Slot(mem', d.ptr, o) = FrameWord(s, n, o)
    <3>1. o \in 0 .. MaxReserv - 1 /\ o \in 0 .. b /\ (o >= IP_HDR \/ o < e \/ o = e)
      <4> HIDE DEF l, e, b
      <4> QED BY <2>3, <2>4, <2>5, SizesAssumption DEF IP_HDR
    <3>2. CASE o = e
      BY <2>2, <2>7, <3>1, <3>2, FrameGrows
    <3>3. CASE o # e
      <4>1. Slot(mem, d.ptr, o) = FrameWord(s, n, o)
        BY <2>3, <2>6, <3>1, <3>3
      <4> QED BY <3>1, <3>3, <4>1, FrameGrows
    <3> QED BY <3>2, <3>3
  <2>9. Source = s /\ Number = n
    BY <2>1 DEF Source, Number
  <2>10. b + 1 = l /\ b \in Nat
    BY <2>3, <2>4
  <2>11. n \in Nat
    BY <2>2, PacketLengths
  <2> QED BY <2>2, <2>8, <2>9, <2>10, <2>11
<1>2. CASE d.at = "AccessByCPU" /\ ~req
  <2> DEFINE n == put[CPU].n
             l == FrameLen(CPU, n)
  <2>1. cpu = "off" /\ Source = CPU /\ Number = n /\ CpuFrame = n
    BY <1>2 DEF req, Source, Number, CpuFrame
  <2>2. n \in DOMAIN Packets[CPU] /\ n \in Nat
    BY <1>2, <2>1, PacketLengths, StreamsAreSources DEF StoreInv, PortInv
  <2>3. CpuCount = l /\ l \in 1 .. MaxReserv
    BY <2>1, <2>2, FrameFits, StreamsAreSources DEF CpuCount, FrameLen
  <2>4. d.end = l - 1
    BY <1>2, <2>1, <2>3 DEF StoreInv, PortInv
  <2>5. ASSUME NEW o \in 0 .. l - 1 PROVE Slot(mem', d.ptr, o) = FrameWord(CPU, n, o)
    <3>1. Slot(mem', d.ptr, o) = DataWord(CPU, n, o)
      BY <1>2, <2>1, <2>3, PortWords
    <3> QED BY <3>1 DEF FrameWord
  <2>6. d.end + 1 = l /\ d.end \in Nat
    BY <2>3, <2>4
  <2> QED BY <2>1, <2>2, <2>5, <2>6, StreamsAreSources
<1> QED BY <1>1, <1>2 DEF Stores

\* What is still to be sent of a frame of which t words are.
Rem(src, n, t) == [j \in 1 .. FrameLen(src, n) - t |-> FrameWord(src, n, t + j - 1)]

\* What is left begins with the next word, and then with the one after.
LEMMA RemOf ==
  ASSUME NEW s \in Sources, NEW n \in DOMAIN Packets[s], NEW t \in 0 .. FrameLen(s, n) - 1
  PROVE  /\ Rem(s, n, t) # <<>> /\ Len(Rem(s, n, t)) = FrameLen(s, n) - t
         /\ Head(Rem(s, n, t)) = FrameWord(s, n, t)
         /\ Tail(Rem(s, n, t)) = Rem(s, n, t + 1)
<1> DEFINE l == FrameLen(s, n)
           S == {FrameWord(s, n, o) : o \in Nat}
           r == Rem(s, n, t)
           r2 == Rem(s, n, t + 1)
<1>1. l \in Nat /\ t \in Nat /\ t < l
  BY FrameFits, SizesAssumption
<1> HIDE DEF l
<1>2. l - t \in Nat /\ l - t # 0 /\ l - (t + 1) \in Nat /\ (l - t) - 1 = l - (t + 1)
  BY <1>1
<1>3. r = [j \in 1 .. l - t |-> FrameWord(s, n, t + j - 1)]
      /\ r2 = [j \in 1 .. l - (t + 1) |-> FrameWord(s, n, t + 1 + j - 1)]
  BY DEF Rem, l
<1>4. r \in Seq(S) /\ r2 \in Seq(S)
  <2>1. \A j \in 1 .. l - t : t + j - 1 \in Nat
    BY <1>1
  <2>2. \A j \in 1 .. l - (t + 1) : t + 1 + j - 1 \in Nat
    BY <1>1
  <2> DEFINE F(j) == FrameWord(s, n, t + j - 1)
             G(j) == FrameWord(s, n, t + 1 + j - 1)
  <2>3. \A j \in 1 .. l - t : F(j) \in S
    BY <2>1
  <2>4. \A j \in 1 .. l - (t + 1) : G(j) \in S
    BY <2>2
  <2>5. r \in [1 .. l - t -> S] /\ r2 \in [1 .. l - (t + 1) -> S]
    BY <1>3, <2>3, <2>4
  <2> HIDE DEF S, r, r2
  <2> QED BY <1>2, <2>5, SeqDef
<1>5. Len(r) = l - t /\ Len(r2) = l - (t + 1) /\ r # <<>>
  <2>1. DOMAIN r = 1 .. l - t /\ DOMAIN r2 = 1 .. l - (t + 1)
    BY <1>3
  <2> HIDE DEF S, r, r2
  <2> QED BY <1>2, <1>4, <2>1, LenProperties, EmptySeq
<1>6. r[1] = FrameWord(s, n, t)
  <2>1. 1 \in 1 .. l - t /\ t + 1 - 1 = t
    BY <1>1, <1>2
  <2> HIDE DEF r
  <2> QED BY <1>3, <2>1
<1>7. \A j \in 1 .. l - (t + 1) : r2[j] = r[j + 1]
  <2> TAKE j \in 1 .. l - (t + 1)
  <2>1. j + 1 \in 1 .. l - t /\ t + 1 + j - 1 = t + (j + 1) - 1
    BY <1>1
  <2> HIDE DEF r, r2
  <2> QED BY <1>3, <2>1
<1> HIDE DEF r, r2, S
<1>8. Head(r) = r[1] /\ Tail(r) \in Seq(S) /\ Len(Tail(r)) = (l - t) - 1
      /\ \A j \in 1 .. Len(Tail(r)) : Tail(r)[j] = r[j + 1]
  BY <1>2, <1>4, <1>5, HeadTailProperties
<1>9. Tail(r) = r2
  BY <1>2, <1>4, <1>5, <1>7, <1>8, SeqEqual
<1> QED BY <1>5, <1>6, <1>8, <1>9 DEF r, r2, l

\* The words of a frame from the offset a to before b.
Part(src, n, a, b) == [j \in 1 .. b - a |-> FrameWord(src, n, a + j - 1)]

OfFrame(src, n) == {FrameWord(src, n, o) : o \in Nat}

\* A part of a frame is a sequence of its words.
LEMMA PartTypes ==
  ASSUME NEW s, NEW n, NEW a \in Nat, NEW b \in Nat, a <= b
  PROVE  Part(s, n, a, b) \in Seq(OfFrame(s, n)) /\ Len(Part(s, n, a, b)) = b - a
<1> DEFINE S == OfFrame(s, n)
           F(j) == FrameWord(s, n, a + j - 1)
           p == Part(s, n, a, b)
<1>1. b - a \in Nat /\ \A j \in 1 .. b - a : a + j - 1 \in Nat
  OBVIOUS
<1>2. \A j \in 1 .. b - a : F(j) \in S
  BY <1>1 DEF OfFrame
<1>3. p = [j \in 1 .. b - a |-> F(j)]
  BY DEF Part
<1>4. p \in [1 .. b - a -> S]
  BY <1>2, <1>3
<1> HIDE DEF S, p
<1>6. p \in Seq(S)
  BY <1>1, <1>4, SeqDef
<1>7. Len(p) = b - a
  BY <1>1, <1>4, <1>6, LenProperties
<1> QED BY <1>6, <1>7 DEF S, p

Joined(p, r) == p \o r

\* Two parts that meet are one.
LEMMA PartsMeet ==
  ASSUME NEW s, NEW n, NEW a \in Nat, NEW b \in Nat, NEW c \in Nat, a <= b, b <= c
  PROVE  Joined(Part(s, n, a, b), Part(s, n, b, c)) = Part(s, n, a, c)
<1> DEFINE S == OfFrame(s, n)
           p == Part(s, n, a, b)
           r == Part(s, n, b, c)
           z == Part(s, n, a, c)
<1>1. /\ p \in Seq(S) /\ Len(p) = b - a /\ \A j \in 1 .. b - a : p[j] = FrameWord(s, n, a + j - 1)
      /\ r \in Seq(S) /\ Len(r) = c - b /\ \A j \in 1 .. c - b : r[j] = FrameWord(s, n, b + j - 1)
      /\ z \in Seq(S) /\ Len(z) = c - a /\ \A j \in 1 .. c - a : z[j] = FrameWord(s, n, a + j - 1)
  <2>1. /\ p \in Seq(S) /\ Len(p) = b - a /\ \A j \in 1 .. b - a : p[j] = FrameWord(s, n, a + j - 1)
        /\ r \in Seq(S) /\ Len(r) = c - b /\ \A j \in 1 .. c - b : r[j] = FrameWord(s, n, b + j - 1)
    <3>1. p \in Seq(S) /\ Len(p) = b - a
      BY PartTypes
    <3>2. r \in Seq(S) /\ Len(r) = c - b
      BY PartTypes
    <3>3. \A j \in 1 .. b - a : p[j] = FrameWord(s, n, a + j - 1)
      BY DEF Part
    <3>4. \A j \in 1 .. c - b : r[j] = FrameWord(s, n, b + j - 1)
      BY DEF Part
    <3> QED BY <3>1, <3>2, <3>3, <3>4
  <2>2. a <= c
    OBVIOUS
  <2>3. z \in Seq(S) /\ Len(z) = c - a /\ \A j \in 1 .. c - a : z[j] = FrameWord(s, n, a + j - 1)
    <3>1. z \in Seq(S) /\ Len(z) = c - a
      BY <2>2, PartTypes
    <3>2. \A j \in 1 .. c - a : z[j] = FrameWord(s, n, a + j - 1)
      BY DEF Part
    <3> QED BY <3>1, <3>2
  <2> QED BY <2>1, <2>3
<1> HIDE DEF S, p, r, z
<1> DEFINE y == p \o r
<1>2. /\ y \in Seq(S) /\ Len(y) = Len(p) + Len(r)
      /\ \A j \in 1 .. Len(p) + Len(r) : y[j] = IF j <= Len(p) THEN p[j] ELSE r[j - Len(p)]
  BY <1>1, ConcatProperties
<1> HIDE DEF y
<1>3. Len(y) = c - a /\ \A j \in 1 .. c - a : y[j] = IF j <= b - a THEN p[j] ELSE r[j - (b - a)]
  <2> DEFINE lp == Len(p)
             lr == Len(r)
  <2>1. lp = b - a /\ lr = c - b /\ Len(y) = lp + lr
    BY <1>1, <1>2
  <2>2. \A j \in 1 .. lp + lr : y[j] = IF j <= lp THEN p[j] ELSE r[j - lp]
    BY <1>2
  <2> HIDE DEF lp, lr
  <2>3. lp + lr = c - a
    BY <2>1
  <2> QED BY <2>1, <2>2, <2>3
<1>4. ASSUME NEW j \in 1 .. c - a PROVE y[j] = z[j]
  <2>1. CASE j <= b - a
    <3>1. j \in 1 .. b - a
      BY <2>1
    <3> QED BY <1>1, <1>3, <2>1, <3>1
  <2>2. CASE ~(j <= b - a)
    <3> DEFINE i == j - (b - a)
    <3>1. i \in 1 .. c - b /\ b + i - 1 = a + j - 1
      BY <2>2
    <3>2. y[j] = r[i]
      BY <1>3, <2>2
    <3> HIDE DEF i
    <3> QED BY <1>1, <3>1, <3>2
  <2> QED BY <2>1, <2>2
<1>5. y = z
  BY <1>1, <1>2, <1>3, <1>4, SeqEqual
<1> QED BY <1>5 DEF Joined, y, p, r, z

\* And so are four.
LEMMA FourParts ==
  ASSUME NEW s, NEW n, NEW o \in Nat, NEW a \in Nat, NEW b \in Nat, NEW c \in Nat, NEW e \in Nat,
         o <= a, a <= b, b <= c, c <= e
  PROVE  Joined(Joined(Joined(Part(s, n, o, a), Part(s, n, a, b)), Part(s, n, b, c)), Part(s, n, c, e))
         = Part(s, n, o, e)
<1>1. o <= b /\ o <= c
  OBVIOUS
<1>2. Joined(Part(s, n, o, a), Part(s, n, a, b)) = Part(s, n, o, b)
  BY PartsMeet
<1>3. Joined(Part(s, n, o, b), Part(s, n, b, c)) = Part(s, n, o, c)
  BY <1>1, PartsMeet
<1>4. Joined(Part(s, n, o, c), Part(s, n, c, e)) = Part(s, n, o, e)
  BY <1>1, PartsMeet
<1> QED BY <1>2, <1>3, <1>4

\* The frame as it must leave is what is left when nothing was sent.
LEMMA FrameIsRem ==
  ASSUME NEW s \in Sources, NEW n \in DOMAIN Packets[s]
  PROVE  FrameOf(s, n) = Rem(s, n, 0)
<1> DEFINE l == Packets[s][n]
           udp == UdpWords + l
           F(o) == FrameWord(s, n, o)
           Data == [j \in 1 .. l |-> DataWord(s, n, j - 1)]
           MacHead == [j \in 1 .. MacWords |-> MacWord(j - 1)]
           Ip == [j \in 1 .. IpWords |->
                    IF j - 1 = ChecksIdx THEN SumWord(udp) ELSE IpWord(udp, j - 1)]
           Udp == [j \in 1 .. UdpWords |-> UdpWord(s, udp, j - 1)]
<1>1. l \in Nat
  BY PacketLengths, SizesAssumption
<1>2. FrameOf(s, n) = IF s = CPU THEN Data ELSE MacHead \o Ip \o Udp \o Data
  BY DEF FrameOf
<1>3. CASE s = CPU
  <2>1. FrameLen(s, n) - 0 = l /\ \A j \in 1 .. l : 0 + j - 1 = j - 1
    BY <1>1, <1>3 DEF FrameLen
  <2>2. \A j \in 1 .. l : FrameWord(s, n, 0 + j - 1) = DataWord(s, n, j - 1)
    BY <1>3, <2>1 DEF FrameWord
  <2>3. Rem(s, n, 0) = [j \in 1 .. l |-> FrameWord(s, n, 0 + j - 1)]
    BY <2>1 DEF Rem
  <2> HIDE DEF l
  <2> QED BY <1>2, <1>3, <2>2, <2>3
<1>4. CASE s # CPU
  <2> DEFINE Z == PAYLOAD + l
  <2>1. s \in Streams
    BY <1>4, SizesAssumption DEF Sources, Streams, CPU
  <2>2. /\ \A j \in Nat : F(PAYLOAD + j) = DataWord(s, n, j)
        /\ \A j \in 0 .. UdpWords - 1 : F(UDP_HDR + j) = UdpWord(s, udp, j)
        /\ \A j \in 0 .. IpWords - 1 :
             F(IP_HDR + j) = IF j = ChecksIdx THEN SumWord(udp) ELSE IpWord(udp, j)
        /\ \A j \in 0 .. MacWords - 1 : F(j) = MacWord(j)
    BY <2>1, FrameWords
  <2>3. /\ 0 \in Nat /\ IP_HDR \in Nat /\ UDP_HDR \in Nat /\ PAYLOAD \in Nat /\ Z \in Nat
        /\ 0 <= IP_HDR /\ IP_HDR <= UDP_HDR /\ UDP_HDR <= PAYLOAD /\ PAYLOAD <= Z
        /\ IP_HDR - 0 = MacWords /\ UDP_HDR - IP_HDR = IpWords /\ PAYLOAD - UDP_HDR = UdpWords
        /\ Z - PAYLOAD = l
    <3> HIDE DEF l
    <3> QED BY <1>1, SizesAssumption DEF IP_HDR, UDP_HDR, PAYLOAD
  <2> HIDE DEF F, l, udp
  <2>n. 0 \in Nat /\ IP_HDR \in Nat /\ UDP_HDR \in Nat /\ PAYLOAD \in Nat /\ Z \in Nat
    BY <2>3
  <2>4. Data = Part(s, n, PAYLOAD, Z)
    <3>1. \A j \in 1 .. l : j - 1 \in Nat /\ PAYLOAD + j - 1 = PAYLOAD + (j - 1)
      BY <1>1, <2>3
    <3>2. \A j \in 1 .. l : FrameWord(s, n, PAYLOAD + j - 1) = DataWord(s, n, j - 1)
      BY <2>2, <3>1 DEF F
    <3>3. Part(s, n, PAYLOAD, Z) = [j \in 1 .. l |-> FrameWord(s, n, PAYLOAD + j - 1)]
      BY <2>3 DEF Part
    <3> QED BY <3>2, <3>3
  <2>5. Udp = Part(s, n, UDP_HDR, PAYLOAD)
    <3>1. \A j \in 1 .. UdpWords : j - 1 \in 0 .. UdpWords - 1 /\ UDP_HDR + j - 1 = UDP_HDR + (j - 1)
      BY <2>3, SizesAssumption
    <3>2. \A j \in 1 .. UdpWords : FrameWord(s, n, UDP_HDR + j - 1) = UdpWord(s, udp, j - 1)
      BY <2>2, <3>1 DEF F
    <3>3. Part(s, n, UDP_HDR, PAYLOAD) = [j \in 1 .. UdpWords |-> FrameWord(s, n, UDP_HDR + j - 1)]
      BY <2>3 DEF Part
    <3> QED BY <3>2, <3>3
  <2>6. Ip = Part(s, n, IP_HDR, UDP_HDR)
    <3>1. \A j \in 1 .. IpWords : j - 1 \in 0 .. IpWords - 1 /\ IP_HDR + j - 1 = IP_HDR + (j - 1)
      BY <2>3, SizesAssumption
    <3>2. \A j \in 1 .. IpWords : FrameWord(s, n, IP_HDR + j - 1)
            = IF j - 1 = ChecksIdx THEN SumWord(udp) ELSE IpWord(udp, j - 1)
      BY <2>2, <3>1 DEF F
    <3>3. Part(s, n, IP_HDR, UDP_HDR) = [j \in 1 .. IpWords |-> FrameWord(s, n, IP_HDR + j - 1)]
      BY <2>3 DEF Part
    <3> QED BY <3>2, <3>3
  <2>7. MacHead = Part(s, n, 0, IP_HDR)
    <3>1. \A j \in 1 .. MacWords : j - 1 \in 0 .. MacWords - 1 /\ 0 + j - 1 = j - 1
      BY SizesAssumption
    <3>2. \A j \in 1 .. MacWords : FrameWord(s, n, 0 + j - 1) = MacWord(j - 1)
      BY <2>2, <3>1 DEF F
    <3>3. Part(s, n, 0, IP_HDR) = [j \in 1 .. MacWords |-> FrameWord(s, n, 0 + j - 1)]
      BY <2>3 DEF Part
    <3> QED BY <3>2, <3>3
  <2> HIDE DEF Data, MacHead, Ip, Udp, Z
  <2>9. /\ 0 <= IP_HDR /\ IP_HDR <= UDP_HDR /\ UDP_HDR <= PAYLOAD /\ PAYLOAD <= Z
        /\ 0 <= UDP_HDR /\ 0 <= PAYLOAD
    BY <2>3
  <2>11. MacHead \o Ip \o Udp \o Data = Part(s, n, 0, Z)
    <3>1. Joined(Joined(Joined(Part(s, n, 0, IP_HDR), Part(s, n, IP_HDR, UDP_HDR)),
                        Part(s, n, UDP_HDR, PAYLOAD)), Part(s, n, PAYLOAD, Z)) = Part(s, n, 0, Z)
      BY <2>n, <2>9, FourParts
    <3>2. Joined(Joined(Joined(MacHead, Ip), Udp), Data) = Part(s, n, 0, Z)
      BY <2>4, <2>5, <2>6, <2>7, <3>1
    <3> QED BY <3>2, Zenon DEF Joined
  <2>12. Part(s, n, 0, Z) = Rem(s, n, 0)
    BY <1>4 DEF Part, Rem, Z, FrameLen, l
  <2> QED BY <1>2, <1>4, <2>11, <2>12
<1> QED BY <1>3, <1>4

-----------------------------------------------------------------------------
(* The frames stored and not sent lie one behind the other, from the       *)
(* pointer of the reader to that of the writer.                            *)

Takes(e) == FrameLen(e.src, e.n)

\* The k-th of the N frames of Q begins B[k] words from p, and the last ends at u.
Placed(Q, N, c, p, u, B) ==
  /\ B \in [1 .. N + 1 -> Nat] /\ B[1] = 0 /\ B[N + 1] = u
  /\ \A k \in 1 .. N :
       /\ Q[k].src \in Sources /\ Q[k].n \in DOMAIN Packets[Q[k].src]
       /\ B[k + 1] = B[k] + Takes(Q[k])
       /\ \A o \in 0 .. Takes(Q[k]) - 1 : Slot(c, p, B[k] + o) = FrameWord(Q[k].src, Q[k].n, o)
  /\ \A j, k \in 1 .. N + 1 : j <= k => B[j] <= B[k]

Chain(Q, N, c, p, u) == \E B : Placed(Q, N, c, p, u, B)

\* A frame takes at least a word, and ends within the chain.
LEMMA ChainTypes ==
  ASSUME NEW Q, NEW N \in Nat, NEW c, NEW p, NEW u, NEW B, Placed(Q, N, c, p, u, B),
         NEW k \in 1 .. N
  PROVE  /\ Takes(Q[k]) \in Nat \ {0} /\ B[k] \in Nat /\ B[k + 1] \in Nat /\ u \in Nat
         /\ B[k] + Takes(Q[k]) <= u
<1>1. Q[k].src \in Sources /\ Q[k].n \in DOMAIN Packets[Q[k].src] /\ B[k + 1] = B[k] + Takes(Q[k])
  BY DEF Placed
<1>2. Takes(Q[k]) \in 1 .. MaxReserv
  BY <1>1, FrameFits DEF Takes
<1>3. k \in 1 .. N + 1 /\ k + 1 \in 1 .. N + 1 /\ N + 1 \in 1 .. N + 1 /\ k + 1 <= N + 1
  OBVIOUS
<1>4. B[k] \in Nat /\ B[k + 1] \in Nat /\ B[N + 1] \in Nat /\ B[k + 1] <= B[N + 1] /\ B[N + 1] = u
  BY <1>3 DEF Placed
<1> QED BY <1>1, <1>2, <1>4, SizesAssumption

\* What is due of a frame does not move it.
LEMMA ChainAlike ==
  ASSUME NEW Q, NEW N \in Nat, NEW c, NEW p, NEW u, Chain(Q, N, c, p, u), NEW Q2,
         \A k \in 1 .. N : Q2[k].src = Q[k].src /\ Q2[k].n = Q[k].n
  PROVE  Chain(Q2, N, c, p, u)
<1>1. PICK B : Placed(Q, N, c, p, u, B)
  BY DEF Chain
<1>2. \A k \in 1 .. N : Takes(Q2[k]) = Takes(Q[k])
  BY DEF Takes
<1>3. Placed(Q2, N, c, p, u, B)
  BY <1>1, <1>2 DEF Placed
<1> QED BY <1>3 DEF Chain

\* The chain stays when the words in it do.
LEMMA ChainKept ==
  ASSUME NEW Q, NEW N \in Nat, NEW c, NEW p, NEW u, Chain(Q, N, c, p, u), NEW c2,
         \A o \in 0 .. u - 1 : Slot(c2, p, o) = Slot(c, p, o)
  PROVE  Chain(Q, N, c2, p, u)
<1>1. PICK B : Placed(Q, N, c, p, u, B)
  BY DEF Chain
<1>2. ASSUME NEW k \in 1 .. N, NEW o \in 0 .. Takes(Q[k]) - 1
      PROVE  Slot(c2, p, B[k] + o) = FrameWord(Q[k].src, Q[k].n, o)
  <2> DEFINE b == B[k]
             t == Takes(Q[k])
  <2>1. t \in Nat \ {0} /\ b \in Nat /\ u \in Nat /\ b + t <= u
    BY <1>1, ChainTypes
  <2> HIDE DEF b, t
  <2>2. o \in Nat /\ o < t
    BY <1>2, <2>1 DEF t
  <2>3. b + o \in 0 .. u - 1
    BY <2>1, <2>2
  <2>4. Slot(c, p, b + o) = FrameWord(Q[k].src, Q[k].n, o)
    BY <1>1, <1>2 DEF Placed, b
  <2> QED BY <2>3, <2>4 DEF b
<1>3. Placed(Q, N, c2, p, u, B)
  BY <1>1, <1>2 DEF Placed
<1> QED BY <1>3 DEF Chain

\* A frame is added behind the last one.
LEMMA ChainGrows ==
  ASSUME NEW Q, NEW N \in Nat, NEW c, NEW p, NEW u, Chain(Q, N, c, p, u), NEW Q2,
         \A k \in 1 .. N : Q2[k] = Q[k],
         NEW e, Q2[N + 1] = e, e.src \in Sources, e.n \in DOMAIN Packets[e.src],
         \A o \in 0 .. Takes(e) - 1 : Slot(c, p, u + o) = FrameWord(e.src, e.n, o)
  PROVE  Chain(Q2, N + 1, c, p, u + Takes(e))
<1>1. PICK B : Placed(Q, N, c, p, u, B)
  BY DEF Chain
<1> DEFINE t == Takes(e)
           M == N + 1
           v == u + t
           C == [k \in 1 .. M + 1 |-> IF k = M + 1 THEN v ELSE B[k]]
<1>2. t \in Nat /\ u \in Nat
  <2>1. t \in 1 .. MaxReserv
    BY FrameFits DEF Takes
  <2>2. N + 1 \in 1 .. N + 1
    OBVIOUS
  <2>3. B[N + 1] \in Nat
    BY <1>1, <2>2 DEF Placed
  <2> QED BY <1>1, <2>1, <2>3, SizesAssumption DEF Placed
<1>3. v \in Nat /\ u <= v /\ M \in Nat
  BY <1>2
<1>4. B \in [1 .. M -> Nat] /\ B[1] = 0 /\ B[M] = u
  BY <1>1 DEF Placed
<1>5. C[M + 1] = v /\ \A k \in 1 .. M : C[k] = B[k] /\ C[k] \in Nat
  <2>1. M + 1 \in 1 .. M + 1 /\ \A k \in 1 .. M : k \in 1 .. M + 1 /\ k # M + 1
    OBVIOUS
  <2> HIDE DEF M
  <2> QED BY <1>4, <2>1
<1>6. C \in [1 .. M + 1 -> Nat]
  <2>1. \A k \in 1 .. M + 1 : k # M + 1 => k \in 1 .. M
    OBVIOUS
  <2> HIDE DEF M, v
  <2> QED BY <1>3, <1>4, <2>1
<1> HIDE DEF C, v
<1>7. C[1] = 0
  BY <1>4, <1>5
<1>8. ASSUME NEW k \in 1 .. M
      PROVE  /\ Q2[k].src \in Sources /\ Q2[k].n \in DOMAIN Packets[Q2[k].src]
             /\ C[k + 1] = C[k] + Takes(Q2[k])
             /\ \A o \in 0 .. Takes(Q2[k]) - 1 : Slot(c, p, C[k] + o) = FrameWord(Q2[k].src, Q2[k].n, o)
  <2>1. CASE k = M
    BY <1>4, <1>5, <2>1 DEF v
  <2>2. CASE k # M
    <3>1. k \in 1 .. N /\ k + 1 \in 1 .. M
      BY <2>2
    <3>2. C[k] = B[k] /\ C[k + 1] = B[k + 1] /\ Q2[k] = Q[k]
      BY <1>5, <3>1
    <3> QED BY <1>1, <3>1, <3>2 DEF Placed
  <2> QED BY <2>1, <2>2
<1>9. ASSUME NEW j \in 1 .. M + 1, NEW k \in 1 .. M + 1, j <= k PROVE C[j] <= C[k]
  <2>0. \A i \in 1 .. M : C[i] <= u /\ C[i] \in Nat
    BY <1>1, <1>4, <1>5 DEF Placed
  <2>1. CASE k = M + 1 /\ j = M + 1
    BY <1>3, <1>5, <2>1
  <2>2. CASE k = M + 1 /\ j # M + 1
    <3>1. j \in 1 .. M
      BY <2>2
    <3> QED BY <1>2, <1>3, <1>5, <2>0, <2>2, <3>1
  <2>3. CASE k # M + 1
    <3>1. j \in 1 .. M /\ k \in 1 .. M
      BY <1>9, <2>3
    <3>2. B[j] <= B[k]
      BY <1>1, <1>9, <3>1 DEF Placed
    <3> QED BY <1>5, <3>1, <3>2
  <2> QED BY <2>1, <2>2, <2>3
<1> HIDE DEF M
<1>10. Placed(Q2, M, c, p, v, C)
  BY <1>5, <1>6, <1>7, <1>8, <1>9 DEF Placed
<1> QED BY <1>10 DEF Chain, M, v

\* The words from a pointer further on.
LEMMA SlotsShift ==
  ASSUME NEW c, NEW p \in 0 .. Size - 1, NEW k \in Nat, NEW o \in Nat, k + o < Size
  PROVE  Slot(c, (p + k) % Size, o) = Slot(c, p, k + o)
<1>1. (((p + k) % Size) + o) % Size = (p + (k + o)) % Size
  BY Shifted, SizePositive
<1> QED BY <1>1 DEF Slot

\* The first frame is left, and the pointer goes past it.
LEMMA ChainTail ==
  ASSUME NEW Q, NEW N \in Nat, N # 0, NEW c, NEW p \in 0 .. Size - 1, NEW u \in 0 .. Size - 1,
         Chain(Q, N, c, p, u), NEW h, h = Takes(Q[1]), NEW Q2,
         \A k \in 1 .. N - 1 : Q2[k] = Q[k + 1]
  PROVE  h \in Nat /\ h <= u /\ Chain(Q2, N - 1, c, (p + h) % Size, u - h)
<1>1. PICK B : Placed(Q, N, c, p, u, B)
  BY DEF Chain
<1> DEFINE M == N - 1
           C == [k \in 1 .. M + 1 |-> B[k + 1] - h]
           r == (p + h) % Size
<1>2. M \in Nat /\ 1 \in 1 .. N /\ 1 + 1 = 2 /\ M + 1 = N
  OBVIOUS
<1>3. h \in Nat \ {0} /\ h <= u /\ B[2] = h
  <2>1. B[1] = 0 /\ B[1 + 1] = B[1] + h
    BY <1>1, <1>2 DEF Placed
  <2>2. h \in Nat \ {0} /\ B[1] + h <= u
    BY <1>1, <1>2, ChainTypes
  <2> QED BY <1>2, <2>1, <2>2, SizePositive
<1>4. ASSUME NEW k \in 1 .. N PROVE B[k + 1] \in Nat /\ h <= B[k + 1] /\ B[k + 1] <= u
  <2>1. k + 1 \in 1 .. N + 1 /\ 2 \in 1 .. N + 1 /\ 2 <= k + 1 /\ N + 1 \in 1 .. N + 1 /\ k + 1 <= N + 1
    OBVIOUS
  <2>2. B[2] <= B[k + 1] /\ B[k + 1] <= B[N + 1] /\ B[N + 1] = u
    BY <1>1, <2>1 DEF Placed
  <2>3. B[k + 1] \in Nat
    BY <1>1, <2>1 DEF Placed
  <2> QED BY <1>3, <2>2, <2>3
<1>5. \A k \in 1 .. N : C[k] = B[k + 1] - h /\ C[k] \in Nat
  <2>1. \A k \in 1 .. N : B[k + 1] - h \in Nat
    BY <1>3, <1>4
  <2>2. C = [k \in 1 .. N |-> B[k + 1] - h]
    BY <1>2
  <2> HIDE DEF C
  <2> QED BY <2>1, <2>2
<1>6. C \in [1 .. M + 1 -> Nat]
  BY <1>2, <1>5
<1> HIDE DEF C
<1>7. C[1] = 0 /\ C[M + 1] = u - h
  <2>1. C[1] = B[1 + 1] - h
    BY <1>2, <1>5
  <2>2. N \in 1 .. N
    OBVIOUS
  <2>3. C[N] = B[N + 1] - h
    BY <1>5, <2>2
  <2>4. B[N + 1] = u
    BY <1>1 DEF Placed
  <2> QED BY <1>2, <1>3, <2>1, <2>3, <2>4
<1>8. ASSUME NEW k \in 1 .. M
      PROVE  /\ Q2[k].src \in Sources /\ Q2[k].n \in DOMAIN Packets[Q2[k].src]
             /\ C[k + 1] = C[k] + Takes(Q2[k])
             /\ \A o \in 0 .. Takes(Q2[k]) - 1 : Slot(c, r, C[k] + o) = FrameWord(Q2[k].src, Q2[k].n, o)
  <2> DEFINE i == k + 1
             t == Takes(Q[i])
             b == B[i]
  <2>1. i \in 1 .. N /\ k \in 1 .. N
    BY <1>2
  <2>2. /\ Q2[k] = Q[i] /\ C[k] = b - h /\ C[i] = B[i + 1] - h
        /\ b \in Nat /\ h <= b
    BY <1>4, <1>5, <2>1
  <2>3. /\ Q[i].src \in Sources /\ Q[i].n \in DOMAIN Packets[Q[i].src]
        /\ B[i + 1] = b + t
        /\ \A o \in 0 .. t - 1 : Slot(c, p, b + o) = FrameWord(Q[i].src, Q[i].n, o)
    BY <1>1, <2>1 DEF Placed
  <2>4. t \in Nat \ {0} /\ b + t <= u
    BY <1>1, <2>1, ChainTypes
  <2>5. C[i] = C[k] + t
    <3> DEFINE g == B[i + 1]
    <3>1. g = b + t /\ C[i] = g - h
      BY <2>2, <2>3
    <3> HIDE DEF b, t, g
    <3> QED BY <1>3, <2>2, <2>4, <3>1
  <2>6. ASSUME NEW o \in 0 .. t - 1 PROVE Slot(c, r, C[k] + o) = FrameWord(Q[i].src, Q[i].n, o)
    <3> DEFINE a == (b - h) + o
    <3>1. a \in Nat /\ h \in Nat /\ h + a = b + o /\ h + a < Size /\ C[k] + o = a
      <4>1. C[k] = b - h
        BY <2>2
      <4>2. o \in Nat /\ o < t
        BY <2>4
      <4> HIDE DEF b, t
      <4> QED BY <1>3, <2>2, <2>4, <4>1, <4>2, SizePositive
    <3>2. Slot(c, p, b + o) = FrameWord(Q[i].src, Q[i].n, o)
      BY <2>3
    <3> HIDE DEF a, b
    <3>3. Slot(c, (p + h) % Size, a) = Slot(c, p, h + a)
      BY <3>1, SlotsShift
    <3> QED BY <3>1, <3>2, <3>3
  <2> QED BY <2>2, <2>3, <2>5, <2>6
<1>9. ASSUME NEW j \in 1 .. M + 1, NEW k \in 1 .. M + 1, j <= k PROVE C[j] <= C[k]
  <2>1. j \in 1 .. N /\ k \in 1 .. N /\ j + 1 \in 1 .. N + 1 /\ k + 1 \in 1 .. N + 1 /\ j + 1 <= k + 1
    BY <1>2, <1>9
  <2>2. B[j + 1] <= B[k + 1] /\ B[j + 1] \in Nat /\ B[k + 1] \in Nat
    BY <1>1, <2>1 DEF Placed
  <2>3. C[j] = B[j + 1] - h /\ C[k] = B[k + 1] - h
    BY <1>5, <2>1
  <2> QED BY <1>3, <2>2, <2>3
<1> HIDE DEF M, r
<1>10. Placed(Q2, M, c, r, u - h, C)
  BY <1>6, <1>7, <1>8, <1>9 DEF Placed
<1> QED BY <1>3, <1>10 DEF Chain, M, r

-----------------------------------------------------------------------------
(* The reader and what is due: the first frame of the queue is the one     *)
(* being sent, and its words are read one ahead.                           *)

Dues == {Rem(s, n, t) : s \in Sources, n \in Nat, t \in Nat}

Entries == [src : Sources, n : Nat, due : Dues]

\* The words of the first frame that the fabric has taken.
Tk == IF m.at = "Frame" THEN m.off - 1 ELSE m.off

\* The frames of Q lie in the memory c, and t words of the first are sent.
Sending(Q, N, c, p, u, t) ==
  /\ Chain(Q, N, c, p, u)
  /\ \A k \in 1 .. N : Q[k].due = Rem(Q[k].src, Q[k].n, IF k = 1 THEN t ELSE 0)

QueueInv == queue \in Seq(Entries) /\ Sending(queue, Len(queue), mem, m.ptr, Used, Tk)

ReadOf(Q) ==
  /\ m.at \in {"Idle", "wrf_status", "Frame", "Stall", "EndCycle"} /\ m.off \in Nat
  /\ m.at \in {"Idle", "wrf_status", "EndCycle"} => m.off = 0
  /\ m.at \in {"wrf_status", "Frame", "Stall"} => Q # <<>> /\ Tk < Takes(Q[1])
  /\ m.at = "Frame" => m.off > 0 /\ q = FrameWord(Q[1].src, Q[1].n, m.off - 1)

ReadInv == ReadOf(queue)

\* The first frame of a chain begins at the pointer.
LEMMA FirstFrame ==
  ASSUME NEW Q, NEW N \in Nat, N # 0, NEW c, NEW p, NEW u, Chain(Q, N, c, p, u)
  PROVE  /\ Q[1].src \in Sources /\ Q[1].n \in DOMAIN Packets[Q[1].src]
         /\ Takes(Q[1]) \in Nat \ {0} /\ Takes(Q[1]) <= u /\ u \in Nat
         /\ \A o \in 0 .. Takes(Q[1]) - 1 : Slot(c, p, o) = FrameWord(Q[1].src, Q[1].n, o)
<1>1. PICK B : Placed(Q, N, c, p, u, B)
  BY DEF Chain
<1>2. 1 \in 1 .. N
  OBVIOUS
<1>3. B[1] = 0 /\ Takes(Q[1]) \in Nat \ {0} /\ Takes(Q[1]) <= u /\ u \in Nat
  <2>1. B[1] = 0
    BY <1>1 DEF Placed
  <2>2. Takes(Q[1]) \in Nat \ {0} /\ B[1] + Takes(Q[1]) <= u /\ u \in Nat
    BY <1>1, <1>2, ChainTypes
  <2> QED BY <2>1, <2>2
<1>4. /\ Q[1].src \in Sources /\ Q[1].n \in DOMAIN Packets[Q[1].src]
      /\ \A o \in 0 .. Takes(Q[1]) - 1 : Slot(c, p, B[1] + o) = FrameWord(Q[1].src, Q[1].n, o)
  BY <1>1, <1>2 DEF Placed
<1>5. ASSUME NEW o \in 0 .. Takes(Q[1]) - 1 PROVE Slot(c, p, o) = FrameWord(Q[1].src, Q[1].n, o)
  <2>1. B[1] + o = o
    BY <1>3
  <2> QED BY <1>4, <2>1
<1> QED BY <1>3, <1>4, <1>5

\* No frames take no room.
LEMMA NoFrames ==
  ASSUME NEW Q, NEW c, NEW p, NEW u, Chain(Q, 0, c, p, u)
  PROVE  u = 0
BY DEF Chain, Placed

\* The queue is a sequence.
LEMMA QueueLen ==
  ASSUME NEW Q \in Seq(Entries)
  PROVE  Len(Q) \in Nat /\ (Q # <<>> <=> Len(Q) # 0) /\ (Len(Q) # 0 => Q[1] \in Entries)
         /\ DOMAIN Q = 1 .. Len(Q)
BY LenProperties, EmptySeq, ElementOfSeq

\* The frame being sent, and the word that the reader holds of it.
LEMMA SentWord ==
  ASSUME QueueInv, ReadInv, m.at = "Frame"
  PROVE  /\ queue # <<>> /\ Len(queue) \in Nat \ {0} /\ queue[1] \in Entries
         /\ queue[1].src \in Sources /\ queue[1].n \in DOMAIN Packets[queue[1].src]
         /\ Tk \in 0 .. Takes(queue[1]) - 1 /\ m.off = Tk + 1 /\ Takes(queue[1]) \in Nat
         /\ q = FrameWord(queue[1].src, queue[1].n, Tk)
         /\ queue[1].due = Rem(queue[1].src, queue[1].n, Tk)
         /\ q.eop <=> m.off = Takes(queue[1])
<1> DEFINE N == Len(queue)
           e == queue[1]
<1>1. queue # <<>> /\ N \in Nat \ {0} /\ e \in Entries
  BY QueueLen DEF QueueInv, ReadInv, ReadOf
<1>2. e.src \in Sources /\ e.n \in DOMAIN Packets[e.src] /\ Takes(e) \in Nat \ {0}
  BY <1>1, FirstFrame DEF QueueInv, Sending
<1>3. m.off \in Nat /\ m.off > 0 /\ Tk = m.off - 1 /\ Tk < Takes(e) /\ q = FrameWord(e.src, e.n, m.off - 1)
  BY DEF ReadInv, ReadOf, Tk
<1>4. Tk \in 0 .. Takes(e) - 1 /\ m.off = Tk + 1 /\ m.off - 1 = Tk
  BY <1>2, <1>3
<1>5. e.due = Rem(e.src, e.n, Tk)
  BY <1>1 DEF QueueInv, Sending
<1>6. q.eop <=> Tk + 1 = FrameLen(e.src, e.n)
  BY <1>2, <1>3, <1>4, LastOfFrame DEF Takes
<1> QED BY <1>1, <1>2, <1>3, <1>4, <1>5, <1>6 DEF Takes

\* ipmux.vhd:2513-2582: the reader moves on, and what is due with it.
LEMMA NothingTaken ==
  ASSUME QueueInv, ReadInv, Pointers, NEW stall, ~Taken(stall), TxPkt2Mac(stall), PacketBuffer
  PROVE  Rest(stall) = queue /\ m'.ptr = m.ptr /\ Tk' = Tk /\ \A r : r = queue => ReadOf(r)'
<1>1. Rest(stall) = queue
  BY DEF Rest
<1>2. q' = Slot(mem, m.ptr, m.off)
  BY DEF PacketBuffer, Slot
<1> SUFFICES ASSUME NEW r, r = queue PROVE m'.ptr = m.ptr /\ Tk' = Tk /\ ReadOf(r)'
  BY <1>1
<1>3. m.off \in Nat /\ ReadOf(r)
  BY DEF ReadInv, ReadOf
<1>4. CASE MacIdle
  <2>1. m.at = "Idle" /\ m.off = 0 /\ m'.off = 0 /\ m'.ptr = m.ptr
        /\ m'.at = IF BufEmpty THEN "Idle" ELSE "wrf_status"
    BY <1>3, <1>4 DEF MacIdle, Mac, ReadOf
  <2>2. ~BufEmpty => r # <<>>  /\ 0 < Takes(r[1])
    <3>1. ~BufEmpty => Used # 0
      BY UsedAndRoom
    <3>2. Used # 0 => Len(r) # 0
      BY NoFrames DEF QueueInv, Sending
    <3>3. Len(r) # 0 => r # <<>> /\ 0 < Takes(r[1])
      BY QueueLen, FirstFrame DEF QueueInv, Sending
    <3> QED BY <3>1, <3>2, <3>3
  <2>3. Tk = 0 /\ Tk' = 0
    BY <2>1 DEF Tk
  <2>4. ReadOf(r)'
    BY <2>1, <2>2, <2>3 DEF ReadOf
  <2> QED BY <2>1, <2>3, <2>4
<1>5. CASE MacGo(stall)
  <2>1. CASE stall
    <3>1. m' = m /\ m.at # "Frame"
      BY <1>5, <2>1 DEF MacGo
    <3>2. Tk' = Tk
      BY <3>1 DEF Tk
    <3>3. ReadOf(r)'
      BY <1>3, <3>1, <3>2 DEF ReadOf
    <3> QED BY <3>1, <3>2, <3>3
  <2>2. CASE ~stall
    <3>1. m.at \in {"wrf_status", "Stall"} /\ m'.at = "Frame" /\ m'.off = m.off + 1 /\ m'.ptr = m.ptr
      BY <1>5, <2>2 DEF MacGo, Mac
    <3>2. Tk = m.off /\ Tk' = m.off /\ m'.off - 1 = m.off /\ m'.off \in Nat /\ m'.off > 0
      BY <1>3, <3>1 DEF Tk
    <3>3. r # <<>> /\ m.off < Takes(r[1])
      BY <1>3, <3>1, <3>2 DEF ReadOf
    <3>4. q' = FrameWord(r[1].src, r[1].n, m.off)
      <4>1. Len(r) \in Nat /\ Len(r) # 0 /\ Chain(r, Len(r), mem, m.ptr, Used)
        BY <3>3, QueueLen DEF QueueInv, Sending
      <4>2. m.off \in 0 .. Takes(r[1]) - 1
        BY <1>3, <3>3, <4>1, FirstFrame
      <4> QED BY <1>2, <4>1, <4>2, FirstFrame
    <3>5. ReadOf(r)'
      BY <3>1, <3>2, <3>3, <3>4 DEF ReadOf
    <3> QED BY <3>1, <3>2, <3>5
  <2> QED BY <2>1, <2>2
<1>6. CASE MacStall(stall)
  <2>1. m.at = "Frame" /\ m'.at = "Stall" /\ m'.off = m.off - 1 /\ m'.ptr = m.ptr
    BY <1>6 DEF MacStall, Mac
  <2>2. m.off > 0 /\ r # <<>> /\ Tk < Takes(r[1])
    BY <1>3, <2>1 DEF ReadOf
  <2>3. Tk = m.off - 1 /\ Tk' = m.off - 1 /\ m.off - 1 \in Nat
    BY <1>3, <2>1, <2>2 DEF Tk
  <2>4. ReadOf(r)'
    BY <2>1, <2>2, <2>3 DEF ReadOf
  <2> QED BY <2>1, <2>3, <2>4
<1>7. ~MacFrame(stall)
  BY DEF MacFrame, Taken
<1>8. CASE MacEnd(stall)
  <2>1. m.at = "EndCycle" /\ m.off = 0 /\ m'.off = 0 /\ m'.ptr = m.ptr /\ m'.at \in {"EndCycle", "Idle"}
    BY <1>3, <1>8 DEF MacEnd, Mac, ReadOf
  <2>2. Tk = 0 /\ Tk' = 0
    BY <2>1 DEF Tk
  <2>3. ReadOf(r)'
    BY <2>1 DEF ReadOf
  <2> QED BY <2>1, <2>2, <2>3
<1> QED BY <1>4, <1>5, <1>6, <1>7, <1>8 DEF TxPkt2Mac

\* A word of the first frame is taken, and others of it are left.
LEMMA WordTaken ==
  ASSUME QueueInv, ReadInv, NEW stall, Taken(stall), ~q.eop, TxPkt2Mac(stall), PacketBuffer
  PROVE  /\ Rest(stall) = [queue EXCEPT ![1].due = Tail(@)]
         /\ m'.ptr = m.ptr /\ Tk' = Tk + 1
         /\ \A r : r # <<>> /\ r[1].src = queue[1].src /\ r[1].n = queue[1].n => ReadOf(r)'
<1> DEFINE e == queue[1]
           t == Tk
<1>1. /\ queue # <<>> /\ Len(queue) \in Nat \ {0} /\ queue[1] \in Entries
      /\ e.src \in Sources /\ e.n \in DOMAIN Packets[e.src]
      /\ t \in 0 .. Takes(e) - 1 /\ m.off = t + 1 /\ Takes(e) \in Nat
      /\ e.due = Rem(e.src, e.n, t) /\ m.off # Takes(e)
  BY SentWord DEF Taken
<1>2. Rest(stall) = [queue EXCEPT ![1].due = Tail(@)]
  <2>1. e.due # <<>> /\ Head(queue) = e
    BY <1>1, RemOf, HeadTailProperties DEF Takes, QueueInv
  <2> QED BY <1>1, <2>1 DEF Rest
<1>3. m'.at = "Frame" /\ m'.off = m.off + 1 /\ m'.ptr = m.ptr
  BY DEF Taken, TxPkt2Mac, MacIdle, MacGo, MacStall, MacFrame, MacEnd, Mac
<1>4. Tk' = m.off
  <2>1. Tk' = m'.off - 1
    BY <1>3 DEF Tk
  <2> HIDE DEF t
  <2> QED BY <1>1, <1>3, <2>1
<1>5. m.off \in 0 .. Takes(e) - 1 /\ m'.off \in Nat /\ m'.off > 0 /\ m'.off - 1 = m.off
  <2> HIDE DEF t, e
  <2> QED BY <1>1, <1>3
<1>6. q' = FrameWord(e.src, e.n, m.off)
  <2>1. q' = Slot(mem, m.ptr, m.off)
    BY DEF PacketBuffer, Slot
  <2> QED BY <1>1, <1>5, <2>1, FirstFrame DEF QueueInv, Sending
<1>7. ASSUME NEW r, r # <<>>, r[1].src = e.src, r[1].n = e.n PROVE ReadOf(r)'
  <2>1. Takes(r[1]) = Takes(e) /\ m.off < Takes(e)
    BY <1>1, <1>5, <1>7 DEF Takes
  <2> QED BY <1>3, <1>4, <1>5, <1>6, <1>7, <2>1 DEF ReadOf
<1> QED BY <1>1, <1>2, <1>3, <1>4, <1>7

\* The last word of the first frame is taken.
LEMMA FrameTaken ==
  ASSUME QueueInv, ReadInv, NEW stall, Taken(stall), q.eop, TxPkt2Mac(stall)
  PROVE  /\ Rest(stall) = Tail(queue) /\ m.off = Takes(queue[1])
         /\ m'.ptr = (m.ptr + Takes(queue[1])) % Size /\ Tk' = 0
         /\ \A r : ReadOf(r)'
<1>1. queue # <<>> /\ m.off = Takes(queue[1])
  BY SentWord DEF Taken
<1>2. Rest(stall) = Tail(queue)
  BY <1>1 DEF Rest
<1>3. m'.at = "EndCycle" /\ m'.off = 0 /\ m'.ptr = (m.ptr + m.off) % Size
  BY DEF Taken, TxPkt2Mac, MacIdle, MacGo, MacStall, MacFrame, MacEnd, Mac
<1>4. Tk' = 0
  BY <1>3 DEF Tk
<1>5. ASSUME NEW r PROVE ReadOf(r)'
  BY <1>3 DEF ReadOf
<1> QED BY <1>1, <1>2, <1>3, <1>4, <1>5

\* What of the queue is left after the edge, and how it lies in the memory.
LEMMA RestStep ==
  ASSUME QueueInv, ReadInv, Pointers, MemTypes, NEW stall, TxPkt2Mac(stall), PacketBuffer,
         WrEn => d.off \in Nat /\ Used + d.off < Size,
         NEW r, r = Rest(stall), NEW u, u = (d.ptr - m'.ptr) % Size
  PROVE  /\ r \in Seq(Entries) /\ u \in 0 .. Used /\ m'.ptr \in 0 .. Size - 1
         /\ Sending(r, Len(r), mem', m'.ptr, u, Tk')
         /\ r = <<>> => Tk' = 0
         /\ \A x : (r # <<>> => x # <<>> /\ x[1].src = r[1].src /\ x[1].n = r[1].n) => ReadOf(x)'
<1> DEFINE N == Len(queue)
           p == m.ptr
<1>1. N \in Nat /\ (queue # <<>> <=> N # 0) /\ queue \in Seq(Entries) /\ p \in 0 .. Size - 1
      /\ Used \in 0 .. Size - 1
  BY QueueLen, UsedAndRoom DEF QueueInv, Pointers
<1>2. Chain(queue, N, mem', p, Used)
  <2>1. \A o \in 0 .. Used - 1 : Slot(mem', m.ptr, o) = Slot(mem, m.ptr, o)
    BY UnreadKept
  <2>2. Chain(queue, N, mem, p, Used)
    BY DEF QueueInv, Sending
  <2> QED BY <1>1, <2>1, <2>2, ChainKept
<1>3. CASE ~Taken(stall)
  <2>1. r = queue /\ m'.ptr = p /\ Tk' = Tk /\ ReadOf(r)'
    BY <1>3, NothingTaken
  <2>2. u = Used
    BY <2>1 DEF Used
  <2>3. Sending(r, Len(r), mem', m'.ptr, u, Tk')
    BY <1>2, <2>1, <2>2 DEF QueueInv, Sending
  <2>4. r = <<>> => Tk' = 0
    <3>1. r = <<>> => m'.off = 0 /\ m'.at # "Frame"
      BY <2>1 DEF ReadOf
    <3> QED BY <3>1 DEF Tk
  <2>5. ASSUME NEW x, r # <<>> => x # <<>> /\ x[1].src = r[1].src /\ x[1].n = r[1].n
        PROVE  ReadOf(x)'
    BY <2>1, <2>5 DEF ReadOf, Takes
  <2>6. u \in 0 .. Used
    BY <1>1, <2>2
  <2> QED BY <1>1, <2>1, <2>3, <2>4, <2>5, <2>6
<1>4. CASE Taken(stall) /\ ~q.eop
  <2> DEFINE e == queue[1]
             e2 == [e EXCEPT !.due = Tail(@)]
             t == Tk
  <2>1. /\ N \in Nat \ {0} /\ e \in Entries
        /\ e.src \in Sources /\ e.n \in DOMAIN Packets[e.src]
        /\ t \in 0 .. Takes(e) - 1 /\ Takes(e) \in Nat
        /\ e.due = Rem(e.src, e.n, t)
    BY <1>4, SentWord DEF Taken
  <2>2. /\ r = [queue EXCEPT ![1].due = Tail(@)] /\ m'.ptr = p /\ Tk' = t + 1
        /\ \A x : x # <<>> /\ x[1].src = e.src /\ x[1].n = e.n => ReadOf(x)'
    BY <1>4, WordTaken
  <2>3. r = [queue EXCEPT ![1] = e2]
    BY <2>2
  <2>4. e2.src = e.src /\ e2.n = e.n /\ e2.due = Rem(e.src, e.n, t + 1) /\ e2 \in Entries
    <3>1. Tail(e.due) = Rem(e.src, e.n, t + 1)
      BY <2>1, RemOf DEF Takes
    <3>2. e.n \in Nat /\ t + 1 \in Nat
      <4>1. e.n \in Nat
        BY <2>1 DEF Entries
      <4> HIDE DEF t, e
      <4> QED BY <2>1, <4>1
    <3>3. Rem(e.src, e.n, t + 1) \in Dues
      BY <2>1, <3>2 DEF Dues
    <3> HIDE DEF t
    <3> QED BY <2>1, <3>1, <3>3 DEF Entries
  <2> HIDE DEF e2
  <2>5. r \in Seq(Entries) /\ Len(r) = N /\ r[1] = e2 /\ \A k \in 1 .. N : k # 1 => r[k] = queue[k]
    BY <1>1, <2>1, <2>3, <2>4, ExceptSeq
  <2>6. Chain(r, N, mem', p, Used)
    <3>1. \A k \in 1 .. N : r[k].src = queue[k].src /\ r[k].n = queue[k].n
      BY <2>4, <2>5
    <3> QED BY <1>1, <1>2, <3>1, ChainAlike
  <2>7. \A k \in 1 .. N : r[k].due = Rem(r[k].src, r[k].n, IF k = 1 THEN Tk' ELSE 0)
    BY <2>2, <2>4, <2>5 DEF QueueInv, Sending
  <2>8. u = Used /\ u \in 0 .. Used
    BY <1>1, <2>2 DEF Used
  <2>9. r # <<>>
    BY <2>1, <2>5, QueueLen
  <2>10. ASSUME NEW x, r # <<>> => x # <<>> /\ x[1].src = r[1].src /\ x[1].n = r[1].n
         PROVE  ReadOf(x)'
    BY <2>2, <2>4, <2>5, <2>9, <2>10
  <2>11. Sending(r, Len(r), mem', m'.ptr, u, Tk')
    BY <2>2, <2>5, <2>6, <2>7, <2>8 DEF Sending
  <2> QED BY <1>1, <2>2, <2>5, <2>8, <2>9, <2>10, <2>11
<1>5. CASE Taken(stall) /\ q.eop
  <2> DEFINE h == Takes(queue[1])
             M == N - 1
  <2>1. /\ r = Tail(queue) /\ m'.ptr = (p + h) % Size /\ Tk' = 0 /\ \A x : ReadOf(x)'
    BY <1>5, FrameTaken
  <2>2. N # 0 /\ M \in Nat
    BY <1>1, <1>5, SentWord DEF Taken
  <2>3. r \in Seq(Entries) /\ Len(r) = M /\ \A k \in 1 .. M : r[k] = queue[k + 1]
    BY <1>1, <2>1, <2>2, HeadTailProperties
  <2>4. h \in Nat /\ h <= Used /\ Chain(r, M, mem', (p + h) % Size, Used - h)
    <3> DEFINE c == mem'
               v == Used
    <3>1. N \in Nat /\ N # 0 /\ p \in 0 .. Size - 1 /\ v \in 0 .. Size - 1 /\ Chain(queue, N, c, p, v)
          /\ \A k \in 1 .. N - 1 : r[k] = queue[k + 1]
      BY <1>1, <1>2, <2>2, <2>3
    <3>2. h = Takes(queue[1])
      OBVIOUS
    <3> HIDE DEF N, p, c, v, h
    <3>3. h \in Nat /\ h <= v /\ Chain(r, N - 1, c, (p + h) % Size, v - h)
      BY <3>1, <3>2, ChainTail
    <3> QED BY <3>3 DEF c, v
  <2>5. u = Used - h
    <3>1. d.ptr \in 0 .. Size - 1
      BY DEF Pointers
    <3> DEFINE v == d.ptr
               w == (v - p) % Size
    <3>2. v \in 0 .. Size - 1 /\ p \in 0 .. Size - 1 /\ h \in Nat /\ h <= w /\ Used = w
          /\ u = (v - ((p + h) % Size)) % Size
      BY <1>1, <2>1, <2>4, <3>1 DEF Used
    <3> HIDE DEF h, v, p
    <3>3. (v - ((p + h) % Size)) % Size = w - h
      BY <3>2, Nearer, SizePositive
    <3> QED BY <3>2, <3>3
  <2>6. m'.ptr \in 0 .. Size - 1
    <3>1. h \in 0 .. Size - 1
      <4> HIDE DEF h
      <4> QED BY <1>1, <2>4, SizePositive
    <3> HIDE DEF h, p
    <3> QED BY <1>1, <2>1, <3>1, Around, SizePositive
  <2>7. \A k \in 1 .. M : r[k].due = Rem(r[k].src, r[k].n, IF k = 1 THEN Tk' ELSE 0)
    <3> TAKE k \in 1 .. M
    <3>1. k + 1 \in 1 .. N /\ k + 1 # 1
      BY <2>2
    <3>2. queue[k + 1].due = Rem(queue[k + 1].src, queue[k + 1].n, 0)
      BY <3>1 DEF QueueInv, Sending
    <3> QED BY <2>1, <2>3, <3>2
  <2>8. u \in 0 .. Used
    <3> HIDE DEF h
    <3> QED BY <1>1, <2>4, <2>5
  <2>9. Sending(r, Len(r), mem', m'.ptr, u, Tk')
    BY <2>1, <2>3, <2>4, <2>5, <2>7 DEF Sending
  <2> QED BY <2>1, <2>3, <2>6, <2>8, <2>9
<1> QED BY <1>3, <1>4, <1>5

\* ipmux.vhd:1461-1539: only a packet that is complete moves the pointer.
LEMMA StoreMoves ==
  ASSUME Control, NEW bus, TxData2Buf(bus)
  PROVE  /\ Stores => d'.ptr = (d.ptr + d.end + 1) % Size /\ d'.at = "Idle" /\ d.at # "Idle"
         /\ ~Stores => d'.ptr = d.ptr
         /\ d'.at # "Idle" => d.at # "Idle" \/ ~BufFull
<1> DEFINE Moves == /\ Stores => d'.ptr = (d.ptr + d.end + 1) % Size /\ d'.at = "Idle" /\ d.at # "Idle"
                    /\ ~Stores => d'.ptr = d.ptr
                    /\ d'.at # "Idle" => d.at # "Idle" \/ ~BufFull
<1>1. DOMAIN d = Fields
  BY DEF Control
<1>2. d.at = "Idle" => ~Stores
  BY DEF Stores
<1>3. ASSUME Grant(bus) PROVE Moves
  BY <1>1, <1>2, <1>3 DEF Grant, CpuAccess, Fields
<1>4. ASSUME Accept PROVE Moves
  BY <1>1, <1>2, <1>4 DEF Accept, Follow, Fields
<1>5. ASSUME NotReady PROVE Moves
  BY <1>2, <1>5 DEF NotReady, Released
<1>6. ASSUME MoreData PROVE Moves
  BY <1>1, <1>6 DEF MoreData, Follow, Fields, Stores
<1>7. ASSUME LastData PROVE Moves
  BY <1>7, HeaderBegins DEF LastData, Stores
<1>8. ASSUME UdpHeader PROVE Moves
  <2>1. ~Stores
    BY <1>8 DEF UdpHeader, Stores
  <2> QED BY <1>1, <1>8, <2>1, HeaderFields DEF UdpHeader
<1>9. ASSUME IpHeader PROVE Moves
  <2>1. ~Stores
    BY <1>9 DEF IpHeader, Stores
  <2> QED BY <1>1, <1>9, <2>1, HeaderFields DEF IpHeader
<1>10. ASSUME IpCheckSum PROVE Moves
  <2>1. ~Stores
    BY <1>10 DEF IpCheckSum, Stores
  <2> QED BY <1>1, <1>10, <2>1, HeaderFields DEF IpCheckSum
<1>11. ASSUME MacHeader PROVE Moves
  <2>1. ~Stores
    BY <1>11 DEF MacHeader, Stores
  <2> QED BY <1>1, <1>11, <2>1, HeaderFields DEF MacHeader
<1>12. ASSUME AccessByCPU(bus) PROVE Moves
  BY <1>1, <1>12 DEF AccessByCPU, CpuAccess, Fields, Stores
<1>13. ASSUME Store PROVE Moves
  BY <1>13 DEF Store, Released, Stores
<1>14. Moves
  BY <1>3, <1>4, <1>5, <1>6, <1>7, <1>8, <1>9, <1>10, <1>11, <1>12, <1>13 DEF TxData2Buf
<1> QED BY <1>14

\* What is added to the queue.
NewFrame == [src |-> Source, n |-> Number, due |-> FrameOf(Source, Number)]

Added == IF Stores THEN <<NewFrame>> ELSE <<>>

\* What is added is due as a whole.
LEMMA AddedFrame ==
  ASSUME StoreInv, CpuInv, StreamInv, SelTypes, PacketBuffer, Stores
  PROVE  NewFrame \in Entries /\ NewFrame.due = Rem(NewFrame.src, NewFrame.n, 0)
<1>1. Source \in Sources /\ Number \in DOMAIN Packets[Source] /\ Number \in Nat
  BY StoredFrame
<1>2. FrameOf(Source, Number) = Rem(Source, Number, 0)
  BY <1>1, FrameIsRem
<1>3. Rem(Source, Number, 0) \in Dues
  BY <1>1 DEF Dues
<1> QED BY <1>1, <1>2, <1>3 DEF NewFrame, Entries

\* A word is written within the room there is.
LEMMA WritesInRoom ==
  ASSUME StoreInv, CpuInv, StreamInv, SelTypes
  PROVE  WrEn => d.off \in Nat /\ Used + d.off < Size /\ d.at # "Idle"
<1> SUFFICES ASSUME WrEn PROVE d.off \in Nat /\ Used + d.off < Size /\ d.at # "Idle"
  OBVIOUS
<1>1. d.off \in 0 .. MaxReserv - 1
  BY OffsetFits
<1>2. d.at # "Idle"
  BY DEF StoreInv, Control, WrEn
<1>3. Used + MaxReserv < Size /\ Used \in 0 .. Size - 1
  BY <1>2, UsedAndRoom DEF StoreInv, RoomInv
<1> QED BY <1>1, <1>2, <1>3, SizePositive

\* A sequence and what is put behind it.
LEMMA OneMore ==
  ASSUME NEW S, NEW r \in Seq(S), NEW e \in S, NEW z, z = r \o <<e>>
  PROVE  /\ z \in Seq(S) /\ Len(z) = Len(r) + 1 /\ Len(r) \in Nat
         /\ \A k \in 1 .. Len(r) : z[k] = r[k]
         /\ z[Len(r) + 1] = e
<1> DEFINE a == <<e>>
           N == Len(r)
<1>1. a \in Seq(S) /\ Len(a) = 1 /\ a[1] = e
  OBVIOUS
<1>2. N \in Nat
  BY LenProperties
<1> HIDE DEF a
<1>3. /\ z \in Seq(S) /\ Len(z) = Len(r) + Len(a)
      /\ \A i \in 1 .. Len(r) + Len(a) : z[i] = IF i <= Len(r) THEN r[i] ELSE a[i - Len(r)]
  BY <1>1, ConcatProperties DEF a
<1>4. Len(z) = N + 1 /\ \A i \in 1 .. N + 1 : z[i] = IF i <= N THEN r[i] ELSE a[i - N]
  BY <1>1, <1>3
<1> HIDE DEF N
<1>5. z[N + 1] = e
  <2>1. N + 1 \in 1 .. N + 1 /\ ~(N + 1 <= N) /\ N + 1 - N = 1
    BY <1>2
  <2> QED BY <1>1, <1>4, <2>1
<1>6. \A k \in 1 .. N : z[k] = r[k]
  <2>1. \A k \in 1 .. N : k \in 1 .. N + 1 /\ k <= N
    BY <1>2
  <2> QED BY <1>4, <2>1
<1> QED BY <1>2, <1>3, <1>4, <1>5, <1>6 DEF N

\* The queue after an edge, as it lies in the memory then.
LEMMA QueueStep ==
  ASSUME StoreInv, CpuInv, StreamInv, SelTypes, QueueInv, ReadInv, NEW stall, TxPkt2Mac(stall),
         PacketBuffer, History(stall), NEW bus, TxData2Buf(bus)
  PROVE  QueueInv' /\ ReadInv' /\ Pointers' /\ RoomInv'
<1> DEFINE v == d.ptr
           p == m'.ptr
           M == Len(queue')
<1>1. PICK r : r = Rest(stall)
  OBVIOUS
<1>2. PICK u : u = (v - p) % Size
  OBVIOUS
<1>3. Control /\ Pointers /\ MemTypes /\ RoomInv
  BY DEF StoreInv
<1>4. WrEn => d.off \in Nat /\ Used + d.off < Size /\ d.at # "Idle"
  BY WritesInRoom
<1>5. /\ r \in Seq(Entries) /\ u \in 0 .. Used /\ p \in 0 .. Size - 1
      /\ Sending(r, Len(r), mem', p, u, Tk')
      /\ r = <<>> => Tk' = 0
      /\ \A x : (r # <<>> => x # <<>> /\ x[1].src = r[1].src /\ x[1].n = r[1].n) => ReadOf(x)'
  BY <1>1, <1>2, <1>3, <1>4, RestStep
<1>6. queue' = r \o Added
  BY <1>1 DEF History, Added, NewFrame
<1>7. v \in 0 .. Size - 1 /\ Used \in 0 .. Size - 1
  BY <1>3, UsedAndRoom DEF Pointers
<1>8. /\ Stores => d'.ptr = (v + d.end + 1) % Size /\ d'.at = "Idle" /\ d.at # "Idle"
      /\ ~Stores => d'.ptr = v
      /\ d'.at # "Idle" => d.at # "Idle" \/ ~BufFull
  BY <1>3, StoreMoves
<1>9. Len(r) \in Nat /\ (r # <<>> <=> Len(r) # 0)
  BY <1>5, QueueLen
<1>10. Used' = (d'.ptr - p) % Size
  BY DEF Used
<1>11. CASE ~Stores
  <2>1. queue' = r
    BY <1>5, <1>6, <1>11, ConcatEmptySeq DEF Added
  <2>2. Used' = u /\ d'.ptr = v
    BY <1>2, <1>8, <1>10, <1>11
  <2>3. QueueInv'
    BY <1>5, <2>1, <2>2 DEF QueueInv
  <2>4. ReadInv'
    BY <1>5, <2>1 DEF ReadInv, ReadOf
  <2>5. Pointers'
    BY <1>5, <1>7, <2>2 DEF Pointers
  <2>6. RoomInv'
    <3>1. d'.at # "Idle" => Used + MaxReserv < Size
      BY <1>3, <1>8, UsedAndRoom DEF RoomInv
    <3>2. Used' <= Used /\ Used' \in Int
      BY <1>5, <1>7, <2>2
    <3>3. d'.at # "Idle" => Used' + MaxReserv < Size
      <4> DEFINE a == Used
                 b == Used'
      <4>1. b <= a /\ b \in Int /\ a \in Int /\ (d'.at # "Idle" => a + MaxReserv < Size)
        BY <1>7, <3>1, <3>2
      <4> HIDE DEF a, b
      <4>2. d'.at # "Idle" => b + MaxReserv < Size
        BY <4>1, SizePositive
      <4> QED BY <4>2 DEF b
    <3> QED BY <3>3 DEF RoomInv
  <2> QED BY <2>3, <2>4, <2>5, <2>6
<1>12. CASE Stores
  <2> DEFINE e == NewFrame
             N == Len(r)
             h == Takes(e)
  <2>1. /\ e.src \in Sources /\ e.n \in DOMAIN Packets[e.src] /\ d.end + 1 = h /\ d.end \in Nat
        /\ \A o \in 0 .. h - 1 : Slot(mem', v, o) = FrameWord(e.src, e.n, o)
    BY <1>12, StoredFrame DEF NewFrame, Takes
  <2>2. e \in Entries /\ e.due = Rem(e.src, e.n, 0)
    BY <1>12, AddedFrame
  <2>3. queue' = r \o <<e>>
    BY <1>6, <1>12 DEF Added
  <2>4. /\ queue' \in Seq(Entries) /\ M = N + 1
        /\ \A k \in 1 .. N : queue'[k] = r[k]
        /\ queue'[N + 1] = e
    BY <1>5, <2>2, <2>3, OneMore
  <2>5. h \in Nat /\ u \in Nat /\ u + h < Size
    <3>1. h \in 1 .. MaxReserv
      BY <2>1, FrameFits DEF Takes
    <3>2. Used + MaxReserv < Size
      BY <1>3, <1>8, <1>12 DEF RoomInv
    <3> HIDE DEF h
    <3> QED BY <1>5, <1>7, <3>1, <3>2, SizePositive
  <2> HIDE DEF e, p, v, M
  <2>6. (p + u) % Size = v
    BY <1>2, <1>5, <1>7, Distance, SizePositive
  <2>7. \A o \in 0 .. h - 1 : Slot(mem', p, u + o) = FrameWord(e.src, e.n, o)
    <3> TAKE o \in 0 .. h - 1
    <3>1. o \in Nat /\ u + o < Size
      <4> HIDE DEF h
      <4> QED BY <2>5, SizePositive
    <3>2. Slot(mem', (p + u) % Size, o) = Slot(mem', p, u + o)
      BY <1>5, <2>5, <3>1, SlotsShift
    <3> QED BY <2>1, <2>6, <3>2
  <2>8. Chain(queue', N + 1, mem', p, u + h)
    <3> DEFINE c == mem'
               z == queue'
    <3>1. /\ Chain(r, N, c, p, u) /\ N \in Nat /\ (\A k \in 1 .. N : z[k] = r[k]) /\ z[N + 1] = e
          /\ e.src \in Sources /\ e.n \in DOMAIN Packets[e.src]
          /\ \A o \in 0 .. Takes(e) - 1 : Slot(c, p, u + o) = FrameWord(e.src, e.n, o)
      BY <1>5, <1>9, <2>1, <2>4, <2>7 DEF Sending
    <3> HIDE DEF c, z, N
    <3>2. Chain(z, N + 1, c, p, u + Takes(e))
      BY <3>1, ChainGrows
    <3> QED BY <3>2 DEF c, z
  <2>9. d'.ptr = (v + h) % Size
    <3>1. v + d.end + 1 = v + h
      <4> HIDE DEF h
      <4> QED BY <1>7, <2>1, <2>5
    <3> QED BY <1>8, <1>12, <3>1 DEF v
  <2>10. Used' = u + h
    <3> HIDE DEF h
    <3>1. (((v + h) % Size) - p) % Size = u + h
      BY <1>2, <1>5, <1>7, <2>5, Further, SizePositive
    <3> QED BY <1>10, <2>9, <3>1
  <2>11. \A k \in 1 .. N + 1 : queue'[k].due = Rem(queue'[k].src, queue'[k].n, IF k = 1 THEN Tk' ELSE 0)
    <3> TAKE k \in 1 .. N + 1
    <3>1. CASE k \in 1 .. N
      BY <1>5, <2>4, <3>1 DEF Sending
    <3>2. CASE k = N + 1
      <4>1. k = 1 => Tk' = 0
        BY <1>5, <1>9, <3>2
      <4> QED BY <2>2, <2>4, <3>2, <4>1
    <3>3. k \in 1 .. N \/ k = N + 1
      BY <1>9
    <3> QED BY <3>1, <3>2, <3>3
  <2>12. QueueInv'
    <3>1. Sending(queue', Len(queue'), mem', p, Used', Tk')
      BY <2>4, <2>8, <2>10, <2>11 DEF Sending, M
    <3> QED BY <2>4, <3>1 DEF QueueInv, p
  <2>13. ReadInv'
    <3>1. r # <<>> => queue' # <<>> /\ queue'[1].src = r[1].src /\ queue'[1].n = r[1].n
      <4>1. r # <<>> => 1 \in 1 .. N
        BY <1>9
      <4>2. queue' # <<>>
        BY <1>9, <2>4, QueueLen DEF M
      <4> QED BY <2>4, <4>1, <4>2
    <3>2. PICK x : x = queue'
      OBVIOUS
    <3>3. ReadOf(x)'
      BY <1>5, <3>1, <3>2
    <3> QED BY <3>2, <3>3 DEF ReadInv, ReadOf
  <2>14. Pointers'
    <3>1. h \in 0 .. Size - 1
      <4> HIDE DEF h
      <4> QED BY <2>5, SizePositive
    <3>2. (v + h) % Size \in 0 .. Size - 1
      <4> HIDE DEF h
      <4> QED BY <1>7, <3>1, Around, SizePositive
    <3> QED BY <1>5, <2>9, <3>2 DEF Pointers, p
  <2>15. RoomInv'
    BY <1>8, <1>12 DEF RoomInv
  <2> QED BY <2>12, <2>13, <2>14, <2>15
<1> QED BY <1>11, <1>12

\* What holds of the buffer is kept at every edge.
LEMMA StoreStep ==
  ASSUME TurnInv, HandsInv, StreamInv, StoreInv, QueueInv, ReadInv, SelTypes', StreamInv',
         NEW ws \in SUBSET {s \in Streams : Left(s)}, NEW stall, Edge(ws, stall)
  PROVE  StoreInv' /\ QueueInv' /\ ReadInv'
<1>1. CpuInv /\ SelTypes /\ Control /\ Handing /\ Pointers /\ MemTypes /\ RoomInv
  BY DEF HandsInv, TurnInv, StoreInv
<1>2. /\ TxStreamSel /\ PacketBuffer /\ TxPkt2Mac(stall) /\ History(stall)
  BY EdgeClocks
<1>3. ws \in SUBSET Streams
  OBVIOUS
<1>4. PICK bus : (CpuRest(bus) \/ CpuWord(bus)) /\ TxData2Buf(bus)
  BY <1>1, <1>3, EdgeMoves
<1>5. LastData => sel.at = "Idle"
  BY <1>1, LastAtEnd DEF Ends
<1>6. Control'
  BY <1>1, <1>2, <1>4, <1>5, ControlStep
<1>7. Handing'
  BY <1>1, <1>4, HandingStep
<1>8. QueueInv' /\ ReadInv' /\ Pointers' /\ RoomInv'
  BY <1>1, <1>2, <1>4, QueueStep
<1>9. MemTypes'
  BY <1>1, <1>2, MemStep
<1>10. DataInv'
  BY <1>1, <1>2, <1>4, DataStep
<1>11. HeaderInv'
  BY <1>1, <1>2, <1>4, HeaderStep
<1>12. PortInv'
  BY <1>1, <1>2, <1>4, PortStep
<1> QED BY <1>6, <1>7, <1>8, <1>9, <1>10, <1>11, <1>12 DEF StoreInv

\* It holds at first, when nothing is stored.
LEMMA InitStore ==
  ASSUME Init
  PROVE  StoreInv /\ QueueInv /\ ReadInv
<1>1. /\ d = Released(0, 0, FALSE) /\ cpu = "off" /\ sel.at = "Idle" /\ sel.connected = FALSE
      /\ sel.valid = FALSE /\ put[CPU].i = 0 /\ DOMAIN mem = 0 .. Size - 1
      /\ m = [at |-> "Idle", off |-> 0, ptr |-> 0] /\ queue = <<>>
  BY SizesAssumption DEF Init, Sources, CPU
<1>2. d.at = "Idle" /\ d.off = PAYLOAD /\ d.ptr = 0 /\ ~d.wrEn /\ ~d.gnt /\ d.selSm /\ d.connectReq
      /\ DOMAIN d = Fields
  BY <1>1 DEF Released, Fields
<1>3. Control
  BY <1>1, <1>2 DEF Control, Headers
<1>4. Pointers
  <2>1. m.ptr = 0
    BY <1>1
  <2>2. 0 \in 0 .. Size - 1
    BY SizePositive
  <2> QED BY <1>2, <2>1, <2>2 DEF Pointers
<1>5. Handing /\ MemTypes /\ RoomInv /\ DataInv /\ HeaderInv /\ PortInv
  BY <1>1, <1>2 DEF Handing, MemTypes, RoomInv, DataInv, HeaderInv, PortInv, Headers
<1>6. Used = 0
  BY <1>1, <1>2, <1>4, UsedAndRoom DEF BufEmpty
<1>7. queue \in Seq(Entries) /\ Len(queue) = 0
  BY <1>1, EmptySeq
<1>8. Chain(queue, 0, mem, m.ptr, 0)
  <2> DEFINE B == [k \in 1 .. 0 + 1 |-> 0]
  <2>1. B \in [1 .. 0 + 1 -> Nat] /\ B[1] = 0 /\ B[0 + 1] = 0
        /\ \A j, k \in 1 .. 0 + 1 : j <= k => B[j] <= B[k]
    OBVIOUS
  <2> HIDE DEF B
  <2>2. Placed(queue, 0, mem, m.ptr, 0, B)
    BY <2>1 DEF Placed
  <2> QED BY <2>2 DEF Chain
<1>9. QueueInv
  BY <1>6, <1>7, <1>8 DEF QueueInv, Sending
<1>10. ReadInv
  BY <1>1 DEF ReadInv, ReadOf
<1> QED BY <1>3, <1>4, <1>5, <1>9, <1>10 DEF StoreInv

\* It holds when nothing moves.
LEMMA StoreStutters ==
  ASSUME StoreInv, QueueInv, ReadInv, UNCHANGED vars
  PROVE  StoreInv' /\ QueueInv' /\ ReadInv'
<1>1. /\ d' = d /\ m' = m /\ q' = q /\ mem' = mem /\ queue' = queue /\ sel' = sel /\ conn' = conn
      /\ put' = put /\ cpu' = cpu /\ out' = out /\ fifo' = fifo
  BY DEF vars
<1>2. Control'
  BY <1>1 DEF StoreInv, Control, req
<1>3. Handing'
  BY <1>1 DEF StoreInv, Handing, Waits, Reads, Ends
<1>4. Pointers' /\ MemTypes' /\ Used' = Used
  BY <1>1 DEF StoreInv, Pointers, MemTypes, Used
<1>5. RoomInv'
  BY <1>1, <1>4 DEF StoreInv, RoomInv
<1>6. DataInv'
  BY <1>1 DEF StoreInv, DataInv
<1>7. \A o : Done(o)' <=> Done(o)
  BY <1>1 DEF Done
<1>8. HeaderPlace' <=> HeaderPlace
  BY <1>1 DEF HeaderPlace
<1>9. HeaderInv'
  BY <1>1, <1>7, <1>8 DEF StoreInv, HeaderInv
<1>10. PortInv'
  BY <1>1 DEF StoreInv, PortInv, CpuFrame, CpuCount
<1>11. Tk' = Tk
  BY <1>1 DEF Tk
<1>12. QueueInv'
  BY <1>1, <1>4, <1>11 DEF QueueInv
<1>13. ReadInv'
  BY <1>1, <1>11 DEF ReadInv, ReadOf
<1> QED BY <1>2, <1>3, <1>4, <1>5, <1>6, <1>9, <1>10, <1>12, <1>13 DEF StoreInv

TxInv == TurnInv /\ HandsInv /\ StreamInv /\ StoreInv /\ QueueInv /\ ReadInv

\* All that holds of the transmit path at every edge.
LEMMA FramesHold == Spec => []TxInv
<1>1. Init => StoreInv /\ QueueInv /\ ReadInv
  BY InitStore
<1> DEFINE I == TurnInv /\ HandsInv /\ StreamInv
           J == StoreInv /\ QueueInv /\ ReadInv
<1>2. I /\ I' /\ J /\ [Next]_vars => J'
  <2> SUFFICES ASSUME I, I', J, [Next]_vars PROVE J'
    OBVIOUS
  <2>1. SelTypes' /\ StreamInv'
    BY DEF TurnInv
  <2>2. CASE Next
    BY <2>1, <2>2, StoreStep DEF Next
  <2>3. CASE UNCHANGED vars
    BY <2>3, StoreStutters
  <2> QED BY <2>2, <2>3
<1>3. I /\ J <=> TxInv
  BY DEF TxInv
<1> HIDE DEF I, J
<1>4. Spec => []I
  BY StreamsHold DEF I
<1>5. Init => J
  BY <1>1 DEF J
<1> QED BY <1>2, <1>3, <1>4, <1>5, PTL DEF Spec

\* ipmux.vhd:1176-1180 with 1216-1376: the buffer is looked at for being full
\* only before a packet is accepted, and yet no word of it, be it a stream's, a
\* header's or the CPU's, is written over a frame that has not been sent.
THEOREM NothingOverwritten == Spec => []NoOverwrite
<1>1. TxInv => NoOverwrite
  <2> SUFFICES ASSUME TxInv, WrEn, ~BufEmpty PROVE d.off < Room
    BY DEF NoOverwrite
  <2>1. d.off \in Nat /\ Used + d.off < Size
    BY WritesInRoom DEF TxInv, HandsInv, TurnInv
  <2>2. Room = Size - Used /\ Used \in 0 .. Size - 1
    BY UsedAndRoom DEF TxInv, StoreInv
  <2> QED BY <2>1, <2>2, SizePositive
<1> QED BY <1>1, FramesHold, PTL

\* The queue after an edge is what is left of it and what was stored.
LEMMA GrownBy ==
  ASSUME NEW r \in Seq(Entries), Added \in Seq(Entries), Len(Added) \in {0, 1}, queue' = r \o Added
  PROVE  Fabric!Grown(r)
<1>1. Len(queue') = Len(r) + Len(Added) /\ Len(r) \in Nat
  BY ConcatProperties
<1>2. SubSeq(queue', 1, Len(r)) = r
  <2>1. CASE r = <<>>
    BY <1>1, <2>1
  <2>2. CASE r # <<>>
    <3>1. 1 \in 1 .. Len(r) /\ Len(r) \in 1 .. Len(r)
      BY <1>1, <2>2
    <3>2. SubSeq(r \o Added, 1, Len(r)) = SubSeq(r, 1, Len(r))
      BY <3>1, SubSeqOfConcat1
    <3> QED BY <3>2, SubSeqFull
  <2> QED BY <2>1, <2>2
<1>3. Len(queue') \in {Len(r), Len(r) + 1}
  BY <1>1
<1> QED BY <1>2, <1>3 DEF Fabric!Grown

\* Every edge gives the fabric nothing, a word, or the last word of a frame.
LEMMA FabricStep ==
  ASSUME TxInv, NEW ws \in SUBSET {s \in Streams : Left(s)}, NEW stall, Edge(ws, stall)
  PROVE  Fabric!Idle \/ Fabric!Word \/ Fabric!LastWord
<1>1. /\ TurnInv /\ HandsInv /\ StreamInv /\ StoreInv /\ QueueInv /\ ReadInv
      /\ CpuInv /\ SelTypes /\ Pointers /\ MemTypes
  BY DEF TxInv, HandsInv, TurnInv, StoreInv
<1>2. PacketBuffer /\ TxPkt2Mac(stall) /\ History(stall)
  BY EdgeClocks
<1>3. PICK r : r = Rest(stall)
  OBVIOUS
<1>4. PICK u : u = (d.ptr - m'.ptr) % Size
  OBVIOUS
<1>5. r \in Seq(Entries)
  <2>1. WrEn => d.off \in Nat /\ Used + d.off < Size
    BY <1>1, WritesInRoom
  <2> QED BY <1>1, <1>2, <1>3, <1>4, <2>1, RestStep
<1>6. Added \in Seq(Entries) /\ Len(Added) \in {0, 1}
  <2>1. Stores => NewFrame \in Entries
    BY <1>1, <1>2, AddedFrame
  <2> QED BY <2>1 DEF Added
<1>7. queue' = r \o Added
  BY <1>2, <1>3 DEF History, Added, NewFrame
<1>8. Fabric!Grown(r)
  BY <1>5, <1>6, <1>7, GrownBy
<1>9. word' = IF Taken(stall) THEN q ELSE NoWord
  BY <1>2 DEF History
<1>10. CASE ~Taken(stall)
  <2>1. r = queue
    BY <1>3, <1>10 DEF Rest
  <2>2. Fabric!Idle
    BY <1>8, <1>9, <1>10, <2>1 DEF Fabric!Idle, Fabric!Wait
  <2> QED BY <2>2
<1>11. CASE Taken(stall)
  <2> DEFINE e == queue[1]
             t == Tk
  <2>1. /\ queue # <<>> /\ e.src \in Sources /\ e.n \in DOMAIN Packets[e.src]
        /\ t \in 0 .. Takes(e) - 1 /\ m.off = t + 1 /\ Takes(e) \in Nat
        /\ q = FrameWord(e.src, e.n, t) /\ e.due = Rem(e.src, e.n, t)
        /\ q.eop <=> m.off = Takes(e)
    BY <1>1, <1>11, SentWord DEF Taken
  <2>2. Head(queue) = e
    BY <2>1, <1>1 DEF QueueInv
  <2>3. e.due # <<>> /\ Len(e.due) = Takes(e) - t /\ Head(e.due) = q
    BY <2>1, RemOf DEF Takes
  <2>4. Fabric!Deliver
    BY <1>9, <1>11, <2>1, <2>2, <2>3 DEF Fabric!Deliver, Fabric!Due
  <2>5. CASE ~q.eop
    <3>1. r = Fabric!Shorter
      BY <1>1, <1>2, <1>3, <1>11, <2>5, WordTaken DEF Fabric!Shorter
    <3> QED BY <1>8, <2>4, <3>1 DEF Fabric!Word
  <2>6. CASE q.eop
    <3>1. r = Tail(queue)
      BY <1>1, <1>2, <1>3, <1>11, <2>6, FrameTaken
    <3>2. Len(Head(queue).due) = 1
      <4>1. t + 1 = Takes(e)
        BY <2>1, <2>6
      <4> HIDE DEF t, e
      <4>2. Len(e.due) = 1
        BY <2>1, <2>3, <4>1
      <4> QED BY <2>2, <4>2
    <3> QED BY <1>8, <2>4, <3>1, <3>2 DEF Fabric!LastWord
  <2> QED BY <2>5, <2>6
<1> QED BY <1>10, <1>11

\* ipmux.vhd:2513-2582 with 1213-1645 and 1709-1743: the fabric gets the frames
\* in the order they were stored, each with its headers, length, checksum and
\* data, whole and once, whatever the fabric stalls and wherever the pointers
\* wrap: the transmit path implements FrameStream.
THEOREM ImplementsStream == Spec => IsFrameStream
<1>1. Init => Fabric!Init
  BY DEF Init, Fabric!Init
<1>2. TxInv /\ [Next]_vars => [Fabric!Next]_<<queue, word, TRUE>>
  <2> SUFFICES ASSUME TxInv, [Next]_vars PROVE Fabric!Next \/ UNCHANGED <<queue, word, TRUE>>
    OBVIOUS
  <2>1. CASE Next
    <3>1. Fabric!Idle \/ Fabric!Word \/ Fabric!LastWord
      BY <2>1, FabricStep DEF Next
    <3> QED BY <3>1 DEF Fabric!Next
  <2>2. CASE UNCHANGED vars
    BY <2>2 DEF vars
  <2> QED BY <2>1, <2>2
<1> QED BY <1>1, <1>2, FramesHold, PTL DEF Spec, IsFrameStream, Fabric!Spec
=============================================================================
