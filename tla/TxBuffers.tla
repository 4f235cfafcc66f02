------------------------------ MODULE TxBuffers ------------------------------
(***************************************************************************)
(* The transmit side of the IP multiplexer (ipmux.vhd): streams write UDP  *)
(* payloads into fifos (txfifos), TxStreamSel picks a stream that has a    *)
(* complete one, tx_data2buf stores it in a packet buffer and puts the     *)
(* headers in front, and tx_pkt2mac sends what is stored to the fabric.    *)
(* The CPU may ask for the buffer and store a frame of its own.  One step  *)
(* is one rising edge of tx_clk, as in RxBuffers.                          *)
(***************************************************************************)
EXTENDS Integers, Sequences

CONSTANTS Ports,       \* NUM_UDP_PRTS, the number of streams
          Size,        \* 2**TX_PKT_BUF_ADRSIZE words of memory
          MaxReserv,   \* MAX_RESERV_PKT_BUF, the words of the longest frame
          MacWords, IpWords, UdpWords,  \* MAC_HDR_CNT, IP_HDR_CNT, UDP_HDR_CNT
          ChecksIdx,   \* IP_IDX_CHECKS, where the IP header has its checksum
          Packets      \* what each source has to send: lengths in words

Streams == 0 .. Ports - 1
CPU     == Ports
Sources == 0 .. Ports

IP_HDR  == MacWords
UDP_HDR == MacWords + IpWords
PAYLOAD == MacWords + IpWords + UdpWords

ASSUME SizesAssumption ==
  /\ Ports \in Nat \ {0} /\ Size \in Nat /\ MaxReserv \in Nat /\ MaxReserv < Size
  /\ MacWords \in Nat \ {0} /\ IpWords \in Nat \ {0} /\ UdpWords \in Nat \ {0}
  /\ ChecksIdx \in 0 .. IpWords - 1
ASSUME PacketsAssumption ==
  /\ Packets \in [Sources -> Seq(1 .. MaxReserv)]
  /\ \A s \in Streams : \A k \in DOMAIN Packets[s] : PAYLOAD + Packets[s][k] <= MaxReserv

VARIABLES
  put,     \* of each source: n packets written, and i words of the next
  cpu,     \* "off", "asks" for the buffer, or "done" with its frame
  fifo,    \* tx_data_fifo of each stream
  eods,    \* tx_eod_fifo of each stream: its number of entries
  out,     \* output register of tx_data_fifo, with its Valid
  sel,     \* TxStreamSel
  d,       \* tx_data2buf
  mem, q,  \* PacketBuffer and its output register
  m,       \* tx_pkt2mac
  queue,   \* history: frames stored and not yet sent, with what is due of each
  word,    \* history: what the fabric took at the last edge
  conn,    \* history: how often each stream has been connected
  passed,  \* history: streams connected while this one had a packet waiting
  lost,    \* history: packets read from a fifo and stored nowhere
  sent     \* history: packets whose last word the fabric took

vars == <<put, cpu, fifo, eods, out, sel, d, mem, q, m, queue, word, conn, passed, lost, sent>>

-----------------------------------------------------------------------------
(* Words of a frame: those of the headers, the checksum of the IP header,  *)
(* and the i-th word of the n-th packet of a source.                       *)

Wd(is, src, n, len, i, eop) ==
  [is |-> is, src |-> src, n |-> n, len |-> len, i |-> i, eop |-> eop]

NoWord == Wd("none", 0, 0, 0, 0, FALSE)

MacWord(i)           == Wd("mac", 0, 0, 0, i, FALSE)
IpWord(len, i)       == Wd("ip", 0, 0, len, i, FALSE)
SumWord(len)         == Wd("sum", 0, 0, len, 0, FALSE)
UdpWord(src, len, i) == Wd("udp", src, 0, len, i, FALSE)

\* The next word of a source, and the last one of a packet with EOD.
DataWord(src, n, i) == Wd("data", src, n, 0, i, i + 1 = Packets[src][n])
NextWord(src)       == DataWord(src, put[src].n + 1, put[src].i)

\* The frame for the n-th packet of a source, as it must leave.
FrameOf(src, n) ==
  LET udp  == UdpWords + Packets[src][n]
      Data == [j \in 1 .. Packets[src][n] |-> DataWord(src, n, j - 1)]
      Mac  == [j \in 1 .. MacWords |-> MacWord(j - 1)]
      Ip   == [j \in 1 .. IpWords |-> IF j - 1 = ChecksIdx THEN SumWord(udp) ELSE IpWord(udp, j - 1)]
      Udp  == [j \in 1 .. UdpWords |-> UdpWord(src, udp, j - 1)]
  IN IF src = CPU THEN Data ELSE Mac \o Ip \o Udp \o Data

-----------------------------------------------------------------------------

\* CPU_Tx.Request
req == cpu # "off"

\* tx_data2buf on its return to Idle, where what is left in its other
\* registers is not read again.  A request makes it not ready for a stream.
Released(ptr, end, request) ==
  [at |-> "Idle", off |-> PAYLOAD, ptr |-> ptr, end |-> end, rdReq |-> ~request,
   connectReq |-> ~request, selSm |-> TRUE, wrEn |-> FALSE, gnt |-> FALSE,
   dout |-> NoWord, idx |-> 0, len |-> 0, src |-> 0]

Init ==
  /\ put = [s \in Sources |-> [n |-> 0, i |-> 0]] /\ cpu = "off"
  /\ fifo = [s \in Streams |-> <<>>] /\ eods = [s \in Streams |-> 0]
  /\ out = [s \in Streams |-> [word |-> NoWord, valid |-> FALSE]]
  /\ sel = [at |-> "Idle", ptr |-> 0, connected |-> FALSE, pop |-> FALSE,
            stream |-> 0, dout |-> NoWord, valid |-> FALSE]
  /\ d = Released(0, 0, FALSE)
  /\ mem = [a \in 0 .. Size - 1 |-> NoWord] /\ q = NoWord
  /\ m = [at |-> "Idle", off |-> 0, ptr |-> 0]
  /\ queue = <<>> /\ word = NoWord /\ lost = {} /\ sent = {}
  /\ conn = [s \in Streams |-> 0] /\ passed = [s \in Streams |-> 0]

-----------------------------------------------------------------------------
(* PktBufFlags                                                             *)

Room == (m.ptr - d.ptr) % Size

BufEmpty == m.ptr = d.ptr

\* Slip: the buffer is full when a word of room is left.
BufFull_late == Room <= 1 /\ ~BufEmpty

BufFull == Room <= MaxReserv /\ ~BufEmpty

-----------------------------------------------------------------------------
(* txfifos, with the streams in ws writing a word each.  A word waits in   *)
(* the output register of a fifo; a fifo of EODs counts complete packets.  *)

Packet(s) == eods[s] > 0

RdReqOut(s) == sel.at = "ReadUntilEOP" /\ s = sel.ptr

Pulled(s) == fifo[s] # <<>> /\ (~out[s].valid \/ RdReqOut(s))

\* Slip: the first word of a packet is counted.
WrReqEod_first(s) == put[s].i = 0

WrReqEod(s) == NextWord(s).eop

TxFifos(ws) ==
  /\ fifo' = [s \in Streams |->
       (IF Pulled(s) THEN Tail(fifo[s]) ELSE fifo[s]) \o (IF s \in ws THEN <<NextWord(s)>> ELSE <<>>)]
  /\ out' = [s \in Streams |->
       [word  |-> IF Pulled(s) THEN Head(fifo[s]) ELSE out[s].word,
        valid |-> fifo[s] # <<>> \/ (out[s].valid /\ ~RdReqOut(s))]]
  /\ eods' = [s \in Streams |->
       eods[s] - (IF sel.pop /\ s = sel.ptr /\ Packet(s) THEN 1 ELSE 0)
               + (IF s \in ws /\ WrReqEod(s) THEN 1 ELSE 0)]

-----------------------------------------------------------------------------
(* TxStreamSel                                                             *)

NextPort == IF sel.ptr = Ports - 1 THEN 0 ELSE sel.ptr + 1

RdReqIn == d.rdReq /\ ~BufFull

\* The pipeline to tx_data2buf is clocked at every edge.
Select(at, ptr, connected, pop) ==
  sel' = [at |-> at, ptr |-> ptr, connected |-> connected, pop |-> pop,
          stream |-> sel.ptr, dout |-> out[sel.ptr].word,
          valid |-> sel.at = "ReadUntilEOP" /\ out[sel.ptr].valid /\ RdReqIn]

\* Slip: the search begins with the stream that was served last.
Search_same ==
  /\ sel.at = "Idle"
  /\ (\E s \in Streams : Packet(s)) /\ d.connectReq
  /\ Select("SearchConnect", sel.ptr, sel.connected, sel.pop)

Search ==
  /\ sel.at = "Idle"
  /\ (\E s \in Streams : Packet(s)) /\ d.connectReq
  /\ Select("SearchConnect", NextPort, sel.connected, sel.pop)

NoSearch ==
  /\ sel.at = "Idle"
  /\ ~((\E s \in Streams : Packet(s)) /\ d.connectReq)
  /\ Select("Idle", sel.ptr, FALSE, sel.pop)

Found ==
  /\ sel.at = "SearchConnect" /\ Packet(sel.ptr)
  /\ Select("State_Connected", sel.ptr, TRUE, TRUE)

SearchOn ==
  /\ sel.at = "SearchConnect" /\ ~Packet(sel.ptr)
  /\ Select("SearchConnect", NextPort, sel.connected, sel.pop)

\* ConnectReq has gone low: the packet is taken to be expected.
Handshake ==
  /\ sel.at = "State_Connected" /\ ~d.connectReq
  /\ Select("ReadUntilEOP", sel.ptr, FALSE, FALSE)

NoHandshake ==
  /\ sel.at = "State_Connected" /\ d.connectReq
  /\ Select("State_Connected", sel.ptr, TRUE, FALSE)

Reading ==
  /\ sel.at = "ReadUntilEOP"
  /\ Select(IF out[sel.ptr].word.eop THEN "Idle" ELSE "ReadUntilEOP", sel.ptr, FALSE, sel.pop)

TxStreamSel ==
  Search \/ NoSearch \/ Found \/ SearchOn \/ Handshake \/ NoHandshake \/ Reading

-----------------------------------------------------------------------------
(* tx_data2buf; bus = [wrEn, word] is what the CPU puts on its port.       *)

\* The CPU's word goes through the registers to its address.
CpuAccess(bus) ==
  [d EXCEPT !.at = "AccessByCPU", !.off = bus.word.i, !.rdReq = FALSE, !.selSm = TRUE,
            !.wrEn = bus.wrEn, !.gnt = TRUE, !.dout = bus.word, !.connectReq = FALSE,
            !.end = IF bus.word.eop /\ bus.wrEn THEN bus.word.i ELSE @]

Grant(bus) ==
  /\ d.at = "Idle" /\ ~BufFull /\ req
  /\ d' = CpuAccess(bus)

\* The data go past this machine, which follows with the address.
Follow ==
  [d EXCEPT !.at = "More_Data", !.rdReq = TRUE, !.selSm = FALSE, !.wrEn = TRUE,
            !.gnt = FALSE, !.connectReq = FALSE,
            !.off = IF sel.valid /\ ~d.connectReq THEN @ + 1 ELSE @]

Accept ==
  /\ d.at = "Idle" /\ ~BufFull /\ ~req /\ sel.connected
  /\ d' = Follow

\* Slip: a full buffer is not offered for a connection.
NotReady_full ==
  /\ d.at = "Idle" /\ (BufFull \/ (~req /\ ~sel.connected))
  /\ d' = Released(d.ptr, d.end, req \/ BufFull)

NotReady ==
  /\ d.at = "Idle" /\ (BufFull \/ (~req /\ ~sel.connected))
  /\ d' = Released(d.ptr, d.end, req)

MoreData ==
  /\ d.at = "More_Data" /\ ~(sel.dout.eop /\ sel.valid)
  /\ d' = Follow

\* A word of a header, to be written at the next edge.
Header(at, w, off, idx) ==
  [d EXCEPT !.at = at, !.rdReq = FALSE, !.selSm = TRUE, !.wrEn = TRUE, !.gnt = FALSE,
            !.dout = w, !.off = off, !.idx = idx, !.connectReq = FALSE]

LastData ==
  LET udp == UdpWords + d.off + 1 - PAYLOAD
  IN /\ d.at = "More_Data" /\ sel.dout.eop /\ sel.valid
     /\ d' = [Header("UDP_WriteHeader", UdpWord(sel.stream, udp, 0), UDP_HDR, 1)
                EXCEPT !.end = d.off, !.len = udp, !.src = sel.stream]

UdpHeader ==
  /\ d.at = "UDP_WriteHeader"
  /\ d' = IF d.idx = UdpWords THEN Header("IP_WriteHeader", IpWord(d.len, 0), IP_HDR, 1)
          ELSE Header("UDP_WriteHeader", UdpWord(d.src, d.len, d.idx), UDP_HDR + d.idx, d.idx + 1)

IpHeader ==
  /\ d.at = "IP_WriteHeader"
  /\ d' = IF d.idx = IpWords THEN Header("IP_WriteCheckSum", SumWord(d.len), IP_HDR + ChecksIdx, d.idx)
          ELSE Header("IP_WriteHeader", IpWord(d.len, d.idx), IP_HDR + d.idx, d.idx + 1)

IpCheckSum ==
  /\ d.at = "IP_WriteCheckSum"
  /\ d' = Header("MAC_WriteHeader", MacWord(0), 0, 1)

MacHeader ==
  /\ d.at = "MAC_WriteHeader" /\ d.idx # MacWords
  /\ d' = Header("MAC_WriteHeader", MacWord(d.idx), d.idx, d.idx + 1)

AccessByCPU(bus) ==
  /\ d.at = "AccessByCPU" /\ req
  /\ d' = CpuAccess(bus)

\* The packet is complete: the pointer moves past it.
Stores ==
  \/ d.at = "MAC_WriteHeader" /\ d.idx = MacWords
  \/ d.at = "AccessByCPU" /\ ~req

Store ==
  /\ Stores
  /\ d' = Released((d.ptr + d.end + 1) % Size, d.end, req)

TxData2Buf(bus) ==
  \/ Grant(bus) \/ Accept \/ NotReady \/ MoreData \/ LastData
  \/ UdpHeader \/ IpHeader \/ IpCheckSum \/ MacHeader \/ AccessByCPU(bus) \/ Store

-----------------------------------------------------------------------------
(* TxWrDataSrcSel and PacketBuffer                                         *)

WrEn == IF d.selSm THEN d.wrEn ELSE sel.valid

PacketBuffer ==
  /\ mem' = IF WrEn THEN [mem EXCEPT ![(d.ptr + d.off) % Size] = IF d.selSm THEN d.dout ELSE sel.dout]
            ELSE mem
  /\ q' = mem[(m.ptr + m.off) % Size]

-----------------------------------------------------------------------------
(* tx_pkt2mac; stall is the fabric's.  The memory is read a word ahead.    *)

Mac(at, off, ptr) == m' = [at |-> at, off |-> off, ptr |-> ptr]

MacIdle ==
  /\ m.at = "Idle"
  /\ Mac(IF BufEmpty THEN "Idle" ELSE "wrf_status", 0, m.ptr)

\* In wrf_status and in Stall the word ahead is not read yet.
MacGo(stall) ==
  /\ m.at \in {"wrf_status", "Stall"}
  /\ IF stall THEN UNCHANGED m ELSE Mac("Frame", m.off + 1, m.ptr)

\* Slip: the word ahead is kept over a stall.
MacStall_ahead(stall) ==
  /\ m.at = "Frame" /\ stall
  /\ Mac("Stall", m.off, m.ptr)

MacStall(stall) ==
  /\ m.at = "Frame" /\ stall
  /\ Mac("Stall", m.off - 1, m.ptr)

MacFrame(stall) ==
  /\ m.at = "Frame" /\ ~stall
  /\ IF q.eop THEN Mac("EndCycle", 0, (m.ptr + m.off) % Size) ELSE Mac("Frame", m.off + 1, m.ptr)

MacEnd(stall) ==
  /\ m.at = "EndCycle"
  /\ Mac(IF stall THEN "EndCycle" ELSE "Idle", m.off, m.ptr)

TxPkt2Mac(stall) ==
  MacIdle \/ MacGo(stall) \/ MacStall(stall) \/ MacFrame(stall) \/ MacEnd(stall)

-----------------------------------------------------------------------------
(* Histories                                                               *)

\* A packet is being read that nobody stores.
Misread == sel.at = "State_Connected" /\ ~d.connectReq /\ d.at # "More_Data"

Taken(stall) == m.at = "Frame" /\ ~stall

Rest(stall) ==
  IF ~Taken(stall) \/ queue = <<>> THEN queue
  ELSE IF q.eop THEN Tail(queue)
  ELSE IF Head(queue).due # <<>> THEN [queue EXCEPT ![1].due = Tail(@)]
  ELSE queue

\* The packet being stored: the CPU's, or the last of the stream connected.
Source == IF d.at = "AccessByCPU" THEN CPU ELSE sel.ptr
Number == IF d.at = "AccessByCPU" THEN put[CPU].n ELSE conn[sel.ptr]

History(stall) ==
  /\ queue' = Rest(stall)
       \o (IF Stores THEN <<[src |-> Source, n |-> Number, due |-> FrameOf(Source, Number)]>> ELSE <<>>)
  /\ word' = IF Taken(stall) THEN q ELSE NoWord
  /\ lost' = IF Misread THEN lost \cup {<<sel.ptr, conn[sel.ptr]>>} ELSE lost
  /\ sent' = IF Taken(stall) /\ q.eop THEN sent \cup {<<q.src, q.n>>} ELSE sent
  /\ IF sel.at = "SearchConnect" /\ Packet(sel.ptr)
       THEN /\ conn' = [conn EXCEPT ![sel.ptr] = @ + 1]
            /\ passed' = [s \in Streams |-> IF s = sel.ptr \/ ~Packet(s) THEN 0 ELSE passed[s] + 1]
       ELSE UNCHANGED <<conn, passed>>

-----------------------------------------------------------------------------

\* A rising edge at which the streams in ws write.
Clock(ws, bus, stall) ==
  /\ TxFifos(ws) /\ TxStreamSel /\ TxData2Buf(bus) /\ PacketBuffer /\ TxPkt2Mac(stall)
  /\ History(stall)

Left(s) == put[s].n < Len(Packets[s])

\* What the sources ss have written after one word more.
Put(ss) ==
  put' = [s \in Sources |->
    IF s \notin ss THEN put[s]
    ELSE IF NextWord(s).eop THEN [n |-> put[s].n + 1, i |-> 0]
    ELSE [put[s] EXCEPT !.i = @ + 1]]

NoBus == [wrEn |-> FALSE, word |-> NoWord]

Granted == cpu = "asks" /\ d.gnt

\* The CPU does nothing with the buffer.
CpuRests(ws, stall) ==
  /\ Clock(ws, NoBus, stall)
  /\ Put(ws)
  /\ UNCHANGED cpu

\* It asks for the buffer.
CpuAsks(ws, stall) ==
  /\ cpu = "off" /\ Left(CPU)
  /\ cpu' = "asks"
  /\ Clock(ws, NoBus, stall)
  /\ Put(ws)

\* It writes a word of its frame, the last one with EOP.
CpuWrites(ws, stall) ==
  /\ Granted
  /\ cpu' = IF NextWord(CPU).eop THEN "done" ELSE cpu
  /\ Clock(ws, [wrEn |-> TRUE, word |-> NextWord(CPU)], stall)
  /\ Put(ws \cup {CPU})

\* It takes its request back.
CpuReleases(ws, stall) ==
  /\ cpu = "done"
  /\ cpu' = "off"
  /\ Clock(ws, NoBus, stall)
  /\ Put(ws)

Edge(ws, stall) ==
  CpuRests(ws, stall) \/ CpuAsks(ws, stall) \/ CpuWrites(ws, stall) \/ CpuReleases(ws, stall)

Next == \E ws \in SUBSET {s \in Streams : Left(s)}, stall \in BOOLEAN : Edge(ws, stall)

Spec == Init /\ [][Next]_vars

\* An edge at which the fabric takes words and the CPU goes on with its frame.
Prompt ==
  \/ CpuWrites({}, FALSE) \/ CpuReleases({}, FALSE)
  \/ ~Granted /\ cpu # "done" /\ CpuRests({}, FALSE)

\* A word that is offered again and again is taken.
FairSpec == Spec /\ WF_vars(Prompt) /\ SF_vars(m.at = "Frame" /\ Prompt)

-----------------------------------------------------------------------------
(* Properties                                                              *)

(* Nothing is written over a frame that has not been sent, though the      *)
(* buffer is looked at for being full only before a packet is accepted     *)
(* (lines 1176-1180).                                                      *)
NoOverwrite == WrEn /\ ~BufEmpty => d.off < Room

(* A stream is connected only when all of its packet is in the fifo, so    *)
(* that nobody waits for it to end (lines 278-285).                        *)
WholePacket ==
  sel.at = "ReadUntilEOP" =>
    \E i \in 0 .. Len(fifo[sel.ptr]) :
      LET w == IF i = 0 THEN out[sel.ptr].word ELSE fifo[sel.ptr][i]
      IN w.eop /\ w.n = conn[sel.ptr]

(* Round robin (lines 121-123): a stream with a packet is passed over once  *)
(* by every other stream at most.                                          *)
RoundRobin == \A s \in Streams : passed[s] < Ports

(* As long as the CPU keeps away no packet is lost between the machines,   *)
(* whatever the fabric does and however full the buffer is.                *)
OnlyCpuLoses == cpu = "off" /\ put[CPU].n = 0 => lost = {}

(* The fabric gets the frames in the order they were stored, each with its *)
(* headers, the length and the port of its own data, whole and once,       *)
(* across stalls, wrapping pointers and the requests of the CPU.           *)
Fabric == INSTANCE FrameStream WITH sound <- TRUE
IsFrameStream == Fabric!Spec

(* Every packet a source has completed is sent at last, or was lost to a   *)
(* request of the CPU.                                                     *)
EveryPacketSent ==
  \A s \in Sources : \A k \in DOMAIN Packets[s] :
    put[s].n >= k ~> <<s, k>> \in sent \cup lost
=============================================================================
