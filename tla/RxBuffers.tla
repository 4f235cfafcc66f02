------------------------------ MODULE RxBuffers ------------------------------
(***************************************************************************)
(* The receive side of the IP multiplexer (ipmux.vhd, entity RxBuffers):   *)
(* rx_mac2buf writes frames from the fabric into a dual-port memory,       *)
(* rx_buf2data reads them, looks at their headers and passes the payload   *)
(* to the fifo of a stream, PktBufFlags compares the two packet pointers,  *)
(* and PauseReqLogic asks the peer to pause.  One step is one rising edge  *)
(* of rx_clk: every register is primed, and computed from the unprimed     *)
(* registers and the inputs of the cycle.                                  *)
(***************************************************************************)
EXTENDS Integers, Sequences

CONSTANTS Size,       \* 2**RX_PKT_BUF_ADRSIZE words of memory
          MaxReserv,  \* MAX_RESERV_PKT_BUF, the words of the longest frame
          OffSize,    \* the range of an Offset register, a power of two
          Payload,    \* PAYLOAD, the words of the headers
          Frames,     \* the frames that arrive: [len, kind, data]
          MaxFrames   \* bound on their number

\* A frame for a UDP port that is listened to, for another UDP port, or one
\* that is no UDP over IPv4 at all; data is the UDP payload in words, what
\* is left of len is padding.
Kinds == {"udp", "noport", "raw"}

ASSUME SizeAssumption ==
  /\ Size \in Nat /\ MaxReserv \in Nat \ {0} /\ 2 * MaxReserv <= Size
  /\ OffSize \in Nat /\ MaxReserv < OffSize /\ OffSize <= Size
  /\ MaxFrames \in Nat
ASSUME FrameAssumption ==
  /\ Payload \in Nat \ {0}
  /\ Frames \subseteq [len : 1 .. MaxReserv, kind : Kinds, data : Nat]
  /\ \A f \in Frames : Payload + f.data <= f.len
  \* An Ethernet frame is padded to more than the headers.
  /\ \A f \in Frames : f.kind = "udp" => Payload < f.len

VARIABLES
  pos,    \* the fabric: -1 between frames, else the words of the frame so far
  sent,   \* the frames so far
  w,      \* rx_mac2buf
  mem, q, \* PacketBuffer and its output register
  r,      \* rx_buf2data
  pause,  \* PauseReqLogic
  queue,  \* history: frames stored and not yet left, with what is due of each
  word,   \* history: what the last edge wrote into a stream's fifo
  sound   \* history: no fifo was full while padding was skipped

vars == <<pos, sent, w, mem, q, r, pause, queue, word, sound>>

\* A word of memory: the i-th of the n-th frame, and the bit EOF.
NoData == [n |-> 0, i |-> 0]
Blank  == [n |-> 0, i |-> 0, eof |-> FALSE]
Parts  == [n : 0 .. MaxFrames, i : 0 .. MaxReserv]
Words  == [n : 0 .. MaxFrames, i : 0 .. MaxReserv, eof : BOOLEAN]

\* What a stream's fifo is given: a word, for UDP data or for the CPU, and EOD.
NoWord  == [n |-> 0, i |-> 0, to |-> "none", eod |-> FALSE]
Outputs == [n : 0 .. MaxFrames, i : 0 .. MaxReserv, to : {"udp", "cpu", "none"}, eod : BOOLEAN]

Places == {"Idle", "StartMemAcc", "ReadHeader", "HeaderChecks", "StatusOut",
           "TransferData", "TransferOtherData"}

\* The actions on entering Idle; the pointer is kept.
Restarted(ptr) ==
  [at |-> "Idle", off |-> 0, ptr |-> ptr, hdr |-> <<>>, err |-> FALSE,
   udp |-> FALSE, left |-> 0, wrReq |-> FALSE, eod |-> FALSE]

Init ==
  /\ pos = -1 /\ sent = <<>>
  /\ w = [cyc |-> FALSE, valid |-> FALSE, data |-> NoData, adr |-> "data",
          good |-> FALSE, off |-> 0, ptr |-> 0, cut |-> 0]
  /\ mem = [a \in 0 .. Size - 1 |-> Blank] /\ q = Blank
  /\ r = Restarted(0)
  /\ pause = [low |-> TRUE, high |-> FALSE, req |-> FALSE, stop |-> FALSE]
  /\ queue = <<>> /\ word = NoWord /\ sound = TRUE

-----------------------------------------------------------------------------
(* PktBufFlags                                                             *)

Used == (w.ptr - r.ptr) % Size
Room == (r.ptr - w.ptr) % Size

BufEmpty == r.ptr = w.ptr

WaterMarkLow == Used < (Size * 30) \div 100

WaterMarkHigh == Used > (Size * 50) \div 100 /\ ~BufEmpty

\* Slip: room for exactly one frame is taken for enough.
BufFull_exact == Room < MaxReserv /\ ~BufEmpty

\* Slip: the address being written is used instead of the packet pointer.
BufFull_address == (Room - w.off) % Size <= MaxReserv /\ ~BufEmpty

\* Full as soon as a frame of the largest size could not be stored and
\* leave a word free.
BufFull == Room <= MaxReserv /\ ~BufEmpty

-----------------------------------------------------------------------------
(* PauseReqLogic                                                           *)

\* Slip: a request that is pending is not updated.
Cancels_none == WaterMarkLow /\ ~pause.low /\ ~pause.req

Cancels == WaterMarkLow /\ ~pause.low

Requests == WaterMarkHigh /\ ~pause.high

\* stop: PauseVal is FFFF.  An acknowledge wins over both edges.
PauseReqLogic(ack) ==
  LET edge == Cancels \/ Requests
  IN pause' = [low  |-> WaterMarkLow,
               high |-> WaterMarkHigh,
               req  |-> ~ack /\ (edge \/ pause.req),
               stop |-> ~ack /\ ~Cancels /\ (Requests \/ pause.stop)]

-----------------------------------------------------------------------------
(* rx_mac2buf, for the fabric signals bus = [cyc, stb, adr, data]          *)

Eocycle(bus) == w.cyc /\ ~bus.cyc

AdrChange(bus) == w.adr = "data" /\ bus.adr # "data"

SnkValid(bus) == bus.cyc /\ bus.stb

ShiftPipeline(bus) == SnkValid(bus) \/ AdrChange(bus) \/ Eocycle(bus)

Eof(bus) == Eocycle(bus) \/ AdrChange(bus)

\* A word waits in the pipeline until what follows says whether it is the last.
Moves(bus) == ShiftPipeline(bus) /\ w.valid

We(bus) == Moves(bus) /\ ~BufFull

OverFlow(bus) == Moves(bus) /\ BufFull

WrAddr == (w.ptr + w.off) % Size

\* Slip: the valid bit is set by data and cleared only by another address.
NextValid_sticky(bus) == bus.adr = "data" /\ (SnkValid(bus) \/ w.valid)

NextValid(bus) == bus.adr = "data" /\ SnkValid(bus)

\* The pointer moves a cycle after the end of the frame.
RxPktBufPointers(bus) ==
  IF We(bus) THEN [off |-> (w.off + 1) % OffSize, ptr |-> w.ptr]
  ELSE IF w.good THEN [off |-> 0, ptr |-> (w.ptr + w.off) % Size]
  ELSE [off |-> w.off, ptr |-> w.ptr]

\* cut is a history: the words of the frame that met a full buffer.
Mac2Buf(bus) ==
  LET p == RxPktBufPointers(bus)
  IN w' = [cyc   |-> bus.cyc,
           valid |-> IF ShiftPipeline(bus) THEN NextValid(bus) ELSE w.valid,
           data  |-> IF ShiftPipeline(bus) THEN bus.data ELSE w.data,
           adr   |-> IF ShiftPipeline(bus) THEN bus.adr ELSE w.adr,
           good  |-> Eocycle(bus),
           off   |-> p.off,
           ptr   |-> p.ptr,
           cut   |-> IF w.good THEN 0 ELSE IF OverFlow(bus) THEN w.cut + 1 ELSE w.cut]

-----------------------------------------------------------------------------
(* PacketBuffer: one port writes, the other reads with a cycle's latency.  *)

RdAddr == (r.ptr + r.off) % Size

PacketBuffer(bus) ==
  /\ mem' = IF We(bus) THEN [mem EXCEPT ![WrAddr] = [n |-> w.data.n, i |-> w.data.i, eof |-> Eof(bus)]]
            ELSE mem
  /\ q' = mem[RdAddr]

-----------------------------------------------------------------------------
(* rx_buf2data: r' for the word q and the flag Full of the stream selected *)

Goto(at) == [r EXCEPT !.at = at]

\* The words read are the headers of one frame.
HeaderOf(n) == r.hdr = [i \in 1 .. Payload |-> [n |-> n, i |-> i - 1]]

\* ErrorVector: anything else fails one of the checks, or is not UDP.
Checked == \E n \in DOMAIN sent : HeaderOf(n) /\ sent[n].kind # "raw"

ReadWord == [r EXCEPT !.at = "ReadHeader", !.hdr = Append(@, [n |-> q.n, i |-> q.i]), !.off = Len(r.hdr) + 2]

Listening == \E n \in DOMAIN sent : HeaderOf(n) /\ sent[n].kind = "udp"

Selected ==
  LET n == CHOOSE m \in DOMAIN sent : HeaderOf(m)
  IN [r EXCEPT !.at = "StatusOut", !.udp = Listening,
               !.off = IF Listening THEN Payload ELSE 0,
               !.left = IF Listening THEN sent[n].data ELSE 0]

NextOff == (r.off + 1) % OffSize

\* One word of a transfer that takes the whole frame.
OtherWord(full) ==
  [r EXCEPT !.at = "TransferOtherData",
            !.off = IF full THEN r.off ELSE NextOff,
            !.wrReq = ~full]

\* Slip: the length goes on counting down while padding is skipped.
DataWord_underflow(full) ==
  IF full THEN [r EXCEPT !.at = "TransferData", !.wrReq = FALSE]
  ELSE [r EXCEPT !.at = "TransferData",
                 !.off = NextOff,
                 !.eod = (r.left = 1),
                 !.left = r.left - 1,
                 !.wrReq = r.left > 0]

\* One word of a transfer that takes the payload and then skips the padding.
DataWord(full) ==
  IF full THEN [r EXCEPT !.at = "TransferData", !.wrReq = FALSE]
  ELSE [r EXCEPT !.at = "TransferData",
                 !.off = NextOff,
                 !.eod = (r.left = 1),
                 !.left = IF r.left > 0 THEN r.left - 1 ELSE 0,
                 !.wrReq = r.left > 0]

\* Slip: a frame is left when its last word is seen, whether or not it is
\* being written to the fifo.
Leaving_early ==
  \/ r.at = "TransferData" /\ q.eof
  \/ r.at = "TransferOtherData" /\ q.eof

Leaving ==
  \/ r.at = "TransferData" /\ q.eof /\ r.left = 0
  \/ r.at = "TransferOtherData" /\ q.eof /\ r.wrReq

Buf2Data(full) ==
  r' = CASE r.at = "Idle" /\ BufEmpty        -> Restarted(r.ptr)
         [] r.at = "Idle" /\ ~BufEmpty       -> [Goto("StartMemAcc") EXCEPT !.off = 1]
         [] r.at = "StartMemAcc"             -> ReadWord
         [] r.at = "ReadHeader" /\ Len(r.hdr) # Payload -> ReadWord
         [] r.at = "ReadHeader" /\ Len(r.hdr) = Payload ->
              [Goto("HeaderChecks") EXCEPT !.off = 0, !.err = ~Checked]
         [] r.at = "HeaderChecks" /\ r.err   -> OtherWord(full)
         [] r.at = "HeaderChecks" /\ ~r.err  -> Selected
         [] r.at = "StatusOut" /\ ~r.udp     -> OtherWord(full)
         [] r.at = "StatusOut" /\ r.udp      -> DataWord(full)
         [] Leaving                          -> Restarted((r.ptr + r.off) % Size)
         [] r.at = "TransferData" /\ ~Leaving      -> DataWord(full)
         [] r.at = "TransferOtherData" /\ ~Leaving -> OtherWord(full)

\* RxStreamSel: EOD is the reader's for a UDP stream, the memory's for the CPU.
Written ==
  IF ~r.wrReq THEN NoWord
  ELSE [n |-> q.n, i |-> q.i, to |-> IF r.udp THEN "udp" ELSE "cpu",
        eod |-> IF r.udp THEN r.eod ELSE q.eof]

-----------------------------------------------------------------------------
(* Histories                                                               *)

\* What is due of the last frame sent when its first cut words were lost.
DueOf(n, cut) ==
  LET f == sent[n]
      whole == f.kind = "udp" /\ cut = 0
      from == IF whole THEN Payload ELSE cut
      upto == IF whole THEN Payload + f.data ELSE f.len
  IN [j \in 1 .. upto - from |->
        [n |-> n, i |-> from + j - 1, to |-> IF whole THEN "udp" ELSE "cpu",
         eod |-> from + j = upto]]

Stored == IF w.good /\ w.off > 0
          THEN <<[n |-> Len(sent), at |-> w.ptr, due |-> DueOf(Len(sent), w.cut)]>>
          ELSE <<>>

Rest ==
  IF queue = <<>> THEN <<>>
  ELSE IF Leaving THEN Tail(queue)
  ELSE IF r.wrReq /\ Head(queue).due # <<>> THEN [queue EXCEPT ![1].due = Tail(@)]
  ELSE queue

\* The next word to be read is padding.
Padding == r.udp /\ r.left = 0 /\ r.at \in {"StatusOut", "TransferData"} /\ ~Leaving

History(full) ==
  /\ queue' = Rest \o Stored
  /\ word' = Written
  /\ sound' = (sound /\ ~(Padding /\ full))

-----------------------------------------------------------------------------

\* A rising edge with these signals on the fabric; full is the almost-full
\* flag of the selected stream's fifo, ack answers a pending request.
Clock(bus, full) ==
  /\ \E ack \in {FALSE, pause.req} : PauseReqLogic(ack)
  /\ Mac2Buf(bus)
  /\ PacketBuffer(bus)
  /\ Buf2Data(full)
  /\ History(full)

Bus(cyc, stb, adr, data) == [cyc |-> cyc, stb |-> stb, adr |-> adr, data |-> data]

\* Between frames the address may be anything.
Quiet(full) ==
  /\ pos = -1
  /\ \E adr \in {"data", "other"} : Clock(Bus(FALSE, FALSE, adr, NoData), full)
  /\ UNCHANGED <<pos, sent>>

\* A frame begins with its status word.
Status(full) ==
  /\ pos = -1 /\ Len(sent) < MaxFrames
  /\ \E f \in Frames : sent' = Append(sent, f)
  /\ pos' = 0
  /\ Clock(Bus(TRUE, TRUE, "other", NoData), full)

Current == sent[Len(sent)]

DataCycle(full) ==
  /\ pos >= 0 /\ pos < Current.len
  /\ pos' = pos + 1
  /\ Clock(Bus(TRUE, TRUE, "data", [n |-> Len(sent), i |-> pos]), full)
  /\ UNCHANGED sent

\* The source pauses in the middle of the data.
Gap(full) ==
  /\ pos > 0 /\ pos <= Current.len
  /\ Clock(Bus(TRUE, FALSE, "data", NoData), full)
  /\ UNCHANGED <<pos, sent>>

\* Out-of-band words may follow the data.
Oob(full) ==
  /\ pos > 0 /\ pos >= Current.len
  /\ pos' = Current.len + 1
  /\ Clock(Bus(TRUE, TRUE, "other", NoData), full)
  /\ UNCHANGED sent

EndCycle(full) ==
  /\ pos > 0 /\ pos >= Current.len
  /\ pos' = -1
  /\ \E adr \in {"data", "other"} : Clock(Bus(FALSE, FALSE, adr, NoData), full)
  /\ UNCHANGED sent

Edge(full) ==
  Quiet(full) \/ Status(full) \/ DataCycle(full) \/ Gap(full) \/ Oob(full) \/ EndCycle(full)

Next == \E full \in BOOLEAN : Edge(full)

Spec == Init /\ [][Next]_vars

\* The clock runs and the streams are emptied: Full is low again and again.
FairSpec == Spec /\ WF_vars(Edge(FALSE))

-----------------------------------------------------------------------------
(* Properties                                                              *)

TypeOK ==
  /\ pos \in -1 .. MaxReserv + 1
  /\ sent \in Seq(Frames) /\ Len(sent) <= MaxFrames
  /\ w \in [cyc : BOOLEAN, valid : BOOLEAN, data : Parts, adr : {"data", "other"},
            good : BOOLEAN, off : 0 .. OffSize - 1, ptr : 0 .. Size - 1, cut : Nat]
  /\ mem \in [0 .. Size - 1 -> Words] /\ q \in Words
  /\ r \in [at : Places, off : Nat, ptr : 0 .. Size - 1, hdr : Seq(Parts), err : BOOLEAN,
            udp : BOOLEAN, left : 0 .. MaxReserv, wrReq : BOOLEAN, eod : BOOLEAN]
  /\ pause \in [low : BOOLEAN, high : BOOLEAN, req : BOOLEAN, stop : BOOLEAN]
  /\ word \in Outputs /\ sound \in BOOLEAN

(* The comment at line 2153: the end of a frame "musn't co-incide" with a  *)
(* word that is still to be written, or the pointer would not move.        *)
EndApart == w.good => ~w.valid

(* No word is written over one of a frame that has not been read: the      *)
(* frame being written stays within the room left by the unread ones, from *)
(* its first word to the move of the pointer, and a frame of the longest   *)
(* size fits whenever the buffer is not full (lines 1736-1742, 2165).      *)
NoOverwrite == ~BufEmpty => w.off < Room

(* A frame may lose its head to a full buffer, never its tail: Full does   *)
(* not rise inside a frame, so that every frame stored has its EOF and the *)
(* reader stops at its end (lines 2168-2184).                              *)
CutOnlyAtHead == [][w'.cut > w.cut => w.off = 0]_vars

(* A request to stop is never left standing when the buffer has drained:   *)
(* what the transmitter would send is what the last watermark said.        *)
NoStaleStop == pause.req /\ pause.stop => ~pause.low

(* The reader gives the streams the frames in order, whole and once, with  *)
(* EOD at the last word, across full fifos, wrapping pointers, lost heads  *)
(* and words read ahead of the frame's end.                                *)
Streams == INSTANCE FrameStream
IsFrameStream == Streams!Spec

(* Every frame stored is left at last.                                     *)
FramesDelivered ==
  \A k \in 1 .. MaxFrames :
    (queue # <<>> /\ Head(queue).n = k) ~> (~sound \/ queue = <<>> \/ Head(queue).n # k)

\* Lines 609-615 "Mind the Full situation while the last word is
\* transferred... With padded packets wait for the MAC to signal EOFin":
\* the reader's pointer is at the start of the oldest frame, or at the
\* writer's when there is none.
InStep == r.ptr = IF queue = <<>> THEN w.ptr ELSE Head(queue).at
=============================================================================
