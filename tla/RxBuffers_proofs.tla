-------------------------- MODULE RxBuffers_proofs --------------------------
(***************************************************************************)
(* What holds of RxBuffers for every size of the memory, of the frames and *)
(* of the headers: of its registers (IInv), of the words in its memory and *)
(* of the reader's place among them (Contents), and of the frames stored   *)
(* (QueueInv), from which it implements FrameStream.                       *)
(***************************************************************************)
EXTENDS RxBuffers, SequenceTheorems, TLAPS

INSTANCE Ring_proofs

\* A frame is on the fabric only after it was begun.
Begun == pos >= 0 => sent # <<>>

IInv == TypeOK /\ Begun /\ EndApart /\ NoStaleStop

BusType == [cyc : BOOLEAN, stb : BOOLEAN, adr : {"data", "other"}, data : Parts]

-----------------------------------------------------------------------------

LEMMA SizePositive ==
  /\ Size \in Nat \ {0} /\ OffSize \in Nat \ {0}
  /\ MaxReserv \in Nat \ {0} /\ MaxFrames \in Nat
BY SizeAssumption

(* What the lemmas on the addresses of the ring ask of the size of the memory. *)
LEMMA SizeNat == Size \in Nat \ {0}
BY SizePositive

LEMMA FrameLengths ==
  ASSUME NEW f \in Frames
  PROVE  f.len \in 1 .. MaxReserv /\ f.data \in 0 .. MaxReserv
<1>1. f.len \in 1 .. MaxReserv /\ f.data \in Nat /\ Payload + f.data <= f.len
  BY FrameAssumption
<1> QED BY <1>1, FrameAssumption, SizePositive

LEMMA NoDataPart == NoData \in Parts
BY SizePositive DEF NoData, Parts

(* Every action is a clock edge with some signals on the fabric, and the   *)
(* source keeps to the frame it has begun.                                 *)
LEMMA EveryStepClocks ==
  ASSUME TypeOK, Begun, NEW full \in BOOLEAN, Edge(full)
  PROVE  /\ \E bus \in BusType : Clock(bus, full)
         /\ pos' \in -1 .. MaxReserv + 1
         /\ sent' \in Seq(Frames) /\ Len(sent') <= MaxFrames
         /\ Begun'
<1> USE SizePositive, NoDataPart
<1>1. ASSUME pos >= 0
      PROVE  Current \in Frames /\ Current.len \in 1 .. MaxReserv
  <2>1. Len(sent) \in 1 .. Len(sent)
    BY <1>1 DEF Begun, TypeOK
  <2>2. Current \in Frames
    BY <2>1 DEF Current, TypeOK
  <2> QED BY <2>2, FrameLengths
<1>2. \A cyc, stb \in BOOLEAN, adr \in {"data", "other"}, d \in Parts : Bus(cyc, stb, adr, d) \in BusType
  BY DEF Bus, BusType
<1>3. CASE Quiet(full)
  <2>1. PICK adr \in {"data", "other"} : Clock(Bus(FALSE, FALSE, adr, NoData), full)
    BY <1>3 DEF Quiet
  <2>2. Bus(FALSE, FALSE, adr, NoData) \in BusType
    BY <1>2
  <2> QED BY <1>3, <2>1, <2>2 DEF Quiet, TypeOK, Begun
<1>4. CASE Status(full)
  <2>1. PICK f \in Frames : sent' = Append(sent, f)
    BY <1>4 DEF Status
  <2>2. sent' \in Seq(Frames) /\ Len(sent') = Len(sent) + 1 /\ sent' # <<>>
    BY <2>1 DEF TypeOK
  <2>3. Len(sent') <= MaxFrames
    BY <1>4, <2>2 DEF Status, TypeOK
  <2>4. Bus(TRUE, TRUE, "other", NoData) \in BusType
    BY <1>2
  <2>5. pos' \in -1 .. MaxReserv + 1 /\ Begun'
    BY <1>4, <2>2 DEF Status, Begun
  <2>6. \E bus \in BusType : Clock(bus, full)
    BY <1>4, <2>4 DEF Status
  <2> QED BY <2>2, <2>3, <2>5, <2>6
<1>5. CASE DataCycle(full)
  <2>1. pos \in 0 .. MaxReserv /\ pos + 1 \in -1 .. MaxReserv + 1
    BY <1>1, <1>5 DEF DataCycle, TypeOK
  <2>2. [n |-> Len(sent), i |-> pos] \in Parts
    BY <2>1 DEF Parts, TypeOK
  <2>3. Bus(TRUE, TRUE, "data", [n |-> Len(sent), i |-> pos]) \in BusType
    BY <1>2, <2>2
  <2> QED BY <1>5, <2>1, <2>3 DEF DataCycle, TypeOK, Begun
<1>6. CASE Gap(full)
  <2>1. Bus(TRUE, FALSE, "data", NoData) \in BusType
    BY <1>2
  <2> QED BY <1>6, <2>1 DEF Gap, TypeOK, Begun
<1>7. CASE Oob(full)
  <2>1. Current.len + 1 \in -1 .. MaxReserv + 1
    <3>1. pos >= 0
      BY <1>7 DEF Oob, TypeOK
    <3>2. Current.len \in 1 .. MaxReserv
      BY <1>1, <3>1
    <3> QED BY <3>2
  <2>2. Bus(TRUE, TRUE, "other", NoData) \in BusType
    BY <1>2
  <2>3. pos' \in -1 .. MaxReserv + 1 /\ sent' = sent /\ pos >= 0
    BY <1>7, <2>1 DEF Oob, TypeOK
  <2>4. \E bus \in BusType : Clock(bus, full)
    BY <1>7, <2>2 DEF Oob
  <2> QED BY <2>3, <2>4 DEF TypeOK, Begun
<1>8. CASE EndCycle(full)
  <2>1. PICK adr \in {"data", "other"} : Clock(Bus(FALSE, FALSE, adr, NoData), full)
    BY <1>8 DEF EndCycle
  <2>2. Bus(FALSE, FALSE, adr, NoData) \in BusType
    BY <1>2
  <2>3. pos' \in -1 .. MaxReserv + 1 /\ sent' = sent /\ pos' = -1
    BY <1>8 DEF EndCycle
  <2>4. \E bus \in BusType : Clock(bus, full)
    BY <2>1, <2>2
  <2> QED BY <2>3, <2>4 DEF TypeOK, Begun
<1> QED BY <1>3, <1>4, <1>5, <1>6, <1>7, <1>8 DEF Edge

(* The writer's registers keep their types and their widths.               *)
LEMMA WriterTypes ==
  ASSUME TypeOK, NEW bus \in BusType, Mac2Buf(bus)
  PROVE  w' \in [cyc : BOOLEAN, valid : BOOLEAN, data : Parts, adr : {"data", "other"},
                 good : BOOLEAN, off : 0 .. OffSize - 1, ptr : 0 .. Size - 1, cut : Nat]
<1> DEFINE p == RxPktBufPointers(bus)
<1>1. p.ptr \in 0 .. Size - 1 /\ p.off \in 0 .. OffSize - 1
  <2>1. w.off \in 0 .. OffSize - 1 /\ w.ptr \in 0 .. Size - 1
    BY DEF TypeOK
  <2>2. (w.off + 1) % OffSize \in 0 .. OffSize - 1
    BY <2>1, SizePositive
  <2>3. (w.ptr + w.off) % Size \in 0 .. Size - 1
    BY <2>1, SizePositive
  <2>4. 0 \in 0 .. OffSize - 1
    BY SizePositive
  <2>5. CASE We(bus)
    BY <2>1, <2>2, <2>5 DEF RxPktBufPointers
  <2>6. CASE ~We(bus) /\ w.good
    BY <2>3, <2>4, <2>6 DEF RxPktBufPointers
  <2>7. CASE ~We(bus) /\ ~w.good
    BY <2>1, <2>7 DEF RxPktBufPointers
  <2> QED BY <2>5, <2>6, <2>7
<1>2. bus.cyc \in BOOLEAN /\ bus.stb \in BOOLEAN /\ bus.adr \in {"data", "other"} /\ bus.data \in Parts
  BY DEF BusType
<1>3. /\ Eocycle(bus) \in BOOLEAN /\ NextValid(bus) \in BOOLEAN
  BY <1>2 DEF TypeOK, Eocycle, NextValid, SnkValid
<1>4. (IF w.good THEN 0 ELSE IF OverFlow(bus) THEN w.cut + 1 ELSE w.cut) \in Nat
  BY DEF TypeOK
<1>5. /\ (IF ShiftPipeline(bus) THEN NextValid(bus) ELSE w.valid) \in BOOLEAN
      /\ (IF ShiftPipeline(bus) THEN bus.data ELSE w.data) \in Parts
      /\ (IF ShiftPipeline(bus) THEN bus.adr ELSE w.adr) \in {"data", "other"}
  BY <1>2, <1>3 DEF TypeOK
<1> QED BY <1>1, <1>2, <1>3, <1>4, <1>5 DEF Mac2Buf

LEMMA MemoryTypes ==
  ASSUME TypeOK, NEW bus \in BusType, PacketBuffer(bus)
  PROVE  mem' \in [0 .. Size - 1 -> Words] /\ q' \in Words
<1>1. WrAddr \in 0 .. Size - 1 /\ RdAddr \in 0 .. Size - 1
  <2>1. \A a \in Int : a % Size \in 0 .. Size - 1
    BY SizePositive
  <2>2. w.ptr + w.off \in Int /\ r.ptr + r.off \in Int
    BY SizePositive DEF TypeOK
  <2> QED BY <2>1, <2>2 DEF WrAddr, RdAddr
<1>2. Eof(bus) \in BOOLEAN
  BY DEF BusType, TypeOK, Eof, Eocycle, AdrChange
<1>3. [n |-> w.data.n, i |-> w.data.i, eof |-> Eof(bus)] \in Words
  BY <1>2 DEF TypeOK, Parts, Words
<1> QED BY <1>1, <1>3 DEF PacketBuffer, TypeOK

(* The reader's registers, one step for each kind of transition.           *)
LEMMA ReaderTypes ==
  ASSUME TypeOK, NEW full \in BOOLEAN, Buf2Data(full)
  PROVE  r' \in [at : Places, off : Nat, ptr : 0 .. Size - 1, hdr : Seq(Parts), err : BOOLEAN,
                 udp : BOOLEAN, left : 0 .. MaxReserv, wrReq : BOOLEAN, eod : BOOLEAN]
<1> DEFINE R == [at : Places, off : Nat, ptr : 0 .. Size - 1, hdr : Seq(Parts), err : BOOLEAN,
                 udp : BOOLEAN, left : 0 .. MaxReserv, wrReq : BOOLEAN, eod : BOOLEAN]
<1>0. r \in R
  BY DEF TypeOK
<1>1. \A p \in 0 .. Size - 1 : Restarted(p) \in R
  BY SizePositive DEF Restarted, Places
<1>2. \A at \in Places : Goto(at) \in R /\ [Goto(at) EXCEPT !.off = 1] \in R
  BY <1>0 DEF Goto
<1>3. ReadWord \in R
  <2>1. [n |-> q.n, i |-> q.i] \in Parts
    BY DEF TypeOK, Words, Parts
  <2>2. Append(r.hdr, [n |-> q.n, i |-> q.i]) \in Seq(Parts) /\ Len(r.hdr) + 2 \in Nat
    BY <1>0, <2>1
  <2> QED BY <1>0, <2>2 DEF ReadWord, Places
<1>4. [Goto("HeaderChecks") EXCEPT !.off = 0, !.err = ~Checked] \in R
  BY <1>0 DEF Goto, Places, Checked
<1>5. OtherWord(full) \in R
  <2>1. (IF full THEN r.off ELSE NextOff) \in Nat /\ (~full) \in BOOLEAN
    BY <1>0, SizePositive DEF NextOff
  <2> QED BY <1>0, <2>1 DEF OtherWord, Places
<1>6. DataWord(full) \in R
  <2>1. CASE full
    BY <1>0, <2>1 DEF DataWord, Places
  <2>2. CASE ~full
    <3> DEFINE l == IF r.left > 0 THEN r.left - 1 ELSE 0
               e == r.left = 1
               v == r.left > 0
    <3>1. NextOff \in Nat
      BY <1>0, SizePositive DEF NextOff
    <3>2. l \in 0 .. MaxReserv
      BY <1>0, SizePositive
    <3>3. e \in BOOLEAN /\ v \in BOOLEAN
      OBVIOUS
    <3>4. DataWord(full) = [r EXCEPT !.at = "TransferData", !.off = NextOff, !.eod = e,
                                     !.left = l, !.wrReq = v]
      BY <2>2 DEF DataWord
    <3> HIDE DEF l, e, v
    <3> QED BY <1>0, <3>1, <3>2, <3>3, <3>4 DEF Places
  <2> QED BY <2>1, <2>2
<1>7. Selected \in R
  <2> DEFINE m == CHOOSE k \in DOMAIN sent : HeaderOf(k)
  <2>1. Listening => m \in DOMAIN sent
    BY DEF Listening
  <2>2. Listening => sent[m].data \in 0 .. MaxReserv
    BY <2>1, FrameLengths DEF TypeOK
  <2>3. Payload \in Nat /\ Listening \in BOOLEAN
    BY FrameAssumption DEF Listening
  <2>4. /\ (IF Listening THEN Payload ELSE 0) \in Nat
        /\ (IF Listening THEN sent[m].data ELSE 0) \in 0 .. MaxReserv
    BY <2>2, <2>3, SizePositive
  <2> QED BY <1>0, <2>3, <2>4 DEF Selected, Places
<1>8. r.ptr \in 0 .. Size - 1 /\ (r.ptr + r.off) % Size \in 0 .. Size - 1
  BY <1>0, SizePositive
<1> DEFINE Moved ==
      \/ r' \in {Restarted(r.ptr), Restarted((r.ptr + r.off) % Size)}
      \/ r' \in {[Goto("StartMemAcc") EXCEPT !.off = 1], ReadWord, Selected,
                 [Goto("HeaderChecks") EXCEPT !.off = 0, !.err = ~Checked]}
      \/ r' \in {OtherWord(full), DataWord(full)}
<1>9. Moved
  <2>1. CASE r.at \in {"Idle", "StartMemAcc"}
    BY <2>1 DEF Buf2Data, Leaving
  <2>2. CASE r.at = "ReadHeader"
    BY <2>2 DEF Buf2Data, Leaving
  <2>3. CASE r.at = "HeaderChecks"
    BY <2>3 DEF Buf2Data, Leaving
  <2>4. CASE r.at = "StatusOut"
    BY <2>4 DEF Buf2Data, Leaving
  <2>5. CASE r.at \in {"TransferData", "TransferOtherData"} /\ Leaving
    BY <2>5 DEF Buf2Data
  <2>6. CASE r.at = "TransferData" /\ ~Leaving
    BY <2>6 DEF Buf2Data
  <2>7. CASE r.at = "TransferOtherData" /\ ~Leaving
    BY <2>7 DEF Buf2Data
  <2>8. r.at \in Places
    BY <1>0
  <2> HIDE DEF Moved
  <2> QED BY <2>1, <2>2, <2>3, <2>4, <2>5, <2>6, <2>7, <2>8 DEF Places
<1>10. r' \in R
  <2>1. [Goto("StartMemAcc") EXCEPT !.off = 1] \in R
    BY <1>2 DEF Places
  <2> HIDE DEF R
  <2> QED BY <2>1, <1>1, <1>3, <1>4, <1>5, <1>6, <1>7, <1>8, <1>9
<1> QED BY <1>10

(* The two watermarks are apart: the level is never below the low and      *)
(* above the high one (ipmux.vhd:1721-1733).                               *)
LEMMA WaterMarksApart ==
  ASSUME TypeOK
  PROVE  ~(WaterMarkLow /\ WaterMarkHigh)
<1>1. (Size * 30) \div 100 <= (Size * 50) \div 100
  BY SizePositive
<1>2. Used \in Int
  BY SizePositive DEF TypeOK, Used
<1>3. (Size * 30) \div 100 \in Int /\ (Size * 50) \div 100 \in Int
  BY SizePositive
<1> QED BY <1>1, <1>2, <1>3 DEF WaterMarkLow, WaterMarkHigh

(* One edge keeps a pending request current: a request to stop is dropped  *)
(* with the edge of the low watermark, and none is made below it.          *)
LEMMA PauseStep ==
  ASSUME TypeOK, NoStaleStop, NEW ack, PauseReqLogic(ack)
  PROVE  NoStaleStop'
<1> SUFFICES ASSUME pause'.req, pause'.stop, pause'.low
             PROVE  FALSE
  BY DEF NoStaleStop
<1>1. WaterMarkLow
  BY DEF PauseReqLogic
<1>2. ~Requests
  BY <1>1, WaterMarksApart DEF Requests
<1>3. ~Cancels /\ pause.stop
  BY <1>2 DEF PauseReqLogic
<1>4. pause.req
  BY <1>2, <1>3 DEF PauseReqLogic
<1>5. pause.low
  BY <1>1, <1>3 DEF Cancels
<1> QED BY <1>3, <1>4, <1>5 DEF NoStaleStop

(* The end of a frame never meets a word that is still to be written.      *)
LEMMA EndStep ==
  ASSUME NEW bus, Mac2Buf(bus)
  PROVE  EndApart'
<1>1. w'.good = Eocycle(bus)
  BY DEF Mac2Buf
<1>2. Eocycle(bus) => w'.valid = NextValid(bus)
  BY DEF Mac2Buf, ShiftPipeline
<1>3. Eocycle(bus) => ~NextValid(bus)
  BY DEF Eocycle, NextValid, SnkValid
<1> QED BY <1>1, <1>2, <1>3 DEF EndApart

LEMMA HistoryTypes ==
  ASSUME TypeOK, NEW full \in BOOLEAN, History(full)
  PROVE  word' \in Outputs /\ sound' \in BOOLEAN
<1>1. NoWord \in Outputs
  BY SizePositive DEF NoWord, Outputs
<1>2. /\ q.n \in 0 .. MaxFrames /\ q.i \in 0 .. MaxReserv
      /\ (IF r.udp THEN "udp" ELSE "cpu") \in {"udp", "cpu", "none"}
      /\ (IF r.udp THEN r.eod ELSE q.eof) \in BOOLEAN
  BY DEF TypeOK, Words
<1>3. Written \in Outputs
  BY <1>1, <1>2 DEF Written, Outputs
<1>4. (sound /\ ~(Padding /\ full)) \in BOOLEAN
  OBVIOUS
<1> QED BY <1>3, <1>4 DEF History

LEMMA PauseTypes ==
  ASSUME NEW ack, PauseReqLogic(ack)
  PROVE  pause' \in [low : BOOLEAN, high : BOOLEAN, req : BOOLEAN, stop : BOOLEAN]
<1>1. WaterMarkLow \in BOOLEAN /\ WaterMarkHigh \in BOOLEAN
  BY DEF WaterMarkLow, WaterMarkHigh
<1>2. /\ (~ack /\ (Cancels \/ Requests \/ pause.req)) \in BOOLEAN
      /\ (~ack /\ ~Cancels /\ (Requests \/ pause.stop)) \in BOOLEAN
  OBVIOUS
<1> QED BY <1>1, <1>2 DEF PauseReqLogic

-----------------------------------------------------------------------------

LEMMA InitIInv == Init => IInv
<1> SUFFICES ASSUME Init PROVE IInv
  OBVIOUS
<1> USE SizePositive, NoDataPart DEF Init
<1>1. /\ pos \in -1 .. MaxReserv + 1
      /\ sent \in Seq(Frames) /\ Len(sent) <= MaxFrames
  OBVIOUS
<1>2. w \in [cyc : BOOLEAN, valid : BOOLEAN, data : Parts, adr : {"data", "other"},
             good : BOOLEAN, off : 0 .. OffSize - 1, ptr : 0 .. Size - 1, cut : Nat]
  OBVIOUS
<1>3. mem \in [0 .. Size - 1 -> Words] /\ q \in Words
  BY DEF Blank, Words
<1>4. r \in [at : Places, off : Nat, ptr : 0 .. Size - 1, hdr : Seq(Parts), err : BOOLEAN,
             udp : BOOLEAN, left : 0 .. MaxReserv, wrReq : BOOLEAN, eod : BOOLEAN]
  BY DEF Restarted, Places
<1>5. pause \in [low : BOOLEAN, high : BOOLEAN, req : BOOLEAN, stop : BOOLEAN]
  OBVIOUS
<1>6. word \in Outputs /\ sound \in BOOLEAN
  BY DEF NoWord, Outputs
<1>7. Begun /\ EndApart /\ NoStaleStop
  BY DEF Begun, EndApart, NoStaleStop
<1> QED BY <1>1, <1>2, <1>3, <1>4, <1>5, <1>6, <1>7 DEF IInv, TypeOK

LEMMA StepIInv == IInv /\ [Next]_vars => IInv'
<1> SUFFICES ASSUME IInv, [Next]_vars PROVE IInv'
  OBVIOUS
<1>1. CASE Next
  <2>1. PICK full \in BOOLEAN : Edge(full)
    BY <1>1 DEF Next
  <2>2. PICK bus \in BusType : Clock(bus, full)
    BY <2>1, EveryStepClocks DEF IInv
  <2>3. PICK ack : PauseReqLogic(ack)
    BY <2>2 DEF Clock
  <2>4. TypeOK'
    BY <2>1, <2>2, <2>3, EveryStepClocks, WriterTypes, MemoryTypes, ReaderTypes,
       PauseTypes, HistoryTypes DEF IInv, Clock, TypeOK
  <2>5. Begun'
    BY <2>1, EveryStepClocks DEF IInv
  <2>6. EndApart'
    BY <2>2, EndStep DEF Clock
  <2>7. NoStaleStop'
    BY <2>3, PauseStep DEF IInv
  <2> QED BY <2>4, <2>5, <2>6, <2>7 DEF IInv
<1>2. CASE UNCHANGED vars
  BY <1>2 DEF vars, IInv, TypeOK, Begun, EndApart, NoStaleStop
<1> QED BY <1>1, <1>2

(* The registers of writer, reader and PauseReqLogic keep the invariant    *)
(* that the theorems below are read off.                                   *)
THEOREM Inductive == Spec => []IInv
BY InitIInv, StepIInv, PTL DEF Spec

(* For every size of memory, frames and headers, every register keeps its  *)
(* width and every address stays inside the memory.                        *)
THEOREM TypeCorrect == Spec => []TypeOK
BY Inductive, PTL DEF IInv

(* The end of a frame never meets a word still in the pipeline, so that    *)
(* the packet pointer always moves by the whole frame (line 2153).         *)
THEOREM EndsApart == Spec => []EndApart
BY Inductive, PTL DEF IInv

(* No request to stop outlives the buffer's draining (lines 967-983).      *)
THEOREM StopsAreCurrent == Spec => []NoStaleStop
BY Inductive, PTL DEF IInv

-----------------------------------------------------------------------------
(* Distances around the memory.                                            *)

(* The room and what is used make up the memory.                           *)
LEMMA UsedAndRoom ==
  ASSUME TypeOK
  PROVE  /\ Used \in 0 .. Size - 1 /\ Room \in 0 .. Size - 1
         /\ BufEmpty <=> Used = 0
         /\ ~BufEmpty => Room = Size - Used
<1>1. r.ptr \in 0 .. Size - 1 /\ w.ptr \in 0 .. Size - 1
  BY DEF TypeOK
<1> DEFINE u == (w.ptr - r.ptr) % Size
           o == (r.ptr - w.ptr) % Size
<1>2. /\ u = IF r.ptr <= w.ptr THEN w.ptr - r.ptr ELSE w.ptr - r.ptr + Size
      /\ u \in 0 .. Size - 1 /\ (u = 0 <=> w.ptr = r.ptr)
  BY <1>1, Distance, SizeNat
<1>3. /\ o = IF w.ptr <= r.ptr THEN r.ptr - w.ptr ELSE r.ptr - w.ptr + Size
      /\ o \in 0 .. Size - 1
  BY <1>1, Distance, SizeNat
<1> HIDE DEF u, o
<1>4. r.ptr # w.ptr => o = Size - u
  BY <1>1, <1>2, <1>3, SizePositive
<1>5. Used = u /\ Room = o
  BY DEF Used, Room, u, o
<1> QED BY <1>2, <1>3, <1>4, <1>5 DEF BufEmpty

-----------------------------------------------------------------------------
(* The writer: what an edge does with the word that waits.                 *)

\* The words of the frame on the fabric that have reached the writer.
Entered == IF pos = -1 THEN IF w.good THEN Current.len ELSE 0
           ELSE IF pos > Current.len THEN Current.len ELSE pos

\* The writer's registers tell how far the frame has come.
WriterCounts ==
  /\ w.cut + w.off + (IF w.valid THEN 1 ELSE 0) = Entered
  /\ w.valid <=> pos > 0 /\ pos <= Current.len
  /\ w.valid => w.adr = "data" /\ w.data = [n |-> Len(sent), i |-> w.cut + w.off]
  /\ w.cyc <=> pos >= 0
  /\ pos >= 0 /\ ~w.valid => w.adr = "other"
  /\ w.good => pos = -1 /\ sent # <<>>

\* The word i of frame n of s as it is stored.
WordOf(s, n, i) == [n |-> n, i |-> i, eof |-> i = s[n].len - 1]

\* What an edge does to the writer's pointer, offset and memory.
Writes ==
  /\ ~BufFull /\ ~w.good /\ sent # <<>> /\ w.cut + w.off < Current.len
  /\ mem' = [mem EXCEPT ![WrAddr] = WordOf(sent, Len(sent), w.cut + w.off)]
  /\ w'.ptr = w.ptr /\ w'.off = w.off + 1 /\ w'.cut = w.cut
  /\ sent' = sent

Loses ==
  /\ BufFull /\ ~w.good /\ mem' = mem
  /\ w'.ptr = w.ptr /\ w'.off = w.off /\ w'.cut = w.cut + 1
  /\ sent' = sent

Closes ==
  /\ w.good /\ sent # <<>> /\ w.cut + w.off = Current.len /\ mem' = mem
  /\ w'.ptr = (w.ptr + w.off) % Size /\ w'.off = 0 /\ w'.cut = 0
  /\ sent' = sent \/ \E f \in Frames : sent' = Append(sent, f)

Keeps ==
  /\ ~w.good /\ mem' = mem
  /\ w'.ptr = w.ptr /\ w'.off = w.off /\ w'.cut = w.cut
  /\ sent' = sent \/ (w.off = 0 /\ \E f \in Frames : sent' = Append(sent, f))

LEMMA CurrentFrame ==
  ASSUME TypeOK, sent # <<>>
  PROVE  Len(sent) \in DOMAIN sent /\ Current \in Frames /\ Current.len \in 1 .. MaxReserv
<1>1. Len(sent) \in 1 .. Len(sent) /\ DOMAIN sent = 1 .. Len(sent)
  BY DEF TypeOK
<1>2. Current \in Frames
  BY <1>1 DEF TypeOK, Current
<1> QED BY <1>1, <1>2, FrameLengths

(* The effect of an edge that moves a word out of the pipeline.            *)
LEMMA WordMoves ==
  ASSUME TypeOK, WriterCounts, NEW bus \in BusType, Mac2Buf(bus), PacketBuffer(bus),
         w.valid, ShiftPipeline(bus), pos > 0, sent # <<>>, sent' = sent,
         Eof(bus) <=> w.cut + w.off = Current.len - 1
  PROVE  /\ Writes \/ Loses
         /\ w'.cut + w'.off = w.cut + w.off + 1
<1>1. w.off \in Nat /\ w.cut \in Nat /\ w.ptr \in 0 .. Size - 1 /\ pos \in Int
  BY SizePositive DEF TypeOK
<1>2. Current.len \in 1 .. MaxReserv
  BY CurrentFrame
<1>3. w.cut + w.off + 1 = pos /\ pos <= Current.len /\ ~w.good
  BY <1>1, <1>2 DEF WriterCounts, Entered
<1>4. Moves(bus)
  BY DEF Moves
<1>5. CASE BufFull
  BY <1>1, <1>3, <1>4, <1>5 DEF Mac2Buf, PacketBuffer, RxPktBufPointers, We, OverFlow, Loses
<1>6. CASE ~BufFull
  <2>1. We(bus) /\ ~OverFlow(bus)
    BY <1>4, <1>6 DEF We, OverFlow
  <2>2. (w.off + 1) % OffSize = w.off + 1
    <3>1. w.off + 1 \in 0 .. OffSize - 1
      BY <1>1, <1>2, <1>3, SizeAssumption
    <3> HIDE DEF RxPktBufPointers
    <3> QED BY <3>1, SizePositive
  <2>3. w'.ptr = w.ptr /\ w'.off = w.off + 1 /\ w'.cut = w.cut
    BY <1>3, <2>1, <2>2 DEF Mac2Buf, RxPktBufPointers
  <2>4. [n |-> w.data.n, i |-> w.data.i, eof |-> Eof(bus)] = WordOf(sent, Len(sent), w.cut + w.off)
    <3>1. w.data = [n |-> Len(sent), i |-> w.cut + w.off]
      BY DEF WriterCounts
    <3>2. Eof(bus) = (w.cut + w.off = Current.len - 1)
      BY DEF Eof, Eocycle, AdrChange, BusType, TypeOK
    <3> QED BY <3>1, <3>2 DEF WordOf, Current
  <2>5. mem' = [mem EXCEPT ![WrAddr] = WordOf(sent, Len(sent), w.cut + w.off)]
    BY <2>1, <2>4 DEF PacketBuffer
  <2>6. w.cut + w.off < Current.len
    BY <1>1, <1>2, <1>3, SizePositive
  <2>7. w'.cut + w'.off = w.cut + w.off + 1
    BY <1>1, <2>3
  <2> QED BY <1>3, <1>6, <2>3, <2>5, <2>6, <2>7 DEF Writes
<1> QED BY <1>5, <1>6

(* The effect of an edge that moves none.                                  *)
LEMMA NoWordMoves ==
  ASSUME TypeOK, NEW bus \in BusType, Mac2Buf(bus), PacketBuffer(bus), ~Moves(bus)
  PROVE  /\ mem' = mem
         /\ w.good => w'.ptr = (w.ptr + w.off) % Size /\ w'.off = 0 /\ w'.cut = 0
         /\ ~w.good => w'.ptr = w.ptr /\ w'.off = w.off /\ w'.cut = w.cut
<1>1. ~We(bus) /\ ~OverFlow(bus)
  BY DEF We, OverFlow
<1> QED BY <1>1 DEF Mac2Buf, PacketBuffer, RxPktBufPointers

(* The registers that say what is in the pipeline.                         *)
LEMMA Pipeline ==
  ASSUME TypeOK, NEW bus \in BusType, Mac2Buf(bus)
  PROVE  /\ w'.cyc = bus.cyc /\ w'.good = Eocycle(bus)
         /\ ShiftPipeline(bus) => /\ w'.valid = NextValid(bus)
                                  /\ w'.data = bus.data /\ w'.adr = bus.adr
         /\ ~ShiftPipeline(bus) => w'.valid = w.valid /\ w'.data = w.data /\ w'.adr = w.adr
BY DEF Mac2Buf

LEMMA WriterStep ==
  ASSUME TypeOK, Begun, WriterCounts, NEW full \in BOOLEAN, Edge(full)
  PROVE  /\ WriterCounts'
         /\ Writes \/ Loses \/ Closes \/ Keeps
<1> DEFINE Effect == Writes \/ Loses \/ Closes \/ Keeps
<1>t. /\ w.off \in Nat /\ w.cut \in Nat /\ pos \in Int /\ w.valid \in BOOLEAN
      /\ w.cyc \in BOOLEAN /\ w.good \in BOOLEAN /\ w.adr \in {"data", "other"}
  BY SizePositive DEF TypeOK
<1>b. \A cyc, stb \in BOOLEAN, adr \in {"data", "other"}, d \in Parts : Bus(cyc, stb, adr, d) \in BusType
  BY DEF Bus, BusType
<1>l. sent # <<>> => Current.len \in 1 .. MaxReserv
  BY CurrentFrame
<1>1. CASE Quiet(full)
  <2>1. PICK adr \in {"data", "other"} : Clock(Bus(FALSE, FALSE, adr, NoData), full)
    BY <1>1 DEF Quiet
  <2> DEFINE b == Bus(FALSE, FALSE, adr, NoData)
  <2>2. b \in BusType /\ Mac2Buf(b) /\ PacketBuffer(b)
    BY <2>1, <1>b, NoDataPart DEF Clock
  <2>3. b.cyc = FALSE /\ b.stb = FALSE
    BY DEF Bus
  <2> HIDE DEF b
  <2>4. pos = -1 /\ pos' = -1 /\ sent' = sent
    BY <1>1 DEF Quiet
  <2>5. ~w.cyc /\ ~w.valid
    BY <2>4 DEF WriterCounts
  <2>6. ~Eocycle(b) /\ ~Moves(b) /\ ~NextValid(b)
    BY <2>3, <2>5 DEF Eocycle, Moves, NextValid, SnkValid
  <2>7. w'.cyc = FALSE /\ w'.good = FALSE /\ w'.valid = FALSE
    BY <2>2, <2>3, <2>5, <2>6, <1>t, Pipeline DEF Eocycle, NextValid, SnkValid
  <2>8. /\ mem' = mem
        /\ w.good => w'.ptr = (w.ptr + w.off) % Size /\ w'.off = 0 /\ w'.cut = 0
        /\ ~w.good => w'.ptr = w.ptr /\ w'.off = w.off /\ w'.cut = w.cut
    BY <2>2, <2>6, NoWordMoves
  <2>9. w.cut + w.off = IF w.good THEN Current.len ELSE 0
    BY <1>t, <2>4, <2>5 DEF WriterCounts, Entered
  <2>10. Effect
    BY <2>4, <2>8, <2>9 DEF Closes, Keeps, WriterCounts
  <2>11. w'.off = 0 /\ w'.cut = 0
    BY <1>t, <2>8, <2>9
  <2> QED BY <2>4, <2>7, <2>10, <2>11 DEF WriterCounts, Entered
<1>2. CASE Status(full)
  <2> DEFINE b == Bus(TRUE, TRUE, "other", NoData)
  <2>1. b \in BusType /\ Mac2Buf(b) /\ PacketBuffer(b)
    BY <1>2, <1>b, NoDataPart DEF Clock, Status
  <2>2. b.cyc = TRUE /\ b.stb = TRUE /\ b.adr = "other"
    BY DEF Bus
  <2> HIDE DEF b
  <2>3. PICK f \in Frames : sent' = Append(sent, f)
    BY <1>2 DEF Status
  <2>4. pos = -1 /\ pos' = 0
    BY <1>2 DEF Status
  <2>5. Current'.len \in 1 .. MaxReserv
    <3>1. Current' = f
      BY <2>3 DEF Current, TypeOK
    <3> QED BY <3>1, FrameLengths
  <2>6. ~w.cyc /\ ~w.valid
    BY <2>4 DEF WriterCounts
  <2>7. ~Eocycle(b) /\ ~Moves(b) /\ ~NextValid(b) /\ ShiftPipeline(b)
    BY <2>2, <2>6 DEF Eocycle, Moves, NextValid, SnkValid, ShiftPipeline
  <2>8. w'.cyc = TRUE /\ w'.good = FALSE /\ w'.valid = FALSE /\ w'.adr = "other"
    BY <2>1, <2>2, <2>7, Pipeline DEF Eocycle, NextValid, SnkValid
  <2>9. /\ mem' = mem
        /\ w.good => w'.ptr = (w.ptr + w.off) % Size /\ w'.off = 0 /\ w'.cut = 0
        /\ ~w.good => w'.ptr = w.ptr /\ w'.off = w.off /\ w'.cut = w.cut
    BY <2>1, <2>7, NoWordMoves
  <2>10. w.cut + w.off = IF w.good THEN Current.len ELSE 0
    BY <1>t, <2>4, <2>6 DEF WriterCounts, Entered
  <2>11. w'.off = 0 /\ w'.cut = 0 /\ (~w.good => w.off = 0)
    BY <1>t, <2>9, <2>10
  <2>12. Effect
    BY <2>3, <2>9, <2>10, <2>11 DEF Closes, Keeps, WriterCounts
  <2> QED BY <2>4, <2>5, <2>8, <2>11, <2>12 DEF WriterCounts, Entered
<1>3. CASE DataCycle(full)
  <2> DEFINE d == [n |-> Len(sent), i |-> pos]
             b == Bus(TRUE, TRUE, "data", d)
  <2>1. /\ pos >= 0 /\ pos < Current.len /\ pos' = pos + 1 /\ sent' = sent
        /\ Clock(b, full)
    BY <1>3 DEF DataCycle
  <2>2. sent # <<>> /\ Current.len \in 1 .. MaxReserv
    BY <2>1, <1>l DEF Begun
  <2>3. d \in Parts
    <3>1. Len(sent) \in 0 .. MaxFrames
      BY <1>t, SizePositive DEF TypeOK
    <3>2. pos \in 0 .. MaxReserv
      BY <1>t, <2>1, <2>2, SizePositive DEF TypeOK
    <3> QED BY <3>1, <3>2 DEF Parts
  <2> HIDE DEF d
  <2>4. b \in BusType /\ Mac2Buf(b) /\ PacketBuffer(b)
    BY <2>1, <2>3, <1>b DEF Clock
  <2>5. b.cyc = TRUE /\ b.stb = TRUE /\ b.adr = "data" /\ b.data = d
    BY DEF Bus
  <2> HIDE DEF b
  <2>6. ~Eocycle(b) /\ ~AdrChange(b) /\ NextValid(b) /\ ShiftPipeline(b)
    BY <2>5 DEF Eocycle, AdrChange, NextValid, SnkValid, ShiftPipeline
  <2>7. w'.cyc = TRUE /\ w'.good = FALSE /\ w'.valid = TRUE /\ w'.adr = "data" /\ w'.data = d
    BY <2>4, <2>5, <2>6, Pipeline DEF Eocycle, NextValid, SnkValid
  <2>8. ~w.good
    BY <1>t, <2>1 DEF WriterCounts
  <2>9. Effect /\ w'.cut + w'.off = pos
    <3>1. CASE w.valid
      <4>1. pos > 0 /\ w.cut + w.off + 1 = pos
        BY <1>t, <2>1, <2>2, <3>1 DEF WriterCounts, Entered
      <4>2. Eof(b) <=> w.cut + w.off = Current.len - 1
        BY <1>t, <2>1, <2>2, <2>6, <4>1, SizePositive DEF Eof
      <4> QED BY <2>1, <2>2, <2>4, <2>6, <3>1, <4>1, <4>2, WordMoves
    <3>2. CASE ~w.valid
      <4>1. pos = 0 /\ w.cut + w.off = 0
        BY <1>t, <2>1, <2>2, <3>2 DEF WriterCounts, Entered
      <4>2. ~Moves(b)
        BY <3>2 DEF Moves
      <4>3. mem' = mem /\ w'.ptr = w.ptr /\ w'.off = w.off /\ w'.cut = w.cut
        BY <2>4, <2>8, <4>2, NoWordMoves
      <4> QED BY <2>1, <2>8, <4>1, <4>3 DEF Keeps
    <3> QED BY <1>t, <3>1, <3>2
  <2>10. Current' = Current /\ Len(sent)' = Len(sent) /\ sent' # <<>>
    BY <2>1, <2>2 DEF Current
  <2>11. Entered' = pos + 1
    BY <1>t, <2>1, <2>2, <2>10, SizePositive DEF Entered
  <2>12. w'.data = [n |-> Len(sent)', i |-> w'.cut + w'.off]
    BY <2>7, <2>9, <2>10 DEF d
  <2>13. w'.cut + w'.off + (IF w'.valid THEN 1 ELSE 0) = Entered'
    BY <2>7, <2>9, <2>11
  <2>14. pos' > 0 /\ pos' <= Current'.len
    BY <1>t, <2>1, <2>2, <2>10, SizePositive
  <2>15. WriterCounts'
    BY <2>7, <2>12, <2>13, <2>14, <1>t, <2>1 DEF WriterCounts
  <2> QED BY <2>9, <2>15
<1>4. CASE Gap(full)
  <2> DEFINE b == Bus(TRUE, FALSE, "data", NoData)
  <2>1. /\ pos > 0 /\ pos <= Current.len /\ pos' = pos /\ sent' = sent
        /\ b \in BusType /\ Mac2Buf(b) /\ PacketBuffer(b)
    BY <1>4, <1>b, NoDataPart DEF Gap, Clock
  <2>2. b.cyc = TRUE /\ b.stb = FALSE /\ b.adr = "data"
    BY DEF Bus
  <2> HIDE DEF b
  <2>3. ~Eocycle(b) /\ ~ShiftPipeline(b) /\ ~Moves(b)
    BY <2>2 DEF Eocycle, AdrChange, SnkValid, ShiftPipeline, Moves
  <2>4. /\ w'.cyc = TRUE /\ w'.good = FALSE /\ w'.valid = w.valid /\ w'.adr = w.adr
        /\ w'.data = w.data
    BY <2>1, <2>2, <2>3, Pipeline DEF Eocycle
  <2>5. ~w.good
    BY <1>t, <2>1 DEF WriterCounts
  <2>6. mem' = mem /\ w'.ptr = w.ptr /\ w'.off = w.off /\ w'.cut = w.cut
    BY <2>1, <2>3, <2>5, NoWordMoves
  <2>7. Effect
    BY <2>1, <2>5, <2>6 DEF Keeps
  <2>8. Current' = Current /\ Len(sent)' = Len(sent)
    BY <2>1 DEF Current
  <2>9. WriterCounts'
    BY <1>t, <2>1, <2>4, <2>6, <2>8 DEF WriterCounts, Entered
  <2> QED BY <2>7, <2>9
<1>5. CASE Oob(full)
  <2> DEFINE b == Bus(TRUE, TRUE, "other", NoData)
  <2>1. /\ pos > 0 /\ pos >= Current.len /\ pos' = Current.len + 1 /\ sent' = sent
        /\ b \in BusType /\ Mac2Buf(b) /\ PacketBuffer(b)
    BY <1>5, <1>b, NoDataPart DEF Oob, Clock
  <2>2. b.cyc = TRUE /\ b.stb = TRUE /\ b.adr = "other"
    BY DEF Bus
  <2> HIDE DEF b
  <2>3. sent # <<>> /\ Current.len \in 1 .. MaxReserv
    BY <1>t, <2>1, <1>l DEF Begun
  <2>4. ~Eocycle(b) /\ ShiftPipeline(b) /\ ~NextValid(b)
    BY <2>2 DEF Eocycle, NextValid, SnkValid, ShiftPipeline
  <2>5. w'.cyc = TRUE /\ w'.good = FALSE /\ w'.valid = FALSE /\ w'.adr = "other"
    BY <2>1, <2>2, <2>4, Pipeline DEF Eocycle, NextValid, SnkValid
  <2>6. ~w.good
    BY <1>t, <2>1 DEF WriterCounts
  <2>7. Effect /\ w'.cut + w'.off = Current.len
    <3>1. CASE w.valid
      <4>1. pos = Current.len /\ w.cut + w.off + 1 = Current.len
        BY <1>t, <2>1, <2>3, <3>1 DEF WriterCounts, Entered
      <4>2. AdrChange(b)
        BY <2>2, <3>1 DEF AdrChange, WriterCounts
      <4>3. Eof(b) <=> w.cut + w.off = Current.len - 1
        BY <1>t, <2>3, <4>1, <4>2 DEF Eof
      <4> QED BY <1>t, <2>1, <2>3, <2>4, <3>1, <4>1, <4>3, WordMoves
    <3>2. CASE ~w.valid
      <4>1. w.cut + w.off = Current.len
        BY <1>t, <2>1, <2>3, <3>2, SizePositive DEF WriterCounts, Entered
      <4>2. ~Moves(b)
        BY <3>2 DEF Moves
      <4>3. mem' = mem /\ w'.ptr = w.ptr /\ w'.off = w.off /\ w'.cut = w.cut
        BY <2>1, <2>6, <4>2, NoWordMoves
      <4> QED BY <2>1, <2>6, <4>1, <4>3 DEF Keeps
    <3> QED BY <1>t, <3>1, <3>2
  <2>8. Current' = Current /\ sent' # <<>>
    BY <2>1, <2>3 DEF Current
  <2>9. Entered' = Current.len /\ pos' > Current.len /\ pos' >= 0
    BY <2>1, <2>3, <2>8, SizePositive DEF Entered
  <2>10. w'.cut + w'.off + (IF w'.valid THEN 1 ELSE 0) = Entered'
    BY <2>3, <2>5, <2>7, <2>9
  <2>11. ~(pos' > 0 /\ pos' <= Current'.len)
    BY <2>1, <2>3, <2>8, SizePositive
  <2>12. WriterCounts'
    BY <2>5, <2>9, <2>10, <2>11 DEF WriterCounts
  <2> QED BY <2>7, <2>12
<1>6. CASE EndCycle(full)
  <2>1. PICK adr \in {"data", "other"} : Clock(Bus(FALSE, FALSE, adr, NoData), full)
    BY <1>6 DEF EndCycle
  <2> DEFINE b == Bus(FALSE, FALSE, adr, NoData)
  <2>2. /\ pos > 0 /\ pos >= Current.len /\ pos' = -1 /\ sent' = sent
        /\ b \in BusType /\ Mac2Buf(b) /\ PacketBuffer(b)
    BY <1>6, <2>1, <1>b, NoDataPart DEF EndCycle, Clock
  <2>3. b.cyc = FALSE /\ b.stb = FALSE
    BY DEF Bus
  <2> HIDE DEF b
  <2>4. sent # <<>> /\ Current.len \in 1 .. MaxReserv
    BY <1>t, <2>2, <1>l DEF Begun
  <2>5. w.cyc /\ ~w.good
    BY <1>t, <2>2 DEF WriterCounts
  <2>6. Eocycle(b) /\ ShiftPipeline(b) /\ ~NextValid(b) /\ Eof(b)
    BY <2>3, <2>5 DEF Eocycle, NextValid, SnkValid, ShiftPipeline, Eof
  <2>7. w'.cyc = FALSE /\ w'.good = TRUE /\ w'.valid = FALSE
    BY <1>t, <2>2, <2>3, <2>5, <2>6, Pipeline DEF Eocycle, NextValid, SnkValid
  <2>8. Effect /\ w'.cut + w'.off = Current.len
    <3>1. CASE w.valid
      <4>1. pos = Current.len /\ w.cut + w.off + 1 = Current.len
        BY <1>t, <2>2, <2>4, <3>1 DEF WriterCounts, Entered
      <4>2. Eof(b) <=> w.cut + w.off = Current.len - 1
        BY <1>t, <2>4, <2>6, <4>1
      <4> QED BY <1>t, <2>2, <2>4, <2>6, <3>1, <4>1, <4>2, WordMoves
    <3>2. CASE ~w.valid
      <4>1. w.cut + w.off = Current.len
        BY <1>t, <2>2, <2>4, <3>2, SizePositive DEF WriterCounts, Entered
      <4>2. ~Moves(b)
        BY <3>2 DEF Moves
      <4>3. mem' = mem /\ w'.ptr = w.ptr /\ w'.off = w.off /\ w'.cut = w.cut
        BY <2>2, <2>5, <4>2, NoWordMoves
      <4> QED BY <2>2, <2>5, <4>1, <4>3 DEF Keeps
    <3> QED BY <1>t, <3>1, <3>2
  <2>9. Current' = Current /\ sent' # <<>>
    BY <2>2, <2>4 DEF Current
  <2>10. Entered' = Current.len
    BY <2>2, <2>7, <2>9 DEF Entered
  <2>11. w'.cut + w'.off + (IF w'.valid THEN 1 ELSE 0) = Entered'
    BY <2>4, <2>7, <2>8, <2>10
  <2>12. WriterCounts'
    BY <2>2, <2>7, <2>9, <2>11 DEF WriterCounts
  <2> QED BY <2>8, <2>12
<1> QED BY <1>1, <1>2, <1>3, <1>4, <1>5, <1>6 DEF Edge

-----------------------------------------------------------------------------
(* The memory: the words that are unread, and the room behind them.        *)

\* The word at distance d from the pointer p in the memory m.
Slot(m, p, d) == m[(p + d) % Size]

\* The word at d is one of a frame of s, and the rest of that frame follows
\* it within the first u words.
Followed(m, s, p, u, d) ==
  LET x == Slot(m, p, d)
  IN /\ x.n \in DOMAIN s /\ x.i \in 0 .. s[x.n].len - 1
     /\ \A j \in 0 .. s[x.n].len - 1 - x.i :
          d + j < u /\ Slot(m, p, d + j) = WordOf(s, x.n, x.i + j)

Unread(m, s, p, u) == \A d \in 0 .. u - 1 : Followed(m, s, p, u, d)

\* The words written of the frame that is not yet closed.
WriterWords ==
  \A j \in 0 .. w.off - 1 : Slot(mem, w.ptr, j) = WordOf(sent, Len(sent), w.cut + j)

\* Once the first word is stored there is room for the longest frame.
RoomInv == w.off > 0 /\ ~BufEmpty => MaxReserv < Room

CellInv == WriterCounts /\ WriterWords /\ RoomInv /\ Unread(mem, sent, r.ptr, Used)

-----------------------------------------------------------------------------

LEMMA Fits ==
  ASSUME TypeOK, Begun, WriterCounts, RoomInv
  PROVE  /\ w.off <= MaxReserv /\ Used + w.off < Size
         /\ NoOverwrite
<1>1. w.off \in Nat /\ w.cut \in Nat /\ pos \in Int
  BY SizePositive DEF TypeOK
<1>2. w.off <= MaxReserv
  <2>1. CASE pos = -1 /\ ~w.good
    BY <1>1, <2>1, SizePositive DEF WriterCounts, Entered
  <2>2. CASE pos # -1 \/ w.good
    <3>1. sent # <<>>
      <4>1. pos >= -1
        BY SizePositive DEF TypeOK
      <4> QED BY <1>1, <2>2, <4>1 DEF WriterCounts, Begun
    <3>2. Current.len \in 1 .. MaxReserv
      BY <3>1, CurrentFrame
    <3>3. Entered <= Current.len
      BY <1>1, <2>2, <3>2, SizePositive DEF Entered, WriterCounts
    <3>4. w.off <= Entered
      BY <1>1 DEF WriterCounts
    <3>5. Entered \in Int
      BY <1>1, <3>2, SizePositive DEF Entered
    <3> QED BY <1>1, <3>2, <3>3, <3>4, <3>5, SizePositive
  <2> QED BY <2>1, <2>2
<1>3. /\ Used \in 0 .. Size - 1 /\ Room \in 0 .. Size - 1
      /\ BufEmpty <=> Used = 0
      /\ ~BufEmpty => Room = Size - Used
  BY UsedAndRoom
<1>4. MaxReserv < Size /\ Size \in Nat /\ MaxReserv \in Nat
  BY SizeAssumption
<1>5. ~BufEmpty => w.off < Room
  BY <1>1, <1>2, <1>3, <1>4 DEF RoomInv
<1>6. Used + w.off < Size
  BY <1>1, <1>2, <1>3, <1>4, <1>5
<1> QED BY <1>2, <1>5, <1>6 DEF NoOverwrite

LEMMA SentKept ==
  ASSUME TypeOK, sent' = sent \/ \E f \in Frames : sent' = Append(sent, f)
  PROVE  \A n \in DOMAIN sent : n \in DOMAIN sent' /\ sent'[n] = sent[n]
<1>1. sent \in Seq(Frames)
  BY DEF TypeOK
<1>2. ASSUME NEW f \in Frames, sent' = Append(sent, f), NEW n \in DOMAIN sent
      PROVE  n \in DOMAIN sent' /\ sent'[n] = sent[n]
  <2>1. DOMAIN sent = 1 .. Len(sent) /\ Len(sent) \in Nat
    BY <1>1
  <2>2. Len(sent') = Len(sent) + 1 /\ DOMAIN sent' = 1 .. Len(sent')
    BY <1>1, <1>2
  <2>3. n \in DOMAIN sent'
    BY <2>1, <2>2
  <2>4. n \in 1 .. Len(sent) /\ n # Len(sent) + 1
    BY <2>1
  <2>5. Append(sent, f)[n] = sent[n]
    BY <1>1, <2>4
  <2> QED BY <1>2, <2>3, <2>5
<1> QED BY <1>2

(* What follows a word is kept while its words and its frames are.         *)
LEMMA FollowedKept ==
  ASSUME NEW m, NEW m2, NEW s, NEW s2, NEW p, NEW u \in Nat, NEW u2 \in Nat, u <= u2,
         \A e \in 0 .. u - 1 : Slot(m2, p, e) = Slot(m, p, e),
         \A n \in DOMAIN s : n \in DOMAIN s2 /\ s2[n] = s[n],
         NEW d \in 0 .. u - 1, Followed(m, s, p, u, d)
  PROVE  Followed(m2, s2, p, u2, d)
<1> DEFINE x == Slot(m, p, d)
<1>1. /\ x.n \in DOMAIN s /\ x.i \in 0 .. s[x.n].len - 1
      /\ \A j \in 0 .. s[x.n].len - 1 - x.i :
           d + j < u /\ Slot(m, p, d + j) = WordOf(s, x.n, x.i + j)
  BY DEF Followed
<1>2. Slot(m2, p, d) = x
  OBVIOUS
<1>3. x.n \in DOMAIN s2 /\ s2[x.n] = s[x.n]
  BY <1>1
<1> HIDE DEF x
<1>4. ASSUME NEW j \in 0 .. s2[x.n].len - 1 - x.i
      PROVE  d + j < u2 /\ Slot(m2, p, d + j) = WordOf(s2, x.n, x.i + j)
  <2>1. j \in 0 .. s[x.n].len - 1 - x.i /\ j \in Nat
    BY <1>3
  <2>2. d + j < u /\ Slot(m, p, d + j) = WordOf(s, x.n, x.i + j)
    BY <1>1, <2>1
  <2>3. d + j \in 0 .. u - 1 /\ d + j < u2
    BY <2>1, <2>2
  <2>4. Slot(m2, p, d + j) = Slot(m, p, d + j)
    BY <2>3
  <2>5. WordOf(s2, x.n, x.i + j) = WordOf(s, x.n, x.i + j)
    BY <1>3 DEF WordOf
  <2> QED BY <2>2, <2>3, <2>4, <2>5
<1> QED BY <1>1, <1>2, <1>3, <1>4 DEF Followed

(* Behind a pointer that has moved by k the rest is as it was.             *)
LEMMA SlotsShift ==
  ASSUME NEW m, NEW p \in 0 .. Size - 1, NEW k \in Nat, NEW d \in Nat, k + d < Size
  PROVE  Slot(m, (p + k) % Size, d) = Slot(m, p, k + d)
BY Shifted, SizeNat DEF Slot

LEMMA UnreadShift ==
  ASSUME NEW m, NEW s, NEW p \in 0 .. Size - 1, NEW u \in 0 .. Size - 1, NEW k \in 0 .. u,
         Unread(m, s, p, u)
  PROVE  Unread(m, s, (p + k) % Size, u - k)
<1> DEFINE o == (p + k) % Size
<1>0. \A e \in 0 .. u - k - 1 : Slot(m, o, e) = Slot(m, p, k + e)
  <2> TAKE e \in 0 .. u - k - 1
  <2>1. k \in Nat /\ e \in Nat /\ k + e < Size
    BY SizePositive
  <2> QED BY <2>1, SlotsShift
<1> HIDE DEF o
<1> SUFFICES ASSUME NEW d \in 0 .. u - k - 1
             PROVE  Followed(m, s, o, u - k, d)
  BY DEF Unread, o
<1>1. k + d \in 0 .. u - 1 /\ d \in Nat /\ k \in Nat /\ u \in Nat
  BY SizePositive
<1> DEFINE x == Slot(m, p, k + d)
<1>2. /\ x.n \in DOMAIN s /\ x.i \in 0 .. s[x.n].len - 1
      /\ \A j \in 0 .. s[x.n].len - 1 - x.i :
           k + d + j < u /\ Slot(m, p, k + d + j) = WordOf(s, x.n, x.i + j)
  BY <1>1 DEF Unread, Followed
<1>3. Slot(m, o, d) = x
  BY <1>0
<1> HIDE DEF x
<1>4. ASSUME NEW j \in 0 .. s[x.n].len - 1 - x.i
      PROVE  d + j < u - k /\ Slot(m, o, d + j) = WordOf(s, x.n, x.i + j)
  <2>1. k + d + j < u /\ Slot(m, p, k + d + j) = WordOf(s, x.n, x.i + j)
    BY <1>2
  <2>2. d + j < u - k /\ d + j \in 0 .. u - k - 1
    BY <1>1, <2>1
  <2>3. Slot(m, o, d + j) = Slot(m, p, k + (d + j))
    BY <1>0, <2>2
  <2>4. k + (d + j) = k + d + j
    BY <1>1
  <2> QED BY <2>1, <2>2, <2>3, <2>4
<1> QED BY <1>2, <1>3, <1>4 DEF Followed

\* The words from the reader's pointer to where an edge leaves the writer's.
Ahead == (w'.ptr - r.ptr) % Size

(* The writer's pointer goes past what it has written.                     *)
LEMMA AheadBy ==
  ASSUME r.ptr \in 0 .. Size - 1, w.ptr \in 0 .. Size - 1, w.off \in Nat, Used + w.off < Size,
         w'.ptr = (w.ptr + w.off) % Size
  PROVE  Ahead = Used + w.off
<1> DEFINE p == r.ptr
           v == w.ptr
           k == w.off
           u == (v - p) % Size
<1>1. p \in 0 .. Size - 1 /\ v \in 0 .. Size - 1 /\ k \in Nat /\ u + k < Size
      /\ Used = u /\ Ahead = (((v + k) % Size) - p) % Size
  BY DEF Used, Ahead
<1> HIDE DEF p, v, k
<1>2. (((v + k) % Size) - p) % Size = u + k
  BY <1>1, Further, SizeNat
<1> QED BY <1>1, <1>2 DEF k

(* What an edge's writer does, seen from where the reader stands.          *)
LEMMA WriterCells ==
  ASSUME TypeOK, TypeOK', Begun, CellInv, Writes \/ Loses \/ Closes \/ Keeps
  PROVE  /\ Ahead \in Used .. Size - 1
         /\ \A d \in 0 .. Used - 1 : Slot(mem', r.ptr, d) = Slot(mem, r.ptr, d)
         /\ \A n \in DOMAIN sent : n \in DOMAIN sent' /\ sent'[n] = sent[n]
         /\ Unread(mem', sent', r.ptr, Ahead)
         /\ WriterWords'
         /\ w'.off > 0 /\ Ahead > 0 => MaxReserv < Size - Ahead
<1>1. /\ r.ptr \in 0 .. Size - 1 /\ w.ptr \in 0 .. Size - 1 /\ w'.ptr \in 0 .. Size - 1
      /\ w.off \in Nat /\ w.cut \in Nat /\ mem \in [0 .. Size - 1 -> Words]
  BY SizePositive DEF TypeOK
<1>2. w.off <= MaxReserv /\ Used + w.off < Size
  BY Fits DEF CellInv
<1>3. /\ Used \in 0 .. Size - 1
      /\ BufEmpty <=> Used = 0
      /\ ~BufEmpty => Room = Size - Used
  BY UsedAndRoom
<1>4. \A n \in DOMAIN sent : n \in DOMAIN sent' /\ sent'[n] = sent[n]
  BY SentKept DEF Writes, Loses, Closes, Keeps
<1>5. (r.ptr + Used) % Size = w.ptr
  BY <1>1, Distance, SizeNat DEF Used
<1>6. \A j \in 0 .. w.off : Slot(mem, w.ptr, j) = Slot(mem, r.ptr, Used + j)
  <2> TAKE j \in 0 .. w.off
  <2>1. j \in Nat /\ Used \in Nat /\ Used + j < Size
    BY <1>1, <1>2, <1>3, SizePositive
  <2> QED BY <1>1, <1>5, <2>1, SlotsShift
<1>7. ASSUME w'.ptr = w.ptr,
             \A d \in 0 .. Used - 1 : Slot(mem', r.ptr, d) = Slot(mem, r.ptr, d)
      PROVE  Ahead = Used /\ Unread(mem', sent', r.ptr, Ahead)
  <2>1. Ahead = Used
    BY <1>7 DEF Ahead, Used
  <2>2. \A d \in 0 .. Used - 1 : Followed(mem', sent', r.ptr, Used, d)
    <3> TAKE d \in 0 .. Used - 1
    <3>1. Followed(mem, sent, r.ptr, Used, d)
      BY DEF CellInv, Unread
    <3>2. Used \in Nat
      BY <1>3, SizePositive
    <3> QED BY <1>4, <1>7, <3>1, <3>2, FollowedKept
  <2> QED BY <2>1, <2>2 DEF Unread
<1>8. CASE Writes
  <2> DEFINE x == WordOf(sent, Len(sent), w.cut + w.off)
  <2>1. mem' = [mem EXCEPT ![WrAddr] = x]
    BY <1>8 DEF Writes
  <2>2. WrAddr = (r.ptr + (Used + w.off)) % Size
    <3> DEFINE p == r.ptr
               u == Used
               e == w.off
    <3>1. p \in 0 .. Size - 1 /\ u \in Nat /\ e \in Nat /\ u + e < Size
          /\ w.ptr = (p + u) % Size /\ WrAddr = (w.ptr + e) % Size
      BY <1>1, <1>2, <1>3, <1>5, SizePositive DEF WrAddr
    <3> HIDE DEF p, u, e
    <3>2. (((p + u) % Size) + e) % Size = (p + (u + e)) % Size
      BY <3>1, Shifted, SizeNat
    <3> QED BY <3>1, <3>2 DEF p, u, e
  <2>3. Used + w.off \in 0 .. Size - 1
    BY <1>1, <1>2, <1>3, SizePositive
  <2>4. ASSUME NEW d \in 0 .. Used - 1
        PROVE  Slot(mem', r.ptr, d) = Slot(mem, r.ptr, d)
    <3>1. d \in 0 .. Size - 1 /\ d # Used + w.off
      BY <1>1, <1>3, SizePositive
    <3>2. (r.ptr + d) % Size # WrAddr
      BY <1>1, <2>2, <2>3, <3>1, Apart, SizeNat
    <3>3. (r.ptr + d) % Size \in 0 .. Size - 1
      BY <1>1, <3>1, Around, SizeNat
    <3> QED BY <1>1, <2>1, <3>2, <3>3 DEF Slot
  <2>5. ASSUME NEW j \in 0 .. w.off
        PROVE  Slot(mem', w.ptr, j) = WordOf(sent, Len(sent), w.cut + j)
    <3>1. j \in 0 .. Size - 1 /\ w.off \in 0 .. Size - 1
      BY <1>1, <1>2, <1>3, SizePositive
    <3>2. (w.ptr + j) % Size \in 0 .. Size - 1
      BY <1>1, <3>1, Around, SizeNat
    <3>3. CASE j = w.off
      BY <1>1, <2>1, <3>2, <3>3 DEF Slot, WrAddr
    <3>4. CASE j # w.off
      <4>1. (w.ptr + j) % Size # WrAddr
        BY <1>1, <3>1, <3>4, Apart, SizeNat DEF WrAddr
      <4>2. Slot(mem', w.ptr, j) = Slot(mem, w.ptr, j)
        BY <1>1, <2>1, <3>2, <4>1 DEF Slot
      <4>3. j \in 0 .. w.off - 1
        BY <1>1, <3>4
      <4> QED BY <4>2, <4>3 DEF CellInv, WriterWords
    <3> QED BY <3>3, <3>4
  <2>6. /\ w'.ptr = w.ptr /\ w'.off = w.off + 1 /\ w'.cut = w.cut
        /\ sent' = sent /\ ~BufFull
    BY <1>8 DEF Writes
  <2>7. WriterWords'
    <3>1. 0 .. w'.off - 1 = 0 .. w.off
      BY <1>1, <2>6
    <3> QED BY <2>5, <2>6, <3>1 DEF WriterWords
  <2>8. Ahead = Used /\ Unread(mem', sent', r.ptr, Ahead)
    BY <1>7, <2>4, <2>6
  <2>9. Used > 0 => MaxReserv < Size - Used
    <3>1. BufEmpty \/ ~(Room <= MaxReserv)
      BY <2>6 DEF BufFull
    <3> QED BY <1>3, <3>1, SizePositive
  <2> QED BY <1>3, <1>4, <2>4, <2>7, <2>8, <2>9
<1>9. CASE Loses \/ Keeps
  <2>1. /\ mem' = mem /\ w'.ptr = w.ptr /\ w'.off = w.off
        /\ w.off = 0 \/ (sent' = sent /\ w'.cut = w.cut) \/ BufFull
    BY <1>9 DEF Loses, Keeps
  <2>2. Ahead = Used /\ Unread(mem', sent', r.ptr, Ahead)
    BY <1>7, <2>1
  <2>3. w.off > 0 => ~BufFull
    BY <1>1, <1>3, SizePositive DEF BufFull, CellInv, RoomInv
  <2>4. WriterWords'
    <3>1. CASE w.off = 0
      BY <2>1, <3>1 DEF WriterWords
    <3>2. CASE w.off # 0
      BY <1>1, <2>1, <2>3, <3>2 DEF WriterWords, CellInv
    <3> QED BY <3>1, <3>2
  <2>5. w.off > 0 /\ Used > 0 => MaxReserv < Size - Used
    BY <1>3 DEF CellInv, RoomInv
  <2> QED BY <1>3, <1>4, <2>1, <2>2, <2>4, <2>5
<1>10. CASE Closes
  <2>1. /\ sent # <<>> /\ w.cut + w.off = Current.len /\ mem' = mem
        /\ w'.ptr = (w.ptr + w.off) % Size /\ w'.off = 0
    BY <1>10 DEF Closes
  <2>2. Ahead = Used + w.off
    BY <1>1, <1>2, <2>1, AheadBy
  <2>3. Len(sent) \in DOMAIN sent /\ Current.len \in 1 .. MaxReserv
    BY <2>1, CurrentFrame
  <2> DEFINE L == Current.len
  <2>l. L \in Int /\ L = w.cut + w.off
    BY <2>1, <2>3, SizePositive
  <2> HIDE DEF L
  <2>4. ASSUME NEW d \in 0 .. Ahead - 1
        PROVE  Followed(mem', sent', r.ptr, Ahead, d)
    <3>0. Used \in Nat /\ Ahead \in Nat /\ Used <= Ahead
      BY <1>1, <1>3, <2>2, SizePositive
    <3>1. CASE d < Used
      <4>1. d \in 0 .. Used - 1
        BY <3>0, <3>1
      <4>2. Followed(mem, sent, r.ptr, Used, d)
        BY <4>1 DEF CellInv, Unread
      <4> QED BY <1>4, <2>1, <3>0, <4>1, <4>2, FollowedKept
    <3>2. CASE d >= Used
      <4> DEFINE e == d - Used
                 N == Len(sent)
      <4>1. e \in 0 .. w.off - 1 /\ d = Used + e
        BY <1>1, <2>2, <3>0, <3>2
      <4>2. \A j \in 0 .. w.off - 1 : Slot(mem, r.ptr, Used + j) = WordOf(sent, N, w.cut + j)
        BY <1>1, <1>6 DEF CellInv, WriterWords
      <4>3. sent'[N] = Current /\ N \in DOMAIN sent'
        BY <1>4, <2>3 DEF Current
      <4>4. Slot(mem, r.ptr, d) = WordOf(sent, N, w.cut + e)
        BY <4>1, <4>2
      <4> HIDE DEF e, N
      <4>5. w.cut + e \in 0 .. L - 1
        BY <1>1, <2>l, <4>1
      <4>6. ASSUME NEW j \in 0 .. L - 1 - (w.cut + e)
            PROVE  d + j < Ahead /\ Slot(mem, r.ptr, d + j) = WordOf(sent', N, w.cut + e + j)
        <5> DEFINE c == w.cut
                   o == w.off
                   u == Used
        <5>a. /\ c \in Nat /\ o \in Nat /\ u \in Nat /\ e \in 0 .. o - 1
              /\ d = u + e /\ L = c + o /\ j \in 0 .. L - 1 - (c + e)
          BY <1>1, <2>l, <3>0, <4>1
        <5>b. e + j \in 0 .. o - 1 /\ d + j = u + (e + j) /\ c + (e + j) = c + e + j
          <6> HIDE DEF c, o, u
          <6> QED BY <5>a
        <5>1. e + j \in 0 .. w.off - 1 /\ d + j = Used + (e + j) /\ w.cut + (e + j) = w.cut + e + j
          BY <5>b
        <5>2. Slot(mem, r.ptr, d + j) = WordOf(sent, N, w.cut + (e + j))
          BY <4>2, <5>1
        <5>3. WordOf(sent, N, w.cut + (e + j)) = WordOf(sent', N, w.cut + e + j)
          BY <1>4, <2>3, <5>1 DEF WordOf, N
        <5>4. d + j < Ahead
          BY <1>1, <2>2, <3>0, <5>1
        <5> QED BY <5>2, <5>3, <5>4
      <4>7. Slot(mem, r.ptr, d).n = N /\ Slot(mem, r.ptr, d).i = w.cut + e
        BY <4>4 DEF WordOf
      <4> QED BY <2>1, <4>3, <4>5, <4>6, <4>7 DEF Followed, L
    <3> QED BY <3>0, <3>1, <3>2
  <2>5. WriterWords'
    BY <2>1 DEF WriterWords
  <2>6. Ahead \in Used .. Size - 1
    BY <1>1, <1>2, <1>3, <2>2, SizePositive
  <2> QED BY <1>4, <2>1, <2>4, <2>5, <2>6 DEF Unread
<1> QED BY <1>8, <1>9, <1>10

-----------------------------------------------------------------------------
(* The reader in a frame: x is the word at its pointer, the head of what   *)
(* is left of the frame f.                                                 *)

\* The word at distance d from x.
Ith(x, f, d) == [n |-> x.n, i |-> x.i + d, eof |-> x.i + d = f.len - 1]

ForUdp(x, f) == x.i = 0 /\ f.kind = "udp"

HeaderSoFar(x, f) ==
  \A k \in 1 .. Len(r.hdr) : k <= f.len - x.i => r.hdr[k] = [n |-> x.n, i |-> x.i + k - 1]

AtStart(x, f) ==
  r.off = 1 /\ r.hdr = <<>> /\ ~r.wrReq /\ ~r.udp /\ q = Ith(x, f, 0)

AtHeader(x, f) ==
  /\ Len(r.hdr) \in 1 .. Payload /\ r.off = Len(r.hdr) + 1 /\ ~r.wrReq /\ ~r.udp
  /\ Len(r.hdr) < f.len - x.i => q = Ith(x, f, Len(r.hdr))
  /\ HeaderSoFar(x, f)

AtChecks(x, f) ==
  /\ Len(r.hdr) = Payload /\ HeaderSoFar(x, f) /\ r.off = 0 /\ ~r.wrReq /\ ~r.udp
  /\ r.err <=> ~(x.i = 0 /\ f.kind # "raw")

AtStatus(x, f) ==
  /\ r.udp <=> ForUdp(x, f)
  /\ r.off = IF ForUdp(x, f) THEN Payload ELSE 0
  /\ r.left = IF ForUdp(x, f) THEN f.data ELSE 0
  /\ ~r.wrReq

\* A word is on its way to the CPU, or the fifo holds it back.
AtOther(x, f) ==
  /\ ~r.udp /\ ~ForUdp(x, f)
  /\ r.wrReq => r.off \in 1 .. f.len - x.i /\ q = Ith(x, f, r.off - 1)
  /\ ~r.wrReq => r.off \in 0 .. f.len - x.i - 1 /\ q = Ith(x, f, r.off)

\* A word is on its way to a stream or skipped, or the fifo holds it back.
AtData(x, f) ==
  /\ r.udp /\ ForUdp(x, f)
  /\ \/ r.off \in Payload + 1 .. f.len /\ q = Ith(x, f, r.off - 1)
     \/ /\ r.off \in Payload .. f.len - 1 /\ q = Ith(x, f, r.off)
        /\ ~r.wrReq /\ (sound => r.left > 0)
  /\ r.left = IF r.off - Payload < f.data THEN f.data - (r.off - Payload) ELSE 0
  /\ r.wrReq => /\ q = Ith(x, f, r.off - 1)
                /\ r.off - Payload <= f.data
                /\ r.eod <=> r.off - Payload = f.data

ReaderAt(x, f) ==
  /\ r.at = "StartMemAcc" => AtStart(x, f)
  /\ r.at = "ReadHeader" => AtHeader(x, f)
  /\ r.at = "HeaderChecks" => AtChecks(x, f)
  /\ r.at = "StatusOut" => AtStatus(x, f)
  /\ r.at = "TransferOtherData" => AtOther(x, f)
  /\ r.at = "TransferData" => AtData(x, f)

First == Slot(mem, r.ptr, 0)

ReaderInv ==
  /\ r.at = "Idle" => r.off = 0 /\ r.hdr = <<>> /\ ~r.wrReq /\ ~r.udp
  /\ r.at # "Idle" => ~BufEmpty /\ ReaderAt(First, sent[First.n])

-----------------------------------------------------------------------------

\* x heads what is left of f, and the memory holds it.
Front(x, f) ==
  /\ f \in Frames /\ x.n \in DOMAIN sent /\ sent[x.n] = f
  /\ x.i \in 0 .. f.len - 1
  /\ \A d \in 0 .. f.len - x.i - 1 : Slot(mem, r.ptr, d) = Ith(x, f, d)

LEMMA FrontFrame ==
  ASSUME TypeOK, Unread(mem, sent, r.ptr, Used), ~BufEmpty
  PROVE  /\ Front(First, sent[First.n])
         /\ sent[First.n].len - First.i \in 1 .. Used
<1>1. Used \in 0 .. Size - 1 /\ Used # 0
  BY UsedAndRoom
<1>2. Followed(mem, sent, r.ptr, Used, 0)
  BY <1>1, SizePositive DEF Unread
<1> DEFINE x == First
           f == sent[x.n]
<1>3. x.n \in DOMAIN sent /\ f \in Frames
  BY <1>2 DEF Followed, First, TypeOK
<1>4. f.len \in 1 .. MaxReserv
  BY <1>3, FrameLengths
<1>5. /\ x.i \in 0 .. f.len - 1
      /\ \A j \in 0 .. f.len - 1 - x.i :
           0 + j < Used /\ Slot(mem, r.ptr, 0 + j) = WordOf(sent, x.n, x.i + j)
  BY <1>2 DEF Followed, First
<1>6. \A j \in 0 .. f.len - 1 - x.i : WordOf(sent, x.n, x.i + j) = Ith(x, f, j)
  BY DEF WordOf, Ith
<1> HIDE DEF x
<1> DEFINE l == f.len
<1>7. l \in Nat /\ x.i \in Nat /\ x.i < l
  BY <1>4, <1>5, SizePositive
<1>8. ASSUME NEW d \in 0 .. l - x.i - 1
      PROVE  d < Used /\ Slot(mem, r.ptr, d) = Ith(x, f, d)
  <2>1. d \in 0 .. l - 1 - x.i /\ 0 + d = d
    BY <1>7
  <2> QED BY <2>1, <1>5, <1>6
<1>9. l - x.i \in 1 .. Used
  <2>1. l - x.i - 1 \in 0 .. l - x.i - 1
    BY <1>7
  <2>2. l - x.i - 1 < Used
    BY <1>8, <2>1
  <2> HIDE DEF f, l
  <2> QED BY <1>1, <1>7, <2>2, SizePositive
<1> QED BY <1>3, <1>5, <1>8, <1>9 DEF Front, x

(* The words read are the headers of the frame when it has lost none, and  *)
(* otherwise of no frame.                                                  *)
LEMMA HeaderRight ==
  ASSUME TypeOK, NEW x, NEW f, Front(x, f), Len(r.hdr) = Payload, HeaderSoFar(x, f)
  PROVE  \A n \in DOMAIN sent : HeaderOf(n) <=> x.i = 0 /\ n = x.n
<1> TAKE n \in DOMAIN sent
<1>1. Payload \in Nat \ {0} /\ f.len \in Nat /\ f.data \in Nat /\ Payload + f.data <= f.len /\ x.i \in Nat /\ x.i < f.len
  BY FrameAssumption, FrameLengths, SizePositive DEF Front
<1>2. r.hdr \in Seq(Parts) /\ DOMAIN r.hdr = 1 .. Payload
  BY DEF TypeOK
<1>3. r.hdr[1] = [n |-> x.n, i |-> x.i]
  <2>1. 1 \in 1 .. Len(r.hdr) /\ 1 <= f.len - x.i /\ x.i + 1 - 1 = x.i
    BY <1>1
  <2> QED BY <2>1 DEF HeaderSoFar
<1>4. HeaderOf(n) => x.i = 0 /\ n = x.n
  <2>1. HeaderOf(n) => r.hdr[1] = [n |-> n, i |-> 1 - 1]
    BY <1>1 DEF HeaderOf
  <2> QED BY <1>3, <2>1
<1>5. ASSUME x.i = 0, n = x.n PROVE HeaderOf(n)
  <2>1. ASSUME NEW k \in 1 .. Payload
        PROVE  r.hdr[k] = [n |-> n, i |-> k - 1]
    <3>1. k \in 1 .. Len(r.hdr) /\ k <= f.len - x.i /\ x.i + k - 1 = k - 1
      BY <1>1, <1>5
    <3> QED BY <1>5, <3>1 DEF HeaderSoFar
  <2>2. r.hdr = [k \in DOMAIN r.hdr |-> r.hdr[k]]
    BY <1>2
  <2> QED BY <1>2, <2>1, <2>2 DEF HeaderOf
<1> QED BY <1>4, <1>5

-----------------------------------------------------------------------------
(* The reader, edge by edge.                                               *)

\* The reader goes on in its frame, or leaves it.
Stays(x, f) ==
  ~Leaving /\ r'.ptr = r.ptr /\ r'.at # "Idle" /\ ReaderAt(x, f)'

Leaves(x, f) ==
  /\ Leaving /\ r' = Restarted((r.ptr + r.off) % Size)
  /\ r.off \in 0 .. f.len - x.i

\* What the provers need of a front frame.
LEMMA FrontTypes ==
  ASSUME TypeOK, NEW x, NEW f, Front(x, f)
  PROVE  /\ Payload \in Nat \ {0} /\ f.len \in Nat /\ f.data \in Nat
         /\ Payload + f.data <= f.len /\ f.len <= MaxReserv
         /\ f.kind = "udp" => Payload < f.len
         /\ x.i \in Nat /\ x.i < f.len
         /\ r.off \in Nat /\ r.left \in Nat
         /\ OffSize \in Nat /\ MaxReserv < OffSize /\ MaxReserv \in Nat
<1>1. f \in Frames /\ x.i \in 0 .. f.len - 1
  BY DEF Front
<1>2. f.len \in 1 .. MaxReserv /\ f.data \in 0 .. MaxReserv
  BY <1>1, FrameLengths
<1>3. Payload \in Nat \ {0} /\ Payload + f.data <= f.len /\ (f.kind = "udp" => Payload < f.len)
  BY <1>1, FrameAssumption
<1>4. r.off \in Nat /\ r.left \in Nat
  BY SizePositive DEF TypeOK
<1>5. OffSize \in Nat /\ MaxReserv < OffSize /\ MaxReserv \in Nat
  BY SizeAssumption
<1> QED BY <1>1, <1>2, <1>3, <1>4, <1>5

(* Nowhere in a frame does the offset meet the end of its register.        *)
LEMMA OffsetFits ==
  ASSUME TypeOK, NEW x, NEW f, Front(x, f), r.off < f.len - x.i
  PROVE  NextOff = r.off + 1
<1>1. r.off + 1 \in 0 .. OffSize - 1
  BY FrontTypes
<1>2. OffSize \in Nat \ {0}
  BY SizePositive
<1> QED BY <1>1, <1>2 DEF NextOff

LEMMA OtherWordStep ==
  ASSUME TypeOK, NEW full \in BOOLEAN, NEW x, NEW f, Front(x, f),
         r' = OtherWord(full), q' = Slot(mem, r.ptr, r.off),
         ~r.udp, ~ForUdp(x, f), r.off < f.len - x.i
  PROVE  r'.ptr = r.ptr /\ r'.at # "Idle" /\ ReaderAt(x, f)'
<1>t. /\ Payload \in Nat \ {0} /\ f.len \in Nat /\ f.data \in Nat
      /\ Payload + f.data <= f.len /\ f.len <= MaxReserv
      /\ x.i \in Nat /\ x.i < f.len
      /\ r.off \in Nat /\ r.left \in Nat
  BY FrontTypes
<1>1. NextOff = r.off + 1
  BY OffsetFits
<1>2. /\ r'.ptr = r.ptr /\ r'.at = "TransferOtherData" /\ r'.wrReq = ~full /\ r'.udp = r.udp
      /\ r'.off = IF full THEN r.off ELSE r.off + 1
  BY <1>1 DEF OtherWord, TypeOK
<1>3. q' = Ith(x, f, r.off)
  <2>1. r.off \in 0 .. f.len - x.i - 1
    BY <1>t
  <2> QED BY <2>1 DEF Front
<1>4. AtOther(x, f)'
  <2>1. CASE full
    <3>1. r'.off = r.off /\ r.off \in 0 .. f.len - x.i - 1
      BY <1>2, <2>1, <1>t
    <3> QED BY <1>2, <1>3, <2>1, <3>1 DEF AtOther, ForUdp, Ith
  <2>2. CASE ~full
    <3>1. r'.off - 1 = r.off /\ r'.off \in 1 .. f.len - x.i
      BY <1>2, <2>2, <1>t
    <3> QED BY <1>2, <1>3, <2>2, <3>1 DEF AtOther, ForUdp, Ith
  <2> QED BY <2>1, <2>2
<1> QED BY <1>2, <1>4 DEF ReaderAt

LEMMA DataWordStep ==
  ASSUME TypeOK, NEW full \in BOOLEAN, NEW x, NEW f, Front(x, f),
         r' = DataWord(full), q' = Slot(mem, r.ptr, r.off),
         r.udp, ForUdp(x, f), Payload <= r.off, r.off < f.len,
         r.left = IF r.off - Payload < f.data THEN f.data - (r.off - Payload) ELSE 0,
         sound' => (full => r.left > 0)
  PROVE  r'.ptr = r.ptr /\ r'.at # "Idle" /\ ReaderAt(x, f)'
<1>t. /\ Payload \in Nat \ {0} /\ f.len \in Nat /\ f.data \in Nat
      /\ Payload + f.data <= f.len /\ f.len <= MaxReserv
      /\ x.i \in Nat /\ x.i < f.len
      /\ r.off \in Nat /\ r.left \in Nat
  BY FrontTypes
<1>0. x.i = 0 /\ r.off < f.len - x.i
  BY <1>t DEF ForUdp
<1>1. NextOff = r.off + 1
  BY <1>0, OffsetFits
<1>2. q' = Ith(x, f, r.off)
  <2>1. r.off \in 0 .. f.len - x.i - 1
    BY <1>0, <1>t
  <2> QED BY <2>1 DEF Front
<1>3. CASE full
  <2>1. /\ r'.ptr = r.ptr /\ r'.at = "TransferData" /\ r'.wrReq = FALSE /\ r'.udp = r.udp
        /\ r'.off = r.off /\ r'.left = r.left
    BY <1>3 DEF DataWord, TypeOK
  <2>2. r'.off \in Payload .. f.len - 1
    BY <2>1, <1>t
  <2>3. sound' => r'.left > 0
    BY <1>3, <2>1
  <2>4. AtData(x, f)'
    BY <1>2, <2>1, <2>2, <2>3 DEF AtData, ForUdp, Ith
  <2> QED BY <2>1, <2>4 DEF ReaderAt
<1>4. CASE ~full
  <2>1. /\ r'.ptr = r.ptr /\ r'.at = "TransferData" /\ r'.wrReq = (r.left > 0) /\ r'.udp = r.udp
        /\ r'.off = r.off + 1 /\ r'.left = (IF r.left > 0 THEN r.left - 1 ELSE 0)
        /\ r'.eod = (r.left = 1)
    BY <1>1, <1>4 DEF DataWord, TypeOK
  <2>2. r'.off \in Payload + 1 .. f.len /\ r'.off - 1 = r.off
    BY <2>1, <1>t
  <2>3. r'.left = IF r'.off - Payload < f.data THEN f.data - (r'.off - Payload) ELSE 0
    BY <2>1, <1>t
  <2>4. r'.wrReq => r'.off - Payload <= f.data /\ (r'.eod <=> r'.off - Payload = f.data)
    <3> DEFINE o == r'.off
    <3>1. o = r.off + 1
      BY <2>1
    <3> HIDE DEF o
    <3>2. r.left > 0 => o - Payload <= f.data
      BY <1>t, <3>1
    <3>3. r.left = 1 <=> o - Payload = f.data
      BY <1>t, <3>1
    <3> QED BY <2>1, <3>2, <3>3 DEF o
  <2>5. q' = Ith(x, f, r'.off - 1)
    BY <1>2, <2>2
  <2>6. AtData(x, f)'
    BY <2>1, <2>2, <2>3, <2>4, <2>5 DEF AtData, ForUdp, Ith
  <2> QED BY <2>1, <2>6 DEF ReaderAt
<1> QED BY <1>3, <1>4

(* One edge of the reader in a frame.                                      *)
LEMMA ReaderStep ==
  ASSUME TypeOK, NEW full \in BOOLEAN, NEW x, NEW f, Front(x, f), ~BufEmpty,
         Buf2Data(full), q' = Slot(mem, r.ptr, r.off),
         sound' => ~(Padding /\ full),
         r.at = "Idle" => r.off = 0 /\ r.hdr = <<>> /\ ~r.wrReq /\ ~r.udp,
         r.at # "Idle" => ReaderAt(x, f)
  PROVE  Stays(x, f) \/ Leaves(x, f)
<1>t. /\ Payload \in Nat \ {0} /\ f.len \in Nat /\ f.data \in Nat
      /\ Payload + f.data <= f.len /\ f.len <= MaxReserv
      /\ f.kind = "udp" => Payload < f.len
      /\ x.i \in Nat /\ x.i < f.len
      /\ r.off \in Nat /\ r.left \in Nat
  BY FrontTypes
<1>s. \A d \in 0 .. f.len - x.i - 1 : Slot(mem, r.ptr, d) = Ith(x, f, d)
  BY DEF Front
<1>1. CASE r.at = "Idle"
  <2>1. r' = [Goto("StartMemAcc") EXCEPT !.off = 1] /\ ~Leaving
    BY <1>1 DEF Buf2Data, Leaving
  <2>2. /\ r'.at = "StartMemAcc" /\ r'.off = 1 /\ r'.hdr = r.hdr /\ r'.wrReq = r.wrReq
        /\ r'.udp = r.udp /\ r'.ptr = r.ptr
    BY <2>1 DEF Goto, TypeOK
  <2>3. 0 \in 0 .. f.len - x.i - 1
    BY <1>t
  <2>4. q' = Ith(x, f, 0)
    BY <1>1, <1>s, <2>3
  <2>5. AtStart(x, f)'
    BY <1>1, <2>2, <2>4 DEF AtStart, Ith
  <2> QED BY <2>1, <2>2, <2>5 DEF Stays, ReaderAt
<1>2. CASE r.at = "StartMemAcc"
  <2>1. r' = ReadWord /\ ~Leaving
    BY <1>2 DEF Buf2Data, Leaving
  <2>2. AtStart(x, f)
    BY <1>2 DEF ReaderAt
  <2>3. [n |-> q.n, i |-> q.i] = [n |-> x.n, i |-> x.i]
    BY <1>t, <2>2 DEF AtStart, Ith
  <2>4. /\ r'.at = "ReadHeader" /\ r'.off = Len(r.hdr) + 2 /\ r'.wrReq = r.wrReq
        /\ r'.udp = r.udp /\ r'.ptr = r.ptr
        /\ r'.hdr = Append(r.hdr, [n |-> x.n, i |-> x.i])
    BY <2>1, <2>3 DEF ReadWord, TypeOK
  <2>5. Len(r.hdr) = 0 /\ r'.off = 2 /\ Len(r'.hdr) = 1 /\ r'.hdr[1] = [n |-> x.n, i |-> x.i]
    BY <2>2, <2>4 DEF AtStart
  <2>6. 1 < f.len - x.i => q' = Ith(x, f, 1)
    <3>1. 1 < f.len - x.i => 1 \in 0 .. f.len - x.i - 1
      BY <1>t
    <3> QED BY <1>s, <2>2, <3>1 DEF AtStart
  <2>7. HeaderSoFar(x, f)'
    <3>1. \A k \in 1 .. 1 : k = 1 /\ x.i + k - 1 = x.i
      BY <1>t
    <3> QED BY <2>5, <3>1 DEF HeaderSoFar
  <2>8. AtHeader(x, f)'
    BY <1>t, <2>2, <2>4, <2>5, <2>6, <2>7 DEF AtHeader, AtStart, Ith
  <2> QED BY <2>1, <2>4, <2>8 DEF Stays, ReaderAt
<1>3. CASE r.at = "ReadHeader" /\ Len(r.hdr) # Payload
  <2>1. r' = ReadWord /\ ~Leaving
    BY <1>3 DEF Buf2Data, Leaving
  <2>2. AtHeader(x, f)
    BY <1>3 DEF ReaderAt
  <2> DEFINE l == Len(r.hdr)
             p == [n |-> q.n, i |-> q.i]
  <2>3. /\ r'.at = "ReadHeader" /\ r'.off = l + 2 /\ r'.wrReq = r.wrReq
        /\ r'.udp = r.udp /\ r'.ptr = r.ptr /\ r'.hdr = Append(r.hdr, p)
    BY <2>1 DEF ReadWord, TypeOK
  <2>4. r.hdr \in Seq(Parts) /\ p \in Parts /\ l \in 1 .. Payload - 1
    BY <1>3, <1>t, <2>2 DEF AtHeader, TypeOK, Words, Parts
  <2>5. Len(r'.hdr) = l + 1 /\ r'.hdr[l + 1] = p /\ \A k \in 1 .. l : r'.hdr[k] = r.hdr[k]
    <3> HIDE DEF p
    <3> QED BY <2>3, <2>4
  <2>6. l < f.len - x.i => p = [n |-> x.n, i |-> x.i + (l + 1) - 1]
    <3>1. l < f.len - x.i => q = Ith(x, f, l)
      BY <2>2 DEF AtHeader
    <3>2. x.i + (l + 1) - 1 = x.i + l
      BY <1>t, <2>4
    <3> QED BY <3>1, <3>2 DEF Ith
  <2> HIDE DEF p
  <2>7. HeaderSoFar(x, f)'
    <3> SUFFICES ASSUME NEW k \in 1 .. l + 1, k <= f.len - x.i
                 PROVE  r'.hdr[k] = [n |-> x.n, i |-> x.i + k - 1]
      BY <2>5 DEF HeaderSoFar
    <3>1. CASE k = l + 1
      BY <1>t, <2>4, <2>5, <2>6, <3>1
    <3>2. CASE k # l + 1
      <4>1. k \in 1 .. l
        BY <2>4, <3>2
      <4> QED BY <2>2, <2>5, <4>1 DEF AtHeader, HeaderSoFar
    <3> QED BY <3>1, <3>2
  <2>8. l + 1 < f.len - x.i => q' = Ith(x, f, l + 1)
    <3>1. r.off = l + 1
      BY <2>2 DEF AtHeader
    <3>2. l + 1 < f.len - x.i => l + 1 \in 0 .. f.len - x.i - 1
      BY <1>t, <2>4
    <3> QED BY <1>s, <3>1, <3>2
  <2>9. Len(r'.hdr) \in 1 .. Payload /\ r'.off = Len(r'.hdr) + 1
    BY <1>t, <2>3, <2>4, <2>5
  <2>10. AtHeader(x, f)'
    BY <2>2, <2>3, <2>5, <2>7, <2>8, <2>9 DEF AtHeader, Ith
  <2> QED BY <2>1, <2>3, <2>10 DEF Stays, ReaderAt
<1>4. CASE r.at = "ReadHeader" /\ Len(r.hdr) = Payload
  <2>1. r' = [Goto("HeaderChecks") EXCEPT !.off = 0, !.err = ~Checked] /\ ~Leaving
    BY <1>4 DEF Buf2Data, Leaving
  <2>2. AtHeader(x, f)
    BY <1>4 DEF ReaderAt
  <2>3. /\ r'.at = "HeaderChecks" /\ r'.off = 0 /\ r'.hdr = r.hdr /\ r'.wrReq = r.wrReq
        /\ r'.udp = r.udp /\ r'.ptr = r.ptr /\ r'.err = ~Checked
    BY <2>1 DEF Goto, TypeOK
  <2>4. \A n \in DOMAIN sent : HeaderOf(n) <=> x.i = 0 /\ n = x.n
    BY <1>4, <2>2, HeaderRight DEF AtHeader
  <2>5. Checked <=> x.i = 0 /\ f.kind # "raw"
    BY <2>4 DEF Checked, Front
  <2>6. HeaderSoFar(x, f)'
    BY <2>2, <2>3 DEF AtHeader, HeaderSoFar
  <2>7. AtChecks(x, f)'
    BY <1>4, <2>2, <2>3, <2>5, <2>6 DEF AtChecks, AtHeader
  <2> QED BY <2>1, <2>3, <2>7 DEF Stays, ReaderAt
<1>5. CASE r.at = "HeaderChecks" /\ ~r.err
  <2>1. r' = Selected /\ ~Leaving
    BY <1>5 DEF Buf2Data, Leaving
  <2>2. AtChecks(x, f)
    BY <1>5 DEF ReaderAt
  <2>3. \A n \in DOMAIN sent : HeaderOf(n) <=> x.i = 0 /\ n = x.n
    BY <2>2, HeaderRight DEF AtChecks
  <2>4. x.n \in DOMAIN sent /\ sent[x.n] = f /\ x.i = 0 /\ HeaderOf(x.n)
    BY <1>5, <2>2, <2>3 DEF AtChecks, Front
  <2>5. (CHOOSE m \in DOMAIN sent : HeaderOf(m)) = x.n
    BY <2>3, <2>4
  <2>6. Listening <=> ForUdp(x, f)
    BY <2>3, <2>4 DEF Listening, ForUdp
  <2>7. Listening \in BOOLEAN
    BY DEF Listening
  <2>8. /\ r'.at = "StatusOut" /\ r'.ptr = r.ptr /\ r'.wrReq = r.wrReq /\ r'.udp = Listening
        /\ r'.off = (IF Listening THEN Payload ELSE 0)
        /\ r'.left = (IF Listening THEN f.data ELSE 0)
    BY <2>1, <2>4, <2>5, <2>7 DEF Selected, TypeOK
  <2>9. AtStatus(x, f)'
    BY <2>2, <2>6, <2>8 DEF AtStatus, AtChecks, ForUdp
  <2> QED BY <2>1, <2>8, <2>9 DEF Stays, ReaderAt
<1>6. CASE r.at = "HeaderChecks" /\ r.err
  <2>1. r' = OtherWord(full) /\ ~Leaving
    BY <1>6 DEF Buf2Data, Leaving
  <2>2. AtChecks(x, f)
    BY <1>6 DEF ReaderAt
  <2>3. ~r.udp /\ ~ForUdp(x, f) /\ r.off < f.len - x.i
    BY <1>6, <1>t, <2>2 DEF AtChecks, ForUdp
  <2> QED BY <2>1, <2>3, OtherWordStep DEF Stays
<1>7. CASE r.at = "StatusOut" /\ ~r.udp
  <2>1. r' = OtherWord(full) /\ ~Leaving
    BY <1>7 DEF Buf2Data, Leaving
  <2>2. ~r.udp /\ ~ForUdp(x, f) /\ r.off < f.len - x.i
    BY <1>7, <1>t DEF ReaderAt, AtStatus
  <2> QED BY <2>1, <2>2, OtherWordStep DEF Stays
<1>8. CASE r.at = "StatusOut" /\ r.udp
  <2>1. r' = DataWord(full) /\ ~Leaving
    BY <1>8 DEF Buf2Data, Leaving
  <2>2. AtStatus(x, f)
    BY <1>8 DEF ReaderAt
  <2>3. ForUdp(x, f) /\ r.off = Payload /\ r.left = f.data
    BY <1>8, <2>2 DEF AtStatus
  <2>4. Payload <= r.off /\ r.off < f.len
    BY <1>t, <2>3 DEF ForUdp
  <2>5. r.left = IF r.off - Payload < f.data THEN f.data - (r.off - Payload) ELSE 0
    BY <1>t, <2>3
  <2>6. sound' => (full => r.left > 0)
    <3> SUFFICES ASSUME sound', full PROVE r.left > 0
      OBVIOUS
    <3>1. r.left # 0
      BY <1>8, <2>1 DEF Padding
    <3> QED BY <1>t, <3>1
  <2> QED BY <1>8, <2>1, <2>3, <2>4, <2>5, <2>6, DataWordStep DEF Stays
<1>9. CASE r.at = "TransferOtherData"
  <2>1. AtOther(x, f)
    BY <1>9 DEF ReaderAt
  <2>2. CASE Leaving
    <3>1. r.wrReq
      BY <1>9, <2>2 DEF Leaving
    <3>2. r' = Restarted((r.ptr + r.off) % Size)
      BY <1>9, <2>2 DEF Buf2Data
    <3>3. r.off \in 0 .. f.len - x.i
      BY <1>t, <2>1, <3>1 DEF AtOther
    <3> QED BY <2>2, <3>2, <3>3 DEF Leaves
  <2>3. CASE ~Leaving
    <3>1. r' = OtherWord(full)
      BY <1>9, <2>3 DEF Buf2Data
    <3>2. r.off < f.len - x.i
      <4>1. CASE r.wrReq
        <5>1. r.off \in 1 .. f.len - x.i /\ q = Ith(x, f, r.off - 1) /\ ~q.eof
          BY <1>9, <2>1, <2>3, <4>1 DEF AtOther, Leaving
        <5>2. ~(x.i + (r.off - 1) = f.len - 1)
          BY <5>1 DEF Ith
        <5> DEFINE c == r.off
                   L == f.len
                   i == x.i
        <5>3. c \in 1 .. L - i /\ ~(i + (c - 1) = L - 1) /\ L \in Nat /\ i \in Nat
          BY <1>t, <5>1, <5>2
        <5> HIDE DEF c, L, i
        <5>4. c < L - i
          BY <5>3
        <5> QED BY <5>4 DEF c, L, i
      <4>2. CASE ~r.wrReq
        BY <1>t, <2>1, <4>2 DEF AtOther
      <4> QED BY <4>1, <4>2
    <3>3. ~r.udp /\ ~ForUdp(x, f)
      BY <2>1 DEF AtOther
    <3> QED BY <2>3, <3>1, <3>2, <3>3, OtherWordStep DEF Stays
  <2> QED BY <2>2, <2>3
<1>10. CASE r.at = "TransferData"
  <2>1. AtData(x, f)
    BY <1>10 DEF ReaderAt
  <2>2. /\ r.udp /\ ForUdp(x, f) /\ x.i = 0
        /\ r.left = IF r.off - Payload < f.data THEN f.data - (r.off - Payload) ELSE 0
    BY <2>1 DEF AtData, ForUdp
  <2>3. r.off \in Payload .. f.len
    BY <1>t, <2>1 DEF AtData
  <2>4. CASE Leaving
    <3>1. r' = Restarted((r.ptr + r.off) % Size)
      BY <1>10, <2>4 DEF Buf2Data
    <3>2. r.off \in 0 .. f.len - x.i
      BY <1>t, <2>2, <2>3
    <3> QED BY <2>4, <3>1, <3>2 DEF Leaves
  <2>5. CASE ~Leaving
    <3>1. r' = DataWord(full)
      BY <1>10, <2>5 DEF Buf2Data
    <3>2. r.off < f.len
      <4> SUFFICES ASSUME r.off = f.len PROVE FALSE
        BY <1>t, <2>3
      <4>1. r.left = 0
        BY <1>t, <2>2
      <4>2. ~q.eof
        BY <1>10, <2>5, <4>1 DEF Leaving
      <4>3. q = Ith(x, f, f.len - 1)
        BY <1>t, <2>1 DEF AtData
      <4>4. x.i + (f.len - 1) = f.len - 1
        BY <1>t, <2>2
      <4> QED BY <4>2, <4>3, <4>4 DEF Ith
    <3>3. Payload <= r.off
      BY <1>t, <2>3
    <3>4. sound' => (full => r.left > 0)
      <4> SUFFICES ASSUME sound', full PROVE r.left > 0
        OBVIOUS
      <4>1. r.left # 0
        BY <1>10, <2>2, <2>5 DEF Padding
      <4> QED BY <1>t, <4>1
    <3> QED BY <2>2, <2>5, <3>1, <3>2, <3>3, <3>4, DataWordStep DEF Stays
  <2> QED BY <2>4, <2>5
<1>11. r.at \in Places
  BY DEF TypeOK
<1> QED BY <1>1, <1>2, <1>3, <1>4, <1>5, <1>6, <1>7, <1>8, <1>9, <1>10, <1>11 DEF Places

-----------------------------------------------------------------------------
(* All of it is kept by every edge.                                        *)

\* All that is known of the contents of the memory.
Contents == IInv /\ CellInv /\ ReaderInv

LEMMA Opposite ==
  ASSUME NEW p \in 0 .. Size - 1, NEW v \in 0 .. Size - 1, v # p
  PROVE  (p - v) % Size = Size - ((v - p) % Size)
<1> DEFINE a == (p - v) % Size
           b == (v - p) % Size
<1>1. a = IF v <= p THEN p - v ELSE p - v + Size
  BY Distance, SizeNat
<1>2. b = IF p <= v THEN v - p ELSE v - p + Size
  BY Distance, SizeNat
<1> HIDE DEF a, b
<1>3. a = Size - b
  BY <1>1, <1>2, SizePositive
<1> QED BY <1>3 DEF a, b

LEMMA ReaderWaits ==
  ASSUME TypeOK, NEW full, Buf2Data(full), BufEmpty, r.at = "Idle"
  PROVE  r' = Restarted(r.ptr)
BY DEF Buf2Data, Leaving

LEMMA RestartedIdle ==
  ASSUME NEW p, r' = Restarted(p)
  PROVE  /\ r'.ptr = p /\ r'.at = "Idle" /\ ReaderInv'
BY DEF Restarted, ReaderInv

LEMMA InitContents == Init => Contents
<1> SUFFICES ASSUME Init PROVE Contents
  OBVIOUS
<1>1. IInv
  BY InitIInv
<1>2. WriterCounts /\ WriterWords /\ RoomInv
  BY DEF Init, WriterCounts, Entered, WriterWords, RoomInv
<1>3. Used = 0
  <2>1. r.ptr = 0 /\ w.ptr = 0 /\ 0 \in 0 .. Size - 1
    BY SizePositive DEF Init, Restarted
  <2> QED BY <2>1, Distance, SizeNat DEF Used
<1>4. Unread(mem, sent, r.ptr, Used)
  BY <1>3 DEF Unread
<1>5. ReaderInv
  BY DEF Init, Restarted, ReaderInv
<1> QED BY <1>1, <1>2, <1>4, <1>5 DEF Contents, CellInv

\* The three ways the reader goes on: it waits, stays in its frame or leaves it.
Waited == BufEmpty /\ r.at = "Idle" /\ ~r.wrReq /\ r' = Restarted(r.ptr)

InFrame(x, f) ==
  /\ ~BufEmpty /\ x = First /\ f = sent[x.n] /\ Front(x, f) /\ f.len - x.i \in 1 .. Used
  /\ r.at = "Idle" => ~r.wrReq
  /\ r.at # "Idle" => ReaderAt(x, f)

(* A clock edge is a step of the writer, of the reader and of the history. *)
LEMMA EdgeCases ==
  ASSUME Contents, TypeOK', NEW full \in BOOLEAN, Edge(full)
  PROVE  /\ WriterCounts' /\ (Writes \/ Loses \/ Closes \/ Keeps)
         /\ Buf2Data(full) /\ History(full)
         /\ \/ Waited
            \/ \E x, f : InFrame(x, f) /\ (Stays(x, f) \/ Leaves(x, f))
<1>1. TypeOK /\ Begun /\ CellInv /\ WriterCounts /\ Unread(mem, sent, r.ptr, Used)
  BY DEF Contents, IInv, CellInv
<1>2. PICK bus \in BusType : Clock(bus, full)
  BY <1>1, EveryStepClocks
<1>3. WriterCounts' /\ (Writes \/ Loses \/ Closes \/ Keeps)
  BY <1>1, WriterStep
<1>4. Buf2Data(full) /\ q' = Slot(mem, r.ptr, r.off) /\ History(full)
  BY <1>2 DEF Clock, PacketBuffer, RdAddr, Slot
<1>5. sound' => ~(Padding /\ full)
  BY <1>4 DEF History
<1>6. CASE BufEmpty
  <2>1. r.at = "Idle" /\ ~r.wrReq
    BY <1>6 DEF Contents, ReaderInv
  <2>2. r' = Restarted(r.ptr)
    BY <1>1, <1>4, <1>6, <2>1, ReaderWaits
  <2> QED BY <1>3, <1>4, <1>6, <2>1, <2>2 DEF Waited
<1>7. CASE ~BufEmpty
  <2>1. PICK x, f : x = First /\ f = sent[First.n]
    OBVIOUS
  <2>2. Front(x, f) /\ f.len - x.i \in 1 .. Used
    BY <1>1, <1>7, <2>1, FrontFrame
  <2>3. /\ r.at = "Idle" => r.off = 0 /\ r.hdr = <<>> /\ ~r.wrReq /\ ~r.udp
        /\ r.at # "Idle" => ReaderAt(x, f)
    BY <2>1 DEF Contents, ReaderInv
  <2>4. Stays(x, f) \/ Leaves(x, f)
    BY <1>1, <1>4, <1>5, <1>7, <2>2, <2>3, ReaderStep
  <2>5. InFrame(x, f)
    BY <1>7, <2>1, <2>2, <2>3 DEF InFrame
  <2>6. \E y, g : InFrame(y, g) /\ (Stays(y, g) \/ Leaves(y, g))
    BY <2>4, <2>5
  <2> QED BY <1>3, <1>4, <2>6
<1> QED BY <1>6, <1>7

(* When the reader has moved by k, it is k words nearer to the writer and  *)
(* what is unread is as it was.                                            *)
LEMMA ReaderMoves ==
  ASSUME Contents, TypeOK', NEW full \in BOOLEAN, Edge(full),
         NEW k \in 0 .. Ahead, r'.ptr = (r.ptr + k) % Size
  PROVE  Used' = Ahead - k /\ CellInv'
<1>1. TypeOK /\ Begun /\ CellInv
  BY DEF Contents, IInv
<1>2. WriterCounts' /\ (Writes \/ Loses \/ Closes \/ Keeps)
  BY EdgeCases
<1>3. /\ Ahead \in Used .. Size - 1
      /\ Unread(mem', sent', r.ptr, Ahead)
      /\ WriterWords'
      /\ w'.off > 0 /\ Ahead > 0 => MaxReserv < Size - Ahead
  BY <1>1, <1>2, WriterCells
<1>4. /\ r.ptr \in 0 .. Size - 1 /\ r'.ptr \in 0 .. Size - 1 /\ w'.ptr \in 0 .. Size - 1
      /\ w'.off \in Nat /\ Used \in 0 .. Size - 1
  <2>1. Used \in 0 .. Size - 1
    BY <1>1, UsedAndRoom
  <2>2. w'.off \in Nat
    BY SizePositive DEF TypeOK
  <2> QED BY <1>1, <2>1, <2>2 DEF TypeOK
<1>5. k \in Nat /\ k <= Ahead /\ Ahead \in 0 .. Size - 1
  BY <1>3, <1>4, SizePositive
<1>6. Used' = Ahead - k
  <2> DEFINE p == r.ptr
             v == w'.ptr
             u == (v - p) % Size
  <2>1. p \in 0 .. Size - 1 /\ v \in 0 .. Size - 1 /\ k \in Nat /\ k <= u
        /\ Ahead = u /\ Used' = (v - ((p + k) % Size)) % Size
    BY <1>4, <1>5 DEF Used, Ahead
  <2> HIDE DEF p, v
  <2>2. (v - ((p + k) % Size)) % Size = u - k
    BY <2>1, Nearer, SizeNat
  <2> QED BY <2>1, <2>2
<1>7. Unread(mem', sent', r'.ptr, Used')
  BY <1>3, <1>4, <1>5, <1>6, UnreadShift
<1>8. RoomInv'
  <2> SUFFICES ASSUME w'.off > 0, r'.ptr # w'.ptr
               PROVE  MaxReserv < Room'
    BY DEF RoomInv, BufEmpty
  <2>1. Room' = Size - Used' /\ Used' # 0
    <3> DEFINE p == r'.ptr
               v == w'.ptr
    <3>0. p \in 0 .. Size - 1 /\ v \in 0 .. Size - 1 /\ v # p
      BY <1>4
    <3> HIDE DEF p, v
    <3>1. (p - v) % Size = Size - ((v - p) % Size)
      BY <3>0, Opposite
    <3>2. (v - p) % Size # 0
      BY <3>0, Distance, SizeNat
    <3> QED BY <3>1, <3>2 DEF Room, Used, p, v
  <2>2. Ahead > 0
    BY <1>5, <1>6, <2>1
  <2>3. MaxReserv < Size - Ahead
    BY <1>3, <2>2
  <2> QED BY <1>5, <1>6, <2>1, <2>3, SizePositive
<1> QED BY <1>2, <1>3, <1>6, <1>7, <1>8 DEF CellInv

LEMMA ReaderStands ==
  ASSUME Contents, TypeOK', NEW full \in BOOLEAN, Edge(full), r'.ptr = r.ptr
  PROVE  Used' = Ahead /\ CellInv'
<1>1. TypeOK /\ Begun /\ CellInv
  BY DEF Contents, IInv
<1>2. Ahead \in Used .. Size - 1
  BY <1>1, EdgeCases, WriterCells
<1>3. r.ptr \in 0 .. Size - 1 /\ Used \in 0 .. Size - 1
  BY <1>1, UsedAndRoom DEF TypeOK
<1>4. r'.ptr = (r.ptr + 0) % Size /\ 0 \in 0 .. Ahead /\ Ahead - 0 = Ahead
  BY <1>2, <1>3, Wrap, SizePositive
<1> QED BY <1>4, ReaderMoves

(* A reader that stays keeps its frame at its pointer.                     *)
LEMMA SameFrame ==
  ASSUME Contents, TypeOK', NEW full \in BOOLEAN, Edge(full), NEW x, NEW f, InFrame(x, f)
  PROVE  Slot(mem', r.ptr, 0) = x /\ sent'[x.n] = f
<1>1. TypeOK /\ Begun /\ CellInv /\ (Writes \/ Loses \/ Closes \/ Keeps)
  BY EdgeCases DEF Contents, IInv
<1>2. /\ \A d \in 0 .. Used - 1 : Slot(mem', r.ptr, d) = Slot(mem, r.ptr, d)
      /\ \A n \in DOMAIN sent : n \in DOMAIN sent' /\ sent'[n] = sent[n]
  BY <1>1, WriterCells
<1>3. 0 \in 0 .. Used - 1
  <2>1. Used \in 0 .. Size - 1 /\ Used # 0
    BY <1>1, UsedAndRoom DEF InFrame
  <2> QED BY <2>1, SizePositive
<1> QED BY <1>2, <1>3 DEF InFrame, Front, First

LEMMA EdgeContents ==
  ASSUME Contents, TypeOK', NEW full \in BOOLEAN, Edge(full)
  PROVE  CellInv' /\ ReaderInv'
<1>1. TypeOK /\ Begun /\ CellInv /\ (Writes \/ Loses \/ Closes \/ Keeps)
  BY EdgeCases DEF Contents, IInv
<1>2. Ahead \in Used .. Size - 1
  BY <1>1, WriterCells
<1>3. /\ r.ptr \in 0 .. Size - 1 /\ r'.ptr \in 0 .. Size - 1 /\ w'.ptr \in 0 .. Size - 1
      /\ r.off \in Nat /\ Used \in 0 .. Size - 1 /\ (BufEmpty <=> Used = 0)
  BY <1>1, UsedAndRoom DEF TypeOK
<1>4. CASE Waited
  <2>1. r'.ptr = r.ptr /\ ReaderInv'
    BY <1>4, RestartedIdle DEF Waited
  <2> QED BY <2>1, ReaderStands
<1>5. ASSUME NEW x, NEW f, InFrame(x, f), Stays(x, f)
      PROVE  CellInv' /\ ReaderInv'
  <2>1. r'.ptr = r.ptr /\ r'.at # "Idle" /\ ReaderAt(x, f)'
    BY <1>5 DEF Stays
  <2>2. CellInv' /\ Used' = Ahead
    BY <2>1, ReaderStands
  <2>3. First' = x /\ sent'[First'.n] = f
    BY <1>5, <2>1, SameFrame DEF First
  <2>4. ~BufEmpty'
    <3>1. Used' # 0
      BY <1>2, <1>3, <1>5, <2>2, SizePositive DEF InFrame
    <3> QED BY <1>3, <3>1, Distance, SizeNat DEF Used, BufEmpty
  <2>5. ReaderInv'
    BY <2>1, <2>3, <2>4 DEF ReaderInv
  <2> QED BY <2>2, <2>5
<1>6. ASSUME NEW x, NEW f, InFrame(x, f), Leaves(x, f)
      PROVE  CellInv' /\ ReaderInv'
  <2>1. r' = Restarted((r.ptr + r.off) % Size) /\ r.off \in 0 .. f.len - x.i
    BY <1>6 DEF Leaves
  <2>2. r.off \in 0 .. Ahead
    BY <1>2, <1>3, <1>6, <2>1, SizePositive DEF InFrame
  <2>3. r'.ptr = (r.ptr + r.off) % Size /\ ReaderInv'
    BY <2>1, RestartedIdle
  <2> QED BY <2>2, <2>3, ReaderMoves
<1> QED BY <1>4, <1>5, <1>6, EdgeCases

LEMMA StepContents == Contents /\ [Next]_vars => Contents'
<1> SUFFICES ASSUME Contents, [Next]_vars PROVE Contents'
  OBVIOUS
<1>1. IInv'
  BY StepIInv DEF Contents
<1>2. CASE Next
  <2>1. PICK full \in BOOLEAN : Edge(full)
    BY <1>2 DEF Next
  <2> QED BY <1>1, <2>1, EdgeContents DEF Contents, IInv
<1>3. CASE UNCHANGED vars
  <2>1. CellInv'
    BY <1>3 DEF vars, Contents, CellInv, WriterCounts, Entered, Current, WriterWords, RoomInv,
                BufEmpty, Room, Used
  <2>2. ReaderInv'
    BY <1>3 DEF vars, Contents, ReaderInv, BufEmpty, First, ReaderAt, AtStart, AtHeader,
                HeaderSoFar, AtChecks, AtStatus, AtOther, AtData
  <2> QED BY <1>1, <2>1, <2>2 DEF Contents
<1> QED BY <1>2, <1>3

LEMMA ContentsHold == Spec => []Contents
BY InitContents, StepContents, PTL DEF Spec

LEMMA ContentsFit == Contents => NoOverwrite
BY Fits DEF Contents, IInv, CellInv

(* No word of an unread frame is written over: whatever the reader does,   *)
(* the frame being written stays within the room that the pointers leave,  *)
(* for PktBufFlags is full while the longest frame would not fit (lines    *)
(* 1736-1742) and the writer drops words of a frame only then (line 2165). *)
THEOREM NothingOverwritten == Spec => []NoOverwrite
BY ContentsHold, ContentsFit, PTL

LEMMA CutStep == Contents /\ [Next]_vars => [w'.cut > w.cut => w.off = 0]_vars
<1> SUFFICES ASSUME Contents, Next, w'.cut > w.cut PROVE w.off = 0
  OBVIOUS
<1>1. PICK full \in BOOLEAN : Edge(full)
  BY DEF Next
<1>2. Writes \/ Loses \/ Closes \/ Keeps
  BY <1>1, WriterStep DEF Contents, IInv, CellInv
<1>3. w.cut \in Nat /\ w.off \in Nat
  BY SizePositive DEF Contents, IInv, TypeOK
<1>4. Loses
  BY <1>2, <1>3 DEF Writes, Closes, Keeps
<1>5. Room \in 0 .. Size - 1
  BY UsedAndRoom DEF Contents, IInv
<1> QED BY <1>3, <1>4, <1>5, SizePositive DEF Loses, BufFull, Contents, CellInv, RoomInv

(* A full buffer takes words from the head of a frame only: once a word is *)
(* stored, room for the rest is left until the frame is closed (lines      *)
(* 2168-2184).                                                             *)
THEOREM CutsOnlyAtHead == Spec => CutOnlyAtHead
BY ContentsHold, CutStep, PTL DEF Spec, CutOnlyAtHead

-----------------------------------------------------------------------------
(* The frames stored: the queue of the history against the memory.         *)

\* What a frame owes a stream, of which the last m words are still to come.
Total(x, f) == IF ForUdp(x, f) THEN f.data ELSE f.len - x.i

LastWords(x, f, m) ==
  [j \in 1 .. m |->
     [n |-> x.n,
      i |-> (IF ForUdp(x, f) THEN Payload + f.data ELSE f.len) - m + j - 1,
      to |-> IF ForUdp(x, f) THEN "udp" ELSE "cpu",
      eod |-> j = m]]

\* The words still to come of the frame the reader is in.
Left(x, f) ==
  CASE r.at = "TransferOtherData" -> (f.len - x.i - r.off) + (IF r.wrReq THEN 1 ELSE 0)
    [] r.at = "TransferData"      -> r.left + (IF r.wrReq THEN 1 ELSE 0)
    [] OTHER                      -> Total(x, f)

LeftNow == Left(First, sent[First.n])

DueWords == [n : Nat, i : Int, to : {"udp", "cpu"}, eod : BOOLEAN]
Entries  == [n : Nat, at : 0 .. Size - 1, due : Seq(DueWords)]

\* How far the k-th frame of the queue Q begins from p, and its length.
Begins(Q, p, k) == (Q[k].at - p) % Size
Start(Q, m, p, k) == Slot(m, p, Begins(Q, p, k))
Long(Q, m, s, p, k) == s[Start(Q, m, p, k).n].len - Start(Q, m, p, k).i

\* The frames of Q lie one behind the other in the u words from p.
Chained(Q, m, s, p, u) ==
  /\ Q = <<>> <=> u = 0
  /\ Q # <<>> => Q[1].at = p
  /\ \A k \in 1 .. Len(Q) :
       /\ Begins(Q, p, k) < u /\ Q[k].n = Start(Q, m, p, k).n
       /\ k = Len(Q) => Begins(Q, p, k) + Long(Q, m, s, p, k) = u
       /\ k < Len(Q) => Begins(Q, p, k) + Long(Q, m, s, p, k) = Begins(Q, p, k + 1)
       /\ \A l \in k + 1 .. Len(Q) : Begins(Q, p, k) + Long(Q, m, s, p, k) <= Begins(Q, p, l)

\* What is due of each, left words of the first.
Dues(Q, m, s, p, left) ==
  \A k \in 1 .. Len(Q) :
    LET x == Start(Q, m, p, k)
        f == s[x.n]
    IN Q[k].due = LastWords(x, f, IF k = 1 THEN left ELSE Total(x, f))

QueueInv ==
  sound => /\ queue \in Seq(Entries)
           /\ Chained(queue, mem, sent, r.ptr, Used)
           /\ Dues(queue, mem, sent, r.ptr, LeftNow)

-----------------------------------------------------------------------------

LEMMA LastWordsSeq ==
  ASSUME NEW x, NEW f, x.n \in Nat, x.i \in Nat, f.len \in Nat, f.data \in Nat, NEW m \in Nat
  PROVE  /\ LastWords(x, f, m) \in Seq(DueWords) /\ Len(LastWords(x, f, m)) = m
         /\ m # 0 => /\ LastWords(x, f, m) # <<>>
                     /\ Tail(LastWords(x, f, m)) = LastWords(x, f, m - 1)
                     /\ Head(LastWords(x, f, m)) = LastWords(x, f, m)[1]
         /\ m = 0 => LastWords(x, f, m) = <<>>
<1>0. Payload \in Nat
  BY FrameAssumption
<1> DEFINE u == IF ForUdp(x, f) THEN Payload + f.data ELSE f.len
           to == IF ForUdp(x, f) THEN "udp" ELSE "cpu"
<1>1. u \in Int /\ to \in {"udp", "cpu"}
  BY <1>0
<1>2. \A v : LastWords(x, f, v) =
        [j \in 1 .. v |-> [n |-> x.n, i |-> u - v + j - 1, to |-> to, eod |-> j = v]]
  BY DEF LastWords
<1> HIDE DEF u, to
<1>3. \A v \in Nat : LastWords(x, f, v) \in Seq(DueWords) /\ Len(LastWords(x, f, v)) = v
  <2> TAKE v \in Nat
  <2> DEFINE E(j) == [n |-> x.n, i |-> u - v + j - 1, to |-> to, eod |-> j = v]
  <2>1. \A j \in 1 .. v : E(j) \in DueWords
    BY <1>1 DEF DueWords
  <2>2. LastWords(x, f, v) = [j \in 1 .. v |-> E(j)]
    BY <1>2
  <2> HIDE DEF E
  <2>3. LastWords(x, f, v) \in [1 .. v -> DueWords]
    BY <2>1, <2>2
  <2> QED BY <2>3
<1>4. ASSUME m # 0
      PROVE  /\ LastWords(x, f, m) # <<>>
             /\ Tail(LastWords(x, f, m)) = LastWords(x, f, m - 1)
             /\ Head(LastWords(x, f, m)) = LastWords(x, f, m)[1]
  <2> DEFINE a == LastWords(x, f, m)
             b == LastWords(x, f, m - 1)
  <2>1. a \in Seq(DueWords) /\ Len(a) = m /\ b \in Seq(DueWords) /\ Len(b) = m - 1
    BY <1>3, <1>4
  <2>a. a = [j \in 1 .. m |-> [n |-> x.n, i |-> u - m + j - 1, to |-> to, eod |-> j = m]]
    BY <1>2
  <2>b. b = [j \in 1 .. m - 1 |-> [n |-> x.n, i |-> u - (m - 1) + j - 1, to |-> to, eod |-> j = m - 1]]
    BY <1>2
  <2> HIDE DEF a, b
  <2>2. \A i \in 1 .. m - 1 : a[i + 1] = b[i]
    <3> TAKE i \in 1 .. m - 1
    <3>1. i + 1 \in 1 .. m /\ u - m + (i + 1) - 1 = u - (m - 1) + i - 1 /\ (i + 1 = m <=> i = m - 1)
      BY <1>1
    <3>2. a[i + 1] = [n |-> x.n, i |-> u - m + (i + 1) - 1, to |-> to, eod |-> i + 1 = m]
      BY <2>a, <3>1
    <3>3. b[i] = [n |-> x.n, i |-> u - (m - 1) + i - 1, to |-> to, eod |-> i = m - 1]
      BY <2>b
    <3> QED BY <3>1, <3>2, <3>3
  <2>3. a # <<>>
    BY <1>4, <2>1
  <2>4. /\ Tail(a) \in Seq(DueWords) /\ Len(Tail(a)) = m - 1
        /\ \A i \in 1 .. Len(Tail(a)) : Tail(a)[i] = a[i + 1]
    BY <2>1, <2>3, HeadTailProperties
  <2>5. Tail(a) = b
    BY <2>1, <2>2, <2>4, SeqEqual
  <2>6. Head(a) = a[1]
    BY <2>1, <2>3
  <2> QED BY <2>3, <2>5, <2>6 DEF a, b
<1>5. m = 0 => LastWords(x, f, m) = <<>>
  BY <1>3
<1> QED BY <1>3, <1>4, <1>5

(* What the history writes down of a frame stored whole or without its     *)
(* head is all of it that is due.                                          *)
LEMMA DueOfIs ==
  ASSUME NEW x, NEW f, sent[x.n] = f, x.i \in Nat, x.i <= f.len, f.len \in Nat, f.data \in Nat
  PROVE  /\ DueOf(x.n, x.i) = LastWords(x, f, Total(x, f))
         /\ Total(x, f) \in Nat
<1>0. Payload \in Nat
  BY FrameAssumption
<1> DEFINE whole == ForUdp(x, f)
           from == IF whole THEN Payload ELSE x.i
           upto == IF whole THEN Payload + f.data ELSE f.len
           to == IF whole THEN "udp" ELSE "cpu"
           t == Total(x, f)
<1>1. DueOf(x.n, x.i) = [j \in 1 .. upto - from |->
           [n |-> x.n, i |-> from + j - 1, to |-> to, eod |-> from + j = upto]]
  BY DEF DueOf, ForUdp
<1>2. LastWords(x, f, t) = [j \in 1 .. t |-> [n |-> x.n, i |-> upto - t + j - 1, to |-> to, eod |-> j = t]]
  BY DEF LastWords
<1>3. t = upto - from /\ t \in Nat /\ upto \in Int /\ from \in Int
  BY <1>0 DEF Total
<1> HIDE DEF whole, from, upto, to, t
<1>4. \A j \in 1 .. t : from + j - 1 = upto - t + j - 1 /\ (from + j = upto <=> j = t)
  BY <1>3
<1>5. DueOf(x.n, x.i) = LastWords(x, f, t)
  BY <1>1, <1>2, <1>3, <1>4
<1> QED BY <1>3, <1>5 DEF t

-----------------------------------------------------------------------------
(* What is left of the frame the reader is in.                             *)

(* The word on its way is the first of those still to come.                *)
LEMMA WrittenWord ==
  ASSUME TypeOK, NEW x, NEW f, Front(x, f), ReaderAt(x, f), r.at # "Idle", r.wrReq
  PROVE  /\ Left(x, f) \in Nat \ {0}
         /\ Written = LastWords(x, f, Left(x, f))[1]
<1>t. /\ Payload \in Nat \ {0} /\ f.len \in Nat /\ f.data \in Nat
      /\ x.i \in Nat /\ x.i < f.len
      /\ r.off \in Nat /\ r.left \in Nat
  BY FrontTypes
<1>1. r.at \in {"TransferOtherData", "TransferData"}
  BY DEF ReaderAt, AtStart, AtHeader, AtChecks, AtStatus, TypeOK, Places
<1> DEFINE m == Left(x, f)
           u == IF ForUdp(x, f) THEN Payload + f.data ELSE f.len
           to == IF ForUdp(x, f) THEN "udp" ELSE "cpu"
<1>2. m \in Nat \ {0} => LastWords(x, f, m)[1] = [n |-> x.n, i |-> u - m + 1 - 1, to |-> to, eod |-> 1 = m]
  BY DEF LastWords
<1>3. Written = [n |-> q.n, i |-> q.i, to |-> IF r.udp THEN "udp" ELSE "cpu",
                 eod |-> IF r.udp THEN r.eod ELSE q.eof]
  BY DEF Written
<1>4. CASE r.at = "TransferOtherData"
  <2>1. AtOther(x, f)
    BY <1>4 DEF ReaderAt
  <2>2. ~r.udp /\ ~ForUdp(x, f) /\ r.off \in 1 .. f.len - x.i /\ q = Ith(x, f, r.off - 1)
    BY <2>1 DEF AtOther
  <2>3. m = (f.len - x.i - r.off) + 1
    BY <1>4 DEF Left
  <2>4. u = f.len /\ to = "cpu"
    BY <2>2
  <2> HIDE DEF m, u, to
  <2>5. m \in Nat \ {0} /\ u - m + 1 - 1 = x.i + (r.off - 1)
    BY <1>t, <2>2, <2>3, <2>4
  <2>6. q.n = x.n /\ q.i = x.i + (r.off - 1) /\ q.eof = (x.i + (r.off - 1) = f.len - 1)
    BY <2>2 DEF Ith
  <2>7. (x.i + (r.off - 1) = f.len - 1) <=> 1 = m
    BY <1>t, <2>2, <2>3
  <2>8. Written = LastWords(x, f, m)[1]
    BY <1>2, <1>3, <2>2, <2>4, <2>5, <2>6, <2>7
  <2> QED BY <2>5, <2>8 DEF m
<1>5. CASE r.at = "TransferData"
  <2>1. AtData(x, f)
    BY <1>5 DEF ReaderAt
  <2>2. /\ r.udp /\ ForUdp(x, f) /\ x.i = 0 /\ q = Ith(x, f, r.off - 1)
        /\ r.off - Payload <= f.data /\ (r.eod <=> r.off - Payload = f.data)
        /\ r.left = IF r.off - Payload < f.data THEN f.data - (r.off - Payload) ELSE 0
    BY <2>1 DEF AtData, ForUdp
  <2>3. m = r.left + 1
    BY <1>5 DEF Left
  <2>4. u = Payload + f.data /\ to = "udp"
    BY <2>2
  <2> HIDE DEF m, u, to
  <2>5. m \in Nat \ {0} /\ u - m + 1 - 1 = x.i + (r.off - 1)
    BY <1>t, <2>2, <2>3, <2>4
  <2>6. q.n = x.n /\ q.i = x.i + (r.off - 1)
    BY <2>2 DEF Ith
  <2>7. (r.off - Payload = f.data) <=> 1 = m
    BY <1>t, <2>2, <2>3
  <2>8. r.eod = (1 = m)
    BY <2>2, <2>7 DEF TypeOK
  <2>9. Written = LastWords(x, f, m)[1]
    BY <1>2, <1>3, <2>2, <2>4, <2>5, <2>6, <2>8
  <2> QED BY <2>5, <2>9 DEF m
<1> QED BY <1>1, <1>4, <1>5

(* A frame is left at its end and with its last word, while sound.         *)
LEMMA LeavesAtEnd ==
  ASSUME TypeOK, NEW x, NEW f, Front(x, f), ReaderAt(x, f), Leaving, sound
  PROVE  /\ r.off = f.len - x.i
         /\ Left(x, f) = IF r.wrReq THEN 1 ELSE 0
<1>t. /\ Payload \in Nat \ {0} /\ f.len \in Nat /\ f.data \in Nat
      /\ x.i \in Nat /\ x.i < f.len
      /\ r.off \in Nat /\ r.left \in Nat
  BY FrontTypes
<1>1. CASE r.at = "TransferOtherData"
  <2>1. r.wrReq /\ q.eof
    BY <1>1 DEF Leaving
  <2>2. r.off \in 1 .. f.len - x.i /\ q = Ith(x, f, r.off - 1)
    BY <1>1, <2>1 DEF ReaderAt, AtOther
  <2>3. x.i + (r.off - 1) = f.len - 1
    BY <2>1, <2>2 DEF Ith
  <2>4. r.off = f.len - x.i
    BY <1>t, <2>3
  <2>5. Left(x, f) = (f.len - x.i - r.off) + 1
    BY <1>1, <2>1 DEF Left
  <2> QED BY <1>t, <2>1, <2>4, <2>5
<1>2. CASE r.at = "TransferData"
  <2>1. r.left = 0 /\ q.eof
    BY <1>2 DEF Leaving
  <2>2. AtData(x, f)
    BY <1>2 DEF ReaderAt
  <2>3. x.i = 0 /\ r.off \in Payload + 1 .. f.len /\ q = Ith(x, f, r.off - 1)
    BY <2>1, <2>2 DEF AtData, ForUdp
  <2>4. x.i + (r.off - 1) = f.len - 1
    BY <2>1, <2>3 DEF Ith
  <2>5. r.off = f.len - x.i
    BY <1>t, <2>3, <2>4
  <2>6. Left(x, f) = r.left + (IF r.wrReq THEN 1 ELSE 0)
    BY <1>2 DEF Left
  <2> QED BY <1>t, <2>1, <2>5, <2>6
<1> QED BY <1>1, <1>2 DEF Leaving

(* While the reader stays in a frame, what is to come of it shrinks by the *)
(* words written.                                                          *)
LEMMA LeftStep ==
  ASSUME TypeOK, TypeOK', NEW full \in BOOLEAN, NEW x, NEW f, Front(x, f), ~BufEmpty,
         Buf2Data(full), ~Leaving,
         r.at = "Idle" => ~r.wrReq,
         r.at # "Idle" => ReaderAt(x, f), r'.at # "Idle", ReaderAt(x, f)'
  PROVE  Left(x, f)' = Left(x, f) - (IF r.wrReq THEN 1 ELSE 0)
<1>t. /\ Payload \in Nat \ {0} /\ f.len \in Nat /\ f.data \in Nat
      /\ Payload + f.data <= f.len
      /\ x.i \in Nat /\ x.i < f.len
      /\ r.off \in Nat /\ r.left \in Nat
  BY FrontTypes
<1>p. r'.off \in Nat /\ r'.left \in Nat
  BY SizePositive DEF TypeOK
<1> DEFINE T == Total(x, f)
<1>0. T \in Int
  BY <1>t DEF Total
<1>1. CASE r.at \in {"Idle", "StartMemAcc", "ReadHeader"} \/ (r.at = "HeaderChecks" /\ ~r.err)
  <2>1. r'.at \in {"StartMemAcc", "ReadHeader", "HeaderChecks", "StatusOut"}
    <3>1. \/ r' = [Goto("StartMemAcc") EXCEPT !.off = 1]
          \/ r' = ReadWord \/ r' = Selected
          \/ r' = [Goto("HeaderChecks") EXCEPT !.off = 0, !.err = ~Checked]
      BY <1>1 DEF Buf2Data, Leaving
    <3> QED BY <3>1 DEF Goto, ReadWord, Selected, TypeOK
  <2>2. ~r.wrReq
    BY <1>1 DEF ReaderAt, AtStart, AtHeader, AtChecks
  <2>3. Left(x, f) = T
    BY <1>1 DEF Left
  <2>4. Left(x, f)' = T
    BY <2>1 DEF Left, Total, ForUdp
  <2> QED BY <1>0, <2>2, <2>3, <2>4
<1>2. ASSUME r' = OtherWord(full), ~ForUdp(x, f), r.off < f.len - x.i
      PROVE  Left(x, f)' = f.len - x.i - r.off
  <2>1. NextOff = r.off + 1
    BY <1>2, OffsetFits
  <2>2. /\ r'.at = "TransferOtherData" /\ r'.wrReq = ~full
        /\ r'.off = IF full THEN r.off ELSE r.off + 1
    BY <1>2, <2>1 DEF OtherWord, TypeOK
  <2>3. Left(x, f)' = (f.len - x.i - r'.off) + (IF r'.wrReq THEN 1 ELSE 0)
    BY <2>2 DEF Left
  <2>4. CASE full
    <3>1. Left(x, f)' = (f.len - x.i - r.off) + 0
      BY <2>2, <2>3, <2>4
    <3> QED BY <1>t, <3>1
  <2>5. CASE ~full
    <3>1. Left(x, f)' = (f.len - x.i - (r.off + 1)) + 1
      BY <2>2, <2>3, <2>5
    <3> QED BY <1>t, <3>1
  <2> QED BY <2>4, <2>5
<1>3. ASSUME r' = DataWord(full)
      PROVE  Left(x, f)' = r.left
  <2>1. /\ r'.at = "TransferData"
        /\ full => r'.wrReq = FALSE /\ r'.left = r.left
        /\ ~full => r'.wrReq = (r.left > 0) /\ r'.left = (IF r.left > 0 THEN r.left - 1 ELSE 0)
    BY <1>3 DEF DataWord, TypeOK
  <2>2. Left(x, f)' = r'.left + (IF r'.wrReq THEN 1 ELSE 0)
    BY <2>1 DEF Left
  <2>3. CASE full
    <3>1. Left(x, f)' = r.left + 0
      BY <2>1, <2>2, <2>3
    <3> QED BY <1>t, <3>1
  <2>4. CASE ~full /\ r.left > 0
    <3>1. Left(x, f)' = (r.left - 1) + 1
      BY <2>1, <2>2, <2>4
    <3> QED BY <1>t, <3>1
  <2>5. CASE ~full /\ ~(r.left > 0)
    <3>1. Left(x, f)' = 0 + 0
      BY <2>1, <2>2, <2>5
    <3> QED BY <1>t, <2>5, <3>1
  <2> QED BY <2>3, <2>4, <2>5
<1>4. CASE r.at = "HeaderChecks" /\ r.err
  <2>1. r' = OtherWord(full)
    BY <1>4 DEF Buf2Data, Leaving
  <2>2. AtChecks(x, f)
    BY <1>4 DEF ReaderAt
  <2>3. ~r.wrReq /\ ~ForUdp(x, f) /\ r.off = 0 /\ r.off < f.len - x.i
    BY <1>4, <1>t, <2>2 DEF AtChecks, ForUdp
  <2>4. Left(x, f) = f.len - x.i
    BY <1>4, <2>3 DEF Left, Total
  <2> QED BY <1>2, <1>t, <2>1, <2>3, <2>4
<1>5. CASE r.at = "StatusOut" /\ ~r.udp
  <2>1. r' = OtherWord(full)
    BY <1>5 DEF Buf2Data, Leaving
  <2>2. AtStatus(x, f)
    BY <1>5 DEF ReaderAt
  <2>3. ~r.wrReq /\ ~ForUdp(x, f) /\ r.off = 0 /\ r.off < f.len - x.i
    BY <1>5, <1>t, <2>2 DEF AtStatus
  <2>4. Left(x, f) = f.len - x.i
    BY <1>5, <2>3 DEF Left, Total
  <2> QED BY <1>2, <1>t, <2>1, <2>3, <2>4
<1>6. CASE r.at = "StatusOut" /\ r.udp
  <2>1. r' = DataWord(full)
    BY <1>6 DEF Buf2Data, Leaving
  <2>2. AtStatus(x, f)
    BY <1>6 DEF ReaderAt
  <2>3. ~r.wrReq /\ ForUdp(x, f) /\ r.left = f.data
    BY <1>6, <2>2 DEF AtStatus
  <2>4. Left(x, f) = f.data
    BY <1>6, <2>3 DEF Left, Total
  <2> QED BY <1>3, <1>t, <2>1, <2>3, <2>4
<1>7. CASE r.at = "TransferOtherData"
  <2>1. r' = OtherWord(full)
    BY <1>7 DEF Buf2Data
  <2>2. AtOther(x, f)
    BY <1>7 DEF ReaderAt
  <2>3. r.off < f.len - x.i
    <3>1. CASE r.wrReq
      <4>1. r.off \in 1 .. f.len - x.i /\ q = Ith(x, f, r.off - 1) /\ ~q.eof
        BY <1>7, <2>2, <3>1 DEF AtOther, Leaving
      <4>2. ~(x.i + (r.off - 1) = f.len - 1)
        BY <4>1 DEF Ith
      <4> QED BY <1>t, <4>1, <4>2
    <3>2. CASE ~r.wrReq
      BY <1>t, <2>2, <3>2 DEF AtOther
    <3> QED BY <3>1, <3>2
  <2>4. ~ForUdp(x, f)
    BY <2>2 DEF AtOther
  <2>5. Left(x, f)' = f.len - x.i - r.off
    BY <1>2, <2>1, <2>3, <2>4
  <2>6. Left(x, f) = (f.len - x.i - r.off) + (IF r.wrReq THEN 1 ELSE 0)
    BY <1>7 DEF Left
  <2> QED BY <1>t, <2>5, <2>6
<1>8. CASE r.at = "TransferData"
  <2>1. r' = DataWord(full)
    BY <1>8 DEF Buf2Data
  <2>2. Left(x, f) = r.left + (IF r.wrReq THEN 1 ELSE 0)
    BY <1>8 DEF Left
  <2> QED BY <1>3, <1>t, <2>1, <2>2
<1>9. r.at \in Places
  BY DEF TypeOK
<1> QED BY <1>1, <1>4, <1>5, <1>6, <1>7, <1>8, <1>9 DEF Places

-----------------------------------------------------------------------------
(* The frames of the queue, one behind the other in the memory.            *)

(* Each frame of the queue lies within the unread words.                   *)
LEMMA ChainTypes ==
  ASSUME NEW s \in Seq(Frames), NEW m, NEW p \in 0 .. Size - 1, NEW u \in 0 .. Size - 1,
         Unread(m, s, p, u), NEW Q \in Seq(Entries), Chained(Q, m, s, p, u),
         NEW k \in 1 .. Len(Q)
  PROVE  /\ Q[k] \in Entries /\ Begins(Q, p, k) \in 0 .. u - 1
         /\ Long(Q, m, s, p, k) \in Nat \ {0}
         /\ Begins(Q, p, k) + Long(Q, m, s, p, k) <= u
         /\ Start(Q, m, p, k).n \in DOMAIN s
         /\ s[Start(Q, m, p, k).n] \in Frames
         /\ s[Start(Q, m, p, k).n].len \in Nat /\ s[Start(Q, m, p, k).n].data \in Nat
         /\ Start(Q, m, p, k).i \in Nat
         /\ Start(Q, m, p, k).i < s[Start(Q, m, p, k).n].len
<1>1. Q[k] \in Entries /\ Q[k].at \in 0 .. Size - 1
  <2>1. Q[k] \in Entries
    BY ElementOfSeq
  <2> QED BY <2>1 DEF Entries
<1> DEFINE b == Begins(Q, p, k)
           x == Start(Q, m, p, k)
           l == s[x.n].len
<1>2. b \in 0 .. Size - 1 /\ b < u
  BY <1>1, Distance, SizeNat DEF Begins, Chained
<1>3. b \in 0 .. u - 1
  BY <1>2, SizePositive
<1>4. Followed(m, s, p, u, b)
  BY <1>3 DEF Unread
<1>5. x = Slot(m, p, b)
  BY DEF Start
<1> HIDE DEF b, x
<1>6. x.n \in DOMAIN s /\ x.i \in 0 .. l - 1 /\ \A j \in 0 .. l - 1 - x.i : b + j < u
  BY <1>4, <1>5 DEF Followed
<1>7. s[x.n] \in Frames
  BY <1>6
<1>8. l \in 1 .. MaxReserv /\ s[x.n].data \in Nat
  BY <1>7, FrameLengths, SizePositive
<1> HIDE DEF l
<1>9. l \in Nat /\ x.i \in Nat /\ x.i < l
  BY <1>6, <1>8, SizePositive
<1>10. b + (l - x.i) <= u
  <2>1. l - 1 - x.i \in 0 .. l - 1 - x.i
    BY <1>9
  <2>2. b + (l - 1 - x.i) < u
    BY <1>6, <2>1
  <2> QED BY <1>3, <1>9, <2>2, SizePositive
<1>11. Long(Q, m, s, p, k) = l - x.i
  BY DEF Long, l, x
<1>12. l - x.i \in Nat \ {0}
  BY <1>9
<1> QED BY <1>1, <1>3, <1>6, <1>7, <1>8, <1>9, <1>10, <1>11, <1>12 DEF b, x, l

(* Entries with the same places and frames are chained alike.              *)
LEMMA ChainAlike ==
  ASSUME NEW Q, NEW Q2, NEW m, NEW s, NEW p, NEW u, Chained(Q, m, s, p, u), Len(Q) \in Nat,
         Len(Q2) = Len(Q), Q = <<>> <=> Len(Q) = 0, Q2 = <<>> <=> Len(Q) = 0,
         \A k \in 1 .. Len(Q) : Q2[k].at = Q[k].at /\ Q2[k].n = Q[k].n
  PROVE  /\ Chained(Q2, m, s, p, u)
         /\ \A k \in 1 .. Len(Q) : Start(Q2, m, p, k) = Start(Q, m, p, k)
<1>1. \A k \in 1 .. Len(Q) : Begins(Q2, p, k) = Begins(Q, p, k)
  BY DEF Begins
<1>2. \A k \in 1 .. Len(Q) : Start(Q2, m, p, k) = Start(Q, m, p, k)
  BY <1>1 DEF Start
<1>3. \A k \in 1 .. Len(Q) : Long(Q2, m, s, p, k) = Long(Q, m, s, p, k)
  BY <1>2 DEF Long
<1>4. Q2 # <<>> => Q2[1].at = p
  <2>1. Q2 # <<>> => 1 \in 1 .. Len(Q)
    OBVIOUS
  <2> QED BY <2>1 DEF Chained
<1>5. ASSUME NEW k \in 1 .. Len(Q2)
      PROVE  /\ Begins(Q2, p, k) < u /\ Q2[k].n = Start(Q2, m, p, k).n
             /\ k = Len(Q2) => Begins(Q2, p, k) + Long(Q2, m, s, p, k) = u
             /\ k < Len(Q2) => Begins(Q2, p, k) + Long(Q2, m, s, p, k) = Begins(Q2, p, k + 1)
             /\ \A l \in k + 1 .. Len(Q2) : Begins(Q2, p, k) + Long(Q2, m, s, p, k) <= Begins(Q2, p, l)
  <2>1. k \in 1 .. Len(Q)
    OBVIOUS
  <2>2. k < Len(Q) => k + 1 \in 1 .. Len(Q)
    OBVIOUS
  <2>3. \A l \in k + 1 .. Len(Q) : l \in 1 .. Len(Q)
    OBVIOUS
  <2>4. /\ Begins(Q, p, k) < u /\ Q[k].n = Start(Q, m, p, k).n
        /\ k = Len(Q) => Begins(Q, p, k) + Long(Q, m, s, p, k) = u
        /\ k < Len(Q) => Begins(Q, p, k) + Long(Q, m, s, p, k) = Begins(Q, p, k + 1)
        /\ \A l \in k + 1 .. Len(Q) : Begins(Q, p, k) + Long(Q, m, s, p, k) <= Begins(Q, p, l)
    BY <2>1 DEF Chained
  <2> QED BY <1>1, <1>2, <1>3, <2>1, <2>2, <2>3, <2>4
<1>6. Q2 = <<>> <=> u = 0
  BY DEF Chained
<1> QED BY <1>2, <1>4, <1>5, <1>6 DEF Chained

(* A frame behind the last one.                                            *)
LEMMA ChainGrows ==
  ASSUME NEW s \in Seq(Frames), NEW m, NEW p \in 0 .. Size - 1, NEW u \in 0 .. Size - 1,
         Unread(m, s, p, u), NEW Q \in Seq(Entries), Chained(Q, m, s, p, u),
         NEW h \in Nat \ {0}, NEW e \in Entries, e.at = (p + u) % Size,
         e.n = Slot(m, p, u).n, s[e.n].len - Slot(m, p, u).i = h,
         NEW Q2, Len(Q2) = Len(Q) + 1, Q2 # <<>>,
         \A k \in 1 .. Len(Q) : Q2[k] = Q[k], Q2[Len(Q) + 1] = e
  PROVE  /\ Chained(Q2, m, s, p, u + h)
         /\ \A k \in 1 .. Len(Q) : Start(Q2, m, p, k) = Start(Q, m, p, k)
         /\ Start(Q2, m, p, Len(Q) + 1) = Slot(m, p, u)
<1> DEFINE N == Len(Q)
<1>0. N \in Nat /\ u \in Nat
  BY SizePositive
<1>1. \A k \in 1 .. N : Begins(Q2, p, k) = Begins(Q, p, k)
  BY DEF Begins
<1>2. \A k \in 1 .. N : Start(Q2, m, p, k) = Start(Q, m, p, k)
  BY <1>1 DEF Start
<1>3. \A k \in 1 .. N : Long(Q2, m, s, p, k) = Long(Q, m, s, p, k)
  BY <1>2 DEF Long
<1>4. Begins(Q2, p, N + 1) = u
  <2>1. e.at \in 0 .. Size - 1
    BY DEF Entries
  <2> DEFINE a == (p + u) % Size
  <2>2. a = (IF p + u < Size THEN p + u ELSE p + u - Size) /\ a \in 0 .. Size - 1
    BY Around, SizeNat
  <2> HIDE DEF a
  <2> DEFINE c == (a - p) % Size
  <2>3. c = IF p <= a THEN a - p ELSE a - p + Size
    BY <2>2, Distance, SizeNat
  <2> HIDE DEF c
  <2>4. c = u
    BY <2>2, <2>3, SizePositive
  <2>5. Begins(Q2, p, N + 1) = c
    BY DEF Begins, c, a
  <2> QED BY <2>4, <2>5
<1>5. Start(Q2, m, p, N + 1) = Slot(m, p, u)
  BY <1>4 DEF Start
<1>6. Long(Q2, m, s, p, N + 1) = h
  BY <1>5 DEF Long
<1>7. ASSUME NEW k \in 1 .. N
      PROVE  /\ Begins(Q, p, k) \in 0 .. u - 1 /\ Long(Q, m, s, p, k) \in Nat \ {0}
             /\ Begins(Q, p, k) + Long(Q, m, s, p, k) <= u
             /\ Q[k].n = Start(Q, m, p, k).n
             /\ k = N => Begins(Q, p, k) + Long(Q, m, s, p, k) = u
             /\ k < N => Begins(Q, p, k) + Long(Q, m, s, p, k) = Begins(Q, p, k + 1)
             /\ \A l \in k + 1 .. N : Begins(Q, p, k) + Long(Q, m, s, p, k) <= Begins(Q, p, l)
  BY <1>7, ChainTypes DEF Chained
<1> HIDE DEF N
<1>8. Q2[1].at = p
  <2>1. CASE N = 0
    <3>1. u = 0
      BY <2>1 DEF Chained, N
    <3>2. (p + 0) % Size = p
      BY Wrap, SizePositive
    <3> QED BY <2>1, <3>1, <3>2 DEF N
  <2>2. CASE N # 0
    <3>1. 1 \in 1 .. N /\ Q # <<>>
      BY <1>0, <2>2 DEF N
    <3> QED BY <3>1 DEF Chained, N
  <2> QED BY <2>1, <2>2
<1>9. ASSUME NEW k \in 1 .. N + 1
      PROVE  /\ Begins(Q2, p, k) < u + h /\ Q2[k].n = Start(Q2, m, p, k).n
             /\ k = N + 1 => Begins(Q2, p, k) + Long(Q2, m, s, p, k) = u + h
             /\ k < N + 1 => Begins(Q2, p, k) + Long(Q2, m, s, p, k) = Begins(Q2, p, k + 1)
             /\ \A l \in k + 1 .. N + 1 : Begins(Q2, p, k) + Long(Q2, m, s, p, k) <= Begins(Q2, p, l)
  <2>1. CASE k = N + 1
    <3>1. u < u + h /\ k + 1 .. N + 1 = {}
      BY <1>0, <2>1
    <3>2. Q2[k].n = Start(Q2, m, p, k).n
      BY <1>5, <2>1 DEF N
    <3> QED BY <1>4, <1>6, <2>1, <3>1, <3>2
  <2>2. CASE k # N + 1
    <3>1. k \in 1 .. N
      BY <1>0, <2>2
    <3> DEFINE b == Begins(Q, p, k)
               l0 == Long(Q, m, s, p, k)
    <3>2. /\ b \in 0 .. u - 1 /\ l0 \in Nat \ {0} /\ b + l0 <= u
          /\ Q[k].n = Start(Q, m, p, k).n
          /\ k = N => b + l0 = u
          /\ k < N => b + l0 = Begins(Q, p, k + 1)
          /\ \A l \in k + 1 .. N : b + l0 <= Begins(Q, p, l)
      BY <1>7, <3>1
    <3>3. Begins(Q2, p, k) = b /\ Long(Q2, m, s, p, k) = l0 /\ Start(Q2, m, p, k) = Start(Q, m, p, k)
      BY <1>1, <1>2, <1>3, <3>1
    <3> HIDE DEF b, l0
    <3>4. b < u + h
      BY <1>0, <3>2
    <3>5. Q2[k].n = Start(Q2, m, p, k).n
      BY <3>1, <3>2, <3>3 DEF N
    <3>6. b + l0 = Begins(Q2, p, k + 1)
      <4>1. CASE k = N
        BY <1>4, <3>2, <4>1
      <4>2. CASE k # N
        <5>1. k < N /\ k + 1 \in 1 .. N
          BY <1>0, <3>1, <4>2
        <5> QED BY <1>1, <3>2, <5>1
      <4> QED BY <4>1, <4>2
    <3>7. ASSUME NEW l \in k + 1 .. N + 1 PROVE b + l0 <= Begins(Q2, p, l)
      <4>1. CASE l = N + 1
        BY <1>4, <3>2, <4>1
      <4>2. CASE l # N + 1
        <5>0. k \in Nat /\ l \in Int /\ k + 1 <= l /\ l <= N + 1 /\ 1 <= k
          BY <1>0, <3>1
        <5>1. l \in k + 1 .. N /\ l \in 1 .. N
          BY <1>0, <4>2, <5>0
        <5> QED BY <1>1, <3>2, <5>1
      <4> QED BY <4>1, <4>2
    <3> QED BY <2>2, <3>3, <3>4, <3>5, <3>6, <3>7
  <2> QED BY <2>1, <2>2
<1>10. u + h # 0
  BY <1>0
<1> QED BY <1>2, <1>5, <1>8, <1>9, <1>10 DEF Chained, N

(* Where a frame begins, seen from h words further.                        *)
LEMMA StartTail ==
  ASSUME NEW m, NEW p \in 0 .. Size - 1, NEW h \in Nat, NEW o, o = (p + h) % Size,
         NEW Q, NEW Q2, NEW k, NEW l, Q2[k] = Q[l], Q[l].at \in 0 .. Size - 1,
         h <= Begins(Q, p, l)
  PROVE  Start(Q2, m, o, k) = Start(Q, m, p, l)
<1> DEFINE b == Begins(Q, p, l)
           d == b - h
<1>1. Begins(Q2, o, k) = d
  <2> DEFINE v == Q[l].at
  <2>1. b = (v - p) % Size /\ v \in 0 .. Size - 1 /\ h <= b
    BY DEF Begins
  <2>2. Begins(Q2, o, k) = (Q2[k].at - o) % Size
    BY Zenon DEF Begins
  <2>3. Begins(Q2, o, k) = (v - o) % Size
    BY <2>2, Zenon
  <2> HIDE DEF v, b
  <2>4. (v - ((p + h) % Size)) % Size = ((v - p) % Size) - h
    BY <2>1, Nearer, SizeNat
  <2> QED BY <2>1, <2>3, <2>4
<1>b. b \in 0 .. Size - 1 /\ h <= b
  BY Distance, SizeNat DEF Begins
<1> HIDE DEF b
<1>2. d \in Nat /\ h + d = b /\ h + d < Size
  BY <1>b, SizePositive
<1> HIDE DEF d
<1>3. Slot(m, o, d) = Slot(m, p, h + d)
  BY <1>2, SlotsShift
<1> QED BY <1>1, <1>2, <1>3 DEF Start, b

(* The queue without its first frame, from the place where that one ends.  *)
LEMMA ChainTail ==
  ASSUME NEW s \in Seq(Frames), NEW m, NEW p \in 0 .. Size - 1, NEW u \in 0 .. Size - 1,
         Unread(m, s, p, u), NEW Q \in Seq(Entries), Chained(Q, m, s, p, u), Q # <<>>,
         NEW h, h = Long(Q, m, s, p, 1),
         NEW Q2 \in Seq(Entries), Len(Q2) = Len(Q) - 1,
         \A k \in 1 .. Len(Q2) : Q2[k] = Q[k + 1]
  PROVE  Chained(Q2, m, s, (p + h) % Size, u - h)
<1> DEFINE N == Len(Q)
           o == (p + h) % Size
<1>0. N \in Nat \ {0} /\ u \in Nat /\ 1 \in 1 .. N /\ Len(Q2) = N - 1
  BY SizePositive
<1>1. ASSUME NEW k \in 1 .. N
      PROVE  /\ Begins(Q, p, k) \in 0 .. u - 1 /\ Long(Q, m, s, p, k) \in Nat \ {0}
             /\ Begins(Q, p, k) + Long(Q, m, s, p, k) <= u
             /\ Q[k].n = Start(Q, m, p, k).n /\ Q[k].at \in 0 .. Size - 1
             /\ k = N => Begins(Q, p, k) + Long(Q, m, s, p, k) = u
             /\ k < N => Begins(Q, p, k) + Long(Q, m, s, p, k) = Begins(Q, p, k + 1)
             /\ \A l \in k + 1 .. N : Begins(Q, p, k) + Long(Q, m, s, p, k) <= Begins(Q, p, l)
  <2>1. /\ Q[k] \in Entries /\ Begins(Q, p, k) \in 0 .. u - 1
        /\ Long(Q, m, s, p, k) \in Nat \ {0}
        /\ Begins(Q, p, k) + Long(Q, m, s, p, k) <= u
    BY ChainTypes
  <2>2. Q[k].at \in 0 .. Size - 1
    BY <2>1 DEF Entries
  <2> QED BY <2>1, <2>2 DEF Chained
<1>2. Begins(Q, p, 1) = 0
  <2>1. Q[1].at = p
    BY DEF Chained
  <2>2. Q[1].at \in 0 .. Size - 1
    BY <2>1
  <2>3. (Q[1].at - p) % Size = 0
    BY <2>1, <2>2, Distance, SizeNat
  <2> QED BY <2>3 DEF Begins
<1>3. /\ h \in Nat \ {0} /\ h <= u
      /\ \A l \in 2 .. N : h <= Begins(Q, p, l)
      /\ N = 1 => h = u
      /\ 1 < N => h = Begins(Q, p, 2)
  <2>1. h \in Nat \ {0} /\ 0 + h = h /\ 1 + 1 = 2
    BY <1>0, <1>1
  <2> QED BY <1>0, <1>1, <1>2, <2>1
<1> HIDE DEF N, o
<1>4. ASSUME NEW k \in 1 .. N - 1
      PROVE  /\ Begins(Q2, o, k) = Begins(Q, p, k + 1) - h
             /\ Start(Q2, m, o, k) = Start(Q, m, p, k + 1)
             /\ Long(Q2, m, s, o, k) = Long(Q, m, s, p, k + 1)
             /\ Q2[k] = Q[k + 1] /\ k + 1 \in 1 .. N /\ k + 1 \in 2 .. N
  <2>1. k + 1 \in 1 .. N /\ k + 1 \in 2 .. N
    BY <1>0
  <2> DEFINE b == Begins(Q, p, k + 1)
  <2>2. b \in 0 .. u - 1 /\ h <= b /\ Q[k + 1].at \in 0 .. Size - 1
    BY <1>1, <1>3, <2>1
  <2>3. Q2[k] = Q[k + 1]
    BY <1>0
  <2>4. Begins(Q2, o, k) = b - h /\ Start(Q2, m, o, k) = Start(Q, m, p, k + 1)
    <3> DEFINE l == k + 1
               v == Q[l].at
    <3>1. h \in Nat /\ h <= Begins(Q, p, l) /\ Q2[k] = Q[l] /\ v \in 0 .. Size - 1
      BY <1>3, <2>2, <2>3
    <3>2. o = (p + h) % Size /\ p \in 0 .. Size - 1
      BY DEF o
    <3>3. Begins(Q, p, l) = (v - p) % Size /\ Begins(Q2, o, k) = (v - o) % Size
      BY <2>3 DEF Begins
    <3> HIDE DEF l
    <3>4. Start(Q2, m, o, k) = Start(Q, m, p, l)
      BY <3>1, <3>2, StartTail
    <3> HIDE DEF v
    <3>5. (v - ((p + h) % Size)) % Size = ((v - p) % Size) - h
      <4>1. h \in Nat /\ h <= (v - p) % Size /\ v \in 0 .. Size - 1 /\ p \in 0 .. Size - 1
        BY <3>1, <3>2, <3>3
      <4> QED BY <4>1, Nearer, SizeNat
    <3> QED BY <3>2, <3>3, <3>4, <3>5 DEF l
  <2>5. Long(Q2, m, s, o, k) = Long(Q, m, s, p, k + 1)
    BY <2>4 DEF Long
  <2> QED BY <2>1, <2>3, <2>4, <2>5
<1>5. Q2 = <<>> <=> u - h = 0
  <2>1. Q2 = <<>> <=> N - 1 = 0
    BY <1>0
  <2>2. CASE N = 1
    BY <1>0, <1>3, <2>1, <2>2
  <2>3. CASE N # 1
    <3>1. 1 < N /\ 2 \in 1 .. N
      BY <1>0, <2>3
    <3>2. h < u
      BY <1>0, <1>1, <1>3, <3>1
    <3> QED BY <1>0, <1>3, <2>1, <2>3, <3>2
  <2> QED BY <2>2, <2>3
<1>6. Q2 # <<>> => Q2[1].at = o
  <2> SUFFICES ASSUME Q2 # <<>> PROVE Q2[1].at = o
    OBVIOUS
  <2>1. 1 \in 1 .. N - 1 /\ 1 < N /\ 2 \in 1 .. N /\ 1 + 1 = 2
    BY <1>0
  <2>2. Q2[1] = Q[2] /\ h = Begins(Q, p, 2) /\ Q[2].at \in 0 .. Size - 1
    BY <1>1, <1>3, <1>4, <2>1
  <2>3. (p + ((Q[2].at - p) % Size)) % Size = Q[2].at
    BY <2>2, Distance, SizeNat
  <2> QED BY <2>2, <2>3 DEF o, Begins
<1>7. ASSUME NEW k \in 1 .. N - 1
      PROVE  /\ Begins(Q2, o, k) < u - h /\ Q2[k].n = Start(Q2, m, o, k).n
             /\ k = N - 1 => Begins(Q2, o, k) + Long(Q2, m, s, o, k) = u - h
             /\ k < N - 1 => Begins(Q2, o, k) + Long(Q2, m, s, o, k) = Begins(Q2, o, k + 1)
             /\ \A l \in k + 1 .. N - 1 : Begins(Q2, o, k) + Long(Q2, m, s, o, k) <= Begins(Q2, o, l)
  <2> DEFINE b == Begins(Q, p, k + 1)
             c == Long(Q, m, s, p, k + 1)
  <2>1. /\ Begins(Q2, o, k) = b - h /\ Start(Q2, m, o, k) = Start(Q, m, p, k + 1)
        /\ Long(Q2, m, s, o, k) = c /\ Q2[k] = Q[k + 1] /\ k + 1 \in 1 .. N
    BY <1>4
  <2>2. /\ b \in 0 .. u - 1 /\ c \in Nat \ {0}
        /\ Q[k + 1].n = Start(Q, m, p, k + 1).n
        /\ k + 1 = N => b + c = u
        /\ k + 1 < N => b + c = Begins(Q, p, k + 1 + 1)
        /\ \A l \in k + 1 + 1 .. N : b + c <= Begins(Q, p, l)
    BY <1>1, <2>1
  <2> HIDE DEF b, c
  <2>3. b - h < u - h /\ (b - h) + c = (b + c) - h /\ k \in Nat
    BY <1>0, <1>3, <2>2
  <2>4. k = N - 1 => (b - h) + c = u - h
    <3>1. k = N - 1 => k + 1 = N
      BY <1>0
    <3> QED BY <2>2, <2>3, <3>1
  <2>5. k < N - 1 => (b - h) + c = Begins(Q2, o, k + 1)
    <3> SUFFICES ASSUME k < N - 1 PROVE (b - h) + c = Begins(Q2, o, k + 1)
      OBVIOUS
    <3>1. k + 1 \in 1 .. N - 1 /\ k + 1 < N
      BY <1>0, <2>3
    <3>2. Begins(Q2, o, k + 1) = Begins(Q, p, k + 1 + 1) - h
      BY <1>4, <3>1
    <3> QED BY <2>2, <2>3, <3>1, <3>2
  <2>6. ASSUME NEW l \in k + 1 .. N - 1 PROVE (b - h) + c <= Begins(Q2, o, l)
    <3>0. l \in Int /\ k + 1 <= l /\ l <= N - 1
      BY <1>0, <2>3
    <3>1. l \in 1 .. N - 1 /\ l + 1 \in k + 1 + 1 .. N /\ l + 1 \in 1 .. N
      BY <1>0, <2>3, <3>0
    <3> DEFINE g == Begins(Q, p, l + 1)
    <3>2. Begins(Q2, o, l) = g - h
      BY <1>4, <3>1
    <3>3. b + c <= g /\ g \in 0 .. u - 1
      BY <1>1, <2>2, <3>1
    <3> HIDE DEF g
    <3> QED BY <1>0, <1>3, <2>2, <3>2, <3>3
  <2> QED BY <2>1, <2>2, <2>3, <2>4, <2>5, <2>6
<1>8. Chained(Q2, m, s, o, u - h)
  BY <1>0, <1>5, <1>6, <1>7 DEF Chained
<1> QED BY <1>8 DEF o

LEMMA FirstIsStart ==
  ASSUME NEW Q, NEW m, NEW s, NEW p \in 0 .. Size - 1, NEW u, Chained(Q, m, s, p, u), Q # <<>>
  PROVE  Begins(Q, p, 1) = 0 /\ Start(Q, m, p, 1) = Slot(m, p, 0)
<1>1. Q[1].at = p
  BY DEF Chained
<1>2. Q[1].at \in 0 .. Size - 1
  BY <1>1
<1>3. (Q[1].at - p) % Size = 0
  BY <1>1, <1>2, Distance, SizeNat
<1> QED BY <1>3 DEF Begins, Start

(* A chain does not depend on what is beyond its words.                    *)
LEMMA ChainKept ==
  ASSUME NEW s \in Seq(Frames), NEW s2, NEW m, NEW m2, NEW p \in 0 .. Size - 1,
         NEW u \in 0 .. Size - 1, Unread(m, s, p, u),
         NEW Q \in Seq(Entries), Chained(Q, m, s, p, u),
         \A d \in 0 .. u - 1 : Slot(m2, p, d) = Slot(m, p, d),
         \A n \in DOMAIN s : s2[n] = s[n]
  PROVE  /\ Chained(Q, m2, s2, p, u)
         /\ \A k \in 1 .. Len(Q) : /\ Start(Q, m2, p, k) = Start(Q, m, p, k)
                                   /\ s2[Start(Q, m, p, k).n] = s[Start(Q, m, p, k).n]
<1>1. ASSUME NEW k \in 1 .. Len(Q)
      PROVE  /\ Start(Q, m2, p, k) = Start(Q, m, p, k)
             /\ s2[Start(Q, m, p, k).n] = s[Start(Q, m, p, k).n]
             /\ Long(Q, m2, s2, p, k) = Long(Q, m, s, p, k)
  <2>1. Begins(Q, p, k) \in 0 .. u - 1 /\ Start(Q, m, p, k).n \in DOMAIN s
    BY ChainTypes
  <2>2. Start(Q, m2, p, k) = Start(Q, m, p, k)
    BY <2>1 DEF Start
  <2>3. s2[Start(Q, m, p, k).n] = s[Start(Q, m, p, k).n]
    BY <2>1
  <2> QED BY <2>2, <2>3 DEF Long
<1>2. ASSUME NEW k \in 1 .. Len(Q)
      PROVE  /\ Begins(Q, p, k) < u /\ Q[k].n = Start(Q, m2, p, k).n
             /\ k = Len(Q) => Begins(Q, p, k) + Long(Q, m2, s2, p, k) = u
             /\ k < Len(Q) => Begins(Q, p, k) + Long(Q, m2, s2, p, k) = Begins(Q, p, k + 1)
             /\ \A l \in k + 1 .. Len(Q) : Begins(Q, p, k) + Long(Q, m2, s2, p, k) <= Begins(Q, p, l)
  <2>1. Long(Q, m2, s2, p, k) = Long(Q, m, s, p, k) /\ Start(Q, m2, p, k) = Start(Q, m, p, k)
    BY <1>1
  <2> QED BY <2>1 DEF Chained
<1>3. Chained(Q, m2, s2, p, u)
  BY <1>2 DEF Chained
<1> QED BY <1>1, <1>3

\* The queue with what an edge adds to it.
Longer == queue \o Stored

(* The writer's part of an edge: a frame that is closed is added behind    *)
(* the others with all that is due of it.                                  *)
LEMMA QueueGrows ==
  ASSUME Contents, TypeOK', QueueInv, sound, Writes \/ Loses \/ Closes \/ Keeps
  PROVE  /\ Stored \in Seq(Entries) /\ Len(Stored) \in {0, 1} /\ Longer \in Seq(Entries)
         /\ Chained(Longer, mem', sent', r.ptr, Ahead)
         /\ \A k \in 1 .. Len(queue) : /\ Start(Longer, mem', r.ptr, k) = Start(queue, mem, r.ptr, k)
                                       /\ Longer[k] = queue[k]
         /\ \A k \in 1 .. Len(Longer) :
              LET x == Start(Longer, mem', r.ptr, k)
                  f == sent'[x.n]
              IN Longer[k].due = LastWords(x, f, IF k = 1 /\ queue # <<>> THEN LeftNow
                                                 ELSE Total(x, f))
<1> DEFINE p == r.ptr
           N == Len(queue)
           left == LeftNow
<1>1. /\ TypeOK /\ Begun /\ CellInv /\ Unread(mem, sent, p, Used)
      /\ queue \in Seq(Entries) /\ Chained(queue, mem, sent, p, Used)
      /\ Dues(queue, mem, sent, p, left)
  BY DEF Contents, IInv, CellInv, QueueInv
<1>2. /\ p \in 0 .. Size - 1 /\ w.ptr \in 0 .. Size - 1 /\ w.off \in Nat /\ w.cut \in Nat
      /\ sent \in Seq(Frames) /\ sent' \in Seq(Frames) /\ w'.ptr \in 0 .. Size - 1
  BY <1>1, SizePositive DEF TypeOK
<1>3. Used \in 0 .. Size - 1
  BY <1>1, UsedAndRoom
<1>4. /\ Ahead \in Used .. Size - 1
      /\ \A d \in 0 .. Used - 1 : Slot(mem', p, d) = Slot(mem, p, d)
      /\ \A n \in DOMAIN sent : n \in DOMAIN sent' /\ sent'[n] = sent[n]
      /\ Unread(mem', sent', p, Ahead)
  BY <1>1, WriterCells
<1>5. /\ Chained(queue, mem', sent', p, Used)
      /\ \A k \in 1 .. N : /\ Start(queue, mem', p, k) = Start(queue, mem, p, k)
                           /\ sent'[Start(queue, mem, p, k).n] = sent[Start(queue, mem, p, k).n]
  <2>1. \A n \in DOMAIN sent : sent'[n] = sent[n]
    BY <1>4
  <2>2. \A d \in 0 .. Used - 1 : Slot(mem', p, d) = Slot(mem, p, d)
    BY <1>4
  <2>3. Unread(mem, sent, p, Used) /\ queue \in Seq(Entries) /\ Chained(queue, mem, sent, p, Used)
    BY <1>1
  <2>4. p \in 0 .. Size - 1 /\ sent \in Seq(Frames)
    BY <1>2
  <2> DEFINE u == Used
             s2 == sent'
             m2 == mem'
  <2>5. u \in 0 .. Size - 1
    BY <1>3
  <2>6. \A n \in DOMAIN sent : s2[n] = sent[n]
    BY <2>1
  <2>7. \A d \in 0 .. u - 1 : Slot(m2, p, d) = Slot(mem, p, d)
    BY <2>2
  <2>8. Unread(mem, sent, p, u) /\ queue \in Seq(Entries) /\ Chained(queue, mem, sent, p, u)
    BY <2>3
  <2> HIDE DEF p, u, s2, m2
  <2>9. Chained(queue, m2, s2, p, u)
    BY <2>4, <2>5, <2>6, <2>7, <2>8, ChainKept
  <2>10. ASSUME NEW k \in 1 .. Len(queue)
         PROVE  /\ Start(queue, m2, p, k) = Start(queue, mem, p, k)
                /\ s2[Start(queue, mem, p, k).n] = sent[Start(queue, mem, p, k).n]
    <3>1. Begins(queue, p, k) \in 0 .. u - 1 /\ Start(queue, mem, p, k).n \in DOMAIN sent
      BY <2>4, <2>5, <2>8, ChainTypes
    <3>2. Start(queue, m2, p, k) = Start(queue, mem, p, k)
      BY <2>7, <3>1 DEF Start
    <3> QED BY <2>6, <3>1, <3>2
  <2> QED BY <2>9, <2>10 DEF u, s2, m2
<1>6. \A k \in 1 .. N :
        LET x == Start(queue, mem', p, k)
            f == sent'[x.n]
        IN queue[k].due = LastWords(x, f, IF k = 1 THEN left ELSE Total(x, f))
  <2> TAKE k \in 1 .. N
  <2> DEFINE x == Start(queue, mem, p, k)
  <2>1. queue[k].due = LastWords(x, sent[x.n], IF k = 1 THEN left ELSE Total(x, sent[x.n]))
    BY <1>1 DEF Dues
  <2>2. Start(queue, mem', p, k) = x /\ sent'[x.n] = sent[x.n]
    BY <1>5
  <2> HIDE DEF x, left
  <2> QED BY <2>1, <2>2
<1> HIDE DEF left, p
<1>7. CASE Stored = <<>> /\ Ahead = Used
  <2>1. Longer = queue
    BY <1>1, <1>7, ConcatEmptySeq DEF Longer
  <2>2. Stored \in Seq(Entries) /\ Len(Stored) = 0
    BY <1>7
  <2>3. \A k \in 1 .. N : k = 1 => queue # <<>>
    BY <1>1
  <2>4. ASSUME NEW k \in 1 .. N
        PROVE  LET x == Start(queue, mem', p, k)
                   f == sent'[x.n]
               IN queue[k].due = LastWords(x, f, IF k = 1 /\ queue # <<>> THEN left ELSE Total(x, f))
    <3>1. CASE k = 1
      BY <1>6, <2>3, <3>1
    <3>2. CASE k # 1
      BY <1>6, <3>2
    <3> QED BY <3>1, <3>2
  <2> QED BY <1>1, <1>5, <1>7, <2>1, <2>2, <2>4 DEF p, left
<1>8. CASE Stored # <<>>
  <2>1. w.good /\ w.off > 0
    BY <1>8 DEF Stored
  <2>2. /\ sent # <<>> /\ w.cut + w.off = Current.len /\ mem' = mem
        /\ w'.ptr = (w.ptr + w.off) % Size
    BY <2>1 DEF Writes, Loses, Closes, Keeps
  <2>3. w.off <= MaxReserv /\ Used + w.off < Size
    BY <1>1, Fits DEF CellInv
  <2>4. Ahead = Used + w.off
    BY <1>2, <2>2, <2>3, AheadBy DEF p
  <2> DEFINE n == Len(sent)
             x == Slot(mem', p, Used)
             f == sent'[x.n]
             e == [n |-> n, at |-> w.ptr, due |-> DueOf(n, w.cut)]
  <2>5. n \in DOMAIN sent /\ n \in Nat /\ Current \in Frames /\ Current.len \in 1 .. MaxReserv
    <3>1. n \in DOMAIN sent /\ Current \in Frames /\ Current.len \in 1 .. MaxReserv
      BY <1>1, <2>2, CurrentFrame
    <3>2. Len(sent) \in Nat
      BY <1>2
    <3> QED BY <3>1, <3>2
  <2>6. (p + Used) % Size = w.ptr
    BY <1>2, Distance, SizeNat DEF Used, p
  <2>7. x = WordOf(sent, n, w.cut)
    <3>1. 0 \in 0 .. w.off - 1 /\ w.cut + 0 = w.cut
      BY <1>2, <2>1
    <3>2. Slot(mem, w.ptr, 0) = WordOf(sent, n, w.cut + 0)
      BY <1>1, <3>1 DEF CellInv, WriterWords
    <3>3. Used \in Nat /\ 0 \in Nat /\ Used + 0 < Size /\ Used + 0 = Used
      BY <1>3, SizePositive
    <3>4. Slot(mem, (p + Used) % Size, 0) = Slot(mem, p, Used + 0)
      BY <1>2, <3>3, SlotsShift
    <3> QED BY <2>2, <2>6, <3>1, <3>2, <3>3, <3>4
  <2>8. x.n = n /\ x.i = w.cut /\ f = Current /\ sent[x.n] = f
    BY <1>4, <2>5, <2>7 DEF WordOf, Current
  <2> HIDE DEF x, f, n
  <2>9. /\ f.len \in Nat /\ f.data \in Nat /\ x.i \in Nat /\ x.n \in Nat
        /\ f.len - x.i = w.off /\ x.i <= f.len
    <3>1. f.len \in 1 .. MaxReserv /\ f.data \in 0 .. MaxReserv
      BY <2>5, <2>8, FrameLengths
    <3>2. f.len = w.cut + w.off /\ x.i = w.cut /\ x.n \in Nat
      BY <2>2, <2>5, <2>8
    <3>3. f.data \in Nat /\ f.len \in Nat
      BY <3>1, SizePositive
    <3> QED BY <1>2, <3>2, <3>3
  <2>10. DueOf(n, w.cut) = LastWords(x, f, Total(x, f)) /\ Total(x, f) \in Nat
    BY <2>8, <2>9, DueOfIs
  <2>11. e \in Entries
    <3>1. LastWords(x, f, Total(x, f)) \in Seq(DueWords)
      BY <2>9, <2>10, LastWordsSeq
    <3> QED BY <1>2, <2>5, <2>10, <3>1 DEF Entries
  <2>12. Stored = <<e>> /\ Stored \in Seq(Entries) /\ Len(Stored) = 1
    <3>1. Stored = <<e>>
      BY <2>1 DEF Stored, n
    <3> HIDE DEF e
    <3> QED BY <2>11, <3>1
  <2>13. /\ Longer \in Seq(Entries) /\ Len(Longer) = N + 1 /\ Longer # <<>>
         /\ \A k \in 1 .. N : Longer[k] = queue[k]
         /\ Longer[N + 1] = e
    <3> HIDE DEF e
    <3>1. /\ Longer \in Seq(Entries) /\ Len(Longer) = N + 1
          /\ \A i \in 1 .. N + 1 : Longer[i] = IF i <= N THEN queue[i] ELSE <<e>>[i - N]
      BY <1>1, <2>12, ConcatProperties DEF Longer
    <3>2. N \in Nat
      BY <1>1
    <3>3. Longer # <<>>
      BY <3>1, <3>2
    <3>4. \A k \in 1 .. N : k \in 1 .. N + 1 /\ k <= N
      BY <3>2
    <3>5. N + 1 \in 1 .. N + 1 /\ ~(N + 1 <= N) /\ (N + 1) - N = 1
      BY <3>2
    <3> QED BY <3>1, <3>3, <3>4, <3>5
  <2>14. e.n = n /\ e.at = w.ptr /\ e.due = LastWords(x, f, Total(x, f))
    BY <2>10
  <2> HIDE DEF e, N
  <2>15. /\ Chained(Longer, mem', sent', p, Ahead)
         /\ \A k \in 1 .. N : Start(Longer, mem', p, k) = Start(queue, mem', p, k)
         /\ Start(Longer, mem', p, N + 1) = x
    <3>1. Unread(mem', sent', p, Used)
      <4> SUFFICES ASSUME NEW d \in 0 .. Used - 1
                   PROVE  Followed(mem', sent', p, Used, d)
        BY DEF Unread
      <4>1. Followed(mem, sent, p, Used, d)
        BY <1>1 DEF Unread
      <4>2. Used \in Nat
        BY <1>3, SizePositive
      <4> QED BY <1>4, <4>1, <4>2, FollowedKept
    <3> DEFINE u == Used
               s2 == sent'
               m2 == mem'
               h == w.off
    <3>2. /\ s2 \in Seq(Frames) /\ p \in 0 .. Size - 1 /\ u \in 0 .. Size - 1
          /\ h \in Nat \ {0} /\ Unread(m2, s2, p, u) /\ Chained(queue, m2, s2, p, u)
          /\ x = Slot(m2, p, u) /\ queue \in Seq(Entries)
      BY <1>1, <1>2, <1>3, <1>5, <2>1, <3>1 DEF x
    <3>3. e.at = (p + u) % Size /\ e.n = x.n /\ s2[e.n].len - x.i = h
      BY <2>6, <2>8, <2>9, <2>14 DEF f
    <3>4. Len(Longer) = Len(queue) + 1 /\ (\A k \in 1 .. Len(queue) : Longer[k] = queue[k])
          /\ Longer[Len(queue) + 1] = e /\ Longer # <<>>
      BY <2>13 DEF N
    <3>5. Ahead = u + h
      BY <2>4
    <3> HIDE DEF u, s2, m2, h, p
    <3>6. Chained(Longer, m2, s2, p, u + h)
      BY <2>11, <3>2, <3>3, <3>4, ChainGrows
    <3>7. ASSUME NEW k \in 1 .. Len(queue)
          PROVE  Start(Longer, m2, p, k) = Start(queue, m2, p, k)
      BY <3>4 DEF Start, Begins
    <3>8. Start(Longer, m2, p, Len(queue) + 1) = x
      <4>1. Begins(Longer, p, Len(queue) + 1) = (((p + u) % Size) - p) % Size
        BY <3>3, <3>4 DEF Begins
      <4>2. (p - p) % Size = 0 /\ u \in Nat
        BY <3>2, Distance, SizePositive
      <4>3. ((p - p) % Size) + u < Size /\ ((p - p) % Size) + u = u
        BY <3>2, <4>2, SizePositive
      <4>4. (((p + u) % Size) - p) % Size = ((p - p) % Size) + u
        BY <3>2, <4>2, <4>3, Further, SizeNat
      <4> QED BY <3>2, <4>1, <4>3, <4>4 DEF Start
    <3> QED BY <3>5, <3>6, <3>7, <3>8 DEF u, s2, m2, h, N
  <2>16. ASSUME NEW k \in 1 .. Len(Longer)
         PROVE  LET y == Start(Longer, mem', p, k)
                    g == sent'[y.n]
                IN Longer[k].due = LastWords(y, g, IF k = 1 /\ queue # <<>> THEN left ELSE Total(y, g))
    <3>1. N \in Nat /\ (queue = <<>> <=> N = 0)
      BY <1>1 DEF N
    <3>2. CASE k \in 1 .. N
      <4> DEFINE y == Start(queue, mem', p, k)
                 g == sent'[y.n]
      <4>1. queue[k].due = LastWords(y, g, IF k = 1 THEN left ELSE Total(y, g))
        BY <1>6, <3>2
      <4>2. Start(Longer, mem', p, k) = y /\ Longer[k] = queue[k]
        BY <2>13, <2>15, <3>2
      <4>3. queue # <<>>
        BY <3>1, <3>2
      <4> HIDE DEF y
      <4> QED BY <4>1, <4>2, <4>3
    <3>3. CASE k = N + 1
      <4>1. Longer[k] = e /\ Start(Longer, mem', p, k) = x
        BY <2>13, <2>15, <3>3
      <4>2. ~(k = 1 /\ queue # <<>>)
        BY <3>1, <3>3
      <4> QED BY <2>14, <4>1, <4>2 DEF f
    <3>4. k \in 1 .. N \/ k = N + 1
      BY <2>13, <3>1
    <3> QED BY <3>2, <3>3, <3>4
  <2>17. \A k \in 1 .. N : /\ Start(Longer, mem', p, k) = Start(queue, mem, p, k)
                           /\ Longer[k] = queue[k]
    BY <1>5, <2>13, <2>15
  <2> QED BY <2>12, <2>13, <2>15, <2>16, <2>17 DEF p, left, N
<1>9. Stored = <<>> => Ahead = Used
  <2>1. SUFFICES ASSUME ~(w.good /\ w.off > 0)
                 PROVE  Ahead = Used
    BY DEF Stored
  <2>2. CASE Writes \/ Loses \/ Keeps
    BY <2>2 DEF Writes, Loses, Keeps, Ahead, Used
  <2>3. CASE Closes
    <3>1. w.off = 0 /\ w'.ptr = (w.ptr + w.off) % Size
      BY <1>2, <2>1, <2>3 DEF Closes
    <3>2. w'.ptr = w.ptr
      BY <1>2, <3>1, Distance, SizePositive
    <3> QED BY <3>2 DEF Ahead, Used
  <2> QED BY <2>2, <2>3
<1> QED BY <1>7, <1>8, <1>9

(* The queue after an edge is what is kept of it and what was stored.      *)
LEMMA GrownBy ==
  ASSUME NEW a \in Seq(Entries), Stored \in Seq(Entries), Len(Stored) \in {0, 1},
         queue' = a \o Stored
  PROVE  /\ Streams!Grown(a) /\ queue' \in Seq(Entries)
         /\ Len(queue') = Len(a) + Len(Stored)
         /\ \A i \in 1 .. Len(a) + Len(Stored) :
              queue'[i] = IF i <= Len(a) THEN a[i] ELSE Stored[i - Len(a)]
<1>1. /\ queue' \in Seq(Entries) /\ Len(queue') = Len(a) + Len(Stored)
      /\ \A i \in 1 .. Len(a) + Len(Stored) :
           queue'[i] = IF i <= Len(a) THEN a[i] ELSE Stored[i - Len(a)]
  BY ConcatProperties
<1>2. Len(a) \in Nat
  OBVIOUS
<1>3. SubSeq(queue', 1, Len(a)) = a
  <2>1. CASE a = <<>>
    BY <1>1, <2>1
  <2>2. CASE a # <<>>
    <3>1. 1 \in 1 .. Len(a) /\ Len(a) \in 1 .. Len(a)
      BY <1>2, <2>2
    <3>2. SubSeq(a \o Stored, 1, Len(a)) = SubSeq(a, 1, Len(a))
      BY <3>1, SubSeqOfConcat1
    <3> QED BY <3>2, SubSeqFull
  <2> QED BY <2>1, <2>2
<1>4. Len(queue') \in {Len(a), Len(a) + 1}
  BY <1>1, <1>2
<1> QED BY <1>1, <1>3, <1>4 DEF Streams!Grown

(* What the three kinds of edge have in common.                            *)
LEMMA EdgeGrows ==
  ASSUME Contents, TypeOK', QueueInv, sound, NEW full \in BOOLEAN, Edge(full)
  PROVE  /\ queue \in Seq(Entries) /\ Stored \in Seq(Entries) /\ Len(Stored) \in {0, 1}
         /\ Longer \in Seq(Entries) /\ Chained(Longer, mem', sent', r.ptr, Ahead)
         /\ (queue = <<>> <=> BufEmpty)
         /\ Unread(mem', sent', r.ptr, Ahead) /\ Ahead \in 0 .. Size - 1
         /\ r.ptr \in 0 .. Size - 1 /\ sent' \in Seq(Frames)
         /\ queue' = Rest \o Stored /\ word' = Written
<1>1. TypeOK /\ Begun /\ CellInv
  BY DEF Contents, IInv
<1>2. /\ Writes \/ Loses \/ Closes \/ Keeps
      /\ History(full)
  BY EdgeCases
<1>3. /\ Stored \in Seq(Entries) /\ Len(Stored) \in {0, 1} /\ Longer \in Seq(Entries)
      /\ Chained(Longer, mem', sent', r.ptr, Ahead)
  BY <1>2, QueueGrows
<1>4. Ahead \in Used .. Size - 1 /\ Unread(mem', sent', r.ptr, Ahead)
  BY <1>1, <1>2, WriterCells
<1>5. Used \in 0 .. Size - 1 /\ (BufEmpty <=> Used = 0)
  BY <1>1, UsedAndRoom
<1>6. queue \in Seq(Entries) /\ (queue = <<>> <=> BufEmpty)
  BY <1>5 DEF QueueInv, Chained
<1>7. r.ptr \in 0 .. Size - 1 /\ sent' \in Seq(Frames)
  BY <1>1 DEF TypeOK
<1>8. Ahead \in 0 .. Size - 1
  BY <1>4, <1>5, SizePositive
<1> QED BY <1>2, <1>3, <1>4, <1>6, <1>7, <1>8 DEF History

(* What is due of the queue with the frame stored.                         *)
LEMMA DueLonger ==
  ASSUME Contents, TypeOK', QueueInv, sound, NEW full \in BOOLEAN, Edge(full),
         NEW k \in 1 .. Len(Longer), NEW x, x = Start(Longer, mem', r.ptr, k)
  PROVE  Longer[k].due = LastWords(x, sent'[x.n], IF k = 1 /\ queue # <<>> THEN LeftNow
                                                  ELSE Total(x, sent'[x.n]))
<1>1. Writes \/ Loses \/ Closes \/ Keeps
  BY EdgeCases
<1>2. \A i \in 1 .. Len(Longer) :
        LET y == Start(Longer, mem', r.ptr, i)
            f == sent'[y.n]
        IN Longer[i].due = LastWords(y, f, IF i = 1 /\ queue # <<>> THEN LeftNow ELSE Total(y, f))
  BY <1>1, QueueGrows
<1> QED BY <1>2

LEMMA FirstLonger ==
  ASSUME Contents, TypeOK', QueueInv, sound, NEW full \in BOOLEAN, Edge(full),
         NEW x, NEW f, InFrame(x, f)
  PROVE  /\ Start(Longer, mem', r.ptr, 1) = x /\ sent'[x.n] = f
         /\ Longer # <<>> /\ Longer[1] = queue[1] /\ queue[1].due = LastWords(x, f, LeftNow)
         /\ LeftNow = Left(x, f)
<1>1. queue # <<>> /\ queue \in Seq(Entries) /\ Stored \in Seq(Entries)
  BY EdgeGrows DEF InFrame
<1>2. 1 \in 1 .. Len(queue) /\ 1 \in 1 .. Len(queue) + Len(Stored) /\ 1 <= Len(queue)
  BY <1>1
<1>3. Longer[1] = queue[1] /\ Len(Longer) = Len(queue) + Len(Stored)
  BY <1>1, <1>2, ConcatProperties DEF Longer
<1>4. Longer # <<>> /\ 1 \in 1 .. Len(Longer)
  BY <1>1, <1>2, <1>3
<1>5. Start(Longer, mem', r.ptr, 1) = Slot(mem', r.ptr, 0)
  BY <1>4, EdgeGrows, FirstIsStart
<1>6. Slot(mem', r.ptr, 0) = x /\ sent'[x.n] = f
  BY SameFrame
<1>7. queue[1].due = LastWords(x, f, LeftNow)
  BY <1>1, <1>3, <1>4, <1>5, <1>6, DueLonger
<1> QED BY <1>3, <1>4, <1>5, <1>6, <1>7 DEF LeftNow, InFrame

(* What is left of the frame after an edge that stays in it.               *)
LEMMA StaysLeft ==
  ASSUME Contents, TypeOK', NEW full \in BOOLEAN, Edge(full),
         NEW x, NEW f, InFrame(x, f), Stays(x, f)
  PROVE  LeftNow' = IF r.wrReq THEN LeftNow - 1 ELSE LeftNow
<1>1. r'.ptr = r.ptr /\ r'.at # "Idle" /\ ReaderAt(x, f)' /\ ~Leaving
  BY DEF Stays
<1>2. TypeOK /\ Buf2Data(full)
  BY EdgeCases DEF Contents, IInv
<1>3. Left(x, f)' = Left(x, f) - (IF r.wrReq THEN 1 ELSE 0)
  BY <1>1, <1>2, LeftStep DEF InFrame
<1>4. First' = x /\ sent'[First'.n] = f
  BY <1>1, SameFrame DEF First
<1>5. Left(x, f) \in Int
  <2>1. f.len \in Nat /\ f.data \in Nat /\ x.i \in Nat /\ r.off \in Nat /\ r.left \in Nat
    BY <1>2, FrontTypes DEF InFrame
  <2> QED BY <2>1 DEF Left, Total
<1>6. Left(x, f)' = IF r.wrReq THEN Left(x, f) - 1 ELSE Left(x, f)
  BY <1>3, <1>5
<1> QED BY <1>4, <1>6 DEF LeftNow, InFrame

LEMMA FrontNumber ==
  ASSUME TypeOK, NEW x, NEW f, Front(x, f)
  PROVE  x.n \in Nat
<1>1. DOMAIN sent = 1 .. Len(sent) /\ Len(sent) \in Nat
  BY DEF TypeOK
<1>2. x.n \in DOMAIN sent
  BY DEF Front
<1> QED BY <1>1, <1>2

(* A word given is the first of those that are left.                       *)
LEMMA GivesWord ==
  ASSUME Contents, NEW x, NEW f, InFrame(x, f), r.wrReq
  PROVE  /\ LeftNow \in Nat \ {0} /\ LastWords(x, f, LeftNow) # <<>>
         /\ Written = Head(LastWords(x, f, LeftNow))
         /\ Tail(LastWords(x, f, LeftNow)) = LastWords(x, f, LeftNow - 1)
         /\ LastWords(x, f, LeftNow - 1) \in Seq(DueWords)
         /\ Len(LastWords(x, f, LeftNow)) = LeftNow
<1>1. TypeOK /\ Front(x, f) /\ ReaderAt(x, f) /\ r.at # "Idle" /\ LeftNow = Left(x, f)
  BY DEF Contents, IInv, InFrame, LeftNow
<1>2. LeftNow \in Nat \ {0} /\ Written = LastWords(x, f, LeftNow)[1]
  BY <1>1, WrittenWord
<1>3. x.n \in Nat /\ x.i \in Nat /\ f.len \in Nat /\ f.data \in Nat
  <2>1. x.n \in Nat
    BY <1>1, FrontNumber
  <2> QED BY <1>1, <2>1, FrontTypes
<1>4. LeftNow - 1 \in Nat
  BY <1>2
<1> QED BY <1>2, <1>3, <1>4, LastWordsSeq

(* The buffer is empty and the reader waits.                               *)
LEMMA WaitedQueue ==
  ASSUME Contents, TypeOK', QueueInv, sound, NEW full \in BOOLEAN, Edge(full), Waited
  PROVE  QueueInv' /\ Streams!Idle
<1>1. queue = <<>> /\ Stored \in Seq(Entries) /\ Len(Stored) \in {0, 1} /\ Longer \in Seq(Entries)
  BY EdgeGrows DEF Waited
<1>2. r'.ptr = r.ptr /\ r'.at = "Idle" /\ ~r.wrReq /\ ~Leaving
  BY DEF Waited, Restarted, Leaving
<1>3. Used' = Ahead
  BY <1>2, ReaderStands
<1>4. queue' = queue \o Stored /\ word' = NoWord
  BY <1>1, <1>2, EdgeGrows DEF Rest, Written
<1>5. queue' = Longer
  BY <1>4 DEF Longer
<1>6. Chained(queue', mem', sent', r'.ptr, Used')
  BY <1>2, <1>3, <1>5, EdgeGrows
<1>7. LeftNow' = Total(First, sent[First.n])'
  BY <1>2 DEF LeftNow, Left
<1>8. ASSUME NEW k \in 1 .. Len(queue'), NEW x, x = Start(queue', mem', r'.ptr, k)
      PROVE  queue'[k].due = LastWords(x, sent'[x.n], IF k = 1 THEN LeftNow' ELSE Total(x, sent'[x.n]))
  <2>1. queue'[k].due = LastWords(x, sent'[x.n], Total(x, sent'[x.n]))
    BY <1>1, <1>2, <1>5, <1>8, DueLonger
  <2>2. k = 1 => x = First'
    <3>1. queue' # <<>>
      BY <1>1, <1>5
    <3>2. r'.ptr \in 0 .. Size - 1
      BY DEF TypeOK
    <3> QED BY <1>6, <1>8, <3>1, <3>2, FirstIsStart DEF First
  <2>4. k = 1 => LeftNow' = Total(x, sent'[x.n])
    BY <1>7, <2>2 DEF Total, ForUdp
  <2> QED BY <2>1, <2>4
<1>9. Dues(queue', mem', sent', r'.ptr, LeftNow')
  BY <1>8 DEF Dues
<1>10. QueueInv'
  BY <1>1, <1>5, <1>6, <1>9 DEF QueueInv
<1>11. Streams!Grown(queue)
  BY <1>1, <1>4, EdgeGrows, GrownBy
<1> QED BY <1>4, <1>10, <1>11 DEF Streams!Idle, Streams!Wait

(* The reader stays in its frame and gives no word.                        *)
LEMMA SilentQueue ==
  ASSUME Contents, TypeOK', QueueInv, sound, NEW full \in BOOLEAN, Edge(full),
         NEW x, NEW f, InFrame(x, f), Stays(x, f), ~r.wrReq
  PROVE  QueueInv' /\ Streams!Idle
<1>1. /\ queue # <<>> /\ queue \in Seq(Entries) /\ Stored \in Seq(Entries) /\ Len(Stored) \in {0, 1}
      /\ Longer \in Seq(Entries)
  BY EdgeGrows DEF InFrame
<1>2. r'.ptr = r.ptr /\ r'.at # "Idle" /\ ReaderAt(x, f)' /\ ~Leaving
  BY DEF Stays
<1>3. Used' = Ahead
  BY <1>2, ReaderStands
<1>4. queue' = queue \o Stored /\ word' = NoWord
  BY <1>1, <1>2, EdgeGrows DEF Rest, Written
<1>5. queue' = Longer
  BY <1>4 DEF Longer
<1>6. Chained(queue', mem', sent', r'.ptr, Used')
  BY <1>2, <1>3, <1>5, EdgeGrows
<1>7. LeftNow' = LeftNow
  BY StaysLeft
<1>8. ASSUME NEW k \in 1 .. Len(queue'), NEW y, y = Start(queue', mem', r'.ptr, k)
      PROVE  queue'[k].due = LastWords(y, sent'[y.n], IF k = 1 THEN LeftNow' ELSE Total(y, sent'[y.n]))
  BY <1>1, <1>2, <1>5, <1>7, <1>8, DueLonger
<1>9. Dues(queue', mem', sent', r'.ptr, LeftNow')
  BY <1>8 DEF Dues
<1>10. QueueInv'
  BY <1>1, <1>5, <1>6, <1>9 DEF QueueInv
<1>11. Streams!Grown(queue)
  BY <1>1, <1>4, GrownBy
<1> QED BY <1>4, <1>10, <1>11 DEF Streams!Idle, Streams!Wait

(* The reader stays in its frame and gives the next word of it.            *)
LEMMA WordQueue ==
  ASSUME Contents, TypeOK', QueueInv, sound, NEW full \in BOOLEAN, Edge(full),
         NEW x, NEW f, InFrame(x, f), Stays(x, f), r.wrReq
  PROVE  QueueInv' /\ Streams!Word
<1>1. /\ queue # <<>> /\ queue \in Seq(Entries) /\ Stored \in Seq(Entries) /\ Len(Stored) \in {0, 1}
      /\ Longer \in Seq(Entries)
  BY EdgeGrows DEF InFrame
<1>2. r'.ptr = r.ptr /\ r'.at # "Idle" /\ ReaderAt(x, f)' /\ ~Leaving
  BY DEF Stays
<1>3. Used' = Ahead
  BY <1>2, ReaderStands
<1>4. /\ LeftNow \in Nat \ {0} /\ LastWords(x, f, LeftNow) # <<>>
      /\ Written = Head(LastWords(x, f, LeftNow))
      /\ Tail(LastWords(x, f, LeftNow)) = LastWords(x, f, LeftNow - 1)
      /\ LastWords(x, f, LeftNow - 1) \in Seq(DueWords)
  BY GivesWord
<1>5. /\ queue[1].due = LastWords(x, f, LeftNow) /\ Longer[1] = queue[1] /\ Longer # <<>>
      /\ Start(Longer, mem', r.ptr, 1) = x /\ sent'[x.n] = f
  BY FirstLonger
<1> DEFINE a == [queue EXCEPT ![1].due = Tail(@)]
           e == [queue[1] EXCEPT !.due = LastWords(x, f, LeftNow - 1)]
<1>6. 1 \in 1 .. Len(queue) /\ Len(queue) \in Nat /\ Head(queue) = queue[1] /\ queue[1] \in Entries
  BY <1>1, ElementOfSeq
<1>7. e \in Entries /\ e.at = queue[1].at /\ e.n = queue[1].n /\ e.due = LastWords(x, f, LeftNow - 1)
  BY <1>4, <1>6 DEF Entries
<1>8. a = [queue EXCEPT ![1] = e]
  BY <1>1, <1>4, <1>5, <1>6
<1>9. /\ a \in Seq(Entries) /\ Len(a) = Len(queue) /\ a[1] = e
      /\ \A k \in 1 .. Len(queue) : a[k] = IF k = 1 THEN e ELSE queue[k]
  <2> HIDE DEF a, e
  <2>1. /\ a \in Seq(Entries) /\ Len(a) = Len(queue)
        /\ \A k \in 1 .. Len(queue) : a[k] = IF k = 1 THEN e ELSE queue[k]
    BY <1>1, <1>6, <1>7, <1>8, ExceptSeq
  <2> QED BY <1>6, <2>1
<1>10. queue' = a \o Stored /\ word' = Head(Head(queue).due) /\ Head(queue).due # <<>>
  BY <1>1, <1>2, <1>4, <1>5, <1>6, EdgeGrows DEF Rest
<1> HIDE DEF a, e
<1>11. /\ Streams!Grown(a) /\ queue' \in Seq(Entries) /\ Len(queue') = Len(a) + Len(Stored)
       /\ \A i \in 1 .. Len(a) + Len(Stored) :
            queue'[i] = IF i <= Len(a) THEN a[i] ELSE Stored[i - Len(a)]
  BY <1>1, <1>9, <1>10, GrownBy
<1>12. /\ Len(Longer) = Len(queue) + Len(Stored)
       /\ \A i \in 1 .. Len(queue) + Len(Stored) :
            Longer[i] = IF i <= Len(queue) THEN queue[i] ELSE Stored[i - Len(queue)]
  BY <1>1, ConcatProperties DEF Longer
<1>13. Len(queue') = Len(Longer) /\ Len(Longer) \in Nat /\ 1 \in 1 .. Len(Longer) /\ queue'[1] = e
  BY <1>1, <1>6, <1>9, <1>11, <1>12
<1>14. ASSUME NEW k \in 1 .. Len(Longer), k # 1
       PROVE  queue'[k] = Longer[k]
  <2>1. k \in 1 .. Len(queue) + Len(Stored)
    BY <1>12
  <2>2. CASE k <= Len(queue)
    <3>1. k \in 1 .. Len(queue)
      BY <2>1, <2>2, <1>6
    <3> QED BY <1>9, <1>11, <1>12, <1>14, <2>1, <2>2, <3>1
  <2>3. CASE ~(k <= Len(queue))
    BY <1>9, <1>11, <1>12, <2>1, <2>3
  <2> QED BY <2>2, <2>3
<1>15. /\ \A k \in 1 .. Len(Longer) : queue'[k].at = Longer[k].at /\ queue'[k].n = Longer[k].n
       /\ queue' # <<>>
  <2>1. ASSUME NEW k \in 1 .. Len(Longer)
        PROVE  queue'[k].at = Longer[k].at /\ queue'[k].n = Longer[k].n
    <3>1. CASE k = 1
      BY <1>5, <1>7, <1>13, <3>1
    <3>2. CASE k # 1
      BY <1>14, <3>2
    <3> QED BY <3>1, <3>2
  <2>2. queue' # <<>>
    BY <1>11, <1>13
  <2> QED BY <2>1, <2>2
<1>16. /\ Chained(queue', mem', sent', r.ptr, Ahead)
       /\ \A k \in 1 .. Len(Longer) : Start(queue', mem', r.ptr, k) = Start(Longer, mem', r.ptr, k)
  <2> DEFINE Q2 == queue'
             s2 == sent'
             m2 == mem'
             u == Ahead
             p == r.ptr
  <2>1. Chained(Longer, m2, s2, p, u)
    BY EdgeGrows
  <2>2. /\ Len(Longer) \in Nat /\ Len(Q2) = Len(Longer) /\ (Longer = <<>> <=> Len(Longer) = 0)
        /\ (Q2 = <<>> <=> Len(Longer) = 0)
        /\ \A k \in 1 .. Len(Longer) : Q2[k].at = Longer[k].at /\ Q2[k].n = Longer[k].n
    BY <1>5, <1>13, <1>15
  <2> HIDE DEF Q2, s2, m2, u, p
  <2>3. Chained(Q2, m2, s2, p, u)
    BY <2>1, <2>2, ChainAlike
  <2>4. \A k \in 1 .. Len(Longer) : Start(Q2, m2, p, k) = Start(Longer, m2, p, k)
    BY <2>2 DEF Start, Begins
  <2> QED BY <2>3, <2>4 DEF Q2, s2, m2, u, p
<1>17. LeftNow' = LeftNow - 1
  BY StaysLeft
<1>18. ASSUME NEW k \in 1 .. Len(queue'), NEW y, y = Start(queue', mem', r'.ptr, k)
       PROVE  queue'[k].due = LastWords(y, sent'[y.n], IF k = 1 THEN LeftNow' ELSE Total(y, sent'[y.n]))
  <2>1. k \in 1 .. Len(Longer) /\ y = Start(Longer, mem', r.ptr, k)
    BY <1>2, <1>13, <1>16, <1>18
  <2>2. CASE k = 1
    BY <1>5, <1>7, <1>13, <1>17, <2>1, <2>2
  <2>3. CASE k # 1
    BY <1>14, <2>1, <2>3, DueLonger
  <2> QED BY <2>2, <2>3
<1>19. Dues(queue', mem', sent', r'.ptr, LeftNow')
  BY <1>18 DEF Dues
<1>20. QueueInv'
  BY <1>2, <1>3, <1>11, <1>16, <1>19 DEF QueueInv
<1> QED BY <1>1, <1>10, <1>11, <1>20 DEF Streams!Word, Streams!Deliver, Streams!Due, Streams!Shorter, a

(* The reader leaves its frame, with its last word or after it.            *)
LEMMA LeavesQueue ==
  ASSUME Contents, TypeOK', QueueInv, sound, NEW full \in BOOLEAN, Edge(full),
         NEW x, NEW f, InFrame(x, f), Leaves(x, f)
  PROVE  QueueInv' /\ (Streams!LastWord \/ Streams!Leave)
<1>1. /\ queue # <<>> /\ queue \in Seq(Entries) /\ Stored \in Seq(Entries) /\ Len(Stored) \in {0, 1}
      /\ Longer \in Seq(Entries) /\ r.ptr \in 0 .. Size - 1 /\ Ahead \in 0 .. Size - 1
  BY EdgeGrows DEF InFrame
<1>2. /\ Leaving /\ r' = Restarted((r.ptr + r.off) % Size)
      /\ r'.ptr = (r.ptr + r.off) % Size /\ r'.at = "Idle" /\ r.off \in 0 .. f.len - x.i
  BY DEF Leaves, Restarted
<1>3. /\ TypeOK /\ CellInv /\ Begun /\ Front(x, f) /\ ReaderAt(x, f) /\ r.at # "Idle"
      /\ f.len - x.i \in 1 .. Used
  BY <1>2 DEF Contents, IInv, InFrame, Leaving
<1>4. r.off = f.len - x.i /\ Left(x, f) = IF r.wrReq THEN 1 ELSE 0
  BY <1>2, <1>3, LeavesAtEnd
<1>5. Used' = Ahead - r.off /\ r.off \in Nat
  <2>1. Ahead \in Used .. Size - 1 /\ Used \in 0 .. Size - 1
    BY <1>3, EdgeCases, WriterCells, UsedAndRoom
  <2>2. r.off \in 0 .. Ahead /\ r.off \in Nat
    BY <1>3, <1>4, <2>1, SizePositive
  <2> QED BY <1>2, <2>2, ReaderMoves
<1>6. /\ queue[1].due = LastWords(x, f, LeftNow) /\ LeftNow = Left(x, f) /\ Longer # <<>>
      /\ Start(Longer, mem', r.ptr, 1) = x /\ sent'[x.n] = f
  BY FirstLonger
<1>7. queue' = Tail(queue) \o Stored /\ word' = Written /\ Head(queue) = queue[1]
  BY <1>1, <1>2, EdgeGrows DEF Rest
<1> DEFINE a == Tail(queue)
<1>8. /\ a \in Seq(Entries) /\ Len(a) = Len(queue) - 1 /\ Len(queue) \in Nat \ {0}
      /\ \A i \in 1 .. Len(a) : a[i] = queue[i + 1]
  BY <1>1, HeadTailProperties
<1> HIDE DEF a
<1>9. /\ Streams!Grown(a) /\ queue' \in Seq(Entries) /\ Len(queue') = Len(a) + Len(Stored)
      /\ \A i \in 1 .. Len(a) + Len(Stored) :
           queue'[i] = IF i <= Len(a) THEN a[i] ELSE Stored[i - Len(a)]
  BY <1>1, <1>7, <1>8, GrownBy DEF a
<1>10. /\ Len(Longer) = Len(queue) + Len(Stored)
       /\ \A i \in 1 .. Len(queue) + Len(Stored) :
            Longer[i] = IF i <= Len(queue) THEN queue[i] ELSE Stored[i - Len(queue)]
  BY <1>1, ConcatProperties DEF Longer
<1>11. ASSUME NEW k \in 1 .. Len(queue')
       PROVE  queue'[k] = Longer[k + 1] /\ k + 1 \in 1 .. Len(Longer) /\ k + 1 # 1
  <2>1. /\ k \in 1 .. Len(a) + Len(Stored) /\ k + 1 \in 1 .. Len(queue) + Len(Stored)
        /\ k <= Len(a) <=> k + 1 <= Len(queue)
        /\ k - Len(a) = k + 1 - Len(queue) /\ k + 1 # 1
    BY <1>1, <1>8, <1>9
  <2>2. CASE k <= Len(a)
    BY <1>8, <1>9, <1>10, <2>1, <2>2
  <2>3. CASE ~(k <= Len(a))
    BY <1>9, <1>10, <2>1, <2>3
  <2> QED BY <1>10, <2>1, <2>2, <2>3
<1>12. /\ Chained(queue', mem', sent', r'.ptr, Used')
       /\ \A k \in 1 .. Len(queue') : Start(queue', mem', r'.ptr, k) = Start(Longer, mem', r.ptr, k + 1)
  <2> DEFINE Q2 == queue'
             s2 == sent'
             m2 == mem'
             u == Ahead
             p == r.ptr
             h == r.off
             o == r'.ptr
  <2>1. /\ Chained(Longer, m2, s2, p, u) /\ Unread(m2, s2, p, u) /\ s2 \in Seq(Frames)
        /\ p \in 0 .. Size - 1 /\ u \in 0 .. Size - 1
    BY EdgeGrows
  <2>2. h = Long(Longer, m2, s2, p, 1)
    BY <1>4, <1>6 DEF Long
  <2>3. Q2 \in Seq(Entries) /\ Len(Q2) = Len(Longer) - 1
    BY <1>1, <1>8, <1>9, <1>10
  <2>4. \A k \in 1 .. Len(Q2) : Q2[k] = Longer[k + 1] /\ k + 1 \in 1 .. Len(Longer) /\ k + 1 # 1
    BY <1>11
  <2>5. Longer \in Seq(Entries) /\ Longer # <<>> /\ h \in Nat
    BY <1>1, <1>5, <1>6
  <2>6. o = (p + h) % Size /\ Used' = u - h
    BY <1>2, <1>5
  <2> HIDE DEF Q2, s2, m2, u, p, h, o
  <2>7. Chained(Q2, m2, s2, (p + h) % Size, u - h)
    BY <2>1, <2>2, <2>3, <2>4, <2>5, ChainTail
  <2>8. ASSUME NEW k \in 1 .. Len(Q2)
        PROVE  Start(Q2, m2, o, k) = Start(Longer, m2, p, k + 1)
    <3>1. k + 1 \in 1 .. Len(Longer) /\ Q2[k] = Longer[k + 1] /\ k + 1 # 1
      BY <2>4
    <3>2. Longer[k + 1].at \in 0 .. Size - 1
      <4>1. Longer[k + 1] \in Entries
        BY <2>5, <3>1, ElementOfSeq
      <4> QED BY <4>1 DEF Entries
    <3>3. Begins(Longer, p, 1) = 0
      BY <2>1, <2>5, FirstIsStart
    <3>4. 1 \in 1 .. Len(Longer) /\ k + 1 \in 1 + 1 .. Len(Longer)
      BY <2>5, <3>1
    <3>5. Begins(Longer, p, 1) + Long(Longer, m2, s2, p, 1) <= Begins(Longer, p, k + 1)
      BY <2>1, <3>4 DEF Chained
    <3>6. h <= Begins(Longer, p, k + 1)
      BY <2>2, <2>5, <3>3, <3>5
    <3> QED BY <2>1, <2>5, <2>6, <3>1, <3>2, <3>6, StartTail
  <2> QED BY <2>6, <2>7, <2>8 DEF Q2, s2, m2, p, o
<1>13. LeftNow' = Total(First, sent[First.n])'
  BY <1>2 DEF LeftNow, Left
<1>14. ASSUME NEW k \in 1 .. Len(queue'), NEW y, y = Start(queue', mem', r'.ptr, k)
       PROVE  queue'[k].due = LastWords(y, sent'[y.n], IF k = 1 THEN LeftNow' ELSE Total(y, sent'[y.n]))
  <2>1. queue'[k] = Longer[k + 1] /\ k + 1 \in 1 .. Len(Longer) /\ k + 1 # 1
    BY <1>11
  <2>2. y = Start(Longer, mem', r.ptr, k + 1)
    BY <1>12, <1>14
  <2>3. queue'[k].due = LastWords(y, sent'[y.n], Total(y, sent'[y.n]))
    BY <2>1, <2>2, DueLonger
  <2>4. k = 1 => y = First'
    <3>1. queue' # <<>>
      BY <1>9
    <3>2. r'.ptr \in 0 .. Size - 1
      BY DEF TypeOK
    <3> QED BY <1>12, <1>14, <3>1, <3>2, FirstIsStart DEF First
  <2>5. k = 1 => LeftNow' = Total(y, sent'[y.n])
    BY <1>13, <2>4 DEF Total, ForUdp
  <2> QED BY <2>3, <2>5
<1>15. Dues(queue', mem', sent', r'.ptr, LeftNow')
  BY <1>14 DEF Dues
<1>16. QueueInv'
  BY <1>9, <1>12, <1>15 DEF QueueInv
<1>17. CASE r.wrReq
  <2>1. /\ LastWords(x, f, LeftNow) # <<>> /\ Written = Head(LastWords(x, f, LeftNow))
        /\ Len(LastWords(x, f, LeftNow)) = LeftNow
    BY <1>17, GivesWord
  <2>2. Len(Head(queue).due) = 1
    BY <1>4, <1>6, <1>7, <1>17, <2>1
  <2>3. Streams!LastWord
    BY <1>1, <1>6, <1>7, <1>9, <2>1, <2>2 DEF Streams!LastWord, Streams!Deliver, Streams!Due, a
  <2> QED BY <1>16, <2>3
<1>18. CASE ~r.wrReq
  <2>1. LeftNow = 0
    BY <1>4, <1>6, <1>18
  <2>2. x.n \in Nat /\ x.i \in Nat /\ f.len \in Nat /\ f.data \in Nat
    <3>1. x.n \in Nat
      BY <1>3, FrontNumber
    <3> QED BY <1>3, <3>1, FrontTypes
  <2>3. Head(queue).due = <<>>
    BY <1>6, <1>7, <2>1, <2>2, LastWordsSeq
  <2>4. word' = NoWord
    BY <1>7, <1>18 DEF Written
  <2>5. Streams!Leave
    BY <1>1, <1>9, <2>3, <2>4 DEF Streams!Leave, Streams!Wait, Streams!Due, a
  <2> QED BY <1>16, <2>5
<1> QED BY <1>17, <1>18

-----------------------------------------------------------------------------
(* The refinement.                                                         *)

LEMMA InitQueue == Init => QueueInv /\ Streams!Init
<1> SUFFICES ASSUME Init PROVE QueueInv /\ Streams!Init
  OBVIOUS
<1>1. queue = <<>> /\ r.ptr = 0 /\ w.ptr = 0 /\ 0 \in 0 .. Size - 1
  BY SizePositive DEF Init, Restarted
<1>2. Used = 0
  BY <1>1, Distance, SizeNat DEF Used
<1>3. queue \in Seq(Entries) /\ Len(queue) = 0
  BY <1>1
<1>4. Chained(queue, mem, sent, r.ptr, Used)
  BY <1>1, <1>2, <1>3 DEF Chained
<1>5. Dues(queue, mem, sent, r.ptr, LeftNow)
  BY <1>3 DEF Dues
<1> QED BY <1>3, <1>4, <1>5 DEF QueueInv, Init, Streams!Init

LEMMA StepQueue ==
  ASSUME Contents, TypeOK', QueueInv, [Next]_vars
  PROVE  QueueInv' /\ [Streams!Next]_<<queue, word, sound>>
<1>1. CASE UNCHANGED vars
  <2>1. LeftNow' = LeftNow /\ Used' = Used
    BY <1>1 DEF vars, LeftNow, Left, Total, First, Used, ForUdp
  <2> QED BY <1>1, <2>1 DEF vars, QueueInv
<1>2. ASSUME NEW full \in BOOLEAN, Edge(full)
      PROVE  QueueInv' /\ Streams!Next
  <2>1. History(full)
    BY <1>2, EdgeCases
  <2>2. sound \in BOOLEAN /\ sound' \in BOOLEAN /\ (sound' => sound)
    BY <2>1 DEF History, TypeOK, Contents, IInv
  <2>3. CASE ~sound'
    BY <2>3 DEF QueueInv, Streams!Next
  <2>4. CASE sound'
    <3>1. QueueInv' /\ (Streams!Idle \/ Streams!Word \/ Streams!LastWord \/ Streams!Leave)
      <4>1. CASE Waited
        BY <1>2, <2>2, <2>4, <4>1, WaitedQueue
      <4>2. ASSUME NEW x, NEW f, InFrame(x, f), Stays(x, f) \/ Leaves(x, f)
            PROVE  QueueInv' /\ (Streams!Idle \/ Streams!Word \/ Streams!LastWord \/ Streams!Leave)
        <5>1. CASE Leaves(x, f)
          BY <1>2, <2>2, <2>4, <4>2, <5>1, LeavesQueue
        <5>2. CASE Stays(x, f) /\ r.wrReq
          BY <1>2, <2>2, <2>4, <4>2, <5>2, WordQueue
        <5>3. CASE Stays(x, f) /\ ~r.wrReq
          BY <1>2, <2>2, <2>4, <4>2, <5>3, SilentQueue
        <5> QED BY <4>2, <5>1, <5>2, <5>3
      <4> QED BY <1>2, <4>1, <4>2, EdgeCases
    <3> QED BY <2>2, <2>4, <3>1 DEF Streams!Next
  <2> QED BY <2>3, <2>4
<1> QED BY <1>1, <1>2 DEF Next

LEMMA QueueHolds == Spec => [](Contents /\ QueueInv)
<1>1. Init => Contents /\ QueueInv
  BY InitContents, InitQueue
<1>2. (Contents /\ QueueInv) /\ [Next]_vars => (Contents /\ QueueInv)'
  BY StepContents, StepQueue DEF Contents, IInv
<1> QED BY <1>1, <1>2, PTL DEF Spec

(* The reader gives the streams every frame stored, in order, whole and    *)
(* once, with EOD at the last word (lines 662-919): each edge of RxBuffers *)
(* is a step of FrameStream or leaves it alone, until a fifo is full while *)
(* padding is skipped.                                                     *)
THEOREM ImplementsStream == Spec => IsFrameStream
<1>1. Init => Streams!Init
  BY InitQueue
<1>2. (Contents /\ QueueInv) /\ TypeOK' /\ [Next]_vars => [Streams!Next]_<<queue, word, sound>>
  BY StepQueue
<1>3. Contents => TypeOK
  BY DEF Contents, IInv
<1> QED BY <1>1, <1>2, <1>3, QueueHolds, PTL DEF Spec, IsFrameStream, Streams!Spec

(* As long as no fifo was full while padding was skipped, the reader is    *)
(* where lines 609-615 want it: at the start of the oldest frame, or at    *)
(* the writer's pointer when there is none.                                *)
THEOREM InStepWhileSound == Spec => [](sound => InStep)
<1>1. Contents /\ QueueInv => (sound => InStep)
  <2> SUFFICES ASSUME Contents, QueueInv, sound PROVE InStep
    OBVIOUS
  <2>1. queue \in Seq(Entries) /\ Chained(queue, mem, sent, r.ptr, Used)
    BY DEF QueueInv
  <2>2. BufEmpty <=> Used = 0
    BY UsedAndRoom DEF Contents, IInv
  <2>3. CASE queue = <<>>
    BY <2>1, <2>2, <2>3 DEF Chained, BufEmpty, InStep
  <2>4. CASE queue # <<>>
    <3>1. queue[1].at = r.ptr
      BY <2>1, <2>4 DEF Chained
    <3>2. Head(queue) = queue[1]
      BY <2>1, <2>4
    <3> QED BY <2>4, <3>1, <3>2 DEF InStep
  <2> QED BY <2>3, <2>4
<1> QED BY <1>1, QueueHolds, PTL
=============================================================================
