-------------------------- MODULE CalMaster_proofs --------------------------
(***************************************************************************)
(* Safety of the calibration master for every timing, queue size and set   *)
(* of frames, and of the bench around it.  The property about Syncs is not *)
(* inductive: it needs the link between the timer of the code and the      *)
(* history variable quiet (TimerInv), which in turn holds only because     *)
(* entering MASTER arms the timer again.  That of the counter's readings   *)
(* needs the phase of the PPS against the same timer (WaitInv).  What the  *)
(* captured file and the readings have to do with each other needs both    *)
(* records in full, line by line, and how far the firmware, the loop and   *)
(* the counter may be ahead of one another (RecordInv).                    *)
(***************************************************************************)
EXTENDS CalBench, SequenceTheorems, FiniteSetTheorems, WellFoundedInduction, TLAPS

\* In MASTER, once armed, the time elapsed and the time left of the Sync
\* timer make up at least a full interval.
TimerInv ==
  state = "MASTER" /\ ~isNew => syncTo \in Nat /\ quiet + syncTo >= SyncMs

IInv == TypeOK /\ TimerInv /\ SlaveNeverMaster

-----------------------------------------------------------------------------
(* Types of what the helpers return.                                       *)

LEMMA ModRange == \A n \in Nat : n % SeqSize \in SeqIds
  BY DataAssumption DEF SeqIds

LEMMA NextSeqType == seq \in SeqIds => NextSeq \in SeqIds
  BY ModRange DEF NextSeq, SeqIds

LEMMA InputId == \A f \in Input : f.id \in SeqIds
<1>1. 0 \in SeqIds
  BY DataAssumption DEF SeqIds
<1> QED BY <1>1, DataAssumption DEF Input, NoFrame

\* Every piece of console text is a sequence of tokens.
LEMMA TextTypes ==
  /\ \A f \in Input : RecvText(f) \in Seq(Tokens)
  /\ \A k \in {"t1", "resp"}, i \in SeqIds : SendText(k, i) \in Seq(Tokens)
  /\ \A e : ErrText(e) \in Seq(Tokens)
  /\ <<Token("hdr", 0)>> \in Seq(Tokens)
  /\ <<>> \in Seq(Tokens)
<1>1. 0 \in SeqIds
  BY DataAssumption DEF SeqIds
<1>2. \A k \in {"t1", "resp", "t4", "err", "hdr"}, i \in SeqIds :
        <<Token(k, i)>> \in Seq(Tokens)
  BY DEF Token, Tokens
<1>3. \A f \in Input : RecvText(f) \in Seq(Tokens)
  BY <1>2, InputId DEF RecvText
<1>4. \A e : ErrText(e) \in Seq(Tokens)
  BY <1>1, <1>2 DEF ErrText
<1> QED BY <1>1, <1>2, <1>3, <1>4 DEF SendText

\* fsm.c:120-129: what a call leaves behind, given what the state function
\* asked for.
LEMMA ConcludeFacts ==
  ASSUME TypeOK, NEW next \in States, NEW e, NEW d \in Nat,
         NEW text \in Seq(Tokens), Conclude(next, e, d, text)
  PROVE  /\ state' = next /\ state' \in States
         /\ isNew' = (next # state) /\ isNew' \in BOOLEAN
         /\ delay' \in Nat /\ out' \in Seq(Tokens)
         /\ quiet' \in 0 .. SyncMs
         /\ quiet' = 0 \/ quiet' = quiet
         /\ seq' = seq /\ state = "MASTER" => quiet' = quiet
<1>1. ErrText(e) \in Seq(Tokens)
  BY TextTypes
<1>2. out' \in Seq(Tokens)
  BY <1>1, ConcatProperties DEF Conclude
<1>3. isNew' = (next # state) /\ isNew' \in BOOLEAN
  BY DEF Conclude
<1>4. delay' \in Nat /\ state' = next
  BY DEF Conclude
<1>5. /\ quiet' = 0 \/ quiet' = quiet
      /\ seq' = seq /\ state = "MASTER" => quiet' = quiet
      /\ quiet' \in 0 .. SyncMs
  BY TimeAssumption DEF Conclude, TypeOK
<1> QED BY <1>2, <1>3, <1>4, <1>5

\* state-master.c:98-167: whatever the message, the label out or out_fault
\* is reached with a legal next state.
LEMMA MasterMsgFacts ==
  ASSUME TypeOK, NEW f \in Input, NEW text \in Seq(Tokens),
         NEW sent \in Seq(Sent), syncTo' \in Nat, MasterMsg(f, text, sent)
  PROVE  /\ tx' \in Seq(Sent)
         /\ \E next \in {"MASTER", "LISTENING", "FAULTY"}, e \in Int, d \in Nat,
               t \in Seq(Tokens) : Conclude(next, e, d, t)
<1>1. \A d1 \in AnnLeft : Least(d1, syncTo') \in Nat
  BY TimeAssumption DEF Least
<1>2. \A next \in {"MASTER", "LISTENING"}, t \in Seq(Tokens) : MasterOk(next, t) =>
        \E n \in {"MASTER", "LISTENING", "FAULTY"}, e \in Int, d \in Nat,
           u \in Seq(Tokens) : Conclude(n, e, d, u)
  BY <1>1 DEF MasterOk
<1>3. MasterFault(text) =>
        \E n \in {"MASTER", "LISTENING", "FAULTY"}, e \in Int, d \in Nat,
           u \in Seq(Tokens) : Conclude(n, e, d, u)
  BY TimeAssumption DEF MasterFault
<1>4. text \o SendText("resp", f.id) \in Seq(Tokens)
  BY InputId, TextTypes, ConcatProperties
<1>5. Append(sent, [kind |-> "resp", id |-> f.id]) \in Seq(Sent)
  BY InputId DEF Sent
<1> QED BY <1>2, <1>3, <1>4, <1>5 DEF MasterMsg

\* Reading a frame leaves a queue of frames.
LEMMA ConsumeType ==
  ASSUME rxq \in Seq(Frames), Consume
  PROVE  rxq' \in Seq(Frames)
<1>1. CASE rxq = <<>>
  BY <1>1, EmptySeq DEF Consume
<1>2. CASE rxq # <<>>
  BY <1>2, HeadTailProperties DEF Consume
<1> QED BY <1>1, <1>2

-----------------------------------------------------------------------------
(* One step of the machine preserves types, and summarises its effect on   *)
(* what the other invariants speak of.                                     *)

\* The three calls in MASTER, up to the label out or out_fault.
LEMMA MasterStep ==
  ASSUME TypeOK, TimerInv, NEW f \in Input,
         MasterQuiet(f) \/ MasterSync(f) \/ MasterSyncError(f)
  PROVE  /\ TypeOK' /\ TimerInv'
         /\ state = "MASTER" /\ state' # "LINK_ON" /\ role' = role
         /\ seq' # seq => SyncDue
<1> USE TimeAssumption
<1>t. /\ RecvText(f) \in Seq(Tokens)
      /\ NextSeq \in SeqIds
      /\ RecvText(f) \o SendText("t1", NextSeq) \in Seq(Tokens)
      /\ <<>> \in Seq(Sent)
      /\ <<[kind |-> "sync", id |-> NextSeq]>> \in Seq(Sent)
  <2>1. NextSeq \in SeqIds
    BY NextSeqType DEF TypeOK
  <2> QED BY <2>1, TextTypes, ConcatProperties DEF Sent
<1>q. rxq' \in Seq(Frames)
  BY ConsumeType DEF MasterQuiet, MasterSync, MasterSyncError, TypeOK
<1>s. /\ state = "MASTER" /\ role' = role /\ sock' = sock
      /\ seq' \in SeqIds
      /\ syncTo' = SyncMs \/ (syncTo' = syncTo /\ ~isNew)
      /\ seq' # seq => SyncDue /\ syncTo' = SyncMs
  BY <1>t DEF MasterQuiet, MasterSync, MasterSyncError, ArmedTo, Rearmed, TypeOK
<1>n. syncTo' \in 0 .. SyncMs
  BY <1>s DEF TypeOK, TimerInv, NotPending
<1>1. /\ tx' \in Seq(Sent)
      /\ \E next \in {"MASTER", "LISTENING", "FAULTY"}, e \in Int, d \in Nat,
            t \in Seq(Tokens) : Conclude(next, e, d, t)
  <2>0. syncTo' \in Nat
    BY <1>n
  <2>1. CASE MasterQuiet(f)
    BY <2>0, <2>1, <1>t, MasterMsgFacts DEF MasterQuiet
  <2>2. CASE MasterSync(f)
    BY <2>0, <2>2, <1>t, MasterMsgFacts DEF MasterSync
  <2>3. CASE MasterSyncError(f)
    <3>1. \A d1 \in AnnLeft : Least(d1, syncTo') \in Nat
      BY <2>0 DEF Least
    <3>2. PICK d1 \in AnnLeft :
            Conclude("MASTER", 0, Least(d1, syncTo'), RecvText(f) \o SendText("t1", NextSeq))
      BY <2>3 DEF MasterSyncError, MasterNoStamp
    <3>3. Least(d1, syncTo') \in Nat /\ 0 \in Int
      BY <3>1
    <3>4. tx' \in Seq(Sent)
      BY <2>3, <1>t DEF MasterSyncError
    <3> QED BY <3>2, <3>3, <3>4, <1>t
  <2> QED BY <2>1, <2>2, <2>3
<1>2. PICK next \in {"MASTER", "LISTENING", "FAULTY"}, e \in Int, d \in Nat,
           t \in Seq(Tokens) : Conclude(next, e, d, t)
  BY <1>1
<1>3. /\ state' = next /\ state' \in States /\ isNew' \in BOOLEAN
      /\ isNew' = (next # state)
      /\ delay' \in Nat /\ out' \in Seq(Tokens) /\ quiet' \in 0 .. SyncMs
      /\ quiet' = 0 \/ quiet' = quiet
      /\ seq' = seq /\ state = "MASTER" => quiet' = quiet
  <2>1. next \in States
    BY DEF States
  <2> QED BY <1>2, <2>1, ConcludeFacts
<1>4. TypeOK'
  BY <1>1, <1>3, <1>n, <1>q, <1>s DEF TypeOK
<1>5. TimerInv'
  <2>1. CASE syncTo' = SyncMs
    <3>1. quiet' \in 0 .. SyncMs
      BY <1>3
    <3>2. SyncMs \in Nat /\ \A q \in 0 .. SyncMs : q + SyncMs >= SyncMs
      OBVIOUS
    <3>3. syncTo' \in Nat
      BY <2>1, <3>2
    <3>4. quiet' + syncTo' >= SyncMs
      BY <2>1, <3>1, <3>2
    <3> QED BY <3>3, <3>4 DEF TimerInv
  <2>2. CASE syncTo' # SyncMs
    BY <2>2, <1>s, <1>3, <1>n DEF TimerInv, TypeOK
  <2> QED BY <2>1, <2>2
<1> QED BY <1>3, <1>4, <1>5, <1>s

\* The other states leave the Sync timer and counter alone.
LEMMA OtherStep ==
  ASSUME TypeOK, SlaveNeverMaster, NEW f \in Input,
         InitDone(f) \/ InitFailed(f) \/ OtherState(f)
  PROVE  /\ TypeOK' /\ SlaveNeverMaster'
         /\ state # "MASTER" /\ seq' = seq
         /\ state' = "MASTER" => isNew'
<1> USE TimeAssumption
<1>t. /\ RecvText(f) \in Seq(Tokens)
      /\ RecvText(f) \o <<Token("hdr", 0)>> \in Seq(Tokens)
      /\ \A b \in BOOLEAN :
            RecvText(f) \o (IF b THEN SendText("resp", 0) ELSE <<>>) \in Seq(Tokens)
  <2>1. 0 \in SeqIds
    BY DataAssumption DEF SeqIds
  <2> QED BY <2>1, TextTypes, ConcatProperties
<1>1. CASE InitDone(f) \/ InitFailed(f)
  <2>1. \E next \in {"INITIALIZING", "LINK_ON", "LISTENING"}, d \in Nat, t \in Seq(Tokens) :
           /\ Conclude(next, 0, d, t)
           /\ role = "slave" => next # "LINK_ON"
    BY <1>1, <1>t DEF InitDone, InitFailed, Initialised
  <2>2. PICK next \in {"INITIALIZING", "LINK_ON", "LISTENING"}, d \in Nat, t \in Seq(Tokens) :
           /\ Conclude(next, 0, d, t)
           /\ role = "slave" => next # "LINK_ON"
    BY <2>1
  <2>3. next \in States
    BY DEF States
  <2>4. /\ state' = next /\ isNew' \in BOOLEAN /\ delay' \in Nat
        /\ out' \in Seq(Tokens) /\ quiet' \in 0 .. SyncMs
    BY <2>2, <2>3, ConcludeFacts
  <2>5. /\ state = "INITIALIZING" /\ UNCHANGED <<syncTo, seq, role>>
        /\ sock' \in BOOLEAN /\ rxq' = <<>> /\ tx' = <<>>
    BY <1>1 DEF InitDone, InitFailed, ReopenSocket, TypeOK
  <2>6. rxq' \in Seq(Frames) /\ tx' \in Seq(Sent)
    BY <2>5, EmptySeq
  <2> QED BY <2>2, <2>3, <2>4, <2>5, <2>6 DEF TypeOK, SlaveNeverMaster
<1>2. CASE OtherState(f)
  <2>1. /\ state \in {"LINK_ON", "LISTENING", "FAULTY"}
        /\ UNCHANGED <<syncTo, seq, role, sock>> /\ rxq' \in Seq(Frames)
    BY <1>2, ConsumeType DEF OtherState, Elsewhere, TypeOK
  <2>2. PICK next \in Elsewhere[state], e \in {0, -1}, d \in {0, FaultMs},
             sends \in BOOLEAN :
          /\ tx' \in {<<>>} \cup IF sends /\ sock THEN {<<[kind |-> "resp", id |-> 0]>>} ELSE {}
          /\ Conclude(next, e, d, RecvText(f) \o IF sends THEN SendText("resp", 0) ELSE <<>>)
    BY <1>2 DEF OtherState
  <2>3. /\ next \in States
        /\ role = "slave" => next \notin {"LINK_ON", "MASTER"}
    BY <2>1 DEF Elsewhere, States, SlaveNeverMaster
  <2>4. tx' \in Seq(Sent)
    <3>1. 0 \in SeqIds
      BY DataAssumption DEF SeqIds
    <3>2. tx' = <<>> \/ tx' = <<[kind |-> "resp", id |-> 0]>>
      BY <2>2
    <3>3. <<>> \in Seq(Sent) /\ <<[kind |-> "resp", id |-> 0]>> \in Seq(Sent)
      BY <3>1 DEF Sent
    <3> QED BY <3>2, <3>3
  <2>5. /\ state' = next /\ isNew' = (next # state) /\ isNew' \in BOOLEAN
        /\ delay' \in Nat /\ out' \in Seq(Tokens) /\ quiet' \in 0 .. SyncMs
    BY <2>2, <2>3, <1>t, ConcludeFacts
  <2> QED BY <2>1, <2>3, <2>4, <2>5 DEF TypeOK, SlaveNeverMaster
<1> QED BY <1>1, <1>2

-----------------------------------------------------------------------------
(* The inductive invariant.                                                *)

LEMMA InitIInv == Init => IInv
<1> SUFFICES ASSUME Init PROVE IInv
  OBVIOUS
<1>1. 0 \in SeqIds
  BY DataAssumption DEF SeqIds
<1>2. TypeOK
  <2>1. rxq \in Seq(Frames) /\ out \in Seq(Tokens) /\ tx \in Seq(Sent)
    BY EmptySeq DEF Init
  <2>2. isNew \in BOOLEAN /\ sock \in BOOLEAN
    BY DEF Init
  <2>3. /\ state \in States /\ delay \in Nat /\ syncTo \in {NotPending}
        /\ seq \in SeqIds /\ role \in {"master", "slave"} /\ quiet \in 0 .. SyncMs
    BY <1>1, TimeAssumption DEF Init, States
  <2> QED BY <2>1, <2>2, <2>3 DEF TypeOK
<1> QED BY <1>2 DEF Init, IInv, TimerInv, SlaveNeverMaster

LEMMA NextIInv == IInv /\ [Next]_vars => IInv'
<1> SUFFICES ASSUME IInv, [Next]_vars PROVE IInv'
  OBVIOUS
<1> USE DEF IInv
<1>1. ASSUME NEW f \in Input, Call(f) PROVE IInv'
  <2>1. CASE MasterQuiet(f) \/ MasterSync(f) \/ MasterSyncError(f)
    BY <2>1, MasterStep DEF SlaveNeverMaster
  <2>2. CASE InitDone(f) \/ InitFailed(f) \/ OtherState(f)
    BY <2>2, OtherStep DEF TimerInv
  <2> QED BY <1>1, <2>1, <2>2 DEF Call
<1>2. ASSUME NEW f \in Frames, FrameArrives(f) PROVE IInv'
  <2>1. rxq' \in Seq(Frames)
    BY <1>2 DEF FrameArrives, TypeOK
  <2> QED BY <1>2, <2>1 DEF FrameArrives, ppi, TypeOK, TimerInv, SlaveNeverMaster
<1>3. ASSUME NEW r \in {"master", "slave"}, Restart(r) PROVE IInv'
  BY <1>3 DEF Restart, TypeOK, TimerInv, SlaveNeverMaster, States
<1>4. CASE Tick
  <2>1. TypeOK'
    BY <1>4, TimeAssumption DEF Tick, Down, Least, TypeOK, NotPending
  <2>2. TimerInv'
    BY <1>4, TimeAssumption DEF Tick, Down, Least, TypeOK, TimerInv, NotPending
  <2> QED BY <1>4, <2>1, <2>2 DEF Tick, SlaveNeverMaster
<1>5. CASE UNCHANGED vars
  BY <1>5 DEF vars, TypeOK, TimerInv, SlaveNeverMaster
<1> QED BY <1>1, <1>2, <1>3, <1>4, <1>5 DEF Next, Step

\* The invariant that carries the proofs below.
THEOREM InductiveInvariant == Spec => []IInv
  BY InitIInv, NextIInv, PTL DEF Spec

\* The state of the PTP engine keeps its types, sequenceId its width.
THEOREM TypeCorrect == Spec => []TypeOK
<1>1. IInv => TypeOK
  BY DEF IInv
<1> QED BY InductiveInvariant, <1>1, PTL

\* state-initializing.c:69-72: in slave mode the node never drives the Sync
\* pulse, whatever mode it was restarted from.
THEOREM SlaveIsSilent == Spec => []SlaveNeverMaster
<1>1. IInv => SlaveNeverMaster
  BY DEF IInv
<1> QED BY InductiveInvariant, <1>1, PTL

\* state-master.c:68-87: two Syncs are a full interval apart, and the first
\* one a full interval after MASTER was entered.
THEOREM SyncsAreSpaced == Spec => SyncSpacing
<1>1. IInv /\ [Next]_vars => [seq' # seq => state = "MASTER" /\ quiet = SyncMs]_vars
  <2> SUFFICES ASSUME IInv, Next, seq' # seq
               PROVE  state = "MASTER" /\ quiet = SyncMs
    BY DEF vars
  <2>1. PICK f \in Input : Call(f)
    BY DEF Next, Step, FrameArrives, ppi, Restart, Tick
  <2>2. MasterQuiet(f) \/ MasterSync(f) \/ MasterSyncError(f)
    BY <2>1, OtherStep DEF Call, IInv
  <2>3. state = "MASTER" /\ SyncDue
    BY <2>2, MasterStep DEF IInv
  <2> QED BY <2>3, TimeAssumption DEF IInv, TypeOK, TimerInv, SyncDue
<1> QED BY InductiveInvariant, <1>1, PTL DEF Spec, SyncSpacing

-----------------------------------------------------------------------------
(* The machine implements SyncSource.                                      *)

\* What a call does to the number of the last Sync and to the pace.
LEMMA CallPace ==
  ASSUME NEW f \in Input, Call(f)
  PROVE  /\ seq' = seq \/ (state = "MASTER" /\ SyncDue /\ seq' = NextSeq)
         /\ role' = role
         /\ quiet' = IF seq' # seq \/ (state' = "MASTER" /\ state # "MASTER")
                       THEN 0 ELSE quiet
<1>1. /\ seq' = seq \/ (state = "MASTER" /\ SyncDue /\ seq' = NextSeq)
      /\ role' = role
  BY DEF Call, InitDone, InitFailed, MasterQuiet, MasterSync, MasterSyncError, OtherState
<1>2. \A next, e, d, t : Conclude(next, e, d, t) =>
        quiet' = IF seq' # seq \/ (state' = "MASTER" /\ state # "MASTER") THEN 0 ELSE quiet
  BY DEF Conclude
<1>3. \A text, sent : MasterMsg(f, text, sent) =>
        quiet' = IF seq' # seq \/ (state' = "MASTER" /\ state # "MASTER") THEN 0 ELSE quiet
  BY <1>2 DEF MasterMsg, MasterOk, MasterFault
<1>4. CASE InitDone(f) \/ InitFailed(f) \/ OtherState(f)
  BY <1>2, <1>4 DEF InitDone, InitFailed, OtherState
<1>5. CASE MasterQuiet(f) \/ MasterSync(f)
  BY <1>3, <1>5 DEF MasterQuiet, MasterSync
<1>6. CASE MasterSyncError(f)
  BY <1>2, <1>6 DEF MasterSyncError, MasterNoStamp
<1> QED BY <1>1, <1>4, <1>5, <1>6 DEF Call

LEMMA SourceInit == Init => Source!Init
  BY DEF Init, Source!Init

LEMMA SourceStep == IInv /\ IInv' /\ [Next]_vars => [Source!Next]_(Source!vars)
<1> SUFFICES ASSUME IInv, IInv', [Next]_vars
             PROVE  Source!Next \/ UNCHANGED Source!vars
  OBVIOUS
<1> USE TimeAssumption, DataAssumption
<1>1. ASSUME NEW f \in Input, Call(f) PROVE Source!Next \/ UNCHANGED Source!vars
  <2>1. /\ seq' = seq \/ (state = "MASTER" /\ SyncDue /\ seq' = NextSeq)
        /\ role' = role
        /\ quiet' = IF seq' # seq \/ (state' = "MASTER" /\ state # "MASTER")
                      THEN 0 ELSE quiet
    BY <1>1, CallPace
  <2>2. CASE seq' # seq
    <3>1. quiet = SyncMs
      BY <2>1, <2>2 DEF IInv, TypeOK, TimerInv, SyncDue
    <3> QED BY <2>1, <2>2, <3>1 DEF Source!Next, Source!Send, NextSeq
  <2>3. CASE seq' = seq /\ state # "MASTER" /\ state' = "MASTER"
    <3>1. role = "master"
      BY <2>1, <2>3 DEF IInv, TypeOK, SlaveNeverMaster
    <3> QED BY <2>1, <2>3, <3>1 DEF Source!Next, Source!Begin
  <2>4. CASE seq' = seq /\ state = "MASTER" /\ state' # "MASTER"
    BY <2>1, <2>4 DEF Source!Next, Source!End
  <2>5. CASE seq' = seq /\ (state = "MASTER" <=> state' = "MASTER")
    BY <2>1, <2>5 DEF Source!vars
  <2> QED BY <2>2, <2>3, <2>4, <2>5
<1>2. ASSUME NEW f \in Frames, FrameArrives(f) PROVE UNCHANGED Source!vars
  BY <1>2 DEF FrameArrives, ppi, Source!vars
<1>3. ASSUME NEW r \in {"master", "slave"}, Restart(r) PROVE Source!Next
  BY <1>3 DEF Restart, Source!Next, Source!Told
<1>4. CASE Tick
  BY <1>4 DEF Tick, Least, IInv, TypeOK, Source!Next, Source!Wait
<1>5. CASE UNCHANGED vars
  BY <1>5 DEF vars, Source!vars
<1> QED BY <1>1, <1>2, <1>3, <1>4, <1>5 DEF Next, Step

\* fsm.c:74-134: whatever states, errors and frames the machine goes
\* through, its Syncs are numbered one by one, a full interval apart, and
\* sent only by a node that was told to be master.
THEOREM ImplementsSource == Spec => IsSource
  BY InductiveInvariant, SourceInit, SourceStep, PTL DEF Spec, IsSource, Source!Spec

-----------------------------------------------------------------------------
(* Every frame is stamped.                                                 *)

Stamp(x) == Token(IF x.kind = "sync" THEN "t1" ELSE "resp", x.id)

\* The text has a stamp for every frame of a sequence.
Covers(text, sent) == \A i \in DOMAIN sent : \E j \in DOMAIN text : text[j] = Stamp(sent[i])

\* More text takes no stamp away.
LEMMA CoversMore ==
  ASSUME NEW t \in Seq(Tokens), NEW u \in Seq(Tokens), NEW sent, Covers(t, sent)
  PROVE  Covers(t \o u, sent)
<1> SUFFICES ASSUME NEW i \in DOMAIN sent
             PROVE  \E j \in DOMAIN (t \o u) : (t \o u)[j] = Stamp(sent[i])
  BY DEF Covers
<1>1. PICK j \in DOMAIN t : t[j] = Stamp(sent[i])
  BY DEF Covers
<1>2. j \in DOMAIN (t \o u) /\ (t \o u)[j] = t[j]
  OBVIOUS
<1> QED BY <1>1, <1>2

\* wrpc_net_send puts the stamp of the frame it sends after the text so far.
LEMMA CoversSent ==
  ASSUME NEW t \in Seq(Tokens), NEW sent \in Seq(Sent), NEW id \in SeqIds, NEW x \in Sent,
         NEW k \in {"t1", "resp"}, Stamp(x) = Token(k, id), Covers(t, sent)
  PROVE  Covers(t \o SendText(k, id), Append(sent, x))
<1> DEFINE u == SendText(k, id)
<1>1. u \in Seq(Tokens) /\ Len(u) = 1 /\ u[1] = Stamp(x)
  BY TextTypes DEF SendText
<1> HIDE DEF u
<1>2. Covers(t \o u, sent)
  BY <1>1, CoversMore
<1>3. Len(t) + 1 \in DOMAIN (t \o u) /\ (t \o u)[Len(t) + 1] = Stamp(x)
  <2>1. Len(t) \in Nat /\ Len(t \o u) = Len(t) + 1 /\ DOMAIN (t \o u) = 1 .. Len(t \o u)
    <3>1. Len(t) \in Nat
      OBVIOUS
    <3>2. t \o u \in Seq(Tokens) /\ Len(t \o u) = Len(t) + Len(u)
      BY <1>1, ConcatProperties, Zenon
    <3>3. DOMAIN (t \o u) = 1 .. Len(t \o u)
      BY <3>2, LenProperties, Zenon
    <3> QED BY <1>1, <3>1, <3>2, <3>3
  <2>2. (t \o u)[Len(t) + 1] = u[Len(t) + 1 - Len(t)]
    BY <1>1, <2>1, ConcatProperties
  <2> QED BY <1>1, <2>1, <2>2
<1>4. ASSUME NEW i \in DOMAIN Append(sent, x)
      PROVE  \E j \in DOMAIN (t \o u) : (t \o u)[j] = Stamp(Append(sent, x)[i])
  <2>1. CASE i \in DOMAIN sent
    <3>1. Append(sent, x)[i] = sent[i]
      BY <2>1
    <3> QED BY <1>2, <2>1, <3>1 DEF Covers
  <2>2. CASE i = Len(sent) + 1
    <3>1. Append(sent, x)[i] = x
      BY <2>2
    <3> QED BY <1>3, <3>1
  <2> QED BY <2>1, <2>2
<1> QED BY <1>4 DEF Covers, u

\* What a call prints in the end covers what it covered before the error line.
LEMMA ConcludeCovers ==
  ASSUME NEW next, NEW e, NEW d, NEW t \in Seq(Tokens), Conclude(next, e, d, t),
         Covers(t, tx')
  PROVE  Covers(out', tx')
<1>1. ErrText(e) \in Seq(Tokens) /\ out' = t \o ErrText(e)
  BY TextTypes DEF Conclude
<1> QED BY <1>1, CoversMore

\* Nothing sent, nothing to cover.
LEMMA CoversNothing == \A t : Covers(t, <<>>)
  BY DEF Covers

\* state-master.c:98-167: the answer to a Delay_Req is stamped like the Sync.
LEMMA MsgCovers ==
  ASSUME NEW f \in Input, NEW t \in Seq(Tokens), NEW sent \in Seq(Sent),
         MasterMsg(f, t, sent), Covers(t, sent)
  PROVE  Covers(out', tx')
<1> DEFINE u == t \o SendText("resp", f.id)
           x == [kind |-> "resp", id |-> f.id]
<1>1. f.id \in SeqIds /\ SendText("resp", f.id) \in Seq(Tokens)
  BY InputId, TextTypes
<1>2. u \in Seq(Tokens) /\ Covers(u, sent)
  BY <1>1, CoversMore, ConcatProperties
<1>3. Covers(u, Append(sent, x))
  <2>1. x \in Sent /\ Stamp(x) = Token("resp", f.id)
    BY <1>1 DEF Sent, Stamp
  <2> HIDE DEF x
  <2>2. "resp" \in {"t1", "resp"}
    OBVIOUS
  <2> QED BY <1>1, <2>1, <2>2, CoversSent
<1> HIDE DEF u, x
<1>4. \A next : \A v \in Seq(Tokens) : MasterOk(next, v) /\ Covers(v, tx') => Covers(out', tx')
  BY ConcludeCovers DEF MasterOk
<1>5. MasterFault(t) /\ Covers(t, tx') => Covers(out', tx')
  BY ConcludeCovers DEF MasterFault
<1>6. \/ tx' = sent /\ \E next : MasterOk(next, t)
      \/ tx' = sent /\ MasterFault(t)
      \/ (tx' = sent \/ tx' = Append(sent, x)) /\ \E next : MasterOk(next, u)
  BY DEF MasterMsg, u, x
<1>7. CASE tx' = sent /\ \E next : MasterOk(next, t)
  BY <1>4, <1>7, Zenon
<1>8. CASE tx' = sent /\ MasterFault(t)
  BY <1>5, <1>8, Zenon
<1>9. CASE (tx' = sent \/ tx' = Append(sent, x)) /\ \E next : MasterOk(next, u)
  <2>1. Covers(u, tx')
    BY <1>2, <1>3, <1>9, Zenon
  <2> QED BY <1>2, <1>4, <1>9, <2>1, Zenon
<1> QED BY <1>6, <1>7, <1>8, <1>9

\* Every call covers what it sends.
LEMMA CallCovers ==
  ASSUME TypeOK, NEW f \in Input, Call(f)
  PROVE  Covers(out', tx')
<1>1. /\ RecvText(f) \in Seq(Tokens) /\ NextSeq \in SeqIds /\ 0 \in SeqIds
      /\ SendText("t1", NextSeq) \in Seq(Tokens) /\ SendText("resp", 0) \in Seq(Tokens)
  <2>1. 0 \in SeqIds /\ NextSeq \in SeqIds
    BY NextSeqType, DataAssumption DEF TypeOK, SeqIds
  <2> QED BY <2>1, TextTypes
<1>2. CASE InitDone(f) \/ InitFailed(f)
  <2>1. RecvText(f) \o <<Token("hdr", 0)>> \in Seq(Tokens)
    BY <1>1, TextTypes, ConcatProperties
  <2> QED BY <1>1, <1>2, <2>1, ConcludeCovers, CoversNothing DEF InitDone, InitFailed
<1>3. CASE MasterQuiet(f)
  <2>1. <<>> \in Seq(Sent)
    OBVIOUS
  <2> QED BY <1>1, <1>3, <2>1, MsgCovers, CoversNothing DEF MasterQuiet
<1>4. CASE MasterSync(f)
  <2> DEFINE x == [kind |-> "sync", id |-> NextSeq]
             u == RecvText(f) \o SendText("t1", NextSeq)
  <2>1. x \in Sent /\ Stamp(x) = Token("t1", NextSeq) /\ <<x>> \in Seq(Sent)
    BY <1>1 DEF Sent, Stamp
  <2>2. MasterMsg(f, u, <<x>>)
    BY <1>4 DEF MasterSync
  <2>3. u \in Seq(Tokens)
    BY <1>1, ConcatProperties
  <2> HIDE DEF x
  <2>4. Covers(u, Append(<<>>, x))
    <3>1. <<>> \in Seq(Sent) /\ "t1" \in {"t1", "resp"}
      OBVIOUS
    <3> QED BY <1>1, <2>1, <3>1, CoversSent, CoversNothing
  <2>5. Append(<<>>, x) = <<x>>
    OBVIOUS
  <2> HIDE DEF u
  <2> QED BY <2>1, <2>2, <2>3, <2>4, <2>5, MsgCovers
<1>5. CASE MasterSyncError(f)
  <2>1. RecvText(f) \o SendText("t1", NextSeq) \in Seq(Tokens)
    BY <1>1, ConcatProperties
  <2> QED BY <1>5, <2>1, ConcludeCovers, CoversNothing DEF MasterSyncError, MasterNoStamp
<1>6. CASE OtherState(f)
  <2>1. PICK next \in Elsewhere[state], e \in {0, -1}, d \in {0, FaultMs},
             sends \in BOOLEAN :
          /\ tx' \in {<<>>} \cup IF sends /\ sock THEN {<<[kind |-> "resp", id |-> 0]>>} ELSE {}
          /\ Conclude(next, e, d, RecvText(f) \o IF sends THEN SendText("resp", 0) ELSE <<>>)
    BY <1>6 DEF OtherState
  <2>2. CASE tx' = <<>>
    <3>1. RecvText(f) \o (IF sends THEN SendText("resp", 0) ELSE <<>>) \in Seq(Tokens)
      BY <1>1, TextTypes, ConcatProperties
    <3> QED BY <2>1, <2>2, <3>1, ConcludeCovers, CoversNothing
  <2>3. CASE tx' # <<>>
    <3> DEFINE x == [kind |-> "resp", id |-> 0]
               u == RecvText(f) \o SendText("resp", 0)
    <3>1. sends /\ tx' = <<x>>
      BY <2>1, <2>3
    <3>2. x \in Sent /\ Stamp(x) = Token("resp", 0)
      BY <1>1 DEF Sent, Stamp
    <3>3. Conclude(next, e, d, u) /\ u \in Seq(Tokens)
      BY <1>1, <2>1, <3>1, ConcatProperties
    <3> HIDE DEF x
    <3>4. Covers(u, Append(<<>>, x))
      <4>1. <<>> \in Seq(Sent) /\ "resp" \in {"t1", "resp"}
        OBVIOUS
      <4> QED BY <1>1, <3>2, <4>1, CoversSent, CoversNothing
    <3>5. Append(<<>>, x) = <<x>>
      OBVIOUS
    <3> HIDE DEF u
    <3> QED BY <3>1, <3>3, <3>4, <3>5, ConcludeCovers
  <2> QED BY <2>2, <2>3
<1> QED BY <1>2, <1>3, <1>4, <1>5, <1>6 DEF Call

\* wrpc-socket.c:145-153: every frame a call puts on the wire has its stamp in
\* what the same call prints, whatever else it prints or answers.
THEOREM FramesAreStamped == Spec => []EveryFrameStamped
<1>1. Init => Covers(out, tx)
  BY CoversNothing DEF Init
<1>2. IInv /\ Covers(out, tx) /\ [Next]_vars => Covers(out, tx)'
  <2> SUFFICES ASSUME IInv, Covers(out, tx), [Next]_vars PROVE Covers(out, tx)'
    OBVIOUS
  <2>1. ASSUME NEW f \in Input, Call(f) PROVE Covers(out, tx)'
    <3>1. Covers(out', tx')
      BY <2>1, CallCovers DEF IInv
    <3> QED BY <3>1 DEF Covers, Stamp, Token
  <2>2. ASSUME UNCHANGED <<out, tx>> PROVE Covers(out, tx)'
    BY <2>2 DEF Covers, Stamp, Token
  <2>3. ASSUME NEW r \in {"master", "slave"}, Restart(r) PROVE Covers(out, tx)'
    BY <2>3 DEF Restart, Covers
  <2> QED BY <2>1, <2>2, <2>3 DEF Next, Step, FrameArrives, Tick, vars
<1>3. Covers(out, tx) => EveryFrameStamped
  BY DEF Covers, Stamp, EveryFrameStamped
<1> QED BY <1>1, <1>2, <1>3, InductiveInvariant, PTL DEF Spec

-----------------------------------------------------------------------------
(* The bench around the machine: the counter's readings.                   *)

BenchTypes ==
  /\ seq \in SeqIds /\ flight \in Seq(SeqIds)
  /\ phase \in 0 .. PpsMs - 1 /\ wait \in 0 .. 2 /\ output \in {"t1", "t4"}
  /\ events \in Seq(Disturbances)

\* In MASTER the timer is armed, or no PPS has been seen yet.
ArmedInv == state = "MASTER" => IF isNew THEN wait = 0 ELSE syncTo \in 0 .. SyncMs

\* A pulse may still come.
Expected == state = "MASTER" \/ flight # <<>>

\* While one may come, one PPS at most was seen since the last; and that one
\* came after the last Sync, whose pulse is not under way.
WaitInv ==
  /\ Expected => wait < 2
  /\ state = "MASTER" /\ (output = "t1" \/ flight = <<>>) /\ wait = 1
       => phase < SyncMs - syncTo

Undisturbed == ~late /\ events = <<>>

PaceInv == Undisturbed => ~spans /\ ArmedInv /\ WaitInv

BenchInv == BenchTypes /\ PaceInv

\* state-master.c:98-167: the frames a call sends start with those sent
\* before the message was handled.
LEMMA MsgSends ==
  ASSUME NEW f \in Input, NEW text, NEW sent \in Seq(Sent), MasterMsg(f, text, sent)
  PROVE  /\ tx' \in Seq(Sent) /\ (sent # <<>> => tx' # <<>>)
         /\ isNew' = (state' # state)
<1> DEFINE x == [kind |-> "resp", id |-> f.id]
<1>1. x \in Sent
  BY InputId DEF Sent
<1>2. tx' = sent \/ tx' = Append(sent, x)
  BY DEF MasterMsg
<1> HIDE DEF x
<1>3. Append(sent, x) \in Seq(Sent) /\ Append(sent, x) # <<>>
  BY <1>1, AppendProperties
<1>4. \A next, e, d, t : Conclude(next, e, d, t) => isNew' = (state' # state)
  BY DEF Conclude
<1>5. isNew' = (state' # state)
  BY <1>4 DEF MasterMsg, MasterOk, MasterFault
<1> QED BY <1>2, <1>3, <1>5

\* A call that sends what it is due to send: the timer is armed anew with
\* every Sync, and the Sync is on its way.
LEMMA MasterSends ==
  ASSUME seq \in SeqIds, NEW f \in Input, MasterQuiet(f) \/ MasterSync(f)
  PROVE  /\ seq' \in SeqIds /\ tx' \in Seq(Sent) /\ isNew' = (state' # state)
         /\ state = "MASTER"
         /\ \/ SyncDue /\ syncTo' = SyncMs /\ tx' # <<>>
            \/ ~SyncDue /\ syncTo' = ArmedTo
<1>1. CASE MasterQuiet(f)
  <2>1. <<>> \in Seq(Sent)
    OBVIOUS
  <2> QED BY <1>1, <2>1, MsgSends DEF MasterQuiet
<1>2. CASE MasterSync(f)
  <2> DEFINE x == [kind |-> "sync", id |-> NextSeq]
  <2>1. NextSeq \in SeqIds /\ x \in Sent
    BY NextSeqType DEF Sent
  <2>2. MasterMsg(f, RecvText(f) \o SendText("t1", NextSeq), <<x>>)
    BY <1>2 DEF MasterSync
  <2> HIDE DEF x
  <2>3. <<x>> \in Seq(Sent) /\ <<x>> # <<>>
    BY <2>1
  <2>4. tx' \in Seq(Sent) /\ tx' # <<>> /\ isNew' = (state' # state)
    BY <2>2, <2>3, MsgSends
  <2> QED BY <1>2, <2>1, <2>4 DEF MasterSync, Rearmed
<1> QED BY <1>1, <1>2

\* What is sent joins what is on the loop.
LEMMA LoopGrows ==
  ASSUME flight \in Seq(SeqIds), tx' \in Seq(Sent), Transmit
  PROVE  flight' \in Seq(SeqIds) /\ (tx' # <<>> => flight' # <<>>)
                                 /\ (tx' = <<>> => flight' = flight)
<1> DEFINE ids == [i \in DOMAIN tx' |-> tx'[i].id]
<1>1. ids \in Seq(SeqIds) /\ Len(ids) = Len(tx')
  <2>1. \A i \in 1 .. Len(tx') : tx'[i].id \in SeqIds
    <3>1. \A s \in Seq(Sent) : \A i \in 1 .. Len(s) : s[i] \in Sent
      OBVIOUS
    <3>2. \A x \in Sent : x.id \in SeqIds
      BY DEF Sent
    <3> QED BY <3>1, <3>2
  <2>2. Len(tx') \in Nat /\ DOMAIN tx' = 1 .. Len(tx')
    OBVIOUS
  <2> QED BY <2>1, <2>2
<1>2. flight' = flight \o ids
  BY DEF Transmit
<1> HIDE DEF ids
<1>3. flight \o ids \in Seq(SeqIds) /\ Len(flight \o ids) = Len(flight) + Len(ids)
  BY <1>1
<1>4. tx' # <<>> => Len(tx') > 0
  OBVIOUS
<1>5. tx' = <<>> => ids = <<>>
  BY <1>1
<1>6. Len(flight) \in Nat /\ flight \o <<>> = flight
  OBVIOUS
<1>7. tx' # <<>> => flight \o ids # <<>>
  BY <1>1, <1>3, <1>4, <1>6
<1> QED BY <1>2, <1>3, <1>5, <1>6, <1>7

\* A pulse empties the count of PPS, which was one at most.
LEMMA PulseResets ==
  ASSUME NEW token, wait \in 0 .. 2, Pulse(token)
  PROVE  wait' = 0 /\ (wait < 2 /\ ~spans => ~spans')
<1>1. wait < 2 => wait # 2
  OBVIOUS
<1>2. wait' = 0
  BY Zenon DEF Pulse, counter
<1>3. wait # 2 /\ ~spans => ~spans'
  BY Zenon DEF Pulse, counter
<1> QED BY <1>1, <1>2, <1>3

\* A disturbance leaves its trace.
LEMMA Disturbs ==
  ASSUME events \in Seq(Disturbances), NEW d, Disturbed(d)
  PROVE  events' \in Seq(Disturbances) /\ events' # <<>>
<1>1. d \in Disturbances /\ events' = Append(events, d)
  BY DEF Disturbed
<1>2. Append(events, d) \in Seq(Disturbances) /\ Len(Append(events, d)) = Len(events) + 1
  BY <1>1
<1> QED BY <1>1, <1>2

\* A call of the machine.
LEMMA IssuePace ==
  ASSUME BenchInv, Issue, UNCHANGED output
  PROVE  BenchInv'
<1> USE TimeAssumption DEF BenchInv
<1>1. PICK f \in Input : \/ (MasterQuiet(f) \/ MasterSync(f)) /\ UNCHANGED events
                         \/ MasterSyncError(f) /\ Disturbed("unsent")
  BY DEF Issue
<1>2. Transmit /\ UNCHANGED <<phase, late>>
  BY DEF Issue
<1>p. /\ seq \in SeqIds /\ flight \in Seq(SeqIds) /\ wait \in 0 .. 2
      /\ phase \in 0 .. PpsMs - 1 /\ output \in {"t1", "t4"}
      /\ events \in Seq(Disturbances)
  BY DEF BenchTypes
<1>3. wait' \in 0 .. 2 /\ (wait' = 0 \/ wait' = wait) /\ (wait < 2 /\ ~spans => ~spans')
  BY <1>2, <1>p, PulseResets DEF Transmit, counter
<1>4. CASE MasterSyncError(f) /\ Disturbed("unsent")
  <2>1. seq' \in SeqIds /\ tx' \in Seq(Sent)
    BY <1>4, <1>p, NextSeqType DEF MasterSyncError
  <2>3. events' \in Seq(Disturbances) /\ events' # <<>>
    BY <1>4, <1>p, Disturbs
  <2>2. BenchTypes'
    BY <1>2, <1>3, <1>p, <2>1, <2>3, LoopGrows DEF BenchTypes
  <2> QED BY <2>2, <2>3 DEF PaceInv, Undisturbed
<1>5. CASE (MasterQuiet(f) \/ MasterSync(f)) /\ UNCHANGED events
  <2>1. /\ seq' \in SeqIds /\ tx' \in Seq(Sent) /\ isNew' = (state' # state)
        /\ state = "MASTER"
        /\ \/ SyncDue /\ syncTo' = SyncMs /\ tx' # <<>>
           \/ ~SyncDue /\ syncTo' = ArmedTo
    BY <1>5, <1>p, MasterSends
  <2>2. /\ flight' \in Seq(SeqIds)
        /\ tx' # <<>> => flight' # <<>>
        /\ tx' = <<>> => flight' = flight
    BY <1>2, <1>p, <2>1, LoopGrows
  <2>3. BenchTypes'
    <3>1. UNCHANGED <<phase, events, output>>
      BY <1>2, <1>5
    <3> QED BY <1>3, <1>p, <2>1, <2>2, <3>1 DEF BenchTypes
  <2>4. ASSUME Undisturbed' PROVE ~spans' /\ ArmedInv' /\ WaitInv'
    <3>1. ~spans /\ ArmedInv /\ WaitInv
      BY <1>2, <1>5, <2>4 DEF PaceInv, Undisturbed
    <3>2. wait < 2
      BY <2>1, <3>1 DEF WaitInv, Expected
    <3>3. ~spans' /\ (wait' = 0 \/ wait' = wait)
      BY <1>3, <3>1, <3>2
    <3>4. ArmedInv'
      <4>1. state' = "MASTER" => ~isNew'
        BY <2>1
      <4>2. syncTo' \in 0 .. SyncMs
        BY <2>1, <3>1 DEF ArmedInv, ArmedTo
      <4> QED BY <4>1, <4>2 DEF ArmedInv
    <3>5. tx' # <<>> => output # "t1" \/ wait' = 0
      BY <1>2, <1>p, PulseResets DEF Transmit
    <3>6. ASSUME (output' = "t1" \/ flight' = <<>>), wait' = 1
          PROVE  phase' < SyncMs - syncTo'
      <4>1. tx' = <<>> /\ wait = 1
        BY <2>2, <3>3, <3>5, <3>6
      <4>2. ~SyncDue /\ flight' = flight /\ ~isNew
        BY <2>1, <2>2, <3>1, <4>1 DEF ArmedInv
      <4> QED BY <1>2, <2>1, <3>1, <3>6, <4>1, <4>2 DEF WaitInv, ArmedTo
    <3>7. wait' < 2
      BY <1>3, <3>2
    <3> QED BY <3>3, <3>4, <3>6, <3>7 DEF WaitInv
  <2> QED BY <2>3, <2>4 DEF PaceInv
<1> QED BY <1>1, <1>4, <1>5

\* A Sync comes back.
LEMMA ReturnPace ==
  ASSUME BenchInv, Return, UNCHANGED output
  PROVE  BenchInv'
<1> USE DEF BenchInv
<1>1. /\ flight # <<>> /\ flight' = Tail(flight) /\ flight \in Seq(SeqIds)
      /\ UNCHANGED <<state, isNew, syncTo, seq, phase, events, late, output>>
      /\ wait \in 0 .. 2 /\ phase \in 0 .. PpsMs - 1 /\ seq \in SeqIds /\ output \in {"t1", "t4"}
      /\ events \in Seq(Disturbances)
  BY DEF Return, FrameArrives, ppi, BenchTypes
<1>2. /\ IF output = "t4" THEN wait' = 0 ELSE wait' = wait
      /\ wait < 2 /\ ~spans => ~spans'
  BY <1>1, PulseResets DEF Return, counter
<1>3. flight' \in Seq(SeqIds)
  BY <1>1, HeadTailProperties
<1>4. BenchTypes'
  BY <1>1, <1>2, <1>3 DEF BenchTypes
<1>5. ASSUME Undisturbed' PROVE ~spans' /\ ArmedInv' /\ WaitInv'
  <2>1. ~spans /\ ArmedInv /\ WaitInv
    BY <1>1, <1>5 DEF PaceInv, Undisturbed
  <2>2. wait < 2 /\ wait' < 2 /\ (wait' = 0 \/ wait' = wait) /\ ~spans'
    BY <1>1, <1>2, <2>1 DEF WaitInv, Expected
  <2>3. ArmedInv'
    BY <1>1, <2>1, <2>2 DEF ArmedInv
  <2>4. WaitInv'
    BY <1>1, <1>2, <2>1, <2>2 DEF WaitInv
  <2> QED BY <2>2, <2>3, <2>4
<1> QED BY <1>4, <1>5 DEF PaceInv

\* A tick: between two Syncs there is one PPS, since both are a second apart.
LEMMA TickPace ==
  ASSUME PpsMs = SyncMs, BenchInv, BenchTick, UNCHANGED output
  PROVE  BenchInv'
<1> USE DEF BenchInv
<1>0. SyncMs \in Nat \ {0} /\ PpsMs \in Nat \ {0}
  BY TimeAssumption
<1>1. /\ flight = <<>> /\ UNCHANGED <<state, isNew, seq, flight, spans, output>>
      /\ syncTo' = Down(syncTo) /\ phase' = NextPhase
      /\ seq \in SeqIds /\ flight \in Seq(SeqIds) /\ phase \in 0 .. PpsMs - 1
      /\ wait \in 0 .. 2 /\ output \in {"t1", "t4"} /\ events \in Seq(Disturbances)
  BY DEF BenchTick, Settled, Tick, BenchTypes
<1>2. /\ NextPhase \in 0 .. PpsMs - 1
      /\ NextPhase = 0 \/ NextPhase = phase + 1
      /\ NextPhase = 0 => phase = PpsMs - 1
  BY <1>0, <1>1 DEF NextPhase
<1>3. /\ \/ wait' = (IF NextPhase = 0 THEN Least(wait + 1, 2) ELSE wait) /\ UNCHANGED events
         \/ wait' = wait /\ events' # <<>>
      /\ events' \in Seq(Disturbances)
  BY <1>1, Disturbs DEF BenchTick
<1>4. wait' \in 0 .. 2
  BY <1>1, <1>3 DEF Least
<1>5. BenchTypes'
  BY <1>1, <1>2, <1>3, <1>4 DEF BenchTypes
<1>6. ASSUME Undisturbed' PROVE ~spans' /\ ArmedInv' /\ WaitInv'
  <2>1. ~late /\ events = <<>> /\ ~isNew /\ ~SyncDue
    BY <1>3, <1>6 DEF BenchTick, Undisturbed
  <2>2. ~spans /\ ArmedInv /\ WaitInv
    BY <2>1 DEF PaceInv, Undisturbed
  <2>3. wait' = IF NextPhase = 0 THEN Least(wait + 1, 2) ELSE wait
    BY <1>3, <1>6 DEF Undisturbed
  <2>4. CASE state # "MASTER"
    BY <1>1, <2>2, <2>4 DEF ArmedInv, WaitInv, Expected
  <2>5. CASE state = "MASTER"
    <3>1. syncTo \in 1 .. SyncMs /\ syncTo' = syncTo - 1
      BY <1>0, <1>1, <2>1, <2>2, <2>5 DEF ArmedInv, SyncDue, Down
    <3>2. wait < 2 /\ (wait = 1 => phase < SyncMs - syncTo)
      BY <1>1, <2>2, <2>5 DEF WaitInv, Expected
    <3>3. NextPhase = 0 => wait = 0 /\ wait' = 1
      BY <1>0, <1>1, <1>2, <2>3, <3>1, <3>2 DEF Least
    <3>4. wait' < 2 /\ (wait' = 1 => phase' < SyncMs - syncTo')
      <4>1. CASE NextPhase = 0
        BY <1>0, <1>1, <3>1, <3>3, <4>1
      <4>2. CASE NextPhase # 0
        BY <1>0, <1>1, <1>2, <2>3, <3>1, <3>2, <4>2
      <4> QED BY <4>1, <4>2
    <3>5. ArmedInv'
      BY <1>0, <1>1, <2>1, <3>1 DEF ArmedInv
    <3> QED BY <1>1, <2>2, <3>4, <3>5 DEF WaitInv
  <2> QED BY <2>4, <2>5
<1> QED BY <1>5, <1>6 DEF PaceInv

\* What is lost, or comes from elsewhere, is a disturbance.
LEMMA OtherPace ==
  ASSUME BenchInv, Lose \/ Foreign, UNCHANGED output
  PROVE  BenchInv'
<1> USE DEF BenchInv
<1>1. /\ seq \in SeqIds /\ flight \in Seq(SeqIds) /\ wait \in 0 .. 2
      /\ phase \in 0 .. PpsMs - 1 /\ output \in {"t1", "t4"}
      /\ events \in Seq(Disturbances)
  BY DEF BenchTypes
<1>2. flight # <<>> => Tail(flight) \in Seq(SeqIds)
  BY <1>1, HeadTailProperties
<1>3. events' \in Seq(Disturbances) /\ events' # <<>>
  BY <1>1, Disturbs DEF Lose, Foreign
<1>4. CASE Lose
  BY <1>1, <1>2, <1>3, <1>4 DEF Lose, vars, counter, BenchTypes, PaceInv, Undisturbed
<1>5. CASE Foreign
  <2>1. UNCHANGED <<seq, flight, phase>>
    BY <1>5 DEF Foreign, FrameArrives, ppi
  <2>2. wait' \in 0 .. 2
    BY <1>1, <1>5, PulseResets DEF Foreign, counter
  <2> QED BY <1>1, <1>3, <2>1, <2>2 DEF BenchTypes, PaceInv, Undisturbed
<1> QED BY <1>4, <1>5

LEMMA BenchBegins == BenchInit => BenchInv
<1> SUFFICES ASSUME BenchInit PROVE BenchInv
  OBVIOUS
<1>1. 0 \in SeqIds /\ output \in {"t1", "t4"} /\ <<>> \in Seq(SeqIds)
      /\ <<>> \in Seq(Disturbances)
  BY DataAssumption, BenchAssumption DEF BenchInit, SeqIds
<1> QED BY <1>1 DEF BenchInit, BenchInv, BenchTypes, PaceInv, ArmedInv, WaitInv

\* fsm.c and the counter: with a PPS and a Sync a second, a reading that
\* began before the last PPS shows that the machine was late, or a disturbance.
THEOREM ReadingsAreShort ==
  ASSUME PpsMs = SyncMs
  PROVE  BenchSpec => []ReadingsInSecond
<1>1. BenchInv /\ [BenchNext]_<<vars, bench>> => BenchInv'
  <2> SUFFICES ASSUME BenchInv, [BenchNext]_<<vars, bench>> PROVE BenchInv'
    OBVIOUS
  <2>1. CASE BenchNext
    BY <2>1, IssuePace, ReturnPace, TickPace, OtherPace DEF BenchNext
  <2>2. CASE UNCHANGED <<vars, bench>>
    BY <2>2 DEF vars, bench, BenchInv, BenchTypes, PaceInv, Undisturbed, ArmedInv, WaitInv, Expected
  <2> QED BY <2>1, <2>2
<1>2. BenchInv => ReadingsInSecond
  BY DEF BenchInv, PaceInv, Undisturbed, ReadingsInSecond
<1> QED BY <1>1, <1>2, BenchBegins, PTL DEF BenchSpec
-----------------------------------------------------------------------------
(* Induction over what is printed.  The library states induction for a     *)
(* predicate; here it is stated for a set, by way of least elements.       *)

\* A set of numbers that is not empty has a least element.
LEMMA LeastOf ==
  ASSUME NEW T, T \subseteq Nat, T # {}
  PROVE  \E x \in T : \A y \in T : x <= y
<1> DEFINE R == OpToRel(<, Nat)
<1>1. IsWellFoundedOn(R, Nat)
  BY NatLessThanWellFounded
<1>2. \A x, y \in Nat : <<y, x>> \in R <=> y < x
  BY DEF OpToRel
<1> HIDE DEF R
<1>3. PICK x \in T : \A y \in T : ~ (<<y, x>> \in R)
  BY <1>1, WFMin
<1>4. ASSUME NEW y \in T PROVE x <= y
  <2>1. x \in Nat /\ y \in Nat
    OBVIOUS
  <2>2. ~ (<<y, x>> \in R)
    BY <1>3
  <2>3. ~ (y < x)
    BY <1>2, <2>1, <2>2
  <2> QED BY <2>1, <2>3
<1> QED BY <1>4

\* Induction, over a set in place of a predicate: a set that holds 0 and with
\* every number the next holds them all.
LEMMA SetInduction ==
  ASSUME NEW S, 0 \in S, \A n \in Nat : n \in S => n + 1 \in S
  PROVE  Nat \subseteq S
<1> DEFINE T == Nat \ S
<1>1. SUFFICES ASSUME T # {} PROVE FALSE
  OBVIOUS
<1>2. PICK x \in T : \A y \in T : x <= y
  BY <1>1, LeastOf
<1>3. x # 0 /\ x - 1 \in Nat /\ x - 1 \notin T
  BY <1>2
<1>4. x - 1 \in S /\ (x - 1) + 1 = x
  BY <1>3
<1> QED BY <1>2, <1>3, <1>4

-----------------------------------------------------------------------------
(* The console, token by token.                                           *)

\* The consoles there can be.
Consoles == [log : Seq(Seq(Tokens)), line : Seq(Tokens)]

\* Of its first n tokens; a function that is one turn of the recursion ahead of itself.
PrintsUpto(f, c, text, n) ==
  f = [k \in 0 .. n |-> IF k = 0 THEN c ELSE PrintToken(f[k - 1], text[k])]

\* There is such a function for every n: each is the one before and a turn more.
LEMMA PrintExists ==
  ASSUME NEW c, NEW text
  PROVE  \A n \in Nat : \E f : PrintsUpto(f, c, text, n)
<1> DEFINE S == {n \in Nat : \E f : PrintsUpto(f, c, text, n)}
<1>1. 0 \in S
  <2> DEFINE f == [k \in 0 .. 0 |-> c]
  <2>1. PrintsUpto(f, c, text, 0)
    BY DEF PrintsUpto
  <2> QED BY <2>1
<1>2. ASSUME NEW n \in Nat, n \in S PROVE n + 1 \in S
  <2>1. PICK f : PrintsUpto(f, c, text, n)
    BY <1>2
  <2> DEFINE g == [k \in 0 .. n + 1 |-> IF k = n + 1 THEN PrintToken(f[n], text[n + 1]) ELSE f[k]]
  <2>2. \A k \in 0 .. n : g[k] = f[k]
    OBVIOUS
  <2>3. \A k \in 0 .. n : f[k] = IF k = 0 THEN c ELSE PrintToken(f[k - 1], text[k])
    BY <2>1 DEF PrintsUpto
  <2>4. ASSUME NEW k \in 0 .. n + 1
        PROVE  g[k] = IF k = 0 THEN c ELSE PrintToken(g[k - 1], text[k])
    <3>1. CASE k = n + 1
      <4>1. g[k] = PrintToken(f[n], text[n + 1]) /\ k # 0 /\ k - 1 = n
        BY <3>1
      <4>2. g[n] = f[n]
        BY <2>2
      <4> QED BY <3>1, <4>1, <4>2
    <3>2. CASE k # n + 1
      <4>1. k \in 0 .. n /\ (k # 0 => k - 1 \in 0 .. n)
        BY <3>2
      <4> HIDE DEF g
      <4> QED BY <2>2, <2>3, <4>1
    <3> QED BY <3>1, <3>2
  <2>5. PrintsUpto(g, c, text, n + 1)
    <3>1. DOMAIN g = 0 .. n + 1 /\ g = [k \in 0 .. n + 1 |-> g[k]]
      OBVIOUS
    <3> HIDE DEF g
    <3> QED BY <2>4, <3>1 DEF PrintsUpto
  <2> QED BY <2>5
<1> HIDE DEF S
<1>3. Nat \subseteq S
  BY <1>1, <1>2, SetInduction
<1> QED BY <1>3 DEF S

\* What Printed computes, step by step.
LEMMA PrintSteps ==
  ASSUME NEW c, NEW text, Len(text) \in Nat
  PROVE  \E f : PrintsUpto(f, c, text, Len(text)) /\ Printed(c, text) = f[Len(text)]
<1> DEFINE f == CHOOSE g : PrintsUpto(g, c, text, Len(text))
<1>1. PrintsUpto(f, c, text, Len(text))
  <2>1. \E g : PrintsUpto(g, c, text, Len(text))
    BY PrintExists
  <2> QED BY <2>1
<1>2. Printed(c, text) = f[Len(text)]
  BY Zenon DEF Printed, PrintsUpto
<1> HIDE DEF f
<1> QED BY <1>1, <1>2

\* Two such functions agree as far as both go.
LEMMA PrintUnique ==
  ASSUME NEW c, NEW text, NEW u, NEW m \in Nat, NEW n \in Nat, m <= n,
         NEW f, PrintsUpto(f, c, text, m), NEW g, PrintsUpto(g, c, u, n),
         \A k \in 1 .. m : text[k] = u[k]
  PROVE  f[m] = g[m]
<1> DEFINE S == {k \in Nat : k <= m => f[k] = g[k]}
<1>1. 0 \in S
  BY DEF PrintsUpto
<1>2. ASSUME NEW k \in Nat, k \in S PROVE k + 1 \in S
  <2> SUFFICES ASSUME k + 1 <= m PROVE f[k + 1] = g[k + 1]
    OBVIOUS
  <2>1. k + 1 \in 0 .. m /\ k + 1 \in 0 .. n /\ k + 1 \in 1 .. m /\ k + 1 # 0 /\ (k + 1) - 1 = k
    OBVIOUS
  <2>2. f[k + 1] = PrintToken(f[k], text[k + 1])
    BY <2>1 DEF PrintsUpto
  <2>3. g[k + 1] = PrintToken(g[k], u[k + 1])
    BY <2>1 DEF PrintsUpto
  <2>4. f[k] = g[k]
    BY <1>2, <2>1
  <2> QED BY <2>1, <2>2, <2>3, <2>4
<1> HIDE DEF S
<1>3. m \in S
  BY <1>1, <1>2, SetInduction
<1> QED BY <1>3 DEF S

\* A call that prints nothing leaves the console alone.
LEMMA PrintNothing == ASSUME NEW c PROVE Printed(c, <<>>) = c
<1>1. Len(<<>>) = 0
  OBVIOUS
<1>2. PICK f : PrintsUpto(f, c, <<>>, 0) /\ Printed(c, <<>>) = f[0]
  BY <1>1, PrintSteps
<1> QED BY <1>2 DEF PrintsUpto

\* A token more, printed after the others.
LEMMA PrintMore ==
  ASSUME NEW c, NEW text \in Seq(Tokens), NEW x \in Tokens
  PROVE  Printed(c, Append(text, x)) = PrintToken(Printed(c, text), x)
<1> DEFINE n == Len(text)
           u == Append(text, x)
<1>1. n \in Nat /\ Len(u) = n + 1 /\ u[n + 1] = x /\ \A k \in 1 .. n : text[k] = u[k]
  BY AppendProperties
<1> HIDE DEF u
<1>2. PICK f : PrintsUpto(f, c, text, n) /\ Printed(c, text) = f[n]
  BY <1>1, PrintSteps
<1>3. PICK g : PrintsUpto(g, c, u, n + 1) /\ Printed(c, u) = g[n + 1]
  BY <1>1, PrintSteps
<1> HIDE DEF n
<1>4. f[n] = g[n]
  BY <1>1, <1>2, <1>3, PrintUnique
<1>5. g[n + 1] = PrintToken(g[n], u[n + 1])
  <2>1. n + 1 \in 0 .. n + 1 /\ n + 1 # 0 /\ (n + 1) - 1 = n
    BY <1>1
  <2> QED BY <1>3, <2>1 DEF PrintsUpto
<1> QED BY <1>1, <1>2, <1>3, <1>4, <1>5 DEF u

\* The lines of l are the first of m.
Grows(l, m) == Len(l) <= Len(m) /\ \A i \in 1 .. Len(l) : m[i] = l[i]

\* A token ends the open line, or is put on it.
LEMMA TokenEnds ==
  ASSUME NEW c \in Consoles, NEW x \in Tokens, x.kind \in LineEnds
  PROVE  LET d == PrintToken(c, x)
         IN  /\ d \in Consoles /\ d.line = <<>>
             /\ Len(d.log) = Len(c.log) + 1
             /\ d.log[Len(c.log) + 1] = Append(c.line, x)
             /\ Grows(c.log, d.log)
<1> DEFINE l == Append(c.line, x)
           d == PrintToken(c, x)
<1>1. c.log \in Seq(Seq(Tokens)) /\ c.line \in Seq(Tokens)
  BY DEF Consoles
<1>2. l \in Seq(Tokens)
  BY <1>1, AppendProperties
<1>3. d.log = Append(c.log, l) /\ d.line = <<>> /\ d = [log |-> Append(c.log, l), line |-> <<>>]
  BY DEF PrintToken
<1> HIDE DEF l, d
<1>4. /\ d.log \in Seq(Seq(Tokens)) /\ Len(d.log) = Len(c.log) + 1 /\ Len(c.log) \in Nat
      /\ d.log[Len(c.log) + 1] = l
      /\ \A i \in 1 .. Len(c.log) : d.log[i] = c.log[i]
  BY <1>1, <1>2, <1>3, AppendProperties
<1>5. d \in Consoles
  BY <1>3, <1>4, EmptySeq DEF Consoles
<1>6. Grows(c.log, d.log)
  BY <1>4 DEF Grows
<1> QED BY <1>3, <1>4, <1>5, <1>6 DEF l, d

\* A token whose printf does not end the line only makes the open line longer.
LEMMA TokenStays ==
  ASSUME NEW c \in Consoles, NEW x \in Tokens, x.kind \notin LineEnds
  PROVE  LET d == PrintToken(c, x)
         IN  d \in Consoles /\ d.line = Append(c.line, x) /\ d.log = c.log
<1> DEFINE l == Append(c.line, x)
<1>1. c.log \in Seq(Seq(Tokens)) /\ c.line \in Seq(Tokens)
  BY DEF Consoles
<1>2. l \in Seq(Tokens)
  BY <1>1, AppendProperties
<1>3. PrintToken(c, x) = [log |-> c.log, line |-> l]
  BY DEF PrintToken, Consoles
<1> HIDE DEF l
<1> QED BY <1>1, <1>2, <1>3 DEF Consoles, l

\* A console that grows and grows has grown.
LEMMA GrowsFurther ==
  ASSUME NEW j \in Seq(Seq(Tokens)), NEW l \in Seq(Seq(Tokens)), NEW m \in Seq(Seq(Tokens)),
         Grows(j, l), Grows(l, m)
  PROVE  Grows(j, m)
<1>1. Len(j) \in Nat /\ Len(l) \in Nat /\ Len(m) \in Nat
  BY LenProperties
<1> QED BY <1>1 DEF Grows

\* A text leaves the lines that are complete.
LEMMA PrintGrows ==
  ASSUME NEW c \in Consoles, NEW text \in Seq(Tokens)
  PROVE  Printed(c, text) \in Consoles /\ Grows(c.log, Printed(c, text).log)
<1> DEFINE n == Len(text)
<1>1. n \in Nat
  BY LenProperties
<1>2. PICK f : PrintsUpto(f, c, text, n) /\ Printed(c, text) = f[n]
  BY <1>1, PrintSteps
<1> DEFINE S == {k \in Nat : k <= n => f[k] \in Consoles /\ Grows(c.log, f[k].log)}
<1>3. 0 \in S
  <2>1. f[0] = c
    BY <1>1, <1>2 DEF PrintsUpto
  <2>2. Grows(c.log, c.log)
    <3>1. Len(c.log) \in Nat
      BY LenProperties DEF Consoles
    <3> QED BY <3>1 DEF Grows
  <2> QED BY <2>1, <2>2
<1>4. ASSUME NEW k \in Nat, k \in S PROVE k + 1 \in S
  <2> SUFFICES ASSUME k + 1 <= n
               PROVE  f[k + 1] \in Consoles /\ Grows(c.log, f[k + 1].log)
    OBVIOUS
  <2>1. k + 1 \in 0 .. n /\ k + 1 # 0 /\ (k + 1) - 1 = k /\ k + 1 \in 1 .. n /\ k <= n
    BY <1>1
  <2> DEFINE x == text[k + 1]
  <2>2. f[k + 1] = PrintToken(f[k], x)
    BY <1>2, <2>1 DEF PrintsUpto
  <2>3. f[k] \in Consoles /\ Grows(c.log, f[k].log)
    BY <1>4, <2>1
  <2>4. x \in Tokens
    BY <2>1, ElementOfSeq
  <2> HIDE DEF x
  <2> DEFINE d == PrintToken(f[k], x)
  <2>5. d \in Consoles /\ Grows(f[k].log, d.log)
    <3>1. CASE x.kind \in LineEnds
      BY <2>3, <2>4, <3>1, TokenEnds
    <3>2. CASE x.kind \notin LineEnds
      <4>1. d \in Consoles /\ d.log = f[k].log
        BY <2>3, <2>4, <3>2, TokenStays
      <4>2. Len(d.log) \in Nat
        BY <4>1, LenProperties DEF Consoles
      <4> HIDE DEF d
      <4> QED BY <4>1, <4>2 DEF Grows
    <3> QED BY <3>1, <3>2
  <2> HIDE DEF d
  <2>6. c.log \in Seq(Seq(Tokens)) /\ f[k].log \in Seq(Seq(Tokens)) /\ d.log \in Seq(Seq(Tokens))
    BY <2>3, <2>5 DEF Consoles
  <2>7. Grows(c.log, d.log)
    BY <2>3, <2>5, <2>6, GrowsFurther
  <2> QED BY <2>2, <2>5, <2>7 DEF d
<1> HIDE DEF S
<1>5. n \in S
  BY <1>1, <1>3, <1>4, SetInduction
<1> HIDE DEF n
<1> QED BY <1>2, <1>5 DEF S

-----------------------------------------------------------------------------
(* The reading of the file.                                                *)

\* The width of short lines.
LEMMA FieldsOfOne ==
  ASSUME NEW a \in Tokens
  PROVE  FieldCount(<<a>>) = (IF a.kind \in LineEnds THEN 0 ELSE 1) + FieldsOf(a)
<1> DEFINE z == IF a.kind \in LineEnds THEN 0 ELSE 1
           P(g) == g = [n \in 0 .. 1 |-> IF n = 0 THEN z ELSE g[n - 1] + FieldsOf(<<a>>[n])]
           h == [n \in 0 .. 1 |-> IF n = 0 THEN z ELSE z + FieldsOf(a)]
           f == CHOOSE g : P(g)
<1>1. P(h)
  OBVIOUS
<1>2. P(f)
  BY <1>1
<1>3. Len(<<a>>) = 1 /\ Last(<<a>>) = a
  BY DEF Last
<1>4. FieldCount(<<a>>) = f[1]
  BY <1>3, Zenon DEF FieldCount
<1> HIDE DEF f, z
<1>5. f[0] = z /\ f[1] = f[0] + FieldsOf(<<a>>[1])
  BY <1>2
<1> QED BY <1>4, <1>5 DEF z

\* The same for a line of two tokens.
LEMMA FieldsOfTwo ==
  ASSUME NEW a \in Tokens, NEW b \in Tokens
  PROVE  FieldCount(<<a, b>>)
           = ((IF b.kind \in LineEnds THEN 0 ELSE 1) + FieldsOf(a)) + FieldsOf(b)
<1> DEFINE z == IF b.kind \in LineEnds THEN 0 ELSE 1
           P(g) == g = [n \in 0 .. 2 |-> IF n = 0 THEN z ELSE g[n - 1] + FieldsOf(<<a, b>>[n])]
           h == [n \in 0 .. 2 |-> IF n = 0 THEN z ELSE IF n = 1 THEN z + FieldsOf(a)
                                  ELSE (z + FieldsOf(a)) + FieldsOf(b)]
           f == CHOOSE g : P(g)
<1>1. P(h)
  OBVIOUS
<1>2. P(f)
  BY <1>1
<1>3. Len(<<a, b>>) = 2 /\ Last(<<a, b>>) = b
  BY DEF Last
<1>4. FieldCount(<<a, b>>) = f[2]
  BY <1>3, Zenon DEF FieldCount
<1> HIDE DEF f, z
<1>5. f[0] = z /\ f[1] = f[0] + FieldsOf(<<a, b>>[1]) /\ f[2] = f[1] + FieldsOf(<<a, b>>[2])
  BY <1>2
<1> QED BY <1>4, <1>5 DEF z

\* tic_gui.py:80-84: the lines read are the first of the file, up to one with
\* less than six fields.
LEMMA ReadIsPrefix ==
  ASSUME NEW file \in Seq(Seq(Tokens))
  PROVE  \E n \in 0 .. Len(file) :
           /\ Read(file) \in Seq(Seq(Tokens)) /\ Len(Read(file)) = n
           /\ \A i \in 1 .. n : Read(file)[i] = file[i] /\ ~ (FieldCount(file[i]) < 6)
           /\ n < Len(file) => FieldCount(file[n + 1]) < 6
<1> DEFINE short == {i \in DOMAIN file : FieldCount(file[i]) < 6}
<1>1. Len(file) \in Nat /\ DOMAIN file = 1 .. Len(file)
  BY LenProperties
<1>2. CASE short = {}
  <2>1. Read(file) = file
    BY <1>2 DEF Read
  <2>2. \A i \in 1 .. Len(file) : ~ (FieldCount(file[i]) < 6)
    BY <1>1, <1>2
  <2>3. Len(file) \in 0 .. Len(file) /\ ~ (Len(file) < Len(file))
    BY <1>1
  <2> HIDE DEF short
  <2> QED BY <2>1, <2>2, <2>3
<1>3. CASE short # {}
  <2>1. \E x \in short : \A y \in short : x <= y
    <3>1. short \subseteq Nat
      BY <1>1
    <3> HIDE DEF short
    <3> QED BY <1>3, <3>1, LeastOf
  <2>2. Min(short) \in short /\ \A y \in short : Min(short) <= y
    BY <2>1, Zenon DEF Min
  <2> DEFINE m == Min(short)
  <2>3. Read(file) = SubSeq(file, 1, m - 1)
    BY <1>3 DEF Read
  <2>4. m \in 1 .. Len(file) /\ FieldCount(file[m]) < 6
    BY <1>1, <2>2
  <2>5. \A i \in 1 .. m - 1 : ~ (FieldCount(file[i]) < 6)
    <3> SUFFICES ASSUME NEW i \in 1 .. m - 1, FieldCount(file[i]) < 6 PROVE FALSE
      OBVIOUS
    <3>1. i \in 1 .. Len(file) /\ i < m
      BY <1>1, <2>4
    <3>2. i \in short
      BY <1>1, <3>1
    <3>3. m <= i
      BY <2>2, <3>2
    <3> HIDE DEF m
    <3> QED BY <2>4, <3>1, <3>3
  <2> HIDE DEF m, short
  <2>6. \A i \in 1 .. m - 1 : file[i] \in Seq(Tokens)
    BY <1>1, <2>4, ElementOfSeq
  <2>7. /\ Read(file) \in Seq(Seq(Tokens)) /\ Len(Read(file)) = m - 1
        /\ \A i \in 1 .. m - 1 : Read(file)[i] = file[i]
    <3>1. m - 1 \in Int /\ 1 \in Int /\ (m - 1) - 1 + 1 = m - 1
      BY <2>4
    <3>2. /\ SubSeq(file, 1, m - 1) \in Seq(Seq(Tokens))
          /\ Len(SubSeq(file, 1, m - 1)) = IF 1 <= m - 1 THEN (m - 1) - 1 + 1 ELSE 0
          /\ \A i \in 1 .. (m - 1) - 1 + 1 : SubSeq(file, 1, m - 1)[i] = file[1 + i - 1]
      BY <2>6, <3>1, SubSeqProperties
    <3> QED BY <2>3, <2>4, <3>2
  <2>8. m - 1 \in 0 .. Len(file) /\ (m - 1) + 1 = m
    BY <1>1, <2>4
  <2> QED BY <2>4, <2>5, <2>7, <2>8
<1> QED BY <1>2, <1>3

\* tic_gui.py:80-107: row i is of line i, and no line up to it stops the reading.
LEMMA RowIsOfLine ==
  ASSUME NEW file \in Seq(Seq(Tokens)), NEW i \in 1 .. Len(Rows(file))
  PROVE  /\ i \in 1 .. Len(file) /\ Rows(file)[i] = Row(file[i])
         /\ \A j \in 1 .. i : /\ ~ (FieldCount(file[j]) < 6)
                              /\ file[j][1].kind \in Stamps /\ file[j][2].kind \in Stamps
<1>1. PICK n \in 0 .. Len(file) :
           /\ Read(file) \in Seq(Seq(Tokens)) /\ Len(Read(file)) = n
           /\ \A k \in 1 .. n : Read(file)[k] = file[k] /\ ~ (FieldCount(file[k]) < 6)
  BY ReadIsPrefix
<1>2. Len(file) \in Nat /\ DOMAIN Read(file) = 1 .. n
  BY <1>1, LenProperties
<1>3. ~ Raises(file)
  BY DEF Rows
<1>4. Rows(file) = [k \in 1 .. n |-> Row(Read(file)[k])]
  BY <1>2, <1>3 DEF Rows
<1>5. Len(Rows(file)) = n
  BY <1>1, <1>4
<1>6. \A j \in 1 .. n : Read(file)[j][1].kind \in Stamps /\ Read(file)[j][2].kind \in Stamps
  BY <1>2, <1>3 DEF Raises, Range
<1>7. i \in 1 .. n /\ i \in 1 .. Len(file)
  BY <1>2, <1>5
<1>8. Rows(file)[i] = Row(file[i])
  BY <1>1, <1>4, <1>7
<1>9. ASSUME NEW j \in 1 .. i
      PROVE  /\ ~ (FieldCount(file[j]) < 6)
             /\ file[j][1].kind \in Stamps /\ file[j][2].kind \in Stamps
  <2>1. j \in 1 .. n
    BY <1>7
  <2>2. Read(file)[j] = file[j] /\ ~ (FieldCount(file[j]) < 6)
    BY <1>1, <2>1
  <2> QED BY <1>6, <2>1, <2>2
<1> QED BY <1>7, <1>8, <1>9

-----------------------------------------------------------------------------
(* What a call prints.                                                     *)

\* The tokens of the sequenceIds.
LEMMA TokenTypes ==
  /\ \A i \in SeqIds : /\ Token("t1", i) \in Tokens /\ Token("t4", i) \in Tokens
                       /\ Token("resp", i) \in Tokens
  /\ Token("err", 0) \in Tokens
<1>1. 0 \in SeqIds
  BY DataAssumption DEF SeqIds
<1> QED BY <1>1 DEF Token, Tokens

\* fsm.c:115-118: the error line is all that is put behind the text of a call.
LEMMA ConcludePrints ==
  ASSUME NEW next, NEW e, NEW d, NEW text \in Seq(Tokens), Conclude(next, e, d, text)
  PROVE  /\ out' \in Seq(Tokens)
         /\ out' = IF e = 0 THEN text ELSE Append(text, Token("err", 0))
<1>1. out' = text \o ErrText(e)
  BY DEF Conclude
<1>2. Token("err", 0) \in Tokens
  BY TokenTypes
<1>3. CASE e = 0
  BY <1>1, <1>3, ConcatEmptySeq DEF ErrText
<1>4. CASE e # 0
  <2>1. out' = text \o <<Token("err", 0)>>
    BY <1>1, <1>4 DEF ErrText
  <2>2. out' = Append(text, Token("err", 0))
    BY <1>2, <2>1, AppendIsConcat
  <2> QED BY <1>2, <1>4, <2>2, AppendProperties
<1> QED BY <1>3, <1>4

\* state-master.c:98-167: only a message of another node can be refused, and
\* only a Delay_Req is answered.
LEMMA MsgPrints ==
  ASSUME NEW f \in Input, NEW text \in Seq(Tokens), NEW sent, MasterMsg(f, text, sent)
  PROVE  /\ out' \in Seq(Tokens)
         /\ isNew' = (state' # state)
         /\ f.kind # "delay_req" =>
              /\ tx' = sent
              /\ \/ out' = text
                 \/ f # NoFrame /\ f.kind # "own" /\ out' = Append(text, Token("err", 0))
<1>1. \A next, t : t \in Seq(Tokens) /\ MasterOk(next, t) =>
           out' \in Seq(Tokens) /\ out' = t /\ isNew' = (state' # state)
  <2> SUFFICES ASSUME NEW next, NEW t \in Seq(Tokens), MasterOk(next, t)
               PROVE  out' \in Seq(Tokens) /\ out' = t /\ isNew' = (state' # state)
    OBVIOUS
  <2>1. PICK n, d : Conclude(n, 0, d, t)
    BY DEF MasterOk
  <2>2. out' \in Seq(Tokens) /\ out' = t
    BY <2>1, ConcludePrints
  <2> QED BY <2>1, <2>2 DEF Conclude
<1>2. MasterFault(text) => /\ out' \in Seq(Tokens) /\ out' = Append(text, Token("err", 0))
                           /\ isNew' = (state' # state)
  <2> SUFFICES ASSUME MasterFault(text)
               PROVE  /\ out' \in Seq(Tokens) /\ out' = Append(text, Token("err", 0))
                      /\ isNew' = (state' # state)
    OBVIOUS
  <2>1. Conclude("FAULTY", -1, FaultMs, text) /\ -1 # 0
    BY DEF MasterFault
  <2> QED BY <2>1, ConcludePrints DEF Conclude
<1>3. text \o SendText("resp", f.id) \in Seq(Tokens)
  BY InputId, TextTypes, ConcatProperties
<1>4. Unpacked(f).kind # "none" => f # NoFrame /\ f.kind # "own"
  BY DEF Unpacked, NoFrame
<1>5. f.kind # "delay_req" => Unpacked(f).kind # "delay_req"
  BY DEF Unpacked, NoFrame
<1>6. CASE tx' = sent /\ (MasterOk("MASTER", text) \/ MasterOk("LISTENING", text))
  BY <1>1, <1>6
<1>7. CASE Unpacked(f).kind # "none" /\ tx' = sent /\ MasterFault(text)
  BY <1>2, <1>4, <1>7
<1>8. CASE Unpacked(f).kind = "delay_req" /\ MasterOk("MASTER", text \o SendText("resp", f.id))
  BY <1>1, <1>3, <1>5, <1>8
<1> QED BY <1>6, <1>7, <1>8 DEF MasterMsg

\* The text of a call up to its message, and the console after it.
Stamped(f) == IF f = NoFrame THEN con ELSE PrintToken(con, Token("t4", f.id))
Issued(f)  == IF SyncDue THEN PrintToken(Stamped(f), Token("t1", NextSeq)) ELSE Stamped(f)

\* wrpc-socket.c:145-153, 187-260 and state-master.c:68-167: a call prints the
\* receive stamp, the send stamp of its Sync, and, where a message is refused,
\* the error; the console grows by that, in that order.
LEMMA CallPrints ==
  ASSUME seq \in SeqIds, con \in Consoles, NEW f \in Input, MasterQuiet(f) \/ MasterSync(f),
         con' = Printed(con, out')
  PROVE  /\ out' \in Seq(Tokens)
         /\ isNew' = (state' # state)
         /\ f.kind # "delay_req" =>
              /\ tx' = IF SyncDue THEN <<[kind |-> "sync", id |-> NextSeq]>> ELSE <<>>
              /\ f = NoFrame \/ f.kind = "own" =>
                   out' = IF SyncDue THEN Append(RecvText(f), Token("t1", NextSeq)) ELSE RecvText(f)
              /\ \/ con' = Issued(f)
                 \/ f # NoFrame /\ f.kind # "own" /\ con' = PrintToken(Issued(f), Token("err", 0))
<1> DEFINE r == RecvText(f)
           t == IF SyncDue THEN Append(r, Token("t1", NextSeq)) ELSE r
           s == IF SyncDue THEN <<[kind |-> "sync", id |-> NextSeq]>> ELSE <<>>
<1>1. r \in Seq(Tokens) /\ Token("t1", NextSeq) \in Tokens /\ f.id \in SeqIds
      /\ Token("t4", f.id) \in Tokens
  BY NextSeqType, TextTypes, TokenTypes, InputId
<1>2. SyncDue => t = r \o SendText("t1", NextSeq)
  <2> HIDE DEF r
  <2> QED BY <1>1, AppendIsConcat DEF SendText
<1>3. t \in Seq(Tokens)
  <2> HIDE DEF r
  <2> QED BY <1>1, AppendProperties
<1>4. MasterMsg(f, t, s)
  BY <1>2 DEF MasterQuiet, MasterSync
<1>5. Printed(con, r) = Stamped(f)
  <2>1. CASE f = NoFrame
    BY <2>1, PrintNothing DEF RecvText, Stamped
  <2>2. CASE f # NoFrame
    <3>1. r = Append(<<>>, Token("t4", f.id))
      BY <2>2 DEF RecvText
    <3>2. Printed(con, Append(<<>>, Token("t4", f.id))) = PrintToken(Printed(con, <<>>), Token("t4", f.id))
      BY <1>1, PrintMore, EmptySeq
    <3>3. Printed(con, <<>>) = con
      BY PrintNothing
    <3> QED BY <2>2, <3>1, <3>2, <3>3 DEF Stamped
  <2> QED BY <2>1, <2>2
<1>6. Printed(con, t) = Issued(f)
  <2> HIDE DEF r
  <2> QED BY <1>1, <1>5, PrintMore DEF Issued
<1> HIDE DEF r, t, s
<1>7. /\ out' \in Seq(Tokens) /\ isNew' = (state' # state)
      /\ f.kind # "delay_req" =>
           /\ tx' = s
           /\ \/ out' = t
              \/ f # NoFrame /\ f.kind # "own" /\ out' = Append(t, Token("err", 0))
  BY <1>3, <1>4, MsgPrints
<1>8. Printed(con, Append(t, Token("err", 0))) = PrintToken(Issued(f), Token("err", 0))
  BY <1>3, <1>6, PrintMore, TokenTypes
<1>9. f.kind # "delay_req" =>
              /\ f = NoFrame \/ f.kind = "own" => out' = t
              /\ \/ con' = Issued(f)
                 \/ f # NoFrame /\ f.kind # "own" /\ con' = PrintToken(Issued(f), Token("err", 0))
  BY <1>6, <1>7, <1>8
<1> QED BY <1>7, <1>9 DEF r, s, t

\* The text of any call is made of tokens.
LEMMA CallTokens ==
  ASSUME seq \in SeqIds, con \in Consoles, NEW f \in Input,
         MasterQuiet(f) \/ MasterSync(f) \/ MasterSyncError(f), con' = Printed(con, out')
  PROVE  con' \in Consoles /\ Grows(con.log, con'.log)
<1>1. out' \in Seq(Tokens)
  <2>1. CASE MasterQuiet(f) \/ MasterSync(f)
    BY <2>1, CallPrints
  <2>2. CASE MasterSyncError(f)
    <3>1. PICK d : Conclude("MASTER", 0, d, RecvText(f) \o SendText("t1", NextSeq))
      BY <2>2 DEF MasterSyncError, MasterNoStamp
    <3>2. RecvText(f) \o SendText("t1", NextSeq) \in Seq(Tokens)
      BY NextSeqType, TextTypes, ConcatProperties
    <3> QED BY <3>1, <3>2, ConcludePrints
  <2> QED BY <2>1, <2>2
<1> QED BY <1>1, PrintGrows

-----------------------------------------------------------------------------
(* The lines of the file.                                                 *)

AnyFrames == [kind : Kinds, id : SeqIds]

RecordTypes ==
  /\ con \in Consoles /\ rxq \in Seq(AnyFrames)
  /\ tic \in Seq(Tokens) /\ clean \in Nat

Whole(i) == <<Token("t1", i), Token("t4", i)>>

WholeLog(log) == \A i \in 1 .. Len(log) : log[i] = Whole(i)

\* The lines written before the first disturbance stay as they are.
CleanInv ==
  /\ clean <= Len(con.log)
  /\ \A i \in 1 .. clean : con.log[i] = Whole(i)

\* The console c after s Syncs, the last of which has its t4, or has not.
Shut(c, s) == c.line = <<>> /\ Len(c.log) = s
Open(c, s) == c.line = <<Token("t1", s)>> /\ Len(c.log) = s - 1

\* A line at which the reading ends, or fails.
StopLine(line) == Len(line) = 1 /\ line[1].kind \in LineEnds
Broken(log)    == \E j \in 1 .. Len(log) : StopLine(log[j])

\* Up to there every line starts with its own t1.
Led(log) ==
  \A i \in 1 .. Len(log) : log[i][1] = Token("t1", i) \/ \E j \in 1 .. i : StopLine(log[j])

\* What ends the reading of a file ends it when more is written.
LEMMA BrokenStays ==
  ASSUME NEW l \in Seq(Seq(Tokens)), NEW m \in Seq(Seq(Tokens)), Grows(l, m), Broken(l)
  PROVE  Broken(m)
<1>1. Len(l) \in Nat /\ Len(m) \in Nat
  BY LenProperties
<1>2. PICK j \in 1 .. Len(l) : StopLine(l[j])
  BY DEF Broken
<1>3. j \in 1 .. Len(m) /\ m[j] = l[j]
  BY <1>1 DEF Grows
<1> QED BY <1>2, <1>3 DEF Broken

\* Another line after lines that were led.
LEMMA LedGrows ==
  ASSUME NEW l \in Seq(Seq(Tokens)), NEW m \in Seq(Seq(Tokens)), Grows(l, m),
         Len(m) = Len(l) + 1, Led(l),
         \/ Broken(l)
         \/ StopLine(m[Len(l) + 1])
         \/ m[Len(l) + 1][1] = Token("t1", Len(l) + 1)
  PROVE  Led(m)
<1>1. Len(l) \in Nat /\ Len(m) \in Nat
  BY LenProperties
<1> SUFFICES ASSUME NEW i \in 1 .. Len(m)
             PROVE  m[i][1] = Token("t1", i) \/ \E j \in 1 .. i : StopLine(m[j])
  BY DEF Led
<1>2. CASE i \in 1 .. Len(l)
  <2>1. m[i] = l[i] /\ \A j \in 1 .. i : m[j] = l[j]
    BY <1>1, <1>2 DEF Grows
  <2> QED BY <1>2, <2>1 DEF Led
<1>3. CASE i = Len(l) + 1
  <2>1. CASE Broken(l)
    <3>1. PICK j \in 1 .. Len(l) : StopLine(l[j])
      BY <2>1 DEF Broken
    <3>2. j \in 1 .. i /\ m[j] = l[j]
      BY <1>1, <1>3 DEF Grows
    <3> QED BY <3>1, <3>2
  <2>2. i \in 1 .. i
    BY <1>1, <1>3
  <2> QED BY <1>3, <2>1, <2>2
<1>4. i \in 1 .. Len(l) \/ i = Len(l) + 1
  BY <1>1
<1> QED BY <1>2, <1>3, <1>4

\* A token that ends the line: of a Sync, or one that stops the reading.
LEMMA LedEnds ==
  ASSUME NEW c \in Consoles, NEW s \in Nat, NEW x \in Tokens, x.kind \in LineEnds,
         Led(c.log), Broken(c.log) \/ Shut(c, s) \/ Open(c, s)
  PROVE  LET d == PrintToken(c, x)
         IN  /\ d \in Consoles /\ d.line = <<>> /\ Led(d.log)
             /\ Broken(d.log) \/ Shut(d, s)
             /\ ~ Open(c, s) => Broken(d.log)
<1> DEFINE d == PrintToken(c, x)
           k == Len(c.log) + 1
<1>1. /\ d \in Consoles /\ d.line = <<>>
      /\ Len(d.log) = k /\ d.log[k] = Append(c.line, x) /\ Grows(c.log, d.log)
  BY TokenEnds
<1> HIDE DEF d
<1>2. c.log \in Seq(Seq(Tokens)) /\ d.log \in Seq(Seq(Tokens)) /\ Len(c.log) \in Nat
  BY <1>1, LenProperties DEF Consoles
<1>3. k \in 1 .. Len(d.log)
  BY <1>1, <1>2
<1>4. CASE Broken(c.log)
  <2>1. Broken(d.log) /\ Led(d.log)
    BY <1>1, <1>2, <1>4, LedGrows, BrokenStays
  <2> QED BY <1>1, <2>1 DEF d
<1>5. CASE Shut(c, s)
  <2>1. d.log[k] = <<x>>
    BY <1>1, <1>5 DEF Shut
  <2>2. StopLine(d.log[k])
    BY <2>1 DEF StopLine
  <2>3. Broken(d.log)
    BY <1>3, <2>2 DEF Broken
  <2>4. Led(d.log)
    BY <1>1, <1>2, <2>2, LedGrows
  <2> QED BY <1>1, <2>3, <2>4 DEF d
<1>6. CASE Open(c, s)
  <2>1. c.line = <<Token("t1", s)>> /\ Len(c.log) = s - 1 /\ k = s
    BY <1>2, <1>6 DEF Open
  <2>2. d.log[k][1] = Token("t1", Len(c.log) + 1)
    <3>1. c.line \in Seq(Tokens)
      BY DEF Consoles
    <3>3. Len(c.line) = 1 /\ c.line[1] = Token("t1", s)
      BY <2>1
    <3>2. Append(c.line, x)[1] = c.line[1]
      BY <3>1, <3>3, AppendProperties
    <3> QED BY <1>1, <2>1, <3>2, <3>3
  <2>3. Led(d.log)
    BY <1>1, <1>2, <2>2, LedGrows
  <2>4. Shut(d, s)
    BY <1>1, <2>1 DEF Shut
  <2> QED BY <1>1, <1>6, <2>3, <2>4 DEF d
<1> QED BY <1>4, <1>5, <1>6 DEF d

\* The stamp of the next Sync opens a line.
LEMMA LedStarts ==
  ASSUME NEW c \in Consoles, NEW s \in Nat, NEW i \in SeqIds, i = s + 1,
         Led(c.log), Broken(c.log) \/ Shut(c, s)
  PROVE  LET d == PrintToken(c, Token("t1", i))
         IN  /\ d \in Consoles /\ Led(d.log)
             /\ Broken(d.log) \/ Open(d, i)
             /\ ~ Shut(c, s) => Broken(d.log)
<1> DEFINE x == Token("t1", i)
           d == PrintToken(c, x)
<1>1. x \in Tokens /\ x.kind \notin LineEnds
  BY TokenTypes DEF Token, LineEnds
<1> HIDE DEF x
<1>2. d \in Consoles /\ d.line = Append(c.line, x) /\ d.log = c.log
  BY <1>1, TokenStays
<1> HIDE DEF d
<1>3. Shut(c, s) => Open(d, i)
  BY <1>2 DEF Shut, Open, x
<1> QED BY <1>2, <1>3 DEF d, x

\* Both, while nothing disturbs.
LEMMA WholeEnds ==
  ASSUME NEW c \in Consoles, NEW s \in SeqIds, Open(c, s), WholeLog(c.log)
  PROVE  LET d == PrintToken(c, Token("t4", s))
         IN  d \in Consoles /\ Shut(d, s) /\ WholeLog(d.log) /\ Len(d.log) = Len(c.log) + 1
<1> DEFINE x == Token("t4", s)
           d == PrintToken(c, x)
           k == Len(c.log) + 1
<1>1. x \in Tokens /\ x.kind \in LineEnds
  BY TokenTypes DEF Token, LineEnds
<1> HIDE DEF x
<1>2. /\ d \in Consoles /\ d.line = <<>>
      /\ Len(d.log) = k /\ d.log[k] = Append(c.line, x) /\ Grows(c.log, d.log)
  BY <1>1, TokenEnds
<1> HIDE DEF d
<1>3. Len(c.log) \in Nat /\ s \in Nat
  BY LenProperties DEF Consoles, SeqIds
<1>4. k = s /\ d.log[s] = Whole(s)
  BY <1>2, <1>3 DEF Open, x, Whole
<1>5. WholeLog(d.log)
  <2> SUFFICES ASSUME NEW i \in 1 .. k PROVE d.log[i] = Whole(i)
    BY <1>2 DEF WholeLog
  <2>1. i = k \/ i \in 1 .. Len(c.log)
    BY <1>3
  <2> HIDE DEF k
  <2> QED BY <1>2, <1>4, <2>1 DEF Grows, WholeLog
<1> QED BY <1>2, <1>4, <1>5 DEF Shut, d, x

\* The stamp of the next Sync, while nothing disturbs.
LEMMA WholeStarts ==
  ASSUME NEW c \in Consoles, NEW s \in Nat, NEW i \in SeqIds, i = s + 1, Shut(c, s)
  PROVE  LET d == PrintToken(c, Token("t1", i))
         IN  d \in Consoles /\ Open(d, i) /\ d.log = c.log
<1> DEFINE x == Token("t1", i)
           d == PrintToken(c, x)
<1>1. x \in Tokens /\ x.kind \notin LineEnds
  BY TokenTypes DEF Token, LineEnds
<1> HIDE DEF x
<1>2. d \in Consoles /\ d.line = Append(c.line, x) /\ d.log = c.log
  BY <1>1, TokenStays
<1> HIDE DEF d
<1> QED BY <1>2 DEF Shut, Open, x, d

\* A call of the machine.
LEMMA IssueTypes ==
  ASSUME BenchTypes, Issue, UNCHANGED output
  PROVE  BenchTypes'
<1>1. PICK f \in Input : \/ (MasterQuiet(f) \/ MasterSync(f)) /\ UNCHANGED events
                         \/ MasterSyncError(f) /\ Disturbed("unsent")
  BY DEF Issue
<1>2. Transmit /\ UNCHANGED <<phase, late>>
  BY DEF Issue
<1>p. /\ seq \in SeqIds /\ flight \in Seq(SeqIds) /\ wait \in 0 .. 2
      /\ phase \in 0 .. PpsMs - 1 /\ output \in {"t1", "t4"}
      /\ events \in Seq(Disturbances)
  BY DEF BenchTypes
<1>3. wait' \in 0 .. 2
  BY <1>2, <1>p, PulseResets DEF Transmit, counter
<1>4. seq' \in SeqIds /\ tx' \in Seq(Sent)
  <2>1. CASE MasterQuiet(f) \/ MasterSync(f)
    BY <1>p, <2>1, MasterSends
  <2>2. CASE MasterSyncError(f)
    BY <1>p, <2>2, NextSeqType DEF MasterSyncError
  <2> QED BY <1>1, <2>1, <2>2
<1>5. events' \in Seq(Disturbances)
  BY <1>1, <1>p, Disturbs
<1> QED BY <1>2, <1>3, <1>4, <1>5, <1>p, LoopGrows DEF BenchTypes

\* A frame that comes back.
LEMMA ReturnTypes ==
  ASSUME BenchTypes, Return, UNCHANGED output
  PROVE  BenchTypes'
<1>1. /\ flight # <<>> /\ flight' = Tail(flight) /\ flight \in Seq(SeqIds)
      /\ UNCHANGED <<seq, phase, events, output>>
      /\ wait \in 0 .. 2
  BY DEF Return, FrameArrives, ppi, BenchTypes
<1>2. wait' \in 0 .. 2
  BY <1>1, PulseResets DEF Return, counter
<1>3. flight' \in Seq(SeqIds)
  BY <1>1, HeadTailProperties
<1> QED BY <1>1, <1>2, <1>3 DEF BenchTypes

\* A tick.
LEMMA TickTypes ==
  ASSUME BenchTypes, BenchTick, UNCHANGED output
  PROVE  BenchTypes'
<1>1. /\ UNCHANGED <<seq, flight, output>> /\ phase' = NextPhase
      /\ phase \in Nat /\ wait \in 0 .. 2 /\ events \in Seq(Disturbances)
  BY BenchAssumption DEF BenchTick, Tick, BenchTypes
<1>2. NextPhase \in 0 .. PpsMs - 1
  BY <1>1, BenchAssumption DEF NextPhase
<1>3. wait' \in 0 .. 2 /\ events' \in Seq(Disturbances)
  BY <1>1, Disturbs DEF BenchTick, Least
<1> QED BY <1>1, <1>2, <1>3 DEF BenchTypes

\* What is lost, or comes from elsewhere.
LEMMA OtherTypes ==
  ASSUME BenchTypes, Lose \/ Foreign, UNCHANGED output
  PROVE  BenchTypes'
<1>1. /\ seq \in SeqIds /\ flight \in Seq(SeqIds) /\ wait \in 0 .. 2
      /\ phase \in 0 .. PpsMs - 1 /\ output \in {"t1", "t4"}
      /\ events \in Seq(Disturbances)
  BY DEF BenchTypes
<1>2. flight # <<>> => Tail(flight) \in Seq(SeqIds)
  BY <1>1, HeadTailProperties
<1>3. events' \in Seq(Disturbances)
  BY <1>1, Disturbs DEF Lose, Foreign
<1>4. CASE Lose
  BY <1>1, <1>2, <1>3, <1>4 DEF Lose, vars, counter, BenchTypes
<1>5. CASE Foreign
  <2>1. UNCHANGED <<seq, flight, phase>>
    BY <1>5 DEF Foreign, FrameArrives, ppi
  <2>2. wait' \in 0 .. 2
    BY <1>1, <1>5, PulseResets DEF Foreign, counter
  <2> QED BY <1>1, <1>3, <2>1, <2>2 DEF BenchTypes
<1> QED BY <1>4, <1>5

\* Every step of the bench.
LEMMA BenchTypesKept ==
  ASSUME BenchTypes, [BenchNext]_<<vars, bench>>
  PROVE  BenchTypes'
<1>1. CASE BenchNext
  BY <1>1, IssueTypes, ReturnTypes, TickTypes, OtherTypes DEF BenchNext
<1>2. CASE UNCHANGED <<vars, bench>>
  BY <1>2 DEF vars, bench, BenchTypes
<1> QED BY <1>1, <1>2

-----------------------------------------------------------------------------
(* What the two records have to do with each other.                        *)

OnlyForeign == output = "t1" /\ Range(events) \subseteq {"foreign"}
Steady      == events = <<>> \/ OnlyForeign

\* While the machine waits for its timer, the counter waits for a pulse, or
\* the timer ends after the next PPS.
ClockInv ==
  /\ state = "MASTER" /\ ~isNew =>
       /\ syncTo \in 0 .. SyncMs
       /\ wait = 0 /\ (output = "t1" \/ flight = <<>>) => phase >= SyncMs - syncTo
  /\ output = "t4" /\ flight # <<>> => wait > 0

\* The readings are those of the first Syncs, one each.
TicInv ==
  /\ Len(tic) = IF output = "t4" /\ flight # <<>> THEN seq - 1 ELSE seq
  /\ \A i \in 1 .. Len(tic) : tic[i] = Token(output, i)

\* A Sync is under way: its stamp is on the open line, and the timer was just set.
JustSet  == state = "MASTER" => ~isNew /\ syncTo = SyncMs
UnderWay == Open(con, seq) /\ JustSet

\* Undisturbed, the file has one line for each Sync.
WholeInv ==
  /\ answered = Len(con.log) /\ clean = Len(con.log)
  /\ WholeLog(con.log)
  /\ \/ Shut(con, seq) /\ flight = <<>> /\ rxq = <<>>
     \/ UnderWay /\ flight = <<seq>> /\ rxq = <<>>
     \/ UnderWay /\ flight = <<>> /\ rxq = <<[kind |-> "own", id |-> seq]>>

Unanswered == \A i \in 1 .. Len(rxq) : rxq[i].kind # "delay_req"

LedInv ==
  /\ Unanswered
  /\ Led(con.log)
  /\ \/ Broken(con.log)
     \/ Shut(con, seq)
     \/ UnderWay /\ (flight # <<>> \/ rxq # <<>>)

RecordInv ==
  /\ RecordTypes /\ CleanInv
  /\ Steady => ClockInv /\ TicInv
  /\ events = <<>> => WholeInv
  /\ OnlyForeign => LedInv

\* A disturbance, and what it may be if the capture is still steady.
LEMMA DisturbedIs ==
  ASSUME events \in Seq(Disturbances), NEW d, Disturbed(d), UNCHANGED output
  PROVE  /\ events' # <<>>
         /\ Steady' => d = "foreign" /\ OnlyForeign
<1>1. d \in Disturbances /\ events' = Append(events, d)
  BY DEF Disturbed
<1> DEFINE e == Append(events, d)
<1>2. /\ Len(events) \in Nat /\ Len(e) = Len(events) + 1 /\ e[Len(events) + 1] = d
      /\ \A i \in 1 .. Len(events) : e[i] = events[i]
      /\ e \in Seq(Disturbances) /\ e # <<>>
  BY <1>1, AppendProperties, LenProperties
<1>3. DOMAIN e = 1 .. Len(events) + 1 /\ DOMAIN events = 1 .. Len(events)
  BY <1>2, LenProperties
<1> HIDE DEF e
<1>4. Range(events) \subseteq Range(e) /\ d \in Range(e)
  <2>1. d = e[Len(events) + 1] /\ Len(events) + 1 \in DOMAIN e
    BY <1>2, <1>3
  <2>2. \A i \in DOMAIN events : i \in DOMAIN e /\ events[i] = e[i]
    BY <1>2, <1>3
  <2> QED BY <2>1, <2>2 DEF Range
<1>5. events' = e
  BY <1>1 DEF e
<1>6. Range(events') = Range(e)
  BY <1>5 DEF Range
<1>7. Steady' => OnlyForeign'
  BY <1>2, <1>5 DEF Steady
<1>8. OnlyForeign' => output = "t1" /\ Range(e) \subseteq {"foreign"}
  BY <1>5 DEF OnlyForeign, Range
<1> QED BY <1>2, <1>4, <1>5, <1>7, <1>8 DEF OnlyForeign

\* The frame of a call is the first of the queue.
LEMMA ReadsHead ==
  ASSUME rxq \in Seq(AnyFrames), NEW f \in Input, Called(f), Consume
  PROVE  /\ rxq' \in Seq(AnyFrames)
         /\ rxq = <<>> => f = NoFrame /\ rxq' = <<>>
         /\ rxq # <<>> => f = rxq[1] /\ f # NoFrame /\ rxq' = Tail(rxq)
         /\ Unanswered => f.kind # "delay_req" /\ Unanswered'
<1>1. CASE rxq = <<>>
  <2>1. f = NoFrame /\ rxq' = <<>>
    BY <1>1 DEF Called, Consume
  <2> QED BY <1>1, <2>1, EmptySeq DEF NoFrame, Unanswered
<1>2. CASE rxq # <<>>
  <2>1. f = Head(rxq) /\ rxq' = Tail(rxq)
    BY <1>2 DEF Called, Consume
  <2> DEFINE t == Tail(rxq)
  <2>2. /\ Len(rxq) \in Nat \ {0} /\ t \in Seq(AnyFrames)
        /\ Len(t) = Len(rxq) - 1 /\ \A i \in 1 .. Len(t) : t[i] = rxq[i + 1]
    BY <1>2, EmptySeq, HeadTailProperties
  <2>3. Head(rxq) = rxq[1] /\ rxq[1] \in AnyFrames
    BY <2>2, ElementOfSeq
  <2>4. f # NoFrame
    BY <2>1, <2>3 DEF AnyFrames, NoFrame, Kinds
  <2> HIDE DEF t
  <2>5. ASSUME Unanswered PROVE f.kind # "delay_req" /\ \A i \in 1 .. Len(t) : t[i].kind # "delay_req"
    BY <2>1, <2>2, <2>3, <2>5 DEF Unanswered
  <2>6. rxq' = t
    BY <2>1 DEF t
  <2> QED BY <1>2, <2>1, <2>2, <2>3, <2>4, <2>5, <2>6 DEF Unanswered
<1> QED BY <1>1, <1>2

\* The next sequenceId of a capture.
LEMMA CountsOn ==
  ASSUME seq \in SeqIds, NextSeq # 0
  PROVE  NextSeq = seq + 1 /\ NextSeq \in SeqIds
<1>1. seq \in Nat /\ seq + 1 <= SeqSize /\ SeqSize \in Nat \ {0, 1}
  BY DataAssumption DEF SeqIds
<1>2. CASE seq + 1 = SeqSize
  BY <1>1, <1>2 DEF NextSeq
<1>3. CASE seq + 1 < SeqSize
  BY <1>1, <1>3 DEF NextSeq, SeqIds
<1> QED BY <1>1, <1>2, <1>3

-----------------------------------------------------------------------------
(* A call of the machine.                                                  *)

\* A pulse is recorded.
LEMMA PulseRecords ==
  ASSUME tic \in Seq(Tokens), wait \in 0 .. 2, NEW token \in Tokens, Pulse(token)
  PROVE  /\ tic' \in Seq(Tokens)
         /\ wait > 0 => tic' = Append(tic, token)
<1>1. tic' = tic \/ tic' = Append(tic, token)
  BY Zenon DEF Pulse, counter
<1>2. wait # 0 => tic' = Append(tic, token)
  BY Zenon DEF Pulse
<1>3. Append(tic, token) \in Seq(Tokens)
  BY AppendProperties
<1> QED BY <1>1, <1>2, <1>3

\* One more reading of the right Sync.
LEMMA TicGrows ==
  ASSUME tic \in Seq(Tokens), NEW s \in Nat, Len(tic) = s, \A i \in 1 .. s : tic[i] = Token(output, i),
         NEW t, t = Append(tic, Token(output, s + 1)), Token(output, s + 1) \in Tokens
  PROVE  Len(t) = s + 1 /\ \A i \in 1 .. s + 1 : t[i] = Token(output, i)
<1> DEFINE x == Token(output, s + 1)
<1>1. t = Append(tic, x) /\ x \in Tokens
  OBVIOUS
<1> HIDE DEF x
<1>2. Len(t) = s + 1 /\ t[s + 1] = x /\ \A i \in 1 .. s : t[i] = tic[i]
  BY <1>1, AppendProperties
<1> SUFFICES ASSUME NEW i \in 1 .. s + 1 PROVE t[i] = Token(output, i)
  BY <1>2
<1>3. i = s + 1 \/ i \in 1 .. s
  OBVIOUS
<1> QED BY <1>2, <1>3 DEF x

\* Frames that leave are stamped with what they are.
LEMMA SendTokens ==
  ASSUME tic \in Seq(Tokens), wait \in 0 .. 2, tx' \in Seq(Sent), Transmit
  PROVE  tic' \in Seq(Tokens)
<1>1. CASE output = "t1" /\ tx' # <<>>
  <2>1. Pulse(Token(IF tx'[1].kind = "sync" THEN "t1" ELSE "resp", tx'[1].id))
    BY <1>1 DEF Transmit
  <2>2. \A s \in Seq(Sent) : s # <<>> => s[1].id \in SeqIds
    <3>1. \A s \in Seq(Sent) : s # <<>> => s[1] \in Sent
      OBVIOUS
    <3> QED BY <3>1 DEF Sent
  <2>3. tx'[1].id \in SeqIds
    BY <1>1, <2>2
  <2>4. Token(IF tx'[1].kind = "sync" THEN "t1" ELSE "resp", tx'[1].id) \in Tokens
    BY <2>3, TokenTypes
  <2> QED BY <2>1, <2>4, PulseRecords
<1>2. CASE ~ (output = "t1" /\ tx' # <<>>)
  BY <1>2 DEF Transmit, counter
<1> QED BY <1>1, <1>2

\* The lines written before the first disturbance are not touched.
LEMMA CleanStays ==
  ASSUME RecordTypes, CleanInv, con' \in Consoles, Grows(con.log, con'.log), clean' = clean
  PROVE  CleanInv'
<1> DEFINE m == con'.log
<1>1. Len(con.log) \in Nat /\ Len(m) \in Nat /\ clean \in Nat
  BY LenProperties DEF Consoles, RecordTypes
<1>2. Grows(con.log, m)
  OBVIOUS
<1> HIDE DEF m
<1>3. clean <= Len(m) /\ \A i \in 1 .. clean : m[i] = Whole(i)
  BY <1>1, <1>2 DEF CleanInv, Grows
<1> QED BY <1>3 DEF CleanInv, m, Whole, Token

\* Types, and the lines of before the disturbance, through any call.
LEMMA IssueKeeps ==
  ASSUME BenchTypes, RecordInv, NEW f \in Input, Capture, Transmit,
         MasterQuiet(f) \/ MasterSync(f) \/ MasterSyncError(f)
  PROVE  /\ RecordTypes' /\ rxq' \in Seq(AnyFrames)
         /\ events' # <<>> => CleanInv'
<1>p. /\ con \in Consoles /\ rxq \in Seq(AnyFrames) /\ tic \in Seq(Tokens) /\ clean \in Nat
      /\ seq \in SeqIds /\ wait \in 0 .. 2 /\ flight \in Seq(SeqIds)
  BY DEF RecordInv, RecordTypes, BenchTypes
<1>1. con' \in Consoles /\ Grows(con.log, con'.log)
  BY <1>p, CallTokens DEF Capture
<1>2. rxq' \in Seq(AnyFrames)
  <2>1. Called(f) /\ Consume
    BY DEF MasterQuiet, MasterSync, MasterSyncError
  <2> QED BY <1>p, <2>1, ReadsHead
<1>3. tx' \in Seq(Sent)
  <2>1. CASE MasterQuiet(f) \/ MasterSync(f)
    BY <1>p, <2>1, MasterSends
  <2>2. CASE MasterSyncError(f)
    BY <2>2 DEF MasterSyncError
  <2> QED BY <2>1, <2>2
<1>4. tic' \in Seq(Tokens)
  BY <1>3, <1>p, SendTokens
<1>5. clean' \in Nat /\ (events' # <<>> => clean' = clean)
  <2>1. \A c \in Consoles : Len(c.log) \in Nat
    BY LenProperties DEF Consoles
  <2>2. Len(con'.log) \in Nat
    BY <1>1, <2>1
  <2> QED BY <1>p, <2>2 DEF Capture
<1>6. RecordTypes'
  BY <1>1, <1>2, <1>4, <1>5 DEF RecordTypes, Consoles, AnyFrames, Tokens
<1>7. events' # <<>> => CleanInv'
  BY <1>1, <1>5, CleanStays DEF RecordInv
<1> QED BY <1>2, <1>6, <1>7

\* A call in a steady capture: what it reads is not answered, and a Sync is
\* issued only when the one before is done with and the counter waits.
LEMMA SteadyCall ==
  ASSUME BenchTypes, RecordInv, Steady, NEW f \in Input, MasterQuiet(f) \/ MasterSync(f),
         SyncDue => NextSeq # 0
  PROVE  /\ f.kind # "delay_req" /\ state = "MASTER"
         /\ rxq = <<>> => f = NoFrame /\ rxq' = <<>>
         /\ rxq # <<>> => f = rxq[1] /\ f # NoFrame /\ rxq' = Tail(rxq)
         /\ Unanswered'
         /\ seq' = IF SyncDue THEN seq + 1 ELSE seq
         /\ syncTo' = IF SyncDue THEN SyncMs ELSE ArmedTo
         /\ SyncDue => /\ NextSeq = seq + 1 /\ ~ UnderWay /\ wait > 0 /\ ~isNew
                       /\ output = "t1" \/ flight = <<>>
<1>p. /\ rxq \in Seq(AnyFrames) /\ seq \in SeqIds /\ wait \in 0 .. 2 /\ phase \in 0 .. PpsMs - 1
      /\ output \in {"t1", "t4"} /\ ClockInv
  BY DEF RecordInv, RecordTypes, BenchTypes
<1>1. Called(f) /\ Consume /\ state = "MASTER"
  BY DEF MasterQuiet, MasterSync
<1>2. Unanswered
  <2>1. CASE events = <<>>
    <3>1. rxq = <<>> \/ rxq = <<[kind |-> "own", id |-> seq]>>
      BY <2>1 DEF RecordInv, WholeInv
    <3> QED BY <3>1 DEF Unanswered
  <2>2. CASE OnlyForeign
    BY <2>2 DEF RecordInv, LedInv
  <2> QED BY <2>1, <2>2 DEF Steady
<1>3. /\ f.kind # "delay_req" /\ Unanswered'
      /\ rxq = <<>> => f = NoFrame /\ rxq' = <<>>
      /\ rxq # <<>> => f = rxq[1] /\ f # NoFrame /\ rxq' = Tail(rxq)
  BY <1>p, <1>1, <1>2, ReadsHead
<1>4. SyncDue => NextSeq = seq + 1
  BY <1>p, CountsOn
<1>5. /\ seq' = IF SyncDue THEN seq + 1 ELSE seq
      /\ syncTo' = IF SyncDue THEN SyncMs ELSE ArmedTo
  BY <1>4 DEF MasterQuiet, MasterSync, Rearmed
<1>6. ASSUME SyncDue
      PROVE  ~ UnderWay /\ wait > 0 /\ ~isNew /\ (output = "t1" \/ flight = <<>>)
  <2>1. ~isNew /\ syncTo = 0
    BY <1>6 DEF SyncDue
  <2>2. SyncMs # 0 /\ SyncMs \in Nat /\ PpsMs \in Nat /\ PpsMs <= SyncMs
    BY TimeAssumption, BenchAssumption
  <2>3. ~ UnderWay
    BY <1>1, <2>1, <2>2 DEF UnderWay, JustSet
  <2>4. output = "t1" \/ flight = <<>>
    BY <2>3, <1>p DEF Steady, OnlyForeign, RecordInv, WholeInv
  <2>5. wait # 0
    BY <1>1, <1>p, <2>1, <2>2, <2>4 DEF ClockInv
  <2> QED BY <1>p, <2>1, <2>3, <2>4, <2>5
<1> QED BY <1>1, <1>3, <1>4, <1>5, <1>6

\* The counter and the loop after a call of a steady capture.
LEMMA CallPulses ==
  ASSUME BenchTypes, RecordInv, Steady, NEW f \in Input, MasterQuiet(f) \/ MasterSync(f),
         SyncDue => NextSeq # 0, Capture, Transmit, UNCHANGED output
  PROVE  /\ ~SyncDue => UNCHANGED counter /\ flight' = flight
         /\ SyncDue => /\ flight' # <<>>
                       /\ output = "t1" => wait' = 0 /\ tic' = Append(tic, Token("t1", seq + 1))
                       /\ output = "t4" => UNCHANGED counter
<1>p. /\ seq \in SeqIds /\ flight \in Seq(SeqIds) /\ con \in Consoles
      /\ wait \in 0 .. 2 /\ tic \in Seq(Tokens) /\ output \in {"t1", "t4"}
  BY DEF RecordInv, RecordTypes, BenchTypes
<1>1. /\ f.kind # "delay_req"
      /\ SyncDue => NextSeq = seq + 1 /\ wait > 0
  BY SteadyCall
<1>2. tx' = IF SyncDue THEN <<[kind |-> "sync", id |-> NextSeq]>> ELSE <<>>
  BY <1>p, <1>1, CallPrints DEF Capture
<1>3. tx' \in Seq(Sent)
  BY <1>p, MasterSends
<1>4. (tx' # <<>> => flight' # <<>>) /\ (tx' = <<>> => flight' = flight)
  BY <1>p, <1>3, LoopGrows
<1>5. CASE ~SyncDue
  <2>1. tx' = <<>>
    BY <1>2, <1>5
  <2> QED BY <1>4, <1>5, <2>1 DEF Transmit
<1>6. CASE SyncDue
  <2>1. tx' # <<>> /\ tx'[1].kind = "sync" /\ tx'[1].id = seq + 1
    BY <1>1, <1>2, <1>6
  <2>2. CASE output = "t1"
    <3>1. Pulse(Token("t1", seq + 1))
      BY <2>1, <2>2 DEF Transmit
    <3>2. Token("t1", seq + 1) \in Tokens
      <4>1. NextSeq \in SeqIds
        BY <1>p, NextSeqType
      <4> QED BY <1>1, <1>6, <4>1, TokenTypes
    <3>3. wait' = 0
      BY <1>p, <3>1, PulseResets
    <3>4. tic' = Append(tic, Token("t1", seq + 1))
      BY <1>p, <1>1, <1>6, <3>1, <3>2, PulseRecords
    <3> QED BY <1>4, <1>6, <2>1, <2>2, <3>3, <3>4
  <2>3. CASE output = "t4"
    BY <1>4, <1>6, <2>1, <2>3 DEF Transmit
  <2> QED BY <1>p, <2>2, <2>3
<1> QED BY <1>5, <1>6

\* A call of a steady capture keeps clock and readings in step.
LEMMA IssueClock ==
  ASSUME BenchTypes, RecordInv, Steady, NEW f \in Input, MasterQuiet(f) \/ MasterSync(f),
         SyncDue => NextSeq # 0, Capture, Transmit, UNCHANGED <<phase, output>>
  PROVE  ClockInv' /\ TicInv'
<1>p. /\ seq \in SeqIds /\ wait \in 0 .. 2 /\ phase \in 0 .. PpsMs - 1 /\ seq \in Nat
      /\ tic \in Seq(Tokens) /\ output \in {"t1", "t4"} /\ ClockInv /\ TicInv
      /\ SyncMs \in Nat \ {0} /\ PpsMs \in Nat
  BY TimeAssumption, BenchAssumption DEF RecordInv, RecordTypes, BenchTypes, SeqIds
<1>1. /\ ~SyncDue => UNCHANGED counter /\ flight' = flight
      /\ SyncDue => /\ flight' # <<>>
                    /\ output = "t1" => wait' = 0 /\ tic' = Append(tic, Token("t1", seq + 1))
                    /\ output = "t4" => UNCHANGED counter
  BY CallPulses
<1>2. /\ state = "MASTER" /\ seq' = IF SyncDue THEN seq + 1 ELSE seq
      /\ syncTo' = IF SyncDue THEN SyncMs ELSE ArmedTo
      /\ SyncDue => /\ NextSeq = seq + 1 /\ wait > 0
                    /\ output = "t1" \/ flight = <<>>
  BY SteadyCall
<1>3. CASE ~SyncDue
  <2>1. wait' = wait /\ tic' = tic /\ flight' = flight /\ seq' = seq /\ output' = output
        /\ phase' = phase
    BY <1>1, <1>2, <1>3 DEF counter
  <2>2. TicInv'
    BY <1>p, <2>1 DEF TicInv, Token
  <2>3. ClockInv'
    <3>1. CASE isNew
      <4>1. syncTo' = SyncMs
        BY <1>2, <1>3, <3>1 DEF ArmedTo
      <4> QED BY <1>p, <2>1, <4>1 DEF ClockInv
    <3>2. CASE ~isNew
      <4>1. syncTo' = syncTo
        BY <1>2, <1>3, <3>2 DEF ArmedTo
      <4> QED BY <1>p, <1>2, <2>1, <3>2, <4>1 DEF ClockInv
    <3> QED BY <3>1, <3>2
  <2> QED BY <2>2, <2>3
<1>4. CASE SyncDue
  <2>1. flight' # <<>> /\ seq' = seq + 1 /\ syncTo' = SyncMs /\ output' = output /\ phase' = phase
    BY <1>1, <1>2, <1>4
  <2>2. output = "t4" => wait' = wait /\ tic' = tic /\ wait > 0 /\ flight = <<>>
    BY <1>1, <1>2, <1>4 DEF counter
  <2>3. ClockInv'
    BY <1>p, <2>1, <2>2 DEF ClockInv
  <2>4. CASE output = "t4"
    <3>1. Len(tic) = seq /\ \A i \in 1 .. Len(tic) : tic[i] = Token(output, i)
      BY <1>p, <2>2, <2>4 DEF TicInv
    <3>2. Len(tic) = seq' - 1
      BY <1>p, <2>1, <3>1
    <3>3. Len(tic') = seq' - 1 /\ \A i \in 1 .. Len(tic') : tic'[i] = Token(output', i)
      BY <2>1, <2>2, <2>4, <3>1, <3>2 DEF Token
    <3> QED BY <2>1, <2>3, <2>4, <3>3 DEF TicInv, Token
  <2>5. CASE output = "t1"
    <3> DEFINE t == Append(tic, Token(output, seq + 1))
    <3>1. tic' = t
      BY <1>1, <1>4, <2>5
    <3>2. Token(output, seq + 1) \in Tokens
      <4>1. NextSeq \in SeqIds
        BY <1>p, NextSeqType
      <4> QED BY <1>2, <1>4, <2>5, <4>1, TokenTypes
    <3>3. Len(tic) = seq /\ \A i \in 1 .. seq : tic[i] = Token(output, i)
      BY <1>p, <2>5 DEF TicInv
    <3>4. Len(t) = seq + 1 /\ \A i \in 1 .. seq + 1 : t[i] = Token(output, i)
      BY <1>p, <3>2, <3>3, TicGrows
    <3> HIDE DEF t
    <3>5. Len(tic') = seq' /\ \A i \in 1 .. Len(tic') : tic'[i] = Token(output', i)
      BY <1>p, <2>1, <3>1, <3>4 DEF Token
    <3> QED BY <2>1, <2>3, <2>5, <3>5 DEF TicInv, Token
  <2> QED BY <1>p, <2>3, <2>4, <2>5
<1> QED BY <1>3, <1>4

\* The receive stamps in a text of one token or none.
LEMMA CountsReturned ==
  ASSUME NEW text, text = <<>> \/ \E x \in Tokens : text = <<x>>
  PROVE  Cardinality({i \in DOMAIN text : text[i].kind = "t4"})
           = IF text # <<>> /\ text[1].kind = "t4" THEN 1 ELSE 0
<1> DEFINE S == {i \in DOMAIN text : text[i].kind = "t4"}
<1>1. CASE text = <<>>
  <2>1. S = {}
    BY <1>1
  <2> QED BY <1>1, <2>1, FS_EmptySet
<1>2. ASSUME NEW x \in Tokens, text = <<x>>
      PROVE  Cardinality(S) = IF text # <<>> /\ text[1].kind = "t4" THEN 1 ELSE 0
  <2>1. text # <<>> /\ text[1] = x /\ DOMAIN text = {1}
    BY <1>2
  <2>2. CASE x.kind = "t4"
    <3>1. S = {1}
      BY <2>1, <2>2
    <3> HIDE DEF S
    <3> QED BY <2>1, <2>2, <3>1, FS_Singleton
  <2>3. CASE x.kind # "t4"
    <3>1. S = {}
      BY <2>1, <2>3
    <3> HIDE DEF S
    <3> QED BY <2>1, <2>3, <3>1, FS_EmptySet
  <2> QED BY <2>2, <2>3
<1> QED BY <1>1, <1>2

\* The timer of a Sync under way does not end before the Sync is back.
LEMMA JustSetStays ==
  ASSUME JustSet, state = "MASTER", isNew' = (state' # state), syncTo' = ArmedTo
  PROVE  JustSet'
<1>1. ~isNew /\ syncTo = SyncMs
  BY DEF JustSet
<1>2. syncTo' = SyncMs
  BY <1>1 DEF ArmedTo
<1>3. state' = "MASTER" => ~isNew'
  OBVIOUS
<1> QED BY <1>2, <1>3 DEF JustSet

\* A call of an undisturbed capture.
LEMMA IssueWhole ==
  ASSUME BenchTypes, RecordInv, events = <<>>, events' = <<>>, NEW f \in Input,
         MasterQuiet(f) \/ MasterSync(f), SyncDue => NextSeq # 0, Capture, Transmit,
         UNCHANGED output
  PROVE  WholeInv' /\ CleanInv'
<1>p. /\ seq \in SeqIds /\ seq \in Nat /\ con \in Consoles /\ WholeInv
  BY DEF RecordInv, RecordTypes, BenchTypes, SeqIds
<1>s. Steady
  BY DEF Steady
<1>1. /\ f.kind # "delay_req" /\ state = "MASTER"
      /\ rxq = <<>> => f = NoFrame /\ rxq' = <<>>
      /\ rxq # <<>> => f = rxq[1] /\ f # NoFrame /\ rxq' = Tail(rxq)
      /\ seq' = IF SyncDue THEN seq + 1 ELSE seq
      /\ syncTo' = IF SyncDue THEN SyncMs ELSE ArmedTo
      /\ SyncDue => NextSeq = seq + 1 /\ ~UnderWay
  BY <1>s, SteadyCall
<1>2. /\ isNew' = (state' # state)
      /\ tx' = IF SyncDue THEN <<[kind |-> "sync", id |-> NextSeq]>> ELSE <<>>
      /\ f = NoFrame \/ f.kind = "own" =>
           /\ out' = IF SyncDue THEN Append(RecvText(f), Token("t1", NextSeq)) ELSE RecvText(f)
           /\ con' = Issued(f)
  BY <1>p, <1>1, CallPrints DEF Capture
<1>3. /\ flight' = flight \o [i \in DOMAIN tx' |-> tx'[i].id]
      /\ clean' = Len(con'.log)
      /\ answered' = answered + Cardinality({i \in DOMAIN out' : out'[i].kind = "t4"})
  BY DEF Capture, Transmit
<1>4. ~SyncDue => flight' = flight
  BY <1>s, CallPulses
<1>w. ASSUME con' \in Consoles, WholeLog(con'.log), answered' = Len(con'.log),
             \/ Shut(con', seq') /\ flight' = <<>> /\ rxq' = <<>>
             \/ Open(con', seq') /\ JustSet' /\ flight' = <<seq'>> /\ rxq' = <<>>
      PROVE  WholeInv' /\ CleanInv'
  <2>1. Len(con'.log) \in Nat
    <3>1. \A c \in Consoles : Len(c.log) \in Nat
      BY LenProperties DEF Consoles
    <3> QED BY <1>w, <3>1
  <2>2. WholeInv'
    BY <1>w, <1>3 DEF WholeInv, UnderWay, Shut, Open, WholeLog, Whole, Token, JustSet
  <2>3. clean' = Len(con'.log) /\ \A i \in 1 .. Len(con'.log) : con'.log[i] = Whole(i)
    BY <1>w, <1>3 DEF WholeLog
  <2>4. CleanInv'
    BY <2>1, <2>3 DEF CleanInv, Whole, Token
  <2> QED BY <2>2, <2>4
<1>5. CASE SyncDue
  <2>1. Shut(con, seq) /\ flight = <<>> /\ rxq = <<>> /\ f = NoFrame /\ rxq' = <<>>
    BY <1>p, <1>1, <1>5 DEF WholeInv
  <2>2. NextSeq \in SeqIds /\ NextSeq = seq + 1 /\ seq' = NextSeq /\ syncTo' = SyncMs
    BY <1>p, <1>1, <1>5, NextSeqType
  <2>3. con' = PrintToken(con, Token("t1", NextSeq))
    BY <1>2, <1>5, <2>1 DEF Issued, Stamped
  <2>4. con' \in Consoles /\ Open(con', seq') /\ con'.log = con.log
    BY <1>p, <2>1, <2>2, <2>3, WholeStarts
  <2>5. out' = <<Token("t1", NextSeq)>> /\ Token("t1", NextSeq) \in Tokens
    BY <1>2, <1>5, <2>1, <2>2, TokenTypes DEF RecvText
  <2>6. answered' = answered
    <3>1. Cardinality({i \in DOMAIN out' : out'[i].kind = "t4"}) = 0
      BY <2>5, CountsReturned DEF Token
    <3>2. answered \in Nat
      BY <1>p, LenProperties DEF WholeInv, Consoles
    <3> QED BY <1>3, <3>1, <3>2
  <2>7. flight' = <<seq'>>
    <3>1. tx' = <<[kind |-> "sync", id |-> seq']>>
      BY <1>2, <1>5, <2>2
    <3>2. [i \in DOMAIN tx' |-> tx'[i].id] = <<seq'>>
      BY <3>1
    <3>3. <<seq'>> \in Seq(SeqIds)
      BY <2>2
    <3> QED BY <1>3, <2>1, <3>2, <3>3, ConcatEmptySeq
  <2>8. JustSet'
    BY <1>1, <1>2, <2>2 DEF JustSet
  <2> QED BY <1>p, <1>w, <2>1, <2>4, <2>6, <2>7, <2>8 DEF WholeInv
<1>6. CASE ~SyncDue /\ rxq = <<>>
  <2>1. f = NoFrame /\ rxq' = <<>> /\ seq' = seq /\ flight' = flight /\ syncTo' = ArmedTo
    BY <1>1, <1>4, <1>6
  <2>2. out' = <<>> /\ con' = con
    BY <1>2, <1>6, <2>1 DEF RecvText, Issued, Stamped
  <2>3. answered' = answered
    <3>1. Cardinality({i \in DOMAIN out' : out'[i].kind = "t4"}) = 0
      BY <2>2, CountsReturned
    <3>2. answered \in Nat
      BY <1>p, LenProperties DEF WholeInv, Consoles
    <3> QED BY <1>3, <3>1, <3>2
  <2>4. JustSet => JustSet'
    BY <1>1, <1>2, <2>1, JustSetStays
  <2>5. \/ Shut(con, seq) /\ flight = <<>>
        \/ UnderWay /\ flight = <<seq>>
    BY <1>p, <1>6 DEF WholeInv
  <2> QED BY <1>p, <1>w, <2>1, <2>2, <2>3, <2>4, <2>5 DEF WholeInv, UnderWay
<1>7. CASE ~SyncDue /\ rxq # <<>>
  <2>1. Open(con, seq) /\ flight = <<>> /\ rxq = <<[kind |-> "own", id |-> seq]>>
    BY <1>p, <1>7 DEF WholeInv, UnderWay
  <2>2. /\ f.kind = "own" /\ f.id = seq /\ f # NoFrame /\ rxq' = <<>>
        /\ seq' = seq /\ flight' = <<>>
    BY <1>1, <1>4, <1>7, <2>1
  <2>3. out' = <<Token("t4", seq)>> /\ con' = PrintToken(con, Token("t4", seq))
    BY <1>2, <1>7, <2>2 DEF RecvText, Issued, Stamped
  <2>4. con' \in Consoles /\ Shut(con', seq) /\ WholeLog(con'.log) /\ Len(con'.log) = Len(con.log) + 1
    BY <1>p, <2>1, <2>3, WholeEnds DEF WholeInv
  <2>5. answered' = answered + 1
    <3>1. Token("t4", seq) \in Tokens /\ Token("t4", seq).kind = "t4"
      BY <1>p, TokenTypes DEF Token
    <3>2. Cardinality({i \in DOMAIN out' : out'[i].kind = "t4"}) = 1
      BY <2>3, <3>1, CountsReturned
    <3> QED BY <1>3, <3>2
  <2> QED BY <1>p, <1>w, <2>2, <2>4, <2>5 DEF WholeInv
<1> QED BY <1>5, <1>6, <1>7

\* A call among frames of other nodes that are not answered.
LEMMA IssueLed ==
  ASSUME BenchTypes, RecordInv, OnlyForeign, NEW f \in Input,
         MasterQuiet(f) \/ MasterSync(f), SyncDue => NextSeq # 0, Capture, Transmit,
         UNCHANGED output
  PROVE  LedInv'
<1>p. /\ seq \in SeqIds /\ seq \in Nat /\ con \in Consoles /\ LedInv
  BY DEF RecordInv, RecordTypes, BenchTypes, SeqIds
<1>s. Steady
  BY DEF Steady
<1>1. /\ f.kind # "delay_req" /\ state = "MASTER" /\ Unanswered'
      /\ rxq = <<>> => f = NoFrame /\ rxq' = <<>>
      /\ rxq # <<>> => f = rxq[1] /\ f # NoFrame /\ rxq' = Tail(rxq)
      /\ seq' = IF SyncDue THEN seq + 1 ELSE seq
      /\ syncTo' = IF SyncDue THEN SyncMs ELSE ArmedTo
      /\ SyncDue => NextSeq = seq + 1 /\ ~UnderWay
  BY <1>s, SteadyCall
<1>2. /\ isNew' = (state' # state)
      /\ \/ con' = Issued(f)
         \/ f # NoFrame /\ f.kind # "own" /\ con' = PrintToken(Issued(f), Token("err", 0))
  BY <1>p, <1>1, CallPrints DEF Capture
<1>3. /\ SyncDue => flight' # <<>>
      /\ ~SyncDue => flight' = flight
  BY <1>s, CallPulses
<1>4. /\ Token("t4", f.id) \in Tokens /\ Token("t4", f.id).kind \in LineEnds
      /\ Token("err", 0) \in Tokens /\ Token("err", 0).kind \in LineEnds
  BY InputId, TokenTypes DEF Token, LineEnds
<1>w. ASSUME Led(con'.log),
             \/ Broken(con'.log)
             \/ Shut(con', seq')
             \/ Open(con', seq') /\ JustSet' /\ (flight' # <<>> \/ rxq' # <<>>)
      PROVE  LedInv'
  <2>1. LedInv' <=> /\ Unanswered' /\ Led(con'.log)
                    /\ \/ Broken(con'.log)
                       \/ Shut(con', seq')
                       \/ Open(con', seq') /\ JustSet' /\ (flight' # <<>> \/ rxq' # <<>>)
    BY DEF LedInv, UnderWay, JustSet, Shut, Open, Led, Broken, StopLine, Token
  <2> QED BY <1>1, <1>w, <2>1
<1> DEFINE a == Stamped(f)
           b == Issued(f)
<1>5. /\ a \in Consoles /\ Led(a.log)
      /\ Broken(a.log) \/ Shut(a, seq) \/ (f = NoFrame /\ a = con /\ UnderWay)
  <2>1. CASE f = NoFrame
    <3>1. a = con
      BY <2>1 DEF Stamped
    <3> HIDE DEF a
    <3> QED BY <1>p, <2>1, <3>1 DEF LedInv
  <2>2. CASE f # NoFrame
    <3> DEFINE x == Token("t4", f.id)
    <3>1. a = PrintToken(con, x)
      BY <2>2 DEF Stamped
    <3>2. Led(con.log) /\ (Broken(con.log) \/ Shut(con, seq) \/ Open(con, seq))
      BY <1>p DEF LedInv, UnderWay
    <3> HIDE DEF a, x
    <3> QED BY <1>p, <1>4, <3>1, <3>2, LedEnds DEF x
  <2> QED BY <2>1, <2>2
<1>6. CASE SyncDue
  <2>1. /\ NextSeq \in SeqIds /\ NextSeq = seq + 1 /\ seq' = NextSeq /\ syncTo' = SyncMs
        /\ flight' # <<>>
    BY <1>p, <1>1, <1>3, <1>6, NextSeqType
  <2>2. Broken(a.log) \/ Shut(a, seq)
    BY <1>1, <1>5, <1>6
  <2>3. b = PrintToken(a, Token("t1", NextSeq))
    BY <1>6 DEF Issued
  <2>4. JustSet'
    BY <1>1, <1>2, <2>1 DEF JustSet
  <2> HIDE DEF a, b
  <2>5. /\ b \in Consoles /\ Led(b.log)
        /\ Broken(b.log) \/ Open(b, seq')
    BY <1>p, <1>5, <2>1, <2>2, <2>3, LedStarts
  <2>6. CASE con' = b
    BY <1>w, <2>1, <2>4, <2>5, <2>6
  <2>7. CASE con' = PrintToken(b, Token("err", 0))
    <3>1. seq' \in Nat
      BY <1>p, <2>1
    <3>2. Led(con'.log) /\ (Broken(con'.log) \/ Shut(con', seq'))
      BY <1>4, <2>5, <2>7, <3>1, LedEnds
    <3> QED BY <1>w, <3>2
  <2> QED BY <1>2, <2>6, <2>7 DEF b
<1>7. CASE ~SyncDue
  <2>1. seq' = seq /\ flight' = flight /\ syncTo' = ArmedTo
    BY <1>1, <1>3, <1>7
  <2>2. b = a
    BY <1>7 DEF Issued
  <2>3. CASE con' = a
    <3>1. JustSet => JustSet'
      BY <1>1, <1>2, <2>1, JustSetStays
    <3>2. CASE Broken(a.log) \/ Shut(a, seq)
      <4> HIDE DEF a
      <4> QED BY <1>w, <1>5, <2>1, <2>3, <3>2
    <3>3. CASE f = NoFrame /\ a = con /\ UnderWay
      <4>1. CASE Broken(con.log) \/ Shut(con, seq)
        <5> HIDE DEF a
        <5> QED BY <1>w, <1>5, <2>1, <2>3, <3>3, <4>1
      <4>2. CASE ~ (Broken(con.log) \/ Shut(con, seq))
        <5>1. rxq = <<>> /\ flight # <<>>
          BY <1>p, <1>1, <3>3, <4>2 DEF LedInv
        <5> HIDE DEF a
        <5> QED BY <1>w, <1>5, <2>1, <2>3, <3>1, <3>3, <5>1 DEF UnderWay
      <4> QED BY <4>1, <4>2
    <3> QED BY <1>5, <3>2, <3>3
  <2>4. CASE f # NoFrame /\ con' = PrintToken(a, Token("err", 0))
    <3>1. Broken(a.log) \/ Shut(a, seq)
      BY <1>5, <2>4
    <3> HIDE DEF a
    <3>2. Led(con'.log) /\ (Broken(con'.log) \/ Shut(con', seq))
      BY <1>p, <1>4, <1>5, <2>4, <3>1, LedEnds
    <3> QED BY <1>w, <2>1, <3>2
  <2> QED BY <1>2, <2>2, <2>3, <2>4
<1> QED BY <1>6, <1>7

\* A call.
LEMMA IssueRecords ==
  ASSUME BenchTypes, RecordInv, Issue, UNCHANGED output
  PROVE  RecordInv'
<1>1. PICK f \in Input : \/ (MasterQuiet(f) \/ MasterSync(f)) /\ UNCHANGED events
                         \/ MasterSyncError(f) /\ Disturbed("unsent")
  BY DEF Issue
<1>2. Capture /\ Transmit /\ UNCHANGED <<phase, late>> /\ (SyncDue => NextSeq # 0)
  BY DEF Issue
<1>3. RecordTypes' /\ (events' # <<>> => CleanInv')
  BY <1>1, <1>2, IssueKeeps
<1>4. CASE (MasterQuiet(f) \/ MasterSync(f)) /\ UNCHANGED events
  <2>1. Steady' = Steady /\ OnlyForeign' = OnlyForeign
    BY <1>4 DEF Steady, OnlyForeign, Range
  <2>2. Steady => ClockInv' /\ TicInv'
    BY <1>2, <1>4, IssueClock
  <2>3. events' = <<>> => WholeInv' /\ CleanInv'
    BY <1>2, <1>4, IssueWhole
  <2>4. OnlyForeign => LedInv'
    BY <1>2, <1>4, IssueLed
  <2>5. (events = <<>>)' <=> events' = <<>>
    OBVIOUS
  <2> QED BY <1>3, <2>1, <2>2, <2>3, <2>4 DEF RecordInv
<1>5. CASE MasterSyncError(f) /\ Disturbed("unsent")
  <2>1. events' # <<>> /\ ~ Steady'
    BY <1>5, DisturbedIs DEF BenchTypes
  <2>2. ~ OnlyForeign'
    BY <2>1 DEF Steady
  <2> QED BY <1>3, <2>1, <2>2 DEF RecordInv
<1> QED BY <1>1, <1>4, <1>5

-----------------------------------------------------------------------------
(* The other steps.                                                       *)

\* A frame joins the queue.
LEMMA QueueGrows ==
  ASSUME rxq \in Seq(AnyFrames), NEW x \in AnyFrames, rxq' = Append(rxq, x)
  PROVE  /\ rxq' \in Seq(AnyFrames) /\ rxq' # <<>>
         /\ Unanswered /\ x.kind # "delay_req" => Unanswered'
<1>1. /\ rxq' \in Seq(AnyFrames) /\ Len(rxq') = Len(rxq) + 1 /\ Len(rxq) \in Nat
      /\ rxq'[Len(rxq) + 1] = x /\ \A i \in 1 .. Len(rxq) : rxq'[i] = rxq[i]
  BY AppendProperties, LenProperties
<1>2. rxq' # <<>>
  BY <1>1, EmptySeq
<1>3. ASSUME Unanswered, x.kind # "delay_req", NEW i \in 1 .. Len(rxq')
      PROVE  rxq'[i].kind # "delay_req"
  <2>1. i = Len(rxq) + 1 \/ i \in 1 .. Len(rxq)
    BY <1>1
  <2> QED BY <1>1, <1>3, <2>1 DEF Unanswered
<1> QED BY <1>1, <1>2, <1>3 DEF Unanswered

\* What depends on the console alone.
LEMMA CleanSame ==
  ASSUME CleanInv, con' = con, clean' = clean
  PROVE  CleanInv'
<1>1. \A i \in 1 .. clean : con'.log[i] = Whole(i)
  BY DEF CleanInv
<1> QED BY <1>1 DEF CleanInv, Whole, Token

\* A Sync comes back.
LEMMA ReturnRecords ==
  ASSUME BenchTypes, RecordInv, Return, UNCHANGED output
  PROVE  RecordInv'
<1> DEFINE x == [kind |-> "own", id |-> Head(flight)]
<1>1. /\ flight # <<>> /\ flight' = Tail(flight) /\ rxq' = Append(rxq, x)
      /\ state' = state /\ isNew' = isNew /\ syncTo' = syncTo /\ seq' = seq
      /\ con' = con /\ phase' = phase /\ events' = events
      /\ answered' = answered /\ clean' = clean /\ output' = output
  BY DEF Return, FrameArrives, ppi
<1>2. IF output = "t4" THEN Pulse(Token("t4", Head(flight))) ELSE UNCHANGED counter
  BY DEF Return
<1>p. /\ seq \in SeqIds /\ seq \in Nat /\ flight \in Seq(SeqIds) /\ wait \in 0 .. 2
      /\ phase \in 0 .. PpsMs - 1 /\ output \in {"t1", "t4"}
      /\ con \in Consoles /\ rxq \in Seq(AnyFrames) /\ tic \in Seq(Tokens) /\ clean \in Nat
      /\ SyncMs \in Nat /\ PpsMs \in Nat
  BY TimeAssumption, BenchAssumption DEF RecordInv, RecordTypes, BenchTypes, SeqIds
<1>3. Head(flight) \in SeqIds /\ x \in AnyFrames /\ Token("t4", Head(flight)) \in Tokens
  <2>1. Head(flight) \in SeqIds
    BY <1>1, <1>p, EmptySeq, HeadTailProperties, ElementOfSeq
  <2> QED BY <2>1, TokenTypes DEF AnyFrames, Kinds
<1>4. /\ rxq' \in Seq(AnyFrames) /\ rxq' # <<>> /\ (Unanswered => Unanswered')
  <2>1. x.kind # "delay_req"
    OBVIOUS
  <2> HIDE DEF x
  <2> QED BY <1>1, <1>p, <1>3, <2>1, QueueGrows
<1>5. tic' \in Seq(Tokens)
  BY <1>2, <1>3, <1>p, PulseRecords DEF counter
<1>6. RecordTypes' /\ CleanInv'
  BY <1>1, <1>p, <1>4, <1>5, CleanSame DEF RecordInv, RecordTypes, Consoles, AnyFrames, Tokens
<1>7. Steady' = Steady /\ OnlyForeign' = OnlyForeign
  BY <1>1 DEF Steady, OnlyForeign, Range
<1>8. ASSUME events = <<>>
      PROVE  /\ WholeInv' /\ flight' = <<>> /\ JustSet
             /\ Head(flight) = seq /\ seq - 1 \in Nat
  <2>1. UnderWay /\ flight = <<seq>> /\ rxq = <<>> /\ WholeInv
    BY <1>1, <1>8 DEF RecordInv, WholeInv
  <2>2. flight' = <<>> /\ Head(flight) = seq
    BY <1>1, <2>1
  <2>3. rxq' = <<[kind |-> "own", id |-> seq]>>
    <3>1. x = [kind |-> "own", id |-> seq]
      BY <2>2
    <3> HIDE DEF x
    <3>2. Append(<<>>, x) = <<x>>
      OBVIOUS
    <3> QED BY <1>1, <2>1, <3>1, <3>2
  <2>4. Open(con, seq) /\ JustSet
    BY <2>1 DEF UnderWay
  <2>5. seq - 1 \in Nat
    BY <1>p, <2>4, LenProperties DEF Open, Consoles
  <2>6. UnderWay'
    BY <1>1, <2>4 DEF UnderWay, JustSet, Open, Token
  <2>7. WholeInv'
    <3>1. answered' = Len(con'.log) /\ clean' = Len(con'.log) /\ WholeLog(con'.log)
      BY <1>1, <2>1 DEF WholeInv
    <3>2. WholeLog(con.log)' <=> WholeLog(con'.log)
      BY DEF WholeLog, Whole, Token
    <3> QED BY <1>1, <2>2, <2>3, <2>6, <3>1, <3>2 DEF WholeInv
  <2> QED BY <2>2, <2>4, <2>5, <2>7
<1>9. OnlyForeign => LedInv'
  <2> SUFFICES ASSUME OnlyForeign PROVE LedInv'
    OBVIOUS
  <2>1. LedInv
    BY DEF RecordInv
  <2>2. Led(con.log)' /\ (Broken(con.log)' <=> Broken(con.log)) /\ (Shut(con, seq)' <=> Shut(con, seq))
        /\ (UnderWay' <=> UnderWay)
    BY <1>1, <2>1 DEF LedInv, Led, Broken, StopLine, Shut, UnderWay, Open, JustSet, Token
  <2> QED BY <1>4, <2>1, <2>2 DEF LedInv
<1>10. ASSUME Steady PROVE ClockInv' /\ TicInv'
  <2>1. ClockInv /\ TicInv
    BY <1>10 DEF RecordInv
  <2>2. CASE output = "t1"
    <3>1. wait' = wait /\ tic' = tic
      BY <1>2, <2>2 DEF counter
    <3> QED BY <1>1, <2>1, <2>2, <3>1 DEF ClockInv, TicInv, Token
  <2>3. CASE output = "t4"
    <3>1. events = <<>>
      BY <1>10, <2>3 DEF Steady, OnlyForeign
    <3>2. flight' = <<>> /\ JustSet /\ Head(flight) = seq /\ seq - 1 \in Nat
      BY <1>8, <3>1
    <3>3. Pulse(Token("t4", seq)) /\ wait > 0
      BY <1>1, <1>2, <2>1, <2>3, <3>2 DEF ClockInv
    <3>4. ClockInv'
      BY <1>1, <1>p, <2>1, <3>2 DEF ClockInv, JustSet
    <3>5. Len(tic) = seq - 1 /\ \A i \in 1 .. seq - 1 : tic[i] = Token(output, i)
      BY <1>1, <2>1, <2>3 DEF TicInv
    <3>6. tic' = Append(tic, Token(output, (seq - 1) + 1)) /\ Token(output, (seq - 1) + 1) \in Tokens
      <4>1. tic' = Append(tic, Token("t4", seq)) /\ Token("t4", seq) \in Tokens
        BY <1>3, <1>p, <3>2, <3>3, PulseRecords
      <4>2. (seq - 1) + 1 = seq
        BY <1>p
      <4> QED BY <2>3, <4>1, <4>2
    <3>7. Len(tic') = (seq - 1) + 1 /\ \A i \in 1 .. (seq - 1) + 1 : tic'[i] = Token(output, i)
      BY <1>p, <3>2, <3>5, <3>6, TicGrows
    <3>8. Len(tic') = seq' /\ \A i \in 1 .. Len(tic') : tic'[i] = Token(output', i)
      BY <1>1, <1>p, <3>7 DEF Token
    <3> QED BY <3>2, <3>4, <3>8 DEF TicInv, Token
  <2> QED BY <1>p, <2>2, <2>3
<1> QED BY <1>1, <1>6, <1>7, <1>8, <1>9, <1>10 DEF RecordInv

\* A tick.
LEMMA TickRecords ==
  ASSUME BenchTypes, RecordInv, BenchTick, UNCHANGED output
  PROVE  RecordInv'
<1>1. /\ flight = <<>> /\ rxq = <<>> /\ flight' = flight /\ rxq' = rxq
      /\ state' = state /\ isNew' = isNew /\ syncTo' = Down(syncTo) /\ seq' = seq
      /\ con' = con /\ phase' = NextPhase /\ tic' = tic
      /\ answered' = answered /\ clean' = clean /\ output' = output
  BY DEF BenchTick, Tick, Settled
<1>2. \/ wait' = (IF NextPhase = 0 THEN Least(wait + 1, 2) ELSE wait) /\ UNCHANGED events
      \/ Disturbed("missed")
  BY DEF BenchTick
<1>p. /\ wait \in 0 .. 2 /\ phase \in 0 .. PpsMs - 1 /\ events \in Seq(Disturbances)
      /\ SyncMs \in Nat /\ PpsMs \in Nat \ {0} /\ PpsMs <= SyncMs /\ RecordTypes /\ CleanInv
  BY TimeAssumption, BenchAssumption DEF RecordInv, BenchTypes
<1>3. RecordTypes' /\ CleanInv'
  BY <1>1, <1>p, CleanSame DEF RecordTypes, Consoles, AnyFrames, Tokens
<1>4. CASE Disturbed("missed")
  <2>1. events' # <<>> /\ ~ Steady'
    BY <1>4, <1>p, DisturbedIs
  <2>2. ~ OnlyForeign'
    BY <2>1 DEF Steady
  <2> QED BY <1>3, <2>1, <2>2 DEF RecordInv
<1>5. CASE wait' = (IF NextPhase = 0 THEN Least(wait + 1, 2) ELSE wait) /\ UNCHANGED events
  <2>1. Steady' = Steady /\ OnlyForeign' = OnlyForeign /\ events' = events
    BY <1>1, <1>5 DEF Steady, OnlyForeign, Range
  <2>2. ASSUME Steady PROVE ClockInv' /\ TicInv'
    <3>1. ClockInv /\ TicInv
      BY <2>2 DEF RecordInv
    <3>2. TicInv'
      BY <1>1, <3>1 DEF TicInv, Token
    <3>3. ASSUME state' = "MASTER", ~isNew'
          PROVE  /\ syncTo' \in 0 .. SyncMs
                 /\ wait' = 0 => phase' >= SyncMs - syncTo'
      <4>1. /\ syncTo \in 0 .. SyncMs
            /\ wait = 0 => phase >= SyncMs - syncTo
        BY <1>1, <3>1, <3>3 DEF ClockInv
      <4>2. syncTo' = IF syncTo > 0 THEN syncTo - 1 ELSE syncTo
        BY <1>1 DEF Down
      <4>3. syncTo' \in 0 .. SyncMs
        BY <1>p, <4>1, <4>2
      <4>4. ASSUME wait' = 0 PROVE phase' >= SyncMs - syncTo'
        <5>1. wait = 0 /\ NextPhase # 0
          BY <1>5, <1>p, <4>4 DEF Least
        <5>2. phase >= SyncMs - syncTo /\ syncTo > 0
          BY <1>p, <4>1, <5>1
        <5>3. phase + 1 = PpsMs => (phase + 1) % PpsMs = 0
          BY <1>p
        <5>4. phase + 1 < PpsMs => (phase + 1) % PpsMs = phase + 1
          BY <1>p
        <5>5. phase' = phase + 1
          BY <1>1, <1>p, <5>1, <5>3, <5>4 DEF NextPhase
        <5> QED BY <1>p, <4>1, <4>2, <5>2, <5>5
      <4> QED BY <4>3, <4>4
    <3>4. ClockInv'
      BY <1>1, <3>3 DEF ClockInv
    <3> QED BY <3>2, <3>4
  <2>3. ASSUME events = <<>> PROVE WholeInv'
    <3>1. WholeInv /\ Shut(con, seq)
      BY <1>1, <2>3 DEF RecordInv, WholeInv
    <3>2. Shut(con, seq)' /\ WholeLog(con.log)'
      BY <1>1, <3>1 DEF WholeInv, Shut, WholeLog, Whole, Token
    <3> QED BY <1>1, <3>1, <3>2 DEF WholeInv
  <2>4. ASSUME OnlyForeign PROVE LedInv'
    <3>1. Led(con.log) /\ (Broken(con.log) \/ Shut(con, seq)) /\ Unanswered
      BY <1>1, <2>4 DEF RecordInv, LedInv
    <3>2. Led(con.log)' /\ (Broken(con.log)' <=> Broken(con.log))
          /\ (Shut(con, seq)' <=> Shut(con, seq)) /\ Unanswered'
      BY <1>1, <3>1 DEF Led, Broken, StopLine, Shut, Token, Unanswered
    <3> QED BY <3>1, <3>2 DEF LedInv
  <2> QED BY <1>3, <2>1, <2>2, <2>3, <2>4 DEF RecordInv
<1> QED BY <1>2, <1>4, <1>5

\* A Sync that is lost is a disturbance.
LEMMA LoseRecords ==
  ASSUME BenchTypes, RecordInv, Lose, UNCHANGED output
  PROVE  RecordInv'
<1>1. con' = con /\ clean' = clean /\ rxq' = rxq /\ tic' = tic
  BY DEF Lose, vars, counter
<1>2. RecordTypes' /\ CleanInv'
  BY <1>1, CleanSame DEF RecordInv, RecordTypes, Consoles, AnyFrames, Tokens
<1>3. events' # <<>> /\ ~ Steady'
  BY DisturbedIs DEF Lose, BenchTypes
<1>4. ~ OnlyForeign'
  BY <1>3 DEF Steady
<1> QED BY <1>2, <1>3, <1>4 DEF RecordInv

\* A frame of another node.
LEMMA ForeignRecords ==
  ASSUME BenchTypes, RecordInv, Foreign, UNCHANGED output
  PROVE  RecordInv'
<1>1. PICK k \in Kinds \ {"own"} :
         /\ FrameArrives([kind |-> k, id |-> 0])
         /\ Disturbed(IF k = "delay_req" THEN "request" ELSE "foreign")
  BY DEF Foreign
<1> DEFINE x == [kind |-> k, id |-> 0]
<1>2. /\ rxq' = Append(rxq, x)
      /\ state' = state /\ isNew' = isNew /\ syncTo' = syncTo /\ seq' = seq
      /\ con' = con /\ flight' = flight /\ phase' = phase
      /\ clean' = clean /\ output' = output
      /\ IF output = "t4" THEN Pulse(Token("t4", 0)) ELSE UNCHANGED counter
  BY <1>1 DEF Foreign, FrameArrives, ppi
<1>p. /\ wait \in 0 .. 2 /\ events \in Seq(Disturbances) /\ RecordTypes /\ CleanInv
      /\ rxq \in Seq(AnyFrames) /\ tic \in Seq(Tokens) /\ 0 \in SeqIds
  BY DataAssumption DEF RecordInv, RecordTypes, BenchTypes, SeqIds
<1>3. x \in AnyFrames /\ Token("t4", 0) \in Tokens
  BY <1>p, TokenTypes DEF AnyFrames
<1>4. rxq' \in Seq(AnyFrames) /\ (Unanswered /\ k # "delay_req" => Unanswered')
  <2>1. x.kind = k
    OBVIOUS
  <2> HIDE DEF x
  <2> QED BY <1>2, <1>p, <1>3, <2>1, QueueGrows
<1>5. tic' \in Seq(Tokens)
  BY <1>2, <1>3, <1>p, PulseRecords DEF counter
<1>6. RecordTypes' /\ CleanInv'
  BY <1>2, <1>p, <1>4, <1>5, CleanSame DEF RecordTypes, Consoles, AnyFrames, Tokens
<1>7. /\ events' # <<>>
      /\ Steady' => (IF k = "delay_req" THEN "request" ELSE "foreign") = "foreign" /\ OnlyForeign
  BY <1>1, <1>p, DisturbedIs
<1>8. ASSUME Steady' PROVE ClockInv' /\ TicInv' /\ LedInv'
  <2>1. OnlyForeign /\ k # "delay_req" /\ output = "t1"
    BY <1>7, <1>8 DEF OnlyForeign
  <2>2. ClockInv /\ TicInv /\ LedInv
    BY <2>1 DEF RecordInv, Steady
  <2>3. wait' = wait /\ tic' = tic
    BY <1>2, <2>1 DEF counter
  <2>4. ClockInv' /\ TicInv'
    BY <1>2, <2>2, <2>3 DEF ClockInv, TicInv, Token
  <2>5. Unanswered'
    BY <1>4, <2>1, <2>2 DEF LedInv
  <2>6. rxq' # <<>>
    BY <1>2, <1>3, <1>p, AppendProperties, EmptySeq
  <2>7. Led(con.log)' /\ (Broken(con.log)' <=> Broken(con.log)) /\ (Shut(con, seq)' <=> Shut(con, seq))
        /\ (UnderWay' <=> UnderWay)
    BY <1>2, <2>2 DEF LedInv, Led, Broken, StopLine, Shut, UnderWay, Open, JustSet, Token
  <2> QED BY <2>2, <2>4, <2>5, <2>6, <2>7 DEF LedInv
<1> QED BY <1>6, <1>7, <1>8 DEF RecordInv, Steady

\* At the entry to MASTER nothing is recorded.
LEMMA RecordStarts == BenchInit => BenchTypes /\ RecordInv
<1> SUFFICES ASSUME BenchInit PROVE BenchTypes /\ RecordInv
  OBVIOUS
<1>1. /\ state = "MASTER" /\ isNew = TRUE /\ seq = 0 /\ rxq = <<>> /\ flight = <<>>
      /\ con = [log |-> <<>>, line |-> <<>>] /\ phase \in 0 .. PpsMs - 1
      /\ output \in {"t1", "t4"} /\ wait = 0 /\ tic = <<>> /\ events = <<>>
      /\ answered = 0 /\ clean = 0 /\ 0 \in SeqIds
  BY DataAssumption, BenchAssumption DEF BenchInit, SeqIds
<1>2. con.log = <<>> /\ con.line = <<>> /\ Len(con.log) = 0
  BY <1>1
<1>3. BenchTypes
  BY <1>1 DEF BenchTypes
<1>4. RecordTypes
  BY <1>1 DEF RecordTypes, Consoles
<1>5. CleanInv
  BY <1>1, <1>2 DEF CleanInv
<1>6. ClockInv
  BY <1>1 DEF ClockInv
<1>7. TicInv
  BY <1>1 DEF TicInv
<1>8. Shut(con, seq)
  BY <1>1, <1>2 DEF Shut
<1>9. WholeInv
  BY <1>1, <1>2, <1>8 DEF WholeInv, WholeLog
<1>10. LedInv
  <2>1. Led(con.log)
    BY <1>2 DEF Led
  <2>2. Unanswered
    BY <1>1 DEF Unanswered
  <2> QED BY <1>8, <2>1, <2>2 DEF LedInv
<1> QED BY <1>3, <1>4, <1>5, <1>6, <1>7, <1>9, <1>10 DEF RecordInv

\* A stutter.
LEMMA RecordStays ==
  ASSUME RecordInv, UNCHANGED <<vars, bench>>
  PROVE  RecordInv'
<1>1. /\ state' = state /\ isNew' = isNew /\ syncTo' = syncTo /\ seq' = seq /\ rxq' = rxq
      /\ con' = con /\ flight' = flight /\ phase' = phase /\ output' = output /\ wait' = wait
      /\ tic' = tic /\ events' = events /\ answered' = answered /\ clean' = clean
  BY DEF vars, bench
<1>2. RecordTypes' /\ CleanInv'
  BY <1>1, CleanSame DEF RecordInv, RecordTypes, Consoles, AnyFrames, Tokens
<1>3. Steady' = Steady /\ OnlyForeign' = OnlyForeign
  BY <1>1 DEF Steady, OnlyForeign, Range
<1>4. /\ ClockInv => ClockInv'
      /\ TicInv => TicInv'
  BY <1>1 DEF ClockInv, TicInv, Token
<1>5. /\ UnderWay' <=> UnderWay
      /\ Shut(con, seq)' <=> Shut(con, seq)
      /\ Led(con.log) => Led(con.log)'
      /\ Broken(con.log)' <=> Broken(con.log)
      /\ Unanswered => Unanswered'
      /\ WholeLog(con.log) => WholeLog(con.log)'
  BY <1>1 DEF UnderWay, Open, JustSet, Shut, Led, Broken, StopLine, Unanswered, WholeLog, Whole, Token
<1>6. WholeInv => WholeInv'
  BY <1>1, <1>5 DEF WholeInv
<1>7. LedInv => LedInv'
  BY <1>1, <1>5 DEF LedInv
<1> QED BY <1>1, <1>2, <1>3, <1>4, <1>6, <1>7 DEF RecordInv

(* tic_gui.py:80-110.  The two records of a capture, and the state of the  *)
(* firmware, the loop and the counter between them.                        *)
THEOREM RecordsKept == BenchSpec => [](BenchTypes /\ RecordInv)
<1>1. BenchInit => BenchTypes /\ RecordInv
  BY RecordStarts
<1>2. BenchTypes /\ RecordInv /\ [BenchNext]_<<vars, bench>> => (BenchTypes /\ RecordInv)'
  <2> SUFFICES ASSUME BenchTypes, RecordInv, [BenchNext]_<<vars, bench>>
               PROVE  (BenchTypes /\ RecordInv)'
    OBVIOUS
  <2>1. BenchTypes'
    BY BenchTypesKept
  <2>2. RecordInv'
    <3>1. CASE BenchNext
      BY <3>1, IssueRecords, ReturnRecords, LoseRecords, ForeignRecords, TickRecords DEF BenchNext
    <3>2. CASE UNCHANGED <<vars, bench>>
      BY <3>2, RecordStays
    <3> QED BY <3>1, <3>2
  <2> QED BY <2>1, <2>2
<1> QED BY <1>1, <1>2, PTL DEF BenchSpec

-----------------------------------------------------------------------------
(* From the records to the rows.                                          *)

\* The file: the complete lines, and the open one.
LEMMA CapturedLines ==
  ASSUME con \in Consoles
  PROVE  /\ Captured(con) \in Seq(Seq(Tokens)) /\ Len(con.log) \in Nat
         /\ \A i \in 1 .. Len(con.log) : i \in 1 .. Len(Captured(con)) /\ Captured(con)[i] = con.log[i]
         /\ \A i \in 1 .. Len(Captured(con)) :
              \/ i \in 1 .. Len(con.log)
              \/ i = Len(con.log) + 1 /\ con.line # <<>> /\ Captured(con)[i] = con.line
<1> DEFINE file == Captured(con)
<1>1. con.log \in Seq(Seq(Tokens)) /\ con.line \in Seq(Tokens)
  BY DEF Consoles
<1>2. Len(con.log) \in Nat
  BY <1>1, LenProperties
<1>3. CASE con.line = <<>>
  <2>1. file = con.log
    BY <1>3 DEF Captured
  <2> HIDE DEF file
  <2> QED BY <1>1, <1>2, <2>1 DEF file
<1>4. CASE con.line # <<>>
  <2>1. file = Append(con.log, con.line)
    BY <1>4 DEF Captured
  <2>2. /\ file \in Seq(Seq(Tokens)) /\ Len(file) = Len(con.log) + 1
        /\ file[Len(con.log) + 1] = con.line
        /\ \A i \in 1 .. Len(con.log) : file[i] = con.log[i]
    BY <1>1, <2>1, AppendProperties
  <2> HIDE DEF file
  <2> QED BY <1>2, <1>4, <2>2 DEF file
<1> QED BY <1>3, <1>4

\* A line of one token ends the reading, or makes it fail, unless that is a
\* stamp t1 that is still open; and that one ends it too.
LEMMA OneTokenStops ==
  ASSUME NEW line \in Seq(Tokens), line[1].kind \in Stamps,
         StopLine(line) \/ \E s : line = <<Token("t1", s)>>
  PROVE  FieldCount(line) < 6
<1>1. Len(line) = 1
  BY DEF StopLine
<1>2. line[1] \in Tokens /\ line = <<line[1]>>
  <2>1. 1 \in 1 .. Len(line)
    BY <1>1
  <2>2. line[1] \in Tokens
    BY <2>1, ElementOfSeq
  <2>3. <<line[1]>> \in Seq(Tokens) /\ Len(<<line[1]>>) = 1 /\ <<line[1]>>[1] = line[1]
    BY <2>2
  <2>4. \A i \in 1 .. Len(line) : line[i] = <<line[1]>>[i]
    BY <1>1, <2>3
  <2> QED BY <1>1, <2>2, <2>3, <2>4, SeqEqual
<1> DEFINE x == line[1]
<1>3. FieldsOf(x) = 3
  BY DEF FieldsOf, Stamps
<1>4. x \in Tokens /\ line = <<x>>
  BY <1>2
<1> HIDE DEF x
<1>5. FieldCount(line) = (IF x.kind \in LineEnds THEN 0 ELSE 1) + 3
  BY <1>3, <1>4, FieldsOfOne
<1> QED BY <1>5

\* A row is that of a complete line before which the reading did not stop.
LEMMA RowsAreWhole ==
  ASSUME con \in Consoles, NEW i \in 1 .. Len(rows),
         con.line # <<>> => \E s : con.line = <<Token("t1", s)>>
  PROVE  /\ i \in 1 .. Len(con.log) /\ rows[i] = Row(con.log[i])
         /\ \A j \in 1 .. i : ~ StopLine(con.log[j])
<1> DEFINE file == Captured(con)
<1>1. /\ file \in Seq(Seq(Tokens)) /\ Len(con.log) \in Nat
      /\ \A k \in 1 .. Len(con.log) : k \in 1 .. Len(file) /\ file[k] = con.log[k]
      /\ \A k \in 1 .. Len(file) :
           \/ k \in 1 .. Len(con.log)
           \/ k = Len(con.log) + 1 /\ con.line # <<>> /\ file[k] = con.line
  BY CapturedLines
<1>2. rows = Rows(file)
  BY DEF rows
<1> HIDE DEF file
<1>3. /\ i \in 1 .. Len(file) /\ rows[i] = Row(file[i])
      /\ \A j \in 1 .. i : /\ ~ (FieldCount(file[j]) < 6) /\ file[j][1].kind \in Stamps
  BY <1>1, <1>2, RowIsOfLine
<1>4. \A j \in 1 .. i : ~ (StopLine(file[j]) \/ \E s : file[j] = <<Token("t1", s)>>)
  <2> SUFFICES ASSUME NEW j \in 1 .. i
               PROVE  ~ (StopLine(file[j]) \/ \E s : file[j] = <<Token("t1", s)>>)
    OBVIOUS
  <2>1. j \in 1 .. Len(file)
    BY <1>1, <1>3, LenProperties
  <2>2. file[j] \in Seq(Tokens)
    BY <1>1, <2>1, ElementOfSeq
  <2> QED BY <1>3, <2>2, OneTokenStops
<1>5. i \in 1 .. i
  OBVIOUS
<1>6. i \in 1 .. Len(con.log)
  BY <1>1, <1>3, <1>4, <1>5
<1>7. \A j \in 1 .. i : j \in 1 .. Len(con.log)
  BY <1>1, <1>6
<1> QED BY <1>1, <1>3, <1>4, <1>6, <1>7

\* The rows of a whole file.
LEMMA WholeIsRead ==
  ASSUME con \in Consoles, WholeLog(con.log), \A i \in 1 .. Len(con.log) : i \in SeqIds,
         con.line # <<>> => \E s : con.line = <<Token("t1", s)>>
  PROVE  Len(rows) = Len(con.log)
<1> DEFINE file == Captured(con)
<1>1. /\ file \in Seq(Seq(Tokens)) /\ Len(con.log) \in Nat
      /\ \A k \in 1 .. Len(con.log) : k \in 1 .. Len(file) /\ file[k] = con.log[k]
      /\ \A k \in 1 .. Len(file) :
           \/ k \in 1 .. Len(con.log)
           \/ k = Len(con.log) + 1 /\ con.line # <<>> /\ file[k] = con.line
  BY CapturedLines
<1>2. rows = Rows(file)
  BY DEF rows
<1> HIDE DEF file
<1>3. PICK n \in 0 .. Len(file) :
           /\ Read(file) \in Seq(Seq(Tokens)) /\ Len(Read(file)) = n
           /\ \A k \in 1 .. n : Read(file)[k] = file[k] /\ ~ (FieldCount(file[k]) < 6)
           /\ n < Len(file) => FieldCount(file[n + 1]) < 6
  BY <1>1, ReadIsPrefix
<1>l. Len(file) \in Nat /\ n \in Nat /\ n <= Len(file)
  BY <1>1, <1>3, LenProperties
<1>4. ASSUME NEW k \in 1 .. Len(con.log)
      PROVE  /\ file[k][1].kind \in Stamps /\ file[k][2].kind \in Stamps
             /\ ~ (FieldCount(file[k]) < 6)
  <2> DEFINE a == Token("t1", k)
             b == Token("t4", k)
  <2>1. file[k] = <<a, b>>
    BY <1>1, <1>4 DEF WholeLog, Whole
  <2>2. a \in Tokens /\ b \in Tokens /\ a.kind = "t1" /\ b.kind = "t4"
    BY <1>4, TokenTypes DEF Token
  <2> HIDE DEF a, b
  <2>3. FieldsOf(a) = 3 /\ FieldsOf(b) = 3 /\ b.kind \in LineEnds
    BY <2>2 DEF FieldsOf, Stamps, LineEnds
  <2>4. FieldCount(<<a, b>>) = 6
    BY <2>2, <2>3, FieldsOfTwo
  <2> QED BY <2>1, <2>2, <2>4 DEF Stamps
<1>5. ASSUME NEW k \in 1 .. Len(file), ~ (FieldCount(file[k]) < 6)
      PROVE  k \in 1 .. Len(con.log)
  <2> SUFFICES ASSUME k \notin 1 .. Len(con.log) PROVE FALSE
    OBVIOUS
  <2>1. PICK s : file[k] = <<Token("t1", s)>>
    BY <1>1
  <2>2. file[k] \in Seq(Tokens)
    BY <1>1, ElementOfSeq
  <2>3. file[k][1].kind \in Stamps
    BY <2>1 DEF Token, Stamps
  <2> QED BY <1>5, <2>1, <2>2, <2>3, OneTokenStops
<1>6. n <= Len(con.log)
  <2>1. CASE n = 0
    BY <1>1, <2>1
  <2>2. CASE n # 0
    <3>1. n \in 1 .. n /\ n \in 1 .. Len(file)
      BY <1>l, <2>2
    <3> QED BY <1>3, <1>5, <3>1
  <2> QED BY <2>1, <2>2
<1>7. n = Len(con.log)
  <2> SUFFICES ASSUME n # Len(con.log) PROVE FALSE
    OBVIOUS
  <2>1. n + 1 \in 1 .. Len(con.log)
    BY <1>1, <1>l, <1>6
  <2>2. n + 1 \in 1 .. Len(file) /\ n < Len(file)
    BY <1>1, <1>l, <2>1
  <2> QED BY <1>3, <1>4, <2>1, <2>2
<1>8. DOMAIN Read(file) = 1 .. n
  BY <1>3, LenProperties
<1>9. ~ Raises(file)
  <2>1. \A k \in 1 .. n : Read(file)[k][1].kind \in Stamps /\ Read(file)[k][2].kind \in Stamps
    BY <1>3, <1>4, <1>7
  <2>2. \A line \in Range(Read(file)) : \E k \in 1 .. n : line = Read(file)[k]
    BY <1>8 DEF Range
  <2> QED BY <2>1, <2>2 DEF Raises
<1>10. rows = [k \in 1 .. n |-> Row(Read(file)[k])]
  BY <1>2, <1>8, <1>9 DEF Rows
<1> QED BY <1>l, <1>7, <1>10

\* A steady capture has no other line open than that of the last Sync,
\* unless the reading of the file has ended before.
LEMMA SteadyLine ==
  ASSUME RecordInv, events = <<>>, con.line # <<>>
  PROVE  \E s : con.line = <<Token("t1", s)>>
<1>1. ~ Shut(con, seq)
  BY DEF Shut
<1>2. Open(con, seq)
  BY <1>1 DEF RecordInv, WholeInv, UnderWay
<1> QED BY <1>2 DEF Open

\* A row before which nothing was broken.
LEMMA LedRows ==
  ASSUME RecordInv, OnlyForeign, NEW i \in 1 .. Len(rows)
  PROVE  rows[i].t1 = Token("t1", i)
<1>1. con \in Consoles /\ LedInv
  BY DEF RecordInv, RecordTypes
<1> DEFINE file == Captured(con)
<1>2. /\ file \in Seq(Seq(Tokens)) /\ Len(con.log) \in Nat
      /\ \A k \in 1 .. Len(con.log) : k \in 1 .. Len(file) /\ file[k] = con.log[k]
      /\ \A k \in 1 .. Len(file) :
           \/ k \in 1 .. Len(con.log)
           \/ k = Len(con.log) + 1 /\ con.line # <<>> /\ file[k] = con.line
  BY <1>1, CapturedLines
<1>3. rows = Rows(file)
  BY DEF rows
<1> HIDE DEF file
<1>4. /\ i \in 1 .. Len(file) /\ rows[i] = Row(file[i])
      /\ \A j \in 1 .. i : /\ ~ (FieldCount(file[j]) < 6) /\ file[j][1].kind \in Stamps
  BY <1>2, <1>3, RowIsOfLine
<1>5. \A j \in 1 .. i : ~ (StopLine(file[j]) \/ \E s : file[j] = <<Token("t1", s)>>)
  <2> SUFFICES ASSUME NEW j \in 1 .. i
               PROVE  ~ (StopLine(file[j]) \/ \E s : file[j] = <<Token("t1", s)>>)
    OBVIOUS
  <2>1. j \in 1 .. Len(file)
    BY <1>2, <1>4, LenProperties
  <2>2. file[j] \in Seq(Tokens)
    BY <1>2, <2>1, ElementOfSeq
  <2> QED BY <1>4, <2>2, OneTokenStops
<1>6. i \in 1 .. Len(con.log)
  <2> SUFFICES ASSUME i \notin 1 .. Len(con.log) PROVE FALSE
    OBVIOUS
  <2>1. i = Len(con.log) + 1 /\ con.line # <<>> /\ file[i] = con.line
    BY <1>2, <1>4
  <2>2. ~ Broken(con.log)
    <3>1. \A j \in 1 .. Len(con.log) : j \in 1 .. i /\ file[j] = con.log[j]
      BY <1>2, <2>1
    <3> QED BY <1>5, <3>1 DEF Broken
  <2>3. Open(con, seq)
    BY <1>1, <2>1, <2>2 DEF LedInv, Shut, UnderWay
  <2>4. i \in 1 .. i
    BY <1>2, <2>1
  <2> QED BY <1>5, <2>1, <2>3, <2>4 DEF Open
<1>7. \A j \in 1 .. i : ~ StopLine(con.log[j])
  <2>1. \A j \in 1 .. i : j \in 1 .. Len(con.log)
    BY <1>2, <1>6
  <2> QED BY <1>2, <1>5, <2>1
<1>8. con.log[i][1] = Token("t1", i)
  BY <1>1, <1>6, <1>7 DEF LedInv, Led
<1> QED BY <1>2, <1>4, <1>6, <1>8 DEF Row

\* The rows are numbered.
LEMMA RowsLength ==
  ASSUME con \in Consoles
  PROVE  Len(rows) \in Nat
<1> DEFINE file == Captured(con)
<1>1. file \in Seq(Seq(Tokens))
  BY CapturedLines
<1>2. rows = Rows(file)
  BY DEF rows
<1> HIDE DEF file
<1>3. PICK n \in 0 .. Len(file) : Read(file) \in Seq(Seq(Tokens)) /\ Len(Read(file)) = n
  BY <1>1, ReadIsPrefix
<1>4. n \in Nat /\ DOMAIN Read(file) = 1 .. n
  BY <1>1, <1>3, LenProperties
<1>5. CASE Raises(file)
  BY <1>2, <1>5 DEF Rows
<1>6. CASE ~ Raises(file)
  <2>1. rows = [k \in 1 .. n |-> Row(Read(file)[k])]
    BY <1>2, <1>4, <1>6 DEF Rows
  <2> QED BY <1>4, <2>1
<1> QED BY <1>5, <1>6

\* tic_gui.py t1, from the records.
LEMMA T1OfRecords == BenchTypes /\ RecordInv => T1Paired
<1> SUFFICES ASSUME BenchTypes, RecordInv, OnlyForeign, NEW i \in 1 .. Paired
             PROVE  rows[i].t1 = tic[i]
  BY DEF T1Paired, OnlyForeign
<1>1. con \in Consoles /\ tic \in Seq(Tokens) /\ TicInv /\ output = "t1"
  BY DEF RecordInv, RecordTypes, OnlyForeign, Steady
<1>2. Len(tic) \in Nat /\ Len(rows) \in Nat
  BY <1>1, RowsLength, LenProperties
<1>3. i \in 1 .. Len(tic) /\ i \in 1 .. Len(rows)
  <2> DEFINE a == Len(tic)
             b == Len(rows)
  <2>1. a \in Nat /\ b \in Nat /\ i \in 1 .. Least(a, b)
    BY <1>2 DEF Paired
  <2> HIDE DEF a, b
  <2>2. i \in 1 .. a /\ i \in 1 .. b
    BY <2>1 DEF Least
  <2> QED BY <2>2 DEF a, b
<1>4. rows[i].t1 = Token("t1", i)
  BY <1>3, LedRows
<1> QED BY <1>1, <1>3, <1>4 DEF TicInv

\* tic_gui.py t4, from the records.
LEMMA T4OfRecords == BenchTypes /\ RecordInv => T4Paired
<1> SUFFICES ASSUME BenchTypes, RecordInv, output = "t4", events = <<>>, NEW i \in 1 .. Paired
             PROVE  rows[i].t4 = tic[i]
  BY DEF T4Paired
<1>1. con \in Consoles /\ tic \in Seq(Tokens) /\ TicInv /\ WholeLog(con.log)
  BY DEF RecordInv, RecordTypes, Steady, WholeInv
<1>2. Len(tic) \in Nat /\ Len(rows) \in Nat
  BY <1>1, RowsLength, LenProperties
<1>3. i \in 1 .. Len(tic) /\ i \in 1 .. Len(rows)
  <2> DEFINE a == Len(tic)
             b == Len(rows)
  <2>1. a \in Nat /\ b \in Nat /\ i \in 1 .. Least(a, b)
    BY <1>2 DEF Paired
  <2> HIDE DEF a, b
  <2>2. i \in 1 .. a /\ i \in 1 .. b
    BY <2>1 DEF Least
  <2> QED BY <2>2 DEF a, b
<1>4. i \in 1 .. Len(con.log) /\ rows[i] = Row(con.log[i])
  BY <1>1, <1>3, SteadyLine, RowsAreWhole
<1>5. con.log[i] = Whole(i)
  BY <1>1, <1>4 DEF WholeLog
<1>6. rows[i].t4 = Token("t4", i)
  BY <1>4, <1>5 DEF Row, Whole
<1> QED BY <1>1, <1>3, <1>6 DEF TicInv

\* tic_gui.py t1_4, from the records.
LEMMA T14OfRecords == BenchTypes /\ RecordInv => T14SameFrame
<1> SUFFICES ASSUME BenchTypes, RecordInv, NEW i \in 1 .. Least(clean, Len(rows))
             PROVE  rows[i].t1.kind = "t1" /\ rows[i].t4 = Token("t4", rows[i].t1.id)
  BY DEF T14SameFrame
<1>1. con \in Consoles /\ clean \in Nat /\ CleanInv
  BY DEF RecordInv, RecordTypes
<1>2. i \in 1 .. clean /\ i \in 1 .. Len(rows)
  <2> DEFINE b == Len(rows)
  <2>1. b \in Nat /\ i \in 1 .. Least(clean, b)
    BY <1>1, RowsLength
  <2> HIDE DEF b
  <2>2. i \in 1 .. clean /\ i \in 1 .. b
    BY <1>1, <2>1 DEF Least
  <2> QED BY <2>2 DEF b
<1> DEFINE file == Captured(con)
<1>3. /\ file \in Seq(Seq(Tokens)) /\ Len(con.log) \in Nat
      /\ \A k \in 1 .. Len(con.log) : file[k] = con.log[k]
  BY <1>1, CapturedLines
<1>4. rows = Rows(file)
  BY DEF rows
<1> HIDE DEF file
<1>5. rows[i] = Row(file[i])
  BY <1>2, <1>3, <1>4, RowIsOfLine
<1>6. file[i] = Whole(i)
  BY <1>1, <1>2, <1>3 DEF CleanInv
<1> QED BY <1>5, <1>6 DEF Row, Whole, Token

\* The rows of an undisturbed file, from the records.
LEMMA NothingIsDropped == BenchTypes /\ RecordInv => NothingDropped
<1> SUFFICES ASSUME BenchTypes, RecordInv, events = <<>>
             PROVE  Len(rows) = answered /\ Len(tic) \in {Len(rows), Len(rows) + 1}
  BY DEF NothingDropped
<1>1. con \in Consoles /\ TicInv /\ WholeInv /\ seq \in SeqIds /\ output \in {"t1", "t4"}
  BY DEF RecordInv, RecordTypes, Steady, BenchTypes
<1>2. /\ Len(con.log) \in Nat /\ seq \in Nat
      /\ Len(con.log) = answered
      /\ \/ Len(con.log) = seq /\ flight = <<>>
         \/ Len(con.log) = seq - 1
  BY <1>1, CapturedLines DEF SeqIds, WholeInv, Shut, Open, UnderWay
<1>3. \A i \in 1 .. Len(con.log) : i \in SeqIds
  BY <1>1, <1>2, DataAssumption DEF SeqIds
<1>4. Len(rows) = Len(con.log)
  BY <1>1, <1>3, SteadyLine, WholeIsRead DEF WholeInv
<1>5. Len(tic) \in {seq, seq - 1} /\ (flight = <<>> => Len(tic) = seq)
  BY <1>1 DEF TicInv
<1> QED BY <1>2, <1>4, <1>5

(* tic_gui.py:161-186, run t1.  However long the capture, whenever it is   *)
(* stopped, and whatever frames of other nodes it holds that the firmware  *)
(* does not answer, the i-th reading of the counter and the i-th t1 read   *)
(* from the file belong to the same Sync.                                  *)
THEOREM T1AlwaysPaired == BenchSpec => []T1Paired
  BY RecordsKept, T1OfRecords, PTL

(* tic_gui.py, run t4: the same of the receive side, while nothing but the *)
(* returned Syncs arrives and none of them is lost.                        *)
THEOREM T4AlwaysPaired == BenchSpec => []T4Paired
  BY RecordsKept, T4OfRecords, PTL

(* tic_gui.py, run t1_4: the lines of before the first disturbance hold    *)
(* the send and the receive stamp of one Sync, and neither a lost frame,   *)
(* nor a foreign one, nor a Sync that could not be sent, all later, can    *)
(* change a row that was good.                                             *)
THEOREM T14AlwaysSameFrame == BenchSpec => []T14SameFrame
  BY RecordsKept, T14OfRecords, PTL

(* tic_gui.py:80-110 and wrpc-socket.c:145-260: in an undisturbed capture  *)
(* every Sync that came back is a row of the file, and the counter is      *)
(* ahead of the rows by the Sync under way at most.                        *)
THEOREM NothingEverDropped == BenchSpec => []NothingDropped
  BY RecordsKept, NothingIsDropped, PTL
=============================================================================
