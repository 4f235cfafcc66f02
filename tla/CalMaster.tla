------------------------------ MODULE CalMaster ------------------------------
(***************************************************************************)
(* The PTP engine of the absolute-calibration firmware (the modified ppsi  *)
(* in wrpc-clb-cal-sw): the generic state machine of fsm.c, the states     *)
(* INITIALIZING and MASTER, the Sync and Delay_Resp messages, and the      *)
(* socket layer that prints every time stamp on the console.  A call of    *)
(* the state machine is one step: the firmware is a single loop that polls *)
(* the socket and runs the machine to completion.  The states WR_LINK_ON,  *)
(* LISTENING and FAULTY are not in this repository; they appear as what    *)
(* fsm.c lets any state function do.                                       *)
(***************************************************************************)
EXTENDS Integers, Sequences

CONSTANTS SyncMs,     \* PP_TO_SYNC: 1000 ms, in ticks
          RetryMs,    \* pause after a failed initialisation: 1000 ms, in ticks
          FaultMs,    \* pause asked for on entry to FAULTY: 500 ms, in ticks
          AnnLeft,    \* what pp_ms_to_timeout may say of PP_TO_ANN_INTERVAL, never armed
          SeqSize,     \* 2^16, the width of sequenceId
          QueueSize,  \* frames the socket can hold
          Frames      \* the frames that may arrive: [kind, id]

Kinds == {"own",        \* a Sync of ours, returned by the loop-back
          "runt",       \* shorter than a PTP header
          "announce", "sync", "delay_req",
          "other"}      \* any other PTP message

NoFrame == [kind |-> "none", id |-> 0]

SeqIds == 0 .. SeqSize - 1

ASSUME TimeAssumption ==
  /\ SyncMs \in Nat \ {0} /\ RetryMs \in Nat \ {0} /\ FaultMs \in Nat \ {0}
  /\ AnnLeft \subseteq Nat /\ AnnLeft # {}
ASSUME DataAssumption ==
  /\ SeqSize \in Nat \ {0, 1}
  /\ QueueSize \in Nat \ {0}
  /\ Frames \subseteq [kind : Kinds, id : SeqIds]

VARIABLES
  state,    \* ppi->state
  isNew,    \* ppi->is_new_state
  delay,    \* ticks before the loop calls the machine without a frame
  syncTo,   \* ticks left of PP_TO_SYNC, or NotPending
  seq,      \* ppi->sent_seq[PPM_SYNC]
  role,     \* ppi->role and clockClass, set by the mode command: "master" or "slave"
  sock,     \* ppi->ch[].custom is an open socket
  rxq,      \* frames received and not yet read from the socket
  out,      \* what the last call printed on the console, in order
  tx,       \* the frames the last call really transmitted
  quiet     \* history: ticks since MASTER was entered or a Sync was last issued

ppi  == <<state, isNew, delay, syncTo, seq>>
vars == <<state, isNew, delay, syncTo, seq, role, sock, rxq, out, tx, quiet>>

NotPending == -1
States == {"INITIALIZING", "LINK_ON", "MASTER", "LISTENING", "FAULTY"}

\* What the printfs emit: a stamp t1 of a Sync ("t1") or of a Delay_Resp
\* ("resp"), both with no end of line; a stamp t4 and an end of line; the
\* error line of fsm.c; the header lines of pp_initializing.
Token(k, i) == [kind |-> k, id |-> i]
Tokens == [kind : {"t1", "resp", "t4", "err", "hdr"}, id : SeqIds]
Sent   == [kind : {"sync", "resp"}, id : SeqIds]

Least(a, b) == IF a < b THEN a ELSE b

Init ==
  /\ state = "INITIALIZING" /\ isNew = TRUE
  /\ delay = 0 /\ syncTo = NotPending /\ seq = 0
  /\ role = "slave"
  /\ sock = FALSE
  /\ rxq = <<>> /\ out = <<>> /\ tx = <<>>
  /\ quiet = 0

-----------------------------------------------------------------------------
(* The socket and the header.                                              *)

\* The loop calls the machine with the frame it has read, if there is one;
\* without a frame it calls it when the delay it was given has elapsed.
Called(f) ==
  \/ rxq # <<>> /\ f = Head(rxq)
  \/ rxq = <<>> /\ delay = 0 /\ f = NoFrame

Consume == rxq' = IF rxq = <<>> THEN <<>> ELSE Tail(rxq)

Input == Frames \cup {NoFrame}

\* Slip: only the frames that are not discarded are printed.
RecvText_afterHeader(f) ==
  IF f.kind \in {"none", "runt", "own"} THEN <<>> ELSE <<Token("t4", f.id)>>

\* wrpc_net_recv prints t4 and ends the line, before anything has looked
\* at what the frame is.
RecvText(f) == IF f = NoFrame THEN <<>> ELSE <<Token("t4", f.id)>>

\* Slip: only the event messages are stamped.
SendText_eventOnly(k, i) == IF k = "t1" THEN <<Token(k, i)>> ELSE <<>>

\* wrpc_net_send prints the stamp of whatever it sends, sent or not, and
\* leaves the line open.
SendText(k, i) == <<Token(k, i)>>

\* Slip: our own frames are not recognised.
Unpacked_ownKept(f) == IF f.kind = "runt" THEN NoFrame ELSE f

\* Only a whole header from another clock reaches the state function; for
\* any other frame the function runs without one.
Unpacked(f) == IF f.kind \in {"runt", "own"} THEN NoFrame ELSE f

-----------------------------------------------------------------------------
(* pp_state_machine, after the state function returned e having set        *)
(* next_state and next_delay.                                              *)

\* "fsm for %s: Error %i in %s" follows what the call printed before.
ErrText(e) == IF e = 0 THEN <<>> ELSE <<Token("err", 0)>>

\* A new state is entered at once, whatever delay was asked for.
Conclude(next, e, d, text) ==
  /\ state' = next
  /\ isNew' = (next # state)
  /\ delay' = IF next # state THEN 0 ELSE d
  /\ out' = text \o ErrText(e)
  /\ quiet' = IF seq' # seq \/ (next = "MASTER" /\ state # "MASTER") THEN 0 ELSE quiet

-----------------------------------------------------------------------------
(* INITIALIZING                                                            *)

\* wrpc_net_init closes the socket if there is one and opens it again: what
\* was queued is gone.  Opening fails only if no socket is free; the -1 of
\* wrpc_open_ch is not looked at.
ReopenSocket ==
  /\ sock' \in {TRUE, sock}
  /\ rxq' = <<>>

\* Slip: the test of the role is lost.
Initialised_anyRole == "LINK_ON"

Initialised == IF role = "master" THEN "LINK_ON" ELSE "LISTENING"

InitDone(f) ==
  /\ state = "INITIALIZING"
  /\ Called(f)
  /\ ReopenSocket
  /\ tx' = <<>>
  /\ UNCHANGED <<syncTo, seq, role>>
  /\ Conclude(Initialised, 0, 0, RecvText(f) \o <<Token("hdr", 0)>>)

\* The extension could not be initialised: stay, and retry in a second.
InitFailed(f) ==
  /\ state = "INITIALIZING"
  /\ Called(f)
  /\ ReopenSocket
  /\ tx' = <<>>
  /\ UNCHANGED <<syncTo, seq, role>>
  /\ Conclude("INITIALIZING", 0, RetryMs, RecvText(f))

-----------------------------------------------------------------------------
(* MASTER                                                                  *)

\* Slip: only a timer that was never armed is armed.
ArmedTo_stale == IF syncTo = NotPending THEN SyncMs ELSE syncTo

\* Entering the state arms PP_TO_SYNC.
ArmedTo == IF isNew THEN SyncMs ELSE syncTo

\* Slip: the timer is looked at only when there is no frame to handle.
SyncDue_idleOnly == ~isNew /\ syncTo = 0 /\ rxq = <<>>

\* A timer just armed has not elapsed.
SyncDue == ~isNew /\ syncTo = 0

\* Slip: the timer is armed again for less than the interval.
Rearmed_short == SyncMs - 1

\* Slip: the interval of the Announce message is used.
Rearmed_long == 2 * SyncMs

\* Every Sync, sent or not, arms the timer for the next.
Rearmed == SyncMs

\* Slip: the counter is not cut to the 16 bits of the field.
NextSeq_wide == seq + 1

NextSeq == (seq + 1) % SeqSize

\* The label out: with e = PP_SEND_OK; what is left of the two timeouts
\* bounds the delay.
MasterOk(next, text) ==
  \E d1 \in AnnLeft :
    Conclude(IF role = "slave" THEN "LISTENING" ELSE next, 0, Least(d1, syncTo'), text)

\* The label out: with PP_SEND_NO_STAMP, "just keep the ball rolling".
MasterNoStamp(text) ==
  \E d1 \in AnnLeft : Conclude("MASTER", 0, Least(d1, syncTo'), text)

\* The label out_fault:, for any negative error.
MasterFault(text) == Conclude("FAULTY", -1, FaultMs, text)

\* The hook master_msg may eat the message or refuse it; a Sync and an
\* Announce go to handlers that may fail, an Announce may make BMC choose
\* another state.  A Delay_Req is answered by a Delay_Resp whose result
\* is ignored: its stamp is printed even if it could not be sent.
MasterMsg(f, text, sent) ==
  LET m == Unpacked(f).kind
  IN \/ tx' = sent /\ MasterOk("MASTER", text)
     \/ m # "none" /\ tx' = sent /\ MasterFault(text)
     \/ m = "announce" /\ tx' = sent /\ MasterOk("LISTENING", text)
     \/ /\ m = "delay_req"
        /\ \/ tx' = sent
           \/ sock /\ tx' = Append(sent, [kind |-> "resp", id |-> f.id])
        /\ MasterOk("MASTER", text \o SendText("resp", f.id))

\* A call that issues no Sync.
MasterQuiet(f) ==
  /\ state = "MASTER"
  /\ Called(f) /\ Consume
  /\ ~SyncDue
  /\ syncTo' = ArmedTo
  /\ UNCHANGED <<seq, role, sock>>
  /\ MasterMsg(f, RecvText(f), <<>>)


\* A Sync goes out, with or without a time stamp: msg_issue_sync_followup
\* returns PP_SEND_OK or the positive PP_SEND_NO_STAMP, for both of which
\* "(e = ... < 0)" stores 0.  The frame just read is handled after it.
MasterSync(f) ==
  /\ state = "MASTER"
  /\ Called(f) /\ Consume
  /\ SyncDue
  /\ sock
  /\ syncTo' = Rearmed
  /\ seq' = NextSeq
  /\ UNCHANGED <<role, sock>>
  /\ MasterMsg(f, RecvText(f) \o SendText("t1", NextSeq),
               <<[kind |-> "sync", id |-> NextSeq]>>)

\* The Sync could not be sent; its stamp is printed all the same.  The
\* comparison stores 1 in e, which is PP_SEND_NO_STAMP, and the frame just
\* read is not handled.
MasterSyncError(f) ==
  /\ state = "MASTER"
  /\ Called(f) /\ Consume
  /\ SyncDue
  /\ syncTo' = Rearmed
  /\ seq' = NextSeq
  /\ tx' = <<>>
  /\ UNCHANGED <<role, sock>>
  /\ MasterNoStamp(RecvText(f) \o SendText("t1", NextSeq))

-----------------------------------------------------------------------------
(* The states that are not in the repository, and the environment.         *)

\* Where each may go; LISTENING becomes MASTER only by a BMC decision that
\* a slave-only clock never takes.
Elsewhere ==
  [LINK_ON   |-> {"LINK_ON", "MASTER", "FAULTY"},
   LISTENING |-> {"LISTENING", "FAULTY"} \cup (IF role = "slave" THEN {} ELSE {"MASTER"}),
   FAULTY    |-> {"FAULTY", "INITIALIZING"}]

\* Any such state may send a message of the extension, whose stamp is
\* printed like every other, and may ask for a delay.
OtherState(f) ==
  /\ state \in DOMAIN Elsewhere
  /\ Called(f) /\ Consume
  /\ UNCHANGED <<syncTo, seq, role, sock>>
  /\ \E next \in Elsewhere[state], e \in {0, -1}, d \in {0, FaultMs},
        sends \in BOOLEAN :
       /\ tx' \in {<<>>} \cup IF sends /\ sock THEN {<<[kind |-> "resp", id |-> 0]>>} ELSE {}
       /\ Conclude(next, e, d, RecvText(f) \o IF sends THEN SendText("resp", 0) ELSE <<>>)

\* A frame reaches the socket.
FrameArrives(f) ==
  /\ sock
  /\ Len(rxq) < QueueSize
  /\ rxq' = Append(rxq, f)
  /\ UNCHANGED <<ppi, role, sock, out, tx, quiet>>

\* The shell commands "mode ..." and "ptp start" restart the machine.
Restart(r) ==
  /\ role' = r
  /\ state' = "INITIALIZING" /\ isNew' = TRUE /\ delay' = 0
  /\ out' = <<>> /\ tx' = <<>>
  /\ UNCHANGED <<syncTo, seq, sock, rxq, quiet>>

Down(n) == IF n > 0 THEN n - 1 ELSE n

Tick ==
  /\ delay' = Down(delay)
  /\ syncTo' = Down(syncTo)
  /\ quiet' = Least(quiet + 1, SyncMs)
  /\ UNCHANGED <<state, isNew, seq, role, sock, rxq, out, tx>>

Call(f) == \/ InitDone(f) \/ InitFailed(f)
           \/ MasterQuiet(f) \/ MasterSync(f) \/ MasterSyncError(f)
           \/ OtherState(f)

Step == \E f \in Input : Call(f)

Next ==
  \/ Step
  \/ \E f \in Frames : FrameArrives(f)
  \/ \E r \in {"master", "slave"} : Restart(r)
  \/ Tick

Spec == Init /\ [][Next]_vars

\* The main loop never stops polling and the timer runs.
FairSpec == Spec /\ WF_vars(Step) /\ WF_vars(Tick)
-----------------------------------------------------------------------------
(* Properties                                                              *)

TypeOK ==
  /\ state \in States
  /\ isNew \in BOOLEAN
  /\ delay \in Nat
  /\ syncTo \in {NotPending} \cup 0 .. SyncMs
  /\ seq \in SeqIds
  /\ role \in {"master", "slave"}
  /\ sock \in BOOLEAN
  /\ rxq \in Seq(Frames)
  /\ out \in Seq(Tokens)
  /\ tx \in Seq(Sent)
  /\ quiet \in 0 .. SyncMs

(* A counterpart that is to answer within a second is never pressed: a     *)
(* Sync is attempted only a full interval after the previous one, and      *)
(* after MASTER was entered, across errors, faults and re-initialisations  *)
(* that leave an old timer behind (state-master.c:68-87).                  *)
SyncSpacing == [][seq' # seq => state = "MASTER" /\ quiet = SyncMs]_vars

(* A node that was told to be a slave drives no timing pulse: whatever the *)
(* previous mode left behind, it neither is nor becomes master             *)
(* (state-initializing.c:69-72).                                           *)
SlaveNeverMaster == role = "slave" => state \notin {"LINK_ON", "MASTER"}

(* Every frame on the wire makes a pulse on the tx time-stamp output, so   *)
(* every one must have its stamp on the console of the same call: the two  *)
(* records are matched by position later (wrpc-socket.c:145-153).          *)
EveryFrameStamped ==
  \A i \in DOMAIN tx : \E j \in DOMAIN out :
     out[j] = Token(IF tx[i].kind = "sync" THEN "t1" ELSE "resp", tx[i].id)

\* The firmware as a source of Syncs: it drives while it is in MASTER.
Source == INSTANCE SyncSource WITH driving <- (state = "MASTER")

(* Seen from the bench the machine is a source of Syncs: everything else   *)
(* it does, failed initialisations, faults, foreign frames, leaves number, *)
(* pace and permission alone (fsm.c:74-134).                               *)
IsSource == Source!Spec

(* And with the fairness of the main loop it is a fair one: neither a      *)
(* flood of frames nor a failing transmitter starves the Sync timer        *)
(* (state-master.c:79-87 comes before anything that looks at the frame).   *)
IsFairSource == Source!FairSpec

(* What the comments of the code say of its error paths.                   *)

\* state-master.c:66 "error var, to check errors in msg handling", and the
\* case PP_SEND_ERROR that goes to out_fault: a Sync that could not be
\* sent takes the port to FAULTY.
SendErrorFaults == [][seq' # seq /\ tx' = <<>> => state' = "FAULTY"]_vars
=============================================================================
