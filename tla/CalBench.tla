------------------------------ MODULE CalBench ------------------------------
(***************************************************************************)
(* A timestamp calibration as it is run: the firmware is master            *)
(* (CalMaster), its Syncs come back over a loop, the console is captured   *)
(* into a file, a time interval counter measures from every PPS to the     *)
(* next pulse of the tx or rx time-stamp output, and tic_gui.py pairs the  *)
(* two records by position (GuiLog).  One capture is followed from the     *)
(* entry to MASTER until the port leaves it.                               *)
(***************************************************************************)
EXTENDS CalMaster, GuiLog

CONSTANTS PpsMs,        \* the PPS period in ticks; the Sync interval is one second too
          Outputs,      \* where the counter's stop input may be: "t1", "t4"
          Disturbances, \* the disturbances that may happen
          MaxEvents     \* bound on their number

ASSUME BenchAssumption ==
  /\ PpsMs \in Nat \ {0} /\ PpsMs <= SyncMs
  /\ Outputs \subseteq {"t1", "t4"} /\ Outputs # {}
  /\ Disturbances \subseteq {"lost", "foreign", "request", "unsent", "missed"}
  /\ MaxEvents \in Nat

VARIABLES
  con,      \* the captured console: complete lines, and the open line
  flight,   \* sequenceIds of the Syncs on the loop
  phase,    \* ticks since the last PPS
  output,   \* the output its stop input is connected to: of t1 or of t4
  wait,     \* PPS the counter has seen since its last reading, 2 for more
  tic,      \* its readings, named by the pulse that stopped them
  events,   \* history: the disturbances so far, in order
  answered, \* history: Syncs whose frame came back and was read
  clean,    \* history: complete lines before the first disturbance
  late,     \* history: a tick passed while the machine had something to do
  spans     \* history: a reading began before the last PPS

bench == <<con, flight, phase, output, wait, tic, events, answered, clean, late, spans>>

BenchInit ==
  /\ state = "MASTER" /\ isNew = TRUE /\ delay = 0 /\ syncTo = NotPending
  /\ seq = 0 /\ role = "master" /\ sock = TRUE
  /\ rxq = <<>> /\ out = <<>> /\ tx = <<>> /\ quiet = 0
  /\ con = [log |-> <<>>, line |-> <<>>]
  /\ flight = <<>>
  /\ phase \in 0 .. PpsMs - 1
  /\ output \in Outputs /\ wait = 0
  /\ tic = <<>> /\ events = <<>> /\ answered = 0 /\ clean = 0
  /\ late = FALSE /\ spans = FALSE

counter == <<tic, wait, spans>>

\* A disturbance of kind d, or none.
Disturbed(d) ==
  /\ d \in Disturbances /\ Len(events) < MaxEvents
  /\ events' = Append(events, d)

\* A pulse on the connected output stops a waiting counter.
Pulse(token) ==
  IF wait = 0 THEN UNCHANGED counter
  ELSE /\ tic' = Append(tic, token)
       /\ wait' = 0
       /\ spans' = (spans \/ wait = 2)

\* Everything a call prints reaches the file.
Capture ==
  /\ con' = Printed(con, out')
  /\ clean' = IF events' = <<>> THEN Len(con'.log) ELSE clean
  /\ answered' = answered + Cardinality({i \in DOMAIN out' : out'[i].kind = "t4"})

\* Frames sent leave on the loop and pulse the tx output.
Transmit ==
  /\ flight' = flight \o [i \in DOMAIN tx' |-> tx'[i].id]
  /\ IF output = "t1" /\ tx' # <<>>
       THEN Pulse(Token(IF tx'[1].kind = "sync" THEN "t1" ELSE "resp", tx'[1].id))
       ELSE UNCHANGED counter

\* The capture is bounded to SeqSize - 1 Syncs, so that sequenceIds name them.
Issue ==
  /\ SyncDue => NextSeq # 0
  /\ \E f \in Input :
       \/ (MasterQuiet(f) \/ MasterSync(f)) /\ UNCHANGED events
       \/ MasterSyncError(f) /\ Disturbed("unsent")
  /\ Capture
  /\ Transmit
  /\ UNCHANGED <<phase, late>>

\* Own Syncs come back in order.
Return ==
  /\ flight # <<>>
  /\ FrameArrives([kind |-> "own", id |-> Head(flight)])
  /\ flight' = Tail(flight)
  /\ IF output = "t4" THEN Pulse(Token("t4", Head(flight))) ELSE UNCHANGED counter
  /\ UNCHANGED <<con, phase, events, answered, clean, late>>

Lose ==
  /\ flight # <<>>
  /\ flight' = Tail(flight)
  /\ Disturbed("lost")
  /\ UNCHANGED <<vars, con, phase, counter, answered, clean, late>>

\* A frame of another node; a Delay_Req is one that may be answered.
Foreign ==
  /\ \E k \in Kinds \ {"own"} :
       /\ FrameArrives([kind |-> k, id |-> 0])
       /\ Disturbed(IF k = "delay_req" THEN "request" ELSE "foreign")
  /\ IF output = "t4" THEN Pulse(Token("t4", 0)) ELSE UNCHANGED counter
  /\ UNCHANGED <<con, flight, phase, answered, clean, late>>

\* The loop and the polling of the socket take far less than a tick.
Settled == flight = <<>> /\ rxq = <<>>

NextPhase == (phase + 1) % PpsMs

\* Time passes; a PPS starts the counter, unless it was busy.
BenchTick ==
  /\ Settled
  /\ Tick
  /\ phase' = NextPhase
  /\ \/ /\ wait' = IF NextPhase = 0 THEN Least(wait + 1, 2) ELSE wait
        /\ UNCHANGED events
     \/ /\ NextPhase = 0 /\ wait = 0
        /\ UNCHANGED wait
        /\ Disturbed("missed")
  /\ late' = (late \/ isNew \/ SyncDue)
  /\ UNCHANGED <<con, flight, tic, spans, answered, clean>>

BenchNext ==
  /\ Issue \/ Return \/ Lose \/ Foreign \/ BenchTick
  /\ UNCHANGED output

BenchSpec == BenchInit /\ [][BenchNext]_<<vars, bench>>

-----------------------------------------------------------------------------

rows == Rows(Captured(con))

\* What tic_gui.py subtracts from what.
Paired == Least(Len(tic), Len(rows))

(* tic_gui.py t1: the i-th reading of the counter and the i-th t1 of the   *)
(* file are of the same Sync, at any moment the capture is stopped.  One   *)
(* Sync per PPS and one t1 per line are what it hangs on.  Frames of       *)
(* other nodes that are not answered do not disturb it: they can only end  *)
(* the reading of the file early.                                          *)
T1Paired ==
  output = "t1" /\ Range(events) \subseteq {"foreign"}
    => \A i \in 1 .. Paired : rows[i].t1 = tic[i]

(* tic_gui.py t4: the same for the receive side, where nothing may arrive  *)
(* that is not a returned Sync.                                            *)
T4Paired ==
  output = "t4" /\ events = <<>>
    => \A i \in 1 .. Paired : rows[i].t4 = tic[i]

(* tic_gui.py t1_4: each line read before the first disturbance holds the  *)
(* send and the receive stamp of one and the same Sync, and what happens   *)
(* afterwards never spoils it.                                             *)
T14SameFrame ==
  \A i \in 1 .. Least(clean, Len(rows)) :
     rows[i].t1.kind = "t1" /\ rows[i].t4 = Token("t4", rows[i].t1.id)

(* Undisturbed, no measurement is dropped: every Sync that came back is a  *)
(* row of the file, and the counter is never ahead of it by more than the  *)
(* Sync under way.                                                         *)
NothingDropped ==
  events = <<>> /\ state = "MASTER" =>
    /\ Len(rows) = answered
    /\ Len(tic) \in {Len(rows), Len(rows) + 1}

(* A reading is the time since the latest PPS, as the stamp it is compared *)
(* with counts from the start of the second: an undisturbed firmware that  *)
(* runs its machine in time pulses once in every second.  (When it is late *)
(* a second may pass without a pulse and a reading is a second too long.)  *)
ReadingsInSecond ==
  spans => late \/ events # <<>>

(* tic_gui.py:86-87 "Values one one line are: t1 sec, t1[ns], t1_phase[ps],*)
(* t4 sec, t4[ns], t4_phase[ps]".                                          *)
LinesAreT1T4 == \A i \in DOMAIN rows : rows[i].t1.kind = "t1" /\ rows[i].t4.kind = "t4"
=============================================================================
