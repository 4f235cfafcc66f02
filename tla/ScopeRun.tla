------------------------------ MODULE ScopeRun ------------------------------
(***************************************************************************)
(* edge_sfd.py measuring with the LeCroy8254 library: for each measurement *)
(* the oscilloscope acquires, the waveforms of all channels are fetched    *)
(* and saved in a file named after the second, the file is read back and a *)
(* delay is computed from it, and in the end a histogram file names the    *)
(* files the delays came from.  Several runs of the script, each with an   *)
(* oscilloscope of its own, may share the data directory.  A waveform file *)
(* is written block by block, each at the writer's own place in it: two    *)
(* runs that have opened the same file write into each other's.            *)
(***************************************************************************)
EXTENDS Integers, Sequences

CONSTANTS Runs,       \* runs of the script
          NumMeas,    \* -m
          NumAvg,     \* num_avg of get_waveforms
          Channels,   \* how many channels are fetched
          Delays,     \* the delays a waveform may show, in units of half a tolerance step
          Estimate,   \* -d
          Tolerance,  \* -t
          MaxSec      \* bound on the clock

ASSUME ScopeAssumption ==
  /\ NumMeas \in Nat \ {0} /\ NumAvg \in Nat \ {0} /\ Channels \in Nat \ {0}
  /\ Delays \subseteq Int /\ Estimate \in Int /\ Tolerance \in Nat
  /\ MaxSec \in Nat

VARIABLES
  sec,      \* time.localtime()
  scope,    \* of each run: [mode, armed, sweeps], the sweeps averaged on its screen
  at,       \* where each run is
  n,        \* the measurement each run is at: i + 1
  polls,    \* sweeps of get_waveforms still to wait for
  stamp,    \* timestamp: the second that names the file
  data,     \* the waveforms fetched: for each channel, what was on the screen
  wrote,    \* how many blocks of its file each run has written
  files,    \* the waveform files: name |-> the blocks there are, by their place
  wf,       \* wf_data: what was read back
  first,    \* first_filename
  values,   \* lst_edge_to_sfd, with the file each came from
  hist,     \* the header of the histogram file, or NoHist
  saves     \* history: every file written, by whom and when

vars == <<sec, scope, at, n, polls, stamp, data, wrote, files, wf, first, values,
          hist, saves>>

Places == {"acquire", "sweep", "poll", "fetch", "open", "save", "read", "evaluate",
           "report", "done", "failed"}

NoFile == -1
NoHist == [first |-> NoFile, last |-> NoFile]
Empty  == [i \in {} |-> i]

Init ==
  /\ sec = 0
  /\ scope = [r \in Runs |-> [mode |-> "norm", armed |-> TRUE, sweeps |-> 0]]
  /\ at = [r \in Runs |-> "acquire"]
  /\ n = [r \in Runs |-> 1]
  /\ polls = [r \in Runs |-> 0]
  /\ stamp = [r \in Runs |-> NoFile]
  /\ data = [r \in Runs |-> <<>>]
  /\ wrote = [r \in Runs |-> 0]
  /\ files = <<>>
  /\ wf = [r \in Runs |-> Empty]
  /\ first = [r \in Runs |-> NoFile]
  /\ values = [r \in Runs |-> <<>>]
  /\ hist = [r \in Runs |-> NoHist]
  /\ saves = {}

Goto(r, from, to) == at[r] = from /\ at' = [at EXCEPT ![r] = to]

-----------------------------------------------------------------------------
(* get_waveforms                                                           *)

\* Slip: the acquisition is not made a single one.
StartMode_norm == "norm"

StartMode == "single"

\* The scope is stopped, the averages are cleared, a single acquisition is
\* started.
Acquire(r) ==
  /\ Goto(r, "acquire", "sweep")
  /\ scope' = [scope EXCEPT ![r].mode = StartMode, ![r].armed = TRUE, ![r].sweeps = 0]
  /\ polls' = [polls EXCEPT ![r] = NumAvg]
  /\ data' = [data EXCEPT ![r] = <<>>]
  /\ UNCHANGED <<sec, n, stamp, wrote, files, wf, first, values, hist, saves>>

\* "ARM;WAIT", once for each sweep.
Arm(r) ==
  /\ Goto(r, "sweep", "poll")
  /\ scope' = [scope EXCEPT ![r].armed = TRUE]
  /\ UNCHANGED <<sec, n, polls, stamp, data, wrote, files, wf, first, values, hist, saves>>

\* '1' in scope.ask("*OPC?"): the acquisition armed has been made.
Complete(r) == scope[r].mode = "single" => ~scope[r].armed

\* The last sweep is in: the local time names the file to come.
Poll(r) ==
  /\ at[r] = "poll"
  /\ Complete(r)
  /\ polls' = [polls EXCEPT ![r] = @ - 1]
  /\ IF polls[r] = 1
       THEN /\ at' = [at EXCEPT ![r] = "fetch"]
            /\ stamp' = [stamp EXCEPT ![r] = sec]
       ELSE /\ at' = [at EXCEPT ![r] = "sweep"]
            /\ UNCHANGED stamp
  /\ UNCHANGED <<sec, scope, n, data, wrote, files, wf, first, values, hist, saves>>

\* One channel after the other is asked for what is on the screen.
Fetch(r) ==
  /\ at[r] = "fetch"
  /\ data' = [data EXCEPT ![r] = Append(@, scope[r].sweeps)]
  /\ at' = [at EXCEPT ![r] = IF Len(data'[r]) = Channels THEN "open" ELSE "fetch"]
  /\ UNCHANGED <<sec, scope, n, polls, stamp, wrote, files, wf, first, values, hist, saves>>

\* Slip: the seconds are left out of the name.
FileName_minute(r) == 0

\* "data/%y%m%d_%H_%M_%S_LeCroy8254_bin"
FileName(r) == stamp[r]

Put(name, content) ==
  files' = [f \in DOMAIN files \cup {name} |-> IF f = name THEN content ELSE files[f]]

\* Opening for writing empties the file, whoever else is writing to it.
Open(r) ==
  /\ Goto(r, "open", "save")
  /\ Put(FileName(r), Empty)
  /\ wrote' = [wrote EXCEPT ![r] = 0]
  /\ saves' = saves \cup {[by |-> r, n |-> n[r], sec |-> stamp[r]]}
  /\ UNCHANGED <<sec, scope, n, polls, stamp, data, wf, first, values, hist>>

\* One block is a channel's data, the first with the header and the preambles.
Block(r, k) == [by |-> r, n |-> n[r], sweeps |-> data[r][k]]

\* The next block is written behind the run's own last one, over what another
\* run has there, or leaving a hole where another run has emptied the file.
Save(r) ==
  LET k   == wrote[r] + 1
      old == files[FileName(r)]
  IN  /\ at[r] = "save"
      /\ Put(FileName(r), [i \in DOMAIN old \cup {k} |->
                              IF i = k THEN Block(r, k) ELSE old[i]])
      /\ wrote' = [wrote EXCEPT ![r] = k]
      /\ at' = [at EXCEPT ![r] = IF k = Channels THEN "read" ELSE "save"]
      /\ UNCHANGED <<sec, scope, n, polls, stamp, data, wf, first, values, hist, saves>>

-----------------------------------------------------------------------------
(* average_edge_to_sfd                                                     *)

\* file_to_waveform returns nothing for a file that does not begin with the
\* header line, and no waveform for a channel that is not there or comes
\* behind a hole: check_waveforms raises.
Read(r) ==
  /\ at[r] = "read"
  /\ wf' = [wf EXCEPT ![r] = files[FileName(r)]]
  /\ at' = [at EXCEPT ![r] = IF DOMAIN wf'[r] = 1 .. Channels THEN "evaluate" ELSE "failed"]
  /\ first' = [first EXCEPT ![r] = IF n[r] = 1 THEN FileName(r) ELSE @]
  /\ UNCHANGED <<sec, scope, n, polls, stamp, data, wrote, files, values, hist, saves>>

\* d_edge - d_sfd is not within tolerance / 2 of the estimate.
Outlier(d) == 2 * (d - Estimate) < -Tolerance \/ 2 * (d - Estimate) > Tolerance

\* Slip: a measurement that is an outlier is made again.
Following_retry(r, d) == IF Outlier(d) THEN n[r] ELSE n[r] + 1

\* for i in range(num_meas): an outlier counts as a measurement.
Following(r, d) == n[r] + 1

Evaluate(r) ==
  /\ at[r] = "evaluate"
  /\ \E d \in Delays :
       /\ values' = IF Outlier(d) THEN values
                    ELSE [values EXCEPT ![r] = Append(@, [n |-> n[r], name |-> FileName(r),
                                                          from |-> wf[r], delay |-> d])]
       /\ n' = [n EXCEPT ![r] = Following(r, d)]
  /\ at' = [at EXCEPT ![r] = IF n'[r] > NumMeas THEN "report" ELSE "acquire"]
  /\ UNCHANGED <<sec, scope, polls, stamp, data, wrote, files, wf, first, hist, saves>>

\* The histogram file is named after the last waveform file; there is none
\* when every measurement was an outlier.
Report(r) ==
  /\ Goto(r, "report", "done")
  /\ hist' = IF values[r] = <<>> THEN hist
             ELSE [hist EXCEPT ![r] = [first |-> first[r], last |-> FileName(r)]]
  /\ UNCHANGED <<sec, scope, n, polls, stamp, data, wrote, files, wf, first, values, saves>>

-----------------------------------------------------------------------------
(* The environment: the trigger, the clock, and a link to the scope that   *)
(* may break (vxi11 raises, which nothing catches).                        *)

Trigger(r) ==
  /\ scope[r].armed
  /\ at[r] \in {"sweep", "poll", "fetch"}
  /\ scope[r].sweeps < 2 * NumAvg   \* a bound that only a scope in mode "norm" meets
  /\ scope' = [scope EXCEPT ![r].sweeps = @ + 1,
                            ![r].armed = (scope[r].mode = "norm")]
  /\ UNCHANGED <<sec, at, n, polls, stamp, data, wrote, files, wf, first, values, hist, saves>>

LinkLost(r) ==
  /\ at[r] \in {"acquire", "sweep", "poll", "fetch"}
  /\ at' = [at EXCEPT ![r] = "failed"]
  /\ UNCHANGED <<sec, scope, n, polls, stamp, data, wrote, files, wf, first, values, hist, saves>>

Second ==
  /\ sec < MaxSec
  /\ sec' = sec + 1
  /\ UNCHANGED <<scope, at, n, polls, stamp, data, wrote, files, wf, first, values, hist, saves>>

Script(r) == \/ Acquire(r) \/ Arm(r) \/ Poll(r) \/ Fetch(r) \/ Open(r) \/ Save(r)
             \/ Read(r) \/ Evaluate(r) \/ Report(r)

Next == Second \/ \E r \in Runs : Script(r) \/ Trigger(r) \/ LinkLost(r)

Spec == Init /\ [][Next]_vars

\* The script runs, and an armed scope triggers: pulses never stop.
FairSpec == Spec /\ \A r \in Runs : WF_vars(Script(r)) /\ WF_vars(Trigger(r))

-----------------------------------------------------------------------------
(* Properties                                                              *)

RangeOf(s) == {s[i] : i \in DOMAIN s}

(* A delay is computed from the waveform its own measurement saved: a     *)
(* channel in the file read back is another run's only if that run saved   *)
(* in the same second (LeCroy8254.py:142-148, edge_sfd.py:168-169).        *)
OwnWaveform ==
  \A r \in Runs : \A v \in RangeOf(values[r]) : \A i \in DOMAIN v.from :
    \/ v.from[i].by = r /\ v.from[i].n = v.n
    \/ \E s, t \in saves : /\ s.by = r /\ s.n = v.n
                           /\ t.by = v.from[i].by /\ t.by # r
                           /\ t.sec = s.sec

(* The channels of a waveform are compared with each other: each was       *)
(* fetched from a complete acquisition, and all of them from one and the   *)
(* same (LeCroy8254.py:101-106 against 124-131), unless two runs that save *)
(* in the same second have written them into each other's file (145-148).  *)
OneAcquisition ==
  \A r \in Runs : \A v \in RangeOf(values[r]) : \A i, j \in DOMAIN v.from :
    /\ v.from[i].sweeps >= NumAvg
    /\ \/ v.from[i] = v.from[j]
       \/ \E s, t \in saves : /\ s.by = v.from[i].by /\ t.by = v.from[j].by
                              /\ s.by # t.by /\ s.sec = t.sec

(* A run ends, whatever it measures: an outlier does not make it go on,    *)
(* and a trigger that comes is waited for no longer (edge_sfd.py:167).     *)
RunEnds == <>(\A r \in Runs : at[r] \in {"done", "failed"})

(* The header of the histogram file says that the delays come from the     *)
(* waveform files it names (edge_sfd.py:302-305): each is still there,     *)
(* unless two waveforms were saved in one second (LeCroy8254.py:142-148).  *)
FilesKept ==
  \A r \in Runs : hist[r] # NoHist =>
    \A v \in RangeOf(values[r]) :
      \/ \A i \in 1 .. Channels : /\ i \in DOMAIN files[v.name]
                                 /\ files[v.name][i].by = r
                                 /\ files[v.name][i].n = v.n
      \/ \E s, t \in saves : /\ s.by = r /\ s.n = v.n
                             /\ t # s /\ t.sec = s.sec
=============================================================================
