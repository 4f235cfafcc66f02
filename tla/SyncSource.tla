----------------------------- MODULE SyncSource -----------------------------
(***************************************************************************)
(* What the calibration bench needs of the firmware, without any of its    *)
(* workings: a source of Syncs that is started and stopped from outside,   *)
(* numbers what it sends, never sends two closer together than the         *)
(* interval, never sends unless it was told to be master, and while it     *)
(* drives goes on sending.                                                 *)
(***************************************************************************)
EXTENDS Integers

CONSTANTS SyncMs,   \* the Sync interval, in ticks
          SeqSize   \* how many numbers there are

VARIABLES role,     \* what it was told to be: "master" or "slave"
          driving,  \* it is the one that sends Syncs
          seq,      \* the number of the last Sync
          quiet     \* ticks since it began to drive or last sent, SyncMs for more

vars == <<role, driving, seq, quiet>>

Init == role = "slave" /\ driving = FALSE /\ seq = 0 /\ quiet = 0

Told(r) == role' = r /\ driving' = FALSE /\ UNCHANGED <<seq, quiet>>

Begin ==
  /\ role = "master" /\ ~driving
  /\ driving' = TRUE /\ quiet' = 0
  /\ UNCHANGED <<role, seq>>

End == driving /\ driving' = FALSE /\ UNCHANGED <<role, seq, quiet>>

\* The last Sync before an end may be part of the same step.
Send ==
  /\ driving /\ quiet = SyncMs
  /\ seq' = (seq + 1) % SeqSize
  /\ quiet' = 0
  /\ driving' \in BOOLEAN
  /\ UNCHANGED role

Wait ==
  /\ quiet' = IF quiet < SyncMs THEN quiet + 1 ELSE SyncMs
  /\ UNCHANGED <<role, driving, seq>>

Next == (\E r \in {"master", "slave"} : Told(r)) \/ Begin \/ End \/ Send \/ Wait

Spec == Init /\ [][Next]_vars

\* Time passes, and a Sync that is due is sent unless it is stopped.
FairSpec == Spec /\ WF_vars(Wait) /\ WF_vars(Send)
=============================================================================
