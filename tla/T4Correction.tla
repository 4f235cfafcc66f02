---------------------------- MODULE T4Correction ----------------------------
(***************************************************************************)
(* The receive time stamp t4 printed by the calibration firmware.  For     *)
(* every received frame wrpc_net_recv subtracts the bit slide of the       *)
(* receiver from the raw stamp (ts_sub), then adds zero (ts_add) only for  *)
(* the carries that ts_add performs.  Both functions normalise by loops,   *)
(* modelled here one iteration per step, in the order the code runs them.  *)
(*                                                                         *)
(* The radixes are CONSTANTS: 1000 ps per ns and PP_NSEC_PER_SEC ns per s  *)
(* in the code.                                                            *)
(***************************************************************************)
EXTENDS Integers

CONSTANTS PsPerNs,    \* 1000 in ts_add and ts_sub
          NsPerSec,   \* PP_NSEC_PER_SEC
          RawStamps,  \* the raw stamps the MAC may deliver (sec, ns, ph)
          Bitslides   \* the values ep_get_bitslide() may return, in ps

Times == [sec : Int, ns : Int, ph : Int]

ASSUME RadixAssumption == PsPerNs \in Nat \ {0} /\ NsPerSec \in Nat \ {0}
ASSUME InputAssumption == RawStamps \subseteq Times /\ Bitslides \subseteq Int

VARIABLES raw,   \* the stamp wr_ts of the frame (t in wrpc_net_recv)
          bts,   \* t_bts.phase, the bit slide
          c,     \* the local result of ts_sub, then of ts_add
          pc     \* the loop that runs

vars == <<raw, bts, c, pc>>

\* A time stamp in picoseconds, before any reduction to (sec, ns, ph).
Total(t) == (t.sec * NsPerSec + t.ns) * PsPerNs + t.ph

Loops == {"sub_ph", "sub_ns", "add_ph", "add_ns", "printed"}

Init ==
  /\ raw \in RawStamps
  /\ bts \in Bitslides
  /\ c = [raw EXCEPT !.ph = raw.ph - bts]   \* t_bts has 0 s and 0 ns
  /\ pc = "sub_ph"

\* while (c.phase < 0)
BorrowNs ==
  /\ pc = "sub_ph"
  /\ c.ph < 0
  /\ c' = [c EXCEPT !.ph = c.ph + PsPerNs, !.ns = c.ns - 1]
  /\ UNCHANGED <<raw, bts, pc>>

\* Slip: the second borrowed is not taken from the seconds.
BorrowSec_unpaid ==
  /\ pc = "sub_ns"
  /\ c.ns < 0
  /\ c' = [c EXCEPT !.ns = c.ns + NsPerSec]
  /\ UNCHANGED <<raw, bts, pc>>

\* while (c.nanoseconds < 0)
BorrowSec ==
  /\ pc = "sub_ns"
  /\ c.ns < 0
  /\ c' = [c EXCEPT !.ns = c.ns + NsPerSec, !.sec = c.sec - 1]
  /\ UNCHANGED <<raw, bts, pc>>

\* while (c.phase >= 1000)
CarryNs ==
  /\ pc = "add_ph"
  /\ c.ph >= PsPerNs
  /\ c' = [c EXCEPT !.ph = c.ph - PsPerNs, !.ns = c.ns + 1]
  /\ UNCHANGED <<raw, bts, pc>>

\* while (c.nanoseconds >= PP_NSEC_PER_SEC)
CarrySec ==
  /\ pc = "add_ns"
  /\ c.ns >= NsPerSec
  /\ c' = [c EXCEPT !.ns = c.ns - NsPerSec, !.sec = c.sec + 1]
  /\ UNCHANGED <<raw, bts, pc>>

\* The loop at pc has run its condition to false; the code goes on to the
\* next one.  ts_add starts from the sum of c and the zero stamp, which is c.
LoopDone ==
  \/ pc = "sub_ph" /\ c.ph >= 0
  \/ pc = "sub_ns" /\ c.ns >= 0
  \/ pc = "add_ph" /\ c.ph < PsPerNs
  \/ pc = "add_ns" /\ c.ns < NsPerSec

\* Slip: ts_add, whose operand is only ever zero here, is left out.
NextLoop_noAdd ==
  [sub_ph |-> "sub_ns", sub_ns |-> "printed"][pc]

NextLoop ==
  [sub_ph |-> "sub_ns", sub_ns |-> "add_ph", add_ph |-> "add_ns", add_ns |-> "printed"][pc]

LeaveLoop ==
  /\ LoopDone
  /\ pc' = NextLoop
  /\ UNCHANGED <<raw, bts, c>>

Next == BorrowNs \/ BorrowSec \/ CarryNs \/ CarrySec \/ LeaveLoop

Spec == Init /\ [][Next]_vars

-----------------------------------------------------------------------------

TypeOK ==
  /\ raw \in Times
  /\ bts \in Int
  /\ c \in Times
  /\ pc \in Loops

(* The printed t4 is a proper mixed-radix number, whatever the sign or the *)
(* size of the bit slide and of the raw fields: the fixed columns of       *)
(* "%09d %09d %03d" hold it, and the differences of its ns and ps columns  *)
(* alone are what tic_gui.py computes (wrpc-socket.c:114-118).             *)
PrintedNormalised ==
  pc = "printed" => /\ c.ph \in 0 .. PsPerNs - 1
                    /\ c.ns \in 0 .. NsPerSec - 1

(* The printed t4 is exactly the raw stamp minus the bit slide: no loop    *)
(* loses or gains a unit, at any iteration (ts_sub and ts_add together).   *)
ValuePreserved == Total(c) = Total(raw) - bts

-----------------------------------------------------------------------------

\* Each loop establishes its own bound and keeps those of the loops before it.
Progress ==
  /\ pc # "sub_ph" => c.ph >= 0
  /\ pc \in {"add_ph", "add_ns", "printed"} => c.ns >= 0
  /\ pc \in {"add_ns", "printed"} => c.ph < PsPerNs
  /\ pc = "printed" => c.ns < NsPerSec

IInv == TypeOK /\ Progress /\ ValuePreserved
=============================================================================
