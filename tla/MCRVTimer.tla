------------------------------ MODULE MCRVTimer ------------------------------
(***************************************************************************)
(* Model-checking instance of RVTimer.  Halves of one bit make mtime and   *)
(* mtimecmp 2-bit values: the reset comparator (3) lies above the bound    *)
(* where ticking stops (2), and the guest's half writes (0 or 1 to each    *)
(* half) reach every value of both.  Sampling every third iteration leaves *)
(* two guest steps, so two half writes, between samples.                   *)
(***************************************************************************)
EXTENDS RVTimer

MCHalfBits == 1
MCMtimeBound == 2
MCSamplePeriod == 3
MCTimerData == {0, 1}
====
