------------------------------- MODULE RVTimer -------------------------------
(***************************************************************************)
(* The platform timer and the host loop that drives the hart's timer line  *)
(* (MTimer, part_003 207-262; main's loop, part_008 153-161), with the     *)
(* hart seen from the timer: each core.step() either leaves the timer      *)
(* alone, or makes one successful 32-bit write to its region (a store, SC  *)
(* or AMO the bus routes there; RVHart decides which steps can), or ends   *)
(* the process (TBExitException or a failed assert).                       *)
(*                                                                         *)
(* Every SamplePeriod iterations of the loop (4096 in main: !(cyc & 0xfff))*)
(* the host advances mtime by one and latches mtime >= mtimecmp[0] into   *)
(* the hart's csr.irq_t.  Between samples the latch keeps its old value.   *)
(*                                                                         *)
(* The 64-bit registers are scaled to 2 * HalfBits bits, their 32-bit      *)
(* halves to HalfBits.  mtime never wraps in a real run (2^64 ticks); here *)
(* it stops advancing at MtimeBound, below the all-ones reset value of     *)
(* mtimecmp, so the reset comparator is never reached by ticking alone.    *)
(***************************************************************************)
EXTENDS Integers, Bitwise

CONSTANTS
  HalfBits,       \* width of a 32-bit half of mtime / mtimecmp, scaled
  MtimeBound,     \* mtime stops advancing here (a run shorter than 2^64 ticks)
  SamplePeriod,   \* main samples the timer when !(cyc & 0xfff): every 4096 steps
  TimerData       \* the 32-bit values the guest writes to the timer

ASSUME MtimeBound < 2^(2 * HalfBits) - 1
ASSUME TimerData \subseteq 0..(2^HalfBits - 1)

VARIABLES
  mtime,      \* MTimer::mtime
  mtimecmp,   \* MTimer::mtimecmp[0]
  irq_t,      \* RVCSR::irq_t, the latched timer line
  cyc,        \* main's cycle count, modulo SamplePeriod
  sample,     \* TRUE between core.step() and the timer sample of that iteration
  running,    \* FALSE once the loop has been left by an exception
  wrote       \* history: the w32 (offset and data) of the last step, if any

vars == <<mtime, mtimecmp, irq_t, cyc, sample, running, wrote>>

Half == 2^HalfBits
AllOnes == 2^(2 * HalfBits) - 1

\* w32 with the two masks swapped: the written half is OR-ed into its old
\* value and the other half is cleared.
SetHalfSwapped(x, hi, wdata) ==
  IF hi THEN ((x \div Half) | wdata) * Half ELSE (x % Half) | wdata

\* MTimer::w32 at an offset of its 16 bytes (MTIMER_N_HARTS = 1): 0 and 4
\* are the low and high halves of mtime, 8 and 12 those of mtimecmp[0]:
\* `x & 0xffffffff00000000ull | wdata` and `x & 0xffffffffull | wdata << 32`.
SetHalf(x, hi, wdata) ==
  IF hi THEN (x % Half) + wdata * Half ELSE (x \div Half) * Half + wdata

\* The offsets the hart's word writes reach: the hart checks alignment
\* before the bus, and the region is 16 bytes long.
MTimerOffsets == {0, 4, 8, 12}

\* MTimer::r32: the half of mtime or mtimecmp[0] at the offset
MTimerR32(t, cmp, off) ==
  LET x == IF off < 8 THEN t ELSE cmp
  IN IF off % 8 = 4 THEN x \div Half ELSE x % Half

NoWrite == [off |-> -1, d |-> -1]

\* MTimer::irq_status(0) with `>` for `>=`: a plausible slip.
IrqStatusGt(t, cmp) == t > cmp

\* MTimer::irq_status(0)
IrqStatus(t, cmp) == t >= cmp

\* MTimer::step_time: ++mtime, up to the bound
StepTime(t) == IF t < MtimeBound THEN t + 1 ELSE t

\* The MTimer constructor (mtime = 0, mtimecmp[0] = -1ull) and a loop at
\* cyc = 0.  RVCSR's constructor never initialises irq_t: any value.
Init ==
  /\ mtime = 0
  /\ mtimecmp = AllOnes
  /\ irq_t \in BOOLEAN
  /\ cyc = 0
  /\ sample = FALSE
  /\ running = TRUE
  /\ wrote = NoWrite

(***************************************************************************)
(* core.step(), as the timer sees it, then the loop's test of cyc: this    *)
(* iteration samples the timer if cyc is 0 modulo the period.  An          *)
(* exception out of step (TBExitException, or an assert ending the         *)
(* process) leaves the loop before the test.                               *)
(***************************************************************************)
MTimerW32(off, wdata) ==
  IF off < 8 THEN /\ mtime' = SetHalf(mtime, off = 4, wdata)
                  /\ UNCHANGED mtimecmp
             ELSE /\ mtimecmp' = SetHalf(mtimecmp, off = 12, wdata)
                  /\ UNCHANGED mtime

CoreStep ==
  /\ running
  /\ ~sample
  /\ \/ /\ UNCHANGED <<mtime, mtimecmp>>
        /\ sample' = (cyc = 0)
        /\ wrote' = NoWrite
        /\ UNCHANGED running
     \/ /\ \E off \in MTimerOffsets, d \in TimerData :
             /\ MTimerW32(off, d)
             /\ wrote' = [off |-> off, d |-> d]
        /\ sample' = (cyc = 0)
        /\ UNCHANGED running
     \/ /\ running' = FALSE
        /\ wrote' = NoWrite
        /\ UNCHANGED <<mtime, mtimecmp, sample>>
  /\ cyc' = (cyc + 1) % SamplePeriod
  /\ UNCHANGED irq_t

\* The rest of the iteration: mtimer.step_time(); then
\* core.csr.set_irq_t(mtimer.irq_status(0)) with the advanced mtime.
TimerSample ==
  /\ sample
  /\ mtime' = StepTime(mtime)
  /\ irq_t' = IrqStatus(mtime', mtimecmp)
  /\ sample' = FALSE
  /\ wrote' = NoWrite
  /\ UNCHANGED <<mtimecmp, cyc, running>>

Next == CoreStep \/ TimerSample

(***************************************************************************)
(* main runs the loop for as long as the process lives when started with *)
(* --cycles 0 (max_cycles = 0; the default, part_008:55, is 100000): every *)
(* iteration calls core.step() and, on its cadence,                       *)
(* the sample.  Neither is ever withheld, so both are weakly fair.  The    *)
(* process may stop (exit), so deadlock is not an error.                   *)
(***************************************************************************)
Spec == Init /\ [][Next]_vars /\ WF_vars(CoreStep) /\ WF_vars(TimerSample)

\* spec.md 183: "An IRQ line is asserted when mtime >= mtimecmp[h]".
TimerDue == mtime >= mtimecmp

(***************************************************************************)
(* The hart's timer line follows the timer: whenever mtime >= mtimecmp[0]  *)
(* holds, or fails, the latched irq_t eventually says the same, unless the *)
(* guest moves mtime or mtimecmp first or the process ends.  This is the   *)
(* loop's cadence (set_irq_t every SamplePeriod steps, step_time before    *)
(* irq_status) against MTimer's comparison and half-register writes,       *)
(* starting from an irq_t nobody initialised.                              *)
(***************************************************************************)
TimerLineFollows ==
  \A b \in BOOLEAN :
    (running /\ TimerDue = b) ~> (irq_t = b \/ TimerDue # b \/ ~running)

(***************************************************************************)
(* spec.md 174 and 183: mtime and mtimecmp[0] are 64-bit registers seen as *)
(* two little-endian 32-bit halves.  A w32 to one of the four offsets is   *)
(* read back by r32 at that offset, and r32 at the other three offsets     *)
(* returns what it did before: MTimer::w32's masks against its r32, for    *)
(* both registers and both halves.                                         *)
(***************************************************************************)
TimerHalvesRoundTrip ==
  [][ wrote' # NoWrite =>
        /\ MTimerR32(mtime', mtimecmp', wrote'.off) = wrote'.d
        /\ \A o \in MTimerOffsets \ {wrote'.off} :
              MTimerR32(mtime', mtimecmp', o) = MTimerR32(mtime, mtimecmp, o) ]_vars
=============================================================================
