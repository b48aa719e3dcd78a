# TLA+ model of rvcpp

rvcpp is a C++ instruction-set simulator for one RV32IMAC hart. It has M, S and U
modes, Sv32 translation, a UART, a timer and a testbench exit port. This directory
holds TLA+ modules for the parts of it whose correctness depends on sequences of
steps: privilege changes, traps, interrupts, the LR/SC reservation, and what one
instruction step commits. It also holds the TLC configurations that check them.

## The system

| Part | Source | State | Operations |
|---|---|---|---|
| CSR file (`RVCSR`) | `src/rvcpp/rv_csr.cpp`, `src/unnamed/part_003` (class) | `priv`, `xstatus` (mstatus/sstatus view), `mie`, `xip` plus the IRQ lines `irq_t/s/e`, `medeleg`, `mideleg`, `mtvec/stvec`, `mepc/sepc`, `mcause/scause`, `mtval/stval`, `satp`, counters | `read`, `write` (WRITE/SET/CLEAR), `trap_enter_exception`, `trap_check_enter_irq`, `trap_mret`, `trap_sret`, `trap_set_xtval`, `set_irq_*`, `step_counters` |
| Hart (`RVCore`) | `src/rvcpp/rv_core.cpp`, `src/rvcpp/include/rv_core.h` | `pc`, `regs`, `load_reserved`, the embedded RAM | `step`: fetch two halfwords, decode, execute, enter exception or interrupt, commit pc and rd, step counters |
| Address translation | `rv_core.h` `vmap_sv32/vmap_ls/vmap_fetch`, `part_003` `pte_permissions_ok` | page tables in memory | a two-level walk with A/D updates |
| Bus | `src/rvcpp/mem.h` | the regions of `MemMap32` | `r8/r16/r32/w8/w16/w32`; a width a device does not override fails |
| Devices | `mem.h` TBMemIO, `include/mmio/uart8250.h`, `part_003` MTimer | UART registers, `mtime`, `mtimecmp` | TBIO offset 8 throws `TBExitException`; the timer drives `irq_t` |
| Host | `src/unnamed/part_008` (main) | cycle count | step loop; every 4096 cycles `set_irq_t(mtimer.irq_status(0))`; catching the exit |

`part_001`, `part_002`, `part_005`, `part_007` and lines 272-415 of `rv_csr.cpp`
are an older copy of the same code. They are not modelled. `part_000` is a
makefile, `part_004` is a copy of the UART, and `part_006` is `rv_types.h`.

### How the parts interact

One `RVCore::step` calls into the CSR file at every stage:
- the CSR file decides whether translation applies;
- CSR instructions use `read`/`write`;
- `mret`/`sret` return through the CSR file;
- at the end, one exception is entered. If there is none, the interrupt check runs.

The bus answers or fails each access. A failure becomes an access fault. The
host changes the timer line between steps. A store to TBIO offset 8 throws out
of the middle of a step, and the process ends with nothing committed. A failed
`assert` also ends the process.

## Modules

| Module | Models | State |
|---|---|---|
| `RVCSR` | the CSR file, as value operators (no variables) | a record: `priv`, `xstatus` as a set of bit positions, `mie`, `xip`, `irq_t/s/e`, `medeleg`, `mideleg`, `mtvec`, `stvec`, `mepc`, `sepc`, `mcause`, `scause` (records `[irq, code]`), `mtval`, `stval`, `satp` (mode bit only) |
| `RVHart` | `RVCore::step`, the bus, the host loop | `pc`, `load_reserved`, `csr`, `run` (running / exited / aborted), and `last`, a history record of the last step |
| `MCRVHart` | constants for TLC | kinds of instruction, CSR operations, targets and addresses per run |
| `RVSv32Spec` | what Sv32 translation promises (spec.md 4.4, 4.5 step 1), over decoded PTE records | `ptes`, `ctx`, `out` |
| `RVSv32` | `vmap_sv32`, `vmap_ls`, `vmap_fetch`, `pte_permissions_ok`, the two fetch translations of `step` | `pmem` (word index -> PTE word), `ctx` (priv, xstatus, satp mode, root page), `out` (last translation) |
| `MCRVSv32` | the page tables, PTE values and contexts for TLC | |
| `RVAlu` | the OP and OP-IMM cases of `step` (with MUL/DIV/REM), `step_counters`, counter CSR writes | `regs`, `mcycle(h)`, `minstret(h)`, `last` |
| `MCRVAlu` | TLC instance of `RVAlu` | |
| `RVTimer` | `MTimer` (constructor, `step_time`, `irq_status`, `w32`) and main's loop: `core.step()`, the `cyc` cadence, the timer sample, exit | `mtime`, `mtimecmp` (scaled), `irq_t`, `cyc` (mod the period), `sample`, `running` |
| `MCRVTimer` | TLC instance of `RVTimer` | |
| `RVUart` | `UART8250::w8` as the guest's byte store reaches it through `MemMap32::w8`; `r8` as an operator | `dll`, `ier`, `dlm`, `iir`, `lcr`, `mcr`, `scr` (bytes), `last` (the last write and whether it printed) |
| `MCRVUart` | TLC instance of `RVUart` | |

### RVCSR

Each method is one operator from a CSR record to a new record, plus the
method's return value where it has one:
- `CsrRead`/`CsrReadVal` are `read`. The priv field of the address, `permit_satp`
  and the switch are each conjuncts.
- `CsrWriteData` is the RMW part of `write`. `CsrWriteAt` is the switch, with the
  masks: mtvec bit 1 cleared, mepc bit 0 cleared, mcause `& 0x800000ff`,
  mip/sip only through `MIP_W_MASK` and `mideleg`. `CsrWrite` has the guards.
- `TrapEnterAtPriv`, `TrapEnterException`, `TrapCheckEnterIrq`, `TrapMret`,
  `TrapSret` and `TrapSetXtval` are the trap methods.
- `EffectiveXip` is `get_effective_xip`.
- `GetEffectivePrivLs`, `TranslationEnabledFetch/Ls` and `PermitSfenceVma` are the
  header's inline methods.

Where the code asserts, the operator returns `fail`. The step then sets `run`
to "aborted".

CSR bit-fields are sets of bit numbers. That way "set", "clear" and "mask" are
`\cup`, `\` and `\cap`. Addresses are numbers mod `2^AW` (ux_t, shrunk to AW
bits). Only their low bits matter to the properties (alignment), and wrap-around
is kept. The bit and CSR numbers come from `encoding/rv_csr.h`, which is not in
the repository. These are the definitions marked `spec_modelled`.

### RVHart

`Step` is one call of `RVCore::step` and is one action:
- `StepResults` enumerates the fetch outcomes: the translation of `pc` and
  `pc+2`, which region answered each `r16`, and the instruction length.
- Each decoded kind has its execute operator: `LoadExec`, `StoreExec`, `LrExec`,
  `ScExec`, `AmoExec`, `CsrExec`, `MretExec`, `SretExec`, and the cases of
  `ExecResults`. Each returns the step's locals: `exception_cause`,
  `xtval_wdata`, `pc_wdata`, whether `rd_wdata` is set, the reservation and
  the CSRs.
- `Commit` does lines 738-771. An exception is entered at `pc`, with the
  instruction bits as xtval for an illegal instruction. xtval is written only if
  `xtval_wdata` was set. With no exception, the IRQ check runs with
  `pc_wdata`, or else `pc`. Then pc and rd are committed.

Data is abstracted:
- Register values are not modelled. A branch or jump goes to any of `Targets`,
  and a memory access uses any of `LsAddrs` in any region.
- Translation is abstracted to its outcome: address, page fault, or the assert
  on effective privilege (`FetchXlate`, `LsXlate`).
- The instruction's bits are the model value `InstrBits`.

Undefined behaviour becomes a choice:
- the uninitialised `irq_t/s/e` start as any value;
- the read of an empty `*fetch0` in the access-fault xtval is `ub \in BOOLEAN`.

Other actions:
- `SetIrqT` is the host loop's `set_irq_t`, which may happen between any two
  steps. 4096 cycles between samples is not a constraint on order.
- A process that has exited or aborted takes no more steps: `Next` is
  `Step \/ SetIrqT`, and both need `run = "running"`. The runs that reach an
  exit (`resv`) say `CHECK_DEADLOCK FALSE`.

`last` is read by no action. `VIEW StateView` leaves it out of the state
fingerprint, and every property that reads it is an action property.

### RVSv32 and RVSv32Spec

`RVSv32` keeps the code's bit layout: PTEs are words, tested and updated with the
code's masks (Bitwise `&` and `|`). The geometry is scaled: a page is 2^3 bytes
holding two PTE words, each VPN field is one bit, PPN0 is bit 10 and PPN1 bit 11.
`VmapSv32` is the whole walk with every early return: the assert, the read and
V check of pte1, the leaf test, `PtePermissionsOk`, the superpage alignment
check, `AdUpdate` (the RMW write-back), then the same for pte0. Actions:
- `LoadStore`: `vmap_ls` with R, W or R|W (AMO), including the MPRV assert;
- `Fetch`: `vmap_fetch(pc)` then `vmap_fetch(pc + 2)` as `step` does, the
  length read from the first halfword, and the fault rule of lines 106-110;
- `StorePte`: a store writes a PTE value to a page-table word;
- `SwitchContext`: csrw satp/mstatus, traps and xret change the context.

`RVSv32Spec` states the walk of spec.md 4.4 over records `[fl, ppn1, ppn0]`.
It checks the reserved W-without-R encoding, and its fetch translates `pc + 2`
only for a 32-bit instruction. `RVSv32` implements it under the mapping
`ptes <- [w \in Words |-> DecodePte(pmem[w])]`; the property is
`Sv32Refinement == Abs!Spec`. Memory is a page of RAM or of IO (`IoPages`, where
`r32` fails). No region answers `r32` and refuses `w32`, so the write-back
always succeeds.

### RVAlu

`OpResult` and `OpImmResult` are the two cases of `step`, line by line:
`MulResult` (operands sign-extended by the same conditions, product wrapped to
2*XLEN bits), `DivRemResult` (with the `rs2 == 0` and `rs2 == ~0u` branches),
the shifts, comparisons and logic. `Retire` writes rd (not x0, not on an
illegal instruction) and calls `StepCounters`, the 64-bit `step_counters`.
`CounterWrite` is a csrw of mcycle(h)/minstret(h) followed by the step's counter
tick. The reference section defines each instruction from bits (`Bits`,
`FromBits`), following spec.md 4.5: `IsaOp`, `IsaOpImm`, `IsaShift` and a
quotient chosen by its remainder condition.

### RVTimer

`RVTimer` is the timer seen from the host loop. The hart is abstracted to what
reaches the timer: each `CoreStep` either leaves the timer alone, or makes one
successful `w32` to one of its four word offsets (`MTimerW32`, with `SetHalf`
for the masked half-register writes), or leaves the loop by an exception.
After the step, if `cyc` was 0 modulo `SamplePeriod` (main's `!(cyc & 0xfff)`),
`TimerSample` is the rest of the same iteration. It calls `step_time` (`StepTime`) and
then `set_irq_t(irq_status(0))` (`IrqStatus` on the advanced `mtime`). `Init`
is the constructor, `mtimecmp[0] = -1ull` included. `irq_t` starts at either
value, because `RVCSR` never initialises it. `RVHart` keeps the timer line as a free
input (`SetIrqT`); `RVTimer` says which values that input takes and when.
`MTimerR32` is `r32`. It changes no state and is read only by the property
`TimerHalvesRoundTrip`, through the history variable `wrote` (the offset and data
of the step's `w32`).

### RVUart

`RVUart` is the UART mock at its 8-byte mapping (part_008:131). `MemMap32::w8`
passes the offset 0..7 on, and `GuestWrite` chooses one and a byte.
`W8` follows w8's if-chain in order: THR prints when DLAB is clear, DLL when it
is set, then IER (masked to `& 0xf`), DLM, LCR and MCR. Next comes the scratch
branch, which tests `data == UART_SCR_OFFSET`, as the code does. `putchar` is I/O,
so the model records only that the write printed (`last.printed`). `R8` is `r8`:
it is a value, not an action, because a read changes nothing. UART8250 has no
constructor, and main declares `uart` as a local. So `Init` lets every register
hold any byte of `UartInit`, and a run starts in either DLAB bank.
`UartData = {0, 7, 131}`: 7 is the value w8 compares with, and 131 sets DLAB
and has a low nibble that the IER mask keeps.

## Runs

All runs use `AW = 2`, except `irq_epc`, which uses `AW = 3`.

| Run | Checks | Expect | What it shows |
|---|---|---|---|
| `priv` (`MCRVHart_Priv.cfg`) | `MprvOnlyInM`, `PcAligned`, `TrapAtomicity` | pass | Through traps, delegated traps, mret, sret (with TSR), MPRV, satp and CSR writes to mepc/stvec/medeleg: MPRV is never set outside M, and pc stays even through trap vectors and xRET to a software-written odd xepc (the mepc/sepc and mtvec/stvec masks). Jump targets are assumed even (JALR's `& -2` is not modelled). No step both traps and writes rd, over loads and AMOs to every region and width under each translation context, and a csrrw to the read-only mhartid. The run has no `lr`, so SC only takes its misaligned and failed paths. |
| `irq` (`MCRVHart_Irq.cfg`) | `TypeOK`, `IrqTakenAtBoundary` | pass | The timer line toggles between any two steps, and the guest writes mstatus.MIE/SIE/MPP, mie, mip, mideleg.STIP and sie and executes mret/sret. Still, after every step that commits without an exception (csr, mret and sret steps included), no interrupt remains pending that spec.md 4.3 calls eligible. This needs the check at rv_core.cpp:751 to read the CSRs as the instruction left them, and the entry of one interrupt to leave no higher-priority one behind. With `CW(CSR_MIDELEG, {MIP_MTIP})` added to `IrqCsrOps`, TLC violates it in four steps: a timer interrupt delegated to S and enabled, with the hart in U, is never taken (rv_csr.cpp:147 writes mideleg unmasked, and `SIP_MASK` drops MTIP from the S set). No run slot is left for that violation run. |
| `irq_epc` | `IrqEpcIsNextPc` | violation | An interrupt after a sequential instruction saves that instruction's pc (finding 1). |
| `prev_ie` | `TrapSavesPrevIE` | violation | A trap with MIE = 0 keeps a stale MPIE = 1 (finding 2). |
| `abort` | `NoAssertAbort` | violation | `csrs mstatus` can set MPP = 2. A few legal instructions later an assert kills the process (finding 3). TLC reports one of two four-state paths, depending on worker order: MPRV and satp set in M, then a load (vmap_sv32's assert, rv_core.h:122); or mret to priv 2, then a trap delegated by medeleg (rv_csr.cpp:215). |
| `tval` | `TrapWritesTval` | violation | Exception traps that leave xtval stale. TLC reports the shortest: a misaligned SC.W (finding 8). With `sc` left out of the kinds it reports sret under TSR (finding 4). |
| `resv` | `ReservationClearedOnTrap` | violation | A trap keeps the LR reservation (finding 5). |
| `sv32` (`MCRVSv32.cfg`) | `TypeOK`, `Sv32Refinement` | pass | Loads, stores, AMOs and fetches in every context (M/S/U, MPRV with each MPP, SUM, MXR, satp on/off, two roots), with PTEs rewritten between them: every result and A/D write-back is one the spec's walk allows, and the write-back adds only A and D. |
| `sv32_walk` (`MCRVSv32_Walk.cfg`) | `Sv32Refinement` | violation | TLC reports the shortest: a faulting fetch at pc still walks pc + 2 and sets its A bit (finding 7). With `FetchVAs <- MCFetchVAs` (no page-crossing fetch), it reports a W-without-R PTE accepted as a leaf, with a store through it succeeding (finding 6). |
| `timer` (`MCRVTimer.cfg`) | `TimerLineFollows`, `TimerHalvesRoundTrip` | pass | Under the loop's fairness, whatever the guest writes to the halves of mtime and mtimecmp and whatever `irq_t` held at reset, the latched line eventually agrees with `mtime >= mtimecmp[0]` unless the guest moves them again or the process ends. A `>` in place of `>=` in `irq_status` breaks it, but only because the model stops `mtime` at `MtimeBound`: with `mtime` held equal to `mtimecmp`, the line stays low. In the code `mtime` keeps ticking, and `>` would delay the line by one sample, which no property here tells apart. Every `w32` reads back through `r32` at its offset, and leaves the other three halves as they were. (Swapping `w32`'s two masks breaks this.) |
| `uart_scr` (`MCRVUart_Scr.cfg`) | `UartWriteReadBack` | violation | A write of 0 to SCR is dropped, and r8 returns the old scratch value (finding 9). With the branch testing `addr`, the property holds over all 29612 states: every bank, both DLAB settings at reset, the IER mask. |
| `alu` (`MCRVAlu.cfg`) | `AluMatchesIsa`, `CountersTick` | pass | Every OP/OP-IMM on every pair of 4-bit operands gives the ISA result, and the split counters behave as one counter through writes of either half. |

### Bounds

- **`AW = 2`.** Only pc parity and wrap matter to the passing properties, and
  `AddrAdd` keeps the wrap.
- **`AW = 3` for `irq_epc`.** With `AW = 2`, `pc + 4 = pc`, and the bug would be
  hidden for 32-bit instructions.
- **`Targets = {0, 2}` and `LsAddrs = {0, 2}`.** Each set has an aligned
  address and one misaligned for words.
- **CSR operations.** Each run's set holds the writes that move the state its
  properties are about.
- **Instruction kinds.** Each run has only the kinds that touch its state.

- **Sv32 geometry.** Two PTEs per page and one-bit VPN fields keep both
  levels, superpages and their alignment check, and the A/D update on each
  level. Eight words (four pages, one of them IO) and 15 contexts cover every
  branch of the walk and the permission check. The mutant that drops MXR fails.
- **`XLEN = 4`, `CounterBits = 1`.** Every operand pair, including 0, -1 and
  INT_MIN (8), is enumerated; a one-bit counter half carries on every second
  tick.

- **`HalfBits = 1`, `MtimeBound = 2`, `SamplePeriod = 3`, `TimerData =
  {0, 1}`.** The timer registers are 2-bit values. The reset `mtimecmp` (3) lies above
  the bound where ticking stops. Half writes of 0 and 1 reach every value of both
  registers, and two guest steps fit between samples, so an
  `mtimecmp` can be moved twice while the latch is stale.

All passing runs finish in under two minutes. The `priv` run reaches
about 140k distinct states and the `irq` run about 580k.

### Fairness

Only `RVTimer` states fairness: weak fairness of `CoreStep` and of
`TimerSample`. main (part_008 155-161) runs `core.step()` and, when `cyc` is 0
modulo 4096, `step_time` and `set_irq_t`, unconditionally for as long as the
process lives. That needs `--cycles 0` (`max_cycles = 0`). The default
(part_008:55) is 100000, after which the loop ends. Nothing can keep either enabled without taking
it. The guest's choices (what it writes, whether it exits) get no fairness.

`RVHart` states none. Weak fairness of `Step` is what the same loop gives it, but
TLC's liveness checking over `Step`'s state space is too slow for the run
budget. The exception loop that starves a pending interrupt (rv_core.cpp:750) keeps a
note. The interrupt delegated out of reach is caught as a safety property instead
(`IrqTakenAtBoundary`, see the irq run).

## Findings

1. `rv_core.cpp:751`: the interrupt's xepc is `pc`, not the next pc, when the
   instruction did not set `pc_wdata`. The instruction runs again after xret.
2. `rv_csr.cpp:202` (and 219): xPIE is only set on trap entry, never cleared.
3. `rv_csr.cpp:138`: MPP accepts the reserved value 2. A load under MPRV with
   satp on then trips `assert(effective_priv <= PRV_S)` (`rv_core.h:122`); after
   mret to priv 2, a delegated trap trips `assert(target_priv == PRV_S)`
   (`rv_csr.cpp:215`). `part_003:133` is not reachable this way: mret clears MPRV.
4. `rv_csr.cpp:250`: the TSR trap in `trap_sret` does not write xtval.
5. `rv_core.cpp:745`: traps do not clear `load_reserved`.
6. `rv_core.h:126`: the walk accepts the reserved PTE encoding W = 1, R = 0.
7. `rv_core.cpp:100`: `pc + 2` is always translated, setting A bits on pages the
   spec's fetch never walks.
8. `rv_core.cpp:376`: a misaligned SC.W sets no `xtval_wdata` (the assignment is
   inside the aligned branch), so xtval keeps a stale value.
9. `uart8250.h:64`: w8's scratch branch tests `data` instead of `addr`. A write to
   SCR is dropped unless the byte is 7, and a write of 7 to offset 2, 5 or 6 sets SCR.

## Not modelled yet, and the plan

- **Immediate decoders and RVC expansion.** Pure functions of the instruction
  word. TLC's integers are 32-bit signed, so the uint32 words do not fit, and
  at a scaled XLEN their sign extension is invisible.
- **Counter reads** (`rv_csr.cpp:85`: a minstret read returns minstreth; spec.md 9(b)).
  A read-back property would be violated, and no run is left for it.
- **UART reset values** (`uart8250.h:48`). `RVUart` starts from indeterminate
  registers. A property that a THR write before any LCR write prints would be
  violated by `Init` alone, and it needs a run the budget no longer has. The UART's
  receive side and IRQs are not implemented by the code.
- **Hart liveness:** pending interrupts taken, under weak fairness of `Step`.
  This is justified by the loop (see Fairness), but too slow for TLC at the hart's
  state space.
- **RAM byte lanes** (`rv_core.h` 62-118, `RVCore::r8` ... `w32`) and the load/store data
  path (sign extension, store masks). They need a run of their own, and the run
  budget is used. `RVAlu` at `XLEN = 4` would give one-bit lanes, but adding RAM
  state to its run multiplies a 70-second run. `RVHart` abstracts the data, and
  `RVSv32` stores whole PTE words.
- **The A/D write-back failing** (`rv_core.h:139`): no region of the platform
  reaches it.

Out of reach or pure I/O, and not modelled: argument parsing, binary loading,
tracing, memory dumps, and memory contents other than page tables.
