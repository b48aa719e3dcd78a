------------------------------- MODULE RVHart -------------------------------
(***************************************************************************)
(* One hart of rvcpp: RVCore::step (rv_core.cpp) composed with the CSR     *)
(* engine of RVCSR, the bus of the host's memory map (mem.h and the MMIO   *)
(* devices it maps) and the host loop of main, which latches the timer IRQ *)
(* between steps.                                                          *)
(*                                                                         *)
(* A step is one action, Step, as in the code: fetch, execute, then either *)
(* exception entry or the interrupt check, then the pc / rd commit.  The   *)
(* program is not fixed: each step may execute any instruction of the      *)
(* kinds in Kinds, which is what RAM the guest can rewrite allows.  GPR    *)
(* values are abstracted away; what a step takes from them (an effective   *)
(* address, a jump target, CSR write data) is chosen from small constant   *)
(* sets.  Sv32 translation is abstracted to "succeeds" or "page faults"    *)
(* (the walk itself is RVSv32), keeping the assertions that guard it.      *)
(***************************************************************************)
EXTENDS RVCSR

CONSTANTS
  Kinds,    \* instruction kinds the guest executes (subset of InstrKinds)
  CsrOps,   \* CSR instructions: [addr, op, data, rdZero, rsZero]
  Targets,  \* jump / branch targets (rs1 + imm, pc + imm)
  LsAddrs   \* load / store / AMO virtual addresses (rs1 + imm)

VARIABLES
  pc,             \* RVCore::pc
  load_reserved,  \* RVCore::load_reserved
  csr,            \* RVCore::csr, the RVCSR record
  run,            \* "running", "exited" (TBExitException) or "aborted" (assert)
  last            \* what the latest step did: history for the properties

vars == <<pc, load_reserved, csr, run, last>>

InstrKinds == {"alu", "branch", "jump", "load", "store", "lr", "sc", "amo",
               "csr", "mret", "sret", "sfence", "ecall", "ebreak", "nop",
               "illegal"}
\* kinds that have a 16-bit (RVC) encoding as well as a 32-bit one
Kinds16 == {"alu", "branch", "jump", "load", "store", "ebreak", "illegal"}

ASSUME Kinds \subseteq InstrKinds
ASSUME Targets \cup LsAddrs \subseteq Addr /\ \A t \in Targets : t % 2 = 0

NoVal == -1

(***************************************************************************)
(* The bus.  main maps TBMemIO (12 bytes), UART8250 (8) and MTimer (16)    *)
(* into a MemMap32; RAM is the core's own.  Which accesses succeed:        *)
(* MemBase32's defaults fail, and each device overrides only some widths.  *)
(* "tbio_exit" is TBMemIO offset 8, whose w32 throws TBExitException.      *)
(***************************************************************************)
Regions == {"ram", "tbio", "tbio_exit", "uart", "mtimer", "unmapped"}

\* UART8250 overrides r8 and w8 only; every offset of its 8 bytes answers.
UartAccessOk(w) == w = 1

\* MTimer overrides r32 and w32 only; offsets 0..12 of its 16 bytes answer.
MTimerAccessOk(w) == w = 4

\* TBMemIO overrides w32 only; offsets 0 and 4 answer, 8 throws.
TbioAccessOk(w, wr) == w = 4 /\ wr

\* MemMap32 dispatch, behind RVCore's embedded RAM, which takes any width
BusOk(rg, w, wr) ==
  \/ rg = "ram"
  \/ rg = "uart"   /\ UartAccessOk(w)
  \/ rg = "mtimer" /\ MTimerAccessOk(w)
  \/ rg = "tbio"   /\ TbioAccessOk(w, wr)

BusExit(rg, w, wr) == rg = "tbio_exit" /\ w = 4 /\ wr

\* Every region but RAM fails r16 alike, so one stands for all in fetch.
FetchRegions == {"ram", "unmapped"}

(***************************************************************************)
(* Address translation, abstracted: vmap_fetch / vmap_ls return a physical *)
(* address ("ok") or nothing ("pf").  "abort" is an assert that fires on   *)
(* the way: get_effective_priv_ls's assert(priv == PRV_M) under MPRV, and  *)
(* vmap_sv32's assert(effective_priv <= PRV_S).                            *)
(***************************************************************************)
FetchXlate(c) ==
  IF ~TranslationEnabledFetch(c) THEN {"ok"}
  ELSE IF c.priv > PRV_S THEN {"abort"} ELSE {"ok", "pf"}

LsXlate(c) ==
  IF ~EffectivePrivLsAssertOk(c) THEN {"abort"}
  ELSE IF ~TranslationEnabledLs(c) THEN {"ok"}
  ELSE IF GetEffectivePrivLs(c) > PRV_S THEN {"abort"} ELSE {"ok", "pf"}

(***************************************************************************)
(* The result of executing one instruction, before trap entry and commit:  *)
(* exception_cause, xtval_wdata, pc_wdata, whether rd_wdata is present,    *)
(* the reservation and CSRs it leaves, a trap the instruction entered by   *)
(* itself (sret under TSR), and whether the process stops.                 *)
(***************************************************************************)
Res0(c, lr) == [exc |-> NoVal, tval |-> NoVal, pcw |-> NoVal, rdw |-> FALSE,
                lr |-> lr, csr |-> c, itrap |-> NoVal, halt |-> "running"]
Fault(c, lr, code, tv) == [Res0(c, lr) EXCEPT !.exc = code, !.tval = tv]
Halt(c, lr, h) == [Res0(c, lr) EXCEPT !.halt = h]

\* OPC_LOAD (and C.LW/C.LWSP): alignment, translation, bus
LoadExec(c, lr, va, w, x, rg) ==
  IF va % w # 0 THEN Fault(c, lr, XCAUSE_LOAD_ALIGN, va)
  ELSE IF x = "abort" THEN Halt(c, lr, "aborted")
  ELSE IF x = "pf" THEN Fault(c, lr, XCAUSE_LOAD_PAGEFAULT, va)
  ELSE IF BusOk(rg, w, FALSE) THEN [Res0(c, lr) EXCEPT !.rdw = TRUE]
  ELSE Fault(c, lr, XCAUSE_LOAD_FAULT, va)

\* OPC_STORE (and C.SW/C.SWSP)
StoreExec(c, lr, va, w, x, rg) ==
  IF va % w # 0 THEN Fault(c, lr, XCAUSE_STORE_ALIGN, va)
  ELSE IF x = "abort" THEN Halt(c, lr, "aborted")
  ELSE IF x = "pf" THEN Fault(c, lr, XCAUSE_STORE_PAGEFAULT, va)
  ELSE IF BusExit(rg, w, TRUE) THEN Halt(c, lr, "exited")
  ELSE IF BusOk(rg, w, TRUE) THEN Res0(c, lr)
  ELSE Fault(c, lr, XCAUSE_STORE_FAULT, va)

\* LR.W
LrExec(c, lr, va, x, rg) ==
  IF va % 4 # 0 THEN Fault(c, lr, XCAUSE_LOAD_ALIGN, va)
  ELSE IF x = "abort" THEN Halt(c, lr, "aborted")
  ELSE IF x = "pf" THEN Fault(c, lr, XCAUSE_LOAD_PAGEFAULT, va)
  ELSE IF BusOk(rg, 4, FALSE) THEN [Res0(c, TRUE) EXCEPT !.rdw = TRUE]
  ELSE Fault(c, lr, XCAUSE_LOAD_FAULT, va)

\* SC.W: translate and store only while the reservation is held.  The
\* `xtval_wdata = rs1` sits inside the aligned branch (356-377): a
\* misaligned SC leaves xtval_wdata empty.
ScExec(c, lr, va, x, rg) ==
  IF va % 4 # 0 THEN Fault(c, lr, XCAUSE_STORE_ALIGN, NoVal)
  ELSE IF ~lr THEN [Res0(c, lr) EXCEPT !.rdw = TRUE]
  ELSE IF x = "abort" THEN Halt(c, lr, "aborted")
  ELSE IF x = "pf" THEN Fault(c, lr, XCAUSE_STORE_PAGEFAULT, va)
  ELSE IF BusExit(rg, 4, TRUE) THEN Halt(c, FALSE, "exited")
  ELSE IF BusOk(rg, 4, TRUE) THEN [Res0(c, FALSE) EXCEPT !.rdw = TRUE]
  ELSE Fault(c, FALSE, XCAUSE_STORE_FAULT, va)

\* AMO*.W: read, then write; rd_wdata is left set when the write fails
AmoExec(c, lr, va, x, rg) ==
  IF va % 4 # 0 THEN Fault(c, lr, XCAUSE_STORE_ALIGN, va)
  ELSE IF x = "abort" THEN Halt(c, lr, "aborted")
  ELSE IF x = "pf" THEN Fault(c, lr, XCAUSE_STORE_PAGEFAULT, va)
  ELSE IF ~BusOk(rg, 4, FALSE) THEN Fault(c, lr, XCAUSE_STORE_FAULT, va)
  ELSE IF BusExit(rg, 4, TRUE) THEN Halt(c, lr, "exited")
  ELSE IF BusOk(rg, 4, TRUE) THEN [Res0(c, lr) EXCEPT !.rdw = TRUE]
  ELSE [Fault(c, lr, XCAUSE_STORE_FAULT, va) EXCEPT !.rdw = TRUE]

\* (CsrExecNoSuppress: fault-injected variant, rd kept after a failed write)
CsrExecNoSuppress(c, lr, o) ==
  LET doRead  == o.op # WRITE \/ ~o.rdZero
      doWrite == o.op = WRITE \/ ~o.rsZero
      bad     == (doRead /\ ~CsrRead(c, o.addr).ok) \/
                 (doWrite /\ ~CsrWrite(c, o.addr, o.data, o.op).ok)
  IN [Res0(c, lr) EXCEPT !.exc = IF bad THEN XCAUSE_INSTR_ILLEGAL ELSE NoVal,
                         !.rdw = doRead /\ CsrRead(c, o.addr).ok,
                         !.csr = IF doWrite THEN CsrWrite(c, o.addr, o.data, o.op).csr
                                 ELSE c]

\* CSRRW/S/C[I]: read unless an unconditional write has rd = x0, write
\* unless a set/clear has rs1 = x0; either failure is an illegal
\* instruction and suppresses the read's writeback
CsrExec(c, lr, o) ==
  LET doRead  == o.op # WRITE \/ ~o.rdZero
      doWrite == o.op = WRITE \/ ~o.rsZero
      rd      == CsrRead(c, o.addr)
      wr      == CsrWrite(c, o.addr, o.data, o.op)
      bad     == (doRead /\ ~rd.ok) \/ (doWrite /\ ~wr.ok)
  IN [Res0(c, lr) EXCEPT !.exc = IF bad THEN XCAUSE_INSTR_ILLEGAL ELSE NoVal,
                         !.rdw = doRead /\ ~bad,
                         !.csr = IF doWrite THEN wr.csr ELSE c]

Illegal(c, lr) == Fault(c, lr, XCAUSE_INSTR_ILLEGAL, NoVal)

\* MRET: only from M
MretExec(c, lr) ==
  IF c.priv = PRV_M
  THEN LET t == TrapMret(c) IN [Res0(t.csr, lr) EXCEPT !.pcw = t.pc]
  ELSE Illegal(c, lr)

\* SRET: from S or above; trap_sret may itself enter an illegal-instruction
\* trap (TSR), which the step sees only as a new pc
SretExec(c, lr, p) ==
  IF c.priv >= PRV_S
  THEN LET t == TrapSret(c, p)
           tsr == MSTATUS_TSR \in c.xstatus /\ c.priv = PRV_S
       IN IF t.fail THEN Halt(c, lr, "aborted")
          ELSE [Res0(t.csr, lr) EXCEPT !.pcw = t.pc,
                  !.itrap = IF tsr THEN XCAUSE_INSTR_ILLEGAL ELSE NoVal]
  ELSE Illegal(c, lr)

\* All results of executing a decoded instruction of kind k at pc p.
ExecResults(k, c, lr, p) ==
  LET W == {1, 2, 4}
  IN CASE k = "alu"    -> {[Res0(c, lr) EXCEPT !.rdw = TRUE]}
       [] k = "branch" -> {Res0(c, lr)} \cup
                          {[Res0(c, lr) EXCEPT !.pcw = t] : t \in Targets}
       [] k = "jump"   -> {[Res0(c, lr) EXCEPT !.rdw = TRUE, !.pcw = t] : t \in Targets}
       [] k = "load"   -> {LoadExec(c, lr, va, w, x, rg) :
                             va \in LsAddrs, w \in W, x \in LsXlate(c), rg \in Regions}
       [] k = "store"  -> {StoreExec(c, lr, va, w, x, rg) :
                             va \in LsAddrs, w \in W, x \in LsXlate(c), rg \in Regions}
       [] k = "lr"     -> {LrExec(c, lr, va, x, rg) :
                             va \in LsAddrs, x \in LsXlate(c), rg \in Regions}
       [] k = "sc"     -> {ScExec(c, lr, va, x, rg) :
                             va \in LsAddrs, x \in LsXlate(c), rg \in Regions}
       [] k = "amo"    -> {AmoExec(c, lr, va, x, rg) :
                             va \in LsAddrs, x \in LsXlate(c), rg \in Regions}
       [] k = "csr"    -> {CsrExec(c, lr, o) : o \in CsrOps}
       [] k = "mret"   -> {MretExec(c, lr)}
       [] k = "sret"   -> {SretExec(c, lr, p)}
       [] k = "sfence" -> {IF PermitSfenceVma(c) THEN Res0(c, lr) ELSE Illegal(c, lr)}
       [] k = "ecall"  -> {Fault(c, lr, XCAUSE_ECALL_U + c.priv, 0)}
       [] k = "ebreak" -> {Fault(c, lr, XCAUSE_EBREAK, 0)}
       [] k = "nop"    -> {Res0(c, lr)}
       [] k = "illegal" -> {Illegal(c, lr)}

(***************************************************************************)
(* Fetch (rv_core.cpp 95-113).  Both halfwords are translated and read.    *)
(* x0/x1 are the translations of pc and pc+2, rg0/rg1 the regions read     *)
(* (only RAM answers r16, see FetchRegions).  ub is the value of *fetch0   *)
(* when fetch0 is empty, which the access-fault xtval reads (undefined     *)
(* behaviour).                                                             *)
(* Returns [len, kind, res] records: the instruction length and kind, and  *)
(* its execution result.                                                   *)
(***************************************************************************)
StepResults(c, lr, p) ==
  LET Exec(len) == UNION {{[len |-> len, kind |-> k, res |-> r] :
                             r \in ExecResults(k, c, lr, p)} :
                          k \in {kk \in Kinds : len = 4 \/ kk \in Kinds16}}
      Exec2 == Exec(2)
      Exec4 == Exec(4)
  IN
  UNION {
    LET f0 == x0 = "ok" /\ BusOk(rg0, 2, FALSE)
        f1 == x1 = "ok" /\ BusOk(rg1, 2, FALSE)
        len32 == len = 4
    IN IF "abort" \in {x0, x1}
       THEN {[len |-> len, kind |-> "fetch", res |-> Halt(c, lr, "aborted")]}
       ELSE IF x0 # "ok" \/ (f0 /\ len32 /\ x1 # "ok")
       THEN {[len |-> len, kind |-> "fetch",
              res |-> Fault(c, lr, XCAUSE_INSTR_PAGEFAULT,
                            IF x0 = "ok" THEN AddrAdd(p, 2) ELSE p)]}
       ELSE IF ~f0 \/ (len32 /\ ~f1)
       THEN {[len |-> len, kind |-> "fetch",
              res |-> Fault(c, lr, XCAUSE_INSTR_FAULT,
                            IF f0 \/ ub THEN AddrAdd(p, 2) ELSE p)]}
       ELSE IF len32 THEN Exec4 ELSE Exec2
    : x0 \in FetchXlate(c), x1 \in FetchXlate(c), rg0 \in FetchRegions,
      rg1 \in FetchRegions, len \in {2, 4}, ub \in BOOLEAN }

(***************************************************************************)
(* The step record kept in `last`: the instruction's kind, the pc          *)
(* it would go to (pc_wdata, else pc + its length), the cause of a trap it *)
(* entered (NoVal if none), whether an interrupt was entered, the xtval    *)
(* written, and whether rd_wdata was present at commit.                    *)
(***************************************************************************)
LastNone(k) == [kind |-> k, next |-> NoVal, cause |-> NoVal,
                irq |-> FALSE, tval |-> NoVal, rdw |-> FALSE]

LastType ==
  [kind: InstrKinds \cup {"fetch", "host", "reset"},
   next: Addr \cup {NoVal}, cause: ExceptionCodes \cup {NoVal}, irq: BOOLEAN,
   tval: Addr \cup {InstrBits, NoVal}, rdw: BOOLEAN]

Init ==
  /\ pc = 0                 \* the reset vector, RAM_BASE
  /\ load_reserved = FALSE
  /\ csr \in CsrInitSet
  /\ run = "running"
  /\ last = LastNone("reset")

(***************************************************************************)
(* RVCore::step.  s is one of StepResults: fetch and execute have run.     *)
(* Then (738-757): an exception is entered at pc, illegal-instruction      *)
(* xtval defaulting to the instruction bits; otherwise the interrupt check *)
(* runs with xepc = pc_wdata if present, else pc.  Then (766-771) pc and   *)
(* rd are committed.  A TBExitException or a failed assert ends the        *)
(* process with nothing committed.                                         *)
(***************************************************************************)
Commit(s) ==
  LET r     == s.res
      trap  == r.exc # NoVal
      next  == IF r.pcw = NoVal THEN AddrAdd(pc, s.len) ELSE r.pcw
      tv    == IF r.exc = XCAUSE_INSTR_ILLEGAL /\ r.tval = NoVal
               THEN InstrBits ELSE r.tval
      te    == TrapEnterException(r.csr, r.exc, pc)
      irq   == TrapCheckEnterIrq(r.csr, IF r.pcw = NoVal THEN pc ELSE r.pcw)
      rec   == [kind |-> s.kind, next |-> next,
                cause |-> IF trap THEN r.exc ELSE r.itrap,
                irq |-> ~trap /\ irq.taken,
                tval |-> IF trap THEN tv ELSE NoVal, rdw |-> r.rdw]
  IN IF r.halt # "running" \/ (trap /\ te.fail)
     THEN /\ run' = IF r.halt # "running" THEN r.halt ELSE "aborted"
          /\ last' = LastNone(s.kind)
          /\ UNCHANGED <<pc, load_reserved, csr>>
     ELSE /\ pc' = IF trap THEN te.pc ELSE IF irq.taken THEN irq.pc ELSE next
          /\ csr' = IF ~trap THEN irq.csr
                   ELSE IF tv = NoVal THEN te.csr ELSE TrapSetXtval(te.csr, tv)
          /\ load_reserved' = r.lr
          /\ last' = rec
          /\ UNCHANGED run

Step ==
  /\ run = "running"
  /\ \E s \in StepResults(csr, load_reserved, pc) : Commit(s)

\* main's loop: every 4096 cycles, set_irq_t(mtimer.irq_status(0)).  The
\* timer's level is an input here (see MTimer for how it is computed).
SetIrqT ==
  /\ run = "running"
  /\ \E v \in BOOLEAN : csr' = [csr EXCEPT !.irq_t = v]
  /\ last' = LastNone("host")
  /\ UNCHANGED <<pc, load_reserved, run>>

\* Once the process has exited or aborted nothing more happens: a behaviour
\* that reaches run # "running" ends there (runs that reach it do not check
\* deadlock).
Next == Step \/ SetIrqT

Spec == Init /\ [][Next]_vars

\* `last` is a history variable: nothing reads it, so states that differ
\* only in it have the same successors.  Properties about it are action
\* properties, which TLC checks on every transition.
StateView == <<pc, load_reserved, csr, run>>

(***************************************************************************)
(* Properties                                                              *)
(***************************************************************************)
TypeOK ==
  /\ pc \in Addr
  /\ load_reserved \in BOOLEAN
  /\ csr \in CsrType
  /\ run \in {"running", "exited", "aborted"}
  /\ last \in LastType

\* MPRV is only ever set in M-mode: get_effective_priv_ls asserts it, and
\* mret/sret must clear it whenever they leave M (no guest sequence of CSR
\* writes, traps and returns can leave MPRV set below M).
MprvOnlyInM == MSTATUS_MPRV \in csr.xstatus => csr.priv = PRV_M

\* The pc stays 2-byte aligned through trap vectors (mtvec/stvec with the
\* mode bit dropped) and xRET to an xepc that software wrote odd (the
\* mepc/sepc bit-0 mask).  Jump targets come from Targets, which is even by
\* assumption: JALR's & -2 is not modelled, so jumps are not checked here.
PcAligned == pc % 2 = 0

\* Trap atomicity (spec: no GPR changes on a faulting instruction): a step
\* that enters an exception never commits rd (rv_core.cpp 480-482, 770).
TrapAtomicity == [][last'.cause # NoVal => ~last'.rdw]_vars

\* spec.md 4.3 "Interrupt check", stated from the spec's words and not from
\* trap_check_enter_irq: pending = effective mip & mie, split by mideleg; an
\* M-target is eligible with MIE or priv < M, an S-target with priv <= S and
\* SIE or priv < S.
SpecIrqEligible(c) ==
  LET pending == EffectiveXip(c) \cap c.xie
      pendM   == pending \ c.mideleg
      pendS   == pending \cap c.mideleg
  IN \/ pendM # {} /\ (MSTATUS_MIE \in c.xstatus \/ c.priv < PRV_M)
     \/ pendS # {} /\ c.priv <= PRV_S /\ (SSTATUS_SIE \in c.xstatus \/ c.priv < PRV_S)

\* Interrupts are taken at the first instruction boundary (spec.md 4.5
\* step 10): after every step that commits without an exception, csrrw/s/c
\* of mstatus, mie, mip, mideleg, sie, sstatus and mret/sret included, no
\* interrupt the spec calls eligible is still pending.  This needs the check
\* at rv_core.cpp:751 to read the CSRs as the instruction left them, and the
\* entry of one interrupt to leave no higher-priority one behind.
IrqTakenAtBoundary ==
  [][ (last'.kind # "host" /\ run' = "running" /\ last'.cause = NoVal) =>
        ~SpecIrqEligible(csr')
    ]_vars

(***************************************************************************)
(* Properties the spec states and the code does not keep (violation runs)  *)
(***************************************************************************)
\* Spec 4.5 step 10: when an interrupt is taken after an instruction
\* completes, the would-be next pc becomes xepc.  rv_core.cpp:751 passes
\* pc_wdata if the instruction produced one, else pc itself.
IrqEpcIsNextPc ==
  [][ (last'.irq /\ last'.cause = NoVal) =>
        (IF csr'.priv = PRV_M THEN csr'.mepc ELSE csr'.sepc) = last'.next ]_vars

\* Spec 4.3: trap entry saves the previous xIE into xPIE.  Checked on
\* exceptions taken into M (trap_enter_at_priv, rv_csr.cpp 198-206).
TrapSavesPrevIE ==
  [][ (last'.cause # NoVal /\ ~last'.irq /\ last'.kind # "sret"
       /\ csr'.priv = PRV_M) =>
        (MSTATUS_MPIE \in csr'.xstatus <=> MSTATUS_MIE \in csr.xstatus) ]_vars

\* Spec 7: architectural faults are data, never host-level failures: no
\* guest instruction sequence makes an assert of the simulator fire.
NoAssertAbort == run # "aborted"

\* Spec 4.5 steps 2-5 and 7, and spec 10 (xtval): every exception a step
\* enters writes xtval -- the instruction bits for an illegal instruction
\* (sret trapped by mstatus.TSR included), the faulting address or 0
\* otherwise.  The commit (rv_core.cpp 738-745) writes it only when the
\* execute path left xtval_wdata set.
TrapWritesTval ==
  [][ last'.cause # NoVal =>
        /\ last'.tval # NoVal
        /\ last'.cause = XCAUSE_INSTR_ILLEGAL => last'.tval = InstrBits ]_vars

\* Spec 3: load_reserved is cleared by any trap entry.
ReservationClearedOnTrap ==
  [][ (last'.cause # NoVal \/ last'.irq) => ~load_reserved' ]_vars
====
