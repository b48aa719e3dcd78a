------------------------------- MODULE RVCSR -------------------------------
(***************************************************************************)
(* The CSR / privilege / trap engine of rvcpp (class RVCSR, rv_csr.cpp and *)
(* the RVCSR header).  The engine's state is one record; every public      *)
(* method that changes it is an operator from a record to a record (plus   *)
(* the method's return value), so that RVHart can compose the calls that   *)
(* one RVCore::step makes, in the order it makes them, into one action.    *)
(*                                                                         *)
(* Data abstraction.  Bit-field CSRs (xstatus, xie, xip, medeleg, mideleg) *)
(* are sets of bit positions, so AND/OR/ANDNOT with a mask are \cap, \cup  *)
(* and \.  Address-valued CSRs (mtvec, stvec, mepc, sepc, mtval, stval)    *)
(* are numbers modulo 2^AW.  xcause is a record [irq, code] (bit 31 and    *)
(* the low bits).  mscratch/sscratch and the counters are not part of this *)
(* record (see README).                                                    *)
(***************************************************************************)
EXTENDS Integers, FiniteSets, FiniteSetsExt

CONSTANTS
  AW,        \* address width of the model (the code's is 32)
  InstrBits  \* model value: "the encoding of the faulting instruction"

ASSUME AW \in 2..8

Addr == 0 .. (2^AW - 1)
AddrAdd(a, b) == (a + b) % (2^AW)

\* Privilege levels (PRV_U, PRV_S, PRV_M).  priv is a 2-bit field in the
\* code, so 2 is representable even though it names no privilege.
PRV_U == 0
PRV_S == 1
PRV_M == 3

\* mstatus bit positions (RISC-V privileged encoding)
SSTATUS_SIE  == 1
MSTATUS_MIE  == 3
SSTATUS_SPIE == 5
MSTATUS_MPIE == 7
SSTATUS_SPP  == 8
MSTATUS_MPP  == {11, 12}
MSTATUS_MPRV == 17
SSTATUS_SUM  == 18
SSTATUS_MXR  == 19
MSTATUS_TVM  == 20
MSTATUS_TW   == 21
MSTATUS_TSR  == 22

SSTATUS_MASK == {SSTATUS_SIE, SSTATUS_SPIE, SSTATUS_SPP, SSTATUS_SUM, SSTATUS_MXR}
MSTATUS_MASK == SSTATUS_MASK \cup MSTATUS_MPP \cup
                {MSTATUS_MIE, MSTATUS_MPIE, MSTATUS_MPRV, MSTATUS_TVM, MSTATUS_TW, MSTATUS_TSR}

\* mip / mie bit positions, which are also the interrupt cause codes
MIP_SSIP == 1
MIP_MSIP == 3
MIP_STIP == 5
MIP_MTIP == 7
MIP_SEIP == 9
MIP_MEIP == 11
SIP_MASK     == {MIP_SSIP, MIP_STIP, MIP_SEIP}
ALL_MIP_BITS == SIP_MASK \cup {MIP_MSIP, MIP_MTIP, MIP_MEIP}
\* (MIP_W_MASK_ALL: fault-injected variant, M bits of mip made writable)
MIP_W_MASK_ALL == ALL_MIP_BITS
MIP_W_MASK == SIP_MASK

\* Exception cause codes (spec section 6)
XCAUSE_INSTR_FAULT     == 1
XCAUSE_INSTR_ILLEGAL   == 2
XCAUSE_EBREAK          == 3
XCAUSE_LOAD_ALIGN      == 4
XCAUSE_LOAD_FAULT      == 5
XCAUSE_STORE_ALIGN     == 6
XCAUSE_STORE_FAULT     == 7
XCAUSE_ECALL_U         == 8
XCAUSE_INSTR_PAGEFAULT == 12
XCAUSE_LOAD_PAGEFAULT  == 13
XCAUSE_STORE_PAGEFAULT == 15
ExceptionCodes == {1, 2, 3, 4, 5, 6, 7, 8, 9, 10, 11, 12, 13, 15}

Exc(code) == [irq |-> FALSE, code |-> code]
Irq(code) == [irq |-> TRUE,  code |-> code]

\* CSR addresses used by the model
CSR_SSTATUS == 256
CSR_SIE     == 260
CSR_STVEC   == 261
CSR_SEPC    == 321
CSR_SCAUSE  == 322
CSR_STVAL   == 323
CSR_SIP     == 324
CSR_SATP    == 384
CSR_MSTATUS == 768
CSR_MISA    == 769
CSR_MEDELEG == 770
CSR_MIDELEG == 771
CSR_MIE     == 772
CSR_MTVEC   == 773
CSR_MEPC    == 833
CSR_MCAUSE  == 834
CSR_MTVAL   == 835
CSR_MIP     == 836
CSR_MHARTID == 3860

\* write_op encodings of RVCSR::write
WRITE == 0
WRITE_SET == 1
WRITE_CLEAR == 2

BitSetCsrs  == {CSR_SSTATUS, CSR_SIE, CSR_SIP, CSR_MSTATUS, CSR_MEDELEG,
                CSR_MIDELEG, CSR_MIE, CSR_MIP}
AddrCsrs    == {CSR_STVEC, CSR_SEPC, CSR_STVAL, CSR_MTVEC, CSR_MEPC, CSR_MTVAL}
CauseCsrs   == {CSR_MCAUSE, CSR_SCAUSE}
ImplementedCsrs == BitSetCsrs \cup AddrCsrs \cup CauseCsrs \cup
                   {CSR_MISA, CSR_MHARTID, CSR_SATP}

(***************************************************************************)
(* Field helpers                                                           *)
(***************************************************************************)
\* priv << lsb, as a set of bit positions
PrivBits(p, lsb) == {lsb + i : i \in {i \in 0..1 : (p \div 2^i) % 2 = 1}}
\* GETBITS(xstatus, 12, 11)
Mpp(xs) == (IF 11 \in xs THEN 1 ELSE 0) + (IF 12 \in xs THEN 2 ELSE 0)
\* GETBITS(addr, 9, 8) and GETBITS(addr, 11, 10)
CsrPrivField(addr) == (addr \div 256) % 4
CsrRoField(addr)   == (addr \div 1024) % 4
\* x & ~1 and x & 0xfffffffd on addresses
\* (ClearBit0Kept: fault-injected variant, the mask forgotten)
ClearBit0Kept(a) == a
ClearBit0(a) == a - (a % 2)
ClearBit1(a) == a - 2 * ((a \div 2) % 2)

(***************************************************************************)
(* Reset state: the RVCSR constructor.  irq_t/irq_s/irq_e are not set by   *)
(* the constructor (uninitialised members), so Init takes any value.       *)
(***************************************************************************)
CsrInitSet ==
  [ priv: {PRV_M}, xstatus: {{}}, xie: {{}}, xip: {{}},
    irq_t: BOOLEAN, irq_s: BOOLEAN, irq_e: BOOLEAN,
    mtvec: {0}, mepc: {0}, mcause: {Exc(0)}, mtval: {0},
    medeleg: {{}}, mideleg: {{}},
    stvec: {0}, sepc: {0}, scause: {Exc(0)}, stval: {0}, satp_mode: {FALSE} ]

CsrType ==
  [ priv: 0..3, xstatus: SUBSET MSTATUS_MASK, xie: SUBSET ALL_MIP_BITS,
    xip: SUBSET SIP_MASK, irq_t: BOOLEAN, irq_s: BOOLEAN, irq_e: BOOLEAN,
    mtvec: Addr, mepc: Addr, mcause: [irq: BOOLEAN, code: 0..255],
    mtval: Addr \cup {InstrBits}, medeleg: SUBSET ExceptionCodes,
    mideleg: SUBSET ALL_MIP_BITS, stvec: Addr, sepc: Addr,
    scause: [irq: BOOLEAN, code: 0..255], stval: Addr \cup {InstrBits},
    satp_mode: BOOLEAN ]

\* get_effective_xip()
EffectiveXip(c) ==
  c.xip \cup (IF c.irq_s THEN {MIP_MSIP, MIP_SSIP} ELSE {})
        \cup (IF c.irq_t THEN {MIP_MTIP, MIP_STIP} ELSE {})
        \cup (IF c.irq_e THEN {MIP_MEIP, MIP_SEIP} ELSE {})

PermitSatp(c) == c.priv >= PRV_M \/ MSTATUS_TVM \notin c.xstatus

(***************************************************************************)
(* RVCSR::read.  Returns [ok, val]; ok = FALSE is the empty optional.      *)
(***************************************************************************)
CsrReadVal(c, addr) ==
  CASE addr = CSR_MISA    -> 0   \* constant ID registers: value abstracted
    [] addr = CSR_MHARTID -> 0
    [] addr = CSR_MSTATUS -> c.xstatus \cap MSTATUS_MASK
    [] addr = CSR_MIE     -> c.xie \cap ALL_MIP_BITS
    [] addr = CSR_MIP     -> EffectiveXip(c) \cap ALL_MIP_BITS
    [] addr = CSR_MTVEC   -> c.mtvec
    [] addr = CSR_MEPC    -> c.mepc
    [] addr = CSR_MCAUSE  -> c.mcause
    [] addr = CSR_MTVAL   -> c.mtval
    [] addr = CSR_MEDELEG -> c.medeleg
    [] addr = CSR_MIDELEG -> c.mideleg
    [] addr = CSR_SSTATUS -> c.xstatus \cap SSTATUS_MASK
    [] addr = CSR_SIE     -> c.xie \cap SIP_MASK
    [] addr = CSR_SIP     -> EffectiveXip(c) \cap SIP_MASK \cap c.mideleg
    [] addr = CSR_STVEC   -> c.stvec
    [] addr = CSR_SEPC    -> c.sepc
    [] addr = CSR_SCAUSE  -> c.scause
    [] addr = CSR_STVAL   -> c.stval
    [] addr = CSR_SATP    -> c.satp_mode

CsrRead(c, addr) ==
  LET ok == /\ addr < 4096
            /\ CsrPrivField(addr) <= c.priv
            /\ addr \in ImplementedCsrs
            /\ addr # CSR_SATP \/ PermitSatp(c)
  IN [ok |-> ok, val |-> IF ok THEN CsrReadVal(c, addr) ELSE 0]

(***************************************************************************)
(* RVCSR::write.  Returns [ok, csr].  SET/CLEAR first read the CSR and     *)
(* fail if the read fails.  Only bit-set CSRs are given SET/CLEAR data by  *)
(* the model (see README).                                                 *)
(***************************************************************************)
CsrWriteData(c, addr, data, op) ==
  LET r == CsrRead(c, addr).val
  IN CASE op = WRITE       -> data
       [] op = WRITE_CLEAR -> r \ data
       [] op = WRITE_SET   -> r \cup data

CsrWriteAt(c, addr, d) ==
  LET sip_mask_deleg == SIP_MASK \cap c.mideleg
      Merge(old, mask) == (d \cap mask) \cup (old \ mask)
  IN CASE addr = CSR_MISA    -> c
       [] addr = CSR_MHARTID -> c
       [] addr = CSR_MSTATUS -> [c EXCEPT !.xstatus = Merge(@, MSTATUS_MASK)]
       [] addr = CSR_MIE     -> [c EXCEPT !.xie = Merge(@, ALL_MIP_BITS)]
       [] addr = CSR_MIP     -> [c EXCEPT !.xip = Merge(@, MIP_W_MASK)]
       [] addr = CSR_MTVEC   -> [c EXCEPT !.mtvec = ClearBit1(d)]
       [] addr = CSR_MEPC    -> [c EXCEPT !.mepc = ClearBit0(d)]
       [] addr = CSR_MCAUSE  -> [c EXCEPT !.mcause = [irq |-> d.irq, code |-> d.code % 256]]
       [] addr = CSR_MTVAL   -> [c EXCEPT !.mtval = d]
       [] addr = CSR_MEDELEG -> [c EXCEPT !.medeleg = d]
       [] addr = CSR_MIDELEG -> [c EXCEPT !.mideleg = d]
       [] addr = CSR_SSTATUS -> [c EXCEPT !.xstatus = Merge(@, SSTATUS_MASK)]
       [] addr = CSR_SIE     -> [c EXCEPT !.xie = Merge(@, SIP_MASK)]
       [] addr = CSR_SIP     -> [c EXCEPT !.xip = Merge(@, sip_mask_deleg)]
       [] addr = CSR_STVEC   -> [c EXCEPT !.stvec = ClearBit1(d)]
       [] addr = CSR_SEPC    -> [c EXCEPT !.sepc = ClearBit0(d)]
       [] addr = CSR_SCAUSE  -> [c EXCEPT !.scause = [irq |-> d.irq, code |-> d.code % 256]]
       [] addr = CSR_STVAL   -> [c EXCEPT !.stval = d]
       [] addr = CSR_SATP    -> [c EXCEPT !.satp_mode = d]

CsrWrite(c, addr, data, op) ==
  LET ok == /\ addr < 4096
            /\ CsrPrivField(addr) <= c.priv
            /\ CsrRoField(addr) # 3
            /\ addr \in ImplementedCsrs
            /\ op = WRITE \/ CsrRead(c, addr).ok
            /\ addr # CSR_SATP \/ PermitSatp(c)
  IN [ok  |-> ok,
      csr |-> IF ok THEN CsrWriteAt(c, addr, CsrWriteData(c, addr, data, op))
                    ELSE c]

(***************************************************************************)
(* Trap entry.  trap_enter_at_priv returns [csr, pc, fail]; fail is TRUE   *)
(* when the code's assert(target_priv == PRV_S) would fire.                *)
(***************************************************************************)
TrapVector(tvec, cause) ==
  IF tvec % 2 = 1 /\ cause.irq
  THEN AddrAdd(ClearBit0(tvec), 4 * cause.code)
  ELSE ClearBit0(tvec)

TrapEnterAtPriv(c, cause, epc, target) ==
  IF target = PRV_M THEN
    LET xs1 == (c.xstatus \ MSTATUS_MPP) \cup PrivBits(c.priv, 11)
        xs2 == IF MSTATUS_MIE \in xs1 THEN xs1 \cup {MSTATUS_MPIE} ELSE xs1
    IN [csr  |-> [c EXCEPT !.xstatus = xs2 \ {MSTATUS_MIE}, !.priv = PRV_M,
                           !.mcause = cause, !.mepc = epc],
        pc   |-> TrapVector(c.mtvec, cause),
        fail |-> FALSE]
  ELSE
    LET xs1 == (c.xstatus \ {SSTATUS_SPP}) \cup (PrivBits(c.priv, 8) \cap MSTATUS_MASK)
        xs2 == IF SSTATUS_SIE \in xs1 THEN xs1 \cup {SSTATUS_SPIE} ELSE xs1
    IN [csr  |-> [c EXCEPT !.xstatus = xs2 \ {SSTATUS_SIE}, !.priv = PRV_S,
                           !.scause = cause, !.sepc = epc],
        pc   |-> TrapVector(c.stvec, cause),
        fail |-> target # PRV_S]

\* trap_enter_exception: delegated causes go to S, never below current priv
TrapTargetPriv(c, code) ==
  LET t == IF code \in c.medeleg THEN PRV_S ELSE PRV_M
  IN IF t < c.priv THEN c.priv ELSE t

TrapEnterException(c, code, epc) ==
  TrapEnterAtPriv(c, Exc(code), epc, TrapTargetPriv(c, code))

\* trap_check_enter_irq: [taken, csr, pc]
MTargetedIrqs(c) == (EffectiveXip(c) \cap c.xie \cap ALL_MIP_BITS) \ c.mideleg
STargetedIrqs(c) == EffectiveXip(c) \cap c.xie \cap SIP_MASK \cap c.mideleg
\* (TakeSIrqNeedsSie: fault-injected variant, the priv < S case dropped)
TakeSIrqNeedsSie(c) == /\ STargetedIrqs(c) # {}
                       /\ SSTATUS_SIE \in c.xstatus
                       /\ c.priv <= PRV_S
TakeMIrq(c) == MTargetedIrqs(c) # {} /\ (MSTATUS_MIE \in c.xstatus \/ c.priv < PRV_M)
TakeSIrq(c) == /\ STargetedIrqs(c) # {}
               /\ SSTATUS_SIE \in c.xstatus \/ c.priv < PRV_S
               /\ c.priv <= PRV_S

TrapCheckEnterIrq(c, epc) ==
  IF TakeMIrq(c) THEN
    LET t == TrapEnterAtPriv(c, Irq(Min(MTargetedIrqs(c))), epc, PRV_M)
    IN [taken |-> TRUE, csr |-> t.csr, pc |-> t.pc]
  ELSE IF TakeSIrq(c) THEN
    LET t == TrapEnterAtPriv(c, Irq(Min(STargetedIrqs(c))), epc, PRV_S)
    IN [taken |-> TRUE, csr |-> t.csr, pc |-> t.pc]
  ELSE [taken |-> FALSE, csr |-> c, pc |-> epc]

(***************************************************************************)
(* Trap return                                                             *)
(***************************************************************************)
\* (TrapMretKeepsMprv: fault-injected variant, MPRV not cleared on leaving M)
TrapMretKeepsMprv(c) ==
  LET xs1 == c.xstatus \ MSTATUS_MPP
      xs3 == IF MSTATUS_MPIE \in xs1 THEN xs1 \cup {MSTATUS_MIE} ELSE xs1
  IN [csr |-> [c EXCEPT !.priv = Mpp(c.xstatus), !.xstatus = xs3 \ {MSTATUS_MPIE}],
      pc  |-> c.mepc, fail |-> FALSE]

\* trap_mret: [csr, pc, fail]
TrapMret(c) ==
  LET p   == Mpp(c.xstatus)
      xs1 == c.xstatus \ MSTATUS_MPP
      xs2 == IF p # PRV_M THEN xs1 \ {MSTATUS_MPRV} ELSE xs1
      xs3 == IF MSTATUS_MPIE \in xs2 THEN xs2 \cup {MSTATUS_MIE} ELSE xs2
  IN [csr |-> [c EXCEPT !.priv = p, !.xstatus = xs3 \ {MSTATUS_MPIE}],
      pc  |-> c.mepc, fail |-> FALSE]

\* trap_sret: [csr, pc, fail]; with TSR set in S-mode it enters an
\* illegal-instruction trap itself instead of returning
TrapSret(c, pc) ==
  IF MSTATUS_TSR \in c.xstatus /\ c.priv = PRV_S
  THEN TrapEnterException(c, XCAUSE_INSTR_ILLEGAL, pc)
  ELSE
    LET xs1 == c.xstatus \ {SSTATUS_SPP}
        xs2 == IF SSTATUS_SPIE \in xs1 THEN xs1 \cup {SSTATUS_SIE} ELSE xs1
    IN [csr  |-> [c EXCEPT !.priv = IF SSTATUS_SPP \in c.xstatus THEN 1 ELSE 0,
                           !.xstatus = xs2 \ {SSTATUS_SPIE, MSTATUS_MPRV}],
        pc   |-> c.sepc, fail |-> FALSE]

\* trap_set_xtval (asserts priv >= PRV_S)
TrapSetXtval(c, v) ==
  IF c.priv = PRV_S THEN [c EXCEPT !.stval = v] ELSE [c EXCEPT !.mtval = v]

(***************************************************************************)
(* Privilege queries used by address translation                           *)
(***************************************************************************)
GetEffectivePrivLs(c) ==
  IF MSTATUS_MPRV \in c.xstatus THEN Mpp(c.xstatus) ELSE c.priv
\* the assert(priv == PRV_M) inside get_effective_priv_ls
EffectivePrivLsAssertOk(c) == MSTATUS_MPRV \in c.xstatus => c.priv = PRV_M

TranslationEnabledFetch(c) == c.priv # PRV_M /\ c.satp_mode
TranslationEnabledLs(c)    == GetEffectivePrivLs(c) # PRV_M /\ c.satp_mode

PermitSfenceVma(c) ==
  \/ c.priv = PRV_S /\ MSTATUS_TVM \notin c.xstatus
  \/ c.priv = PRV_M
=============================================================================
