------------------------------ MODULE MCRVHart ------------------------------
(***************************************************************************)
(* Model-checking instance of RVHart: a 3-bit address space, and small     *)
(* sets of CSR instructions, jump targets and data addresses chosen so     *)
(* that traps, delegation, nesting, xRET and translation all happen.       *)
(***************************************************************************)
EXTENDS RVHart

\* csrrw / csrrs / csrrc with rd = x0 and a nonzero rs1, and a plain read
CW(a, d) == [addr |-> a, op |-> WRITE,       data |-> d, rdZero |-> TRUE,  rsZero |-> FALSE]
CS(a, d) == [addr |-> a, op |-> WRITE_SET,   data |-> d, rdZero |-> TRUE,  rsZero |-> FALSE]
CC(a, d) == [addr |-> a, op |-> WRITE_CLEAR, data |-> d, rdZero |-> TRUE,  rsZero |-> FALSE]
CR(a)    == [addr |-> a, op |-> WRITE_SET,   data |-> {}, rdZero |-> FALSE, rsZero |-> TRUE]
\* csrrw with rd # x0: read, then write
CRW(a, d) == [CW(a, d) EXCEPT !.rdZero = FALSE]

\* A 2-bit address space is enough for the passing runs: their properties
\* involve no address arithmetic but the pc's parity.  With it pc + 4 wraps
\* to pc, so runs about xepc and the would-be next pc use 3 bits.
MCAW == 2
MCAW3 == 3

(***************************************************************************)
(* Privilege and MPRV: M-mode sets MPRV / MPP / satp / TSR, delegates      *)
(* illegal instructions and U ecalls to S, and returns with mret / sret.   *)
(* csrrw to the read-only mhartid reads, then fails its write, and AMOs   *)
(* write rd after a bus access that may fail: the steps that must trap     *)
(* without committing rd.  There is no lr, so an SC only reaches its      *)
(* misalignment trap or fails on load_reserved (rv_core.cpp 357-360).     *)
(***************************************************************************)
PrivKinds == {"alu", "jump", "load", "sc", "amo", "csr", "mret", "sret", "ecall", "illegal"}
PrivCsrOps ==
  { CS(CSR_MSTATUS, {MSTATUS_MPRV}),
    CC(CSR_MSTATUS, MSTATUS_MPP),
    CS(CSR_MSTATUS, {11}),
    CS(CSR_MSTATUS, {MSTATUS_TSR}),
    CW(CSR_SATP, TRUE),
    CW(CSR_MEDELEG, {XCAUSE_INSTR_ILLEGAL, XCAUSE_ECALL_U}),
    CW(CSR_MEPC, 3),
    CW(CSR_STVEC, 2),
    CRW(CSR_MHARTID, 0) }

(***************************************************************************)
(* Interrupts: the timer line is enabled at M (MTIE) or delegated to S     *)
(* (STIE, mideleg.STIP), with MIE / SIE set and cleared by software and by *)
(* trap entry / return.                                                    *)
(***************************************************************************)
IrqKinds == {"alu", "csr", "mret", "sret", "ecall"}
IrqCsrOps ==
  { CS(CSR_MSTATUS, {MSTATUS_MIE}),
    CC(CSR_MSTATUS, MSTATUS_MPP),
    CS(CSR_MSTATUS, {11}),
    CS(CSR_MIE, {MIP_MTIP}),
    CS(CSR_MIP, {MIP_MTIP}),
    CW(CSR_MIDELEG, {MIP_STIP}),
    CS(CSR_SIE, {MIP_STIP}),
    CS(CSR_SSTATUS, {SSTATUS_SIE}) }

(***************************************************************************)
(* Memory: loads, stores and atomics to every kind of bus region, with and *)
(* without translation, and CSR instructions whose write fails after the   *)
(* read succeeded (csrrw to the read-only mhartid).                        *)
(***************************************************************************)
MemKinds == {"alu", "load", "store", "lr", "sc", "amo", "csr", "mret"}
MemCsrOps ==
  { CRW(CSR_MHARTID, 0),
    CR(CSR_MIP),
    CC(CSR_MSTATUS, MSTATUS_MPP),
    CW(CSR_SATP, TRUE) }

\* PrivCsrOps, plus a write of MPP = 2, which names no privilege
PrivCsrOpsMpp2 == PrivCsrOps \cup {CS(CSR_MSTATUS, {12})}

MCTargets == {0, 2}
MCTargets3 == {0, 6}
MCLsAddrs == {0, 2}
====
