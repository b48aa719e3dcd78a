------------------------------- MODULE RVSv32 -------------------------------
(***************************************************************************)
(* Sv32 address translation as the code does it: RVCore::vmap_sv32,        *)
(* vmap_ls and vmap_fetch (rv_core.h), RVCSR::pte_permissions_ok, and the  *)
(* two translations at the start of RVCore::step (rv_core.cpp 95-100).     *)
(*                                                                         *)
(* PTEs are words with the code's bit layout (V=bit 0 ... D=bit 7, PPN0    *)
(* from bit 10, PPN1 above it) and are manipulated with the code's masks.  *)
(* The geometry is scaled down: a page is 2^PageBits bytes (two PTE words) *)
(* instead of 4096 (1024 PTEs), each VPN field is one bit instead of ten,  *)
(* PPN0 is bit 10 and PPN1 bit 11, and a VA is VABits wide.  Every shift   *)
(* and mask of the code is kept at the scaled positions.                   *)
(*                                                                         *)
(* Physical memory is pmem: word index -> word.  A page is RAM (r32 and    *)
(* w32 succeed) or IO (RVCore::r32 falls to a device without r32, and      *)
(* fails).  No device of the platform answers r32 but refuses w32, so the  *)
(* A/D write-back cannot fail here.                                        *)
(***************************************************************************)
EXTENDS RVCSR, Bitwise

CONSTANTS
  PageBits, VABits,
  InitPmem,      \* word index -> word: the page tables at the start
  Writable,      \* words the program may store PTEs to
  PteValues,     \* the PTE words it may store
  IoPages,       \* physical pages where r32 fails
  Contexts,      \* [priv, xstatus, satp_mode, atp]: CSR state translation reads
  LsVAs, FetchVAs

VARIABLES pmem, ctx, out

vars == <<pmem, ctx, out>>

\* PTE bits (encoding header)
PTE_V == 1
PTE_R == 2
PTE_W == 4
PTE_X == 8
PTE_U == 16
PTE_G == 32
PTE_A == 64
PTE_D == 128
\* 0x000ffc00, the PPN0 field, at its scaled position
PPN0_MASK == 1024
PPN_SHIFT == 10

Words == DOMAIN InitPmem
PageOf(paddr) == paddr \div 2^PageBits

\* RVCore::r32 of a PTE: RAM answers, an IO page does not
PteReadOk(paddr) == PageOf(paddr) \notin IoPages

\* RVCSR::get_atp: (satp & SATP32_PPN) << 12
GetAtp(c) == c.atp * 2^PageBits

(***************************************************************************)
(* RVCSR::pte_permissions_ok.  Its assert(effective_priv <= PRV_S) is the  *)
(* one vmap_sv32 makes first with the same privilege, so it never fires    *)
(* on its own.                                                             *)
(***************************************************************************)
PtePermissionsOkNoMxr(c, pte, req) ==
  LET ep    == IF (req & PTE_X) # 0 THEN c.priv ELSE GetEffectivePrivLs(c)
      perms == pte & (PTE_R + PTE_W + PTE_X)
  IN /\ ~((pte & PTE_U) # 0 /\ ep = PRV_S /\ SSTATUS_SUM \notin c.xstatus)
     /\ ~((pte & PTE_U) = 0 /\ ep = PRV_U)
     /\ (perms & req) = req

PtePermissionsOk(c, pte, req) ==
  LET ep    == IF (req & PTE_X) # 0 THEN c.priv ELSE GetEffectivePrivLs(c)
      p0    == pte & (PTE_R + PTE_W + PTE_X)
      perms == IF SSTATUS_MXR \in c.xstatus /\ (p0 & PTE_X) # 0 THEN p0 | PTE_R ELSE p0
  IN /\ ~((pte & PTE_U) # 0 /\ ep = PRV_S /\ SSTATUS_SUM \notin c.xstatus)
     /\ ~((pte & PTE_U) = 0 /\ ep = PRV_U)
     /\ (perms & req) = req

\* A plausible slip: the flags added rather than or-ed in (always written).
AdUpdateAdd(m, paddr, pte, req) ==
  LET upd == pte + PTE_A + (IF (req & PTE_W) # 0 THEN PTE_D ELSE 0)
  IN IF upd # pte THEN [m EXCEPT ![paddr \div 4] = upd] ELSE m

\* pte | PTE_A | (required & PTE_W ? PTE_D : 0), written back if it changed
AdUpdate(m, paddr, pte, req) ==
  LET upd == pte | PTE_A | (IF (req & PTE_W) # 0 THEN PTE_D ELSE 0)
  IN IF upd # pte THEN [m EXCEPT ![paddr \div 4] = upd] ELSE m

\* ((*pte1 << 2) & 0xffc00000) | (vaddr & 0x003fffff)
SuperPa(pte, va) ==
  (pte \div 2^(PPN_SHIFT + 1)) * 2^(PageBits + 1) + (va % 2^(PageBits + 1))
\* ((*pte0 << 2) & 0xfffff000) | (vaddr & 0xfff)
PagePa(pte, va) == (pte \div 2^PPN_SHIFT) * 2^PageBits + (va % 2^PageBits)

Failed(m) == [st |-> "fault", pa |-> 0, mem |-> m]
Ok(pa, m) == [st |-> "ok", pa |-> pa, mem |-> m]

(***************************************************************************)
(* RVCore::vmap_sv32(vaddr, atp, effective_priv, required_permissions).    *)
(* Returns [st, pa, mem]: "ok" with the physical address, "fault" (the    *)
(* empty optional) or "abort" (the assert), and memory after the A/D      *)
(* write-back.                                                             *)
(***************************************************************************)
VmapSv32(c, m, va, atp, ep, req) ==
  LET a1   == atp + (va \div 2^(PageBits + 1)) * 4
      pte1 == m[a1 \div 4]
      a0   == (pte1 \div 2^PPN_SHIFT) * 2^PageBits + ((va \div 2^PageBits) % 2) * 4
      pte0 == m[a0 \div 4]
  IN IF ep > PRV_S THEN [st |-> "abort", pa |-> 0, mem |-> m]
     ELSE IF ~(PteReadOk(a1) /\ (pte1 & PTE_V) # 0) THEN Failed(m)
     ELSE IF (pte1 & (PTE_X + PTE_W + PTE_R)) # 0
     THEN IF ~PtePermissionsOk(c, pte1, req) THEN Failed(m)
          ELSE IF (pte1 & PPN0_MASK) # 0 THEN Failed(m)
          ELSE Ok(SuperPa(pte1, va), AdUpdate(m, a1, pte1, req))
     ELSE IF ~(PteReadOk(a0) /\ (pte0 & PTE_V) # 0
               /\ (pte0 & (PTE_X + PTE_W + PTE_R)) # 0) THEN Failed(m)
     ELSE IF ~PtePermissionsOk(c, pte0, req) THEN Failed(m)
     ELSE Ok(PagePa(pte0, va), AdUpdate(m, a0, pte0, req))

\* RVCore::vmap_ls, including get_effective_priv_ls's assert under MPRV
VmapLs(c, m, va, req) ==
  IF ~EffectivePrivLsAssertOk(c) THEN [st |-> "abort", pa |-> 0, mem |-> m]
  ELSE IF TranslationEnabledLs(c)
  THEN VmapSv32(c, m, va, GetAtp(c), GetEffectivePrivLs(c), req)
  ELSE Ok(va, m)

\* RVCore::vmap_fetch: true privilege, X permission
VmapFetch(c, m, va) ==
  IF TranslationEnabledFetch(c)
  THEN VmapSv32(c, m, va, GetAtp(c), c.priv, PTE_X)
  ELSE Ok(va, m)

NoOut == [op |-> "none"]

\* the requested permission, as a set of names, for the record in `out`
ReqNames(req) == {n \in {"R", "W", "X"} :
                    (req & (CASE n = "R" -> PTE_R [] n = "W" -> PTE_W [] n = "X" -> PTE_X)) # 0}

Init ==
  /\ pmem = InitPmem
  /\ ctx \in Contexts
  /\ out = NoOut

\* A load (PTE_R), store or SC (PTE_W), or AMO (PTE_W | PTE_R) translates.
LoadStore ==
  \E va \in LsVAs, req \in {PTE_R, PTE_W, PTE_W + PTE_R} :
    LET t == VmapLs(ctx, pmem, va, req)
    IN /\ pmem' = t.mem
       /\ out' = [op |-> "ls", va |-> va, req |-> ReqNames(req), st |-> t.st,
                  pa |-> IF t.st = "ok" THEN <<t.pa>> ELSE <<>>]
       /\ UNCHANGED ctx

(***************************************************************************)
(* The start of RVCore::step: vmap_fetch(pc), then vmap_fetch(pc + 2)      *)
(* whatever the first gave; the length comes from the first halfword read. *)
(* A fault at pc is a page fault there; else a 32-bit instruction whose    *)
(* second translation failed faults at pc + 2.                             *)
(***************************************************************************)
Fetch ==
  \E pc \in FetchVAs, len \in {2, 4} :
    LET a == VmapFetch(ctx, pmem, pc)
        b == VmapFetch(ctx, a.mem, (pc + 2) % 2^VABits)
        st == IF a.st # "ok" THEN "pf0"
              ELSE IF len = 4 /\ b.st # "ok" THEN "pf1" ELSE "ok"
    IN /\ pmem' = b.mem
       /\ out' = [op |-> "fetch", va |-> pc, len |-> len, st |-> st,
                  pa |-> IF st # "ok" THEN <<>>
                         ELSE IF len = 4 THEN <<a.pa, b.pa>> ELSE <<a.pa>>]
       /\ UNCHANGED ctx

\* A store instruction writes a PTE word (its own translation is above).
StorePte ==
  /\ \E w \in Writable, v \in PteValues : pmem' = [pmem EXCEPT ![w] = v]
  /\ out' = NoOut
  /\ UNCHANGED ctx

\* csrw satp/mstatus, traps and xret change what translation reads.
SwitchContext ==
  /\ ctx' \in Contexts
  /\ out' = NoOut
  /\ UNCHANGED pmem

Next == LoadStore \/ Fetch \/ StorePte \/ SwitchContext

Spec == Init /\ [][Next]_vars

\* `out` only records the last translation; nothing reads it.
StateView == <<pmem, ctx>>

(***************************************************************************)
(* Refinement: the decoded page tables, the same context and the same      *)
(* observed results satisfy the abstract specification RVSv32Spec.        *)
(***************************************************************************)
FlagBit == [V |-> 0, R |-> 1, W |-> 2, X |-> 3, U |-> 4, G |-> 5, A |-> 6, D |-> 7]

DecodePte(w) ==
  [fl   |-> {f \in DOMAIN FlagBit : (w \div 2^FlagBit[f]) % 2 = 1},
   ppn1 |-> (w \div 2^(PPN_SHIFT + 1)) % 2,
   ppn0 |-> (w \div 2^PPN_SHIFT) % 2]

Abs == INSTANCE RVSv32Spec WITH
         ptes <- [w \in Words |-> DecodePte(pmem[w])],
         InitPtes <- [w \in Words |-> DecodePte(InitPmem[w])],
         PteRecs <- {DecodePte(v) : v \in PteValues}

\* Every word of memory holds a value the program put there (at the start or
\* by a store), with at most the A and D bits added: the walk's write-back
\* (vmap_sv32's `*pte | PTE_A | ...`) never changes anything else of a PTE.
TypeOK ==
  /\ \A w \in Words :
       pmem[w] \in {v | ad : v \in PteValues \cup {InitPmem[i] : i \in Words},
                             ad \in {0, PTE_A, PTE_A + PTE_D}}
  /\ ctx \in Contexts

\* Every translation the code performs -- its result (physical address or
\* fault, for loads, stores, AMOs and both halves of a fetch) and the A/D
\* bits it writes back to the page tables -- is one the Sv32 walk of the
\* spec allows (vmap_sv32, pte_permissions_ok, RVCore::step's fetch).
Sv32Refinement == Abs!Spec
=============================================================================
