------------------------------ MODULE MCRVSv32 ------------------------------
(***************************************************************************)
(* Model-checking instance of RVSv32: four physical pages of two PTE words *)
(* each (page 3 is IO), a 5-bit VA (two bits of VPN, three of offset).     *)
(*                                                                         *)
(*   page 0 (root): w0 -> pointer to page 1; w1 -> superpage leaf, RWX, S  *)
(*   page 1:        w2 -> leaf to page 2, RX, U;  w3 -> leaf to page 0, RW *)
(*   page 2: data;  page 3: IO                                            *)
(*                                                                         *)
(* The program may rewrite w1 and w3 with: invalid, a pointer (into IO, or *)
(* at level 0), a misaligned superpage, U / execute-only leaves.  The      *)
(* contexts cover U and S with SUM and MXR, M with MPRV and MPP = U or S,  *)
(* M and satp off (no translation), and a second root (page 1).            *)
(***************************************************************************)
EXTENDS RVSv32

\* a PTE word: PPN, then the flag bits
Pte(ppn, flags) == ppn * 2^PPN_SHIFT + flags

MCPageBits == 3
MCVABits == 5

MCInitPmem ==
  [w \in 0..7 |->
     CASE w = 0 -> Pte(1, PTE_V)
       [] w = 1 -> Pte(2, PTE_V + PTE_R + PTE_W + PTE_X)
       [] w = 2 -> Pte(2, PTE_V + PTE_R + PTE_X + PTE_U)
       [] w = 3 -> Pte(0, PTE_V + PTE_R + PTE_W)
       [] OTHER -> 0]

MCWritable == {1, 3}

MCPteValues ==
  { 0,
    Pte(3, PTE_V),                                \* pointer into the IO page
    Pte(1, PTE_V),                                \* pointer (a fault at level 0)
    Pte(3, PTE_V + PTE_R + PTE_W),                \* misaligned superpage at level 1
    Pte(2, PTE_V + PTE_R + PTE_W + PTE_U),
    Pte(2, PTE_V + PTE_X),                        \* execute-only
    Pte(2, PTE_V + PTE_R + PTE_W + PTE_X) }

\* ... and a leaf with W = 1, R = 0, which 4.4 step 1 calls reserved
MCPteValuesReserved == MCPteValues \cup {Pte(2, PTE_V + PTE_W)}

Ctx(p, xs, mode, root) == [priv |-> p, xstatus |-> xs, satp_mode |-> mode, atp |-> root]

MCContexts ==
  {Ctx(p, xs, TRUE, 0) : p \in {PRV_U, PRV_S}, xs \in SUBSET {SSTATUS_SUM, SSTATUS_MXR}}
  \cup {Ctx(PRV_M, {MSTATUS_MPRV} \cup mpp \cup sum, TRUE, 0) :
          mpp \in {{}, {11}}, sum \in {{}, {SSTATUS_SUM}}}
  \cup {Ctx(PRV_M, {}, TRUE, 0), Ctx(PRV_S, {}, FALSE, 0), Ctx(PRV_S, {}, TRUE, 1)}

\* one address in each of the four virtual pages
MCLsVAs == {0, 8, 16, 24}
\* fetches at a page's start (pc + 2 is in the same page), and at a page's
\* last halfword (pc + 2 is in the next page, or wraps to VA 0)
MCFetchVAs == {0, 8, 16, 24}
MCFetchVAsCross == MCFetchVAs \cup {6, 14, 22, 30}
=============================================================================
