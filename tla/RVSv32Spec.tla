----------------------------- MODULE RVSv32Spec -----------------------------
(***************************************************************************)
(* What address translation promises (spec.md 4.4 and 4.5 step 1), stated *)
(* over decoded page-table entries: records of flags and PPN fields rather *)
(* than bit patterns.  This is the abstract specification that RVSv32, the *)
(* model of the code, is checked to implement.                             *)
(*                                                                         *)
(* Geometry (scaled down as in RVSv32): a page is 2^PageBits bytes holding *)
(* two PTE words, each VPN field is one bit, a VA is VABits wide.          *)
(***************************************************************************)
EXTENDS Integers, FiniteSets

CONSTANTS
  PageBits,      \* width of the page offset (12 in Sv32)
  VABits,        \* width of a virtual address (32)
  InitPtes,      \* word index -> decoded PTE at reset of the model
  Writable,      \* word indices the program may store PTEs to
  PteRecs,       \* the decoded PTEs it may store
  IoPages,       \* physical pages where a 32-bit read fails
  Contexts,      \* privilege/status/satp contexts the hart may be in
  LsVAs, FetchVAs

VARIABLES ptes, ctx, out

Flags == {"V", "R", "W", "X", "U", "G", "A", "D"}
PteRec == [fl: SUBSET Flags, ppn1: 0..1, ppn0: 0..1]

\* privilege levels and the xstatus bits of the glossary
U == 0
S == 1
M == 3
BitSUM == 18
BitMXR == 19
BitMPRV == 17

\* Effective privilege for loads/stores: MPP under MPRV in M, else priv.
EffPrivLs(c) ==
  IF BitMPRV \in c.xstatus /\ c.priv = M
  THEN (IF 11 \in c.xstatus THEN 1 ELSE 0) + (IF 12 \in c.xstatus THEN 2 ELSE 0)
  ELSE c.priv

Vpn1(va) == va \div 2^(PageBits + 1)
Vpn0(va) == (va \div 2^PageBits) % 2
PageOff(va) == va % 2^PageBits

\* The permission check: U-bit rules, MXR widening, requested subset.
PermOk(c, p, req) ==
  LET ep    == IF "X" \in req THEN c.priv ELSE EffPrivLs(c)
      perms == (p.fl \cap {"R", "W", "X"})
                 \cup (IF BitMXR \in c.xstatus /\ "X" \in p.fl THEN {"R"} ELSE {})
  IN /\ ~("U" \in p.fl /\ ep = S /\ BitSUM \notin c.xstatus)
     /\ ~("U" \notin p.fl /\ ep = U)
     /\ req \subseteq perms

\* A is always set, D on a write request
Touched(p, req) ==
  [p EXCEPT !.fl = @ \cup {"A"} \cup (IF "W" \in req THEN {"D"} ELSE {})]

Fail(pt) == [st |-> "fault", pa |-> 0, ptes |-> pt]
Ok(pa, pt) == [st |-> "ok", pa |-> pa, ptes |-> pt]

\* The walk of 4.4 for VA va, root page `root`, requested permission req.
Walk(c, pt, va, req) ==
  LET w1 == c.atp * 2 + Vpn1(va)
      p1 == pt[w1]
  IN IF c.atp \in IoPages \/ "V" \notin p1.fl \/ ("W" \in p1.fl /\ "R" \notin p1.fl)
     THEN Fail(pt)
     ELSE IF p1.fl \cap {"R", "W", "X"} # {}
     THEN IF p1.ppn0 # 0 \/ ~PermOk(c, p1, req) THEN Fail(pt)
          ELSE Ok((p1.ppn1 * 2 + Vpn0(va)) * 2^PageBits + PageOff(va),
                  [pt EXCEPT ![w1] = Touched(p1, req)])
     ELSE LET pg == p1.ppn1 * 2 + p1.ppn0
              w0 == pg * 2 + Vpn0(va)
              p0 == pt[w0]
          IN IF pg \in IoPages \/ "V" \notin p0.fl \/ p0.fl \cap {"R", "W", "X"} = {}
                \/ ~PermOk(c, p0, req)
             THEN Fail(pt)
             ELSE Ok((p0.ppn1 * 2 + p0.ppn0) * 2^PageBits + PageOff(va),
                     [pt EXCEPT ![w0] = Touched(p0, req)])

\* Translation applies when the effective privilege is not M and satp.MODE
Translate(c, pt, va, req, ep) ==
  IF ep # M /\ c.satp_mode THEN Walk(c, pt, va, req) ELSE Ok(va, pt)

NoOut == [op |-> "none"]

Init ==
  /\ ptes = InitPtes
  /\ ctx \in Contexts
  /\ out = NoOut

\* A load (R), store (W) or AMO (R and W) translates its address.
LoadStore ==
  \E va \in LsVAs, req \in {{"R"}, {"W"}, {"R", "W"}} :
    LET t == Translate(ctx, ptes, va, req, EffPrivLs(ctx))
    IN /\ ptes' = t.ptes
       /\ out' = [op |-> "ls", va |-> va, req |-> req, st |-> t.st,
                  pa |-> IF t.st = "ok" THEN <<t.pa>> ELSE <<>>]
       /\ UNCHANGED ctx

\* Fetch: translate pc; only a 32-bit instruction (its first halfword read)
\* translates pc + 2 as well.
Fetch ==
  \E pc \in FetchVAs, len \in {2, 4} :
    LET a == Translate(ctx, ptes, pc, {"X"}, ctx.priv)
        b == Translate(ctx, a.ptes, (pc + 2) % 2^VABits, {"X"}, ctx.priv)
    IN /\ UNCHANGED ctx
       /\ \/ /\ a.st = "fault"
             /\ ptes' = a.ptes
             /\ out' = [op |-> "fetch", va |-> pc, len |-> len, st |-> "pf0", pa |-> <<>>]
          \/ /\ a.st = "ok" /\ len = 2
             /\ ptes' = a.ptes
             /\ out' = [op |-> "fetch", va |-> pc, len |-> len, st |-> "ok", pa |-> <<a.pa>>]
          \/ /\ a.st = "ok" /\ len = 4
             /\ ptes' = b.ptes
             /\ out' = [op |-> "fetch", va |-> pc, len |-> len,
                        st |-> IF b.st = "fault" THEN "pf1" ELSE "ok",
                        pa |-> IF b.st = "fault" THEN <<>> ELSE <<a.pa, b.pa>>]

\* The program stores a PTE, or changes privilege, status or satp.
StorePte ==
  /\ \E w \in Writable, p \in PteRecs : ptes' = [ptes EXCEPT ![w] = p]
  /\ out' = NoOut
  /\ UNCHANGED ctx

SwitchContext ==
  /\ ctx' \in Contexts
  /\ out' = NoOut
  /\ UNCHANGED ptes

Next == LoadStore \/ Fetch \/ StorePte \/ SwitchContext

Spec == Init /\ [][Next]_<<ptes, ctx, out>>
=============================================================================
