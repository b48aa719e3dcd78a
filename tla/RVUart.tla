------------------------------- MODULE RVUart --------------------------------
(***************************************************************************)
(* The 8250 UART mock (include/mmio/uart8250.h) as the guest sees it       *)
(* through the memory map: MemMap32 maps its 8 bytes at UART8250_BASE      *)
(* (part_008:131) and hands w8 / r8 the offset, so every offset is 0..7.   *)
(*                                                                         *)
(* The registers are bytes and keep their values; only the bits the code  *)
(* tests matter (DLAB = 0x80 of lcr, the IER mask 0xf, the value 7 that    *)
(* w8 compares data with), and the guest writes bytes from a small set.   *)
(* UART8250 has no constructor and main's `UART8250 uart;` is a local, so  *)
(* every register starts at any value of the set (indeterminate).         *)
(* putchar is I/O: a THR write is recorded as printed, nothing more.      *)
(***************************************************************************)
EXTENDS Integers, Bitwise

CONSTANTS
  UartData,   \* bytes the guest writes
  UartInit    \* bytes an uninitialised register may hold

ASSUME UartData \cup UartInit \subseteq 0..255

VARIABLES
  dll, ier, dlm, iir, lcr, mcr, scr,   \* UART8250's fields
  last                                  \* history: the last w8 and its effect

vars == <<dll, ier, dlm, iir, lcr, mcr, scr, last>>

regs == <<dll, ier, dlm, iir, lcr, mcr, scr>>

\* register offsets (uart8250.h 15-27) and the DLAB bit of LCR
UART_RBR_OFFSET == 0
UART_THR_OFFSET == 0
UART_DLL_OFFSET == 0
UART_IER_OFFSET == 1
UART_DLM_OFFSET == 1
UART_IIR_OFFSET == 2
UART_LCR_OFFSET == 3
UART_MCR_OFFSET == 4
UART_LSR_OFFSET == 5
UART_SCR_OFFSET == 7
UART_LCR_DLAB == 128
UART_LSR_TEMT == 64
UART_LSR_THRE == 32

\* the offsets the 8-byte mapping passes on
UartOffsets == 0..7

Dlab == (lcr & UART_LCR_DLAB) # 0

NoWrite == [off |-> -1, data |-> -1, printed |-> FALSE]

Init ==
  /\ dll \in UartInit /\ ier \in UartInit /\ dlm \in UartInit
  /\ iir \in UartInit /\ lcr \in UartInit /\ mcr \in UartInit
  /\ scr \in UartInit
  /\ last = NoWrite

(***************************************************************************)
(* UART8250::r8: the register of the current bank; RBR and IIR read 0, LSR *)
(* always ready to transmit, MSR and the rest 0.                           *)
(***************************************************************************)
R8(off) ==
  CASE off = UART_RBR_OFFSET /\ ~Dlab -> 0
    [] off = UART_DLL_OFFSET /\ Dlab  -> dll
    [] off = UART_IER_OFFSET /\ ~Dlab -> ier
    [] off = UART_DLM_OFFSET /\ Dlab  -> dlm
    [] off = UART_IIR_OFFSET          -> 0
    [] off = UART_LCR_OFFSET          -> lcr
    [] off = UART_MCR_OFFSET          -> mcr
    [] off = UART_LSR_OFFSET          -> UART_LSR_TEMT | UART_LSR_THRE
    [] off = UART_SCR_OFFSET          -> scr
    [] OTHER                          -> 0

(***************************************************************************)
(* UART8250::w8(addr, data), its if-chain in order.  The scratch branch    *)
(* compares data, not addr, with UART_SCR_OFFSET; the final addr > 7 case  *)
(* is out of the mapping's reach.  Every in-range write returns true.      *)
(***************************************************************************)
W8(off, data) ==
  LET printed == off = UART_THR_OFFSET /\ ~Dlab
  IN /\ CASE printed                           -> UNCHANGED regs
          [] off = UART_DLL_OFFSET /\ Dlab     -> /\ dll' = data
                                                  /\ UNCHANGED <<ier, dlm, iir, lcr, mcr, scr>>
          [] off = UART_IER_OFFSET /\ ~Dlab    -> /\ ier' = data & 15
                                                  /\ UNCHANGED <<dll, dlm, iir, lcr, mcr, scr>>
          [] off = UART_DLM_OFFSET /\ Dlab     -> /\ dlm' = data
                                                  /\ UNCHANGED <<dll, ier, iir, lcr, mcr, scr>>
          [] off = UART_LCR_OFFSET             -> /\ lcr' = data
                                                  /\ UNCHANGED <<dll, ier, dlm, iir, mcr, scr>>
          [] off = UART_MCR_OFFSET             -> /\ mcr' = data
                                                  /\ UNCHANGED <<dll, ier, dlm, iir, lcr, scr>>
          [] data = UART_SCR_OFFSET            -> /\ scr' = data
                                                  /\ UNCHANGED <<dll, ier, dlm, iir, lcr, mcr>>
          [] OTHER                             -> UNCHANGED regs
     /\ last' = [off |-> off, data |-> data, printed |-> printed]

\* a store byte (sb) by the hart that the memory map routes to the UART
GuestWrite == \E off \in UartOffsets, data \in UartData : W8(off, data)

Next == GuestWrite

Spec == Init /\ [][Next]_vars

(***************************************************************************)
(* spec.md 181: IER, LCR, MCR, SCR, DLL and DLM are readable and writable  *)
(* with DLAB banking, and a THR write emits the byte.  So after each w8:   *)
(* a THR write (offset 0, DLAB clear) prints; a write to a register is     *)
(* read back by r8 at its offset in the bank now selected (IER keeps the   *)
(* four bits an 8250 defines); every other register reads as before.       *)
(***************************************************************************)
WriteTarget(off, dlab) ==
  CASE off = 0 -> IF dlab THEN "dll" ELSE "thr"
    [] off = 1 -> IF dlab THEN "dlm" ELSE "ier"
    [] off = 3 -> "lcr"
    [] off = 4 -> "mcr"
    [] off = 7 -> "scr"
    [] OTHER   -> "none"

UartWriteReadBack ==
  [][ \A o \in UartOffsets, d \in UartData, p \in BOOLEAN :
        last' = [off |-> o, data |-> d, printed |-> p] =>
          LET tgt == WriteTarget(o, Dlab)
          IN /\ p = (tgt = "thr")
             /\ tgt \in {"dll", "dlm", "lcr", "mcr", "scr"} => R8(o)' = d
             /\ tgt = "ier" => R8(o)' = d % 16
             /\ tgt # "lcr" => \A o2 \in UartOffsets \ {o} : R8(o2)' = R8(o2)
    ]_vars
=============================================================================
