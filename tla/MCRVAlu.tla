------------------------------- MODULE MCRVAlu -------------------------------
(***************************************************************************)
(* RVAlu at XLEN = 4 with two registers: every pair of operand values, so  *)
(* every ALU and M-extension case, including the edges (0, -1, INT_MIN),   *)
(* is reached.  Counter halves are one bit wide, so that the carry from    *)
(* the low half and the wrap of the whole counter both happen within four  *)
(* steps.                                                                  *)
(***************************************************************************)
EXTENDS RVAlu
====
