------------------------------- MODULE RVAlu --------------------------------
(***************************************************************************)
(* The data path of RVCore::step for register-register and register-       *)
(* immediate arithmetic (OPC_OP, OPC_OP_IMM, with the M extension), the    *)
(* end of every step (rd written unless it is x0, then                     *)
(* RVCSR::step_counters), and CSR writes to the counter halves.            *)
(*                                                                         *)
(* ux_t is XLEN bits wide, sx_t its two's-complement reading and sdx_t the *)
(* 2*XLEN-bit signed type; XLEN is a constant so that TLC can enumerate    *)
(* every pair of operands.  Each counter half is CounterBits wide (32 in   *)
(* the code).  Registers other than x0..x(NRegs) are not modelled.          *)
(***************************************************************************)
EXTENDS Integers, Bitwise, Functions

CONSTANTS
  XLEN,          \* register width (32)
  CounterBits,   \* width of mcycle, mcycleh, minstret, minstreth (32)
  NRegs          \* registers x1..xNRegs are modelled

VARIABLES regs, mcycle, mcycleh, minstret, minstreth, last

vars == <<regs, mcycle, mcycleh, minstret, minstreth, last>>

Word == 0..(2^XLEN - 1)
Half == 0..(2^CounterBits - 1)
RegNums == 0..NRegs

\* regs[0] is not stored: x0 reads as zero and writes to it are dropped
Reg(r) == IF r = 0 THEN 0 ELSE regs[r]

\* ux_t arithmetic wraps; (sx_t)x reads the top bit as the sign
Wrap(x) == x % 2^XLEN
Signed(x) == IF x >= 2^(XLEN - 1) THEN x - 2^XLEN ELSE x
\* sdx_t (int64_t) holds 2*XLEN bits; its overflow wraps in the build
Wrap2(x) == LET u == x % 2^(2 * XLEN)
            IN IF u >= 2^(2 * XLEN - 1) THEN u - 2^(2 * XLEN) ELSE u

\* C's / and % on signed operands truncate toward zero
CDiv(x, y) == IF (x < 0) = (y < 0) THEN (IF x < 0 THEN -x ELSE x) \div (IF y < 0 THEN -y ELSE y)
              ELSE -((IF x < 0 THEN -x ELSE x) \div (IF y < 0 THEN -y ELSE y))
CRem(x, y) == x - y * CDiv(x, y)

\* x >> n on sx_t: arithmetic (floor) shift, as the compiler does it
Sra(x, n) == Wrap(Signed(x) \div 2^n)

\* exception_cause = XCAUSE_INSTR_ILLEGAL instead of an rd_wdata (no ux_t is
\* negative)
Illegal == -1

(***************************************************************************)
(* The M extension (funct7 = 1).  MUL* sign-extend each operand into an    *)
(* sdx_t unless its funct3 types it unsigned, multiply, and keep the low   *)
(* or (>> XLEN) high word.  MULHU's product of two unsigned words does not *)
(* fit a signed sdx_t: it overflows, and the build wraps it.               *)
(***************************************************************************)
\* A slip in the typing: MULHSU's rs1 (funct3 = 2) read unsigned
MulResultHsuSwapped(funct3, rs1, rs2) ==
  LET mul_op_a == IF funct3 # 2 THEN Signed(rs1) ELSE rs1
      mul_op_b == IF funct3 < 2 THEN Signed(rs2) ELSE rs2
      mul_result == Wrap2(mul_op_a * mul_op_b)
  IN IF funct3 = 0 THEN Wrap(mul_result) ELSE Wrap(mul_result \div 2^XLEN)

MulResult(funct3, rs1, rs2) ==
  LET mul_op_a == IF funct3 # 3 THEN Signed(rs1) ELSE rs1
      mul_op_b == IF funct3 < 2 THEN Signed(rs2) ELSE rs2
      mul_result == Wrap2(mul_op_a * mul_op_b)
  IN IF funct3 = 0 THEN Wrap(mul_result) ELSE Wrap(mul_result \div 2^XLEN)

DivRemResult(funct3, rs1, rs2) ==
  CASE funct3 = 4 -> IF rs2 = 0 THEN Wrap(-1)
                     ELSE IF rs2 = 2^XLEN - 1 THEN Wrap(-rs1)
                     ELSE Wrap(CDiv(Signed(rs1), Signed(rs2)))
    [] funct3 = 5 -> IF rs2 # 0 THEN rs1 \div rs2 ELSE 2^XLEN - 1
    [] funct3 = 6 -> IF rs2 = 0 THEN rs1
                     ELSE IF rs2 = 2^XLEN - 1 THEN 0
                     ELSE Wrap(CRem(Signed(rs1), Signed(rs2)))
    [] funct3 = 7 -> IF rs2 # 0 THEN rs1 % rs2 ELSE rs1

\* case OPC_OP: the shift amount is rs2 & 0x1f, i.e. rs2 mod XLEN
OpResult(funct7, funct3, rs1, rs2) ==
  LET sh == rs2 % XLEN
  IN CASE funct7 = 0 ->
            (CASE funct3 = 0 -> Wrap(rs1 + rs2)
               [] funct3 = 1 -> Wrap(rs1 * 2^sh)
               [] funct3 = 2 -> IF Signed(rs1) < Signed(rs2) THEN 1 ELSE 0
               [] funct3 = 3 -> IF rs1 < rs2 THEN 1 ELSE 0
               [] funct3 = 4 -> rs1 ^^ rs2
               [] funct3 = 5 -> rs1 \div 2^sh
               [] funct3 = 6 -> rs1 | rs2
               [] funct3 = 7 -> rs1 & rs2)
       [] funct7 = 32 ->
            (CASE funct3 = 0 -> Wrap(rs1 - rs2)
               [] funct3 = 5 -> Sra(rs1, sh)
               [] OTHER -> Illegal)
       [] funct7 = 1 ->
            IF funct3 < 4 THEN MulResult(funct3, rs1, rs2) ELSE DivRemResult(funct3, rs1, rs2)
       [] OTHER -> Illegal

(***************************************************************************)
(* case OPC_OP_IMM: imm is imm_i(instr) (as a ux_t, so reduced mod         *)
(* 2^XLEN); for the shifts the amount is the rs2 field and funct7 the top  *)
(* seven bits of the immediate.                                            *)
(***************************************************************************)
OpImmResult(funct3, funct7, regnum_rs2, imm, rs1) ==
  CASE funct3 = 0 -> Wrap(rs1 + imm)
    [] funct3 = 2 -> IF Signed(rs1) < Signed(imm) THEN 1 ELSE 0
    [] funct3 = 3 -> IF rs1 < imm THEN 1 ELSE 0
    [] funct3 = 4 -> rs1 ^^ imm
    [] funct3 = 6 -> rs1 | imm
    [] funct3 = 7 -> rs1 & imm
    [] funct3 = 1 /\ funct7 = 0 -> Wrap(rs1 * 2^regnum_rs2)
    [] funct3 = 5 /\ funct7 = 0 -> rs1 \div 2^regnum_rs2
    [] funct3 = 5 /\ funct7 = 32 -> Sra(rs1, regnum_rs2)
    [] OTHER -> Illegal

\* The increment done in 32 bits: the carry out of the low half is lost
StepCountersNoCarry(c, ch) ==
  [lo |-> (c + 1) % 2^CounterBits, hi |-> ch]

\* RVCSR::step_counters: each 64-bit counter, split in halves, plus one
StepCounters(c, ch) ==
  LET next == (ch * 2^CounterBits + c + 1) % 2^(2 * CounterBits)
  IN [lo |-> next % 2^CounterBits, hi |-> next \div 2^CounterBits]

\* The end of RVCore::step: rd is written if the step produced a value and
\* rd is not x0; then the counters tick, whether or not the step trapped.
Retire(rd, res) ==
  /\ regs' = IF res # Illegal /\ rd # 0 THEN [regs EXCEPT ![rd] = res] ELSE regs
  /\ mcycle' = StepCounters(mcycle, mcycleh).lo
  /\ mcycleh' = StepCounters(mcycle, mcycleh).hi
  /\ minstret' = StepCounters(minstret, minstreth).lo
  /\ minstreth' = StepCounters(minstret, minstreth).hi

Init ==
  /\ regs = [r \in 1..NRegs |-> 0]
  /\ mcycle = 0 /\ mcycleh = 0 /\ minstret = 0 /\ minstreth = 0
  /\ last = [op |-> "none"]

\* funct7 values that select a row of the decode, and one that selects none
Funct7s == {0, 1, 32, 2}

Op ==
  \E funct7 \in Funct7s, funct3 \in 0..7, rd, rs1, rs2 \in RegNums :
    LET res == OpResult(funct7, funct3, Reg(rs1), Reg(rs2))
    IN /\ Retire(rd, res)
       /\ last' = [op |-> "op", funct7 |-> funct7, funct3 |-> funct3, rd |-> rd,
                   rs1 |-> rs1, src2 |-> rs2]

\* An immediate is any ux_t; a shift encodes funct7 and a shift amount
OpImm ==
  \E funct3 \in 0..7, rd, rs1 \in RegNums :
    \/ /\ funct3 \notin {1, 5}
       /\ \E imm \in Word :
            LET res == OpImmResult(funct3, 0, 0, imm, Reg(rs1))
            IN /\ Retire(rd, res)
               /\ last' = [op |-> "opimm", funct7 |-> 0, funct3 |-> funct3, rd |-> rd,
                           rs1 |-> rs1, src2 |-> imm]
    \/ /\ funct3 \in {1, 5}
       /\ \E funct7 \in Funct7s, shamt \in 0..(XLEN - 1) :
            LET res == OpImmResult(funct3, funct7, shamt, 0, Reg(rs1))
            IN /\ Retire(rd, res)
               /\ last' = [op |-> "opimm", funct7 |-> funct7, funct3 |-> funct3, rd |-> rd,
                           rs1 |-> rs1, src2 |-> shamt]

\* The counter CSRs a csrw may name, and their RVCSR fields
CounterCsrs == {"mcycle", "mcycleh", "minstret", "minstreth"}

(***************************************************************************)
(* csrw to a counter half in M-mode (RVCSR::write, the four counter cases: *)
(* the half takes the data), then the step ends with step_counters, which  *)
(* ticks the counter just written like any other.                          *)
(***************************************************************************)
CounterWrite ==
  \E csr \in CounterCsrs, data \in Half :
    LET w == [mcycle |-> mcycle, mcycleh |-> mcycleh,
              minstret |-> minstret, minstreth |-> minstreth]
        wr == [w EXCEPT ![csr] = data]
    IN /\ mcycle' = StepCounters(wr.mcycle, wr.mcycleh).lo
       /\ mcycleh' = StepCounters(wr.mcycle, wr.mcycleh).hi
       /\ minstret' = StepCounters(wr.minstret, wr.minstreth).lo
       /\ minstreth' = StepCounters(wr.minstret, wr.minstreth).hi
       /\ last' = [op |-> "csrw", csr |-> csr, data |-> data]
       /\ UNCHANGED regs

Next == Op \/ OpImm \/ CounterWrite

Spec == Init /\ [][Next]_vars

\* `last` records the step's operands for the properties; no action reads it
StateView == <<regs, mcycle, mcycleh, minstret, minstreth>>

-----------------------------------------------------------------------------
(***************************************************************************)
(* The reference: what the ISA manual's instruction descriptions and spec *)
(* 4.5 item 8 say, written bit by bit and over the integers, without the   *)
(* code's C-typed arithmetic.                                              *)
(***************************************************************************)
Bit(x, i) == (x \div 2^i) % 2
FromBits(f) == SumFunction([i \in DOMAIN f |-> f[i] * 2^i])

\* A word's bits, and their two's-complement value
Bits(x) == [i \in 0..(XLEN - 1) |-> Bit(x, i)]
SV(x) == x - Bit(x, XLEN - 1) * 2^XLEN
Mag(x) == IF x < 0 THEN -x ELSE x

\* shifts, bit by bit: SLL fills with zeros, SRL with zeros, SRA with the sign
IsaShift(kind, x, s) ==
  FromBits([i \in 0..(XLEN - 1) |->
    CASE kind = "sll" -> IF i >= s THEN Bit(x, i - s) ELSE 0
      [] kind = "srl" -> IF i + s < XLEN THEN Bit(x, i + s) ELSE 0
      [] kind = "sra" -> Bit(x, IF i + s < XLEN THEN i + s ELSE XLEN - 1)])

\* the quotient rounded toward zero: remainder smaller than the divisor and
\* of the dividend's sign
IsaQuot(x, y) ==
  CHOOSE q \in -(2^XLEN)..(2^XLEN) :
    LET r == x - q * y IN Mag(r) < Mag(y) /\ (r = 0 \/ (r > 0) = (x > 0))

\* spec 4.5 item 8, and the RV32I register-register instructions
IsaOp(funct7, funct3, a, b) ==
  LET M == 2^XLEN
      ovf == SV(a) = -(M \div 2) /\ SV(b) = -1
      sh == FromBits([i \in 0..(XLEN - 1) |-> IF 2^i < XLEN THEN Bit(b, i) ELSE 0])
  IN CASE <<funct7, funct3>> = <<0, 0>> -> (a + b) % M
       [] <<funct7, funct3>> = <<32, 0>> -> (a - b) % M
       [] <<funct7, funct3>> = <<0, 1>> -> IsaShift("sll", a, sh)
       [] <<funct7, funct3>> = <<0, 5>> -> IsaShift("srl", a, sh)
       [] <<funct7, funct3>> = <<32, 5>> -> IsaShift("sra", a, sh)
       [] <<funct7, funct3>> = <<0, 2>> -> IF SV(a) < SV(b) THEN 1 ELSE 0
       [] <<funct7, funct3>> = <<0, 3>> -> IF a < b THEN 1 ELSE 0
       [] <<funct7, funct3>> = <<0, 4>> -> FromBits([i \in 0..(XLEN - 1) |-> (Bits(a)[i] + Bits(b)[i]) % 2])
       [] <<funct7, funct3>> = <<0, 6>> -> FromBits([i \in 0..(XLEN - 1) |-> IF Bits(a)[i] + Bits(b)[i] > 0 THEN 1 ELSE 0])
       [] <<funct7, funct3>> = <<0, 7>> -> FromBits([i \in 0..(XLEN - 1) |-> Bits(a)[i] * Bits(b)[i]])
       [] <<funct7, funct3>> = <<1, 0>> -> (SV(a) * SV(b)) % M
       [] <<funct7, funct3>> = <<1, 1>> -> ((SV(a) * SV(b)) \div M) % M
       [] <<funct7, funct3>> = <<1, 2>> -> ((SV(a) * b) \div M) % M
       [] <<funct7, funct3>> = <<1, 3>> -> ((a * b) \div M) % M
       [] <<funct7, funct3>> = <<1, 4>> -> IF b = 0 THEN M - 1 ELSE IF ovf THEN a
                                           ELSE IsaQuot(SV(a), SV(b)) % M
       [] <<funct7, funct3>> = <<1, 5>> -> IF b = 0 THEN M - 1 ELSE a \div b
       [] <<funct7, funct3>> = <<1, 6>> -> IF b = 0 THEN a ELSE IF ovf THEN 0
                                           ELSE (SV(a) - SV(b) * IsaQuot(SV(a), SV(b))) % M
       [] <<funct7, funct3>> = <<1, 7>> -> IF b = 0 THEN a ELSE a % b
       [] OTHER -> Illegal

\* the register-immediate forms; shifts take funct7 and shamt from the
\* immediate, and only SRAI has funct7 = 0100000
IsaOpImm(funct7, funct3, a, imm) ==
  CASE funct3 \in {1, 5} -> IF funct7 = 0 \/ <<funct7, funct3>> = <<32, 5>>
                            THEN IsaOp(funct7, funct3, a, imm) ELSE Illegal
    [] OTHER -> IsaOp(0, funct3, a, imm)

\* the 2*CounterBits-bit value of a split counter
Count(lo, hi) == hi * 2^CounterBits + lo

\* OP and OP-IMM steps of RVCore::step (with RVCSR's M extension cases and
\* the commit of rd) give rd the value the ISA defines for the operands
\* read before the step -- including division by zero, INT_MIN / -1, the
\* MULH* typings and MULHU's overflowing product -- leave every other
\* register alone, and write nothing for an encoding the ISA leaves illegal.
AluMatchesIsa ==
  [][last'.op \in {"op", "opimm"} =>
       LET l == last'
           a == Reg(l.rs1)
           e == IF l.op = "op" THEN IsaOp(l.funct7, l.funct3, a, Reg(l.src2))
                ELSE IsaOpImm(l.funct7, l.funct3, a, l.src2)
       IN \A r \in 1..NRegs :
            regs'[r] = IF r = l.rd /\ e # Illegal THEN e ELSE regs[r]]_vars

\* Every step (RVCore::step ends with step_counters) advances mcycle and
\* minstret, read as 2*XLEN-bit counters, by exactly one, wrapping only
\* at the top; a csrw to one half first replaces that half.
CountersTick ==
  [][LET w == IF last'.op = "csrw"
              THEN [[mcycle |-> mcycle, mcycleh |-> mcycleh,
                     minstret |-> minstret, minstreth |-> minstreth]
                    EXCEPT ![last'.csr] = last'.data]
              ELSE [mcycle |-> mcycle, mcycleh |-> mcycleh,
                    minstret |-> minstret, minstreth |-> minstreth]
         N == 2^(2 * CounterBits)
     IN /\ Count(mcycle', mcycleh') = (Count(w.mcycle, w.mcycleh) + 1) % N
        /\ Count(minstret', minstreth') = (Count(w.minstret, w.minstreth) + 1) % N]_vars
====

