-------------------------------- MODULE MulDiv --------------------------------
(***************************************************************************)
(* The emulation of multiply and divide instructions on a processor that   *)
(* has none, as the one of this design: the exception handler computes the *)
(* result by shifting and adding or subtracting, one bit for each pass of  *)
(* a loop.  Registers hold Width bits, as unsigned numbers.                *)
(***************************************************************************)
EXTENDS Integers

CONSTANT Width    \* bits in a register (32)
ASSUME WidthAssumption == Width \in Nat \ {0}

(* What powers are; the provers know of ^ only what is said of it.         *)
ASSUME PowersAssumption ==
  \A n \in 0 .. Width - 1 : 2 ^ n \in Nat \ {0} /\ 2 ^ (n + 1) = 2 * 2 ^ n

W == 2 ^ Width
Register == 0 .. W - 1
MSB(x) == x \div (W \div 2)

Opcode == {"div", "divu", "mul", "mulxuu", "mulxsu", "mulxss"}

VARIABLES
  op,        \* the instruction, and
  rA, rB,    \* its operands; in the loop: dividend and quotient, divisor;
             \* multiplicand, multiplier
  r13,       \* remainder
  r9, r10,   \* low and high half of the product
  r11, r12,  \* the multiplier as it was, and shifted right
  r14,       \* passes still to make
  r17,       \* sign of the quotient
  operands,     \* the operands the instruction was executed with
  emulation  \* "idle", "loop" or "done"

muldivvars == <<op, rA, rB, r13, r9, r10, r11, r12, r14, r17, operands, emulation>>

Minus(x) == (W - x) % W

MulDivInit ==
  /\ op \in Opcode
  /\ rA \in Register /\ rB \in Register
  /\ operands = [a |-> rA, b |-> rB]
  /\ r13 = 0 /\ r9 = 0 /\ r10 = 0 /\ r11 = 0 /\ r12 = 0 /\ r14 = 0 /\ r17 = 0
  /\ emulation = "idle"

(* A signed division divides absolute values and remembers the sign.       *)
(* (Mutant: it remembers that of the dividend.)                            *)
StartDivideSignOfA ==
  /\ emulation = "idle" /\ op \in {"div", "divu"}
  /\ r17' = IF op = "div" THEN MSB(rA) ELSE 0
  /\ rA' = IF op = "div" /\ MSB(rA) = 1 THEN Minus(rA) ELSE rA
  /\ rB' = IF op = "div" /\ MSB(rB) = 1 THEN Minus(rB) ELSE rB
  /\ r13' = 0 /\ r14' = Width /\ emulation' = "loop"
  /\ UNCHANGED <<op, r9, r10, r11, r12, operands>>

StartDivide ==
  /\ emulation = "idle" /\ op \in {"div", "divu"}
  /\ r17' = IF op = "div" /\ MSB(rA) # MSB(rB) THEN 1 ELSE 0
  /\ rA' = IF op = "div" /\ MSB(rA) = 1 THEN Minus(rA) ELSE rA
  /\ rB' = IF op = "div" /\ MSB(rB) = 1 THEN Minus(rB) ELSE rB
  /\ r13' = 0 /\ r14' = Width /\ emulation' = "loop"
  /\ UNCHANGED <<op, r9, r10, r11, r12, operands>>

DivideLoop ==
  LET remainder == (2 * r13 + MSB(rA)) % W
      fits == remainder >= rB
  IN  /\ emulation = "loop" /\ op \in {"div", "divu"} /\ r14 > 0
      /\ r13' = IF fits THEN remainder - rB ELSE remainder
      /\ rA' = ((2 * rA) % W) + (IF fits THEN 1 ELSE 0)
      /\ r14' = r14 - 1
      /\ UNCHANGED <<op, rB, r9, r10, r11, r12, r17, operands, emulation>>

DivideEnd ==
  /\ emulation = "loop" /\ op \in {"div", "divu"} /\ r14 = 0
  /\ r9' = IF r17 = 1 THEN Minus(rA) ELSE rA
  /\ emulation' = "done"
  /\ UNCHANGED <<op, rA, rB, r13, r10, r11, r12, r14, r17, operands>>

StartMultiply ==
  /\ emulation = "idle" /\ op \notin {"div", "divu"}
  /\ r9' = 0 /\ r10' = 0
  /\ r11' = rB /\ r12' = rB
  /\ r14' = Width /\ emulation' = "loop"
  /\ UNCHANGED <<op, rA, rB, r13, r17, operands>>

(* Both halves of the product at once: the low one from the multiplier's   *)
(* top bit down, the high one from its bottom bit up, with the carry of    *)
(* the addition shifted in.  (Mutant: the carry is lost.)                  *)
MultiplyLoopNoCarry ==
  LET high == (r10 + (r12 % 2) * rA) % W
  IN  /\ emulation = "loop" /\ op \notin {"div", "divu"} /\ r14 > 0
      /\ r9' = (2 * r9 + MSB(rB) * rA) % W
      /\ r10' = high \div 2
      /\ rB' = (2 * rB) % W
      /\ r12' = r12 \div 2
      /\ r14' = r14 - 1
      /\ UNCHANGED <<op, rA, r13, r11, r17, operands, emulation>>

MultiplyLoop ==
  LET high == (r10 + (r12 % 2) * rA) % W
      carry == r12 % 2 = 1 /\ high < rA
  IN  /\ emulation = "loop" /\ op \notin {"div", "divu"} /\ r14 > 0
      /\ r9' = (2 * r9 + MSB(rB) * rA) % W
      /\ r10' = (high \div 2) + (IF carry THEN W \div 2 ELSE 0)
      /\ rB' = (2 * rB) % W
      /\ r12' = r12 \div 2
      /\ r14' = r14 - 1
      /\ UNCHANGED <<op, rA, r13, r11, r17, operands, emulation>>

(* mulxsu and mulxss take off what a negative operand has put in too much. *)
MultiplyEnd ==
  LET su == (r10 - MSB(rA) * r11) % W
      ss == (su - MSB(r11) * rA) % W
  IN  /\ emulation = "loop" /\ op \notin {"div", "divu"} /\ r14 = 0
      /\ r9' = CASE op = "mul"    -> r9
                 [] op = "mulxuu" -> r10
                 [] op = "mulxsu" -> su
                 [] op = "mulxss" -> ss
      /\ emulation' = "done"
      /\ UNCHANGED <<op, rA, rB, r13, r10, r11, r12, r14, r17, operands>>

MulDivNext ==
  \/ StartDivide \/ DivideLoop \/ DivideEnd
  \/ StartMultiply \/ MultiplyLoop \/ MultiplyEnd
-----------------------------------------------------------------------------
Signed(x) == IF MSB(x) = 1 THEN x - W ELSE x
Absolute(x) == IF x < 0 THEN -x ELSE x
Quotient(x, y) ==      \* rounded towards zero
  LET q == Absolute(x) \div Absolute(y) IN IF (x < 0) # (y < 0) THEN -q ELSE q

Exact ==
  LET a == operands.a  b == operands.b
  IN  CASE op = "divu"   -> a \div b
        [] op = "div"    -> Quotient(Signed(a), Signed(b))
        [] op = "mul"    -> a * b
        [] op = "mulxuu" -> (a * b) \div W
        [] op = "mulxsu" -> (Signed(a) * b) \div W
        [] op = "mulxss" -> (Signed(a) * Signed(b)) \div W

(* The emulated instruction stores what the instruction is defined to: for *)
(* every pair of operands, signed and unsigned, both halves of the product *)
(* and the quotient of the most negative number by -1 included             *)
(* (alt_exception_muldiv.S).  A division by zero has no defined result.    *)
EmulationIsExact ==
  emulation = "done" => (op \in {"div", "divu"} /\ operands.b = 0) \/ r9 = Exact % W

(* While it divides, quotient, divisor and remainder make up the bits of   *)
(* the dividend taken so far, and the remainder is below the divisor: its  *)
(* shift to the left loses no bit, although the register is no wider than  *)
(* the operands.                                                           *)
DivisionKeepsDividend ==
  emulation = "loop" /\ op = "divu" /\ operands.b # 0 =>
    LET passes == Width - r14
        quotient == rA % (2 ^ passes)
    IN  /\ r13 < operands.b
        /\ quotient * operands.b + r13 = operands.a \div (2 ^ r14)
=============================================================================
