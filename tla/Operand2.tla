------------------------------ MODULE Operand2 ------------------------------
(***************************************************************************)
(* The second operand of a data operation, as exec_dp and exec_dp_imm      *)
(* (core/execute.inc.c) compute it before they look at the operation, for  *)
(* a flag-setting logical operation.  A shifted register is a word of W    *)
(* bits (module Shifter).  A rotated immediate is a real 32-bit word, the  *)
(* set of its one bits: its 12-bit field holds an 8-bit value and a 4-bit  *)
(* rotation, and the code takes the carry from the field and not from the  *)
(* rotated operand, at a bit number where the rotation itself may be.      *)
(***************************************************************************)
EXTENDS Shifter

CONSTANT Fields     \* immediate operand fields

ASSUME FieldsAssumption == Fields \subseteq 0 .. 4095

VARIABLES insn,      \* the operand to compute, and the carry flag before
          out        \* operand and carry flag, once computed

ovars == <<insn, out>>

NoOut == [done |-> FALSE]

\* The one bits of an n-bit number.
Bits(x, n) == {i \in 0 .. n - 1 : (x \div 2^i) % 2 = 1}

\* The rotation of an immediate: twice the upper four bits of its field.
Amount(field) == (field \div 256) * 2

\* The macro ROR: two shifts of a 32-bit word and an or.  For a rotation by
\* zero the left shift by 32 leaves the word or gives zero; the or hides which.
RotateBits(X, k) == {i - k : i \in {j \in X : j >= k}} \cup {i + 32 - k : i \in {j \in X : j < k}}

\* Mutant: the carry is taken one bit too high.
ImmCarry_high(field, c) ==
    IF Amount(field) # 0 THEN B(Amount(field) \in Bits(field, 12)) ELSE c

\* The carry flag after the operand of an immediate.
ImmCarry(field, c) ==
    IF Amount(field) # 0 THEN B(Amount(field) - 1 \in Bits(field, 12)) ELSE c

OInit == /\ insn \in [kind : {"reg"}, x : Word, sh : Shifts, c : Bit]
                     \cup [kind : {"imm"}, field : Fields, c : Bit]
         /\ out = NoOut

RegOperand ==
    /\ insn.kind = "reg" /\ ~out.done
    /\ LET s == Shifter(insn.x, insn.sh, insn.c)
       IN  out' = [done |-> TRUE, op2 |-> s.op2, c |-> s.c]
    /\ UNCHANGED insn

ImmOperand ==
    /\ insn.kind = "imm" /\ ~out.done
    /\ out' = [done |-> TRUE,
               op2  |-> RotateBits(Bits(insn.field % 256, 8), Amount(insn.field)),
               c    |-> ImmCarry(insn.field, insn.c)]
    /\ UNCHANGED insn

ONext == RegOperand \/ ImmOperand

OSpec == OInit /\ [][ONext]_ovars

-----------------------------------------------------------------------------
(* The same operands one bit at a time *)

Step(type, s) ==
    CASE type = "LSL" -> [x |-> (2 * s.x) % (2 * Half), c |-> B(Neg(s.x))]
      [] type = "LSR" -> [x |-> s.x \div 2, c |-> s.x % 2]
      [] type = "ASR" -> [x |-> s.x \div 2 + B(Neg(s.x)) * Half, c |-> s.x % 2]
      [] type = "ROR" -> [x |-> s.x \div 2 + (s.x % 2) * Half, c |-> s.x % 2]
      [] type = "RRX" -> [x |-> s.x \div 2 + s.c * Half, c |-> s.x % 2]
      [] type = "IMM" -> [x |-> {(i + 31) % 32 : i \in s.x}, c |-> B(0 \in s.x)]

\* Operand and carry s after count steps.
Serial(type, s, count) ==
    LET after[k \in 0 .. count] == IF k = 0 THEN s ELSE Step(type, after[k - 1])
    IN  after[count]

\* The steps an encoding stands for.
SerialType(sh) == IF sh.type = "ROR" /\ ~sh.byreg /\ sh.amount = 0 THEN "RRX" ELSE sh.type
SerialCount(sh) == IF sh.byreg \/ sh.amount # 0 \/ sh.type = "LSL" THEN sh.amount
                   ELSE IF sh.type = "ROR" THEN 1 ELSE W

\* The closed forms of the shifter, boundary amounts included, give the
\* operand and the carry that a shift of one bit at a time gives.  In two
\* register shifts the code takes another carry than a bit-serial shifter: LSL
\* by exactly W and ROR by zero.
ShifterExact ==
    (insn.kind = "reg" /\ out.done) =>
      LET exact == Serial(SerialType(insn.sh), [x |-> insn.x, c |-> insn.c], SerialCount(insn.sh))
      IN  /\ out.op2 = exact.x
          /\ \/ out.c = exact.c
             \/ insn.sh.byreg /\ <<insn.sh.type, insn.sh.amount>> \in {<<"LSL", W>>, <<"ROR", 0>>}

\* The operand of an immediate is its value rotated one bit at a time and the
\* carry is the last bit rotated out (the old one when nothing is rotated),
\* although the code tests a bit of the whole field, rotation bits included,
\* at positions up to 29.
ImmediateExact ==
    (insn.kind = "imm" /\ out.done) =>
      LET value == Bits(insn.field % 256, 8)
          exact == Serial("IMM", [x |-> value, c |-> insn.c], Amount(insn.field))
      IN  out.op2 = exact.x /\ out.c = exact.c
=============================================================================
