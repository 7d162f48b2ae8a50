------------------------------ MODULE Shifter -------------------------------
(***************************************************************************)
(* Words and the shifter of exec_dp (core/execute.inc.c, 32-bit variant):  *)
(* the second operand of a data operation and the carry the shift leaves,  *)
(* on words of W bits.                                                     *)
(***************************************************************************)
EXTENDS Integers

CONSTANTS W,          \* bits of a word (32 in the code)
          Half,       \* 2^(W-1): the words with TOPBIT set start here
          Shifts      \* shifted operands: [type, byreg, amount]

ASSUME HalfAssumption == Half \in Nat /\ Half > 0
ASSUME WidthAssumption == W \in Nat /\ W > 0 /\ Half = 2^(W - 1)
\* A law of exponents, which the provers do not know.
ASSUME PowerAssumption == \A k \in 0 .. W - 1 : 2^(k + 1) = 2 * 2^k

Word == 0 .. 2 * Half - 1
Bit == {0, 1}
ShiftTypes == {"LSL", "LSR", "ASR", "ROR"}

ASSUME ShiftsAssumption ==
    /\ Shifts \subseteq [type : ShiftTypes, byreg : BOOLEAN, amount : Nat]
    /\ \A sh \in Shifts : sh.byreg \/ sh.amount < W

B(p) == IF p THEN 1 ELSE 0

\* x & TOPBIT
Neg(x) == x >= Half

BitAt(x, i) == (x \div 2^i) % 2

ShiftLeft(x, k) == (x * 2^k) % (2 * Half)
ShiftRight(x, k) == x \div 2^k
Sign(x) == IF Neg(x) THEN 2 * Half - 1 ELSE 0
\* Mutant: the cast to a signed word is missing.
ShiftArith_unsigned(x, k) == ShiftRight(x, k)

ShiftArith(x, k) == (ShiftRight(x, k) + Sign(x) * 2^(W - k)) % (2 * Half)
ROR(x, k) == (ShiftRight(x, k) + ShiftLeft(x, W - k)) % (2 * Half)

\* Operand and carry for a shift by a register.  The carry is computed from
\* the amount for every shift; only a rotate sets it when the amount is zero.
RegShift(x, type, amount, c) ==
    LET k == amount % W
    IN  CASE type = "LSL" ->
               [op2 |-> IF amount > W - 1 THEN 0 ELSE ShiftLeft(x, amount),
                c   |-> IF amount = 0 THEN c
                        ELSE IF amount > W - 1 THEN 0 ELSE BitAt(x, W - amount)]
          [] type = "LSR" ->
               [op2 |-> IF amount > W - 1 THEN 0 ELSE ShiftRight(x, amount),
                c   |-> IF amount = 0 THEN c
                        ELSE IF amount > W THEN 0 ELSE BitAt(x, amount - 1)]
          [] type = "ASR" ->
               [op2 |-> IF amount > W - 1 THEN Sign(x) ELSE ShiftArith(x, amount),
                c   |-> IF amount = 0 THEN c
                        ELSE IF amount > W THEN B(Neg(x)) ELSE BitAt(x, amount - 1)]
          [] type = "ROR" ->
               [op2 |-> ROR(x, k),
                c   |-> IF k = 0 THEN BitAt(x, W - 1) ELSE BitAt(x, k - 1)]

\* By an immediate amount in 0..W-1: zero means W for the right shifts and
\* rotate through carry for ROR.
ImmShift(x, type, amount, c) ==
    LET k == IF amount = 0 THEN W ELSE amount
    IN  CASE type = "LSL" ->
               [op2 |-> ShiftLeft(x, amount),
                c   |-> IF amount = 0 THEN c ELSE BitAt(x, W - amount)]
          [] type = "LSR" ->
               [op2 |-> IF amount = 0 THEN 0 ELSE ShiftRight(x, amount),
                c   |-> BitAt(x, k - 1)]
          [] type = "ASR" ->
               [op2 |-> IF amount = 0 THEN Sign(x) ELSE ShiftArith(x, amount),
                c   |-> BitAt(x, k - 1)]
          [] type = "ROR" ->
               IF amount = 0 THEN [op2 |-> ShiftRight(x, 1) + c * Half, c |-> x % 2]
               ELSE [op2 |-> ROR(x, amount), c |-> BitAt(x, amount - 1)]

Shifter(x, sh, c) == IF sh.byreg THEN RegShift(x, sh.type, sh.amount, c)
                     ELSE ImmShift(x, sh.type, sh.amount, c)
=============================================================================
