-------------------------------- MODULE Alu ---------------------------------
(***************************************************************************)
(* Conditional execution, the data operations and the multiplications of   *)
(* core/execute.inc.c (32-bit variant) with the flag macros of             *)
(* core/execute.h, on words of W bits.                                     *)
(*                                                                         *)
(* Registers hold any words (loads bring them in), so an instruction takes *)
(* arbitrary operands; what is kept is the flags, the last result and, as  *)
(* history, what the architecture defines them to be.  Destination r15 is  *)
(* in Processor.                                                           *)
(***************************************************************************)
EXTENDS Shifter, FiniteSetsExt

CONSTANTS Opcodes,    \* data operations the guest executes
          ImmOpcodes, \* those it executes with an immediate operand
          LongSigned, \* kinds of long multiplication it executes
          Operands,   \* first operands and accumulators
          Conds       \* conditions the guest uses

Ops == {"AND", "EOR", "SUB", "RSB", "ADD", "ADC", "SBC", "RSC", "TST", "TEQ",
        "CMP", "CMN", "ORR", "MOV", "BIC", "MVN"}

ASSUME OpcodesAssumption == Opcodes \subseteq Ops /\ ImmOpcodes \subseteq Ops
ASSUME LongAssumption == LongSigned \subseteq BOOLEAN

ASSUME OperandsAssumption == Operands \subseteq Word

VARIABLES cpsr,      \* the condition flags
          result,    \* the last register written, or two for a long product
          ref,       \* history: flags and result by the architecture's definition
          last       \* history: the last flag-setting operation

vars == <<cpsr, result, ref, last>>

Flags == [n : Bit, z : Bit, c : Bit, v : Bit]

-----------------------------------------------------------------------------
(* exec_condition *)

\* Mutant: the rows of GE and LT are exchanged.
cctable_exchanged ==
    [EQ |-> (4..7) \cup (12..15), NE |-> (0..3) \cup (8..11),
     CS |-> {2, 3, 6, 7, 10, 11, 14, 15}, CC |-> {0, 1, 4, 5, 8, 9, 12, 13},
     MI |-> 8..15, PL |-> 0..7,
     VS |-> {1, 3, 5, 7, 9, 11, 13, 15}, VC |-> {0, 2, 4, 6, 8, 10, 12, 14},
     HI |-> {2, 3, 10, 11}, LS |-> {0, 1, 4, 5, 6, 7, 8, 9, 12, 13, 14, 15},
     GE |-> {1, 3, 5, 7, 8, 10, 12, 14}, LT |-> {0, 2, 4, 6, 9, 11, 13, 15},
     GT |-> {0, 2, 13, 15}, LE |-> {1, 12, 14} \cup (3..11),
     AL |-> 0..15, NV |-> {}]

\* cctable: the values of nzcv for which each condition holds.
cctable == [EQ |-> (4..7) \cup (12..15),             \* 0xf0f0
            NE |-> (0..3) \cup (8..11),              \* 0x0f0f
            CS |-> {2, 3, 6, 7, 10, 11, 14, 15},     \* 0xcccc
            CC |-> {0, 1, 4, 5, 8, 9, 12, 13},       \* 0x3333
            MI |-> 8..15,                            \* 0xff00
            PL |-> 0..7,                             \* 0x00ff
            VS |-> {1, 3, 5, 7, 9, 11, 13, 15},      \* 0xaaaa
            VC |-> {0, 2, 4, 6, 8, 10, 12, 14},      \* 0x5555
            HI |-> {2, 3, 10, 11},                   \* 0x0c0c
            LS |-> {0, 1, 4, 5, 6, 7, 8, 9, 12, 13, 14, 15}, \* 0xf3f3
            GE |-> {0, 2, 4, 6, 9, 11, 13, 15},      \* 0xaa55
            LT |-> {1, 3, 5, 7, 8, 10, 12, 14},      \* 0x55aa
            GT |-> {0, 2, 13, 15},                   \* 0xa005
            LE |-> {1, 12, 14} \cup (3..11),         \* 0x5ffa
            AL |-> 0..15,                            \* 0xffff
            NV |-> {}]                               \* 0x0000

exec_condition(cond) ==
    8 * cpsr.n + 4 * cpsr.z + 2 * cpsr.c + cpsr.v \in cctable[cond]

-----------------------------------------------------------------------------
(* The data operations *)

PerBit(f(_, _), x, y) ==
    MapThenSumSet(LAMBDA i : 2^i * f(BitAt(x, i), BitAt(y, i)), 0 .. W - 1)

\* Bits of the mask 0xf303: operations whose carry comes from the shifter.
logic == {"AND", "EOR", "TST", "TEQ", "ORR", "MOV", "BIC", "MVN"}

LogicResult(op, a, b) ==
    CASE op \in {"AND", "TST"} -> PerBit(LAMBDA p, q : p * q, a, b)
      [] op \in {"EOR", "TEQ"} -> PerBit(LAMBDA p, q : (p + q) % 2, a, b)
      [] op = "ORR" -> PerBit(LAMBDA p, q : p + q - p * q, a, b)
      [] op = "MOV" -> b
      [] op = "BIC" -> PerBit(LAMBDA p, q : p * (1 - q), a, b)
      [] op = "MVN" -> 2 * Half - 1 - b

\* The two operands of an arithmetic operation in the order it uses them.
First(op, a, b) == IF op \in {"RSB", "RSC"} THEN b ELSE a
Second(op, a, b) == IF op \in {"RSB", "RSC"} THEN a ELSE b

Adds == {"ADD", "ADC", "CMN"}

\* The carry an operation takes in; plain subtractions borrow nothing.
CarryIn(op, c) == CASE op \in {"ADC", "SBC", "RSC"} -> c
                    [] op \in {"ADD", "CMN"} -> 0
                    [] OTHER -> 1

ArithResult(op, a, b, cin) ==
    IF op \in Adds THEN (a + b + cin) % (2 * Half)
    ELSE (First(op, a, b) - Second(op, a, b) - (1 - cin)) % (2 * Half)

ADDFLAGS(a, b, rd) ==
    [v |-> B((Neg(a) /\ Neg(b) /\ ~Neg(rd)) \/ (~Neg(a) /\ ~Neg(b) /\ Neg(rd))),
     c |-> B((Neg(a) /\ Neg(b)) \/ (Neg(a) /\ ~Neg(rd)) \/ (Neg(b) /\ ~Neg(rd)))]

\* Mutant: one of the three terms of the carry is missing.
SUBFLAGS_short(a, b, rd) ==
    [v |-> B((Neg(a) /\ ~Neg(b) /\ ~Neg(rd)) \/ (~Neg(a) /\ Neg(b) /\ Neg(rd))),
     c |-> B((Neg(a) /\ ~Neg(b)) \/ (Neg(a) /\ ~Neg(rd)))]

SUBFLAGS(a, b, rd) ==
    [v |-> B((Neg(a) /\ ~Neg(b) /\ ~Neg(rd)) \/ (~Neg(a) /\ Neg(b) /\ Neg(rd))),
     c |-> B((Neg(a) /\ ~Neg(b)) \/ (Neg(a) /\ ~Neg(rd)) \/ (~Neg(b) /\ ~Neg(rd)))]

ArithFlags(op, a, b, rd) ==
    IF op \in Adds THEN ADDFLAGS(a, b, rd)
    ELSE SUBFLAGS(First(op, a, b), Second(op, a, b), rd)

\* Mutant: n is taken one bit too low.
ZNFLAGS_low(rd, c, v) == [n |-> rd \div (Half \div 2), z |-> B(rd = 0), c |-> c, v |-> v]

\* ZNFLAGS and the operation's own c and v.
ZNFLAGS(rd, c, v) == [n |-> B(Neg(rd)), z |-> B(rd = 0), c |-> c, v |-> v]

-----------------------------------------------------------------------------
(* What the architecture defines *)

Signed(x) == IF Neg(x) THEN x - 2 * Half ELSE x

\* The exact value of an operation on x and y.
Total(op, x, y, cin) == IF op \in Adds THEN x + y + cin ELSE x - y - (1 - cin)

RefArith(op, x, y, cin) ==
    LET exact == Total(op, x, y, cin)
        value == Total(op, Signed(x), Signed(y), cin)
        rd    == exact % (2 * Half)
    IN  [n |-> B(Neg(rd)), z |-> B(rd = 0),
         c |-> B(IF op \in Adds THEN exact >= 2 * Half ELSE exact >= 0),
         v |-> B(value < -Half \/ value >= Half),
         result |-> rd]

-----------------------------------------------------------------------------
(* Instructions *)

Tests == {"TST", "TEQ", "CMP", "CMN"}

NoLast == [kind |-> "none"]

FlagsOf(f) == [n |-> f.n, z |-> f.z, c |-> f.c, v |-> f.v]

\* The part the register and the immediate forms share: a and b are the
\* operands, c the carry after the shifter; rc is the architecture's carry
\* before an arithmetic operation, or after the shifter of a logical one.
DataOp(op, s, a, b, c, rc, note) ==
    LET rd == IF op \in logic THEN LogicResult(op, a, b)
              ELSE ArithResult(op, a, b, CarryIn(op, c))
        cv == IF op \in logic THEN [c |-> c, v |-> cpsr.v] ELSE ArithFlags(op, a, b, rd)
        rf == IF op \in logic
              THEN [n |-> B(Neg(rd)), z |-> B(rd = 0), c |-> rc, v |-> ref.v, result |-> rd]
              ELSE RefArith(op, First(op, a, b), Second(op, a, b), CarryIn(op, rc))
    IN  /\ op \in Tests => s          \* without S these are MRS and MSR
        /\ rd \in Word /\ b \in Word /\ c \in Bit /\ rc \in Bit
        /\ cpsr' = IF s THEN ZNFLAGS(rd, cv.c, cv.v) ELSE cpsr
        /\ result' = IF op \in Tests THEN result ELSE rd
        /\ ref' = LET flags == IF s THEN rf ELSE ref
                  IN  [n |-> flags.n, z |-> flags.z, c |-> flags.c, v |-> flags.v,
                       result |-> IF op \in Tests THEN ref.result ELSE rf.result]
        /\ last' = IF s THEN note ELSE last

\* What the guest can conclude from the flags after op.
Note(op, a, b) == IF op \in {"SUB", "RSB", "CMP"}
                  THEN [kind |-> "sub", a |-> First(op, a, b), b |-> Second(op, a, b)]
                  ELSE NoLast

\* exec_dp: the shifter's carry reaches the flags for logical operations only.
exec_dp(cond, op, s, a, rm, sh) ==
    LET out  == Shifter(rm, sh, cpsr.c)
        arch == Shifter(rm, sh, ref.c)
    IN  /\ exec_condition(cond)
        /\ DataOp(op, s, a, out.op2,
                  IF op \in logic /\ s THEN out.c ELSE cpsr.c,
                  IF op \in logic /\ s THEN arch.c ELSE ref.c, Note(op, a, out.op2))

\* exec_dp_imm: a rotated immediate puts its top bit into the carry flag when
\* S is set, whatever the operation, before the operation reads it.
exec_dp_imm(cond, op, s, a, op2, rotated) ==
    /\ exec_condition(cond)
    /\ DataOp(op, s, a, op2,
              IF s /\ rotated THEN B(Neg(op2)) ELSE cpsr.c,
              IF op \in logic /\ s /\ rotated THEN B(Neg(op2)) ELSE ref.c,
              Note(op, a, op2))

\* exec_mul: MUL and MLA.
exec_mul(cond, s, x, y, acc) ==
    LET rd == (x * y + acc) % (2 * Half)
    IN  /\ exec_condition(cond)
        /\ result' = rd
        /\ cpsr' = IF s THEN ZNFLAGS(rd, cpsr.c, cpsr.v) ELSE cpsr
        /\ ref' = IF s THEN [ref EXCEPT !.n = B(Neg(rd)), !.z = B(rd = 0), !.result = rd]
                  ELSE [ref EXCEPT !.result = rd]
        /\ last' = IF s THEN NoLast ELSE last

DoubleSize == 4 * Half * Half

\* exec_mull: UMULL, UMLAL, SMULL, SMLAL.  Both casts widen an unsigned word,
\* (sint6)op1 too.
exec_mull(cond, signed, s, x, y, acc) ==
    LET rd   == (x * y + acc) % DoubleSize
        arch == IF signed THEN (Signed(x) * Signed(y) + acc) % DoubleSize ELSE rd
        top(p) == B(p >= 2 * Half * Half)
    IN  /\ exec_condition(cond)
        /\ result' = rd
        /\ cpsr' = IF s THEN [n |-> top(rd), z |-> B(rd = 0), c |-> cpsr.c, v |-> cpsr.v]
                   ELSE cpsr
        /\ ref' = IF s THEN [ref EXCEPT !.n = top(arch), !.z = B(arch = 0), !.result = arch]
                  ELSE [ref EXCEPT !.result = arch]
        /\ last' = IF s THEN NoLast ELSE last

\* Failing its condition, an instruction only advances r15.
Skipped == \E cond \in Conds : ~exec_condition(cond) /\ UNCHANGED vars

Init == /\ cpsr = [n |-> 0, z |-> 0, c |-> 0, v |-> 0]
        /\ result = 0
        /\ ref = [n |-> 0, z |-> 0, c |-> 0, v |-> 0, result |-> 0]
        /\ last = NoLast

Next == \E cond \in Conds, s \in BOOLEAN, a \in Operands, x \in Word :
          \/ \E op \in Opcodes, sh \in Shifts : exec_dp(cond, op, s, a, x, sh)
          \/ \E op \in ImmOpcodes, rotated \in BOOLEAN :
                exec_dp_imm(cond, op, s, a, x, rotated)
          \/ \E acc \in Operands : exec_mul(cond, s, a, x, acc)
          \/ \E signed \in LongSigned, acc \in {0, DoubleSize - 1} :
                exec_mull(cond, signed, s, a, x, acc)
          \/ Skipped

Spec == Init /\ [][Next]_vars

-----------------------------------------------------------------------------
(* Properties *)

\* Type invariant of the flags and the result.
TypeOK == /\ cpsr \in Flags
          /\ result \in 0 .. DoubleSize - 1

\* Along any program the flags and results are the architecture's: carry and
\* overflow derived from the top bits of operands and result alone (the
\* macros ADDFLAGS and SUBFLAGS) are the exact carry and signed overflow, and
\* carries chain through ADC, SBC and RSC as multi-word arithmetic needs.
FlagsExact == cpsr = FlagsOf(ref) /\ result = ref.result

\* A comparison decides conditional execution as the names say: whatever runs
\* between the comparison and the conditional instruction without setting
\* flags, cctable admits it exactly when the operands compare that way.
ComparisonDecides ==
    last.kind = "sub" =>
      /\ exec_condition("EQ") <=> last.a = last.b
      /\ exec_condition("NE") <=> last.a # last.b
      /\ exec_condition("CS") <=> last.a >= last.b
      /\ exec_condition("CC") <=> last.a < last.b
      /\ exec_condition("HI") <=> last.a > last.b
      /\ exec_condition("LS") <=> last.a <= last.b
      /\ exec_condition("GE") <=> Signed(last.a) >= Signed(last.b)
      /\ exec_condition("LT") <=> Signed(last.a) < Signed(last.b)
=============================================================================
