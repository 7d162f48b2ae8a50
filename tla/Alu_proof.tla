----------------------------- MODULE Alu_proof ------------------------------
(***************************************************************************)
(* The data operations on words of every width: the flag macros compute    *)
(* the exact carry and overflow, comparisons decide the conditions, and    *)
(* the closed forms of the shifter are a shift by one bit at a time.       *)
(***************************************************************************)
EXTENDS Alu, Operand2, WellFoundedInduction, TLAPS

Size == 2 * Half

\* Remainders of the sums and differences of two words.
LEMMA WrapNone == ASSUME NEW M \in Nat \ {0}, NEW x \in 0 .. M - 1 PROVE x % M = x
OBVIOUS

LEMMA WrapDown ==
    ASSUME NEW M \in Nat \ {0}, NEW x \in M .. 2 * M - 1 PROVE x % M = x - M
OBVIOUS

LEMMA WrapUp == ASSUME NEW M \in Nat \ {0}, NEW x \in -M .. -1 PROVE x % M = x + M
OBVIOUS

LEMMA SizeFacts == Size \in Nat \ {0} /\ Half \in Nat \ {0} /\ Word = 0 .. Size - 1
BY HalfAssumption DEF Size, Word

\* What an addition, and a subtraction, must answer: the word, its carry and
\* its overflow.
SumFlagged(a, b, cin, rd) ==
    /\ rd \in Word
    /\ ADDFLAGS(a, b, rd).c = B(a + b + cin >= Size)
    /\ ADDFLAGS(a, b, rd).v = B(Signed(a) + Signed(b) + cin < -Half
                                \/ Signed(a) + Signed(b) + cin >= Half)

DifferenceFlagged(a, b, cin, rd) ==
    /\ rd \in Word
    /\ SUBFLAGS(a, b, rd).c = B(a - b - (1 - cin) >= 0)
    /\ SUBFLAGS(a, b, rd).v = B(Signed(a) - Signed(b) - (1 - cin) < -Half
                                \/ Signed(a) - Signed(b) - (1 - cin) >= Half)

\* ADDFLAGS, from top bits alone, finds the carry out and the signed overflow
\* of an addition with carry in.
LEMMA AddExact ==
    ASSUME NEW a \in Word, NEW b \in Word, NEW cin \in Bit, NEW rd,
           rd = (a + b + cin) % Size
    PROVE  SumFlagged(a, b, cin, rd)
<1> DEFINE t == a + b + cin
<1>1. Half \in Nat /\ Half > 0 /\ Size = 2 * Half /\ a \in 0 .. Size - 1
      /\ b \in 0 .. Size - 1 /\ cin \in 0..1
  BY SizeFacts DEF Bit, Size
<1>2. t \in Int /\ t >= 0 /\ t <= 2 * Size - 1
  BY <1>1
<1>3. rd = IF t < Size THEN t ELSE t - Size
  <2>1. rd = t % Size /\ t \in Int /\ Size \in Nat \ {0}
    BY <1>1, <1>2
  <2>2. t \in 0 .. Size - 1 \/ t \in Size .. 2 * Size - 1
    BY <1>1, <1>2
  <2> HIDE DEF t
  <2>3. CASE t \in 0 .. Size - 1
    BY <2>1, <2>3, WrapNone
  <2>4. CASE t \in Size .. 2 * Size - 1
    <3>1. t % Size = t - Size
      BY <2>1, <2>4, WrapDown
    <3>2. ~(t < Size)
      BY <2>1, <2>4
    <3> QED
      BY <2>1, <3>1, <3>2
  <2> QED
    BY <2>2, <2>3, <2>4
<1>4. rd \in Int /\ rd >= 0 /\ rd < Size
  BY <1>1, <1>2, <1>3
<1>5. ADDFLAGS(a, b, rd).c = B(t >= Size)
  BY <1>1, <1>3, <1>4 DEF ADDFLAGS, B, Neg
<1>6. ADDFLAGS(a, b, rd).v = B(Signed(a) + Signed(b) + cin < -Half
                               \/ Signed(a) + Signed(b) + cin >= Half)
  BY <1>1, <1>3, <1>4 DEF ADDFLAGS, B, Neg, Signed
<1> QED
  BY <1>4, <1>5, <1>6, SizeFacts DEF SumFlagged

\* SUBFLAGS, likewise, finds that nothing was borrowed and the overflow.
LEMMA SubExact ==
    ASSUME NEW a \in Word, NEW b \in Word, NEW cin \in Bit, NEW rd,
           rd = (a - b - (1 - cin)) % Size
    PROVE  DifferenceFlagged(a, b, cin, rd)
<1> DEFINE t == a - b - (1 - cin)
<1>1. Half \in Nat /\ Half > 0 /\ Size = 2 * Half /\ a \in 0 .. Size - 1
      /\ b \in 0 .. Size - 1 /\ cin \in 0..1
  BY SizeFacts DEF Bit, Size
<1>2. t \in Int /\ t >= -Size /\ t <= Size - 1
  BY <1>1
<1>3. rd = IF t < 0 THEN t + Size ELSE t
  <2>1. rd = t % Size /\ t \in Int /\ Size \in Nat \ {0}
    BY <1>1, <1>2
  <2>2. t \in 0 .. Size - 1 \/ t \in -Size .. -1
    BY <1>1, <1>2
  <2> HIDE DEF t
  <2>3. CASE t \in 0 .. Size - 1
    BY <2>1, <2>3, WrapNone
  <2>4. CASE t \in -Size .. -1
    <3>1. t % Size = t + Size
      BY <2>1, <2>4, WrapUp
    <3>2. t < 0
      BY <2>1, <2>4
    <3> QED
      BY <2>1, <3>1, <3>2
  <2> QED
    BY <2>2, <2>3, <2>4
<1>4. rd \in Int /\ rd >= 0 /\ rd < Size
  BY <1>1, <1>2, <1>3
<1>5. SUBFLAGS(a, b, rd).c = B(t >= 0)
  BY <1>1, <1>3, <1>4 DEF SUBFLAGS, B, Neg
<1>6. SUBFLAGS(a, b, rd).v = B(Signed(a) - Signed(b) - (1 - cin) < -Half
                               \/ Signed(a) - Signed(b) - (1 - cin) >= Half)
  BY <1>1, <1>3, <1>4 DEF SUBFLAGS, B, Neg, Signed
<1> QED
  BY <1>4, <1>5, <1>6, SizeFacts DEF DifferenceFlagged

\* The flags a result gives are those of the reference it agrees with.
LEMMA FlagsAgree ==
    ASSUME NEW rd, NEW cv, NEW rf, rf.c = cv.c, rf.v = cv.v,
           rf.n = B(Neg(rd)), rf.z = B(rd = 0)
    PROVE  ZNFLAGS(rd, cv.c, cv.v) = FlagsOf(rf)
  BY DEF ZNFLAGS, FlagsOf

\* Every arithmetic operation computes what the architecture defines.
LEMMA ArithExact ==
    ASSUME NEW op \in Ops \ logic, NEW a \in Word, NEW b \in Word, NEW cin \in Bit
    PROVE  LET rd == ArithResult(op, a, b, cin)
               cv == ArithFlags(op, a, b, rd)
               rf == RefArith(op, First(op, a, b), Second(op, a, b), cin)
           IN  /\ rd \in Word
               /\ rd = rf.result
               /\ ZNFLAGS(rd, cv.c, cv.v) = FlagsOf(rf)
<1> DEFINE x  == First(op, a, b)
           y  == Second(op, a, b)
           rd == ArithResult(op, a, b, cin)
           rf == RefArith(op, x, y, cin)
<1>1. x \in Word /\ y \in Word
  BY DEF First, Second
<1>2. CASE op \in Adds
  <2>1. x = a /\ y = b
    BY <1>2 DEF First, Second, Adds
  <2>2. rd = (a + b + cin) % Size
    BY <1>2 DEF ArithResult, Size
  <2>3. ArithFlags(op, a, b, rd) = ADDFLAGS(a, b, rd)
    BY <1>2 DEF ArithFlags
  <2>4. /\ rf.result = rd
        /\ rf.c = B(a + b + cin >= Size)
        /\ rf.v = B(Signed(a) + Signed(b) + cin < -Half \/ Signed(a) + Signed(b) + cin >= Half)
        /\ rf.n = B(Neg(rd)) /\ rf.z = B(rd = 0)
    BY <1>2, <2>1, <2>2 DEF RefArith, Total, Size
  <2> HIDE DEF x, y, rd, rf
  <2>5. /\ rd \in Word
        /\ ADDFLAGS(a, b, rd).c = rf.c
        /\ ADDFLAGS(a, b, rd).v = rf.v
    <3>1. SumFlagged(a, b, cin, rd)
      BY <2>2, AddExact
    <3> QED
      BY <2>4, <3>1 DEF SumFlagged
  <2> DEFINE cv == ArithFlags(op, a, b, rd)
  <2>6. cv.c = rf.c /\ cv.v = rf.v
    BY <2>3, <2>5
  <2> HIDE DEF cv
  <2>7. ZNFLAGS(rd, cv.c, cv.v) = FlagsOf(rf)
    BY <2>4, <2>6, FlagsAgree
  <2> QED
    BY <2>4, <2>5, <2>7 DEF x, y, rd, rf, cv
<1>3. CASE op \notin Adds
  <2>1. rd = (x - y - (1 - cin)) % Size
    BY <1>3 DEF ArithResult, Size
  <2>2. ArithFlags(op, a, b, rd) = SUBFLAGS(x, y, rd)
    BY <1>3 DEF ArithFlags
  <2>3. /\ rf.result = rd
        /\ rf.c = B(x - y - (1 - cin) >= 0)
        /\ rf.v = B(Signed(x) - Signed(y) - (1 - cin) < -Half
                    \/ Signed(x) - Signed(y) - (1 - cin) >= Half)
        /\ rf.n = B(Neg(rd)) /\ rf.z = B(rd = 0)
    BY <1>3, <2>1 DEF RefArith, Total, Size
  <2> HIDE DEF x, y, rd, rf
  <2>4. /\ rd \in Word
        /\ SUBFLAGS(x, y, rd).c = rf.c
        /\ SUBFLAGS(x, y, rd).v = rf.v
    <3>1. x \in Word /\ y \in Word /\ rd = (x - y - (1 - cin)) % Size
      BY <1>1, <2>1
    <3>2. DifferenceFlagged(x, y, cin, rd)
      BY <3>1, SubExact
    <3> QED
      BY <2>3, <3>2 DEF DifferenceFlagged
  <2> DEFINE cv == ArithFlags(op, a, b, rd)
  <2>5. cv.c = rf.c /\ cv.v = rf.v
    BY <2>2, <2>4
  <2> HIDE DEF cv
  <2>6. ZNFLAGS(rd, cv.c, cv.v) = FlagsOf(rf)
    BY <2>3, <2>5, FlagsAgree
  <2> QED
    BY <2>3, <2>4, <2>6 DEF x, y, rd, rf, cv
<1> QED
  BY <1>2, <1>3

-----------------------------------------------------------------------------
(* The inductive invariant *)

\* The guest keeps clear of the two operations that are not exact: carries
\* into rotated immediates, and signed long products.
ExactGuest == /\ ImmOpcodes \cap {"ADC", "SBC", "RSC"} = {}
              /\ TRUE \notin LongSigned

RefTyped == ref \in [n : Bit, z : Bit, c : Bit, v : Bit, result : 0 .. DoubleSize - 1]

\* After a subtraction the flags are those of its operands.
LastSub == last.kind = "sub" =>
             /\ last.a \in Word /\ last.b \in Word
             /\ cpsr = FlagsOf(RefArith("SUB", last.a, last.b, 1))

Inv == TypeOK /\ RefTyped /\ FlagsExact /\ LastSub

LEMMA DoubleFacts == /\ DoubleSize \in Nat \ {0}
                     /\ Word \subseteq 0 .. DoubleSize - 1
<1>1. Half \in Nat /\ Half >= 1
  BY HalfAssumption
<1>2. Half * Half \in Nat /\ Half * Half >= Half
  BY <1>1
<1>3. DoubleSize = 4 * (Half * Half)
  BY <1>1 DEF DoubleSize
<1> QED
  BY <1>1, <1>2, <1>3 DEF Word

LEMMA BIsBit == ASSUME NEW p PROVE B(p) \in Bit
BY DEF B, Bit

\* A data operation keeps the invariant when the carry it takes in is the
\* architecture's.
LEMMA DataOpKeeps ==
    ASSUME Inv, NEW op \in Ops, NEW s \in BOOLEAN, NEW a \in Word, NEW b, NEW c, NEW rc,
           NEW note,
           DataOp(op, s, a, b, c, rc, note),
           op \in logic => c = rc,
           op \notin logic => CarryIn(op, c) = CarryIn(op, rc),
           note.kind = "sub" =>
             /\ op \in {"SUB", "RSB", "CMP"}
             /\ note.a = First(op, a, b) /\ note.b = Second(op, a, b)
    PROVE  Inv'
<1> DEFINE rd == IF op \in logic THEN LogicResult(op, a, b)
                 ELSE ArithResult(op, a, b, CarryIn(op, c))
           cv == IF op \in logic THEN [c |-> c, v |-> cpsr.v] ELSE ArithFlags(op, a, b, rd)
           rf == IF op \in logic
                 THEN [n |-> B(Neg(rd)), z |-> B(rd = 0), c |-> rc, v |-> ref.v, result |-> rd]
                 ELSE RefArith(op, First(op, a, b), Second(op, a, b), CarryIn(op, rc))
<1>1. rd \in Word /\ b \in Word /\ c \in Bit /\ rc \in Bit
  BY DEF DataOp
<1>2. /\ cpsr' = IF s THEN ZNFLAGS(rd, cv.c, cv.v) ELSE cpsr
      /\ result' = IF op \in Tests THEN result ELSE rd
      /\ ref' = LET flags == IF s THEN rf ELSE ref
                IN  [n |-> flags.n, z |-> flags.z, c |-> flags.c, v |-> flags.v,
                     result |-> IF op \in Tests THEN ref.result ELSE rf.result]
      /\ last' = IF s THEN note ELSE last
  BY DEF DataOp
<1>3. cpsr = FlagsOf(ref) /\ result = ref.result
  BY DEF Inv, FlagsExact
<1>4. rd = rf.result /\ ZNFLAGS(rd, cv.c, cv.v) = FlagsOf(rf)
  <2>1. CASE op \in logic
    <3>1. cpsr.v = ref.v
      BY <1>3 DEF FlagsOf
    <3> QED
      BY <2>1, <3>1 DEF ZNFLAGS, FlagsOf
  <2>2. CASE op \notin logic
    <3> DEFINE cin == CarryIn(op, c)
               ar  == ArithResult(op, a, b, cin)
    <3>1. cin \in Bit
      BY <1>1 DEF CarryIn, Bit
    <3>2. /\ rd = ar /\ cv = ArithFlags(op, a, b, ar)
          /\ rf = RefArith(op, First(op, a, b), Second(op, a, b), cin)
      BY <2>2
    <3>3. op \in Ops \ logic
      BY <2>2
    <3> HIDE DEF cin, rd, cv, rf
    <3>4. /\ ar = RefArith(op, First(op, a, b), Second(op, a, b), cin).result
          /\ ZNFLAGS(ar, ArithFlags(op, a, b, ar).c, ArithFlags(op, a, b, ar).v)
               = FlagsOf(RefArith(op, First(op, a, b), Second(op, a, b), cin))
      BY <1>1, <3>1, <3>3, ArithExact
    <3> QED
      BY <3>2, <3>4
  <2> QED
    BY <2>1, <2>2
<1>5. ZNFLAGS(rd, cv.c, cv.v) \in Flags
  <2>1. cpsr.v \in Bit
    BY DEF Inv, TypeOK, Flags
  <2>2. cv.c \in Bit /\ cv.v \in Bit
    BY <1>1, <2>1, BIsBit DEF ArithFlags, ADDFLAGS, SUBFLAGS
  <2> QED
    BY <2>2, BIsBit DEF ZNFLAGS, Flags
<1> HIDE DEF rd, cv, rf
<1>6. FlagsExact'
  BY <1>2, <1>3, <1>4 DEF FlagsExact, FlagsOf
<1>7. TypeOK'
  BY <1>1, <1>2, <1>5, DoubleFacts DEF Inv, TypeOK
<1>8. RefTyped'
  <2>1. cpsr' = FlagsOf(ref') /\ result' = ref'.result
    BY <1>6 DEF FlagsExact, FlagsOf
  <2>2. ref' = [n |-> ref'.n, z |-> ref'.z, c |-> ref'.c, v |-> ref'.v, result |-> ref'.result]
    BY <1>2
  <2> QED
    BY <1>7, <2>1, <2>2 DEF TypeOK, RefTyped, FlagsOf, Flags
<1>9. LastSub'
  <2>1. CASE ~s
    BY <1>2, <2>1 DEF Inv, LastSub
  <2>2. CASE s /\ note.kind = "sub"
    <3>1. op \in {"SUB", "RSB", "CMP"} /\ op \notin logic /\ op \notin Adds
      BY <2>2 DEF logic, Adds
    <3>2. CarryIn(op, rc) = 1
      BY <3>1 DEF CarryIn
    <3>3. rf = RefArith("SUB", note.a, note.b, 1)
      BY <2>2, <3>1, <3>2 DEF rf, RefArith, Total, Adds
    <3>4. note.a \in Word /\ note.b \in Word
      BY <1>1, <2>2 DEF First, Second
    <3> QED
      BY <1>2, <1>4, <2>2, <3>3, <3>4 DEF LastSub
  <2>3. CASE s /\ note.kind # "sub"
    BY <1>2, <2>3 DEF LastSub
  <2> QED
    BY <2>1, <2>2, <2>3
<1> QED
  BY <1>6, <1>7, <1>8, <1>9 DEF Inv

\* The register form keeps the invariant: a carry reaches the flags from the
\* shifter for logical operations, from the operation itself otherwise.
LEMMA DpKeeps ==
    ASSUME Inv, NEW cond, NEW op \in Ops, NEW s \in BOOLEAN, NEW a \in Word, NEW rm,
           NEW sh, exec_dp(cond, op, s, a, rm, sh)
    PROVE  Inv'
<1> DEFINE sh2 == Shifter(rm, sh, cpsr.c)
           note == Note(op, a, sh2.op2)
           carry == IF op \in logic /\ s THEN sh2.c ELSE cpsr.c
<1>1. cpsr.c = ref.c
  BY DEF Inv, FlagsExact, FlagsOf
<1>2. DataOp(op, s, a, sh2.op2, carry, carry, note)
  BY <1>1 DEF exec_dp
<1>3. note.kind = "sub" =>
        /\ op \in {"SUB", "RSB", "CMP"}
        /\ note.a = First(op, a, sh2.op2) /\ note.b = Second(op, a, sh2.op2)
  BY DEF Note, NoLast
<1> HIDE DEF sh2, note, carry
<1> QED
  BY <1>2, <1>3, DataOpKeeps

\* So does the immediate form, for operations that take no carry in.
LEMMA DpImmKeeps ==
    ASSUME Inv, NEW cond, NEW op \in Ops \ {"ADC", "SBC", "RSC"}, NEW s \in BOOLEAN,
           NEW a \in Word, NEW op2 \in Word, NEW rotated \in BOOLEAN,
           exec_dp_imm(cond, op, s, a, op2, rotated)
    PROVE  Inv'
<1> DEFINE carry == IF s /\ rotated THEN B(Neg(op2)) ELSE cpsr.c
           arch  == IF op \in logic /\ s /\ rotated THEN B(Neg(op2)) ELSE ref.c
           note  == Note(op, a, op2)
<1>1. cpsr.c = ref.c
  BY DEF Inv, FlagsExact, FlagsOf
<1>2. DataOp(op, s, a, op2, carry, arch, note)
  BY DEF exec_dp_imm
<1>3. op \in logic => carry = arch
  BY <1>1
<1>4. op \notin logic => CarryIn(op, carry) = CarryIn(op, arch)
  BY DEF CarryIn
<1>5. note.kind = "sub" =>
        /\ op \in {"SUB", "RSB", "CMP"}
        /\ note.a = First(op, a, op2) /\ note.b = Second(op, a, op2)
  BY DEF Note, NoLast
<1> HIDE DEF carry, arch, note
<1> QED
  BY <1>2, <1>3, <1>4, <1>5, DataOpKeeps

\* Products set n and z at most.
LEMMA ProductKeeps ==
    ASSUME Inv, NEW s \in BOOLEAN, NEW rd \in 0 .. DoubleSize - 1, NEW n \in Bit, NEW z \in Bit,
           result' = rd,
           cpsr' = IF s THEN [n |-> n, z |-> z, c |-> cpsr.c, v |-> cpsr.v] ELSE cpsr,
           ref' = IF s THEN [ref EXCEPT !.n = n, !.z = z, !.result = rd]
                  ELSE [ref EXCEPT !.result = rd],
           last' = IF s THEN NoLast ELSE last
    PROVE  Inv'
<1>1. cpsr \in Flags /\ RefTyped /\ cpsr = FlagsOf(ref)
  BY DEF Inv, TypeOK, FlagsExact
<1>2. TypeOK'
  BY <1>1 DEF TypeOK, Flags
<1>3. RefTyped'
  BY <1>1 DEF RefTyped
<1>4. FlagsExact'
  BY <1>1 DEF FlagsExact, FlagsOf, RefTyped, Flags
<1>5. LastSub'
  <2>1. CASE s
    BY <2>1 DEF LastSub, NoLast
  <2>2. CASE ~s
    BY <2>2 DEF Inv, LastSub
  <2> QED
    BY <2>1, <2>2
<1> QED
  BY <1>2, <1>3, <1>4, <1>5 DEF Inv

LEMMA MulKeeps ==
    ASSUME Inv, NEW cond, NEW s \in BOOLEAN, NEW x \in Word, NEW y \in Word, NEW acc \in Word,
           exec_mul(cond, s, x, y, acc)
    PROVE  Inv'
<1> DEFINE rd == (x * y + acc) % (2 * Half)
           n  == B(Neg(rd))
           z  == B(rd = 0)
<1>1. rd \in Word
  BY HalfAssumption DEF Word
<1>2. rd \in 0 .. DoubleSize - 1
  BY <1>1, DoubleFacts
<1>3. /\ result' = rd
      /\ cpsr' = IF s THEN [n |-> n, z |-> z, c |-> cpsr.c, v |-> cpsr.v] ELSE cpsr
      /\ ref' = IF s THEN [ref EXCEPT !.n = n, !.z = z, !.result = rd]
                ELSE [ref EXCEPT !.result = rd]
      /\ last' = IF s THEN NoLast ELSE last
  BY DEF exec_mul, ZNFLAGS
<1>4. n \in Bit /\ z \in Bit
  BY BIsBit
<1> HIDE DEF rd, n, z
<1> QED
  BY <1>2, <1>3, <1>4, ProductKeeps

LEMMA MullKeeps ==
    ASSUME Inv, NEW cond, NEW s \in BOOLEAN, NEW x \in Word, NEW y \in Word, NEW acc \in Nat,
           exec_mull(cond, FALSE, s, x, y, acc)
    PROVE  Inv'
<1> DEFINE rd == (x * y + acc) % DoubleSize
           n  == B(rd >= 2 * Half * Half)
           z  == B(rd = 0)
<1>1. rd \in 0 .. DoubleSize - 1
  <2>1. x * y + acc \in Int
    BY HalfAssumption DEF Word
  <2> QED
    BY <2>1, DoubleFacts
<1>2. /\ result' = rd
      /\ cpsr' = IF s THEN [n |-> n, z |-> z, c |-> cpsr.c, v |-> cpsr.v] ELSE cpsr
      /\ ref' = IF s THEN [ref EXCEPT !.n = n, !.z = z, !.result = rd]
                ELSE [ref EXCEPT !.result = rd]
      /\ last' = IF s THEN NoLast ELSE last
  BY DEF exec_mull
<1>3. n \in Bit /\ z \in Bit
  BY BIsBit
<1> HIDE DEF rd, n, z
<1> QED
  BY <1>1, <1>2, <1>3, ProductKeeps

\* Every instruction keeps the invariant.
LEMMA StepKeeps == ASSUME ExactGuest, Inv, [Next]_vars PROVE Inv'
<1>1. CASE UNCHANGED vars
  BY <1>1 DEF vars, Inv, TypeOK, RefTyped, FlagsExact, LastSub
<1>2. CASE Next
  <2>1. PICK cond \in Conds, s \in BOOLEAN, a \in Operands, x \in Word :
          \/ \E op \in Opcodes, sh \in Shifts : exec_dp(cond, op, s, a, x, sh)
          \/ \E op \in ImmOpcodes, rotated \in BOOLEAN :
                exec_dp_imm(cond, op, s, a, x, rotated)
          \/ \E acc \in Operands : exec_mul(cond, s, a, x, acc)
          \/ \E signed \in LongSigned, acc \in {0, DoubleSize - 1} :
                exec_mull(cond, signed, s, a, x, acc)
          \/ Skipped
    BY <1>2 DEF Next
  <2>2. a \in Word
    BY OperandsAssumption
  <2>3. ASSUME NEW op \in Opcodes, NEW sh \in Shifts, exec_dp(cond, op, s, a, x, sh)
        PROVE  Inv'
    <3>1. op \in Ops
      BY OpcodesAssumption
    <3> QED
      BY <2>2, <2>3, <3>1, DpKeeps
  <2>4. ASSUME NEW op \in ImmOpcodes, NEW rotated \in BOOLEAN,
               exec_dp_imm(cond, op, s, a, x, rotated)
        PROVE  Inv'
    <3>1. op \in Ops \ {"ADC", "SBC", "RSC"}
      BY OpcodesAssumption DEF ExactGuest
    <3> QED
      BY <2>2, <2>4, <3>1, DpImmKeeps
  <2>5. ASSUME NEW acc \in Operands, exec_mul(cond, s, a, x, acc) PROVE Inv'
    BY <2>2, <2>5, OperandsAssumption, MulKeeps
  <2>6. ASSUME NEW signed \in LongSigned, NEW acc \in {0, DoubleSize - 1},
               exec_mull(cond, signed, s, a, x, acc)
        PROVE  Inv'
    <3>1. signed = FALSE
      BY LongAssumption DEF ExactGuest
    <3>2. acc \in Nat
      BY DoubleFacts
    <3>3. exec_mull(cond, FALSE, s, a, x, acc)
      BY <2>6, <3>1
    <3> QED
      BY <2>2, <3>2, <3>3, MullKeeps
  <2>7. CASE Skipped
    BY <2>7, <1>1 DEF Skipped
  <2> QED
    BY <2>1, <2>3, <2>4, <2>5, <2>6, <2>7
<1> QED
  BY <1>1, <1>2

LEMMA InitInv == Init => Inv
<1> SUFFICES ASSUME Init PROVE Inv
  OBVIOUS
<1>1. 0 \in 0 .. DoubleSize - 1
  BY DoubleFacts
<1> QED
  BY <1>1 DEF Init, Inv, TypeOK, RefTyped, FlagsExact, LastSub, NoLast, Flags, FlagsOf, Bit

\* The types of the flags and of the result (execute.h, exec_mull).
THEOREM TypeCorrect == ASSUME ExactGuest PROVE Spec => []TypeOK
<1>1. Inv /\ [Next]_vars => Inv'
  BY StepKeeps
<1>2. Inv => TypeOK
  BY DEF Inv
<1> QED
  BY <1>1, <1>2, InitInv, PTL DEF Spec

\* FlagsExact on words of every width: the macros of execute.h are exact and
\* carries chain through any program.
THEOREM Exact == ASSUME ExactGuest PROVE Spec => []FlagsExact
<1>1. Inv /\ [Next]_vars => Inv'
  BY StepKeeps
<1>2. Inv => FlagsExact
  BY DEF Inv
<1> QED
  BY <1>1, <1>2, InitInv, PTL DEF Spec

\* What the flags of a subtraction say of its operands.
LEMMA SubtractionFlags ==
    ASSUME NEW a \in Word, NEW b \in Word, NEW f, f = RefArith("SUB", a, b, 1)
    PROVE  /\ f.n \in Bit /\ f.z \in Bit /\ f.c \in Bit /\ f.v \in Bit
           /\ f.z = 1 <=> a = b
           /\ f.c = 1 <=> a >= b
           /\ f.n = f.v <=> Signed(a) >= Signed(b)
<1> DEFINE rd == (a - b) % Size
           t  == Signed(a) - Signed(b)
<1>1. Half \in Nat /\ Half > 0 /\ Size = 2 * Half /\ a \in 0 .. Size - 1
      /\ b \in 0 .. Size - 1
  BY SizeFacts DEF Size
<1>2. /\ f.n = B(Neg(rd)) /\ f.z = B(rd = 0)
      /\ f.c = B(a - b >= 0)
      /\ f.v = B(t < -Half \/ t >= Half)
  BY <1>1 DEF RefArith, Total, Adds, Size, Signed
<1>3. rd = IF a >= b THEN a - b ELSE a - b + Size
  <2>1. CASE a >= b
    <3>1. a - b \in 0 .. Size - 1 /\ Size \in Nat \ {0}
      BY <1>1, <2>1
    <3> QED
      BY <2>1, <3>1, WrapNone
  <2>2. CASE ~(a >= b)
    <3>1. a - b \in -Size .. -1 /\ Size \in Nat \ {0}
      BY <1>1, <2>2
    <3> QED
      BY <2>2, <3>1, WrapUp
  <2> QED
    BY <2>1, <2>2
<1> HIDE DEF rd
<1>4. f.n \in Bit /\ f.z \in Bit /\ f.c \in Bit /\ f.v \in Bit
  BY <1>2, BIsBit
<1>5. f.z = 1 <=> a = b
  BY <1>1, <1>2, <1>3 DEF B
<1>6. f.c = 1 <=> a >= b
  BY <1>1, <1>2 DEF B
<1>7. f.n = f.v <=> Signed(a) >= Signed(b)
  BY <1>1, <1>2, <1>3 DEF B, Neg, Signed
<1> QED
  BY <1>4, <1>5, <1>6, <1>7

\* What the rows of cctable test.
LEMMA Conditions ==
    ASSUME cpsr \in Flags
    PROVE  /\ exec_condition("EQ") <=> cpsr.z = 1
           /\ exec_condition("NE") <=> cpsr.z # 1
           /\ exec_condition("CS") <=> cpsr.c = 1
           /\ exec_condition("CC") <=> cpsr.c # 1
           /\ exec_condition("HI") <=> cpsr.c = 1 /\ cpsr.z # 1
           /\ exec_condition("LS") <=> ~(cpsr.c = 1 /\ cpsr.z # 1)
           /\ exec_condition("GE") <=> cpsr.n = cpsr.v
           /\ exec_condition("LT") <=> cpsr.n # cpsr.v
<1>1. cpsr.n \in 0..1 /\ cpsr.z \in 0..1 /\ cpsr.c \in 0..1 /\ cpsr.v \in 0..1
  BY DEF Flags, Bit
<1>2. exec_condition("EQ") <=> cpsr.z = 1
  BY <1>1 DEF exec_condition, cctable
<1>3. exec_condition("NE") <=> cpsr.z # 1
  BY <1>1 DEF exec_condition, cctable
<1>4. exec_condition("CS") <=> cpsr.c = 1
  BY <1>1 DEF exec_condition, cctable
<1>5. exec_condition("CC") <=> cpsr.c # 1
  BY <1>1 DEF exec_condition, cctable
<1>6. exec_condition("HI") <=> cpsr.c = 1 /\ cpsr.z # 1
  BY <1>1 DEF exec_condition, cctable
<1>7. exec_condition("LS") <=> ~(cpsr.c = 1 /\ cpsr.z # 1)
  BY <1>1 DEF exec_condition, cctable
<1>8. exec_condition("GE") <=> cpsr.n = cpsr.v
  BY <1>1 DEF exec_condition, cctable
<1>9. exec_condition("LT") <=> cpsr.n # cpsr.v
  BY <1>1 DEF exec_condition, cctable
<1> QED
  BY <1>2, <1>3, <1>4, <1>5, <1>6, <1>7, <1>8, <1>9

\* ComparisonDecides on words of every width: SUBFLAGS and cctable together
\* decide the unsigned and signed orders.
THEOREM Decides == ASSUME ExactGuest PROVE Spec => []ComparisonDecides
<1>1. Inv /\ [Next]_vars => Inv'
  BY StepKeeps
<1>2. Inv => ComparisonDecides
  <2> SUFFICES ASSUME Inv, last.kind = "sub" PROVE ComparisonDecides
    BY DEF ComparisonDecides
  <2> DEFINE f == RefArith("SUB", last.a, last.b, 1)
  <2>1. last.a \in Word /\ last.b \in Word /\ cpsr = FlagsOf(f)
    BY DEF Inv, LastSub
  <2>2. /\ f.n \in Bit /\ f.z \in Bit /\ f.c \in Bit /\ f.v \in Bit
        /\ f.z = 1 <=> last.a = last.b
        /\ f.c = 1 <=> last.a >= last.b
        /\ f.n = f.v <=> Signed(last.a) >= Signed(last.b)
    BY <2>1, SubtractionFlags
  <2> HIDE DEF f
  <2>3. cpsr.n = f.n /\ cpsr.z = f.z /\ cpsr.c = f.c /\ cpsr.v = f.v
    BY <2>1 DEF FlagsOf
  <2>4. cpsr \in Flags
    BY DEF Inv, TypeOK
  <2>5. last.a \in Int /\ last.b \in Int /\ Signed(last.a) \in Int /\ Signed(last.b) \in Int
    BY <2>1, HalfAssumption DEF Word, Signed
  <2>6. /\ last.a > last.b <=> (last.a >= last.b /\ last.a # last.b)
        /\ last.a < last.b <=> ~(last.a >= last.b)
        /\ last.a <= last.b <=> ~(last.a >= last.b /\ last.a # last.b)
        /\ Signed(last.a) < Signed(last.b) <=> ~(Signed(last.a) >= Signed(last.b))
    BY <2>5
  <2> QED
    BY <2>2, <2>3, <2>4, <2>6, Conditions DEF ComparisonDecides
<1> QED
  BY <1>1, <1>2, InitInv, PTL DEF Spec

-----------------------------------------------------------------------------
(* Induction over the naturals, for sets *)

LEMMA Least ==
    ASSUME NEW T, T \subseteq Nat, T # {}
    PROVE  \E m \in T : \A k \in T : m <= k
<1> DEFINE R == OpToRel(<, Nat)
<1>1. IsWellFoundedOn(R, Nat)
  BY NatLessThanWellFounded
<1>2. \A x, y \in Nat : y < x => <<y, x>> \in R
  BY DEF OpToRel
<1> HIDE DEF R
<1>3. PICK m \in T : \A k \in T : ~ (<<k, m>> \in R)
  <2>1. T \subseteq Nat /\ T # {} /\ IsWellFoundedOn(R, Nat)
    BY <1>1
  <2> QED
    BY <2>1, WFMin
<1>4. ASSUME NEW k \in T, k < m PROVE FALSE
  <2>1. <<k, m>> \in R
    BY <1>2, <1>4
  <2> QED
    BY <1>3, <2>1
<1> QED
  BY <1>4

LEMMA Induct ==
    ASSUME NEW S, 0 \in S, \A n \in Nat : n \in S => n + 1 \in S
    PROVE  \A n \in Nat : n \in S
<1> DEFINE T == {n \in Nat : n \notin S}
<1> SUFFICES ASSUME T # {} PROVE FALSE
  OBVIOUS
<1>1. PICK m \in T : \A k \in T : m <= k
  <2> T \subseteq Nat
    OBVIOUS
  <2> HIDE DEF T
  <2> QED
    BY Least
<1>2. m # 0 /\ m \in Nat
  OBVIOUS
<1>3. m - 1 \in Nat /\ m - 1 \notin T
  BY <1>1, <1>2
<1> QED
  BY <1>2, <1>3

-----------------------------------------------------------------------------
(* The reference: Serial exists and takes one step at a time *)

\* f tells the states of the first n steps.
IsRun(f, type, s, n) == f = [k \in 0 .. n |-> IF k = 0 THEN s ELSE Step(type, f[k - 1])]

LEMMA RunExists ==
    ASSUME NEW type, NEW s PROVE \A n \in Nat : \E f : IsRun(f, type, s, n)
<1> DEFINE S == {n \in Nat : \E f : IsRun(f, type, s, n)}
<1>1. 0 \in S
  <2>1. IsRun([k \in 0 .. 0 |-> s], type, s, 0)
    BY DEF IsRun
  <2> QED
    BY <2>1
<1>2. \A n \in Nat : n \in S => n + 1 \in S
  <2> SUFFICES ASSUME NEW n \in Nat, NEW f, IsRun(f, type, s, n)
               PROVE  \E g : IsRun(g, type, s, n + 1)
    OBVIOUS
  <2> DEFINE g == [k \in 0 .. n + 1 |-> IF k = n + 1 THEN Step(type, f[n]) ELSE f[k]]
  <2>1. \A k \in 0 .. n + 1 : g[k] = IF k = 0 THEN s ELSE Step(type, g[k - 1])
    BY DEF IsRun
  <2>2. IsRun(g, type, s, n + 1)
    BY <2>1 DEF IsRun
  <2> QED
    BY <2>2
<1> HIDE DEF S
<1>3. \A n \in Nat : n \in S
  BY <1>1, <1>2, Induct
<1> QED
  BY <1>3 DEF S

LEMMA RunsAgree ==
    ASSUME NEW type, NEW s, NEW n \in Nat, NEW m \in Nat, n <= m, NEW f, NEW g,
           IsRun(f, type, s, n), IsRun(g, type, s, m)
    PROVE  \A k \in 0 .. n : f[k] = g[k]
<1> DEFINE S == {k \in Nat : k <= n => f[k] = g[k]}
<1>1. 0 \in S
  BY DEF IsRun
<1>2. \A k \in Nat : k \in S => k + 1 \in S
  BY DEF IsRun
<1> HIDE DEF S
<1>3. \A k \in Nat : k \in S
  BY <1>1, <1>2, Induct
<1> QED
  BY <1>3 DEF S

LEMMA SerialRun ==
    ASSUME NEW type, NEW s, NEW n \in Nat
    PROVE  \E f : IsRun(f, type, s, n) /\ Serial(type, s, n) = f[n]
<1> DEFINE f == CHOOSE f : IsRun(f, type, s, n)
<1>1. IsRun(f, type, s, n)
  BY RunExists
<1>2. Serial(type, s, n) = f[n]
  BY Zenon DEF Serial, IsRun
<1> QED
  BY <1>1, <1>2

LEMMA SerialStep ==
    ASSUME NEW type, NEW s
    PROVE  /\ Serial(type, s, 0) = s
           /\ \A n \in Nat : Serial(type, s, n + 1) = Step(type, Serial(type, s, n))
<1>1. Serial(type, s, 0) = s
  <2>1. PICK f : IsRun(f, type, s, 0) /\ Serial(type, s, 0) = f[0]
    BY SerialRun
  <2> QED
    BY <2>1 DEF IsRun
<1>2. ASSUME NEW n \in Nat
      PROVE  Serial(type, s, n + 1) = Step(type, Serial(type, s, n))
  <2>1. PICK f : IsRun(f, type, s, n) /\ Serial(type, s, n) = f[n]
    BY SerialRun
  <2>2. PICK g : IsRun(g, type, s, n + 1) /\ Serial(type, s, n + 1) = g[n + 1]
    BY SerialRun
  <2>3. f[n] = g[n]
    BY <2>1, <2>2, RunsAgree
  <2>4. g[n + 1] = Step(type, g[n])
    BY <2>2 DEF IsRun
  <2> QED
    BY <2>1, <2>2, <2>3, <2>4
<1> QED
  BY <1>1, <1>2

-----------------------------------------------------------------------------
(* Powers of two *)

LEMMA Powers ==
    \A k \in 0 .. W : /\ 2^k \in Nat \ {0} /\ 2^(W - k) \in Nat \ {0}
                      /\ 2^k * 2^(W - k) = 2 * Half
                      /\ k < W => /\ 2^(k + 1) = 2 * 2^k
                                  /\ 2^(W - k) = 2 * 2^(W - (k + 1))
<1> DEFINE S == {k \in Nat : k <= W => 2^k \in Nat \ {0}}
<1>1. 0 \in S
  OBVIOUS
<1>2. \A k \in Nat : k \in S => k + 1 \in S
  BY PowerAssumption, WidthAssumption
<1> HIDE DEF S
<1>3. \A k \in Nat : k \in S
  BY <1>1, <1>2, Induct
<1>4. \A k \in 0 .. W : 2^k \in Nat \ {0} /\ 2^(W - k) \in Nat \ {0}
  BY <1>3, WidthAssumption DEF S
<1>5. \A k \in 0 .. W : k < W => /\ 2^(k + 1) = 2 * 2^k
                                 /\ 2^(W - k) = 2 * 2^(W - (k + 1))
  <2> SUFFICES ASSUME NEW k \in 0 .. W, k < W
               PROVE  2^(k + 1) = 2 * 2^k /\ 2^(W - k) = 2 * 2^(W - (k + 1))
    OBVIOUS
  <2>1. W - (k + 1) \in 0 .. W - 1 /\ W - (k + 1) + 1 = W - k /\ k \in 0 .. W - 1
    BY WidthAssumption
  <2> QED
    BY <2>1, PowerAssumption
<1> DEFINE P == {k \in Nat : k <= W => 2^k * 2^(W - k) = 2 * Half}
<1>6. 0 \in P
  BY PowerAssumption, WidthAssumption, <1>5
<1>7. \A k \in Nat : k \in P => k + 1 \in P
  <2> SUFFICES ASSUME NEW k \in Nat, k \in P, k + 1 <= W
               PROVE  2^(k + 1) * 2^(W - (k + 1)) = 2 * Half
    OBVIOUS
  <2>1. 2^(k + 1) = 2 * 2^k /\ 2^(W - k) = 2 * 2^(W - (k + 1)) /\ k \in 0 .. W
    BY <1>5, WidthAssumption
  <2> QED
    BY <1>4, <2>1
<1> HIDE DEF P
<1>8. \A k \in Nat : k \in P
  BY <1>6, <1>7, Induct
<1> QED
  BY <1>4, <1>5, <1>8, WidthAssumption DEF P

\* Division by p, for x = q * p + r.
LEMMA Division ==
    ASSUME NEW x \in Nat, NEW p \in Nat \ {0}
    PROVE  /\ x \div p \in Nat /\ x % p \in 0 .. p - 1
           /\ x = (x \div p) * p + (x % p)
OBVIOUS

LEMMA Quotient ==
    ASSUME NEW x \in Nat, NEW p \in Nat \ {0}, NEW q \in Int, NEW r \in 0 .. p - 1,
           x = q * p + r
    PROVE  x \div p = q /\ x % p = r
OBVIOUS

\* Halving a quotient: one more bit is shifted out.
Halved(x, p) ==
    /\ x \div (2 * p) = (x \div p) \div 2
    /\ x % (2 * p) = (x % p) + p * ((x \div p) % 2)

LEMMA Halve == ASSUME NEW x \in Nat, NEW p \in Nat \ {0} PROVE Halved(x, p)
<1> DEFINE q == x \div p
           r == x % p
<1>1. q \in Nat /\ r \in 0 .. p - 1 /\ x = q * p + r
  BY Division
<1> HIDE DEF q, r
<1>2. q \div 2 \in Nat /\ q % 2 \in 0 .. 1 /\ q = (q \div 2) * 2 + (q % 2)
  BY <1>1
<1> DEFINE h == q \div 2
           b == q % 2
<1>3. x = h * (2 * p) + (r + p * b)
  <2> HIDE DEF h, b
  <2>1. h \in Nat /\ b \in 0 .. 1 /\ q = h * 2 + b
    BY <1>2 DEF h, b
  <2>2. q * p = h * (2 * p) + p * b
    BY <2>1
  <2> QED
    BY <1>1, <2>1, <2>2
<1>4. r + p * b \in 0 .. 2 * p - 1
  BY <1>1, <1>2
<1>5. 2 * p \in Nat \ {0} /\ h \in Int
  BY <1>2
<1> HIDE DEF h, b
<1>6. x \div (2 * p) = h /\ x % (2 * p) = r + p * b
  BY <1>3, <1>4, <1>5, Quotient
<1> QED
  BY <1>6 DEF q, r, h, b, Halved

\* A product modulo a product: the upper part of x falls out.
UpperFalls(x, p, r) == (x * p) % (p * r) = p * (x % r)

LEMMA Upper ==
    ASSUME NEW x \in Nat, NEW p \in Nat \ {0}, NEW r \in Nat \ {0} PROVE UpperFalls(x, p, r)
<1> DEFINE q == x \div r
           l == x % r
<1>1. q \in Nat /\ l \in 0 .. r - 1 /\ x = q * r + l
  BY Division
<1> HIDE DEF q, l
<1>2. x * p = q * (p * r) + p * l
  BY <1>1
<1>3. p * l \in 0 .. p * r - 1
  BY <1>1
<1>4. p * r \in Nat \ {0} /\ x * p \in Nat
  OBVIOUS
<1>5. (x * p) % (p * r) = p * l
  <2> DEFINE y == x * p
             m == p * r
             z == p * l
  <2>1. y = q * m + z /\ z \in 0 .. m - 1 /\ m \in Nat \ {0} /\ y \in Nat /\ q \in Int
    BY <1>1, <1>2, <1>3, <1>4
  <2> HIDE DEF y, m, z
  <2>2. y % m = z
    BY <2>1, Quotient
  <2> QED
    BY <2>2 DEF y, m, z
<1> QED
  BY <1>5 DEF l, UpperFalls

\* Doubling what a left shift has kept: the next lower bit falls out.
Doubled(x, p, r, y) ==
    /\ (2 * y) % (2 * (p * r)) = (x * (2 * p)) % (2 * (p * r))
    /\ (2 * y) % (2 * (p * r)) = 2 * p * (x % r)
    /\ (y >= p * r) <=> ((x \div r) % 2 = 1)
    /\ (x \div r) % 2 \in {0, 1}

LEMMA LeftOneMore ==
    ASSUME NEW x \in Nat, NEW p \in Nat \ {0}, NEW r \in Nat \ {0}, NEW y,
           y = (x * p) % (2 * (p * r))
    PROVE  Doubled(x, p, r, y)
<1> DEFINE l == x % r
           b == (x \div r) % 2
           h == p * r
           z == 2 * (p * l)
<1>1. l \in 0 .. r - 1 /\ b \in 0 .. 1 /\ x % (2 * r) = l + r * b
  <2>1. x \div r \in Nat /\ l \in 0 .. r - 1
    BY Division
  <2>2. b \in 0 .. 1
    BY <2>1
  <2>3. Halved(x, r)
    BY Halve
  <2> QED
    BY <2>1, <2>2, <2>3 DEF Halved
<1>2. y = p * (x % (2 * r))
  <2>1. 2 * r \in Nat \ {0} /\ p * (2 * r) = 2 * (p * r)
    OBVIOUS
  <2>2. UpperFalls(x, p, 2 * r)
    BY <2>1, Upper
  <2> QED
    BY <2>1, <2>2 DEF UpperFalls
<1>3. (x * (2 * p)) % (2 * (p * r)) = (2 * p) * l
  <2>1. 2 * p \in Nat \ {0} /\ (2 * p) * r = 2 * (p * r)
    OBVIOUS
  <2>2. UpperFalls(x, 2 * p, r)
    BY <2>1, Upper
  <2> QED
    BY <2>1, <2>2 DEF UpperFalls
<1> HIDE DEF l, b
<1>4. y = p * l + h * b /\ z = (2 * p) * l
  BY <1>1, <1>2
<1>5. h \in Nat \ {0} /\ p * l \in 0 .. h - 1
  BY <1>1
<1> HIDE DEF h
<1>6. 2 * y = b * (2 * h) + z /\ z \in 0 .. 2 * h - 1
  BY <1>1, <1>4, <1>5
<1>7. (2 * y) % (2 * h) = z
  <2> HIDE DEF z
  <2>1. 2 * h \in Nat \ {0} /\ 2 * y \in Nat /\ b \in Int
    BY <1>1, <1>5, <1>6
  <2> QED
    BY <1>6, <2>1, Quotient
<1>8. (y >= h) <=> (b = 1)
  BY <1>1, <1>4, <1>5
<1> QED
  BY <1>1, <1>3, <1>4, <1>7, <1>8 DEF l, b, h, Doubled

\* A negative word shifted right arithmetically.
LEMMA SignFilled ==
    ASSUME NEW q \in Nat, NEW m \in Nat \ {0}, NEW r \in Nat \ {0}, q < r, r <= m
    PROVE  (q + (m - 1) * r) % m = q + m - r
<1> DEFINE z == q + m - r
<1>1. q + (m - 1) * r = (r - 1) * m + z
  OBVIOUS
<1>2. z \in 0 .. m - 1 /\ r - 1 \in Int
  OBVIOUS
<1>3. q + (m - 1) * r \in Nat
  <2>1. (m - 1) * r \in Nat
    OBVIOUS
  <2> QED
    BY <2>1
<1> HIDE DEF z
<1> DEFINE y == q + (m - 1) * r
<1>4. y = (r - 1) * m + z /\ y \in Nat
  BY <1>1, <1>3
<1> HIDE DEF y
<1>5. y % m = z
  BY <1>2, <1>4, Quotient
<1> QED
  BY <1>5 DEF y, z

Extended(x, p, r, y, sign) ==
    /\ y \div 2 + (IF y >= p * r THEN 1 ELSE 0) * (p * r)
         = (x \div (2 * p) + sign * r) % (2 * (p * r))
    /\ r = 1 => y \div 2 + (IF y >= p * r THEN 1 ELSE 0) * (p * r) = sign
    /\ y % 2 = (x \div p) % 2

\* The arithmetic right shift by one more bit.
LEMMA ArithOneMore ==
    ASSUME NEW x \in Nat, NEW p \in Nat \ {0}, NEW r \in Nat \ {0}, NEW y, NEW sign,
           x < 2 * (p * r), sign = IF x >= p * r THEN 2 * (p * r) - 1 ELSE 0,
           y = (x \div p + sign * (2 * r)) % (2 * (p * r))
    PROVE  Extended(x, p, r, y, sign)
<1> DEFINE q == x \div p
           l == x % p
           h == p * r
<1>1. q \in Nat /\ l \in 0 .. p - 1 /\ x = q * p + l
  BY Division
<1>2. x \div (2 * p) = q \div 2
  <2>1. Halved(x, p)
    BY Halve
  <2> QED
    BY <2>1 DEF Halved
<1>3. h \in Nat \ {0} /\ r <= h
  OBVIOUS
<1>4. r = 1 => q \div 2 = 0
  <2>1. r = 1 => x < 2 * p
    OBVIOUS
  <2>2. r = 1 => q < 2
    <3> HIDE DEF q, l, h
    <3> SUFFICES ASSUME r = 1, q >= 2 PROVE FALSE
      BY <1>1
    <3>1. q * p >= 2 * p
      BY <1>1
    <3> QED
      BY <1>1, <2>1, <3>1
  <2> QED
    BY <1>1, <2>2
<1> HIDE DEF q, l
<1>5. q < 2 * r
  <2> SUFFICES ASSUME q >= 2 * r PROVE FALSE
    BY <1>1
  <2>1. q * p >= (2 * r) * p
    BY <1>1
  <2> QED
    BY <1>1, <2>1
<1>6. CASE x >= p * r
  <2>1. q >= r
    <3> SUFFICES ASSUME q <= r - 1 PROVE FALSE
      BY <1>1
    <3>1. q * p <= (r - 1) * p
      BY <1>1
    <3>2. (r - 1) * p = p * r - p
      OBVIOUS
    <3> QED
      BY <1>1, <1>6, <3>1, <3>2
  <2>2. y = (q + (2 * h - 1) * (2 * r)) % (2 * h)
    BY <1>6 DEF q
  <2>3. (q \div 2 + (2 * h - 1) * r) % (2 * h) = q \div 2 + 2 * h - r
    <3> HIDE DEF h
    <3> DEFINE d == q \div 2
               m == 2 * h
    <3>1. d \in Nat /\ d < r /\ m \in Nat \ {0} /\ r <= m
      BY <1>1, <1>3, <1>5
    <3> HIDE DEF d, m
    <3>2. (d + (m - 1) * r) % m = d + m - r
      BY <3>1, SignFilled
    <3> QED
      BY <3>2 DEF d, m
  <2> HIDE DEF h
  <2>4. y = q + 2 * h - 2 * r
    <3> DEFINE t == 2 * r
               m == 2 * h
    <3>1. t \in Nat \ {0} /\ m \in Nat \ {0} /\ q < t /\ t <= m /\ q \in Nat
      BY <1>1, <1>3, <1>5
    <3>2. y = (q + (m - 1) * t) % m
      BY <2>2
    <3> HIDE DEF t, m
    <3>3. y = q + m - t
      BY <3>1, <3>2, SignFilled
    <3> QED
      BY <3>3 DEF t, m
  <2>5. y >= h /\ y \div 2 = q \div 2 + h - r /\ y % 2 = q % 2 /\ y \in Nat
    BY <1>1, <1>3, <2>1, <2>4
  <2>6. y \div 2 + (IF y >= h THEN 1 ELSE 0) * h = q \div 2 + 2 * h - r
    BY <1>1, <1>3, <2>5
  <2>7. sign = 2 * h - 1
    BY <1>6 DEF h
  <2>8. r = 1 => q \div 2 + 2 * h - r = sign
    BY <1>3, <1>4, <2>7
  <2>9. (x \div (2 * p) + sign * r) % (2 * h) = q \div 2 + 2 * h - r
    BY <1>2, <2>3, <2>7
  <2> QED
    BY <2>5, <2>6, <2>8, <2>9 DEF Extended, q, h
<1>7. CASE x < p * r
  <2>1. sign = 0
    BY <1>7
  <2>2. q <= x
    BY <1>1
  <2>3. 0 * (2 * r) = 0 /\ 0 * r = 0
    OBVIOUS
  <2>4. y = q % (2 * h)
    BY <1>1, <2>1, <2>3 DEF q
  <2> HIDE DEF h
  <2>5. x < h
    BY <1>7 DEF h
  <2>6. q % (2 * h) = q
    <3> DEFINE m == 2 * h
    <3>1. m \in Nat \ {0} /\ q \in 0 .. m - 1 /\ q \in Nat /\ q = 0 * m + q
      BY <1>1, <1>3, <2>2, <2>5
    <3> HIDE DEF m
    <3> QED
      BY <3>1, Quotient DEF m
  <2>7. (q \div 2) % (2 * h) = q \div 2
    <3> DEFINE m == 2 * h
               d == q \div 2
    <3>1. m \in Nat \ {0} /\ d \in 0 .. m - 1 /\ d \in Nat /\ d = 0 * m + d
      BY <1>1, <1>3, <2>2, <2>5
    <3> HIDE DEF m, d
    <3> QED
      BY <3>1, Quotient DEF m, d
  <2>8. y = q /\ ~(y >= h)
    BY <1>1, <1>3, <2>2, <2>4, <2>5, <2>6
  <2>9. y \div 2 + (IF y >= h THEN 1 ELSE 0) * h = q \div 2
    BY <1>1, <1>3, <2>8
  <2>10. (x \div (2 * p) + sign * r) % (2 * h) = q \div 2
    BY <1>1, <1>2, <2>1, <2>3, <2>7
  <2> QED
    BY <1>4, <2>1, <2>8, <2>9, <2>10 DEF Extended, q, h
<1> QED
  <2>1. p * r \in Nat
    OBVIOUS
  <2> QED
    BY <1>6, <1>7, <2>1

Rotated(x, p, r, y) ==
    /\ y \div 2 + (y % 2) * (p * r) = (x \div (2 * p) + ((x * r) % (2 * (p * r)))) % (2 * (p * r))
    /\ r = 1 => y \div 2 + (y % 2) * (p * r) = x
    /\ y % 2 = (x \div p) % 2

\* The rotation by one more bit.
LEMMA RotateOneMore ==
    ASSUME NEW x \in Nat, NEW p \in Nat \ {0}, NEW r \in Nat \ {0}, NEW y,
           x < 2 * (p * r), y = (x \div p + ((x * (2 * r)) % (2 * (p * r)))) % (2 * (p * r))
    PROVE  Rotated(x, p, r, y)
<1> DEFINE q == x \div p
           l == x % p
           b == q % 2
           d == q \div 2
           h == p * r
           m == 2 * h
           z == q + 2 * (r * l)
           w == d + r * (l + p * b)
<1>1. q \in Nat /\ l \in 0 .. p - 1 /\ x = q * p + l
  BY Division
<1>2. x \div (2 * p) = d /\ x % (2 * p) = l + p * b
  <2>1. Halved(x, p)
    BY Halve
  <2> QED
    BY <2>1 DEF Halved
<1>3. h \in Nat \ {0} /\ m \in Nat \ {0}
  OBVIOUS
<1>4. (x * (2 * r)) % m = 2 * (r * l)
  <2>1. 2 * r \in Nat \ {0} /\ (2 * r) * p = 2 * (p * r)
    OBVIOUS
  <2>2. UpperFalls(x, 2 * r, p)
    BY <2>1, Upper
  <2> QED
    BY <1>1, <2>1, <2>2 DEF UpperFalls
<1>5. (x * r) % m = r * (l + p * b)
  <2>1. 2 * p \in Nat \ {0} /\ r * (2 * p) = 2 * (p * r)
    OBVIOUS
  <2>2. UpperFalls(x, r, 2 * p)
    BY <2>1, Upper
  <2> QED
    BY <1>2, <2>1, <2>2 DEF UpperFalls
<1>6. b \in 0 .. 1 /\ d \in Nat /\ q = 2 * d + b
  <2> HIDE DEF q
  <2> QED
    BY <1>1
<1>7. q < 2 * r
  <2> HIDE DEF q, l
  <2> SUFFICES ASSUME q >= 2 * r PROVE FALSE
    BY <1>1
  <2>1. q * p >= (2 * r) * p
    BY <1>1
  <2> QED
    BY <1>1, <2>1
<1>8. y = z % m /\ (x \div (2 * p) + ((x * r) % m)) % m = w % m
  <2>1. y = (q + ((x * (2 * r)) % m)) % m
    OBVIOUS
  <2>2. (x \div (2 * p) + ((x * r) % m)) % m = (d + ((x * r) % m)) % m
    BY <1>2
  <2> DEFINE f == (x * (2 * r)) % m
             g == (x * r) % m
  <2>3. y = (q + f) % m /\ f = 2 * (r * l)
    BY <1>4, <2>1
  <2>4. g = r * (l + p * b)
    BY <1>5
  <2> HIDE DEF q, l, b, d, m, f, g
  <2>5. q + f = z /\ d + g = w
    BY <2>3, <2>4
  <2> HIDE DEF z, w
  <2> QED
    BY <2>2, <2>3, <2>5 DEF g
<1> HIDE DEF q, l, b, d
<1>9. z \in 0 .. m - 1
  <2>1. r * l <= r * (p - 1)
    BY <1>1
  <2>2. r * (p - 1) = h - r
    OBVIOUS
  <2>3. r * l \in Nat
    BY <1>1
  <2> QED
    BY <1>1, <1>3, <1>7, <2>1, <2>2, <2>3
<1>10. w \in 0 .. m - 1
  <2>1. l + p * b \in 0 .. 2 * p - 1
    BY <1>1, <1>6
  <2> DEFINE u == l + p * b
  <2> HIDE DEF u
  <2>2. r * u <= r * (2 * p - 1)
    BY <2>1 DEF u
  <2>3. r * (2 * p - 1) = m - r
    OBVIOUS
  <2>4. r * u \in Nat
    BY <2>1 DEF u
  <2>5. d < r
    BY <1>6, <1>7
  <2> QED
    BY <1>3, <1>6, <2>2, <2>3, <2>4, <2>5 DEF u
<1>11. z = 2 * (d + r * l) + b /\ w = (d + r * l) + h * b /\ r * l \in Nat
  BY <1>1, <1>6
<1>12. z % m = z /\ w % m = w
  <2> HIDE DEF m, z, w
  <2> QED
    BY <1>3, <1>9, <1>10
<1> HIDE DEF m
<1>13. y \div 2 = d + r * l /\ y % 2 = b
  <2> DEFINE e == d + r * l
  <2>1. e \in Nat /\ z = 2 * e + b
    BY <1>6, <1>11
  <2> HIDE DEF e, z
  <2>2. y \div 2 = e /\ y % 2 = b
    BY <1>6, <1>8, <1>12, <2>1
  <2> QED
    BY <2>2 DEF e
<1>14. y \div 2 + (y % 2) * h = w
  <2> HIDE DEF w, h
  <2>1. b * h = h * b
    BY <1>3, <1>6
  <2> QED
    BY <1>11, <1>13, <2>1
<1>15. r = 1 => w = x
  <2> SUFFICES ASSUME r = 1 PROVE w = x
    OBVIOUS
  <2>1. w = d + (l + p * b)
    BY <1>1, <1>6
  <2>2. d = 0 /\ q = b
    BY <1>6, <1>7
  <2> QED
    BY <1>1, <1>6, <2>1, <2>2
<1> QED
  BY <1>8, <1>12, <1>13, <1>14, <1>15 DEF Rotated, h, m, b, q

-----------------------------------------------------------------------------
(* One more bit: each closed form takes the step of the bit-serial shift *)

\* A shift of n bits out of W cuts a word at p = 2^n or at 2 * r.
LEMMA Cut ==
    ASSUME NEW n \in Nat, n < W
    PROVE  \E p, r \in Nat \ {0} :
             /\ p = 2^n /\ r = 2^(W - (n + 1))
             /\ 2^(n + 1) = 2 * p /\ 2^(W - n) = 2 * r
             /\ Half = p * r
             /\ n + 1 = W => r = 1
<1>1. 2^(W - (n + 1)) \in Nat \ {0} /\ 2^n \in Nat \ {0} /\ n \in 0 .. W
  BY Powers, WidthAssumption
<1>2. 2^(n + 1) = 2 * 2^n /\ 2^(W - n) = 2 * 2^(W - (n + 1)) /\ 2^n * 2^(W - n) = 2 * Half
  BY <1>1, Powers
<1>3. Half = 2^n * 2^(W - (n + 1))
  BY <1>1, <1>2, HalfAssumption
<1>4. n + 1 = W => 2^(W - (n + 1)) = 1
  <2>1. n + 1 = W => W - (n + 1) = 0
    BY WidthAssumption
  <2>2. 2^0 = 1
    OBVIOUS
  <2> QED
    BY <2>1, <2>2, Zenon
<1> QED
  BY <1>1, <1>2, <1>3, <1>4

LEMMA StepLSL ==
    ASSUME NEW x \in Word, NEW c, NEW n \in Nat, NEW s, s.x = RegShift(x, "LSL", n, c).op2
    PROVE  /\ Step("LSL", s).x = RegShift(x, "LSL", n + 1, c).op2
           /\ n + 1 # W => Step("LSL", s).c = RegShift(x, "LSL", n + 1, c).c
<1>1. /\ s.x = IF n > W - 1 THEN 0 ELSE (x * 2^n) % (2 * Half)
      /\ RegShift(x, "LSL", n + 1, c).op2 = IF n + 1 > W - 1 THEN 0 ELSE (x * 2^(n + 1)) % (2 * Half)
      /\ RegShift(x, "LSL", n + 1, c).c = IF n + 1 > W - 1 THEN 0 ELSE (x \div 2^(W - (n + 1))) % 2
      /\ Step("LSL", s).x = (2 * s.x) % (2 * Half)
      /\ Step("LSL", s).c = IF s.x >= Half THEN 1 ELSE 0
  BY DEF RegShift, ShiftLeft, BitAt, Step, B, Neg
<1>2. W \in Nat \ {0} /\ Half \in Nat \ {0} /\ x \in Nat
  BY WidthAssumption, HalfAssumption DEF Word
<1>3. CASE n >= W
  BY <1>1, <1>2, <1>3
<1>4. CASE n < W
  <2>1. PICK p \in Nat \ {0}, r \in Nat \ {0} :
             /\ p = 2^n /\ r = 2^(W - (n + 1))
             /\ 2^(n + 1) = 2 * p /\ 2^(W - n) = 2 * r
             /\ Half = p * r
             /\ n + 1 = W => r = 1
    BY <1>4, Cut
  <2>2. /\ s.x = (x * p) % (2 * (p * r))
        /\ RegShift(x, "LSL", n + 1, c).op2 = IF n + 1 = W THEN 0 ELSE (x * (2 * p)) % (2 * (p * r))
        /\ RegShift(x, "LSL", n + 1, c).c = IF n + 1 = W THEN 0 ELSE (x \div r) % 2
        /\ Step("LSL", s).x = (2 * s.x) % (2 * (p * r))
        /\ Step("LSL", s).c = IF s.x >= p * r THEN 1 ELSE 0
    BY <1>1, <1>2, <1>4, <2>1
  <2>3. /\ (2 * s.x) % (2 * (p * r)) = (x * (2 * p)) % (2 * (p * r))
        /\ (2 * s.x) % (2 * (p * r)) = 2 * p * (x % r)
        /\ (s.x >= p * r) <=> ((x \div r) % 2 = 1)
        /\ (x \div r) % 2 \in {0, 1}
    <3>1. x \in Nat /\ s.x = (x * p) % (2 * (p * r))
      BY <1>2, <2>2
    <3>2. Doubled(x, p, r, s.x)
      BY <3>1, LeftOneMore
    <3> QED
      BY <3>2 DEF Doubled
  <2>4. n + 1 = W => 2 * p * (x % r) = 0
    <3>1. n + 1 = W => x % r = 0
      BY <1>2, <2>1
    <3> QED
      BY <3>1
  <2> QED
    BY <2>2, <2>3, <2>4
<1> QED
  BY <1>2, <1>3, <1>4

LEMMA StepLSR ==
    ASSUME NEW x \in Word, NEW c, NEW n \in Nat, NEW s, s.x = RegShift(x, "LSR", n, c).op2
    PROVE  /\ Step("LSR", s).x = RegShift(x, "LSR", n + 1, c).op2
           /\ Step("LSR", s).c = RegShift(x, "LSR", n + 1, c).c
<1>1. /\ s.x = IF n > W - 1 THEN 0 ELSE x \div 2^n
      /\ RegShift(x, "LSR", n + 1, c).op2 = IF n + 1 > W - 1 THEN 0 ELSE x \div 2^(n + 1)
      /\ RegShift(x, "LSR", n + 1, c).c = IF n + 1 > W THEN 0 ELSE (x \div 2^n) % 2
      /\ Step("LSR", s).x = s.x \div 2
      /\ Step("LSR", s).c = s.x % 2
  BY DEF RegShift, ShiftRight, BitAt, Step
<1>2. W \in Nat \ {0} /\ Half \in Nat \ {0} /\ x \in 0 .. 2 * Half - 1
  BY WidthAssumption, HalfAssumption DEF Word
<1>3. CASE n >= W
  BY <1>1, <1>2, <1>3
<1>4. CASE n < W
  <2>1. PICK p \in Nat \ {0}, r \in Nat \ {0} :
             /\ p = 2^n /\ r = 2^(W - (n + 1))
             /\ 2^(n + 1) = 2 * p /\ 2^(W - n) = 2 * r
             /\ Half = p * r
             /\ n + 1 = W => r = 1
    BY <1>4, Cut
  <2>2. /\ s.x = x \div p
        /\ RegShift(x, "LSR", n + 1, c).op2 = IF n + 1 = W THEN 0 ELSE x \div (2 * p)
        /\ RegShift(x, "LSR", n + 1, c).c = (x \div p) % 2
    BY <1>1, <1>2, <1>4, <2>1
  <2>3. x \div (2 * p) = (x \div p) \div 2
    <3>1. x \in Nat
      BY <1>2
    <3>2. Halved(x, p)
      BY <3>1, Halve
    <3> QED
      BY <3>2 DEF Halved
  <2>4. n + 1 = W => (x \div p) \div 2 = 0
    <3> DEFINE m == 2 * p
    <3>1. n + 1 = W => x \in 0 .. m - 1 /\ m \in Nat \ {0} /\ x = 0 * m + x
      BY <1>2, <2>1
    <3> HIDE DEF m
    <3>2. n + 1 = W => x \div m = 0
      BY <1>2, <3>1, Quotient
    <3> QED
      BY <2>3, <3>2 DEF m
  <2> QED
    BY <1>1, <2>2, <2>3, <2>4
<1> QED
  BY <1>2, <1>3, <1>4

LEMMA StepASR ==
    ASSUME NEW x \in Word, NEW c, NEW n \in Nat, NEW s, s.x = RegShift(x, "ASR", n, c).op2
    PROVE  /\ Step("ASR", s).x = RegShift(x, "ASR", n + 1, c).op2
           /\ Step("ASR", s).c = RegShift(x, "ASR", n + 1, c).c
<1> DEFINE sign == IF x >= Half THEN 2 * Half - 1 ELSE 0
<1>1. /\ s.x = IF n > W - 1 THEN sign ELSE (x \div 2^n + sign * 2^(W - n)) % (2 * Half)
      /\ RegShift(x, "ASR", n + 1, c).op2 =
           IF n + 1 > W - 1 THEN sign
           ELSE (x \div 2^(n + 1) + sign * 2^(W - (n + 1))) % (2 * Half)
      /\ RegShift(x, "ASR", n + 1, c).c =
           IF n + 1 > W THEN IF x >= Half THEN 1 ELSE 0 ELSE (x \div 2^n) % 2
      /\ Step("ASR", s).x = s.x \div 2 + (IF s.x >= Half THEN 1 ELSE 0) * Half
      /\ Step("ASR", s).c = s.x % 2
  BY DEF RegShift, ShiftArith, ShiftRight, Sign, BitAt, Step, B, Neg
<1>2. W \in Nat \ {0} /\ Half \in Nat \ {0} /\ x \in 0 .. 2 * Half - 1
  BY WidthAssumption, HalfAssumption DEF Word
<1>3. CASE n >= W
  <2>1. sign \div 2 + (IF sign >= Half THEN 1 ELSE 0) * Half = sign
    BY <1>2
  <2>2. sign % 2 = IF x >= Half THEN 1 ELSE 0
    BY <1>2
  <2>3. s.x = sign
    BY <1>1, <1>2, <1>3
  <2> HIDE DEF sign
  <2> QED
    BY <1>1, <1>2, <1>3, <2>1, <2>2, <2>3
<1>4. CASE n < W
  <2>1. PICK p \in Nat \ {0}, r \in Nat \ {0} :
             /\ p = 2^n /\ r = 2^(W - (n + 1))
             /\ 2^(n + 1) = 2 * p /\ 2^(W - n) = 2 * r
             /\ Half = p * r
             /\ n + 1 = W => r = 1
    BY <1>4, Cut
  <2>2. /\ s.x = (x \div p + sign * (2 * r)) % (2 * (p * r))
        /\ RegShift(x, "ASR", n + 1, c).op2 =
             IF n + 1 = W THEN sign ELSE (x \div (2 * p) + sign * r) % (2 * (p * r))
        /\ RegShift(x, "ASR", n + 1, c).c = (x \div p) % 2
        /\ Step("ASR", s).x = s.x \div 2 + (IF s.x >= p * r THEN 1 ELSE 0) * (p * r)
    <3> HIDE DEF sign
    <3> QED
      BY <1>1, <1>2, <1>4, <2>1
  <2>3. Extended(x, p, r, s.x, sign)
    <3>1. x \in Nat /\ x < 2 * (p * r) /\ sign = IF x >= p * r THEN 2 * (p * r) - 1 ELSE 0
      BY <1>2, <2>1
    <3> HIDE DEF sign
    <3>2. s.x = (x \div p + sign * (2 * r)) % (2 * (p * r))
      BY <2>2
    <3> QED
      BY <3>1, <3>2, ArithOneMore
  <2>4. n + 1 = W => r = 1
    BY <2>1
  <2> HIDE DEF sign
  <2> QED
    BY <1>1, <2>2, <2>3, <2>4 DEF Extended
<1> QED
  BY <1>2, <1>3, <1>4

LEMMA StepROR ==
    ASSUME NEW x \in Word, NEW c, NEW n \in Nat, NEW s, s.x = RegShift(x, "ROR", n, c).op2
    PROVE  /\ Step("ROR", s).x = RegShift(x, "ROR", n + 1, c).op2
           /\ Step("ROR", s).c = RegShift(x, "ROR", n + 1, c).c
<1> DEFINE k == n % W
           j == (n + 1) % W
<1>1. /\ s.x = (x \div 2^k + ((x * 2^(W - k)) % (2 * Half))) % (2 * Half)
      /\ RegShift(x, "ROR", n + 1, c).op2 =
           (x \div 2^j + ((x * 2^(W - j)) % (2 * Half))) % (2 * Half)
      /\ RegShift(x, "ROR", n + 1, c).c =
           IF j = 0 THEN (x \div 2^(W - 1)) % 2 ELSE (x \div 2^(j - 1)) % 2
      /\ Step("ROR", s).x = s.x \div 2 + (s.x % 2) * Half
      /\ Step("ROR", s).c = s.x % 2
  BY DEF RegShift, ROR, ShiftRight, ShiftLeft, BitAt, Step
<1>2. W \in Nat \ {0} /\ Half \in Nat \ {0} /\ x \in 0 .. 2 * Half - 1
  BY WidthAssumption, HalfAssumption DEF Word
<1>3. k \in 0 .. W - 1 /\ j = IF k + 1 = W THEN 0 ELSE k + 1
  <2>1. k \in 0 .. W - 1 /\ n \div W \in Nat /\ n = (n \div W) * W + k
    BY <1>2, Division
  <2> DEFINE q == n \div W
  <2> HIDE DEF k, q
  <2>2. CASE k + 1 = W
    <3>1. n + 1 = (q + 1) * W + 0 /\ 0 \in 0 .. W - 1 /\ q + 1 \in Int /\ n + 1 \in Nat
      BY <1>2, <2>1, <2>2 DEF q
    <3> DEFINE m == n + 1
               e == q + 1
    <3>2. m = e * W + 0 /\ 0 \in 0 .. W - 1 /\ e \in Int /\ m \in Nat
      BY <3>1
    <3> HIDE DEF m, e
    <3>3. m % W = 0
      BY <1>2, <3>2, Quotient
    <3> QED
      BY <2>1, <2>2, <3>3 DEF m
  <2>3. CASE k + 1 < W
    <3> DEFINE m == n + 1
               e == k + 1
    <3>1. m = q * W + e /\ e \in 0 .. W - 1 /\ q \in Int /\ m \in Nat
      BY <1>2, <2>1, <2>3 DEF q
    <3> HIDE DEF m, e
    <3>2. m % W = e
      BY <1>2, <3>1, Quotient
    <3> QED
      BY <2>1, <2>3, <3>2 DEF m, e
  <2> QED
    BY <1>2, <2>1, <2>2, <2>3
<1> HIDE DEF k, j
<1>4. PICK p \in Nat \ {0}, r \in Nat \ {0} :
           /\ p = 2^k /\ r = 2^(W - (k + 1))
           /\ 2^(k + 1) = 2 * p /\ 2^(W - k) = 2 * r
           /\ Half = p * r
           /\ k + 1 = W => r = 1
  <2>1. k \in Nat /\ k < W
    BY <1>2, <1>3
  <2> QED
    BY <2>1, Cut
<1>5. s.x = (x \div p + ((x * (2 * r)) % (2 * (p * r)))) % (2 * (p * r))
      /\ Step("ROR", s).x = s.x \div 2 + (s.x % 2) * (p * r)
  BY <1>1, <1>4
<1>6. Rotated(x, p, r, s.x)
  <2>1. x \in Nat /\ x < 2 * (p * r)
    BY <1>2, <1>4
  <2>2. s.x = (x \div p + ((x * (2 * r)) % (2 * (p * r)))) % (2 * (p * r))
    BY <1>5
  <2> QED
    BY <2>1, <2>2, RotateOneMore
<1>7. RegShift(x, "ROR", n + 1, c).c = (x \div p) % 2
  <2>1. CASE k + 1 = W
    <3>1. j = 0 /\ W - 1 = k
      BY <1>2, <1>3, <2>1
    <3> QED
      BY <1>1, <1>4, <3>1
  <2>2. CASE k + 1 < W
    <3>1. j # 0 /\ j - 1 = k
      BY <1>2, <1>3, <2>2
    <3> QED
      BY <1>1, <1>4, <3>1
  <2> QED
    BY <1>2, <1>3, <2>1, <2>2
<1>8. CASE k + 1 < W
  <2>1. j = k + 1
    BY <1>2, <1>3, <1>8
  <2>2. RegShift(x, "ROR", n + 1, c).op2 =
          (x \div (2 * p) + ((x * r) % (2 * (p * r)))) % (2 * (p * r))
    BY <1>1, <1>4, <2>1
  <2> QED
    BY <1>1, <1>5, <1>6, <1>7, <2>2 DEF Rotated
<1>9. CASE k + 1 = W
  <2>1. j = 0 /\ r = 1
    BY <1>2, <1>3, <1>4, <1>9
  <2>2. (x \div 2^0 + ((x * 2^(W - 0)) % (2 * Half))) % (2 * Half) = x
    <3>1. 2^0 = 1
      OBVIOUS
    <3>2. 2^(W - 0) = 2 * Half
      <4>1. 0 \in 0 .. W
        BY <1>2
      <4>2. 2^0 * 2^(W - 0) = 2 * Half /\ 2^(W - 0) \in Nat
        BY <4>1, Powers
      <4> QED
        BY <3>1, <4>2
    <3> DEFINE m == 2 * Half
    <3>3. m \in Nat \ {0} /\ x \in 0 .. m - 1
      BY <1>2
    <3> HIDE DEF m
    <3>4. (x * m) % m = 0 /\ x \div 1 = x /\ x % m = x
      BY <3>3
    <3> QED
      BY <3>1, <3>2, <3>3, <3>4 DEF m
  <2>3. RegShift(x, "ROR", n + 1, c).op2 = x
    BY <1>1, <2>1, <2>2
  <2> QED
    BY <1>1, <1>5, <1>6, <1>7, <2>1, <2>3 DEF Rotated
<1> QED
  BY <1>2, <1>3, <1>8, <1>9

-----------------------------------------------------------------------------
(* Shifts by any amount *)

\* A shift by nothing keeps the word.
LEMMA Start ==
    ASSUME NEW x \in Word, NEW c, NEW type \in ShiftTypes
    PROVE  /\ RegShift(x, type, 0, c).op2 = x
           /\ type # "ROR" => RegShift(x, type, 0, c).c = c
<1> DEFINE m == 2 * Half
<1>1. W \in Nat \ {0} /\ m \in Nat \ {0} /\ x \in 0 .. m - 1 /\ Half \in Nat
  BY WidthAssumption, HalfAssumption DEF Word
<1>2. 2^0 = 1 /\ 2^(W - 0) = m
  <2>1. 2^0 = 1
    OBVIOUS
  <2>2. 0 \in 0 .. W
    BY <1>1
  <2>3. 2^0 * 2^(W - 0) = 2 * Half /\ 2^(W - 0) \in Nat
    BY <2>2, Powers
  <2> QED
    BY <2>1, <2>3
<1>3. ~(0 > W - 1) /\ 0 % W = 0
  BY <1>1
<1>4. x \div 1 = x /\ (x * 1) % m = x /\ (x * m) % m = 0 /\ (x + 0) % m = x
  <2> HIDE DEF m
  <2> QED
    BY <1>1
<1>5. CASE type = "LSL"
  BY <1>2, <1>3, <1>4, <1>5 DEF RegShift, ShiftLeft
<1>6. CASE type = "LSR"
  BY <1>2, <1>3, <1>4, <1>6 DEF RegShift, ShiftRight
<1>7. CASE type = "ASR"
  <2>1. RegShift(x, "ASR", 0, c).op2 = (x + Sign(x) * m) % m /\ RegShift(x, "ASR", 0, c).c = c
    BY <1>2, <1>3, <1>4 DEF RegShift, ShiftArith, ShiftRight
  <2>2. (x + Sign(x) * m) % m = x
    <3>1. Sign(x) \in Nat
      BY <1>1, HalfAssumption DEF Sign, Neg
    <3> DEFINE g == Sign(x)
               y == x + g * m
    <3>2. y = g * m + x /\ y \in Nat /\ g \in Int
      <4> HIDE DEF m
      <4>1. g * m \in Nat
        BY <1>1, <3>1
      <4> QED
        BY <1>1, <3>1, <4>1
    <3> HIDE DEF y, g, m
    <3>3. y % m = x
      BY <1>1, <3>2, Quotient
    <3> QED
      BY <3>3 DEF y, g
  <2> QED
    BY <1>7, <2>1, <2>2
<1>8. CASE type = "ROR"
  <2>1. RegShift(x, "ROR", 0, c).op2 = (x \div 2^0 + ((x * 2^(W - 0)) % m)) % m
    BY <1>3 DEF RegShift, ROR, ShiftRight, ShiftLeft
  <2> QED
    BY <1>2, <1>4, <1>8, <2>1
<1> QED
  BY <1>5, <1>6, <1>7, <1>8 DEF ShiftTypes

\* Where the carry of the code is not the carry of the bit-serial shift.
Apart == {<<"LSL", W>>, <<"ROR", 0>>}

LEMMA ByRegister ==
    ASSUME NEW x \in Word, NEW c, NEW type \in ShiftTypes, NEW n \in Nat
    PROVE  LET exact == Serial(type, [x |-> x, c |-> c], n)
               s     == RegShift(x, type, n, c)
           IN  /\ exact.x = s.op2
               /\ exact.c = s.c \/ <<type, n>> \in Apart
<1> DEFINE e(k) == Serial(type, [x |-> x, c |-> c], k)
           s(k) == RegShift(x, type, k, c)
           S == {k \in Nat : /\ e(k).x = s(k).op2
                             /\ e(k).c = s(k).c \/ <<type, k>> \in Apart}
<1>1. 0 \in S
  <2>1. e(0) = [x |-> x, c |-> c]
    BY SerialStep
  <2>2. s(0).op2 = x /\ (type # "ROR" => s(0).c = c)
    BY Start
  <2>3. type = "ROR" => <<type, 0>> \in Apart
    BY DEF Apart
  <2> HIDE DEF e, s
  <2> QED
    BY <2>1, <2>2, <2>3
<1>2. \A k \in Nat : k \in S => k + 1 \in S
  <2> SUFFICES ASSUME NEW k \in Nat, e(k).x = s(k).op2
               PROVE  /\ e(k + 1).x = s(k + 1).op2
                      /\ e(k + 1).c = s(k + 1).c \/ <<type, k + 1>> \in Apart
    OBVIOUS
  <2>1. e(k + 1) = Step(type, e(k))
    BY SerialStep
  <2>2. CASE type = "LSL"
    <3>1. /\ Step("LSL", e(k)).x = RegShift(x, "LSL", k + 1, c).op2
          /\ k + 1 # W => Step("LSL", e(k)).c = RegShift(x, "LSL", k + 1, c).c
      <4> HIDE DEF e
      <4> QED
        BY <2>2, StepLSL
    <3>2. k + 1 = W => <<type, k + 1>> \in Apart
      BY <2>2 DEF Apart
    <3> HIDE DEF e
    <3> QED
      BY <2>1, <2>2, <3>1, <3>2
  <2>3. CASE type = "LSR"
    <3> HIDE DEF e
    <3>1. /\ Step("LSR", e(k)).x = RegShift(x, "LSR", k + 1, c).op2
          /\ Step("LSR", e(k)).c = RegShift(x, "LSR", k + 1, c).c
      BY <2>3, StepLSR
    <3> QED
      BY <2>1, <2>3, <3>1
  <2>4. CASE type = "ASR"
    <3> HIDE DEF e
    <3>1. /\ Step("ASR", e(k)).x = RegShift(x, "ASR", k + 1, c).op2
          /\ Step("ASR", e(k)).c = RegShift(x, "ASR", k + 1, c).c
      BY <2>4, StepASR
    <3> QED
      BY <2>1, <2>4, <3>1
  <2>5. CASE type = "ROR"
    <3> HIDE DEF e
    <3>1. /\ Step("ROR", e(k)).x = RegShift(x, "ROR", k + 1, c).op2
          /\ Step("ROR", e(k)).c = RegShift(x, "ROR", k + 1, c).c
      BY <2>5, StepROR
    <3> QED
      BY <2>1, <2>5, <3>1
  <2> QED
    BY <2>2, <2>3, <2>4, <2>5 DEF ShiftTypes
<1> HIDE DEF S
<1>3. \A k \in Nat : k \in S
  BY <1>1, <1>2, Induct
<1> QED
  BY <1>3 DEF S

\* The encodings of immediate amounts, zero included.
LEMMA ByAmount ==
    ASSUME NEW x \in Word, NEW c, NEW sh \in Shifts
    PROVE  LET exact == Serial(SerialType(sh), [x |-> x, c |-> c], SerialCount(sh))
               sft   == Shifter(x, sh, c)
           IN  /\ exact.x = sft.op2
               /\ \/ sft.c = exact.c
                  \/ sh.byreg /\ <<sh.type, sh.amount>> \in Apart
<1> DEFINE e == Serial(SerialType(sh), [x |-> x, c |-> c], SerialCount(sh))
           s == Shifter(x, sh, c)
<1> SUFFICES e.x = s.op2 /\ (e.c = s.c \/ (sh.byreg /\ <<sh.type, sh.amount>> \in Apart))
  BY Zenon
<1>1. sh.type \in ShiftTypes /\ sh.amount \in Nat /\ (sh.byreg \/ sh.amount < W)
  BY ShiftsAssumption
<1>2. CASE sh.byreg
  <2>1. SerialType(sh) = sh.type /\ SerialCount(sh) = sh.amount
        /\ Shifter(x, sh, c) = RegShift(x, sh.type, sh.amount, c)
    BY <1>2 DEF SerialType, SerialCount, Shifter
  <2> DEFINE d == Serial(sh.type, [x |-> x, c |-> c], sh.amount)
             g == RegShift(x, sh.type, sh.amount, c)
  <2>2. d.x = g.op2 /\ (d.c = g.c \/ <<sh.type, sh.amount>> \in Apart)
    BY <1>1, ByRegister
  <2>3. e = d /\ s = g
    BY <2>1
  <2> HIDE DEF e, s, d, g
  <2> QED
    BY <1>2, <2>2, <2>3, Zenon
<1>3. CASE ~sh.byreg /\ sh.type = "ROR" /\ sh.amount = 0
  <2>1. SerialType(sh) = "RRX" /\ SerialCount(sh) = 0 + 1
    BY <1>3 DEF SerialType, SerialCount
  <2>2. Serial("RRX", [x |-> x, c |-> c], 0 + 1) = Step("RRX", [x |-> x, c |-> c])
    <3> DEFINE b == [x |-> x, c |-> c]
    <3> HIDE DEF b
    <3>1. 0 \in Nat /\ Serial("RRX", b, 0) = b
      BY SerialStep
    <3>2. Serial("RRX", b, 0 + 1) = Step("RRX", Serial("RRX", b, 0))
      BY <3>1, SerialStep, Zenon
    <3> QED
      BY <3>1, <3>2 DEF b
  <2>3. /\ Step("RRX", [x |-> x, c |-> c]).x = x \div 2 + c * Half
        /\ Step("RRX", [x |-> x, c |-> c]).c = x % 2
    BY DEF Step
  <2>4. /\ Shifter(x, sh, c).op2 = x \div 2^1 + c * Half
        /\ Shifter(x, sh, c).c = x % 2
    BY <1>3 DEF Shifter, ImmShift, ShiftRight
  <2>5. 2^1 = 2
    OBVIOUS
  <2>6. e = Step("RRX", [x |-> x, c |-> c])
    BY <2>1, <2>2
  <2> HIDE DEF e, s
  <2>7. e.x = s.op2 /\ e.c = s.c
    BY <2>3, <2>4, <2>5, <2>6 DEF s
  <2> QED
    BY <2>7
<1>4. CASE ~sh.byreg /\ ~(sh.type = "ROR" /\ sh.amount = 0)
  <2> DEFINE n == IF sh.amount # 0 \/ sh.type = "LSL" THEN sh.amount ELSE W
  <2>1. SerialType(sh) = sh.type /\ SerialCount(sh) = n /\ n \in Nat
    BY <1>1, <1>4, WidthAssumption DEF SerialType, SerialCount
  <2>2. W \in Nat \ {0}
    BY WidthAssumption
  <2>3. <<sh.type, n>> \notin Apart
    BY <1>1, <1>4, <2>2 DEF Apart, ShiftTypes
  <2>4. Shifter(x, sh, c).op2 = RegShift(x, sh.type, n, c).op2
        /\ Shifter(x, sh, c).c = RegShift(x, sh.type, n, c).c
    <3>1. CASE sh.type = "LSL"
      BY <1>1, <1>4, <2>2, <3>1 DEF Shifter, ImmShift, RegShift
    <3>2. CASE sh.type = "LSR"
      BY <1>1, <1>4, <2>2, <3>2 DEF Shifter, ImmShift, RegShift
    <3>3. CASE sh.type = "ASR"
      BY <1>1, <1>4, <2>2, <3>3 DEF Shifter, ImmShift, RegShift
    <3>4. CASE sh.type = "ROR"
      <4>1. n = sh.amount /\ n # 0 /\ n \in 0 .. W - 1 /\ n % W = n
        BY <1>1, <1>4, <2>2, <3>4
      <4> QED
        BY <1>4, <3>4, <4>1 DEF Shifter, ImmShift, RegShift
    <3> QED
      BY <1>1, <3>1, <3>2, <3>3, <3>4 DEF ShiftTypes
  <2> HIDE DEF n
  <2>5. /\ Serial(sh.type, [x |-> x, c |-> c], n).x = RegShift(x, sh.type, n, c).op2
        /\ Serial(sh.type, [x |-> x, c |-> c], n).c = RegShift(x, sh.type, n, c).c
    BY <1>1, <2>1, <2>3, ByRegister
  <2>6. e = Serial(sh.type, [x |-> x, c |-> c], n)
    BY <2>1
  <2> HIDE DEF e
  <2>7. e.x = s.op2 /\ e.c = s.c
    BY <2>4, <2>5, <2>6
  <2> QED
    BY <2>7
<1> QED
  BY <1>2, <1>3, <1>4

-----------------------------------------------------------------------------
(* Rotated immediates *)

\* RotateBits, two shifts and an or, is k rotations by one bit; the carry
\* is the bit the last of them moved to the top.
LEMMA ByRotation ==
    ASSUME NEW X, X \subseteq 0 .. 31, NEW c, NEW n \in 0 .. 31
    PROVE  LET exact == Serial("IMM", [x |-> X, c |-> c], n)
           IN  /\ exact.x = RotateBits(X, n)
               /\ exact.c = IF n = 0 THEN c ELSE B(0 \in RotateBits(X, n - 1))
<1> DEFINE b == [x |-> X, c |-> c]
           e(k) == Serial("IMM", b, k)
           S == {k \in Nat : k <= 31 =>
                   /\ e(k).x = RotateBits(X, k)
                   /\ e(k).c = IF k = 0 THEN c ELSE B(0 \in RotateBits(X, k - 1))}
<1>1. 0 \in S
  <2>1. e(0) = b
    BY SerialStep
  <2>2. RotateBits(X, 0) = X
    <3>1. \A i \in X : i \in Int /\ i >= 0 /\ ~(i < 0) /\ i - 0 = i
      OBVIOUS
    <3>2. {j \in X : j >= 0} = X /\ {j \in X : j < 0} = {}
      BY <3>1
    <3>3. {i - 0 : i \in X} = X
      BY <3>1
    <3> QED
      BY <3>2, <3>3 DEF RotateBits
  <2> HIDE DEF e
  <2> QED
    BY <2>1, <2>2
<1>2. \A k \in Nat : k \in S => k + 1 \in S
  <2> SUFFICES ASSUME NEW k \in Nat, k <= 30, e(k).x = RotateBits(X, k)
               PROVE  /\ e(k + 1).x = RotateBits(X, k + 1)
                      /\ e(k + 1).c = B(0 \in RotateBits(X, k))
    OBVIOUS
  <2>1. e(k + 1) = Step("IMM", e(k))
    BY SerialStep
  <2> HIDE DEF e
  <2>2. /\ e(k + 1).x = {(i + 31) % 32 : i \in RotateBits(X, k)}
        /\ e(k + 1).c = B(0 \in RotateBits(X, k))
    BY <2>1 DEF Step
  <2>3. {(i + 31) % 32 : i \in RotateBits(X, k)} = RotateBits(X, k + 1)
    <3>1. ASSUME NEW i \in X PROVE i \in 0 .. 31
      OBVIOUS
    <3>2. ASSUME NEW j \in RotateBits(X, k) PROVE (j + 31) % 32 \in RotateBits(X, k + 1)
      <4>1. PICK i \in X : j = IF i >= k THEN i - k ELSE i + 32 - k
        BY <3>1, <3>2 DEF RotateBits
      <4>2. (j + 31) % 32 = IF i >= k + 1 THEN i - (k + 1) ELSE i + 32 - (k + 1)
        BY <3>1, <4>1
      <4> QED
        BY <3>1, <4>2 DEF RotateBits
    <3>3. ASSUME NEW l \in RotateBits(X, k + 1)
          PROVE  \E j \in RotateBits(X, k) : l = (j + 31) % 32
      <4>1. PICK i \in X : l = IF i >= k + 1 THEN i - (k + 1) ELSE i + 32 - (k + 1)
        BY <3>1, <3>3 DEF RotateBits
      <4> DEFINE j == IF i >= k THEN i - k ELSE i + 32 - k
      <4>2. j \in RotateBits(X, k)
        BY <3>1 DEF RotateBits
      <4>3. l = (j + 31) % 32
        BY <3>1, <4>1
      <4> QED
        BY <4>2, <4>3
    <3> QED
      BY <3>2, <3>3
  <2> QED
    BY <2>2, <2>3
<1> HIDE DEF S
<1>3. \A k \in Nat : k \in S
  BY <1>1, <1>2, Induct
<1>4. n \in Nat /\ n <= 31
  OBVIOUS
<1> QED
  BY <1>3, <1>4 DEF S

\* The carry of a rotated immediate may be read from its field: where a bit of
\* the rotation is read instead of one of the value, it is zero, as is the
\* bit of the value.
CarryOfValue(field, c) ==
    ImmCarry(field, c) =
      IF Amount(field) = 0 THEN c
      ELSE B(0 \in RotateBits(Bits(field % 256, 8), Amount(field) - 1))

LEMMA ByField == ASSUME NEW field \in Fields, NEW c PROVE CarryOfValue(field, c)
<1> DEFINE rot == field \div 256
           val == field % 256
<1>1. rot \in 0 .. 15 /\ val \in 0 .. 255 /\ field = rot * 256 + val /\ Amount(field) = rot * 2
  BY FieldsAssumption DEF Amount
<1> HIDE DEF rot, val
<1>2. CASE rot = 0
  BY <1>1, <1>2 DEF ImmCarry, CarryOfValue
<1>3. CASE rot # 0
  <2> DEFINE k == rot * 2 - 1
  <2>1. k \in 1 .. 29 /\ Amount(field) # 0 /\ Amount(field) - 1 = k
    BY <1>1, <1>3
  <2>2. (0 \in RotateBits(Bits(val, 8), k)) <=> (k \in Bits(val, 8))
    <3> HIDE DEF k
    <3>1. \A i \in Bits(val, 8) : i \in 0 .. 7
      BY DEF Bits
    <3> QED
      BY <2>1, <3>1 DEF RotateBits
  <2>3. (k \in Bits(field, 12)) <=> (k \in Bits(val, 8))
    <3>1. /\ 2^1 = 2 /\ 2^3 = 8 /\ 2^5 = 32 /\ 2^7 = 128 /\ 2^9 = 512 /\ 2^11 = 2048
      OBVIOUS
    <3>2. CASE rot = 1
      BY <1>1, <3>1, <3>2 DEF Bits
    <3>3. CASE rot = 2
      BY <1>1, <3>1, <3>3 DEF Bits
    <3>4. CASE rot = 3
      BY <1>1, <3>1, <3>4 DEF Bits
    <3>5. CASE rot = 4
      BY <1>1, <3>1, <3>5 DEF Bits
    <3>6. CASE rot = 5
      BY <1>1, <3>1, <3>6 DEF Bits
    <3>7. CASE rot = 6
      BY <1>1, <3>1, <3>7 DEF Bits
    <3>8. CASE rot >= 7
      BY <1>1, <3>8 DEF Bits
    <3> QED
      BY <1>1, <1>3, <3>2, <3>3, <3>4, <3>5, <3>6, <3>7, <3>8
  <2> QED
    BY <2>1, <2>2, <2>3 DEF ImmCarry, CarryOfValue, val
<1> QED
  BY <1>2, <1>3

IsSerial(field, c) ==
    LET X     == Bits(field % 256, 8)
        exact == Serial("IMM", [x |-> X, c |-> c], Amount(field))
    IN  RotateBits(X, Amount(field)) = exact.x /\ ImmCarry(field, c) = exact.c

LEMMA Immediate == ASSUME NEW field \in Fields, NEW c PROVE IsSerial(field, c)
<1> DEFINE X == Bits(field % 256, 8)
           n == Amount(field)
<1>1. n \in 0 .. 31
  <2>1. field \in 0 .. 4095
    BY FieldsAssumption
  <2> QED
    BY <2>1 DEF Amount
<1>2. X \subseteq 0 .. 31
  BY DEF Bits
<1>3. ImmCarry(field, c) = IF n = 0 THEN c ELSE B(0 \in RotateBits(X, n - 1))
  <2>1. CarryOfValue(field, c)
    BY ByField
  <2> QED
    BY <2>1 DEF CarryOfValue
<1> HIDE DEF X, n
<1>4. LET exact == Serial("IMM", [x |-> X, c |-> c], n)
      IN  /\ exact.x = RotateBits(X, n)
          /\ exact.c = IF n = 0 THEN c ELSE B(0 \in RotateBits(X, n - 1))
  BY <1>1, <1>2, ByRotation
<1> QED
  BY <1>3, <1>4 DEF X, n, IsSerial

-----------------------------------------------------------------------------
(* The operands the program computes *)

Encodings == [kind : {"reg"}, x : Word, sh : Shifts, c : Bit]
            \cup [kind : {"imm"}, field : Fields, c : Bit]

\* The operand and the carry of an instruction, as the actions compute them.
Computed ==
    /\ insn \in Encodings
    /\ \/ out.done = FALSE
       \/ /\ insn.kind = "reg"
          /\ out.op2 = Shifter(insn.x, insn.sh, insn.c).op2
          /\ out.c = Shifter(insn.x, insn.sh, insn.c).c
       \/ /\ insn.kind = "imm"
          /\ out.op2 = RotateBits(Bits(insn.field % 256, 8), Amount(insn.field))
          /\ out.c = ImmCarry(insn.field, insn.c)

LEMMA Computes == OSpec => []Computed
<1>1. OInit => Computed
  BY DEF OInit, Computed, Encodings, NoOut
<1>2. Computed /\ [ONext]_ovars => Computed'
  <2> SUFFICES ASSUME Computed, [ONext]_ovars PROVE Computed'
    OBVIOUS
  <2>1. CASE RegOperand
    BY <2>1 DEF RegOperand, Computed
  <2>2. CASE ImmOperand
    BY <2>2 DEF ImmOperand, Computed
  <2>3. CASE UNCHANGED ovars
    BY <2>3 DEF ovars, Computed
  <2> QED
    BY <2>1, <2>2, <2>3 DEF ONext
<1> QED
  BY <1>1, <1>2, PTL DEF OSpec

\* The shifter of exec_dp is a shift by one bit at a time, for words of every
\* width and every amount a register or an instruction holds.
THEOREM ShiftsExact == OSpec => []ShifterExact
<1>1. Computed => ShifterExact
  <2> SUFFICES ASSUME Computed, insn.kind = "reg", out.done
               PROVE  LET exact == Serial(SerialType(insn.sh), [x |-> insn.x, c |-> insn.c],
                                          SerialCount(insn.sh))
                      IN  /\ out.op2 = exact.x
                          /\ \/ out.c = exact.c
                             \/ insn.sh.byreg /\ <<insn.sh.type, insn.sh.amount>> \in Apart
    BY DEF ShifterExact, Apart
  <2>1. insn.x \in Word /\ insn.sh \in Shifts
    BY DEF Computed, Encodings
  <2>2. /\ out.op2 = Shifter(insn.x, insn.sh, insn.c).op2
        /\ out.c = Shifter(insn.x, insn.sh, insn.c).c
    BY DEF Computed
  <2> QED
    BY <2>1, <2>2, ByAmount
<1> QED
  BY <1>1, Computes, PTL

\* A rotated immediate is its value rotated one bit at a time, with the last
\* bit rotated out as the carry, although exec_dp_imm reads it from the field.
THEOREM ImmediatesExact == OSpec => []ImmediateExact
<1>1. Computed => ImmediateExact
  <2> SUFFICES ASSUME Computed, insn.kind = "imm", out.done PROVE ImmediateExact
    BY DEF ImmediateExact
  <2>1. insn.field \in Fields
    <3>1. insn \in [kind : {"imm"}, field : Fields, c : Bit]
      BY DEF Computed, Encodings
    <3> QED
      BY <3>1
  <2>2. /\ out.op2 = RotateBits(Bits(insn.field % 256, 8), Amount(insn.field))
        /\ out.c = ImmCarry(insn.field, insn.c)
    BY DEF Computed
  <2> QED
    <3>1. IsSerial(insn.field, insn.c)
      BY <2>1, Immediate
    <3> QED
      BY <2>2, <3>1 DEF IsSerial, ImmediateExact
<1> QED
  BY <1>1, Computes, PTL
=============================================================================
