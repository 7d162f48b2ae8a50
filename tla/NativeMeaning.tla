---------------------------- MODULE NativeMeaning ----------------------------
(***************************************************************************)
(* What generated code does, in the terms of PhetaMeaning: symbolic        *)
(* execution of the x86 instructions from the register file the ARM        *)
(* registers are in.  A memory function gives its result in EAX and may    *)
(* leave anything in ECX and EDX.  A return with something left on the     *)
(* stack goes astray.                                                      *)
(***************************************************************************)
EXTENDS PhetaMeaning

CONSTANT Steps  \* bound: instructions on one path

Neg(t) == IF t[1] = "neg" THEN t[2] ELSE <<"neg", t>>
Junk == <<"junk">>

Begin == [host |-> [r \in 0..7 |-> Junk],
          file |-> [r \in Regs |-> <<"r", r>>] @@ (15 :> Junk),
          flag |-> [f \in NZCV |-> <<"flag", f>>],
          byte |-> [p \in 0..15 |-> Junk],
          hf |-> [f \in NZCV |-> Junk], bit |-> Junk,
          stack |-> << >>, mem |-> << >>, path |-> << >>, aborted |-> FALSE,
          at |-> 0]

Read(s, o) ==
  CASE o[1] = "r" -> s.host[o[2]]
    [] o[1] = "m" -> IF o[2] \in DOMAIN s.file THEN s.file[o[2]] ELSE Junk
    [] o[1] \in {"f", "w"} -> s.flag[o[2]]
    [] o[1] = "p" -> s.byte[o[2]]
    [] o[1] = "i" -> o[2]
Write(s, o, v) ==
  CASE o[1] = "r" -> [s EXCEPT !.host[o[2]] = v]
    [] o[1] = "m" -> [s EXCEPT !.file = (o[2] :> v) @@ @]

Arm == [SHL |-> "LSL", SHR |-> "LSR", SAR |-> "ASR", ROR |-> "ROR", RCR |-> "RRX",
        AND |-> "AND", TEST |-> "AND", OR |-> "OR", XOR |-> "EOR", ADD |-> "ADD",
        ADC |-> "ADC", SUB |-> "SUB", CMP |-> "SUB", SBB |-> "SBC", IMUL |-> "MUL"]

\* Two operands: the result of the ARM operation, and its flags.  The x86
\* borrows where ARM carries.
Two(s, op, x, y) ==
  LET a == Read(s, x)
      b == CASE op = "ADC" -> <<Read(s, y), s.hf["C"]>>
             [] op = "SBB" -> <<Read(s, y), Neg(s.hf["C"])>>
             [] op = "RCR" -> s.hf["C"]
             [] OTHER -> Read(s, y)
      same == op = "TEST" /\ x = y
      v == IF same THEN a ELSE Term(Arm[op], a, b)
      F(f) == CASE f \in NZ -> <<f, v>>
                [] op \in {"SUB", "SBB", "CMP"} /\ f = "C" -> Neg(Flag(f, Arm[op], a, b))
                [] op \in {"AND", "OR", "XOR", "TEST"} -> Const(0)
                [] OTHER -> Flag(f, Arm[op], a, b)
      t == [s EXCEPT !.hf = IF op = "IMUL" THEN [f \in NZCV |-> Junk]
                            ELSE IF op \in {"ROR", "RCR"} THEN [@ EXCEPT !["C"] = F("C")]
                            ELSE [f \in NZCV |-> F(f)]]
  IN IF op \in {"TEST", "CMP"} THEN t ELSE Write(t, x, v)

Push(s, v) == [s EXCEPT !.stack = <<v>> \o @]
Drop(s, n) == IF n > Len(s.stack) THEN [s EXCEPT !.stack = <<Junk>>]
              ELSE [s EXCEPT !.stack = SubSeq(@, n + 1, Len(@))]

Call(s, fn) ==
  LET Arg(n) == IF n <= Len(s.stack) THEN s.stack[n] ELSE Junk
      c == [s EXCEPT !.host = [@ EXCEPT ![0] = Junk, ![1] = Junk, ![2] = Junk],
                     !.hf = [f \in NZCV |-> Junk]]
      size == IF fn \in {"LDB", "STB"} THEN "B" ELSE "W"
  IN CASE fn \in {"LDW", "LDB"} ->
            [c EXCEPT !.host[0] = <<size, Arg(2), Const(Len(s.mem))>>]
       [] fn \in {"STW", "STB"} -> Store(c, Arg(3), size, Arg(2))
       [] fn = "dataabort" -> [c EXCEPT !.aborted = TRUE]

\* The question a condition asks of the host's flags.  After a comparison or
\* subtraction HI is ARM's, CS is its opposite.
Asked86(s, cond) ==
  Question(cond, [s.hf EXCEPT !["C"] = IF cond \div 2 = 4 THEN Neg(@) ELSE @])
CondOf == [SETE |-> 0, SETNE |-> 1, SETB |-> 2, SETAE |-> 3, SETS |-> 4,
           SETNS |-> 5, SETO |-> 6, SETNO |-> 7, SETA |-> 8, SETBE |-> 9,
           SETGE |-> 10, SETL |-> 11, SETG |-> 12, SETLE |-> 13]
SetByte(s, op, o) ==
  IF o[1] = "p" THEN [s EXCEPT !.byte[o[2]] = <<CondOf[op], Asked86(s, CondOf[op])>>]
  ELSE LET c == s.hf["C"]
           v == CASE op = "SETB" -> c [] op = "SETAE" -> Neg(c)
                  [] op = "SETO" -> s.hf["V"] [] op = "SETS" -> s.hf["N"]
                  [] op = "SETE" -> s.hf["Z"]
       IN [s EXCEPT !.flag[o[2]] = v]

\* An instruction that does not jump
Do(s, i) ==
  LET a == i.args
  IN CASE i.op \in DOMAIN CondOf -> SetByte(s, i.op, a[1])
       [] i.op = "MOV" -> Write(s, a[1], Read(s, a[2]))
       [] i.op = "LEA" -> Write(s, a[1], Term("ADD", Read(s, a[2]), Read(s, a[3])))
       [] i.op = "NOT" -> Write(s, a[1], <<"NOT", Read(s, a[1])>>)
       [] i.op = "PUSH" -> Push(s, Read(s, a[1]))
       [] i.op = "POP" -> Write(Drop(s, 1), a[1],
                                IF s.stack = << >> THEN Junk ELSE s.stack[1])
       [] i.op = "CALL" -> Call(s, a[1][2][2])
       [] i.op = "ADD" /\ a[1] = <<"r", 4>> -> Drop(s, a[2][2][2])
       [] i.op = "CMC" -> [s EXCEPT !.hf["C"] = Neg(@)]
       [] i.op \in {"CLC", "STC"} ->
            [s EXCEPT !.hf["C"] = Const(IF i.op = "CLC" THEN 0 ELSE 1)]
       [] i.op = "BT" -> [s EXCEPT !.hf["C"] = IF a[1][1] = "w" THEN Read(s, a[1])
                                               ELSE <<"bit", Read(s, a[1]), a[2][2][2]>>]
       [] i.op = "TEST" /\ a[1][1] = "fault" -> [s EXCEPT !.bit = <<"fault">>]
       [] i.op = "TEST" /\ a[1][1] = "p" -> [s EXCEPT !.bit = s.byte[a[1][2]]]
       [] OTHER -> [Two(s, i.op, a[1], a[2]) EXCEPT !.bit = Junk]

\* A test of a predicate byte and the answers to it: <<true?, path>>.  After
\* anything else a conditional jump may do either.
Tested(s) ==
  LET c == s.bit[1]
      q == s.bit[2]
  IN CASE s.bit = <<"fault">> \/ s.bit = Junk -> {<<y, s.path>> : y \in BOOLEAN}
       [] Asked(s.path, q) -> {<<Answer(c, s.path[q]), s.path>>}
       [] OTHER -> {<<Answer(c, y), (q :> y) @@ s.path>> : y \in BOOLEAN}

Size(op) == CASE op \in {"JE", "JNE"} -> 6 [] op = "JMP" -> 5 [] op = "JE8" -> 2
              [] OTHER -> 1

RECURSIVE Exec(_, _, _)
Exec(code, s, fuel) ==
  LET here == {n \in DOMAIN code : code[n].at = s.at}
      i == code[CHOOSE n \in here : TRUE]
      next == s.at + Size(i.op)
      Goto(t, at) == Exec(code, [t EXCEPT !.at = at], fuel - 1)
      Over(a) == IF (i.op = "JNE") = a[1] THEN next + i.args[1][2][2] ELSE next
      regs == [r \in Regs |-> s.file[r]]
      out == [pc |-> IF s.aborted THEN <<"abort">> ELSE << >>, regs |-> regs,
              mem |-> s.mem, path |-> s.path, flags |-> s.flag, r15 |-> s.file[15]]
  IN CASE fuel = 0 -> {}
       [] fuel > 0 /\ here = {} -> {[out EXCEPT !.pc = <<"lost">>]}
       [] fuel > 0 /\ here # {} /\ i.op = "RET" ->
            {IF s.stack # << >> THEN [out EXCEPT !.pc = <<"wild">>] ELSE out}
       [] fuel > 0 /\ here # {} /\ i.op = "JMP" -> Goto(s, next + i.args[1][2][2])
       [] fuel > 0 /\ here # {} /\ i.op \in {"JE", "JE8", "JNE"} ->
            UNION {IF Cardinality(DOMAIN a[2]) > Questions THEN {}
                   ELSE Goto([s EXCEPT !.path = a[2]], Over(a)) : a \in Tested(s)}
       [] OTHER -> Goto(Do(s, i), next)

exec(code) == Exec(code, Begin, Steps)
=============================================================================
