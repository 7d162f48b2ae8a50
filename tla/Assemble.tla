------------------------------ MODULE Assemble -------------------------------
(***************************************************************************)
(* From the buffers of the blocks to native code (the operand dispatch and *)
(* genx86_flatten_code of genx86.c, relocate.c).  The code is the sequence *)
(* of instructions with their addresses; the operand of a jump is the      *)
(* displacement in its last bytes.  Relocations change it afterwards.      *)
(***************************************************************************)
EXTENDS LinearScan

\* genx86_translatealloc: where a temporary is.  Words of constants keep their
\* size, bytes are signed.
Place(alloc, t) ==
  LET a == alloc[close(alloc, t)]
  IN CASE a.type = "IREG" -> <<"r", a.v>>
       [] a.type = "RFILE" -> <<"m", a.v>>
       [] a.type \in Constant -> <<"i", a.v>>
       [] OTHER -> << >>

Small(alloc, o) ==
  IF o[1] = "t" THEN LET a == alloc[close(alloc, o[2])]
                     IN a.type = "CONSTB" /\ a.v[2] < 128
  ELSE o[2][1] = "const" /\ o[2][2] < 128

\* Shape of an operand: register, word or byte of memory, byte or word constant
Shape(alloc, o) ==
  LET p == IF o[1] = "t" THEN Place(alloc, o[2]) ELSE o
  IN CASE p = << >> -> "?"
       [] p[1] \in {"r", "m"} -> p[1]
       [] p[1] = "w" -> "m"
       [] p[1] = "i" -> IF Small(alloc, o) THEN "i" ELSE "I"
       [] OTHER -> "b"

\* genx86_tab: the forms an instruction comes in
Sets == {"SETE", "SETNE", "SETB", "SETAE", "SETS", "SETNS", "SETO", "SETNO",
         "SETA", "SETBE", "SETGE", "SETL", "SETG", "SETLE"}
forms ==
  [op \in {"SHL", "SHR", "SAR", "ROR", "RCR"} |-> {"Mi"}]
  @@ [op \in {"AND", "OR", "XOR", "ADD", "ADC", "SUB", "SBB"} |->
        {"RM", "MR", "Mi", "MI"}]
  @@ [op \in Sets |-> {"m"}]
  @@ [op \in {"RET", "CMC", "STC", "CLC"} |-> {"n"}]
  @@ [op \in {"JE", "JNE", "JMP", "JE8"} |-> {"i", "I"}]
  @@ [IMUL |-> {"RM"}, LEA |-> {"RM"}, NOT |-> {"M", "m"}, POP |-> {"M", "R"},
      MOV |-> {"RM", "MR", "MI", "RI", "rm", "mr", "ri", "mi"},
      PUSH |-> {"M", "i", "I", "R"}, TEST |-> {"MR", "MI", "mi"},
      CMP |-> {"RM", "MR", "MI"}, CALL |-> {"I"}, BT |-> {"MR", "Mi"}]

\* Mutant of r32_2: a byte constant has no word form to fall back on.
r32_2_narrow(s) == CASE s = "i" -> {"Mi"} [] s = "I" -> {"RI", "MI"}
                     [] s = "r" -> {"RM", "MR"} [] s = "m" -> {"RM"} [] OTHER -> {}

\* The forms that encode an instruction by the shapes of its operands: register
\* first, word of memory first, byte of memory first, one operand (genx86_asm
\* and below).
r32_2(s) == CASE s = "i" -> {"Mi", "MI"} [] s = "I" -> {"RI", "MI"}
              [] s = "r" -> {"RM", "MR"} [] s = "m" -> {"RM"} [] OTHER -> {}
m32_2(s) == CASE s = "i" -> {"Mi"} [] s = "I" -> {"MI"} [] s = "r" -> {"MR"}
              [] OTHER -> {}
m8_2(s) == IF s = "i" THEN {"mi"} ELSE {}
asm_1(s) == CASE s = "i" -> {"i", "I"} [] s = "I" -> {"I"} [] s = "r" -> {"R", "M"}
              [] s = "m" -> {"M"} [] s = "b" -> {"m"} [] OTHER -> {}
Fits(shapes) ==
  CASE shapes = << >> -> {"n"}
    [] Len(shapes) = 1 -> asm_1(shapes[1])
    [] Len(shapes) = 2 -> CASE shapes[1] = "r" -> r32_2(shapes[2])
                            [] shapes[1] = "m" -> m32_2(shapes[2])
                            [] shapes[1] = "b" -> m8_2(shapes[2])
                            [] OTHER -> {}
    [] OTHER -> {}

\* A byte constant to memory without a form of its own is left out without a
\* word; whatever else has no form ends the process.
Shapes(alloc, args) == [n \in DOMAIN args |-> Shape(alloc, args[n])]
Encodable(alloc, i) ==
  LET s == Shapes(alloc, i.args)
  IN (i.op = "LEA" /\ s = <<"r", "r", "r">>) \/ Fits(s) \cap forms[i.op] # {}
Dropped(alloc, i) == Shapes(alloc, i.args) = <<"m", "i">> /\ ~Encodable(alloc, i)

\* nat: code with addresses, its length, the blocks done and the jumps to
\* blocks not done yet
emit(nat, alloc, i) ==
  LET args == [n \in DOMAIN i.args |-> IF i.args[n][1] = "t"
                                       THEN Place(alloc, i.args[n][2]) ELSE i.args[n]]
  IN IF Dropped(alloc, i) THEN nat
     ELSE IF ~Encodable(alloc, i) THEN [nat EXCEPT !.fault = "encoding"]
     ELSE [nat EXCEPT !.code = Append(@, [i EXCEPT !.args = args]
                                           @@ [at |-> nat.length]),
                      !.length = @ + OpSize(i.op)]

\* relocate_fix, one record: the displacement at an offset becomes value
Field(i) == i.at + OpSize(i.op) - (IF i.op = "JE8" THEN 1 ELSE 4)
Patch(nat, offset, value) ==
  [nat EXCEPT !.code = [n \in DOMAIN @ |->
                          IF @[n].op \in {"JE", "JNE", "JMP", "JE8"}
                             /\ Field(@[n]) = offset
                          THEN [@[n] EXCEPT !.args = <<Num(value)>>] ELSE @[n]]]

Op(op, args) == [op |-> op, args |-> args, rel |-> None, id |-> 0]

\* An instruction of a block.  One with rel lands a short jump behind itself.
EmitCode(nat, alloc, i) ==
  LET n == emit(nat, alloc, i)
      from == CHOOSE k \in DOMAIN n.code : n.code[k].id = i.rel
      placeholder == Field(n.code[from])
      offset == n.length - 1
  IN IF i.rel = None \/ n.fault # "none" THEN n
     ELSE Patch(n, placeholder, offset - placeholder)

\* Jumps in earlier blocks that wait for this one land here
Land(nat, b) ==
  FoldLeft(LAMBDA n, r : Patch(n, r.offset, nat.length - r.offset - 4),
           [nat EXCEPT !.at = (b :> nat.length) @@ @,
                       !.reloc = SelectSeq(@, LAMBDA r : r.to # b)],
           SelectSeq(nat.reloc, LAMBDA r : r.to = b))

Unconditional(k) == k.pred % 16 \in {AL, NV}
Done(nat, b) == b \in DOMAIN nat.at

JumpTo(nat, alloc, op, b) ==
  emit(nat, alloc, Op(op, <<Num(nat.at[b] - nat.length - OpSize(op))>>))
JumpLater(nat, alloc, b) ==
  LET n == emit(nat, alloc, Op("JE", <<Num(256)>>))
  IN [n EXCEPT !.reloc = <<[to |-> b, offset |-> n.length - 4]>> \o @]

\* The test of the predicate and the ways out that do not follow
Test(nat, alloc, k) ==
  IF (k.t # NoBlock \/ k.f # NoBlock) /\ ~Unconditional(k)
  THEN emit(nat, alloc, Op("TEST", << <<"p", k.pred>>, Num(1)>>)) ELSE nat
IfFalse(nat, alloc, k) ==
  IF k.t = NoBlock \/ k.f = NoBlock THEN nat
  ELSE IF Done(nat, k.f) THEN JumpTo(nat, alloc, "JE", k.f)
  ELSE IF Done(nat, k.t) THEN nat
  ELSE JumpLater(nat, alloc, k.f)
IfTrue(nat, alloc, k) ==
  IF k.t = NoBlock \/ ~Done(nat, k.t) THEN nat
  ELSE JumpTo(nat, alloc, IF Unconditional(k) THEN "JMP" ELSE "JNE", k.t)

\* genx86_flatten_code_inner without its recursion
EmitBlock(nat, c, alloc, buf, b) ==
  LET body == FoldLeft(LAMBDA n, i : EmitCode(n, alloc, i), Land(nat, b),
                       insert_spill_code(alloc, buf))
      k == c.blk[b]
  IN IF nat.fault # "none" THEN nat
     ELSE IfTrue(IfFalse(Test(body, alloc, k), alloc, k), alloc, k)

\* genx86_flatten_code
flatten_code(c, x) ==
  FoldLeft(LAMBDA n, b : EmitBlock(n, c, x.alloc, x.bufs[b], b),
           [code |-> << >>, length |-> 0, at |-> << >>, reloc |-> << >>,
            fault |-> x.fault],
           Order(c))
=============================================================================
