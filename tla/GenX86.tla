------------------------------- MODULE GenX86 --------------------------------
(***************************************************************************)
(* Generation of x86 code (genx86.c).  The record x carries the state that *)
(* allocation and generation share: alloc, the use of the host registers,  *)
(* the active ranges, and buf, the buffer of the block at hand.            *)
(*                                                                         *)
(* An operand is a tuple: <<"t", n>> the place of a temporary, <<"i", v>>  *)
(* an immediate, <<"r", n>> a register, <<"m", n>> the word n of the       *)
(* register file, <<"w", f>> the word a flag is in, <<"f", f>> and         *)
(* <<"p", p>> the bytes of a flag and of a predicate, <<"fault">> the byte *)
(* that a memory access leaves 1 in after a fault.  Instructions are one   *)
(* byte, but for those that jump.                                          *)
(***************************************************************************)
EXTENDS Palloc

\* The flags an instruction is said to set; IC is a carry that is a borrow.
flagset ==
  [op \in {"SHL", "SHR", "SAR", "ROR", "RCR", "BT", "CMC", "STC", "CLC"} |-> {"C"}]
  @@ [op \in {"AND", "OR", "XOR", "TEST"} |-> NZ]
  @@ [op \in {"ADD", "ADC"} |-> NZCV]
  @@ [op \in {"SUB", "SBB", "CMP"} |-> {"IC", "V", "N", "Z"}]

T(n) == <<"t", n>>
Imm(v) == <<"i", v>>
Num(n) == Imm(<<"const", n>>)
Name(f) == Imm(<<"name", f>>)
Reg(r) == <<"r", r>>
File(n) == <<"m", n>>
OpSize(op) == CASE op \in {"JE", "JNE"} -> 6 [] op = "JMP" -> 5
                [] op = "JE8" -> 2 [] OTHER -> 1

\* genx86_append; id names the instruction for relocations
append(x, op, args) ==
  [x EXCEPT !.buf.code = Append(@, [op |-> op, args |-> args, rel |-> None,
                                    id |-> x.ids]),
            !.ids = @ + 1,
            !.buf.beenset = @ \cup (IF x.buf.expecting # {} /\ op \in DOMAIN flagset
                                    THEN flagset[op] ELSE {})]
Appends(x, ops) == FoldLeft(LAMBDA y, o : append(y, o[1], Tail(o)), x, ops)

\* genx86_move: nothing when both are the same place
move(x, d, s) ==
  IF close(x.alloc, d) = close(x.alloc, s) THEN x
  ELSE append(x, "MOV", <<T(d), T(s)>>)

Expects(x, flags) == x.buf.expecting \cap flags # {}
TestFor(x, d) == IF Expects(x, NZ) THEN append(x, "TEST", <<T(d), T(d)>>) ELSE x

\* A fetch or commit that waits until the allocation is complete, at the end
\* of the buffer as it is
Delay(x, arm, t) == [arm |-> arm, var |-> close(x.alloc, t),
                     loc |-> Len(x.buf.code)]

\* genx86_recover: commits for the active ranges that stand for a register
recover(x) ==
  FoldLeft(LAMBDA y, r :
             LET a == y.alloc[r.reg].arm
             IN IF a = None THEN y
                ELSE [y EXCEPT !.buf.commit = <<Delay(y, a, r.reg)>> \o @],
           x, x.active)

\* A memory access: the call, and the way out after a fault.  EAX is kept
\* over it when a range may be in it.
Access(x, fn, args, keep) ==
  LET call == Appends(IF keep THEN append(x, "PUSH", <<Reg(EAX)>>) ELSE x,
                [n \in DOMAIN args |-> <<"PUSH", T(args[n])>>]
                \o << <<"PUSH", Name("mem")>>, <<"CALL", Name(fn)>>,
                      <<"ADD", Reg(ESP), Num(Len(args) + 1)>>,
                      <<"TEST", <<"fault">>, Num(1)>>,
                      <<"JE8", Num(0)>>, <<"PUSH", Name("machine")>>,
                      <<"CALL", Name("dataabort")>>, <<"ADD", Reg(ESP), Num(1)>>,
                      <<"RET">> >>)
      n == Len(call.buf.code)
  IN [call EXCEPT !.buf.code[n].rel = call.buf.code[n - 4].id]

Load(x, i) ==
  LET d == i.dest
      other == x.alloc[d].type = "IREG" /\ x.alloc[d].v # EAX
      e == IF other THEN palloc_evict_ireg(x, EAX, {EAX, ECX, EDX}) ELSE x
      keep == other /\ (x.reguse[EAX] # 0 \/ e.ok)
      y == append(Access(e, i.op, i.src, keep), "MOV", <<T(d), Reg(EAX)>>)
  IN IF keep THEN append(y, "POP", <<Reg(EAX)>>) ELSE y

Save(x, i) ==
  LET keep == x.reguse[EAX] # 0
      e == IF keep THEN palloc_evict_ireg(x, EAX, {EAX, ECX, EDX}) ELSE x
      y == Access(e, i.op, i.src, keep)
  IN IF keep THEN append(y, "POP", <<Reg(EAX)>>) ELSE y

\* FCOMMIT: the flags needed, then the predicates.  A flag nothing has set
\* since FEXPECT fails an assertion.
SetFlag(x, f) ==
  LET been == x.buf.beenset
      op == CASE f = "C" -> IF "IC" \in been THEN "SETAE" ELSE "SETB"
              [] f = "V" -> "SETO" [] f = "N" -> "SETS" [] f = "Z" -> "SETE"
  IN IF f \in been \/ (f = "C" /\ "IC" \in been) THEN append(x, op, << <<"f", f>> >>)
     ELSE [x EXCEPT !.fault = "assert"]

predset == <<"SETE", "SETNE", "SETB", "SETAE", "SETS", "SETNS", "SETO", "SETNO",
             "SETA", "SETBE", "SETGE", "SETL", "SETG", "SETLE">>
Commit(x, i) ==
  LET flags == FoldLeft(LAMBDA y, f : IF f \in i.need THEN SetFlag(y, f) ELSE y,
                        x, <<"C", "V", "N", "Z">>)
      preds == SetToSortSeq(i.pred \cap 0..13, <)
      y == Appends(flags, [n \in DOMAIN preds |->
                             <<predset[preds[n] + 1], <<"p", preds[n]>> >>])
  IN [y EXCEPT !.buf.expecting = {}]

\* FWRITE: only the constants 0 and 1, into the host's carry
Write(x, i) ==
  LET s == close(x.alloc, i.src[1])
      v == x.alloc[s].v
  IN IF IsConst(x.alloc, s) /\ v \in {<<"const", 0>>, <<"const", 1>>}
     THEN append(x, IF v[2] = 0 THEN "CLC" ELSE "STC", << >>)
     ELSE [x EXCEPT !.fault = "exit"]

Two == [LSL |-> "SHL", LSR |-> "SHR", ASR |-> "SAR", ROR |-> "ROR",
        AND |-> "AND", OR |-> "OR", EOR |-> "XOR", ADC |-> "ADC", SUB |-> "SUB"]

\* Operations.  A destination gets the first source, then the operation.
Operation(x, i) ==
  LET d == i.dest
      s == i.src[1]
      t == i.src[2]
      IsReg(n) == x.alloc[n].type = "IREG"
      m == move(x, d, s)
      lea == IsReg(d) /\ IsReg(s) /\ IsReg(t) /\ x.buf.expecting = {}
  IN CASE i.op \in DOMAIN Two -> append(m, Two[i.op], <<T(d), T(t)>>)
       [] i.op = "ADD" -> IF lea THEN append(x, "LEA", <<T(d), T(s), T(t)>>)
                          ELSE append(m, "ADD", <<T(d), T(t)>>)
       [] i.op = "SBC" -> Appends(m, << <<"CMC">>, <<"SBB", T(d), T(t)>> >>)
       [] i.op = "MUL" ->
            TestFor(IF IsConst(x.alloc, t) /\ IsReg(d)
                    THEN append(x, "IMUL", <<T(d), T(s), T(t)>>)
                    ELSE append(m, "IMUL", <<T(d), T(t)>>), d)
       [] i.op = "RRX" -> append(m, "RCR", <<T(d), Num(1)>>)
       [] i.op = "MOV" -> TestFor(m, d)
       [] i.op = "NOT" -> TestFor(append(m, "NOT", <<T(d)>>), d)

Comparison(x, i) ==
  LET s == T(i.src[1])
      t == T(i.src[2])
      op == IF i.op = "TEQ" THEN "XOR" ELSE "ADD"
  IN CASE i.op = "TST" -> append(x, "TEST", <<s, t>>)
       [] i.op = "CMP" -> append(x, "CMP", <<s, t>>)
       [] OTHER -> Appends(x, << <<"PUSH", s>>, <<op, s, t>>, <<"POP", s>> >>)

Bit(x, s, bit, f) ==
  Appends(x, << <<"BT", T(s), Num(bit)>>, <<"SETB", <<"f", f>> >> >>)

\* The ways out of a chunk.  The one with flags does not store the address.
Jump(x, i) ==
  LET s == i.src[1]
      d == i.dest
      m == append(move(x, d, s), "ADD", <<T(d), Num(8)>>)
  IN append(CASE i.op = "UKJMP" -> append(x, "MOV", <<File(15), T(s)>>)
              [] i.op = "CAJMP" -> append(m, "MOV", <<File(15), T(d)>>)
              [] i.op = "CAJMP26F" ->
                   Bit(Bit(Bit(Bit(m, s, 28, "V"), s, 29, "C"), s, 30, "Z"),
                       s, 31, "N"),
            "RET", << >>)

\* genx86_translate_opcode
translate_opcode(x, i) ==
  CASE i.op = "FETCH" ->
         IF i.arg < 15
         THEN [x EXCEPT !.buf.fetch = <<Delay(x, i.arg, i.dest)>> \o @]
         ELSE append(x, "MOV", <<T(i.dest), Imm(x.va)>>)
    [] i.op = "COMMIT" ->
         [x EXCEPT !.buf.commit = <<Delay(x, i.arg, i.src[1])>> \o @]
    [] i.op = "ASSOC" -> [x EXCEPT !.alloc[i.src[1]].arm = i.arg]
    [] i.op = "ADDRESS" -> [x EXCEPT !.va = <<"pc", 4 * i.arg>>]
    [] i.op \in {"LDW", "LDB"} -> Load(x, i)
    [] i.op \in {"STW", "STB"} -> Save(x, i)
    [] i.op \in Binary \cup {"RRX", "MOV", "NOT"} -> Operation(x, i)
    [] i.op \in {"TEQ", "TST", "CMP", "CMN"} -> Comparison(x, i)
    [] i.op = "FEXPECT" -> [x EXCEPT !.buf.expecting = @ \cup i.need,
                                     !.buf.beenset = {}]
    [] i.op = "FCOMMIT" -> Commit(x, i)
    [] i.op = "FENSURE" -> append(x, "BT", << <<"w", "C">>, Num(0)>>)
    [] i.op = "FWRITE" -> Write(x, i)
    [] i.op \in {"CAJMP", "CAJMP26F", "UKJMP"} -> Jump(x, i)
    [] i.op = "SYNC" -> recover(x)
    [] i.op \in Constant \cup {"UNDEF"} -> x
    [] i.op = "SWI" -> [x EXCEPT !.fault = "abort"]

\* genx86_insert_spill_code_inner: each waiting move goes right behind its
\* place, commits first, the latest first; so in one place fetches come before
\* commits.  Ranges that lost their register get none.
insert_spill_code(alloc, buf) ==
  LET After(seq, types, fetch) ==
        SelectSeq([n \in DOMAIN seq |->
                     LET d == seq[n]
                         file == File(IF d.arm < 15 THEN d.arm ELSE 15)
                     IN [loc |-> d.loc, ok |-> alloc[d.var].type \in types,
                         op |-> [op |-> "MOV", rel |-> None, id |-> 0,
                                 args |-> IF fetch THEN <<T(d.var), file>>
                                          ELSE <<file, T(d.var)>>]]],
                  LAMBDA d : d.ok)
      inserts == After(buf.commit, {"IREG", "CONST", "CONSTB"}, FALSE)
                   \o After(buf.fetch, {"IREG"}, TRUE)
      At(loc) == FoldLeft(LAMBDA s, d : IF d.loc = loc THEN <<d.op>> \o s ELSE s,
                          << >>, inserts)
  IN At(0) \o FlattenSeq([n \in DOMAIN buf.code |-> <<buf.code[n]>> \o At(n)])
=============================================================================
