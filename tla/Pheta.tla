-------------------------------- MODULE Pheta --------------------------------
(***************************************************************************)
(* Translation of a chunk of ARM code into intermediate code (the phet4    *)
(* handlers and pheta_translatechunk of pheta.c).  A guest instruction is  *)
(* a record: its class k, its condition and the fields the handler reads.  *)
(* Lines of a chunk count from 0; a branch names its destination line,     *)
(* which may be outside the chunk.                                         *)
(*                                                                         *)
(* Where two arguments of a call emit code, C leaves their order open; the *)
(* model evaluates the later one first, as compilers for the x86 do.  Only *)
(* the numbering of temporaries depends on it.                             *)
(***************************************************************************)
EXTENDS PhetaIr

ArmPc(r) == IF r = 15 THEN R15_ADDR ELSE r

IsLogic(op) == op \in {"AND", "EOR", "TST", "TEQ", "ORR", "MOV", "BIC", "MVN"}
IsTest(op) == op \in {"TST", "TEQ", "CMP", "CMN"}
NeedsOp1(op) == op \notin {"MOV", "MVN"}

\* The intermediate opcode of a data operation
IrOp(op) == CASE op \in {"SUB", "RSB"} -> "SUB"
              [] op \in {"SBC", "RSC"} -> "SBC"
              [] op \in {"AND", "BIC"} -> "AND"
              [] op = "ORR" -> "OR"
              [] op = "MVN" -> "NOT"
              [] OTHER -> op

\* pheta_dp_guts: a data operation on its second operand, from the operation
\* on its sources to what becomes of the result
operate(c, g, src) ==
  LET i == Instr(IrOp(g.op), src, None)
  IN IF g.s /\ g.rd # 15
     THEN EmitSetting(c, IF IsLogic(g.op) THEN NZ ELSE NZCV, i)
     ELSE IF IsTest(g.op) THEN c ELSE Emit(c, i)

prepare(c, g, op1, op2) ==
  LET b == CASE g.op \in {"ADC", "SBC", "RSC"} -> EmitFlags(c, "FENSURE", {"C"})
             [] g.op = "BIC" -> Emit(c, Instr("NOT", <<op2>>, None))
             [] OTHER -> c
  IN operate(b, g, CASE g.op \in {"RSB", "RSC"} -> <<op2, op1>>
                     [] ~NeedsOp1(g.op) -> <<op2>>
                     [] g.op = "BIC" -> <<op1, b.out>>
                     [] OTHER -> <<op1, op2>>)

result(c, g) ==
  LET e == lcommit(c, g.rd, c.out)
  IN IF IsTest(g.op) THEN [c EXCEPT !.ret = 0]
     ELSE IF g.rd # 15 THEN [e EXCEPT !.ret = 0]
     ELSE [Emit(Emit(e, Instr("SYNC", << >>, None)),
                Instr(IF g.s THEN "CAJMP26F" ELSE "CAJMP", <<c.out>>, None))
             EXCEPT !.ret = 1]

dp_guts(c, g, op2) ==
  LET a == IF NeedsOp1(g.op) THEN lfetch(c, ArmPc(g.rn)) ELSE c
  IN result(prepare(a, g, a.out, op2), g)

\* pheta_dp_imm: the carry of a rotated immediate is written for logical
\* operations, whatever the destination
dp_imm(c, g) ==
  LET v == g.o2.v
      a == IF g.o2.carry = None THEN EmitConstB(c, v)
           ELSE EmitConst(c, <<"const", v>>)
      carry == EmitConstB(a, g.o2.carry)
      b == IF g.o2.carry # None /\ g.s /\ IsLogic(g.op)
           THEN Emit(carry, Instr("FWRITE", <<carry.out>>, "C")) ELSE a
  IN dp_guts(b, g, a.out)

\* pheta_dp, shift by an immediate amount; 0 stands for no shift, 32, 32 and
\* an extended rotation.  The shifted value is left in .out.
Shifted(c, i, carries) == IF carries THEN EmitSetting(c, {"C"}, i) ELSE Emit(c, i)

ByOne(c, op, t, carries) ==
  LET one == EmitConstB(c, 1)
  IN IF carries THEN EmitSetting(one, {"C"}, Instr(op, <<t, one.out>>, None)) ELSE c

\* Right by 32: the sign everywhere, the last bit out through the carry
AsrBy32(c, rm, carries) ==
  LET k == EmitConstB(c, 31)
      d == Emit(k, Instr("ASR", <<rm, k.out>>, None))
      one == EmitConstB(EmitFlags(d, "FEXPECT", {"C"}), 1)
      e == Emit(one, Instr("ASR", <<d.out, one.out>>, None))
  IN IF carries THEN [EmitFlags(e, "FCOMMIT", {"C"}) EXCEPT !.out = d.out] ELSE d

Extended(c, rm, carries) ==
  LET d == EmitFlags(c, "FENSURE", {"C"})
      e == Emit(EmitConstB(IF carries THEN EmitFlags(d, "FEXPECT", {"C"}) ELSE d, 1),
                Instr("RRX", <<rm>>, None))
  IN IF carries THEN EmitFlags(e, "FCOMMIT", {"C"}) ELSE e

shift(c, g, rm, carries) ==
  LET n == EmitConstB(c, g.o2.n)
  IN CASE g.o2.n # 0 -> Shifted(n, Instr(g.o2.sh, <<rm, n.out>>, None), carries)
       [] g.o2.n = 0 /\ g.o2.sh = "LSL" -> c
       [] g.o2.n = 0 /\ g.o2.sh = "LSR" -> EmitConstB(ByOne(n, "LSL", rm, carries), 0)
       [] g.o2.n = 0 /\ g.o2.sh = "ASR" -> AsrBy32(n, rm, carries)
       [] g.o2.n = 0 /\ g.o2.sh = "ROR" -> Extended(n, rm, carries)

dp_shift(c, g) ==
  LET a == lfetch(c, g.o2.rm)
      d == shift(a, g, a.out, g.s /\ IsLogic(g.op))
  IN dp_guts(d, g, d.out)

\* pheta_dp: a shift by a register builds its blocks and then runs into the
\* assertion at the end of the function, except for plain rotations
dp(c, g) ==
  IF g.o2.form = "shift" THEN dp_shift(c, g)
  ELSE IF g.o2.sh # "ROR" \/ (g.s /\ IsLogic(g.op))
       THEN [c EXCEPT !.fault = "assert"]
  ELSE LET a == lfetch(c, g.o2.rm)
           b == lfetch(a, g.o2.rs)
           mask == EmitConstB(b, 31)
           n == Emit(mask, Instr("AND", <<b.out, mask.out>>, None))
           d == Emit(n, Instr("ROR", <<a.out, n.out>>, None))
       IN dp_guts(d, g, d.out)

\* pheta_mul.  An accumulation sets its flags over the fetch of the addend.
accumulate(c, g) ==
  LET n == lfetch(IF g.s THEN EmitFlags(c, "FEXPECT", NZ) ELSE c, g.rn)
      sum == Emit(n, Instr("ADD", <<c.out, n.out>>, None))
  IN IF g.s THEN EmitFlags(sum, "FCOMMIT", NZ) ELSE sum
product(c, g, i) ==
  IF g.a THEN accumulate(Emit(c, i), g)
  ELSE IF g.s THEN EmitSetting(c, NZ, i) ELSE Emit(c, i)

into(c, rd) == [lcommit(c, rd, c.out) EXCEPT !.ret = 0]
mul(c, g) ==
  LET a == lfetch(c, g.rm)
      b == lfetch(a, g.rs)
  IN into(product(b, g, Instr("MUL", <<a.out, b.out>>, None)), g.rd)

\* The offset of pheta_sdt, or None in .out
Shift(c, sh, rm, n) ==
  LET k == EmitConstB(c, n)
      m == lfetch(k, rm)
  IN Emit(m, Instr(sh, <<m.out, k.out>>, None))
Minus(c) ==
  LET zero == EmitConstB(c, 0)
  IN Emit(zero, Instr("SUB", <<zero.out, c.out>>, None))

sdt_shifted(c, o) ==
  CASE o.n # 0 -> Shift(c, o.sh, o.rm, o.n)
    [] o.n = 0 /\ o.sh = "LSL" -> lfetch(c, o.rm)
    [] o.n = 0 /\ o.sh = "LSR" -> [c EXCEPT !.out = None]
    [] o.n = 0 /\ o.sh = "ASR" -> Shift(c, "ASR", o.rm, 31)
    [] o.n = 0 /\ o.sh = "ROR" ->
         LET e == lfetch(EmitFlags(c, "FENSURE", {"C"}), o.rm)
         IN Emit(e, Instr("RRX", <<e.out>>, None))

sdt_offset(c, g) ==
  LET o == g.o2
      s == sdt_shifted(c, o)
  IN IF o.form = "imm"
     THEN IF o.v = 0 THEN [c EXCEPT !.out = None]
          ELSE EmitConst(c, <<"const", IF g.u THEN o.v ELSE -o.v>>)
     ELSE IF s.out # None /\ ~g.u THEN Minus(s) ELSE s

\* The access.  A store of r15 adds 4 to the chunk's pointer instead of the
\* register: a temporary that does not exist.
transfer(c, g, addr) ==
  LET ld == Emit(c, Instr(IF g.b THEN "LDB" ELSE "LDW", <<addr>>, None))
      st == lfetch(c, ArmPc(g.rd))
  IN IF g.l THEN lcommit(ld, g.rd, ld.out)
     ELSE IF g.rd = 15 THEN [st EXCEPT !.fault = "pointer"]
     ELSE Emit(st, Instr(IF g.b THEN "STB" ELSE "STW", <<st.out, addr>>, None))

writeback(c, g, addr, offset) ==
  LET n == Emit(c, Instr("ADD", <<addr, offset>>, None))
  IN IF ~g.p /\ offset # None THEN lcommit(n, g.rn, n.out)
     ELSE IF g.w THEN lcommit(c, g.rn, addr) ELSE c

\* A value loaded into r15 jumps
setpc(c, op, loaded, r15) ==
  LET jump == Emit(c, Instr(op, <<loaded>>, None))
  IN [lcommit(Emit(jump, Instr("SYNC", << >>, None)), r15, jump.out)
        EXCEPT !.ret = 1]

sdt_at(c, g, addr, offset) ==
  LET moved == transfer(c, g, addr)
      post == writeback(moved, g, addr, offset)
  IN IF g.l /\ g.rd = 15 THEN setpc(post, "CAJMP26F", moved.out, R15_FULL)
     ELSE [post EXCEPT !.ret = 0]

\* pheta_sdt
sdt_from(c, g, base) ==
  LET pre == Emit(c, Instr("ADD", <<base, c.out>>, None))
  IN IF g.p /\ c.out # None THEN sdt_at(pre, g, pre.out, c.out)
     ELSE sdt_at(c, g, base, c.out)
sdt(c, g) ==
  LET base == lfetch(c, g.rn) IN sdt_from(sdt_offset(lsync(base), g), g, base.out)

\* One register of pheta_bdt.  The fold carries the address in .at and the
\* last value loaded in .loaded.
bdt_step(s, g, four, r) ==
  LET Next(x) == LET n == Emit(x.c, Instr(IF g.u THEN "ADD" ELSE "SUB",
                                          <<x.at, four>>, None))
                 IN [x EXCEPT !.c = n, !.at = n.out]
      a == IF g.p THEN Next(s) ELSE s
      ld == Emit(a.c, Instr("LDW", <<a.at>>, None))
      st == lfetch(a.c, r)
      b == IF g.l
           THEN [a EXCEPT !.c = IF r = 15 THEN ld ELSE lcommit(ld, r, ld.out),
                          !.loaded = ld.out]
           ELSE [a EXCEPT !.c = Emit(st, Instr("STW", <<st.out, a.at>>, None))]
  IN IF g.p THEN b ELSE Next(b)

\* jt_bset_setbits32 of a register list.  Its table counts the bits of a byte,
\* except that entry 0xf3 holds 4.
nbit(byte) == IF byte = {0, 1, 4, 5, 6, 7} THEN 4 ELSE Cardinality(byte)
setbits32(list) ==
  nbit(list \cap 0..7) + nbit({r - 8 : r \in list \cap 8..15})

\* pheta_bdt: write-back first, then the registers up or down
bdt(c0, g) ==
  LET base == lfetch(c0, g.rn)
      four == EmitConstB(base, 4)
      s == lsync(four)
      size == EmitConstB(s, 4 * setbits32(g.list))
      wb == Emit(size, Instr(IF g.u THEN "ADD" ELSE "SUB",
                             <<base.out, size.out>>, None))
      start == IF g.w THEN lcommit(wb, g.rn, wb.out) ELSE s
      order == SetToSortSeq(g.list, LAMBDA i, j : IF g.u THEN i < j ELSE i > j)
      end == FoldLeft(LAMBDA x, r : bdt_step(x, g, four.out, r),
                      [c |-> start, at |-> base.out, loaded |-> None], order)
  IN IF g.l /\ 15 \in g.list
     THEN setpc(end.c, IF g.s THEN "CAJMP26F" ELSE "CAJMP", end.loaded,
                IF g.s THEN R15_FULL ELSE R15_ADDR)
     ELSE [end.c EXCEPT !.ret = 0]

\* pheta_bra.  Inside the chunk both successors become blocks, and no block is
\* current afterwards; a destination that is not a leader is a null pointer.
bra(c0, g, length) ==
  LET ra == EmitConst(c0, <<"pc", 4 * c0.va - 4>>)
      c == IF g.l THEN lcommit(ra, R14, ra.out) ELSE c0
      prev == c.cur
      next == c.va + 1
      Made(d, l) == IF d.leaders[l] # NoBlock THEN d ELSE newleader(d, l)
      both == Made(Made(c, g.dest), next)
      exit == newbasicblock(c)
      pc == EmitConst(lsync(exit), <<"pc", 4 * g.dest>>)
      rest == getbasicblock(Emit(pc, Instr("UKJMP", <<pc.out>>, None)), next)
  IN IF g.dest \in 0..(length - 1)
     THEN IF g.dest \notin DOMAIN c.leaders THEN [c EXCEPT !.fault = "null"]
          ELSE [link([both EXCEPT !.cur = NoBlock], prev, g.cond,
                     both.leaders[g.dest], both.leaders[next])
                  EXCEPT !.ret = 0]
     ELSE [link(rest, prev, g.cond, exit.out, rest.out) EXCEPT !.ret = 0]

\* pheta_swi, and the coprocessor and undefined instructions
trap(c, g) ==
  [Emit(Emit(lsync(c), Instr("SYNC", << >>, None)),
        Instr(IF g.k = "swi" THEN "SWI" ELSE "UNDEF", << >>, None))
     EXCEPT !.ret = 1]

\* The handler of an instruction; long multiplications, halfword transfers
\* and SWP end the process.
dispatch(c, g, length) ==
  CASE g.k = "dp" -> IF g.o2.form = "imm" THEN dp_imm(c, g) ELSE dp(c, g)
    [] g.k = "mul" -> mul(c, g)
    [] g.k = "sdt" -> sdt(c, g)
    [] g.k = "bdt" -> bdt(c, g)
    [] g.k = "bra" -> bra(c, g, length)
    [] g.k \in {"swi", "cdt", "cdo", "crt", "und"} -> trap(c, g)
    [] g.k \in {"mull", "sdth", "sds"} -> [c EXCEPT !.fault = "exit"]

\* The pre-scan of pheta_translatechunk: the line after a branch is a leader,
\* and its destination if the branch itself is not at one.
Leaders(prog) ==
  {0} \cup
  FoldLeft(LAMBDA L, l :
             LET g == prog[l + 1]
             IN IF g.k # "bra" THEN L
                ELSE L \cup {l + 1}
                       \cup (IF g.dest \in 0..(Len(prog) - 1) /\ l \notin L
                             THEN {g.dest} ELSE {}),
           {}, [l \in 1..Len(prog) |-> l - 1])

\* A leader chains the block before it and becomes current.  When its block
\* was made earlier, the block chained is the current one, to itself.
chain(c, prev, l) ==
  LET rooted == IF c.root = NoBlock THEN [c EXCEPT !.root = c.leaders[l]] ELSE c
  IN [IF prev # NoBlock /\ c.blk[prev].pred = NoPred
      THEN link(rooted, prev, AL, c.cur, NoBlock) ELSE rooted
        EXCEPT !.cur = c.leaders[l]]
enter(c, l) ==
  chain(IF c.leaders[l] = NoBlock THEN newleader(c, l) ELSE c, c.cur, l)

\* A conditional instruction that is no branch gets a block of its own; what
\* its handler returns is not looked at.
rejoin(c, g, from, own, next) ==
  LET rest == getbasicblock(c, next)
  IN IF c.fault # "none" THEN c
     ELSE link(link(rest, own, AL, rest.out, NoBlock), from, g.cond, own, rest.out)
conditional(c, g, length) ==
  LET own == getbasicblock(c, c.va)
  IN rejoin([dispatch(own, g, length) EXCEPT !.ret = c.ret], g, c.cur, own.out,
            c.va + 1)

instruction(c, g, length) ==
  IF g.cond = AL \/ g.k = "bra" THEN dispatch(c, g, length)
  ELSE conditional(c, g, length)

line(c, prog, l) ==
  LET at == [c EXCEPT !.va = l]
  IN IF c.fault # "none" THEN c
     ELSE instruction(IF l \in DOMAIN c.leaders THEN enter(at, l) ELSE at,
                      prog[l + 1], Len(prog))

\* The jump to the line behind the chunk
leave(c, end) ==
  LET tail == getbasicblock(IF c.ret = 0 THEN lsync(c) ELSE c, end)
      pc == EmitConst(tail, <<"pc", 4 * end>>)
  IN IF c.fault # "none" THEN c
     ELSE lsync(Emit(pc, Instr("UKJMP", <<pc.out>>, None)))

\* pheta_translatechunk
translatechunk(prog) ==
  leave(FoldLeft(LAMBDA c, l : line(c, prog, l), NewChunk(Leaders(prog)),
                 [l \in 1..Len(prog) |-> l - 1]),
        Len(prog))
=============================================================================
