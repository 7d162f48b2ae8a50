---------------------------- MODULE PhetaMeaning -----------------------------
(***************************************************************************)
(* What a chunk means, by symbolic execution.  A word is a term over the   *)
(* initial registers; memory is the list of stores so far; a condition is  *)
(* an uninterpreted question about the flags it reads, and an execution    *)
(* forks on each new one.  The meaning is the set of outcomes: the answers *)
(* given, the program counter at the exit, registers, stores and flags.    *)
(* Every access to memory adds an outcome of its own, for the case that it *)
(* faults: what has happened before the instruction, and nothing of it but *)
(* earlier accesses.  guest runs the ARM instructions, run the block graph.*)
(***************************************************************************)
EXTENDS PhetaIr

CONSTANTS Regs,       \* the registers the programs use, without r15
          Questions,  \* bound: conditions answered on one path
          Fuel        \* bound: instructions or blocks on one path

----------------------------------------------------------------------------
(* Terms.  Sums with constants are kept in one form. *)
Plus(a, k) == LET n == IF a[1] = "off" THEN a[3] + k ELSE k
                  b == IF a[1] = "off" THEN a[2] ELSE a
              IN IF n = 0 THEN b ELSE <<"off", b, n>>

Term(op, a, b) ==
  CASE op = "ADD" /\ b[1] = "const" -> Plus(a, b[2])
    [] op = "SUB" /\ b[1] = "const" -> Plus(a, -b[2])
    [] OTHER -> <<op, a, b>>

\* The flags an operation sets: the carry of a shift, zero and sign of a
\* logical result, all four of a sum or a difference.  The bit that an
\* arithmetic shift by 32 drops is the sign.  An operation with carry has the
\* pair of its operand and the carry as second operand.
Flag(f, op, a, b) ==
  CASE f \in NZ -> <<f, Term(op, a, b)>>
    [] op = "ASR" /\ a[1] = "ASR" /\ a[3] = <<"const", 31>> ->
         <<f, "LSL", a[2], <<"const", 1>> >>
    [] OTHER -> <<f, op, a, b>>

Start == [regs |-> [r \in Regs |-> <<"r", r>>],
          flags |-> [f \in NZCV |-> <<"flag", f>>],
          mem |-> << >>, path |-> << >>, aborts |-> {}, pc |-> << >>]

\* The answers a path may give to a condition: one when it has been asked, or
\* the opposite condition has.
Asked(path, q) == q \in DOMAIN path
Question(cond, flags) == <<cond \div 2, [f \in ccflags[cond] |-> flags[f]]>>
Answer(cond, yes) == IF cond % 2 = 0 THEN yes ELSE ~yes
Answers(s, cond, flags) ==
  LET q == Question(cond, flags)
  IN CASE cond = AL -> {<<TRUE, s.path>>}
       [] cond = NV -> {<<FALSE, s.path>>}
       [] Asked(s.path, q) -> {<<Answer(cond, s.path[q]), s.path>>}
       [] OTHER -> {<<Answer(cond, y), (q :> y) @@ s.path>> : y \in BOOLEAN}

Outcome(s, pc, synced) ==
  [pc |-> pc, regs |-> s.regs, mem |-> s.mem, path |-> s.path,
   flags |-> IF synced THEN s.flags ELSE << >>]
Abort(s, regs) == Outcome([s EXCEPT !.regs = regs], <<"abort">>, FALSE)
Outcomes(s, pc, synced) == {Outcome(s, pc, synced)} \cup s.aborts

----------------------------------------------------------------------------
(* The ARM instructions, as the interpreter executes them. *)
Get(s, r) == IF r = 15 THEN <<"pc", 4 * s.line + 8>> ELSE s.regs[r]
Put(s, r, v) == [s EXCEPT !.regs[r] = v]
Const(n) == <<"const", n>>

\* Second operand and its carry
Operand(s, o) ==
  IF o.form = "imm"
  THEN [v |-> Const(o.v),
        c |-> IF o.carry = None THEN s.flags["C"] ELSE Const(o.carry)]
  ELSE LET m == Get(s, o.rm)
       IN CASE o.n # 0 -> [v |-> Term(o.sh, m, Const(o.n)),
                           c |-> Flag("C", o.sh, m, Const(o.n))]
            [] o.sh = "LSL" -> [v |-> m, c |-> s.flags["C"]]
            [] o.sh = "ROR" -> [v |-> Term("RRX", m, s.flags["C"]),
                                c |-> Flag("C", "RRX", m, s.flags["C"])]
            [] OTHER -> [v |-> IF o.sh = "LSR" THEN Const(0)
                               ELSE Term("ASR", m, Const(31)),
                         c |-> Flag("C", "LSL", m, Const(1))]

Logical == [AND |-> "AND", TST |-> "AND", EOR |-> "EOR", TEQ |-> "EOR",
            ORR |-> "OR"]

GuestDp(s, g) ==
  LET o == Operand(s, g.o2)
      n == Get(s, g.rn)
      carries == g.op \in {"ADC", "SBC", "RSC"}
      arith == carries \/ g.op \in {"SUB", "CMP", "RSB", "ADD", "CMN"}
      reverse == g.op \in {"RSB", "RSC"}
      a == IF reverse THEN o.v ELSE n
      y == IF reverse THEN n ELSE o.v
      b == IF carries THEN <<y, s.flags["C"]>> ELSE y
      op == CASE g.op \in {"SUB", "CMP", "RSB"} -> "SUB"
              [] g.op \in {"SBC", "RSC"} -> "SBC"
              [] g.op = "ADC" -> "ADC"
              [] OTHER -> "ADD"
      v == CASE arith -> Term(op, a, b)
             [] g.op = "MOV" -> o.v
             [] g.op = "MVN" -> <<"NOT", o.v>>
             [] g.op = "BIC" -> <<"AND", n, <<"NOT", o.v>> >>
             [] OTHER -> Term(Logical[g.op], n, o.v)
      flags == IF arith THEN [f \in NZCV |-> Flag(f, op, a, b)]
               ELSE [N |-> <<"N", v>>, Z |-> <<"Z", v>>, C |-> o.c,
                     V |-> s.flags["V"]]
      t == IF g.s THEN [s EXCEPT !.flags = flags] ELSE s
  IN CASE g.op \in {"TST", "TEQ", "CMP", "CMN"} -> t
       [] g.rd = 15 -> [t EXCEPT !.pc = v]
       [] OTHER -> Put(t, g.rd, v)

GuestMul(s, g) ==
  LET p == <<"MUL", Get(s, g.rm), Get(s, g.rs)>>
      v == IF g.a THEN Term("ADD", p, Get(s, g.rn)) ELSE p
      t == Put(s, g.rd, v)
  IN IF g.s THEN [t EXCEPT !.flags = (("N" :> <<"N", v>>) @@ ("Z" :> <<"Z", v>>)) @@ @]
     ELSE t

Load(s, r, size, addr) ==
  LET v == <<size, addr, Const(Len(s.mem))>>
  IN IF r = 15 THEN [s EXCEPT !.pc = v] ELSE Put(s, r, v)
Store(s, v, size, addr) == [s EXCEPT !.mem = Append(@, <<size, addr, v>>)]
MayAbort(s, regs) == [s EXCEPT !.aborts = @ \cup {Abort(s, regs)}]

GuestSdt(s, g) ==
  LET base == Get(s, g.rn)
      off == IF g.o2.form = "imm" THEN Const(g.o2.v) ELSE Operand(s, g.o2).v
      sum == IF off[1] = "const" \/ g.u
             THEN Term(IF g.u THEN "ADD" ELSE "SUB", base, off)
             ELSE Term("ADD", base, Term("SUB", Const(0), off))
      addr == IF g.p THEN sum ELSE base
      size == IF g.b THEN "B" ELSE "W"
      t == IF ~g.p \/ g.w THEN Put(s, g.rn, sum) ELSE s
      u == MayAbort(t, s.regs)
  IN IF g.l THEN Load(u, g.rd, size, addr)
     ELSE Store(u, Get(s, g.rd), size, addr)

GuestBdt(s, g) ==
  LET base == Get(s, g.rn)
      n == Cardinality(g.list)
      dir == IF g.u THEN 4 ELSE -4
      order == SetToSortSeq(g.list, LAMBDA i, j : IF g.u THEN i < j ELSE i > j)
      At(k) == Plus(base, dir * (IF g.p THEN k ELSE k - 1))
      t == IF g.w THEN Put(s, g.rn, Plus(base, dir * n)) ELSE s
  IN FoldLeft(LAMBDA x, k :
                IF g.l THEN Load(MayAbort(x, s.regs), order[k], "W", At(k))
                ELSE Store(MayAbort(x, s.regs), Get(s, order[k]), "W", At(k)),
              t, [k \in 1..n |-> k])

GuestStep(s, g) ==
  CASE g.k = "dp" -> GuestDp(s, g)
    [] g.k = "mul" -> GuestMul(s, g)
    [] g.k = "sdt" -> GuestSdt(s, g)
    [] g.k = "bdt" -> GuestBdt(s, g)
    [] g.k = "bra" -> LET t == IF g.l THEN Put(s, R14, <<"pc", 4 * s.line + 4>>)
                               ELSE s
                      IN [t EXCEPT !.pc = <<"pc", 4 * g.dest>>]
    [] OTHER -> [s EXCEPT !.pc = <<"trap", IF g.k = "swi" THEN "SWI" ELSE "UNDEF">>]

\* The outcomes from a state at a line.  Paths with more questions or steps
\* than the bounds are left out, here and in run.
RECURSIVE GuestFrom(_, _, _)
GuestFrom(prog, s, fuel) ==
  LET g == prog[s.line + 1]
      Go(t) ==
        LET pc == IF t.pc = << >> THEN <<"pc", 4 * (s.line + 1)>> ELSE t.pc
            inside == pc[1] = "pc" /\ pc[2] \in {4 * l : l \in 0..(Len(prog) - 1)}
        IN IF inside
           THEN GuestFrom(prog, [t EXCEPT !.line = pc[2] \div 4, !.pc = << >>],
                          fuel - 1)
           ELSE Outcomes(t, pc, TRUE)
  IN IF fuel = 0 THEN {}
     ELSE UNION {LET t == [s EXCEPT !.path = a[2]]
                 IN IF Cardinality(DOMAIN a[2]) > Questions THEN {}
                    ELSE Go(IF a[1] THEN GuestStep(t, g) ELSE t)
                 : a \in Answers(s, g.cond, s.flags)}

guest(prog) ==
  GuestFrom(prog, Start @@ [line |-> 0], Fuel)

----------------------------------------------------------------------------
(* The block graph.  With committed, an FCOMMIT changes only the flags     *)
(* fixup_flags found needed, and a predicate is what the FCOMMITs on the   *)
(* way have stored; without, it changes all flags it has.                  *)
Carried == {"ADC", "SBC"}
Word(s, i, n) == IF i.op \in Carried /\ n = 2 THEN <<s.env[i.src[2]], s.carry>>
                 ELSE s.env[i.src[n]]

\* The operation between an FEXPECT and its FCOMMIT, whose native flags these
\* are; comparisons only set flags.
Native(s, i) ==
  LET a == Word(s, i, 1)
      b == Word(s, i, 2)
  IN CASE i.op = "CMP" -> <<"SUB", a, b>>
       [] i.op = "CMN" -> <<"ADD", a, b>>
       [] i.op = "TST" -> <<"AND", a, b>>
       [] i.op = "TEQ" -> <<"EOR", a, b>>
       [] i.op \in {"MOV", "NOT"} -> <<i.op, a, a>>
       [] i.op = "RRX" -> <<"RRX", a, s.carry>>
       [] OTHER -> <<i.op, a, b>>
NativeFlag(f, n) ==
  CASE n[1] = "MOV" -> <<f, n[2]>>
    [] n[1] = "NOT" -> <<f, <<"NOT", n[2]>> >>
    [] OTHER -> Flag(f, n[1], n[2], n[3])

Value(s, i) ==
  CASE i.op \in Constant -> i.arg
    [] i.op = "FETCH" -> IF i.arg \in {R15_FULL, R15_ADDR}
                         THEN <<"pc", 4 * s.addr>> ELSE s.regs[i.arg]
    [] i.op = "MOV" -> Word(s, i, 1)
    [] i.op = "NOT" -> <<"NOT", Word(s, i, 1)>>
    [] i.op = "RRX" -> Term("RRX", Word(s, i, 1), s.carry)
    [] i.op = "LDW" -> <<"W", Word(s, i, 1), Const(Len(s.mem))>>
    [] i.op = "LDB" -> <<"B", Word(s, i, 1), Const(Len(s.mem))>>
    [] i.op \in {"CAJMP", "CAJMP26F"} -> Word(s, i, 1)
    [] OTHER -> Term(i.op, Word(s, i, 1), Word(s, i, 2))

\* ASSOC gives a register a temporary, COMMIT stores it, SYNC stores all that
\* are outstanding.
RunInstr(s, i, committed) ==
  LET flags == [f \in NZCV |-> IF f \in (IF committed THEN i.need ELSE i.have)
                               THEN NativeFlag(f, s.native) ELSE s.flags[f]]
      seen == [f \in NZCV |-> IF f \in i.have THEN NativeFlag(f, s.native)
                              ELSE <<"flag", f>>]
      u == IF i.op \in {"LDW", "LDB", "STW", "STB"} THEN MayAbort(s, s.regs) ELSE s
      t == IF i.dest = None THEN u
           ELSE [u EXCEPT !.env = (i.dest :> Value(s, i)) @@ @]
  IN CASE s.pc # << >> -> s
       [] i.op = "UKJMP" -> [s EXCEPT !.pc = Word(s, i, 1), !.r15 = Word(s, i, 1)]
       [] i.op \in {"CAJMP", "CAJMP26F"} ->
            [t EXCEPT !.pc = Word(s, i, 1), !.r15 = Plus(Word(s, i, 1), 8)]
       [] i.op \in {"SWI", "UNDEF"} -> [s EXCEPT !.pc = <<"trap", i.op>>]
       [] i.op = "ADDRESS" -> [s EXCEPT !.addr = i.arg]
       [] i.op = "ASSOC" -> [s EXCEPT !.assoc = (i.arg :> Word(s, i, 1)) @@ @]
       [] i.op = "COMMIT" ->
            [s EXCEPT !.regs = [r \in Regs |-> IF r = i.arg THEN Word(s, i, 1)
                                               ELSE @[r]],
                      !.assoc = [r \in DOMAIN @ \ {i.arg} |-> @[r]]]
       [] i.op = "SYNC" ->
            [s EXCEPT !.regs = [r \in Regs |-> IF r \in DOMAIN s.assoc
                                               THEN s.assoc[r] ELSE @[r]],
                      !.synced = TRUE]
       [] i.op \in {"STW", "STB"} ->
            Store(u, Word(s, i, 1), IF i.op = "STB" THEN "B" ELSE "W",
                  Word(s, i, 2))
       [] i.op = "FENSURE" -> [s EXCEPT !.carry = s.flags["C"]]
       [] i.op = "FWRITE" -> [s EXCEPT !.flags[i.arg] = Word(s, i, 1)]
       [] i.op = "FCOMMIT" ->
            [s EXCEPT !.flags = flags,
                      !.preds = [p \in i.pred |-> Question(p, seen)] @@ @]
       [] i.op \in Compare -> [s EXCEPT !.native = Native(s, i)]
       [] i.op \in Binary \cup {"RRX", "MOV", "NOT"} -> [t EXCEPT !.native = Native(s, i)]
       [] OTHER -> t

\* The question a block's predicate asks
Asks(s, pred, committed) ==
  IF ~committed THEN s.flags
  ELSE IF pred \in DOMAIN s.preds THEN s.preds[pred][2]
  ELSE [f \in ccflags[pred] |-> <<"stale", f>>]

RECURSIVE RunFrom(_, _, _, _)
RunFrom(c, s, committed, fuel) ==
  LET b == c.blk[s.b]
      t == FoldLeft(LAMBDA x, i : RunInstr(x, i, committed), s, b.base)
      cond == IF b.pred = NoPred THEN AL ELSE b.pred
      Next(a) == IF a[1] THEN b.t ELSE b.f
  IN IF fuel = 0 THEN {}
     ELSE IF t.pc # << >>
     THEN LET out == Outcomes(t, t.pc, ~committed \/ t.synced)
          IN IF committed
             THEN {IF o \in t.aborts THEN o ELSE o @@ [r15 |-> t.r15] : o \in out}
             ELSE out
     ELSE UNION {IF Cardinality(DOMAIN a[2]) > Questions THEN {}
                 ELSE IF Next(a) = NoBlock THEN Outcomes(t, <<"lost">>, TRUE)
                 ELSE RunFrom(c, [t EXCEPT !.b = Next(a), !.path = a[2],
                                           !.assoc = << >>],
                              committed, fuel - 1)
                 : a \in Answers(t, cond, Asks(t, cond, committed))}

run(c, committed) ==
  RunFrom(c, Start @@ [b |-> c.root, env |-> << >>, assoc |-> << >>, addr |-> 0,
                       native |-> <<"ADD", Const(0), Const(0)>>,
                       preds |-> << >>, synced |-> FALSE, carry |-> Const(0),
                       r15 |-> Const(0)],
          committed, Fuel)
=============================================================================
