------------------------------- MODULE PhetaIr -------------------------------
(***************************************************************************)
(* The intermediate code of the recompiler (pheta.h) and the buffer of a   *)
(* chunk under translation.  A chunk is a graph of basic blocks; a block   *)
(* ends in a predicate, a successor for it and one for its failure.  A     *)
(* temporary is assigned once.  A block also remembers which temporary     *)
(* stands for which ARM register (lbuf) and which of those are newer than  *)
(* the register (dirty).                                                   *)
(*                                                                         *)
(* Operators on a chunk take it and return the changed one; the temporary  *)
(* or block a C function returns is left in .out.  A failed assertion, an  *)
(* abort() or a null pointer is recorded in .fault.                        *)
(***************************************************************************)
EXTENDS Integers, Sequences, SequencesExt, FiniteSets

None == -1
NoBlock == 0

\* ARM registers by their numbers in pheta_armregisters
R14 == 14
R15_FULL == 15
R15_ADDR == 16

\* Conditions by number: c and c^1 are opposites; 255 marks a block without
\* a predicate.
EQ == 0
NE == 1
CS == 2
CC == 3
LT == 11
AL == 14
NV == 15
NoPred == 255
Opposite(c) == IF c % 2 = 0 THEN c + 1 ELSE c - 1

NZ == {"N", "Z"}
NZCV == {"N", "Z", "C", "V"}

\* The flags a condition reads.
ccflags == [c \in 0..15 |->
              << {"Z"}, {"C"}, {"N"}, {"V"}, {"C", "Z"}, {"N", "V"},
                 {"Z", "N", "V"}, {} >>[c \div 2 + 1]]

\* Opcodes by the operands they have.
Binary == {"LSL", "LSR", "ASR", "ROR", "AND", "OR", "EOR", "ADD", "ADC",
           "SUB", "SBC", "MUL"}
Unary == {"RRX", "MOV", "NOT", "LDW", "LDB", "CAJMP", "CAJMP26F"}
Compare == {"TEQ", "TST", "CMP", "CMN", "STW", "STB"}
Constant == {"CONST", "CONSTB"}
Defining == Constant \cup {"FETCH"} \cup Binary \cup Unary

\* An instruction: sources, an ARM register, immediate or flag (arg), and the
\* flag sets of FEXPECT and FCOMMIT.
Instr(op, src, arg) == [op |-> op, dest |-> None, src |-> src, arg |-> arg,
                        have |-> {}, need |-> {}, pred |-> {}]

\* pheta_getused: the temporaries an instruction defines and reads.  Opcodes
\* outside its cases fail an assertion.
Known == Defining \cup Compare
           \cup {"COMMIT", "ASSOC", "UKJMP", "FWRITE", "FEXPECT", "FCOMMIT",
                 "SYNC", "ADDRESS", "UNDEF"}
Uses(i) == IF i.op \in Binary \cup Unary \cup Compare
                         \cup {"COMMIT", "ASSOC", "UKJMP", "FWRITE"}
           THEN i.src ELSE << >>

\* pheta_newchunk
NewChunk(lines) ==
  [blk |-> << >>, blocks |-> << >>, cur |-> NoBlock, root |-> NoBlock,
   leaders |-> [l \in lines |-> NoBlock], tempno |-> 0, va |-> 0,
   out |-> None, ret |-> 0, change |-> FALSE, fault |-> "none"]

\* pheta_emit, into the current block
Emit(c, i) ==
  IF c.cur = NoBlock THEN [c EXCEPT !.fault = "null"]
  ELSE LET defines == i.op \in Defining
           n == IF defines THEN [i EXCEPT !.dest = c.tempno] ELSE i
       IN [c EXCEPT !.blk[c.cur].base = Append(@, n),
                    !.tempno = IF defines THEN @ + 1 ELSE @,
                    !.out = IF defines THEN c.tempno ELSE @]

EmitConst(c, v) == Emit(c, Instr("CONST", << >>, v))
EmitConstB(c, n) == Emit(c, Instr("CONSTB", << >>, <<"const", n>>))
EmitFlags(c, op, flags) ==
  Emit(c, [Instr(op, << >>, None) EXCEPT
             !.have = IF op = "FCOMMIT" THEN flags ELSE {},
             !.need = IF op = "FCOMMIT" THEN {} ELSE flags])

\* An instruction that leaves the given flags behind it: FEXPECT, the
\* instruction, FCOMMIT.
EmitSetting(c, have, i) ==
  EmitFlags(Emit(EmitFlags(c, "FEXPECT", have), i), "FCOMMIT", have)

\* pheta_lfetch: the temporary that holds an ARM register in this block
hold(c, r, t) == [c EXCEPT !.blk[c.cur].lbuf = (r :> t) @@ @]
Held(c, r) ==
  IF c.cur = NoBlock THEN c
  ELSE IF r \in DOMAIN c.blk[c.cur].lbuf THEN [c EXCEPT !.out = c.blk[c.cur].lbuf[r]]
  ELSE LET e == Emit(c, Instr("FETCH", << >>, r)) IN hold(e, r, e.out)
lfetch(c, r) ==
  Held(IF r \in {R15_FULL, R15_ADDR} THEN Emit(c, Instr("ADDRESS", << >>, c.va))
       ELSE c, r)

\* pheta_lcommit: from here on the temporary stands for the register
lcommit(c, r, t) ==
  IF c.cur = NoBlock THEN [c EXCEPT !.fault = "null"]
  ELSE Emit([hold(c, r, t) EXCEPT !.blk[c.cur].dirty = @ \cup {r}],
            Instr("ASSOC", <<t>>, r))

\* pheta_lsync: write back and forget the dirty registers, in order
lsync(c) ==
  IF c.cur = NoBlock THEN c
  ELSE LET held == c.blk[c.cur].lbuf
           write == DOMAIN held \cap c.blk[c.cur].dirty
           done == FoldLeft(LAMBDA d, r :
                              Emit(d, Instr("COMMIT", <<held[r]>>, r)),
                            c, SetToSortSeq(write, <))
       IN [done EXCEPT !.blk[c.cur].lbuf =
             [r \in DOMAIN held \ write |-> held[r]]]

\* pheta_newbasicblock: the previous current block is synchronised first; the
\* list of blocks starts with the latest
addblock(c) ==
  LET b == Len(c.blk) + 1
  IN [c EXCEPT !.blk = Append(@, [base |-> << >>, pred |-> NoPred,
                                  t |-> NoBlock, f |-> NoBlock,
                                  lbuf |-> << >>, dirty |-> {}]),
               !.blocks = <<b>> \o @, !.cur = b, !.out = b]
newbasicblock(c) == addblock(lsync(c))

\* pheta_getbasicblock: a leader's own block, or a new one
newleader(c, line) == LET n == newbasicblock(c) IN [n EXCEPT !.leaders[line] = n.out]
getbasicblock(c, line) ==
  IF line \notin DOMAIN c.leaders THEN newbasicblock(c)
  ELSE IF c.leaders[line] = NoBlock THEN newleader(c, line)
  ELSE [lsync(c) EXCEPT !.cur = c.leaders[line], !.out = c.leaders[line]]

\* pheta_link
link(c, from, pred, t, f) ==
  IF from = NoBlock THEN [c EXCEPT !.fault = "null"]
  ELSE [c EXCEPT !.blk[from] = [@ EXCEPT !.pred = pred, !.t = t, !.f = f]]
=============================================================================
