----------------------------- MODULE MCRecompiler ----------------------------
(* Guest programs of three instructions for Recompiler. *)
EXTENDS Recompiler

Imm3(n, carry) == [form |-> "imm", v |-> n, carry |-> carry]
Sh(rm, sh, n) == [form |-> "shift", rm |-> rm, sh |-> sh, n |-> n]
Dp(cond, op, s, rd, rn, o2) ==
  [k |-> "dp", cond |-> cond, op |-> op, s |-> s, rd |-> rd, rn |-> rn, o2 |-> o2]
Sdt(l, b, p, u, w, rd, rn, o2) ==
  [k |-> "sdt", cond |-> AL, l |-> l, b |-> b, p |-> p, u |-> u, w |-> w,
   rd |-> rd, rn |-> rn, o2 |-> o2]
Bdt(l, p, u, w, rn, list) ==
  [k |-> "bdt", cond |-> AL, l |-> l, p |-> p, u |-> u, w |-> w, s |-> FALSE,
   rn |-> rn, list |-> list]
Bra(cond, dest) == [k |-> "bra", cond |-> cond, l |-> FALSE, dest |-> dest]

LS == 9
Body == {
  Dp(AL, "MOV", FALSE, 0, 0, Sh(1, "LSL", 0)),
  Dp(AL, "ADD", FALSE, 0, 0, Sh(1, "LSL", 2)),
  Dp(AL, "SUB", TRUE, 0, 0, Imm3(1, None)),
  Dp(AL, "CMP", TRUE, 0, 1, Sh(0, "LSL", 0)),
  Dp(AL, "ADC", FALSE, 1, 1, Sh(0, "LSL", 0)),
  Dp(AL, "RSC", TRUE, 1, 0, Imm3(0, None)),
  Dp(AL, "AND", TRUE, 1, 0, Sh(1, "LSR", 0)),
  Dp(AL, "ORR", TRUE, 1, 0, Sh(1, "ROR", 0)),
  Dp(AL, "BIC", TRUE, 1, 0, Imm3(200, 0)),
  Dp(EQ, "MOV", FALSE, 0, 0, Sh(2, "LSL", 0)),
  Dp(LT, "RSB", FALSE, 1, 0, Sh(1, "ASR", 0)),
  Sdt(TRUE, FALSE, TRUE, TRUE, FALSE, 0, 1, Imm3(4, None)),
  Sdt(FALSE, TRUE, FALSE, FALSE, FALSE, 0, 1, Imm3(4, None)),
  Sdt(FALSE, FALSE, TRUE, TRUE, FALSE, 0, 1, Imm3(0, None)),
  Bdt(TRUE, FALSE, TRUE, TRUE, 2, {0, 1}),
  Bdt(FALSE, TRUE, FALSE, TRUE, 2, {0, 1, 14}),
  [k |-> "mul", cond |-> AL, a |-> TRUE, s |-> TRUE, rd |-> 0, rm |-> 0,
   rs |-> 1, rn |-> 2] }
Last3 == {Bra(AL, 8), Bra(NE, 0), Bra(LT, 1), Bra(AL, 1), Bra(NE, 8), Bra(LS, 8),
          Dp(AL, "MOV", FALSE, 15, 0, Sh(14, "LSL", 0)), [k |-> "swi", cond |-> AL]}
Jumps == {Bra(cond, dest) : cond \in {AL, EQ, NE}, dest \in {0, 1, 2, 8}}
Around == {j \in Jumps : j.cond # NE}

mcPrograms == {<<a, b, d>> : a \in Body, b \in Body, d \in Last3}
                \cup {<<a, b, d>> : a \in Jumps, b \in Jumps, d \in Jumps}
                \cup {<<a, b, d>> : a \in Around, b \in Body, d \in Around}
mcRegs == {0, 1, 2, 14}
=============================================================================
