----------------------------- MODULE MCOperand2 -----------------------------
(***************************************************************************)
(* Every shift of every word of W bits, register amounts going past the    *)
(* width as the low byte of a register does, and all 4096 immediates.      *)
(***************************************************************************)
EXTENDS Operand2

AllShifts == [type : ShiftTypes, byreg : {FALSE}, amount : 0 .. W - 1]
             \cup [type : ShiftTypes, byreg : {TRUE}, amount : 0 .. 2 * W + 1]

AllFields == 0 .. 4095
=============================================================================
