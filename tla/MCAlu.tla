-------------------------------- MODULE MCAlu --------------------------------
(***************************************************************************)
(* Words of three bits; registers plain or rotated through the carry.      *)
(***************************************************************************)
EXTENDS Alu

Plain == [type |-> "LSL", byreg |-> FALSE, amount |-> 0]
Rrx == [type |-> "ROR", byreg |-> FALSE, amount |-> 0]

OnlyPlain == {Plain}
PlainAndRrx == {Plain, Rrx}

AllWords == Word

\* No instruction is disabled for want of a word to hold its result.
ASSUME ShifterFits == \A x \in Word, sh \in Shifts, c \in Bit :
                         Shifter(x, sh, c).op2 \in Word /\ Shifter(x, sh, c).c \in Bit
ASSUME LogicFits == \A op \in logic, a, b \in Word : LogicResult(op, a, b) \in Word
=============================================================================
