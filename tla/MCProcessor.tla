---------------------------- MODULE MCProcessor -----------------------------
(***************************************************************************)
(* Every program of at most MaxInsns guest instructions and exceptions on  *)
(* a register file of one register of each kind.                           *)
(***************************************************************************)
EXTENDS ProcessorHistory

CONSTANTS MCGuestModes,   \* modes the guest puts into the words it writes
          MaxInsns        \* length of the programs explored

MCGuestPsrs == [mode : MCGuestModes, int : {0}, nzcv : {1}]

VARIABLE insns

MCInit == HInit /\ insns = 0

MCStep == insns < MaxInsns /\ insns' = insns + 1 /\ HNext

\* The process has ended or the program is over.
MCEnd == (halted # "no" \/ insns = MaxInsns) /\ UNCHANGED <<hvars, insns>>

MCNext == MCStep \/ MCEnd

MCSpec == MCInit /\ [][MCNext]_<<hvars, insns>>
=============================================================================
