----------------------------- MODULE BankedRegs -----------------------------
(***************************************************************************)
(* What the register file promises a guest program: every mode sees its    *)
(* own physical registers, an instruction changes only the registers its   *)
(* mode sees (or, for a user-bank transfer, the user registers), and       *)
(* changing mode moves no value.  Processor implements this with one live  *)
(* register set and save arrays.                                           *)
(***************************************************************************)
EXTENDS ArmModes

CONSTANT Val

VARIABLES file,   \* the physical registers
          mode,   \* the processor mode
          dead    \* the emulator has aborted

vars == <<file, mode, dead>>

Init == /\ file \in [Phys -> Val]
        /\ mode = pm_SVC32
        /\ dead = FALSE

\* Only registers that mode m sees have changed.
OnlySeen(m) == /\ file' \in [Phys -> Val]
               /\ \A p \in Phys : file'[p] # file[p] => p = View(m, p[2])

\* An ordinary instruction writes registers of its mode.
Write == OnlySeen(mode) /\ UNCHANGED <<mode, dead>>

\* A user-bank transfer may write any of the user registers and no other.
WriteUser == /\ file' \in [Phys -> Val]
             /\ \A p \in Phys : file'[p] # file[p] => p[1] = "usr"
             /\ UNCHANGED <<mode, dead>>

\* An exception enters a mode and writes that mode's link register.
Exception == \E m \in {pm_IRQ32, pm_SVC32, pm_UND32}, v \in Val :
                /\ file' = [file EXCEPT ![<<BankName(m), 14>>] = v]
                /\ mode' = m
                /\ UNCHANGED dead

\* An exception return may load registers of the mode it leaves; the change
\* of mode itself moves no value.
Return == OnlySeen(mode) /\ mode' \in KnownModes /\ UNCHANGED dead

Die == dead' = TRUE /\ UNCHANGED <<file, mode>>

Next == ~dead /\ (Write \/ WriteUser \/ Exception \/ Return \/ Die)

Spec == Init /\ [][Next]_vars
=============================================================================
