------------------------------ MODULE ArmModes ------------------------------
(***************************************************************************)
(* Processor modes and the physical register file of the emulated ARM     *)
(* (core/processor.h, core/registers.h).  r8-r12 have a user and a FIQ     *)
(* copy, r13-r14 one copy per privileged mode; r0-r7 and r15 are not       *)
(* banked.  The set of banked registers is a parameter: the code loops     *)
(* over r8-r12 (LoRegs) and r13-r14 (HiRegs), and nothing it does depends  *)
(* on how many there are, except that r14 is the link register.            *)
(***************************************************************************)
EXTENDS Integers

CONSTANTS LoRegs,   \* r8..r12: banked for FIQ only
          HiRegs    \* r13..r14: banked for every privileged mode

ASSUME RegsAssumption == /\ LoRegs \subseteq 8..12
                         /\ HiRegs \subseteq 13..14
                         /\ 14 \in HiRegs

Regs == LoRegs \cup HiRegs

pm_USR32 == 16
pm_FIQ32 == 17
pm_IRQ32 == 18
pm_SVC32 == 19
pm_ABT32 == 23
pm_UND32 == 27

\* The modes the switches in processor.c handle; every other number falls
\* through them.
KnownModes == {pm_USR32, pm_FIQ32, pm_IRQ32, pm_SVC32, pm_ABT32, pm_UND32}

\* The save arrays usr[7], fiq[7], irq[2], svc[2], abt[2], und[2].
Phys == ({"usr", "fiq"} \X Regs) \cup ({"irq", "svc", "abt", "und"} \X HiRegs)

BankName(m) == CASE m = pm_USR32 -> "usr"
                 [] m = pm_FIQ32 -> "fiq"
                 [] m = pm_IRQ32 -> "irq"
                 [] m = pm_SVC32 -> "svc"
                 [] m = pm_ABT32 -> "abt"
                 [] m = pm_UND32 -> "und"

\* The physical register an instruction in mode m names as r[i].
View(m, i) ==
    IF i \in HiRegs \/ m = pm_FIQ32 THEN <<BankName(m), i>> ELSE <<"usr", i>>
=============================================================================
