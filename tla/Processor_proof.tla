-------------------------- MODULE Processor_proof ---------------------------
(***************************************************************************)
(* Type correctness, agreement of the mode copies, implementation of the   *)
(* banked register file and the saved status words of nested exceptions,   *)
(* for every register set, address space and guest program.                *)
(***************************************************************************)
EXTENDS ProcessorHistory, TLAPS

Save(rr, bb, m) == processor_reg_savecurrent(rr, bb, m)
Restore(rr, bb, m) == processor_reg_restorenew(rr, bb, m)

\* Saving and loading use the register the architecture names, in every
\* implemented mode.
LEMMA Views ==
    ASSUME NEW m \in KnownModes, NEW i \in Regs
    PROVE  /\ SavedTo(m, i) = View(m, i)
           /\ LoadedFrom(m, i) = View(m, i)
           /\ View(m, i) \in Phys
           /\ View(m, i)[2] = i
<1>1. i \in LoRegs \/ i \in HiRegs
  BY DEF Regs
<1>2. ~(i \in LoRegs /\ i \in HiRegs)
  <2>1. LoRegs \subseteq 8..12 /\ HiRegs \subseteq 13..14
    BY RegsAssumption
  <2>2. \A j \in 8..12 : j \notin 13..14
    OBVIOUS
  <2> QED
    BY <2>1, <2>2
<1> QED
  BY <1>1, <1>2 DEF KnownModes, SavedTo, LoadedFrom, View, BankName, Phys, Regs,
     pm_USR32, pm_FIQ32, pm_IRQ32, pm_SVC32, pm_ABT32, pm_UND32

\* A physical register is a bank and a register number.
LEMMA PhysIndex == ASSUME NEW p \in Phys PROVE p[2] \in Regs
BY DEF Phys, Regs

LEMMA SaveType ==
    ASSUME NEW m, NEW rr \in [Regs -> Val], NEW bb \in [Phys -> Val]
    PROVE  Save(rr, bb, m) \in [Phys -> Val]
BY PhysIndex DEF Save, processor_reg_savecurrent

LEMMA RestoreType ==
    ASSUME NEW m, NEW rr \in [Regs -> Val], NEW bb \in [Phys -> Val]
    PROVE  Restore(rr, bb, m) \in [Regs -> Val]
BY Views DEF Restore, processor_reg_restorenew

\* What a saved register file contains.
LEMMA SaveAt ==
    ASSUME NEW m \in KnownModes, NEW rr, NEW bb, NEW p \in Phys
    PROVE  Save(rr, bb, m)[p] = IF View(m, p[2]) = p THEN rr[p[2]] ELSE bb[p]
BY Views, PhysIndex DEF Save, processor_reg_savecurrent

\* Loading a mode's registers and saving them again changes nothing.
LEMMA SaveRestore ==
    ASSUME NEW m \in KnownModes, NEW rr, NEW bb \in [Phys -> Val]
    PROVE  Save(Restore(rr, bb, m), bb, m) = bb
<1> DEFINE live == Restore(rr, bb, m)
<1>1. \A i \in Regs : live[i] = bb[View(m, i)]
  BY Views DEF Restore, processor_reg_restorenew
<1>2. \A p \in Phys : Save(live, bb, m)[p] = bb[p]
  BY <1>1, SaveAt, PhysIndex
<1>3. Save(live, bb, m) = [p \in Phys |-> Save(live, bb, m)[p]]
  BY DEF Save, processor_reg_savecurrent
<1> QED
  BY <1>2, <1>3

-----------------------------------------------------------------------------
(* Invariants *)

\* A mode switch never meets a mode number outside processor.c's switches.
SpsrModesKnown == \A k \in 0..4 : spsr[k].mode \in KnownModes \cup 0..15

Inv == TypeOK /\ ModeCoherent /\ SpsrModesKnown

LEMMA AddrMod == \A x \in Int : x % AddrSize \in Val
BY AddrAssumption DEF AddrAssumption, Val

LEMMA ValInt == \A v \in Val : v \in Int
BY AddrAssumption DEF AddrAssumption, Val

LEMMA InitInv == Init => Inv
<1> SUFFICES ASSUME Init PROVE Inv
  OBVIOUS
<1>1. 0 \in Val /\ 2 % AddrSize \in Val
  BY AddrMod, AddrAssumption DEF AddrAssumption, Val
<1>2. TypeOK
  BY <1>1 DEF Init, TypeOK, Psr, ZeroPsr, pm_SVC32
<1>3. ModeCoherent
  BY DEF Init, ModeCoherent, SpsrIndex, KnownModes, pm_USR32, pm_FIQ32, pm_IRQ32,
         pm_SVC32, pm_ABT32, pm_UND32
<1>4. SpsrModesKnown
  BY DEF Init, SpsrModesKnown, KnownModes, ZeroPsr
<1> QED
  BY <1>2, <1>3, <1>4 DEF Inv

\* Entering an exception mode from a state of the invariant.
LEMMA EnterInv ==
    ASSUME Inv, NEW m \in {pm_IRQ32, pm_SVC32, pm_UND32}, NEW lr \in Val,
           NEW intmask \in 0..3, NEW vector \in 0..7,
           Enter(m, lr, intmask, vector)
    PROVE  Inv'
<1>1. PICK vb \in VectorBases :
        /\ bank' = Save(r, bank, cpsr.mode)
        /\ r' = [Restore(r, Save(r, bank, cpsr.mode), m) EXCEPT ![14] = lr]
        /\ pc' = (vb + vector + 2) % AddrSize
  BY DEF Enter, Save, Restore
<1>2. bank' \in [Phys -> Val]
  BY <1>1, SaveType DEF Inv, TypeOK
<1>3. r' \in [Regs -> Val]
  <2>1. Restore(r, Save(r, bank, cpsr.mode), m) \in [Regs -> Val]
    BY SaveType, RestoreType DEF Inv, TypeOK
  <2> QED
    BY <1>1, <2>1
<1>4. pc' \in Val
  BY <1>1, AddrMod, ValInt, VectorAssumption DEF VectorAssumption
<1>5. cpsr' \in Psr
  <2>1. cpsr' = [cpsr EXCEPT !.mode = m, !.int = intmask]
    BY DEF Enter
  <2>2. m \in 0..31
    BY DEF pm_IRQ32, pm_SVC32, pm_UND32
  <2> QED
    BY <2>1, <2>2 DEF Inv, TypeOK, Psr
<1>9. spsr' \in [0..4 -> Psr]
  <2>1. \/ spsr' = spsr
        \/ SlotOf(m) \in DOMAIN spsr /\ spsr' = [spsr EXCEPT ![SlotOf(m)] = cpsr]
    BY DEF Enter
  <2> QED
    BY <2>1 DEF Inv, TypeOK
<1>6. ModeCoherent' /\ spsr_current' \in 0..5 /\ currentmode' \in 16..31
  BY DEF Inv, TypeOK, ModeCoherent, Enter, SpsrIndex, Psr, KnownModes, pm_USR32,
         pm_FIQ32, pm_IRQ32, pm_SVC32, pm_ABT32, pm_UND32
<1>7. SpsrModesKnown'
  BY DEF Inv, TypeOK, ModeCoherent, SpsrModesKnown, Enter
<1>8. halted' = halted
  BY DEF Enter
<1> QED
  BY <1>2, <1>3, <1>4, <1>5, <1>6, <1>7, <1>8, <1>9 DEF Inv, TypeOK

LEMMA HaltInv ==
    ASSUME Inv, NEW why \in {"abort", "assert", "wild"}, Halt(why)
    PROVE  Inv'
BY DEF Inv, TypeOK, ModeCoherent, SpsrModesKnown, Halt

\* Returning to the status word old.
LEMMA ReturnInv ==
    ASSUME Inv, NEW rr \in [Regs -> Val], NEW old \in Psr, NEW target \in Val,
           old.mode \in KnownModes \cup 0..15, ReturnTo(rr, old, target)
    PROVE  Inv'
<1>1. CASE old.mode < 16
  BY <1>1, HaltInv DEF ReturnTo
<1>2. CASE ~(old.mode < 16)
  <2>1. /\ bank' = Save(rr, bank, cpsr.mode)
        /\ r' = Restore(rr, Save(rr, bank, cpsr.mode), old.mode)
        /\ spsr_current' = SpsrIndex(spsr_current, old.mode)
        /\ currentmode' = old.mode
        /\ cpsr' = old
        /\ pc' = (target + 2) % AddrSize
        /\ UNCHANGED <<spsr, halted>>
    BY <1>2 DEF ReturnTo, processor_mode, Save, Restore
  <2>2. bank' \in [Phys -> Val] /\ r' \in [Regs -> Val]
    BY <2>1, SaveType, RestoreType DEF Inv, TypeOK
  <2>3. pc' \in Val
    BY <2>1, AddrMod, ValInt
  <2>4. old.mode \in KnownModes
    BY <1>2 DEF KnownModes
  <2>5. ModeCoherent' /\ spsr_current' \in 0..5 /\ currentmode' \in 16..31
    BY <2>1, <2>4 DEF ModeCoherent, SpsrIndex, KnownModes, pm_USR32, pm_FIQ32,
       pm_IRQ32, pm_SVC32, pm_ABT32, pm_UND32
  <2>6. SpsrModesKnown'
    BY <2>1 DEF Inv, SpsrModesKnown
  <2> QED
    BY <2>1, <2>2, <2>3, <2>5, <2>6 DEF Inv, TypeOK
<1> QED
  BY <1>1, <1>2

LEMMA LoadType ==
    ASSUME Inv, NEW f \in Loads
    PROVE  Load(f) \in [Regs -> Val]
<1>1. PICK S \in SUBSET Regs : f \in [S -> GuestVals]
  BY DEF Loads
<1> QED
  BY <1>1, GuestValsAssumption DEF Inv, TypeOK, Load

LEMMA SpsrType ==
    ASSUME Inv
    PROVE  CurrentSpsr \in Psr /\ CurrentSpsr.mode \in KnownModes \cup 0..15
<1>1. FivePsr \in Psr /\ FivePsr.mode \in 0..15
  BY DEF FivePsr, Psr
<1> QED
  BY <1>1 DEF CurrentSpsr, Inv, TypeOK, SpsrModesKnown

\* What the user-bank transfer leaves: the user registers f names are written,
\* every other physical register keeps the value the guest saw in it.
LEMMA TransferSaves ==
    ASSUME Inv, NEW f \in Loads, UserTransfer(f)
    PROVE  /\ bank' \in [Phys -> Val]
           /\ r' = Restore(Load(f), bank', cpsr.mode)
           /\ \A p \in Phys : bank'[p] = IF p[1] = "usr" /\ p[2] \in DOMAIN f
                                         THEN f[p[2]]
                                         ELSE Save(r, bank, cpsr.mode)[p]
<1> DEFINE saved == Save(r, bank, cpsr.mode)
           user  == Restore(r, saved, pm_USR32)
           moved == [i \in Regs |-> IF i \in DOMAIN f THEN f[i] ELSE user[i]]
<1>0. pm_USR32 \in KnownModes /\ cpsr.mode \in KnownModes
  BY DEF KnownModes, Inv, ModeCoherent
<1>1. bank' = Save(moved, saved, pm_USR32) /\ r' = Restore(moved, bank', cpsr.mode)
  BY DEF UserTransfer, Save, Restore
<1>2. saved \in [Phys -> Val]
  BY SaveType DEF Inv, TypeOK
<1>3. user \in [Regs -> Val]
  BY <1>2, RestoreType DEF Inv, TypeOK
<1>4. moved \in [Regs -> Val]
  <2>1. PICK S \in SUBSET Regs : f \in [S -> GuestVals]
    BY DEF Loads
  <2> QED
    BY <1>3, <2>1, GuestValsAssumption
<1>5. bank' \in [Phys -> Val]
  BY <1>1, <1>2, <1>4, SaveType
<1>6. r' = Restore(Load(f), bank', cpsr.mode)
  BY <1>0, <1>1 DEF Restore, processor_reg_restorenew
<1>7. ASSUME NEW p \in Phys
      PROVE  bank'[p] = IF p[1] = "usr" /\ p[2] \in DOMAIN f THEN f[p[2]] ELSE saved[p]
  <2>1. View(pm_USR32, p[2]) = <<"usr", p[2]>>
    BY DEF View, BankName, pm_USR32, pm_FIQ32, pm_IRQ32, pm_SVC32, pm_ABT32, pm_UND32
  <2>2. bank'[p] = IF View(pm_USR32, p[2]) = p THEN moved[p[2]] ELSE saved[p]
    BY <1>0, <1>1, SaveAt
  <2>3. p = <<p[1], p[2]>> /\ p[2] \in Regs
    BY DEF Phys, Regs
  <2>4. user[p[2]] = saved[<<"usr", p[2]>>]
    BY <1>0, <2>1, <2>3, Views DEF Restore, processor_reg_restorenew
  <2> QED
    BY <2>1, <2>2, <2>3, <2>4
<1> QED
  BY <1>5, <1>6, <1>7

LEMMA TransferInv ==
    ASSUME Inv, NEW f \in Loads, UserTransfer(f)
    PROVE  Inv'
<1>1. bank' \in [Phys -> Val]
  BY TransferSaves
<1>2. r' \in [Regs -> Val]
  BY <1>1, TransferSaves, LoadType, RestoreType
<1>3. pc' \in Val
  BY AddrMod, ValInt DEF UserTransfer, NextPc, Inv, TypeOK
<1>4. spsr_current' = spsr_current
  BY DEF UserTransfer, Inv, TypeOK, ModeCoherent, SpsrIndex, KnownModes, pm_USR32,
         pm_FIQ32, pm_IRQ32, pm_SVC32, pm_ABT32, pm_UND32
<1>5. UNCHANGED <<cpsr, spsr, currentmode, halted>>
  BY DEF UserTransfer
<1> QED
  BY <1>1, <1>2, <1>3, <1>4, <1>5 DEF Inv, TypeOK, ModeCoherent, SpsrModesKnown

LEMMA StatusInv ==
    ASSUME Inv, GuestModesKnown, NEW new \in GuestPsrs, NEW fields \in SUBSET {"c", "f"},
           MsrSpsr(new, fields) \/ MsrCpsr(new, fields)
    PROVE  Inv'
<1>1. new \in Psr /\ new.mode \in KnownModes \cup 0..15
  BY GuestPsrsAssumption DEF GuestModesKnown
<1>2. \A old \in Psr : Merge(old, new, fields) \in Psr
  BY <1>1 DEF Merge, Psr
<1>3. \A old \in Psr : old.mode \in KnownModes \cup 0..15 =>
                        Merge(old, new, fields).mode \in KnownModes \cup 0..15
  BY <1>1 DEF Merge
<1>4. NextPc \in Val
  BY AddrMod, ValInt DEF NextPc, Inv, TypeOK
<1>5. CASE MsrSpsr(new, fields)
  <2>1. CASE spsr_current \notin DOMAIN spsr
    BY <1>5, <2>1, HaltInv DEF MsrSpsr
  <2>2. CASE spsr_current \in DOMAIN spsr
    <3>1. /\ spsr' = [spsr EXCEPT ![spsr_current] = Merge(@, new, fields)]
          /\ pc' = NextPc
          /\ UNCHANGED <<r, cpsr, bank, spsr_current, currentmode, halted>>
      BY <1>5, <2>2 DEF MsrSpsr
    <3>2. spsr' \in [0..4 -> Psr]
      BY <3>1, <2>2, <1>2 DEF Inv, TypeOK
    <3>3. SpsrModesKnown'
      BY <3>1, <2>2, <1>3 DEF Inv, TypeOK, SpsrModesKnown
    <3> QED
      BY <3>1, <3>2, <3>3, <1>4 DEF Inv, TypeOK, ModeCoherent
  <2> QED
    BY <2>1, <2>2
<1>6. CASE MsrCpsr(new, fields)
  <2> DEFINE merged == Merge(cpsr, new, fields)
  <2>1. CASE "c" \in fields /\ merged.mode # cpsr.mode
    BY <1>6, <2>1, HaltInv DEF MsrCpsr
  <2>2. CASE ~("c" \in fields /\ merged.mode # cpsr.mode)
    <3>1. /\ cpsr' = IF "c" \in fields THEN merged ELSE cpsr
          /\ pc' = NextPc
          /\ UNCHANGED <<r, bank, spsr, spsr_current, currentmode, halted>>
      BY <1>6, <2>2 DEF MsrCpsr
    <3>2. cpsr' \in Psr /\ cpsr'.mode = cpsr.mode
      BY <3>1, <2>2, <1>2 DEF Inv, TypeOK
    <3> QED
      BY <3>1, <3>2, <1>4 DEF Inv, TypeOK, ModeCoherent, SpsrModesKnown
  <2> QED
    BY <2>1, <2>2
<1> QED
  BY <1>5, <1>6

LEMMA EntryArguments ==
    ASSUME Inv
    PROVE  LinkAddress \in Val /\ DisableIrq(cpsr.int) \in 0..3
<1>1. LinkAddress \in Val
  BY AddrMod, ValInt DEF LinkAddress, Inv, TypeOK
<1>2. DisableIrq(cpsr.int) \in 0..3
  BY DEF DisableIrq, Inv, TypeOK, Psr
<1> QED
  BY <1>1, <1>2

LEMMA StepInv == ASSUME GuestModesKnown, Inv, [Next]_vars PROVE Inv'
<1>1. CASE UNCHANGED vars
  BY <1>1 DEF vars, Inv, TypeOK, ModeCoherent, SpsrModesKnown
<1>2. CASE Exceptions
  <2>1. CASE processor_irq
    BY <2>1, EntryArguments, EnterInv DEF processor_irq
  <2>2. CASE processor_swi
    BY <2>2, EntryArguments, EnterInv DEF processor_swi
  <2>3. CASE processor_und
    BY <2>3, EntryArguments, EnterInv, HaltInv DEF processor_und
  <2> QED
    BY <1>2, <2>1, <2>2, <2>3 DEF Exceptions
<1>3. CASE Faults
  BY <1>3, HaltInv DEF Faults, processor_fiq, processor_dataabort
<1>4. CASE Moves
  <2>1. PICK f \in Loads : PutRegs(f) \/ UserTransfer(f)
    BY <1>4 DEF Moves
  <2>2. CASE PutRegs(f)
    <3>1. r' \in [Regs -> Val]
      BY <2>2, LoadType DEF PutRegs
    <3>2. pc' \in Val
      BY <2>2, AddrMod, ValInt DEF PutRegs, NextPc, Inv, TypeOK
    <3> QED
      BY <2>2, <3>1, <3>2 DEF PutRegs, Inv, TypeOK, ModeCoherent, SpsrModesKnown
  <2> QED
    BY <2>1, <2>2, TransferInv
<1>5. CASE Returns
  <2>1. ASSUME NEW i \in Regs, DpReturn(i) PROVE Inv'
    <3>1. r[i] \in Val /\ r \in [Regs -> Val]
      BY DEF Inv, TypeOK
    <3>2. CASE spsr_current # 0
      BY <2>1, <3>1, <3>2, SpsrType, ReturnInv DEF DpReturn
    <3>3. CASE spsr_current = 0
      <4>1. /\ pc' = (r[i] + 2) % AddrSize
            /\ UNCHANGED <<r, cpsr, bank, spsr, spsr_current, currentmode, halted>>
        BY <2>1, <3>3 DEF DpReturn
      <4>2. pc' \in Val
        BY <3>1, <4>1, AddrMod, ValInt
      <4> QED
        BY <4>1, <4>2 DEF Inv, TypeOK, ModeCoherent, SpsrModesKnown
    <3> QED
      BY <3>2, <3>3
  <2>2. ASSUME NEW f \in Loads, NEW v \in GuestVals, LdmReturn(f, v) PROVE Inv'
    BY <2>2, LoadType, SpsrType, ReturnInv, GuestValsAssumption DEF LdmReturn
  <2> QED
    BY <1>5, <2>1, <2>2 DEF Returns
<1>6. CASE StatusWrites
  BY <1>6, StatusInv DEF StatusWrites
<1> QED
  BY <1>1, <1>2, <1>3, <1>4, <1>5, <1>6 DEF Next

\* Every reachable state of the processor has well-typed registers, status
\* words and mode copies (registers.h), whatever the guest executes.
THEOREM TypeCorrect == ASSUME GuestModesKnown PROVE Spec => []TypeOK
<1>1. Init => Inv
  BY InitInv
<1>2. Inv /\ [Next]_vars => Inv'
  BY StepInv
<1>3. Inv => TypeOK
  BY DEF Inv
<1> QED
  BY <1>1, <1>2, <1>3, PTL DEF Spec

\* The mode field, mem->currentmode and spsr_current agree in every reachable
\* state: no exception, return or transfer leaves one of them behind.
THEOREM ModesAgree == ASSUME GuestModesKnown PROVE Spec => []ModeCoherent
<1>1. Init => Inv
  BY InitInv
<1>2. Inv /\ [Next]_vars => Inv'
  BY StepInv
<1>3. Inv => ModeCoherent
  BY DEF Inv
<1> QED
  BY <1>1, <1>2, <1>3, PTL DEF Spec

-----------------------------------------------------------------------------
(* Implementation of the banked register file *)

\* In an implemented mode, the file the guest sees is what saving the live
\* registers would store.
LEMMA FileSave ==
    ASSUME NEW m \in KnownModes, NEW rr, NEW bb
    PROVE  [p \in Phys |-> IF View(m, p[2]) = p THEN rr[p[2]] ELSE bb[p]] = Save(rr, bb, m)
BY Views, PhysIndex DEF Save, processor_reg_savecurrent

LEMMA FileOfNow == ASSUME Inv PROVE FileOf = Save(r, bank, cpsr.mode)
BY FileSave DEF FileOf, Inv, ModeCoherent

LEMMA FileOfNext == ASSUME Inv' PROVE FileOf' = Save(r', bank', cpsr'.mode)
<1>1. cpsr'.mode \in KnownModes
  BY DEF Inv, ModeCoherent
<1>2. FileOf' = [p \in Phys |-> IF View(cpsr'.mode, p[2]) = p THEN r'[p[2]] ELSE bank'[p]]
  BY DEF FileOf
<1> QED
  BY <1>1, <1>2, FileSave

LEMMA FileOfType == ASSUME Inv PROVE FileOf \in [Phys -> Val]
BY FileOfNow, SaveType DEF Inv, TypeOK

\* Writing live registers and saving them changes only what the mode sees.
LEMMA SaveLoad ==
    ASSUME Inv, NEW f \in Loads, NEW p \in Phys,
           Save(Load(f), bank, cpsr.mode)[p] # FileOf[p]
    PROVE  p = View(cpsr.mode, p[2])
BY FileOfNow, SaveAt DEF Inv, ModeCoherent

\* The instance's definitions of the file are this module's.
LEMMA SamePhys == Banked!Phys = Phys
BY DEF Banked!Phys, Phys, Banked!Regs, Regs

LEMMA SameModes ==
    /\ Banked!KnownModes = KnownModes
    /\ Banked!pm_IRQ32 = pm_IRQ32
    /\ Banked!pm_SVC32 = pm_SVC32
    /\ Banked!pm_UND32 = pm_UND32
BY DEF Banked!KnownModes, KnownModes, Banked!pm_USR32, pm_USR32, Banked!pm_FIQ32,
       pm_FIQ32, Banked!pm_IRQ32, pm_IRQ32, Banked!pm_SVC32, pm_SVC32,
       Banked!pm_ABT32, pm_ABT32, Banked!pm_UND32, pm_UND32

LEMMA SameName == \A m : Banked!BankName(m) = BankName(m)
BY DEF Banked!BankName, BankName, Banked!pm_USR32, pm_USR32, Banked!pm_FIQ32,
       pm_FIQ32, Banked!pm_IRQ32, pm_IRQ32, Banked!pm_SVC32, pm_SVC32,
       Banked!pm_ABT32, pm_ABT32, Banked!pm_UND32, pm_UND32

LEMMA SameView == \A m, i : Banked!View(m, i) = View(m, i)
BY SameName DEF Banked!View, View, Banked!pm_FIQ32, pm_FIQ32

\* A load the register file takes on its way: Write, or the Write of a Return.
LEMMA LoadSeen ==
    ASSUME Inv, NEW f \in Loads, Inv', FileOf' = Save(Load(f), bank, cpsr.mode)
    PROVE  Banked!OnlySeen(cpsr.mode)
<1>1. FileOf' \in [Phys -> Val]
  BY LoadType, SaveType DEF Inv, TypeOK
<1>2. \A p \in Phys : FileOf'[p] # FileOf[p] => p = View(cpsr.mode, p[2])
  BY SaveLoad
<1> QED
  BY <1>1, <1>2, SamePhys, SameView DEF Banked!OnlySeen

\* A halt leaves the file as it is.
LEMMA HaltRefines ==
    ASSUME Inv, halted = "no", NEW why \in {"abort", "assert", "wild"}, Halt(why)
    PROVE  Banked!Next
<1>1. FileOf' = FileOf /\ cpsr' = cpsr /\ halted' = why
  BY DEF Halt, FileOf
<1> QED
  BY <1>1 DEF Banked!Next, Banked!Die

\* Entering an exception writes the new mode's link register and nothing else.
LEMMA EnterRefines ==
    ASSUME Inv, Inv', halted = "no", NEW m \in {pm_IRQ32, pm_SVC32, pm_UND32},
           NEW lr \in Val, NEW intmask \in 0..3, NEW vector,
           Enter(m, lr, intmask, vector)
    PROVE  Banked!Next
<1> DEFINE saved == Save(r, bank, cpsr.mode)
           fresh == Restore(r, saved, m)
<1>0. m \in KnownModes /\ 14 \in Regs /\ 14 \in HiRegs
  BY RegsAssumption DEF KnownModes, Regs
<1>1. bank' = saved /\ r' = [fresh EXCEPT ![14] = lr] /\ halted' = halted
  BY DEF Enter, Save, Restore
<1>2. cpsr' = [cpsr EXCEPT !.mode = m, !.int = intmask]
  BY DEF Enter
<1>3. cpsr'.mode = m
  BY <1>2 DEF Inv, TypeOK, Psr
<1>4. saved = FileOf /\ saved \in [Phys -> Val]
  BY FileOfNow, FileOfType
<1>5. fresh \in [Regs -> Val]
  BY <1>4, RestoreType DEF Inv, TypeOK
<1>6. Save(fresh, saved, m) = saved
  BY <1>0, <1>4, SaveRestore
<1>7. View(m, 14) = <<BankName(m), 14>>
  BY <1>0 DEF View
<1>8. \A p \in Phys : Save(r', saved, m)[p] = IF p = <<BankName(m), 14>> THEN lr ELSE saved[p]
  <2> TAKE p \in Phys
  <2>1. p[2] \in Regs
    BY PhysIndex
  <2>2. CASE View(m, p[2]) = p /\ p[2] = 14
    BY <1>0, <1>1, <1>5, <1>7, <2>2, SaveAt
  <2>3. CASE View(m, p[2]) = p /\ p[2] # 14
    <3>1. p # <<BankName(m), 14>>
      BY <2>3
    <3>2. r'[p[2]] = fresh[p[2]]
      BY <1>1, <1>5, <2>1, <2>3
    <3>3. Save(fresh, saved, m)[p] = fresh[p[2]]
      BY <1>0, <2>3, SaveAt
    <3> QED
      BY <1>0, <1>6, <2>3, <3>1, <3>2, <3>3, SaveAt
  <2>4. CASE View(m, p[2]) # p
    <3>1. p # <<BankName(m), 14>>
      BY <1>7, <2>4
    <3> QED
      BY <1>0, <2>4, <3>1, SaveAt
  <2> QED
    BY <2>2, <2>3, <2>4
<1>9. FileOf' = [FileOf EXCEPT ![<<BankName(m), 14>>] = lr]
  <2>1. FileOf' = Save(r', saved, m)
    BY <1>1, <1>3, FileOfNext
  <2>2. FileOf' \in [Phys -> Val]
    BY <2>1, <1>1, SaveType, <1>4, <1>5
  <2> QED
    BY <1>4, <1>8, <2>1, <2>2
<1>10. Banked!Exception
  BY <1>1, <1>3, <1>9, SameModes, SameName DEF Banked!Exception
<1> QED
  BY <1>10 DEF Banked!Next

\* Returning moves no value: the file afterwards is the one the registers rr
\* and the save arrays held before the switch.
LEMMA ReturnFile ==
    ASSUME Inv, Inv', NEW rr \in [Regs -> Val], NEW old \in Psr, NEW target,
           old.mode \in KnownModes, ~(old.mode < 16), ReturnTo(rr, old, target)
    PROVE  FileOf' = Save(rr, bank, cpsr.mode) /\ cpsr' = old /\ halted' = halted
<1>1. /\ bank' = Save(rr, bank, cpsr.mode)
      /\ r' = Restore(rr, bank', old.mode)
      /\ cpsr' = old
      /\ halted' = halted
  BY DEF ReturnTo, processor_mode, Save, Restore
<1>2. bank' \in [Phys -> Val]
  BY <1>1, SaveType DEF Inv, TypeOK
<1> QED
  BY <1>1, <1>2, FileOfNext, SaveRestore

LEMMA LdmRefines ==
    ASSUME Inv, Inv', halted = "no", NEW f \in Loads, NEW target, LdmReturn(f, target)
    PROVE  Banked!Next
<1> DEFINE old == CurrentSpsr
<1>1. old \in Psr /\ old.mode \in KnownModes \cup 0..15
  BY SpsrType
<1>2. CASE old.mode < 16
  BY <1>2, HaltRefines DEF LdmReturn, ReturnTo
<1>3. CASE ~(old.mode < 16)
  <2>1. old.mode \in KnownModes
    BY <1>1, <1>3
  <2>2. FileOf' = Save(Load(f), bank, cpsr.mode) /\ cpsr' = old /\ halted' = halted
    BY <1>1, <1>3, <2>1, LoadType, ReturnFile DEF LdmReturn
  <2>3. Banked!OnlySeen(cpsr.mode)
    BY <2>2, LoadSeen
  <2> QED
    BY <2>1, <2>2, <2>3, SameModes DEF Banked!Next, Banked!Return
<1> QED
  BY <1>2, <1>3

\* Steps that leave the registers and the mode alone are stuttering steps.
LEMMA Stutter ==
    ASSUME r' = r, bank' = bank, cpsr'.mode = cpsr.mode, halted' = halted
    PROVE  UNCHANGED Banked!vars
BY DEF Banked!vars, FileOf

LEMMA DpRefines ==
    ASSUME Inv, Inv', halted = "no", NEW i \in Regs, DpReturn(i)
    PROVE  [Banked!Next]_(Banked!vars)
<1>1. CASE spsr_current # 0
  <2> DEFINE none == [j \in {} |-> 0]
  <2>1. none \in Loads
    <3>1. none \in [{} -> GuestVals]
      OBVIOUS
    <3> QED
      BY <3>1 DEF Loads
  <2>2. Load(none) = r
    BY DEF Load, Inv, TypeOK
  <2>3. LdmReturn(none, r[i])
    BY <1>1, <2>2 DEF DpReturn, LdmReturn
  <2> QED
    BY <2>1, <2>3, LdmRefines
<1>2. CASE spsr_current = 0
  BY <1>2, Stutter DEF DpReturn
<1> QED
  BY <1>1, <1>2

LEMMA PutRefines ==
    ASSUME Inv, Inv', halted = "no", NEW f \in Loads, PutRegs(f)
    PROVE  Banked!Next
<1>1. r' = Load(f) /\ bank' = bank /\ cpsr' = cpsr /\ halted' = halted
  BY DEF PutRegs
<1>2. FileOf' = Save(Load(f), bank, cpsr.mode)
  BY <1>1, FileOfNext
<1>3. Banked!OnlySeen(cpsr.mode)
  BY <1>2, LoadSeen
<1> QED
  BY <1>1, <1>3 DEF Banked!Next, Banked!Write

LEMMA TransferRefines ==
    ASSUME Inv, Inv', halted = "no", NEW f \in Loads, UserTransfer(f)
    PROVE  Banked!Next
<1>1. cpsr' = cpsr /\ halted' = halted
  BY DEF UserTransfer
<1>2. /\ bank' \in [Phys -> Val]
      /\ r' = Restore(Load(f), bank', cpsr.mode)
      /\ \A p \in Phys : p[1] # "usr" => bank'[p] = FileOf[p]
  BY TransferSaves, FileOfNow
<1>3. FileOf' = bank'
  BY <1>1, <1>2, FileOfNext, SaveRestore DEF Inv, ModeCoherent
<1> QED
  BY <1>1, <1>2, <1>3, SamePhys DEF Banked!Next, Banked!WriteUser

LEMMA StatusRefines ==
    ASSUME Inv, halted = "no", NEW new, NEW fields,
           MsrSpsr(new, fields) \/ MsrCpsr(new, fields)
    PROVE  [Banked!Next]_(Banked!vars)
<1>1. CASE MsrSpsr(new, fields)
  BY <1>1, Stutter, HaltRefines DEF MsrSpsr
<1>2. CASE MsrCpsr(new, fields)
  <2> DEFINE merged == Merge(cpsr, new, fields)
  <2>1. CASE "c" \in fields /\ merged.mode # cpsr.mode
    BY <1>2, <2>1, HaltRefines DEF MsrCpsr
  <2>2. CASE ~("c" \in fields /\ merged.mode # cpsr.mode)
    BY <1>2, <2>2, Stutter DEF MsrCpsr
  <2> QED
    BY <2>1, <2>2
<1> QED
  BY <1>1, <1>2

LEMMA InitRefines == Init => Banked!Init
<1> SUFFICES ASSUME Init PROVE Banked!Init
  OBVIOUS
<1>1. FileOf \in [Phys -> Val]
  BY InitInv, FileOfType
<1> QED
  BY <1>1, SamePhys, SameModes DEF Init, Banked!Init

LEMMA StepRefines ==
    ASSUME Inv, Inv', [Next]_vars
    PROVE  [Banked!Next]_(Banked!vars)
<1>1. CASE UNCHANGED vars
  BY <1>1, Stutter DEF vars
<1>2. CASE halted = "no" /\ Exceptions
  <2>1. CASE processor_irq
    BY <1>2, <2>1, EntryArguments, EnterRefines DEF processor_irq
  <2>2. CASE processor_swi
    BY <1>2, <2>2, EntryArguments, EnterRefines DEF processor_swi
  <2>3. CASE processor_und
    BY <1>2, <2>3, EntryArguments, EnterRefines, HaltRefines DEF processor_und
  <2> QED
    BY <1>2, <2>1, <2>2, <2>3 DEF Exceptions
<1>3. CASE halted = "no" /\ Faults
  BY <1>3, HaltRefines DEF Faults, processor_fiq, processor_dataabort
<1>4. CASE halted = "no" /\ Moves
  BY <1>4, PutRefines, TransferRefines DEF Moves
<1>5. CASE halted = "no" /\ Returns
  BY <1>5, DpRefines, LdmRefines DEF Returns
<1>6. CASE halted = "no" /\ StatusWrites
  BY <1>6, StatusRefines DEF StatusWrites
<1> QED
  BY <1>1, <1>2, <1>3, <1>4, <1>5, <1>6 DEF Next

\* processor.c implements the banked register file for every set of banked
\* registers and every guest that stays within the implemented modes:
\* mode switches, nested exceptions, returns and user-bank transfers neither
\* lose nor leak a register of any mode.
THEOREM Refinement == ASSUME GuestModesKnown PROVE Spec => ImplementsBankedRegs
<1>1. Init => Inv /\ Banked!Init
  BY InitInv, InitRefines
<1>2. Inv /\ [Next]_vars => Inv'
  BY StepInv
<1>3. Inv /\ Inv' /\ [Next]_vars => [Banked!Next]_(Banked!vars)
  BY StepRefines
<1> QED
  BY <1>1, <1>2, <1>3, PTL DEF Spec, ImplementsBankedRegs, Banked!Spec

-----------------------------------------------------------------------------
(* The saved status words under nesting *)

Handlers == {pm_IRQ32, pm_SVC32}

\* The history has its type.
EntryTyped == entry \in [ExceptionModes -> Psr \cup {None}]

\* The word a handler was entered with is in the slot of its mode, whatever mode
\* the processor is in now.  (What returning needs is only that it is there when
\* the mode is the handler's; that alone is not inductive.)
EntryKept == \A m \in Handlers : entry[m] # None => spsr[SlotOf(m)] = entry[m]

HInv == Inv /\ EntryTyped /\ EntryKept

\* The slots of the two handlers differ, undefined mode has none, and the one
\* a handler finds again through spsr_current is the one mode & 15 stored at.
LEMMA Slots ==
    /\ \A m \in Handlers : /\ m \in ExceptionModes /\ SlotOf(m) \in 0..4
                           /\ SlotOf(m) = SpsrIndex(0, m)
    /\ \A m \in KnownModes, n \in Handlers : SpsrIndex(0, m) = SlotOf(n) => m = n
    /\ SlotOf(pm_UND32) \notin 0..4
BY DEF Handlers, ExceptionModes, SlotOf, SpsrIndex, KnownModes, pm_USR32, pm_FIQ32,
       pm_IRQ32, pm_SVC32, pm_ABT32, pm_UND32

\* A step with history is a step of the processor.
LEMMA HistoryStep == ASSUME [HNext]_hvars PROVE [Next]_vars
BY DEF HNext, hvars, Next, Exceptions

\* What an instruction that is neither an exception nor an MSR does to the saved
\* words: nothing.
LEMMA SpsrUntouched ==
    ASSUME Faults \/ Moves \/ Returns
    PROVE  spsr' = spsr
<1>1. CASE Faults
  BY <1>1 DEF Faults, processor_fiq, processor_dataabort, Halt
<1>2. CASE Moves
  BY <1>2 DEF Moves, PutRegs, UserTransfer
<1>3. CASE Returns
  BY <1>3 DEF Returns, DpReturn, LdmReturn, ReturnTo, Halt
<1> QED
  BY <1>1, <1>2, <1>3

\* Entering a mode stores the interrupted word in that mode's slot.
LEMMA EnterKept ==
    ASSUME HInv, NEW m \in ExceptionModes, NEW lr, NEW intmask, NEW vector,
           Enter(m, lr, intmask, vector), Entered(m)
    PROVE  EntryTyped' /\ EntryKept'
<1>1. cpsr \in Psr /\ DOMAIN spsr = 0..4 /\ spsr \in [0..4 -> Psr]
  BY DEF HInv, Inv, TypeOK
<1>2. EntryTyped'
  BY <1>1 DEF HInv, EntryTyped, Entered
<1>3. spsr' = IF SlotOf(m) \in 0..4 THEN [spsr EXCEPT ![SlotOf(m)] = cpsr] ELSE spsr
  BY <1>1 DEF Enter
<1>4. ASSUME NEW n \in Handlers, entry'[n] # None
      PROVE  spsr'[SlotOf(n)] = entry'[n]
  <2>1. n \in ExceptionModes /\ SlotOf(n) \in 0..4
    BY Slots
  <2>2. CASE n = m
    BY <1>1, <1>3, <2>1, <2>2 DEF HInv, EntryTyped, Entered
  <2>3. CASE n # m
    <3>1. entry'[n] = entry[n]
      BY <2>1, <2>3 DEF HInv, EntryTyped, Entered
    <3>2. SlotOf(m) # SlotOf(n)
      BY <2>3 DEF Handlers, ExceptionModes, SlotOf, pm_IRQ32, pm_SVC32, pm_UND32
    <3>3. spsr'[SlotOf(n)] = spsr[SlotOf(n)]
      BY <1>1, <1>3, <2>1, <3>2
    <3> QED
      BY <1>4, <3>1, <3>3 DEF HInv, EntryKept
  <2> QED
    BY <2>2, <2>3
<1> QED
  BY <1>2, <1>4 DEF EntryKept

\* An MSR writes the slot of the current mode and ends that mode's history.
LEMMA StatusKept ==
    ASSUME HInv, StatusWrites, Overwritten
    PROVE  EntryTyped' /\ EntryKept'
<1>1. /\ cpsr.mode \in KnownModes /\ spsr_current = SpsrIndex(0, cpsr.mode)
      /\ DOMAIN spsr = 0..4 /\ spsr \in [0..4 -> Psr]
  BY DEF HInv, Inv, TypeOK, ModeCoherent
<1>2. \A k \in 0..4 : k # spsr_current => spsr'[k] = spsr[k]
  BY <1>1 DEF StatusWrites, MsrSpsr, MsrCpsr, Halt
<1>3. /\ EntryTyped'
      /\ \A n \in ExceptionModes :
           entry'[n] = IF spsr' # spsr /\ cpsr.mode = n THEN None ELSE entry[n]
  BY DEF HInv, EntryTyped, Overwritten
<1>4. ASSUME NEW n \in Handlers, entry'[n] # None
      PROVE  spsr'[SlotOf(n)] = entry'[n]
  <2>1. n \in ExceptionModes /\ SlotOf(n) \in 0..4
    BY Slots
  <2>2. entry'[n] = entry[n] /\ (spsr' = spsr \/ cpsr.mode # n)
    BY <1>3, <1>4, <2>1
  <2>3. spsr'[SlotOf(n)] = spsr[SlotOf(n)]
    <3>1. CASE cpsr.mode # n
      BY <1>1, <1>2, <2>1, <3>1, Slots
    <3>2. CASE spsr' = spsr
      BY <3>2
    <3> QED
      BY <2>2, <3>1, <3>2
  <2> QED
    BY <1>4, <2>2, <2>3 DEF HInv, EntryKept
<1> QED
  BY <1>3, <1>4 DEF EntryKept

\* Every step keeps what handlers were entered with.
LEMMA HistoryInv ==
    ASSUME GuestModesKnown, HInv, [HNext]_hvars
    PROVE  HInv'
<1>1. Inv'
  BY HistoryStep, StepInv DEF HInv
<1>2. CASE IrqAccepted /\ processor_irq /\ Entered(pm_IRQ32)
  BY <1>1, <1>2, EnterKept DEF HInv, processor_irq, ExceptionModes
<1>3. CASE processor_swi /\ Entered(pm_SVC32)
  BY <1>1, <1>3, EnterKept DEF HInv, processor_swi, ExceptionModes
<1>4. CASE processor_und /\ Entered(pm_UND32)
  <2>1. CASE Halt("wild")
    <3>1. spsr' = spsr /\ \A m \in Handlers : entry'[m] = entry[m]
      BY <1>4, <2>1, Slots
         DEF Halt, HInv, EntryTyped, Entered, Handlers, pm_IRQ32, pm_SVC32, pm_UND32
    <3>2. EntryTyped'
      BY <1>4 DEF HInv, Inv, TypeOK, EntryTyped, Entered
    <3> QED
      BY <1>1, <3>1, <3>2 DEF HInv, EntryKept
  <2>2. CASE Enter(pm_UND32, LinkAddress, DisableIrq(cpsr.int), 1)
    BY <1>1, <1>4, <2>2, EnterKept DEF HInv, ExceptionModes
  <2> QED
    BY <1>4, <2>1, <2>2 DEF processor_und
<1>5. CASE (Faults \/ Moves \/ Returns) /\ UNCHANGED entry
  BY <1>1, <1>5, SpsrUntouched DEF HInv, EntryTyped, EntryKept
<1>6. CASE StatusWrites /\ Overwritten
  BY <1>1, <1>6, StatusKept DEF HInv
<1>7. CASE UNCHANGED hvars
  BY <1>1, <1>7 DEF HInv, EntryTyped, EntryKept, hvars, vars
<1> QED
  BY <1>2, <1>3, <1>4, <1>5, <1>6, <1>7 DEF HNext

\* An interrupt or SWI handler finds in its SPSR the status word of the
\* interrupted code, whatever exceptions nested inside it: the word stored at
\* spsr[mode & 15] on entry is the one spsr_current selects on return.
THEOREM FindsInterrupted == ASSUME GuestModesKnown PROVE HSpec => []ReturnsToInterrupted
<1>1. HInit => HInv
  BY InitInv DEF HInit, HInv, EntryTyped, EntryKept, Handlers, ExceptionModes
<1>2. HInv /\ [HNext]_hvars => HInv'
  BY HistoryInv
<1>3. HInv => ReturnsToInterrupted
  <2> SUFFICES ASSUME HInv, NEW m \in Handlers, cpsr.mode = m, entry[m] # None
               PROVE  CurrentSpsr = entry[m]
    BY DEF ReturnsToInterrupted, Handlers
  <2>1. spsr_current = SlotOf(m) /\ SlotOf(m) \in 0..4
    BY Slots DEF HInv, Inv, ModeCoherent
  <2>2. CurrentSpsr = spsr[SlotOf(m)]
    BY <2>1 DEF CurrentSpsr, HInv, Inv, TypeOK
  <2> QED
    BY <2>2 DEF HInv, EntryKept
<1> QED
  BY <1>1, <1>2, <1>3, PTL DEF HSpec
=============================================================================
