----------------------------- MODULE Processor ------------------------------
(***************************************************************************)
(* The banked registers, the status registers and every operation that     *)
(* moves them: core/processor.c, core/registers.c and the parts of         *)
(* core/execute.inc.c (32-bit variant) that switch mode or bank.           *)
(*                                                                         *)
(* r[] holds the registers of the current mode; a mode switch saves them   *)
(* in the array of the old mode and loads the array of the new one.  The   *)
(* saved status registers are an array of five words indexed in two        *)
(* different ways: an exception stores at (mode & 15), everything else     *)
(* goes through spsr_current.                                              *)
(***************************************************************************)
EXTENDS ArmModes

CONSTANTS AddrSize,      \* words of the modelled address space
          VectorBases,   \* values vectorbase may take (CP15 c1, bit 13)
          GuestVals,     \* values the guest writes to registers
          GuestPsrs      \* words the guest writes with MSR

Val == 0 .. AddrSize - 1

\* A status word: the mode field, the two interrupt disable bits (bit 1 is I,
\* bit 0 is F) and the condition flags as one value.
Psr == [mode : 0..31, int : 0..3, nzcv : {0, 1}]

ASSUME AddrAssumption == AddrSize \in Nat /\ AddrSize > 0
ASSUME VectorAssumption == VectorBases \subseteq Val
ASSUME GuestValsAssumption == GuestVals \subseteq Val
ASSUME GuestPsrsAssumption == GuestPsrs \subseteq Psr

VARIABLES r,             \* live r8..r14
          pc,            \* r15
          cpsr,
          bank,          \* usr[], fiq[], irq[], svc[], abt[], und[]
          spsr,          \* spsr[0..4]
          spsr_current,  \* index of the current mode's SPSR
          currentmode,   \* mem->currentmode
          halted         \* "no", or why the process ended

vars == <<r, pc, cpsr, bank, spsr, spsr_current, currentmode, halted>>

SlotOf(m) == m % 16

ZeroPsr == [mode |-> 0, int |-> 0, nzcv |-> 0]

\* The word 5, read as a status word.
FivePsr == [mode |-> 5, int |-> 0, nzcv |-> 0]

-----------------------------------------------------------------------------
(* Saving and loading the live registers *)

\* Where processor_reg_savecurrent puts r[i] of mode m.
SavedTo(m, i) ==
    CASE m = pm_USR32 -> <<"usr", i>>
      [] m = pm_FIQ32 -> <<"fiq", i>>
      [] m = pm_IRQ32 -> IF i \in LoRegs THEN <<"usr", i>> ELSE <<"irq", i>>
      [] m = pm_SVC32 -> IF i \in LoRegs THEN <<"usr", i>> ELSE <<"svc", i>>
      [] m = pm_ABT32 -> IF i \in LoRegs THEN <<"usr", i>> ELSE <<"abt", i>>
      [] m = pm_UND32 -> IF i \in LoRegs THEN <<"usr", i>> ELSE <<"und", i>>

\* Where processor_reg_restorenew takes r[i] of mode m from.
LoadedFrom(m, i) ==
    CASE m = pm_USR32 -> <<"usr", i>>
      [] m = pm_FIQ32 -> <<"fiq", i>>
      [] m = pm_IRQ32 -> IF i \in LoRegs THEN <<"usr", i>> ELSE <<"irq", i>>
      [] m = pm_SVC32 -> IF i \in LoRegs THEN <<"usr", i>> ELSE <<"svc", i>>
      [] m = pm_ABT32 -> IF i \in LoRegs THEN <<"usr", i>> ELSE <<"abt", i>>
      [] m = pm_UND32 -> IF i \in LoRegs THEN <<"usr", i>> ELSE <<"und", i>>

\* A mode outside the switch saves nothing.
processor_reg_savecurrent(rr, bb, m) ==
    IF m \in KnownModes
    THEN [p \in Phys |-> IF SavedTo(m, p[2]) = p THEN rr[p[2]] ELSE bb[p]]
    ELSE bb

\* A mode outside the switch keeps the live registers of the mode before it.
processor_reg_restorenew(rr, bb, m) ==
    IF m \in KnownModes THEN [i \in Regs |-> bb[LoadedFrom(m, i)]] ELSE rr

\* The index processor_reg_restorenew leaves in spsr_current.
SpsrIndex(cur, m) == CASE m = pm_USR32 -> 0
                       [] m = pm_FIQ32 -> 1
                       [] m = pm_IRQ32 -> 2
                       [] m = pm_SVC32 -> 3
                       [] m = pm_ABT32 -> 4
                       [] m = pm_UND32 -> 5
                       [] OTHER -> cur

-----------------------------------------------------------------------------
(* Switching mode *)

\* Mutant: the memory system is not told of the new mode.
processor_mode_forgets(rr, omode, newmode) ==
    LET saved == processor_reg_savecurrent(rr, bank, omode)
    IN  /\ bank' = saved
        /\ r' = processor_reg_restorenew(rr, saved, newmode)
        /\ spsr_current' = SpsrIndex(spsr_current, newmode)
        /\ UNCHANGED currentmode

\* processor_mode(omode, newmode) with rr in the live registers and a mode
\* number that passes the assertion; the caller sets cpsr and r[14].
processor_mode(rr, omode, newmode) ==
    LET saved == processor_reg_savecurrent(rr, bank, omode)
    IN  /\ bank' = saved
        /\ r' = processor_reg_restorenew(rr, saved, newmode)
        /\ spsr_current' = SpsrIndex(spsr_current, newmode)
        /\ currentmode' = newmode

\* The process is gone: abort(), a failed assert(), or an access outside
\* the register structure after which nothing is known of it.
Halt(why) == /\ halted' = why
             /\ UNCHANGED <<r, pc, cpsr, bank, spsr, spsr_current, currentmode>>

\* Mutant: the status word is saved after the mode has changed.
Enter_late_save(m, lr, intmask, vector) ==
    \E vb \in VectorBases :
      LET saved == processor_reg_savecurrent(r, bank, cpsr.mode)
      IN  /\ bank' = saved
          /\ r' = [processor_reg_restorenew(r, saved, m) EXCEPT ![14] = lr]
          /\ spsr_current' = SpsrIndex(spsr_current, m)
          /\ currentmode' = m
          /\ cpsr' = [cpsr EXCEPT !.mode = m, !.int = intmask]
          /\ pc' = (vb + vector + 2) % AddrSize
          /\ spsr' = IF SlotOf(m) \in DOMAIN spsr
                     THEN [spsr EXCEPT ![SlotOf(m)] = [cpsr EXCEPT !.mode = m]]
                     ELSE spsr
          /\ UNCHANGED halted

\* Entering an exception: the status word goes to spsr[m & 15], the mode is
\* switched, r14 gets the return address (lr), then interrupts are disabled
\* and r15 is loaded with the vector, two words ahead.
Enter(m, lr, intmask, vector) ==
    \E vb \in VectorBases :
      LET saved == processor_reg_savecurrent(r, bank, cpsr.mode)
      IN  /\ bank' = saved
          /\ r' = [processor_reg_restorenew(r, saved, m) EXCEPT ![14] = lr]
          /\ spsr_current' = SpsrIndex(spsr_current, m)
          /\ currentmode' = m
          /\ cpsr' = [cpsr EXCEPT !.mode = m, !.int = intmask]
          /\ pc' = (vb + vector + 2) % AddrSize
          /\ spsr' = IF SlotOf(m) \in DOMAIN spsr
                     THEN [spsr EXCEPT ![SlotOf(m)] = cpsr]
                     ELSE spsr
          /\ UNCHANGED halted

\* flag.interrupt |= 2
DisableIrq(int) == IF int \in {0, 1} THEN int + 2 ELSE int

LinkAddress == (pc - 1) % AddrSize

\* Called by the interrupt controller between two instructions.
processor_irq ==
    Enter(pm_IRQ32, LinkAddress, DisableIrq(cpsr.int), 6)

processor_swi ==
    Enter(pm_SVC32, LinkAddress, DisableIrq(cpsr.int), 2)

\* spsr[11] lies outside the array: the store hits another object of the
\* heap, which either goes unnoticed or ends the process.
processor_und == \/ Enter(pm_UND32, LinkAddress, DisableIrq(cpsr.int), 1)
                 \/ Halt("wild")

\* Fast interrupts, prefetch aborts and data aborts call abort().
processor_fiq == Halt("abort")
processor_dataabort == Halt("abort")

-----------------------------------------------------------------------------
(* Instructions *)

\* The word behind reg->spsr[reg->spsr_current].  Index 5, undefined mode, is
\* the word after the array: spsr_current itself, which holds 5.
CurrentSpsr == IF spsr_current \in DOMAIN spsr THEN spsr[spsr_current] ELSE FivePsr

NextPc == (pc + 1) % AddrSize

\* The live registers after an instruction has written those f is defined on.
Load(f) == [i \in Regs |-> IF i \in DOMAIN f THEN f[i] ELSE r[i]]

\* Any instruction whose results are registers of the current mode.
PutRegs(f) == /\ r' = Load(f)
              /\ pc' = NextPc
              /\ UNCHANGED <<cpsr, bank, spsr, spsr_current, currentmode, halted>>

\* Mutant: the assertion on the mode number is gone.
ReturnTo_unchecked(rr, old, target) ==
    /\ processor_mode(rr, cpsr.mode, old.mode)
    /\ cpsr' = old
    /\ pc' = (target + 2) % AddrSize
    /\ UNCHANGED <<spsr, halted>>

\* Taking the mode and the status word back from an SPSR, then jumping.
ReturnTo(rr, old, target) ==
    IF old.mode < 16 THEN Halt("assert")
    ELSE /\ processor_mode(rr, cpsr.mode, old.mode)
         /\ cpsr' = old
         /\ pc' = (target + 2) % AddrSize
         /\ UNCHANGED <<spsr, halted>>

\* A data operation on r15 with the S bit, MOVS pc, r[i]: an exception return
\* unless the current mode has SPSR number 0, then a plain jump.
DpReturn(i) ==
    \/ /\ spsr_current # 0
       /\ ReturnTo(r, CurrentSpsr, r[i])
    \/ /\ spsr_current = 0
       /\ pc' = (r[i] + 2) % AddrSize
       /\ UNCHANGED <<r, cpsr, bank, spsr, spsr_current, currentmode, halted>>

\* LDM {..., pc}^ loads its registers and returns, from the user mode too.
LdmReturn(f, target) == ReturnTo(Load(f), CurrentSpsr, target)

\* The fields an MSR selects; the control field holds the mode and the
\* interrupt bits, the flag field the condition flags.
Merge(old, new, fields) ==
    [mode |-> IF "c" \in fields THEN new.mode ELSE old.mode,
     int  |-> IF "c" \in fields THEN new.int  ELSE old.int,
     nzcv |-> IF "f" \in fields THEN new.nzcv ELSE old.nzcv]

\* MSR SPSR.  In undefined mode the store lands on spsr_current, and the
\* next use of it is an access far outside the array.
MsrSpsr(new, fields) ==
    \/ /\ spsr_current \in DOMAIN spsr
       /\ spsr' = [spsr EXCEPT ![spsr_current] = Merge(@, new, fields)]
       /\ pc' = NextPc
       /\ UNCHANGED <<r, cpsr, bank, spsr_current, currentmode, halted>>
    \/ /\ spsr_current \notin DOMAIN spsr
       /\ Halt("wild")

\* MSR CPSR is honoured only when the control field is selected; a change of
\* mode is carried out and then aborts the process.
MsrCpsr(new, fields) ==
    LET merged == Merge(cpsr, new, fields)
    IN  \/ /\ "c" \in fields
           /\ merged.mode # cpsr.mode
           /\ Halt(IF merged.mode < 16 THEN "assert" ELSE "abort")
        \/ /\ "c" \notin fields \/ merged.mode = cpsr.mode
           /\ cpsr' = IF "c" \in fields THEN merged ELSE cpsr
           /\ pc' = NextPc
           /\ UNCHANGED <<r, bank, spsr, spsr_current, currentmode, halted>>

\* Mutant: the live registers are not saved before the user ones are loaded.
UserTransfer_unsaved(f) ==
    LET user   == processor_reg_restorenew(r, bank, pm_USR32)
        moved  == [i \in Regs |-> IF i \in DOMAIN f THEN f[i] ELSE user[i]]
        stored == processor_reg_savecurrent(moved, bank, pm_USR32)
    IN  /\ bank' = stored
        /\ r' = processor_reg_restorenew(moved, stored, cpsr.mode)
        /\ spsr_current' = SpsrIndex(SpsrIndex(spsr_current, pm_USR32), cpsr.mode)
        /\ pc' = NextPc
        /\ UNCHANGED <<cpsr, spsr, currentmode, halted>>

\* LDM/STM with ^ and no pc load: save the live registers, load the user
\* ones, transfer, write the base back (into the user registers), save the
\* user ones and load the mode's own again.  f gives the registers written;
\* a store without write-back writes none.
UserTransfer(f) ==
    LET saved  == processor_reg_savecurrent(r, bank, cpsr.mode)
        user   == processor_reg_restorenew(r, saved, pm_USR32)
        moved  == [i \in Regs |-> IF i \in DOMAIN f THEN f[i] ELSE user[i]]
        stored == processor_reg_savecurrent(moved, saved, pm_USR32)
    IN  /\ bank' = stored
        /\ r' = processor_reg_restorenew(moved, stored, cpsr.mode)
        /\ spsr_current' = SpsrIndex(SpsrIndex(spsr_current, pm_USR32), cpsr.mode)
        /\ pc' = NextPc
        /\ UNCHANGED <<cpsr, spsr, currentmode, halted>>

-----------------------------------------------------------------------------
\* registers_new followed by the processor_reset that main() performs.
Init == /\ r = [i \in Regs |-> 0]
        /\ pc = 2 % AddrSize
        /\ cpsr = [mode |-> pm_SVC32, int |-> 3, nzcv |-> 0]
        /\ bank = [p \in Phys |-> 0]
        /\ spsr = [k \in 0..4 |-> IF k = 3 THEN [ZeroPsr EXCEPT !.mode = pm_SVC32]
                                           ELSE ZeroPsr]
        /\ spsr_current = 3
        /\ currentmode = pm_SVC32
        /\ halted = "no"

\* When intctrl_fire delivers a pending interrupt of either kind.
IrqAccepted == cpsr.int \in {0, 1} /\ currentmode # pm_FIQ32
FiqAccepted == cpsr.int \in {0, 2} /\ currentmode \notin {pm_IRQ32, pm_FIQ32}

Exceptions == \/ IrqAccepted /\ processor_irq
              \/ processor_swi
              \/ processor_und

Faults == (FiqAccepted /\ processor_fiq) \/ processor_dataabort

\* Register contents an instruction can load.
Loads == UNION {[S -> GuestVals] : S \in SUBSET Regs}

Moves == \E f \in Loads : PutRegs(f) \/ UserTransfer(f)

Returns == \/ \E i \in Regs : DpReturn(i)
           \/ \E f \in Loads, v \in GuestVals : LdmReturn(f, v)

StatusWrites == \E p \in GuestPsrs, fields \in SUBSET {"c", "f"} :
                   MsrSpsr(p, fields) \/ MsrCpsr(p, fields)

Next == /\ halted = "no"
        /\ Exceptions \/ Faults \/ Moves \/ Returns \/ StatusWrites

Spec == Init /\ [][Next]_vars

-----------------------------------------------------------------------------
(* Properties *)

\* Type invariant of the registers, status words and mode copies.
TypeOK == /\ r \in [Regs -> Val]
          /\ pc \in Val
          /\ cpsr \in Psr
          /\ bank \in [Phys -> Val]
          /\ spsr \in [0..4 -> Psr]
          /\ spsr_current \in 0..5
          /\ currentmode \in 16..31
          /\ halted \in {"no", "abort", "assert", "wild"}

\* The guest puts only modes that processor.c implements, or 26-bit modes the
\* assertion in processor_mode rejects, into the words it writes.
GuestModesKnown == \A p \in GuestPsrs : p.mode \in KnownModes \cup 0..15

\* The three records of the mode agree: the mode field of the status word,
\* the copy the memory system and the interrupt controller test
\* (mem->currentmode) and the SPSR that processor_reg_restorenew selected.
ModeCoherent == /\ cpsr.mode \in KnownModes
                /\ currentmode = cpsr.mode
                /\ spsr_current = SpsrIndex(0, cpsr.mode)

\* The physical registers as the guest sees them: the live ones where the
\* current mode sees a register, the saved ones elsewhere.
FileOf == [p \in Phys |-> IF View(cpsr.mode, p[2]) = p THEN r[p[2]] ELSE bank[p]]

Banked == INSTANCE BankedRegs WITH file <- FileOf, mode <- cpsr.mode,
                                   dead <- (halted # "no")

\* The live registers and save arrays implement the banked register file: no
\* mode switch, nested exception, exception return or user-bank transfer
\* (whose comment asks whether it can corrupt registers) loses or leaks a
\* register of any mode.
ImplementsBankedRegs == Banked!Spec
=============================================================================
