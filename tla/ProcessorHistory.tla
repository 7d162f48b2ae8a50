-------------------------- MODULE ProcessorHistory --------------------------
(***************************************************************************)
(* Processor with a history variable: the status word each exception mode  *)
(* was entered from, forgotten when the guest overwrites its SPSR.         *)
(***************************************************************************)
EXTENDS Processor

VARIABLE entry

hvars == <<vars, entry>>

ExceptionModes == {pm_IRQ32, pm_SVC32, pm_UND32}

None == [mode |-> -1]

\* processor_reset, before the history begins, is not an exception to return from.
HInit == Init /\ entry = [m \in ExceptionModes |-> None]

Entered(m) == entry' = [entry EXCEPT ![m] = cpsr]

\* An MSR that changes an SPSR ends the history of the mode that owns it.
Overwritten == entry' = [m \in ExceptionModes |->
                           IF spsr' # spsr /\ cpsr.mode = m THEN None ELSE entry[m]]

HNext == /\ halted = "no"
         /\ \/ IrqAccepted /\ processor_irq /\ Entered(pm_IRQ32)
            \/ processor_swi /\ Entered(pm_SVC32)
            \/ processor_und /\ Entered(pm_UND32)
            \/ (Faults \/ Moves \/ Returns) /\ UNCHANGED entry
            \/ StatusWrites /\ Overwritten

HSpec == HInit /\ [][HNext]_hvars

\* An interrupt or SWI handler finds in its SPSR the status word of the
\* interrupted code, whatever exceptions nested inside it: the word stored at
\* spsr[mode & 15] on entry is the one spsr_current selects on return.
ReturnsToInterrupted ==
    \A m \in {pm_IRQ32, pm_SVC32} :
       (halted = "no" /\ cpsr.mode = m /\ entry[m] # None) => CurrentSpsr = entry[m]

\* Returning from an undefined-instruction handler passes the assertion
\* newmode>=16 in processor_mode.
UndReturnPassesAssert == ~(halted = "assert" /\ cpsr.mode = pm_UND32)
=============================================================================
