----------------------------- MODULE LartTimer ------------------------------
(***************************************************************************)
(* The interrupt path of the LART machine: the main loop's divided clock   *)
(* (core/machine.c), the OS timer (mach/lart/ostimer.c), the interrupt     *)
(* controller (mach/lart/intctrl.c) and the delivery test that calls       *)
(* processor_irq.  Registers are sets of timer channels: bit 26+i of the   *)
(* controller's registers is bit i of the timer's.  The timer is the only  *)
(* unit that calls intctrl_add, so no other source exists.                 *)
(***************************************************************************)
EXTENDS Integers

CONSTANTS Channels,     \* timer channels, a subset of 0..3
          ClockSize,    \* the clock counts modulo ClockSize (2^32 in the code)
          Period,       \* SERIALCLOCKPERIOD
          Stepping      \* the debugger may leave and re-enter machine_start

ASSUME ChannelsAssumption == Channels \subseteq 0..3
ASSUME ClockAssumption == ClockSize \in Nat /\ ClockSize > 0
ASSUME PeriodAssumption == Period \in Nat
ASSUME SteppingAssumption == Stepping \in BOOLEAN

VARIABLES serialclock,              \* local variable of machine_start
          clock, osmr, ossr, oier,  \* ostimer_registers
          icip, icmr, iclr, icfp, icpr,  \* intctrl_registers
          mode,                     \* mem->currentmode
          irqoff, fiqoff,           \* the interrupt bits of cpsr
          halted                    \* abort() has been called

timer == <<clock, osmr, ossr, oier>>
ctrl == <<icip, icmr, iclr, icfp, icpr>>
cpu == <<mode, irqoff, fiqoff>>
vars == <<serialclock, timer, ctrl, cpu, halted>>

\* Modes the delivery test tells apart; "other" stands for the rest.
Modes == {"other", "irq", "fiq"}
Time == 0 .. ClockSize - 1

\* intctrl_new, ostimer_new and the reset state of the processor.
Init == /\ serialclock = Period
        /\ clock = 0
        /\ osmr = [i \in Channels |-> 0]
        /\ ossr = {} /\ oier = {}
        /\ icip = {} /\ icmr = {} /\ iclr = {} /\ icfp = {} /\ icpr = {}
        /\ mode = "other" /\ irqoff = TRUE /\ fiqoff = TRUE
        /\ halted = FALSE

-----------------------------------------------------------------------------
(* Guest instructions: each takes one turn of the main loop *)

\* Mutant: the countdown is tested one instruction late.
Turn_late == /\ ~halted
             /\ serialclock >= -1
             /\ serialclock' = serialclock - 1

\* Between two clock calls the loop executes one instruction and counts down.
Turn == /\ ~halted
        /\ serialclock >= 0
        /\ serialclock' = serialclock - 1

WriteMatch == \E i \in Channels, t \in Time :
                /\ osmr' = [osmr EXCEPT ![i] = t]
                /\ UNCHANGED <<clock, ossr, oier, ctrl, cpu, halted>>

WriteClock == \E t \in Time :
                /\ clock' = t
                /\ UNCHANGED <<osmr, ossr, oier, ctrl, cpu, halted>>

\* Mutant: acknowledging leaves the controller's latches.
WriteStatus_keeps_latches ==
    \E S \in SUBSET Channels :
      /\ ossr' = ossr \ S
      /\ UNCHANGED <<clock, osmr, oier, ctrl, cpu, halted>>

\* Writing ones to OSSR also strips the controller's pending bits.
WriteStatus == \E S \in SUBSET Channels :
                 /\ ossr' = ossr \ S
                 /\ icip' = icip \ S
                 /\ icfp' = icfp \ S
                 /\ icpr' = icpr \ S
                 /\ UNCHANGED <<clock, osmr, oier, icmr, iclr, cpu, halted>>

WriteEnable == \E S \in SUBSET Channels :
                 /\ oier' = S
                 /\ UNCHANGED <<clock, osmr, ossr, ctrl, cpu, halted>>

\* The mask and level registers are stored; what is latched stays.
WriteMask == \E S \in SUBSET Channels :
               /\ icmr' = S
               /\ UNCHANGED <<icip, iclr, icfp, icpr, timer, cpu, halted>>

WriteLevel == \E S \in SUBSET Channels :
                /\ iclr' = S
                /\ UNCHANGED <<icip, icmr, icfp, icpr, timer, cpu, halted>>

\* Writing a pending register of the controller panics.
WritePending == halted' = TRUE /\ UNCHANGED <<timer, ctrl, cpu>>

\* MSR, SWI and exception returns: the guest's own changes of mode and of the
\* interrupt bits.  Only an exception return leads to another mode.
ChangeStatus == /\ mode' \in Modes
                /\ irqoff' \in BOOLEAN
                /\ fiqoff' \in BOOLEAN
                /\ UNCHANGED <<timer, ctrl, halted>>

\* OWER, ICCR, register reads and everything that touches none of this state.
OtherInsn == UNCHANGED <<timer, ctrl, cpu, halted>>

Guest == /\ Turn
         /\ \/ WriteMatch  \/ WriteClock \/ WriteStatus \/ WriteEnable
            \/ WriteMask   \/ WriteLevel \/ WritePending
            \/ ChangeStatus \/ OtherInsn

-----------------------------------------------------------------------------
(* The clock: every Period + 1 instructions *)

\* intctrl_add: the sources raised now are latched through the mask.
intctrl_add(src) == /\ icpr' = icpr \cup src
                    /\ icip' = icip \cup ((src \cap icmr) \ iclr)
                    /\ icfp' = icfp \cup (src \cap icmr \cap iclr)

\* intctrl_fire, on the registers intctrl_add has just written.  A fast
\* interrupt ends in abort().
intctrl_fire ==
    LET fiq == icfp' # {} /\ ~fiqoff /\ mode \notin {"irq", "fiq"}
        irq == icip' # {} /\ ~irqoff /\ mode # "fiq"
    IN  /\ halted' = fiq
        /\ IF irq /\ ~fiq
           THEN mode' = "irq" /\ irqoff' = TRUE /\ UNCHANGED fiqoff
           ELSE UNCHANGED cpu

\* Mutant: the comparison uses the time after the increment, unwrapped.
Matching_after == {i \in Channels : osmr[i] = clock + 1}

\* Channels whose match register holds the time before the increment.
Matching == {i \in Channels : osmr[i] = clock}

\* Mutant: interrupts fire only on a rising edge of the status register.
ostimer_clock_edge ==
    /\ clock' = (clock + 1) % ClockSize
    /\ ossr' = ossr \cup (Matching \cap oier)
    /\ intctrl_add(ossr')
    /\ IF ossr' # ossr THEN intctrl_fire ELSE UNCHANGED <<cpu, halted>>
    /\ UNCHANGED <<osmr, oier, icmr, iclr>>

ostimer_clock == /\ clock' = (clock + 1) % ClockSize
                 /\ ossr' = ossr \cup (Matching \cap oier)
                 /\ intctrl_add(ossr')
                 /\ intctrl_fire
                 /\ UNCHANGED <<osmr, oier, icmr, iclr>>

Tick == /\ ~halted
        /\ serialclock < 0
        /\ serialclock' = Period
        /\ ostimer_clock

\* A breakpoint or a single step returns from machine_start; continuing
\* starts its local countdown again.
Reenter == /\ Stepping /\ ~halted
           /\ serialclock >= 0
           /\ serialclock' = Period
           /\ UNCHANGED <<timer, ctrl, cpu, halted>>

Next == Guest \/ Tick \/ Reenter

\* The emulation loop never blocks: it executes instructions and clocks for
\* ever.  Nothing is assumed of which instructions the guest executes.
Fairness == WF_vars(Guest) /\ WF_vars(Tick)

Spec == Init /\ [][Next]_vars /\ Fairness

-----------------------------------------------------------------------------
(* Properties *)

\* Type invariant of the loop counter, timer, controller and processor bits.
TypeOK == /\ serialclock \in -1 .. Period
          /\ clock \in Time
          /\ osmr \in [Channels -> Time]
          /\ ossr \subseteq Channels /\ oier \subseteq Channels
          /\ icip \subseteq Channels /\ icmr \subseteq Channels
          /\ iclr \subseteq Channels /\ icfp \subseteq Channels
          /\ icpr \subseteq Channels
          /\ mode \in Modes
          /\ irqoff \in BOOLEAN /\ fiqoff \in BOOLEAN /\ halted \in BOOLEAN

\* The controller never requests an interrupt that the timer's status register
\* does not show: acknowledging a channel in OSSR withdraws its request for
\* good, so a handler that has acknowledged is not entered again for it.
RequestsHaveCause == icpr = ossr /\ icip \cup icfp \subseteq ossr

\* A channel that has raised its status is requested, unmasked and as an IRQ.
Wanted(i) == i \in ossr \cap icmr /\ i \notin iclr

\* Delivery tests the latched request at every clock, not only when the
\* status bit rises: a wanted channel is delivered as long as the guest keeps
\* interrupts enabled and does not acknowledge, mask or reroute it.  Stepping
\* or breaking in the debugger for ever holds the clock back for ever.
PendingDelivered ==
    \A i \in Channels :
      \/ []<><<Reenter>>_vars
      \/ (Wanted(i) /\ ~irqoff /\ mode # "fiq") ~> (irqoff \/ mode = "fiq" \/ ~Wanted(i) \/ halted)

ClockWritten == serialclock' = serialclock - 1 /\ clock' # clock

\* A programmed match is never skipped: the clock reaches every value, and
\* the comparison uses the value before the increment.  Unless the guest
\* keeps writing the clock or the debugger keeps stepping, the status bit of
\* an enabled channel rises while its match and enable registers are left
\* alone.
MatchHappens ==
    \A i \in Channels, t \in Time :
      \/ []<><<ClockWritten \/ Reenter>>_vars
      \/ (i \in oier /\ osmr[i] = t) ~> (i \in ossr \/ i \notin oier \/ osmr[i] # t \/ halted)
=============================================================================
