-------------------------- MODULE LartTimer_proof ---------------------------
(***************************************************************************)
(* The latched interrupt requests follow the timer's status register, for  *)
(* every set of channels, clock width and clock period.                    *)
(***************************************************************************)
EXTENDS LartTimer, TLAPS

\* Acknowledging the same channels everywhere keeps the registers in step;
\* every other instruction leaves the latches alone.
LEMMA GuestKeepsCause ==
    ASSUME RequestsHaveCause, Guest
    PROVE  RequestsHaveCause'
<1>1. CASE WriteStatus
  BY <1>1 DEF WriteStatus, RequestsHaveCause
<1>2. CASE WriteMatch \/ WriteClock \/ WriteEnable
  BY <1>2 DEF WriteMatch, WriteClock, WriteEnable, ctrl, RequestsHaveCause
<1>3. CASE WriteMask \/ WriteLevel
  BY <1>3 DEF WriteMask, WriteLevel, timer, RequestsHaveCause
<1>4. CASE WritePending \/ ChangeStatus \/ OtherInsn
  BY <1>4 DEF WritePending, ChangeStatus, OtherInsn, timer, ctrl, RequestsHaveCause
<1> QED
  BY <1>1, <1>2, <1>3, <1>4 DEF Guest

\* The clock hands the controller the whole status register, so that what it
\* latches is again within it.
LEMMA TickKeepsCause ==
    ASSUME RequestsHaveCause, Tick
    PROVE  RequestsHaveCause'
<1>1. ossr \subseteq ossr'
  BY DEF Tick, ostimer_clock
<1>2. icpr' = icpr \cup ossr'
  BY DEF Tick, ostimer_clock, intctrl_add
<1>3. icip' \subseteq icip \cup ossr' /\ icfp' \subseteq icfp \cup ossr'
  BY DEF Tick, ostimer_clock, intctrl_add
<1> QED
  BY <1>1, <1>2, <1>3 DEF RequestsHaveCause

\* RequestsHaveCause holds in every reachable state (ostimer.c, intctrl.c).
THEOREM Cause == Spec => []RequestsHaveCause
<1>1. Init => RequestsHaveCause
  BY DEF Init, RequestsHaveCause
<1>2. RequestsHaveCause /\ [Next]_vars => RequestsHaveCause'
  <2> SUFFICES ASSUME RequestsHaveCause, [Next]_vars PROVE RequestsHaveCause'
    OBVIOUS
  <2>1. CASE Guest
    BY <2>1, GuestKeepsCause
  <2>2. CASE Tick
    BY <2>2, TickKeepsCause
  <2>3. CASE Reenter
    BY <2>3 DEF Reenter, timer, ctrl, RequestsHaveCause
  <2>4. CASE UNCHANGED vars
    BY <2>4 DEF vars, timer, ctrl, RequestsHaveCause
  <2> QED
    BY <2>1, <2>2, <2>3, <2>4 DEF Next
<1> QED
  BY <1>1, <1>2, PTL DEF Spec

-----------------------------------------------------------------------------

\* A guest instruction keeps the types.
LEMMA GuestTypes ==
    ASSUME TypeOK, Guest
    PROVE  TypeOK'
<1>1. serialclock' \in -1 .. Period
  BY PeriodAssumption DEF TypeOK, Guest, Turn
<1>2. CASE WriteMatch
  BY <1>1, <1>2 DEF WriteMatch, ctrl, cpu, TypeOK
<1>3. CASE WriteClock
  BY <1>1, <1>3 DEF WriteClock, ctrl, cpu, TypeOK
<1>4. CASE WriteStatus
  BY <1>1, <1>4 DEF WriteStatus, cpu, TypeOK
<1>5. CASE WriteEnable
  BY <1>1, <1>5 DEF WriteEnable, ctrl, cpu, TypeOK
<1>6. CASE WriteMask \/ WriteLevel
  BY <1>1, <1>6 DEF WriteMask, WriteLevel, timer, cpu, TypeOK
<1>7. CASE WritePending
  BY <1>1, <1>7 DEF WritePending, timer, ctrl, cpu, TypeOK
<1>8. CASE ChangeStatus
  BY <1>1, <1>8 DEF ChangeStatus, timer, ctrl, TypeOK
<1>9. CASE OtherInsn
  BY <1>1, <1>9 DEF OtherInsn, timer, ctrl, cpu, TypeOK
<1> QED
  BY <1>2, <1>3, <1>4, <1>5, <1>6, <1>7, <1>8, <1>9 DEF Guest

\* The clock keeps the types.
LEMMA TickTypes ==
    ASSUME TypeOK, Tick
    PROVE  TypeOK'
<1>1. serialclock' \in -1 .. Period
  BY PeriodAssumption DEF Tick
<1>2. clock' \in Time
  BY ClockAssumption DEF Tick, ostimer_clock, TypeOK, Time
<1>3. ossr' \subseteq Channels
  BY DEF Tick, ostimer_clock, TypeOK, Matching
<1>4. icpr' \subseteq Channels /\ icip' \subseteq Channels /\ icfp' \subseteq Channels
  BY <1>3 DEF Tick, ostimer_clock, intctrl_add, TypeOK
<1>5. halted' \in BOOLEAN
  BY DEF Tick, ostimer_clock, intctrl_fire
<1>6. mode' \in Modes /\ irqoff' \in BOOLEAN /\ fiqoff' \in BOOLEAN
  BY DEF Tick, ostimer_clock, intctrl_fire, cpu, Modes, TypeOK
<1>7. UNCHANGED <<osmr, oier, icmr, iclr>>
  BY DEF Tick, ostimer_clock
<1> QED
  BY <1>1, <1>2, <1>3, <1>4, <1>5, <1>6, <1>7 DEF TypeOK

\* TypeOK holds in every reachable state: the clock wraps within its width and
\* the countdown of machine_start stays within its period.
THEOREM TypeCorrect == Spec => []TypeOK
<1>1. Init => TypeOK
  <2> SUFFICES ASSUME Init PROVE TypeOK
    OBVIOUS
  <2>1. serialclock \in -1 .. Period /\ clock \in Time
    BY PeriodAssumption, ClockAssumption DEF Init, Time
  <2>2. osmr \in [Channels -> Time]
    BY <2>1 DEF Init
  <2> QED
    BY <2>1, <2>2 DEF Init, TypeOK, Modes
<1>2. TypeOK /\ [Next]_vars => TypeOK'
  <2> SUFFICES ASSUME TypeOK, [Next]_vars PROVE TypeOK'
    OBVIOUS
  <2>1. CASE Guest
    BY <2>1, GuestTypes
  <2>2. CASE Tick
    BY <2>2, TickTypes
  <2>3. CASE Reenter
    BY <2>3, PeriodAssumption DEF Reenter, timer, ctrl, cpu, TypeOK
  <2>4. CASE UNCHANGED vars
    BY <2>4 DEF vars, timer, ctrl, cpu, TypeOK
  <2> QED
    BY <2>1, <2>2, <2>3, <2>4 DEF Next
<1> QED
  BY <1>1, <1>2, PTL DEF Spec
=============================================================================
