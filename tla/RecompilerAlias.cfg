SPECIFICATION Spec
CONSTANTS
  Programs <- mcPrograms
  Regs <- mcRegs
  Questions = 3
  Fuel = 14
  Steps = 120
  MaxTurns = 8
INVARIANT OverwrittenIsDead
CHECK_DEADLOCK FALSE
