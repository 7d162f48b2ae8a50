SPECIFICATION MCSpec
CONSTANTS
  LoRegs = {8}
  HiRegs = {14}
  AddrSize = 2
  VectorBases = {0}
  GuestVals = {1}
  MCGuestModes = {16, 17, 23}
  MaxInsns = 6
  GuestPsrs <- MCGuestPsrs
INVARIANTS TypeOK ModeCoherent ReturnsToInterrupted
PROPERTY ImplementsBankedRegs
