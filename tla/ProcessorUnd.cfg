SPECIFICATION MCSpec
CONSTANTS
  LoRegs = {8}
  HiRegs = {14}
  AddrSize = 2
  VectorBases = {0}
  GuestVals = {0}
  MCGuestModes = {16, 19}
  MaxInsns = 4
  GuestPsrs <- MCGuestPsrs
INVARIANT UndReturnPassesAssert
