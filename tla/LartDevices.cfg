SPECIFICATION Spec
CONSTANTS
  Period = 3
  PollEvery = 3
  MaxTyped = 2
  Ptys = {"open", "failed"}
INVARIANTS TypeOK NoneLost ProbeFinds
PROPERTIES HearsLatest TypedIsHeard
CHECK_DEADLOCK FALSE
