SPECIFICATION Spec
CONSTANTS
  Channels = {0}
  ClockSize = 3
  Period = 1
  Stepping = TRUE
INVARIANTS TypeOK RequestsHaveCause
PROPERTIES PendingDelivered MatchHappens
CHECK_DEADLOCK FALSE
