CONSTANTS
    W = 8
    Half = 128
    Shifts <- AllShifts
    Fields <- AllFields
SPECIFICATION OSpec
INVARIANTS ShifterExact ImmediateExact
CHECK_DEADLOCK FALSE
