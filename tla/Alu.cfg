CONSTANTS
    W = 3
    Half = 4
    Opcodes = {"AND", "EOR", "SUB", "RSB", "ADD", "ADC", "SBC", "RSC", "TST", "TEQ", "CMP", "CMN", "ORR", "MOV", "BIC", "MVN"}
    ImmOpcodes = {"AND", "EOR", "SUB", "RSB", "ADD", "TST", "TEQ", "CMP", "CMN", "ORR", "MOV", "BIC", "MVN"}
    LongSigned = {FALSE}
    Operands = {0, 3, 4, 7}
    Shifts <- PlainAndRrx
    Conds = {"AL", "NV"}
SPECIFICATION Spec
INVARIANTS TypeOK FlagsExact ComparisonDecides
