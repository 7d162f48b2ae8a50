CONSTANTS
    Sections = {0}
    Pages = {0, 1}
    Quarters = {0, 1}
    Tables = {t1, t2}
    Descs <- MCDescs
    Controls <- MCControls
    Domains = {"d"}
    Modes = {"usr", "svc"}
    Frames = {"ram0", "ram1", "hole"}
    Holes = {"hole"}
    Latency = 3
SYMMETRY TableSymmetry
SPECIFICATION Spec
INVARIANTS TypeOK TlbCoherent
CHECK_DEADLOCK FALSE
