CONSTANTS
    AddrSize = 4
    Saved = {4, 14, 15}
    Pointers = {4}
    Targets = {3}
    Start = 1
    Depth = 2
    TVariants = FALSE
SPECIFICATION Spec
PROPERTY ImplementsStack
