SPECIFICATION FairSpec
CONSTANTS
    Kinds <- MCKinds
    Capacity = 1
    Window = 1
    MaxSent = 3
    MaxPrinted = 2
CHECK_DEADLOCK FALSE
INVARIANTS IInv
PROPERTIES StreamKept SessionEnds
