SPECIFICATION Spec
CONSTANTS
    Requests = {r1, r2}
    MaxCt = 2
    Existing = {1}
    Ops = {"create", "stop"}
    Faults = {"crash"}
    MaxMishaps = 1
    None = None
SYMMETRY RequestSymmetry
CHECK_DEADLOCK FALSE
INVARIANTS OneCreator IInv
PROPERTIES RecordKept SyncLeavesProvisioning
