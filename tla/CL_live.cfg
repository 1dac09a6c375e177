SPECIFICATION FairSpec
CONSTANTS
    Requests = {r1, r2}
    MaxCt = 1
    Existing = {}
    Ops = {"create", "restart"}
    Faults = {"abort", "crash", "drift"}
    MaxMishaps = 2
    None = None
CHECK_DEADLOCK FALSE
PROPERTIES Reconciled ProvisioningEnds
