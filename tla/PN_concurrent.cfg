SPECIFICATION Spec
CONSTANTS
    u1 = u1  u2 = u2  c1 = c1  c2 = c2
    wide = wide  inner = inner  apart = apart  nm1 = nm1  None = None
    Users <- MCTwoUsers
    Admins = {}
    Containers = {c1}
    NetPerm <- MCOneCt
    Cidrs = {wide}
    Clash <- MCOneClash
    Names = {nm1}
    Hosts = {2}
    MaxSlot = 1
    MaxPerNode = 2
    MaxPerUser = 1
    Requests = {r1, r2}
    Ops = {"create", "delete", "add", "remove"}
    Established <- NoneEstablished
    MaxBridge = 2
    MaxMember = 2
INVARIANTS IInv TenantIsolation
PROPERTIES FreshBridge
SYMMETRY RequestSymmetry
