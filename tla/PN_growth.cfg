SPECIFICATION Spec
CONSTANTS
    u1 = u1  u2 = u2  c1 = c1  c2 = c2
    wide = wide  inner = inner  apart = apart  nm1 = nm1  None = None
    Users <- MCOneUser
    Admins = {}
    Containers = {c1}
    NetPerm <- MCOneCt
    Cidrs <- MCTwoCidrs
    Clash <- MCTwoClash
    Names = {nm1}
    Hosts = {2}
    MaxSlot = 1
    MaxPerNode = 2
    MaxPerUser = 1
    Requests = {r1, r2}
    Ops = {"create", "rename", "delete"}
    Established <- NoneEstablished
    MaxBridge = 3
    MaxMember = 1
INVARIANT OvershootBounded
SYMMETRY RequestSymmetry
CHECK_DEADLOCK FALSE
