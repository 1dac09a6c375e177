SPECIFICATION ApartSpec
CONSTANTS
    u1 = u1  u2 = u2  c1 = c1  c2 = c2
    wide = wide  inner = inner  apart = apart  nm1 = nm1  None = None
    Users <- MCOneUser
    Admins = {}
    Containers = {c1, c2}
    NetPerm <- MCOnePerm
    Cidrs <- MCCidrs
    Clash <- MCClash
    Names = {nm1}
    Hosts <- MCHosts
    MaxSlot = 1
    MaxPerNode = 2
    MaxPerUser = 2
    Requests = {r1, r2}
    Ops = {"create", "rename", "delete", "add", "remove"}
    Established <- OneEstablished
    MaxBridge = 2
    MaxMember = 2
INVARIANTS ActiveNetworkHasBridge NicAccounted ActiveMemberHasNic IpUniqueOnBridge RangesDisjoint
PROPERTIES DeletionPath NodeContractKept
SYMMETRY RequestSymmetry
