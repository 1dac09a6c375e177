SPECIFICATION Spec
CONSTANTS
    Users = {adm, u1, u2}
    Admins = {adm}
    ProgramIds = {p1}
    MaxPInv = 1
    Containers = {c1}
    Perms <- MCPerms
    Offers <- MCOffers
    Requests = {r1, r2}
    MaxInvites = 2
SYMMETRY UserSymmetry
CHECK_DEADLOCK FALSE
INVARIANTS TypeOK GrantsFlowDown CreatorKeepsAll ListsMatchAnswers
PROPERTIES CreatorsAdmitted
