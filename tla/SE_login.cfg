SPECIFICATION Spec
CONSTANTS
    s1 = s1  s2 = s2  e1 = e1  e2 = e2
    Users = {u1, u2}
    Emails = {e1, e2}
    Subjects = {s1, s2}
    Claims <- MCClaims
    LoginStates = {o1, o2, o3}
    Sessions = {x1, x2}
    Pats = {p1}
    Requests = {r1, r2}
    AccessTTL = 2
    RefreshTTL = 2
    SessionTTL = 2
    MaxNow = 3
SYMMETRY IdSymmetry
CHECK_DEADLOCK FALSE
INVARIANTS TypeOK OneUserPerIdentity SessionsBelongToIdentity OneSessionPerLogin
           RevokedAnsweredOnce
