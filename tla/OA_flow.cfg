SPECIFICATION Spec
CONSTANTS
    uri1 = uri1  uri2 = uri2
    Users = {u1}
    Apps = {a1, a2}
    Codes = {k1}
    Tokens = {t1, t2}
    Uris = {uri1, uri2}
    UriLists <- MCUriLists
    Requests = {r1, r2}
    MaxSecret = 2
SYMMETRY FullSymmetry
CHECK_DEADLOCK FALSE
INVARIANTS TypeOK TokensFollowConsent CodeExchangedOnce LateIssuesBounded
           ExistingTokensRevoked
