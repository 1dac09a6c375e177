---------------------------- MODULE MCOAuthFlow ----------------------------
(***************************************************************************)
(* A small instance of OAuthFlow: two applications with a URI to choose,   *)
(* one user, one consent at a time, two refresh tokens, two secrets.       *)
(***************************************************************************)
EXTENDS OAuthFlow, TLC

CONSTANTS uri1, uri2

MCUriLists == {{}, {uri1}, {uri2}}

FullSymmetry ==
    Permutations(Tokens) \cup Permutations(Requests) \cup Permutations(Users)
        \cup Permutations(Apps) \cup Permutations(Uris)
=============================================================================
