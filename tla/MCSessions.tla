----------------------------- MODULE MCSessions -----------------------------
(***************************************************************************)
(* A small instance of Sessions: two people, of whom the second appears    *)
(* with his own email and with the first one's.                            *)
(***************************************************************************)
EXTENDS Sessions, TLC

CONSTANTS s1, s2, e1, e2

MCClaims == {<<s1, e1>>, <<s2, e1>>, <<s2, e2>>}

IdSymmetry == Permutations(Users) \cup Permutations(Sessions) \cup Permutations(Requests)
              \cup Permutations(LoginStates)
=============================================================================
