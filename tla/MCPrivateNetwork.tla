-------------------------- MODULE MCPrivateNetwork --------------------------
(***************************************************************************)
(* Small instances of PrivateNetwork: one or two users, one or two         *)
(* containers, networks of one or two host addresses.                      *)
(***************************************************************************)
EXTENDS PrivateNetwork, TLC

CONSTANTS u1, u2, c1, c2, wide, inner, apart, nm1

MCTwoUsers == {u1, u2}
MCOneUser == {u1}

MCOneCt == {<<u1, c1>>}
MCOnePerm == {<<u1, c1>>, <<u1, c2>>}

\* A range, one inside it, and one that meets neither.
MCCidrs == {wide, inner, apart}
MCClash == {<<c, c>> : c \in MCCidrs} \cup {<<wide, inner>>, <<inner, wide>>}
MCTwoCidrs == {wide, apart}
MCTwoClash == {<<c, c>> : c \in MCTwoCidrs}
MCOneClash == {<<wide, wide>>}

MCHosts == 2..3

\* The networks that are up when a run starts.
NoneEstablished == <<>>
OneEstablished == <<[owner |-> u1, cidr |-> wide, name |-> nm1]>>

RequestSymmetry == Permutations(Requests)
=============================================================================
