------------------------- MODULE MCContainerSharing -------------------------
(***************************************************************************)
(* A small instance of ContainerSharing: an admin and two users.           *)
(***************************************************************************)
EXTENDS ContainerSharing, TLC

\* The owner's permissions, a part of them, a mask that is refused and one with
\* a bit that means nothing.
MCPerms == {"view", "share", "use"}
MCOffers == {MCPerms, {"view", "share"}, {"use"}, {"view", "bit8"}}

UserSymmetry == Permutations(Users \ Admins) \cup Permutations(Requests)
=============================================================================
