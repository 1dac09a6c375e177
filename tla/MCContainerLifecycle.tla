----------------------- MODULE MCContainerLifecycle ------------------------
(***************************************************************************)
(* Small instances of ContainerLifecycle: one or two ids, of which one may *)
(* belong to a container that is up at the start.                          *)
(***************************************************************************)
EXTENDS ContainerLifecycle, TLC

RequestSymmetry == Permutations(Requests)
=============================================================================
