--------------------------- MODULE MCContainerOps ---------------------------
(* ContainerOps on small instances: see the .cfg files of this module.      *)
EXTENDS ContainerOps, TLC

Symmetry == Permutations(Slots)
=============================================================================
