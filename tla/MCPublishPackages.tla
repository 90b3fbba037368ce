------------------------- MODULE MCPublishPackages -------------------------
(* Runs, registries and bytes are only compared.                             *)
EXTENDS PublishPackages, TLC

Symmetry == Permutations(Runs) \cup Permutations(Registries) \cup Permutations(Shasums)
=============================================================================
