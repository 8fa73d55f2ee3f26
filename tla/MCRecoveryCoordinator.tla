----------------------- MODULE MCRecoveryCoordinator ------------------------
(***************************************************************************)
(* RecoveryCoordinator on small instances.                                 *)
(***************************************************************************)
EXTENDS RecoveryCoordinator, TLC

\* Units, digests and processes are interchangeable for every safety property.
Symmetry == Permutations(Unit) \cup Permutations(Digest) \cup Permutations(Proc)
=============================================================================
