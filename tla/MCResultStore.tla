---------------------------- MODULE MCResultStore ---------------------------
(***************************************************************************)
(* ResultStore on small instances: two bundles that share an artifact.     *)
(***************************************************************************)
EXTENDS ResultStore

CONSTANTS b1, b2, a1, a2

SharedArtifacts == [b \in {b1, b2} |-> IF b = b1 THEN {a1, a2} ELSE {a2}]
=============================================================================
