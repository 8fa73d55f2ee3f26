---------------------------- MODULE MCOrderBook ----------------------------
(***************************************************************************)
(* Small books for TLC.                                                    *)
(***************************************************************************)
EXTENDS BookCheckpoint

\* The IDs and commands are interchangeable.
Renaming == Permutations(Ids)
=============================================================================
