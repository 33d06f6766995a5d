---------------------------- MODULE MCStateStore ----------------------------
(* Small instances of StateStore for TLC. *)
EXTENDS StateStore, TLC

Symmetry == Permutations(Runs \ Artifacts)
=============================================================================
