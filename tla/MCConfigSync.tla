---------------------------- MODULE MCConfigSync ----------------------------
(* Small instances of ConfigSync for TLC. *)
EXTENDS ConfigSync, TLC

Symmetry == Permutations(Identities) \cup Permutations(Actions)
=============================================================================
