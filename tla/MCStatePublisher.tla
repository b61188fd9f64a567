-------------------------- MODULE MCStatePublisher --------------------------
(* Small instances of StatePublisher for TLC. *)
EXTENDS StatePublisher, TLC

AnyBatch == SUBSET Features

Symmetry == Permutations(Features)
=============================================================================
