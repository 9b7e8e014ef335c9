--------------------------- MODULE MCTrainingSync ---------------------------
(* Small instances of TrainingSync for TLC. *)
EXTENDS TrainingSync, TLC

Symmetry == Permutations(Items)
=============================================================================
