---------------------------- MODULE MCTrainingDb ----------------------------
(* Small instances of TrainingDb for TLC. *)
EXTENDS TrainingDb, TLC

Symmetry == Permutations(Procs) \union Permutations(Templates)
=============================================================================
