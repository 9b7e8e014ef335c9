--------------------------- MODULE MCBtrfsBackup ---------------------------
(* Small instances of BtrfsBackup for TLC. *)
EXTENDS BtrfsBackup

Symmetry == Permutations(Snaps) \union Permutations(Runs)
=============================================================================
