---------------------------- MODULE MCListWidget ----------------------------
(* A list of up to five rows for TLC. *)
EXTENDS ListWidget

(* Too narrow, too low, as small as min_space allows, and larger. *)
MCSizes == [x : {1, 2, 3, 7, 12}, y : {0, 1, 2, 3, 4, 5, 6}]
=============================================================================
