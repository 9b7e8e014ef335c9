---------------------------- MODULE MCTableLayout ----------------------------
(* A table of up to two rows and three columns for TLC. *)
EXTENDS TableLayout, TLC

CONSTANTS list, label, empty

At(x, y) == [x |-> x, y |-> y]

MCMinSpace == list :> At(2, 2) @@ label :> At(3, 1) @@ empty :> At(0, 1)

MCPositions  == {At(1, 1), At(2, 1), At(3, 1), At(2, 2)}
MCExpands    == {At(1, 2), At(2, 1)}
MCBorders    == {At(1, 1)}
MCDimensions == {At(4, 3), At(8, 5), At(9, 8)}
=============================================================================
