---------------------------- MODULE MCMultDirDiff ----------------------------
(* Directories with two entries, one of which may have entries, for TLC.   *)
EXTENDS MultDirDiff, TLC

CONSTANTS short, other, large

MCPaths == {<<"a">>, <<"b">>, <<"a", "c">>}
TwoPaths == {<<"a">>, <<"a", "c">>}
OnePath == {<<"a">>}

(* The name of one path is not UTF-8. *)
OddNames == {<<"a", "c">>}

(* Two files of the same length and one as long as a directory; files of   *)
(* two lengths and one as long as a directory; no file that long.          *)
MCSize == short :> 1 @@ other :> 1 @@ large :> 2 @@ Dir :> 2
GroupSize == short :> 1 @@ other :> 3 @@ large :> 2 @@ Dir :> 2
FewSize == short :> 1 @@ other :> 1 @@ large :> 3 @@ Dir :> 2
=============================================================================
