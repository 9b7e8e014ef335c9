----------------------------- MODULE MCISEWrap -----------------------------
(* Two launches in one directory and two steps for TLC. *)
EXTENDS ISEWrap

MCSteps == <<"init_design", "route_design">>
=============================================================================
