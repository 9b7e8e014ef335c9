----------------------------- MODULE RunStatus -----------------------------
(***************************************************************************)
(* What a Vivado run may tell about itself, whichever script drives it: a  *)
(* launch runs, its steps end one after the other, and it is reported as   *)
(* ended only when all of them have.                                       *)
(***************************************************************************)
EXTENDS Naturals

CONSTANT Launches

VARIABLES total,   \* number of steps
          status,  \* of each launch: "new", "running", "ended" or "failed"
          done     \* steps of each launch that have ended

vars == <<total, status, done>>

Init ==
    /\ total \in Nat
    /\ status = [w \in Launches |-> "new"]
    /\ done = [w \in Launches |-> 0]

Moves(w, from, to) ==
    /\ status[w] = from
    /\ status' = [status EXCEPT ![w] = to]
    /\ UNCHANGED <<total, done>>

Begin(w) == Moves(w, "new", "running")
Fail(w)  == Moves(w, "running", "failed")
End(w)   == done[w] = total /\ Moves(w, "running", "ended")

Advance(w) ==
    /\ status[w] = "running" /\ done[w] < total
    /\ done' = [done EXCEPT ![w] = @ + 1]
    /\ UNCHANGED <<total, status>>

Next == \E w \in Launches : Begin(w) \/ Fail(w) \/ End(w) \/ Advance(w)

Spec == Init /\ [][Next]_vars
=============================================================================
