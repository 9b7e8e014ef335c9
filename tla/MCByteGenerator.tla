-------------------------- MODULE MCByteGenerator --------------------------
(* Small instances of ByteGenerator for TLC. *)
EXTENDS ByteGenerator, TLC

CONSTANTS f1, f2

F(f, n, g, s, t) == [file |-> f, size |-> n, gen |-> g, start |-> s, step |-> t]

(* A good form for each generator, one with a wrapping counter, and one    *)
(* for each error.                                                         *)
MCForms ==
    { F(f1, 4, "Counter", 1, 2), F(f1, 6, "Counter", 9, 0), F(f1, 3, "Random", 0, 0),
      F(f1, 0, "Random", 0, 0), F(f2, 1, "Random", 0, 0), F(f1, 2, "Counter", -1, 0) }

FewForms == { F(f1, 3, "Counter", 2, 1), F(f1, 0, "Random", 0, 0), F(f1, 2, "Counter", -1, 0) }

Symmetry == Permutations(Jobs)
=============================================================================
