------------------------------ MODULE MCStartup ------------------------------
(* Two processes, and one value for each source of a setting.              *)
EXTENDS Startup, TLC

CONSTANTS written, given

Both(x, y) == [f \in Fields |-> IF f = "addr" THEN x ELSE y]

\* A whole file, one that leaves a field out, one with a field of the wrong type.
Texts == {Both(written, written), Both(Missing, written), Both(Wrong, written)}
Envs == {Both(Unset, Unset), Both(Unset, given), Both(given, Unset)}

Symmetry == Permutations(Procs)
=============================================================================
