----------------------------- MODULE MCDiceRoom -----------------------------
(* One or two pages, one or two rooms; who does what is in the .cfg files. *)
EXTENDS DiceRoom
=============================================================================
