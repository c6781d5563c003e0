----------------------------- MODULE MCAccounts -----------------------------
(* Accounts on a small instance: requests are interchangeable, and so    *)
(* are the names that nobody seeded.                                       *)
EXTENDS Accounts, TLC

Symmetry == Permutations(Conns) \cup Permutations(Names \ {AdminName})
=============================================================================
