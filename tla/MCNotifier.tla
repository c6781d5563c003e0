----------------------------- MODULE MCNotifier -----------------------------
(* Notifier on a small instance: handlers and addresses are                *)
(* interchangeable.                                                        *)
EXTENDS Notifier, TLC

Symmetry == Permutations(Conns) \cup Permutations(Ips)
=============================================================================
