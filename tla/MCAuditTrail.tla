---------------------------- MODULE MCAuditTrail ----------------------------
(* Small instances of AuditTrail for TLC: two readings of the clock.       *)
EXTENDS AuditTrail

TwoSeconds == {0, 1}
=============================================================================
