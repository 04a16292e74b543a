--------------------------- MODULE MCSettlementSync ---------------------------
(* Instances of SettlementSync for TLC. *)
EXTENDS SettlementSync

CONSTANTS t1, t2, alice, w1, r1, r2
=============================================================================
