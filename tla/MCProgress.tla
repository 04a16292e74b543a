------------------------------ MODULE MCProgress ------------------------------
(* Instances of Progress for TLC. *)
EXTENDS MCSettlementSync, Progress

CONSTANTS c1, c2
=============================================================================
