--------------------------- MODULE MCOfferReminders ---------------------------
(* An instance of OfferReminders for TLC. *)
EXTENDS OfferReminders

CONSTANTS t1, alice, w1
=============================================================================
