-------------------------------- MODULE Progress --------------------------------
(***************************************************************************)
(* The two background jobs that must come to an end, in one specification: *)
(* the settlement sync of module SettlementSync, and a notification of     *)
(* module NotificationDelivery.  They share no variable, so a behaviour    *)
(* runs one of them while the other rests in its initial state.            *)
(***************************************************************************)
EXTENDS SettlementSync

CONSTANTS Channels, maxAttempts

VARIABLES part, caller, found, series, transit, heard

Delivery == INSTANCE NotificationDelivery

ASSUME ProgressAssumption == Delivery!PolicyAssumption

delivered == << caller, found, series, transit, heard >>

ProgressInit ==
    /\ part \in {"sync", "delivery"}
    /\ Init /\ Delivery!Init
    /\ part = "delivery" => \A t \in TaskIds : current[t]

Synced    == part = "sync" /\ Next /\ UNCHANGED << part, delivered >>
Delivered == part = "delivery" /\ Delivery!Next /\ UNCHANGED << part, vars >>

(* The cron's fairness of LiveSpec, and the timers' of NotificationDelivery. *)
ProgressSpec ==
    /\ ProgressInit
    /\ [][Synced \/ Delivered]_<< part, vars, delivered >>
    /\ \A r \in Runs : WF_vars(part = "sync" /\ SyncStep(r) /\ UNCHANGED << part, delivered >>)
    /\ WF_delivered(part = "delivery" /\ Delivery!Progress /\ UNCHANGED << part, vars >>)
-----------------------------------------------------------------------------
(* Properties, beside those of SettlementSync. *)

(* What the caller of notifyContractor is told of each channel is true     *)
(* (lib/notifications: delivery.ts, retry.ts).                             *)
OutcomesAreTrue == Delivery!OutcomesAreTrue

(* The hire, answer or settlement that notifies goes on, whatever the      *)
(* endpoints do (dispatch.ts).                                             *)
CallerGoesOn == part = "delivery" => Delivery!CallerGoesOn
=============================================================================
