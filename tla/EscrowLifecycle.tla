--------------------------- MODULE EscrowLifecycle ---------------------------
(***************************************************************************)
(* What the escrow contract promises about one task, with clocks, callers, *)
(* verdicts and balances left out: the order of its states and whom its    *)
(* money reaches.  CarbonEscrow implements it, and the off-chain modules   *)
(* use it as the chain their handlers read.                                *)
(*                                                                         *)
(* The promise is that of the TaskState comment block of the contract: a   *)
(* task that was delivered is never simply refunded.  The agent's money    *)
(* comes back only when nothing was delivered, or by a ruling.             *)
(***************************************************************************)
CONSTANT TaskIds

VARIABLES
    state,   \* [TaskIds -> TaskState]
    paidTo   \* [TaskIds -> Party]: the role the task's money went to

TaskState == { "None", "Funded", "Delivered", "Completed", "Disputed",
               "Arbitrating", "Resolved", "Expired" }
Party     == { "nobody", "worker", "agent" }

Contested == { "Disputed", "Arbitrating" }
Settled   == { "Completed", "Resolved", "Expired" }

lifecycleVars == << state, paidTo >>

Init ==
    /\ state = [t \in TaskIds |-> "None"]
    /\ paidTo = [t \in TaskIds |-> "nobody"]

Move(t, from, to) ==
    /\ state[t] \in from
    /\ state' = [state EXCEPT ![t] = to]
    /\ UNCHANGED paidTo

Settle(t, from, to, party) ==
    /\ state[t] \in from
    /\ state' = [state EXCEPT ![t] = to]
    /\ paidTo' = [paidTo EXCEPT ![t] = party]

Fund(t)      == Move(t, {"None"}, "Funded")
Deliver(t)   == Move(t, {"Funded"}, "Delivered")
Dispute(t)   == Move(t, {"Delivered"}, "Disputed")
Arbitrate(t) == Move(t, {"Disputed"}, "Arbitrating")

(* The five routes into Completed: agent, owner, review clock, passing     *)
(* verdict, arbitration clock.  Each of them pays the worker.              *)
Complete(t) == Settle(t, {"Funded", "Delivered"} \cup Contested,
                      "Completed", "worker")

Rule(t, party) == Settle(t, Contested, "Resolved", party)

Refund(t) == Settle(t, {"Funded"}, "Expired", "agent")

TaskStep(t) ==
    \/ Fund(t) \/ Deliver(t) \/ Dispute(t) \/ Arbitrate(t)
    \/ Complete(t) \/ Refund(t)
    \/ \E party \in {"worker", "agent"} : Rule(t, party)

Next == \E t \in TaskIds : TaskStep(t)

Spec == Init /\ [][Next]_lifecycleVars
=============================================================================
