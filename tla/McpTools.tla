------------------------------ MODULE McpTools ------------------------------
(***************************************************************************)
(* The tools of lib/mcp/server.ts that speak about a task after its hire:  *)
(* get_task_status, confirm_task_completion, dispute_task and              *)
(* get_signed_verdict.  Each reads the row, then the chain, may sign and   *)
(* may write the row, and then tells an autonomous agent what it found;    *)
(* row and chain move between those awaits.                                *)
(***************************************************************************)
EXTENDS Naturals

CONSTANTS
    Calls,
    DELIVERY,    \* from funding to the deadline, in ticks
    MaxClock     \* bound

VARIABLES
    clock,
    chain,       \* the task on the chain; delivered and contested never fall
    row,         \* its row: status, and whether funded_at is set
    passes,      \* what the checker says of the committed evidence
    call         \* per call, what it holds or what it was told

own  == << chain, row, passes, call >>
vars == << clock, own >>

Parties == {"agent", "worker"}
Idle    == [ pc |-> "idle" ]
Unread  == [ state |-> "unread", deadline |-> 0, delivered |-> FALSE, contested |-> FALSE ]

Init ==
    /\ clock = 0
    /\ chain = [ state |-> "None", deadline |-> 0, delivered |-> FALSE, contested |-> FALSE ]
    /\ row = [ status |-> "pending", funded |-> FALSE ]
    /\ passes \in BOOLEAN
    /\ call = [c \in Calls |-> Idle]
-----------------------------------------------------------------------------
(* Everybody else. *)

escrowStep ==
    /\ \/ /\ chain.state = "None" /\ row.status = "accepted"
          /\ chain' = [chain EXCEPT !.state = "Funded", !.deadline = clock + DELIVERY]
       \/ /\ chain.state = "Funded" /\ clock < chain.deadline
          /\ chain' = [chain EXCEPT !.state = "Delivered", !.delivered = TRUE]
       \/ /\ chain.state = "Funded" /\ clock >= chain.deadline
          /\ chain' = [chain EXCEPT !.state = "Expired"]
       \/ /\ chain.state \in {"Funded", "Delivered", "Disputed", "Arbitrating"}
          /\ chain' = [chain EXCEPT !.state = "Completed"]
       \/ /\ chain.state = "Delivered" /\ ~passes
          /\ chain' = [chain EXCEPT !.state = "Disputed", !.contested = TRUE]
       \/ /\ chain.state \in {"Disputed", "Arbitrating"}
          /\ \E to \in {"Arbitrating", "Resolved"} : chain' = [chain EXCEPT !.state = to]
    /\ UNCHANGED << clock, row, passes, call >>

(* Answers and lapses, fund-task, another's dispute, the settlement sync.  *)
rowStep ==
    /\ \/ row.status = "pending" /\ \E to \in {"accepted", "declined", "lapsed"} : row' = [row EXCEPT !.status = to]
       \/ /\ row.status = "accepted" /\ chain.state # "None"
          /\ row' = [ status |-> "active", funded |-> TRUE ]
       \/ row.status = "accepted" /\ row' = [row EXCEPT !.status = "lapsed"]
       \/ row.status = "active" /\ chain.delivered /\ row' = [row EXCEPT !.status = "disputed"]
       \/ /\ row.status \in {"active", "disputed"}
          /\ \/ chain.state \in {"Completed", "Resolved"} /\ row' = [row EXCEPT !.status = "completed"]
             \/ chain.state \in {"Expired", "Resolved"} /\ row' = [row EXCEPT !.status = "expired"]
    /\ UNCHANGED << clock, chain, passes, call >>

Tick ==
    /\ clock < MaxClock
    /\ clock' = clock + 1
    /\ UNCHANGED own
-----------------------------------------------------------------------------
(* What the tools share. *)

Goes(c, f) == call' = [call EXCEPT ![c] = f] /\ UNCHANGED << clock, chain, passes >>

(* An answer: what was said, and whether the chain is still as it was read.*)
toolAnswer(c, said) ==
    Goes(c, [ pc |-> "told", caller |-> call[c].caller, bundle |-> call[c].bundle,
              said |-> said, current |-> call[c].onChain = chain ])

toolError(c, code) == toolAnswer(c, {code}) /\ UNCHANGED row

(* Who may ask, and of a row in which status.  The bundle is the committed *)
(* one, another, or left out.                                              *)
Authorized(name, caller) ==
    \/ name = "get_task_status"
    \/ name = "confirm_task_completion" /\ caller = "agent"
    \/ name \in {"dispute_task", "get_signed_verdict"} /\ caller \in Parties

Open(name) ==
    CASE name = "confirm_task_completion" -> {"active", "pending"}
      [] name = "dispute_task" -> {"active", "pending", "disputed"}
      [] OTHER -> {"pending", "accepted", "declined", "lapsed", "active", "disputed", "completed", "expired"}

invoke(c, name, caller, bundle) ==
    /\ call[c].pc = "idle"
    /\ bundle = "none" \/ name \in {"dispute_task", "get_signed_verdict"}
    /\ bundle # "none" \/ name # "get_signed_verdict"
    /\ Goes(c, [ pc |-> IF caller = "nobody" /\ name # "get_task_status" THEN "unauthenticated" ELSE "row",
                 name |-> name, caller |-> caller, bundle |-> bundle,
                 row |-> row, onChain |-> Unread ])
    /\ UNCHANGED row

unauthenticated(c) ==
    /\ call[c].pc = "unauthenticated"
    /\ toolError(c, "UNAUTHENTICATED")

(* A call for a task that has no row ends here, too.                       *)
getTaskByPaymentId(c) ==
    /\ call[c].pc = "row"
    /\ IF ~Authorized(call[c].name, call[c].caller) THEN toolError(c, "FORBIDDEN")
       ELSE IF row.status \notin Open(call[c].name)
       THEN IF call[c].name = "confirm_task_completion" /\ row.status = "completed"
            THEN toolAnswer(c, {"settled"}) /\ UNCHANGED row
            ELSE toolError(c, "INVALID_TASK_STATE")
       ELSE /\ Goes(c, [call[c] EXCEPT !.pc = "chain", !.row = row])
            /\ UNCHANGED row

(* An unreadable chain is an answer, too.                                  *)
getOnChainTask(c) ==
    /\ call[c].pc = "chain"
    /\ \E seen \in {chain, Unread} : Goes(c, [call[c] EXCEPT !.pc = "read", !.onChain = seen])
    /\ UNCHANGED row

fails(c, code) ==
    /\ \/ call[c].pc = "row" /\ code \in {"INTERNAL", "TASK_NOT_FOUND"}
       \/ call[c].pc = "sign" /\ code = "VERDICT_COMPUTATION_FAILED"
    /\ toolError(c, code)
-----------------------------------------------------------------------------
(* get_task_status: a funded task past its deadline can be reclaimed.      *)

(* Mutant: the hint comes a moment early. *)
reclaim_Early(t) == t.state = "Funded" /\ clock + 1 >= t.deadline

reclaim(t) == t.state = "Funded" /\ clock >= t.deadline

get_task_status(c) ==
    /\ call[c].pc = "read" /\ call[c].name = "get_task_status"
    /\ toolAnswer(c, (IF reclaim(call[c].onChain) THEN {"reclaim"} ELSE {})
                     \cup (IF call[c].caller = "agent" THEN {"task_description"} ELSE {}))
    /\ UNCHANGED row

confirm_task_completion(c) ==
    /\ call[c].pc = "read" /\ call[c].name = "confirm_task_completion"
    /\ toolAnswer(c, CASE call[c].onChain.state \in {"Completed", "Resolved"} -> {"settled"}
                       [] call[c].onChain.state = "Delivered" -> {"delivered"}
                       [] OTHER -> {"pay early"})
    /\ UNCHANGED row
-----------------------------------------------------------------------------
(* dispute_task and get_signed_verdict. *)

(* What refuses a verdict before it is signed.                             *)
computeAndSignVerdict(c) ==
    LET t == call[c].onChain
    IN  /\ call[c].pc = "read" /\ call[c].bundle # "none"
        /\ IF t = Unread THEN toolError(c, "VERDICT_COMPUTATION_FAILED")
           ELSE IF t.state \in {"None", "Funded"} \/ ~t.delivered \/ call[c].bundle = "other"
           THEN toolError(c, "VERDICT_INPUT_INVALID")
           ELSE IF ~call[c].row.funded THEN toolError(c, "VERDICT_COMPUTATION_FAILED")
           ELSE Goes(c, [call[c] EXCEPT !.pc = "sign"]) /\ UNCHANGED row

(* The write of a row that was not disputed when it was read.              *)
Records(c, said) ==
    IF call[c].row.status = "disputed" THEN toolAnswer(c, said) /\ UNCHANGED row
    ELSE Goes(c, [call[c] EXCEPT !.pc = "write"]) /\ UNCHANGED row

get_signed_verdict(c) ==
    /\ call[c].pc = "sign" /\ call[c].name = "get_signed_verdict"
    /\ toolAnswer(c, {"verdict"})
    /\ UNCHANGED row

dispute_task(c) ==
    /\ call[c].pc \in {"sign", "read"} /\ call[c].name = "dispute_task"
    /\ \/ /\ call[c].pc = "sign"
          /\ IF passes THEN toolError(c, "VERDICT_PASSED") ELSE Records(c, {"disputed", "verdict"})
       \/ /\ call[c].pc = "read" /\ call[c].bundle = "none"
          /\ IF call[c].onChain.state \in {"Disputed", "Arbitrating", "Resolved"}
             THEN Records(c, {"disputed", "on chain"})
             ELSE toolError(c, "DISPUTE_REQUIRES_VERDICT")

(* Mutant: an update that found no row is taken for done. *)
updateTaskStatus_Unchecked(c) ==
    /\ row' = IF row.status \in {"active", "pending"} THEN [row EXCEPT !.status = "disputed"] ELSE row
    /\ toolAnswer(c, {"disputed"})

(* One statement, from active or pending; its answer may be lost.          *)
updateTaskStatus(c) ==
    \/ /\ row.status \in {"active", "pending"}
       /\ row' = [row EXCEPT !.status = "disputed"]
       /\ \/ toolAnswer(c, {"disputed", IF call[c].bundle = "none" THEN "on chain" ELSE "verdict"})
          \/ toolAnswer(c, {"INTERNAL"})
    \/ toolError(c, "INTERNAL")

write(c) == call[c].pc = "write" /\ updateTaskStatus(c)

Next ==
    \/ escrowStep \/ rowStep \/ Tick
    \/ \E c \in Calls :
         \/ \E name \in {"get_task_status", "confirm_task_completion", "dispute_task", "get_signed_verdict"},
               caller \in Parties \cup {"stranger", "nobody"}, bundle \in {"none", "committed", "other"} :
                invoke(c, name, caller, bundle)
         \/ unauthenticated(c) \/ getTaskByPaymentId(c) \/ getOnChainTask(c)
         \/ \E code \in {"INTERNAL", "TASK_NOT_FOUND", "VERDICT_COMPUTATION_FAILED"} : fails(c, code)
         \/ get_task_status(c) \/ confirm_task_completion(c)
         \/ computeAndSignVerdict(c) \/ get_signed_verdict(c) \/ dispute_task(c) \/ write(c)

Spec == Init /\ [][Next]_vars
-----------------------------------------------------------------------------
(* What a tool told its caller stays true, however row and chain moved on: *)
(* money it called reclaimable can no longer be earned by a delivery (the  *)
(* hint is true of the chain it was read from), what it called settled is, *)
(* a dispute it called recorded is in the row or the row has ended, and a  *)
(* verdict went to a party, on evidence that was delivered.                *)
AnswersHold ==
    \A c \in { d \in Calls : call[d].pc = "told" } :
        LET said == call[c].said
        IN  /\ "reclaim" \in said /\ call[c].current => ~chain.delivered
            /\ "settled" \in said => chain.state \in {"Completed", "Resolved"}
            /\ "disputed" \in said => row.status \in {"disputed", "completed", "expired"}
            /\ "on chain" \in said => chain.contested
            /\ "verdict" \in said => chain.delivered /\ call[c].caller \in Parties
=============================================================================
