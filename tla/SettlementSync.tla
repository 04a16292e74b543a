----------------------------- MODULE SettlementSync -----------------------------
(***************************************************************************)
(* The database as a projection of the chain, from funding to the end:     *)
(*   - /api/fund-task, which activates a row the chain vouches for;        *)
(*   - /api/dispute and the dispute_task tool, which mark a row disputed;  *)
(*   - syncSettledTasks of lib/db/settlement-sync.ts, the cron job that    *)
(*     copies what the chain settled into the rows.                        *)
(* The chain is EscrowLifecycle, which CarbonEscrow implements.  A handler *)
(* reads a row, reads the chain, and then writes the row by compare-and-   *)
(* set; the chain, the clock and every other handler move in between.      *)
(***************************************************************************)
EXTENDS TaskTable

CONSTANTS
    Runs,         \* cron invocations that may overlap
    BATCH_LIMIT,  \* SETTLEMENT_SYNC_BATCH_LIMIT
    MaxFaults     \* bound: failed reads, lookups, writes and killed runs

ASSUME SyncAssumption == BATCH_LIMIT \in Nat \ {0} /\ MaxFaults \in Nat

VARIABLES
    state, paidTo,  \* the escrow contract the platform is configured with
    terms,          \* [TaskIds -> BOOLEAN]: chain worker and amount match the row's
    current,        \* [TaskIds -> BOOLEAN]: the row's escrow_contract is that one
    updatedAt,      \* [TaskIds -> Nat]: the rows' updated_at
    confirm,        \* per task, the state a fund-task call holds
    dispute,        \* per task, the state a dispute call holds
    run,            \* per run, the rows still to handle: [B -> [row, chain]]
    faults

chainVars == << state, paidTo, terms >>
vars == << clock, rows, state, paidTo, terms, current, updatedAt,
           confirm, dispute, run, faults >>

Chain == INSTANCE EscrowLifecycle

ChainState == Chain!TaskState

(* What the handlers hold between two awaits. *)
Confirm == {"idle", "read"} \cup ChainState
Dispute == [ pc : {"idle", "read", "write"},
             status : {"active", "pending", "disputed"}, funded : BOOLEAN ]
Seen    == [ row : {"active", "disputed"}, chain : ChainState \cup {"unread"} ]

Idle == [ pc |-> "idle", status |-> "pending", funded |-> FALSE ]

TypeOK ==
    /\ clock \in Nat
    /\ rows \in [TaskIds -> Row]
    /\ state \in [TaskIds -> ChainState]
    /\ paidTo \in [TaskIds -> Chain!Party]
    /\ terms \in [TaskIds -> BOOLEAN]
    /\ current \in [TaskIds -> BOOLEAN]
    /\ updatedAt \in [TaskIds -> Nat]
    /\ confirm \in [TaskIds -> Confirm]
    /\ dispute \in [TaskIds -> Dispute]
    /\ \A r \in Runs : DOMAIN run[r] \subseteq TaskIds
    /\ \A r \in Runs : \A t \in DOMAIN run[r] : run[r][t] \in Seen
    /\ faults \in 0 .. MaxFaults

(* A task is fresh, or was funded and activated on an earlier deployment.  *)
Earlier == [NoRow EXCEPT !.status = "active", !.funded = TRUE, !.pinned = TRUE]

Init ==
    /\ clock = 0
    /\ current \in [TaskIds -> BOOLEAN]
    /\ rows = [t \in TaskIds |-> IF current[t] THEN NoRow ELSE Earlier]
    /\ Chain!Init
    /\ terms = [t \in TaskIds |-> FALSE]
    /\ updatedAt = [t \in TaskIds |-> 0]
    /\ confirm = [t \in TaskIds |-> "idle"]
    /\ dispute = [t \in TaskIds |-> Idle]
    /\ run = [r \in Runs |-> << >>]
    /\ faults = 0

(* Every statement that changes a row also stamps its updated_at.          *)
Stamp == updatedAt' = [t \in TaskIds |->
                         IF rows'[t] # rows[t] THEN clock ELSE updatedAt[t]]

Fault == faults < MaxFaults /\ faults' = faults + 1
-----------------------------------------------------------------------------
(* What moves besides these handlers: the chain, the clock, and the offer  *)
(* stage (module OfferBooking), through its statements on the table.       *)

chainStep(t) ==
    /\ Exists(t)
    /\ Chain!TaskStep(t)
    /\ IF Chain!Fund(t)
       THEN \E same \in BOOLEAN : terms' = [terms EXCEPT ![t] = same]
       ELSE UNCHANGED terms
    /\ UNCHANGED << clock, rows, current, updatedAt, confirm, dispute, run, faults >>

offerStage(t) ==
    /\ \/ \E auto \in BOOLEAN :
            createTask(t, [NoRow EXCEPT
                !.status = IF auto THEN "accepted" ELSE "pending",
                !.expiry = clock + 1, !.createdAt = clock, !.pinned = auto])
       \/ acceptTask(t, TRUE)
       \/ updateTaskStatus(t, "declined", TRUE)
       \/ lapseExpiredOffers
    /\ Stamp
    /\ UNCHANGED << clock, chainVars, current, confirm, dispute, run, faults >>

clockStep ==
    /\ Tick
    /\ UNCHANGED << rows, chainVars, current, updatedAt, confirm, dispute, run, faults >>
-----------------------------------------------------------------------------
(* POST /api/fund-task. *)

confirmTo(t, held) == confirm' = [confirm EXCEPT ![t] = held]

(* getTaskByPaymentId lapses expired offers and then reads the row.        *)
fundRead(t) ==
    /\ confirm[t] = "idle"
    /\ lapseExpiredOffers /\ Stamp
    /\ rows'[t].status = "accepted"
    /\ confirmTo(t, "read")
    /\ UNCHANGED << clock, chainVars, current, dispute, run, faults >>

(* Mutant: the row and the chain task are not compared. *)
fundChain_AnyTerms(t) ==
    /\ confirm[t] = "read"
    /\ confirmTo(t, IF state[t] # "None" THEN state[t] ELSE "idle")
    /\ UNCHANGED << clock, rows, chainVars, current, updatedAt, dispute, run, faults >>

(* The authority read: some task, with this worker and this amount.        *)
fundChain(t) ==
    /\ confirm[t] = "read"
    /\ confirmTo(t, IF state[t] # "None" /\ terms[t] THEN state[t] ELSE "idle")
    /\ UNCHANGED << clock, rows, chainVars, current, updatedAt, dispute, run, faults >>

fundWrite(t) ==
    /\ confirm[t] \in ChainState
    /\ \E ok \in BOOLEAN : markTaskFunded(t, ok)
    /\ Stamp
    /\ confirmTo(t, "idle")
    /\ UNCHANGED << clock, chainVars, current, dispute, run, faults >>
-----------------------------------------------------------------------------
(* POST /api/dispute and the dispute_task tool. *)

(* Mutant: a row of any status can be disputed. *)
disputeRead_AnyStatus(t) ==
    /\ dispute[t].pc = "idle"
    /\ lapseExpiredOffers /\ Stamp
    /\ dispute' = [dispute EXCEPT ![t] =
          [ pc |-> "read", status |-> rows'[t].status, funded |-> rows'[t].funded ]]
    /\ UNCHANGED << clock, chainVars, current, confirm, run, faults >>

disputeRead(t) ==
    /\ dispute[t].pc = "idle"
    /\ lapseExpiredOffers /\ Stamp
    /\ rows'[t].status \in {"active", "pending", "disputed"}
    /\ dispute' = [dispute EXCEPT ![t] =
          [ pc |-> "read", status |-> rows'[t].status, funded |-> rows'[t].funded ]]
    /\ UNCHANGED << clock, chainVars, current, confirm, run, faults >>

(* Mutant: a verdict is computed without asking the chain. *)
HasGround_Unasked(t) == dispute[t].funded

(* Path A signs a failing verdict about evidence delivered on chain, for a *)
(* row with funded_at; path B records a dispute the chain already has.     *)
HasGround(t) ==
    \/ dispute[t].funded /\ state[t] \notin {"None", "Funded", "Expired"}
    \/ state[t] \in {"Disputed", "Arbitrating", "Resolved"}

disputeJudge(t) ==
    /\ dispute[t].pc = "read"
    /\ dispute' = [dispute EXCEPT ![t] =
          IF HasGround(t) /\ dispute[t].status # "disputed"
          THEN [@ EXCEPT !.pc = "write"] ELSE Idle]
    /\ UNCHANGED << clock, rows, chainVars, current, updatedAt, confirm, run, faults >>

(* No bundle, a passing verdict, a failed read or signature.               *)
disputeRefused(t) ==
    /\ dispute[t].pc = "read"
    /\ dispute' = [dispute EXCEPT ![t] = Idle]
    /\ UNCHANGED << clock, rows, chainVars, current, updatedAt, confirm, run, faults >>

disputeWrite(t) ==
    /\ dispute[t].pc = "write"
    /\ \E ok \in BOOLEAN : updateTaskStatus(t, "disputed", ok)
    /\ Stamp
    /\ dispute' = [dispute EXCEPT ![t] = Idle]
    /\ UNCHANGED << clock, chainVars, current, confirm, run, faults >>
-----------------------------------------------------------------------------
(* syncSettledTasks. *)

SYNCABLE_STATUSES == {"active", "disputed"}

(* Mutant: rows of every deployment are judged by the current escrow. *)
Candidates_AnyEscrow == { t \in TaskIds : rows[t].status \in SYNCABLE_STATUSES }

Candidates == { t \in TaskIds : rows[t].status \in SYNCABLE_STATUSES /\ current[t] }

(* Oldest updated_at first, at most BATCH_LIMIT of them.                   *)
Batches ==
    { B \in SUBSET Candidates :
        /\ Cardinality(B) =< BATCH_LIMIT
        /\ Candidates = B \/ Cardinality(B) = BATCH_LIMIT
        /\ \A b \in B, c \in Candidates \ B : updatedAt[b] =< updatedAt[c] }

syncQuery(r) ==
    /\ DOMAIN run[r] = {}
    /\ \E B \in Batches :
         run' = [run EXCEPT ![r] =
                   [t \in B |-> [ row |-> rows[t].status, chain |-> "unread" ]]]
    /\ UNCHANGED << clock, rows, chainVars, current, updatedAt, confirm, dispute, faults >>

handled(r, t) ==
    run' = [run EXCEPT ![r] = [u \in DOMAIN run[r] \ {t} |-> run[r][u]]]

syncRead(r, t) ==
    /\ t \in DOMAIN run[r] /\ run[r][t].chain = "unread"
    /\ \/ run' = [run EXCEPT ![r][t].chain = state[t]] /\ UNCHANGED faults
       \/ handled(r, t) /\ Fault
    /\ UNCHANGED << clock, rows, chainVars, current, updatedAt, confirm, dispute >>

(* Mutant: refunds are not projected. *)
settlementTargetFor_NoRefund(row, chain) ==
    CASE chain = "Completed" -> "completed"
      [] chain = "Resolved"  -> "resolved"
      [] OTHER -> IF chain \in Chain!Contested /\ row = "active"
                  THEN "disputed" ELSE "none"

settlementTargetFor(row, chain) ==
    CASE chain = "Completed" -> "completed"
      [] chain = "Expired"   -> "expired"
      [] chain = "Resolved"  -> "resolved"
      [] OTHER -> IF chain \in Chain!Contested /\ row = "active"
                  THEN "disputed" ELSE "none"

(* What this run does with a row, none for rows whose terms disagree.      *)
Target(r, t) ==
    IF terms[t] THEN settlementTargetFor(run[r][t].row, run[r][t].chain) ELSE "none"

Read(r) == \A t \in DOMAIN run[r] : run[r][t].chain # "unread"

(* A refusal is not a failure of the run: another writer was first.        *)
write(t, target) ==
    \/ updateTaskStatus(t, target, TRUE) /\ UNCHANGED faults
    \/ /\ rows[t].status \notin VALID_TRANSITIONS[target]
       /\ UNCHANGED << rows, faults >>
    \/ updateTaskStatus(t, target, FALSE) /\ Fault

syncSettle(r, t) ==
    /\ Read(r) /\ t \in DOMAIN run[r]
    /\ Target(r, t) # "resolved"
    /\ IF Target(r, t) = "none"
       THEN UNCHANGED << rows, faults >> ELSE write(t, Target(r, t))
    /\ Stamp
    /\ handled(r, t)
    /\ UNCHANGED << clock, chainVars, current, confirm, dispute >>

(* Mutant: a ruling is taken to be for the worker. *)
resolvedOutcome_Worker(t) == "completed"

resolvedOutcome(t) == IF paidTo[t] = "worker" THEN "completed" ELSE "expired"

(* Resolved rows come last: each needs the TaskResolved event, which the   *)
(* lookup may miss, fail to read, or not reach inside the run's budget.    *)
syncResolve(r, t) ==
    /\ Read(r) /\ t \in DOMAIN run[r]
    /\ \A u \in DOMAIN run[r] : Target(r, u) = "resolved"
    /\ \/ write(t, resolvedOutcome(t))
       \/ UNCHANGED rows /\ Fault
    /\ Stamp
    /\ handled(r, t)
    /\ UNCHANGED << clock, chainVars, current, confirm, dispute >>

(* The platform kills an invocation that outlives its maxDuration.         *)
syncDies(r) ==
    /\ DOMAIN run[r] # {}
    /\ Fault
    /\ run' = [run EXCEPT ![r] = << >>]
    /\ UNCHANGED << clock, rows, chainVars, current, updatedAt, confirm, dispute >>

SyncStep(r) ==
    \/ syncQuery(r) \/ syncDies(r)
    \/ \E t \in TaskIds : syncRead(r, t) \/ syncSettle(r, t) \/ syncResolve(r, t)

HandlerStep(t) ==
    \/ fundRead(t) \/ fundChain(t) \/ fundWrite(t)
    \/ disputeRead(t) \/ disputeJudge(t) \/ disputeRefused(t) \/ disputeWrite(t)

Next ==
    \/ \E t \in TaskIds : chainStep(t) \/ offerStage(t) \/ HandlerStep(t)
    \/ \E r \in Runs : SyncStep(r)
    \/ clockStep

Spec == Init /\ [][Next]_vars

(***************************************************************************)
(* Fairness: the scheduler keeps invoking the cron route, and an           *)
(* invocation that is neither killed nor starved goes on.  Faults are      *)
(* finitely many (MaxFaults).  Nothing is assumed of parties or handlers.  *)
(***************************************************************************)
LiveSpec == Spec /\ \A r \in Runs : WF_vars(SyncStep(r))
-----------------------------------------------------------------------------
(* Properties. *)

(***************************************************************************)
(* The database is never ahead of the money: an active row has a task of   *)
(* its own on the chain, with its worker and its amount.  About the reads  *)
(* of /api/fund-task, which are two awaits older than its write.           *)
(***************************************************************************)
ActiveIsFunded ==
    \A t \in TaskIds :
        rows[t].status = "active" /\ current[t] => state[t] # "None" /\ terms[t]

(***************************************************************************)
(* A row that reads completed or expired says whom the escrow paid: the    *)
(* worker or the agent, of this very task, whichever handlers and runs     *)
(* raced to write it and however old their reading of the chain was.       *)
(***************************************************************************)
ProjectionAgrees ==
    \A t \in TaskIds :
        /\ rows[t].status = "completed" => paidTo[t] = "worker" /\ terms[t]
        /\ rows[t].status = "expired" => paidTo[t] = "agent" /\ terms[t]

(***************************************************************************)
(* No row is disputed over work that was never delivered: a disputed row   *)
(* of the current escrow has left None and Funded on the chain, and was    *)
(* not refunded for want of a delivery.                                    *)
(***************************************************************************)
DisputedHasGround ==
    \A t \in TaskIds :
        rows[t].status = "disputed" /\ current[t] =>
            state[t] \notin {"None", "Funded", "Expired"}

(***************************************************************************)
(* A row left on a superseded escrow is never settled by what the new one  *)
(* says: a matching task anyone can create there changes nothing for it.   *)
(***************************************************************************)
SupersededUntouched ==
    [][\A t \in TaskIds :
         ~ current[t] /\ rows[t].status \notin Terminal =>
             rows'[t].status \notin {"completed", "expired"}]_vars

(***************************************************************************)
(* What has ended stays as it ended: an overlapping run or a dispute call  *)
(* with an older reading cannot reopen or rewrite it.                      *)
(***************************************************************************)
EndedStays ==
    [][\A t \in TaskIds : rows[t].status \in Terminal => rows'[t] = rows[t]]_vars

(***************************************************************************)
(* A settlement is projected: a row in flight whose task the escrow has    *)
(* settled ends up completed or expired, so its worker's slot comes free   *)
(* (CC-080), although runs overlap, fail and are killed.                   *)
(***************************************************************************)
SettledIsProjected ==
    \A t \in TaskIds :
        /\ current[t] /\ terms[t]
        /\ rows[t].status \in SYNCABLE_STATUSES
        /\ state[t] \in Chain!Settled
        ~> rows[t].status \in {"completed", "expired"}

-----------------------------------------------------------------------------
(* What comments say, and the code does not do.                            *)

(* An expired task is a no-submission expiry.  (awol.ts, in the mapping of *)
(* statuses to outcomes.)                                                  *)
ExpiredHadNoSubmission ==
    \A t \in TaskIds :
        rows[t].status = "expired" /\ current[t] => state[t] = "Expired"
=============================================================================
