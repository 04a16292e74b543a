------------------------------ MODULE Retention ------------------------------
(***************************************************************************)
(* The content of ended tasks: lib/db/retention.ts, run by                 *)
(* /api/cron/retention, and the function prune_task_content (migration     *)
(* 025), which checks again under the row's lock what the run has selected *)
(* and then clears the content and logs it in one transaction.             *)
(***************************************************************************)
EXTENDS TaskTable

CONSTANTS
    Prunes,                   \* runs that may overlap
    DISPUTE_WINDOW_SECONDS,   \* in ticks
    PRUNE_BATCH_LIMIT

VARIABLES
    updatedAt,    \* [TaskIds -> tasks.updated_at]
    content,      \* [TaskIds -> the brief and the spec are there]
    deletions,    \* task_content_deletion_log, unique by task: [TaskIds -> times]
    prune         \* [Prunes -> the run: its clock and the candidates to come]

own  == << rows, updatedAt, content, deletions, prune >>
vars == << clock, own >>

NoRun == [ running |-> FALSE, now |-> 0, todo |-> {} ]

Init ==
    /\ TableInit
    /\ updatedAt = [t \in TaskIds |-> 0]
    /\ content = [t \in TaskIds |-> FALSE] /\ deletions = [t \in TaskIds |-> 0]
    /\ prune = [p \in Prunes |-> NoRun]
-----------------------------------------------------------------------------
TERMINAL_STATUSES == {"completed", "expired"}

(* isPruneEligible, and the function's own refusals; now is the caller's.  *)
isPruneEligible(t, now) ==
    /\ rows[t].status \in TERMINAL_STATUSES
    /\ Exists(t) /\ content[t]
    /\ now >= updatedAt[t] + DISPUTE_WINDOW_SECONDS

Batches(from) ==
    { b \in SUBSET from : Cardinality(b) <= PRUNE_BATCH_LIMIT
                          /\ (b = from \/ Cardinality(b) = PRUNE_BATCH_LIMIT) }

(* The select, limited and in no order.  It keeps to updated_at < cutoff.  *)
pruneExpiredTaskContent(p) ==
    /\ ~ prune[p].running
    /\ \E todo \in Batches({ t \in TaskIds : isPruneEligible(t, clock)
                                  /\ clock > updatedAt[t] + DISPUTE_WINDOW_SECONDS }) :
         prune' = [prune EXCEPT ![p] = [ running |-> TRUE, now |-> clock, todo |-> todo ]]
    /\ UNCHANGED << clock, rows, updatedAt, content, deletions >>

(* Mutant: the function trusts the run that calls it. *)
prune_task_content_Trusting(p, t) ==
    /\ content' = [content EXCEPT ![t] = FALSE]
    /\ deletions' = [deletions EXCEPT ![t] = @ + 1]

prune_task_content(p, t) ==
    IF isPruneEligible(t, clock)
    THEN /\ content' = [content EXCEPT ![t] = FALSE]
         /\ deletions' = [deletions EXCEPT ![t] = @ + 1]
    ELSE UNCHANGED << content, deletions >>

(* One candidate: pruned, or skipped because the row no longer qualifies.  *)
pruneOne(p, t) ==
    /\ t \in prune[p].todo
    /\ prune_task_content(p, t)
    /\ prune' = [prune EXCEPT ![p].todo = @ \ {t}]
    /\ UNCHANGED << clock, rows, updatedAt >>

(* The call fails, before or after the function has committed; the batch   *)
(* goes on.                                                                *)
pruneFails(p, t) ==
    /\ t \in prune[p].todo
    /\ \/ prune_task_content(p, t)
       \/ UNCHANGED << content, deletions >>
    /\ prune' = [prune EXCEPT ![p].todo = @ \ {t}]
    /\ UNCHANGED << clock, rows, updatedAt >>

(* The summary; or the run is killed with candidates left.                 *)
pruneEnds(p) ==
    /\ prune[p].running
    /\ prune' = [prune EXCEPT ![p] = NoRun]
    /\ UNCHANGED << clock, rows, updatedAt, content, deletions >>
-----------------------------------------------------------------------------
(* The statements of TaskTable; each stamps the row it changes.            *)
taskStep(t) ==
    /\ \/ createTask(t, [NoRow EXCEPT !.status = "pending", !.createdAt = clock, !.expiry = clock + 1])
       \/ acceptTask(t, TRUE)
       \/ markTaskFunded(t, TRUE)
       \/ lapseExpiredOffers
       \/ \E s \in {"declined", "disputed", "completed", "expired"} : updateTaskStatus(t, s, TRUE)
    /\ updatedAt' = [u \in TaskIds |-> IF rows'[u].status = rows[u].status THEN updatedAt[u] ELSE clock]
    /\ content' = [u \in TaskIds |-> IF Exists(u) THEN content[u] ELSE rows'[u].status # "absent"]
    /\ UNCHANGED << clock, deletions, prune >>

clockStep ==
    /\ Tick
    /\ UNCHANGED own

Next ==
    \/ \E p \in Prunes : pruneExpiredTaskContent(p) \/ pruneEnds(p)
    \/ \E p \in Prunes, t \in TaskIds : pruneOne(p, t) \/ pruneFails(p, t)
    \/ \E t \in TaskIds : taskStep(t)
    \/ clockStep

Spec == Init /\ [][Next]_vars
-----------------------------------------------------------------------------
(* Content outlives its task by the whole dispute window, however runs     *)
(* overlap, fail or repeat a stale selection; what is gone is in the log   *)
(* once, and nothing is logged that is still there.                        *)
PruningDue ==
    \A t \in TaskIds :
          /\ content[t] /\ ~ content'[t] =>
               /\ rows[t].status \in {"completed", "expired"} /\ rows'[t] = rows[t]
               /\ clock >= updatedAt[t] + DISPUTE_WINDOW_SECONDS
          /\ deletions'[t] = (IF Exists(t) /\ ~ content'[t] THEN 1 ELSE 0)
=============================================================================
