------------------------------- MODULE TaskTable -------------------------------
(***************************************************************************)
(* lib/db/tasks.ts: the tasks table and the statements that touch it.      *)
(* PostgREST runs each statement atomically, and nothing holds a lock or a *)
(* transaction over two of them, so a handler that reads and then writes   *)
(* is two steps.  The modules that extend this one are those handlers.     *)
(*                                                                         *)
(* A statement can fail.  An operator with a parameter "ok" says whether   *)
(* its caller saw it succeed; a write that failed for its caller may still *)
(* have been committed (the answer was lost on the way back).              *)
(***************************************************************************)
EXTENDS Naturals, FiniteSets

CONSTANTS
    TaskIds,      \* the payment_request_ids
    Agents,       \* the wallets that hire
    Workers,      \* the registered wallets that are hired
    Keys,         \* idempotency keys
    NoKey,        \* a row with idempotency_key NULL
    WORKER_CONCURRENCY_CAP,
    IDEMPOTENCY_KEY_TTL,
    MaxClock      \* bound: the wall clock stops here

ASSUME TableAssumption ==
    /\ TaskIds # {} /\ Agents # {} /\ Workers # {}
    /\ NoKey \notin Keys
    /\ WORKER_CONCURRENCY_CAP \in Nat \ {0}
    /\ IDEMPOTENCY_KEY_TTL \in Nat
    /\ MaxClock \in Nat

VARIABLES
    clock,        \* Date.now(), in the unit of the offers' expiry
    rows          \* [TaskIds -> Row]

TaskStatus == { "pending", "accepted", "declined", "lapsed", "active",
                "completed", "disputed", "expired" }

(* Statuses no statement leads out of. *)
Terminal == { "declined", "lapsed", "completed", "expired" }

(* funded is funded_at being set; pinned is accepted_description_hash.     *)
Row == [ status : TaskStatus \cup {"absent"},
         agent : Agents, worker : Workers, key : Keys \cup {NoKey},
         expiry : Nat, createdAt : Nat, funded : BOOLEAN, pinned : BOOLEAN ]

NoRow == [ status |-> "absent",
           agent |-> CHOOSE a \in Agents : TRUE,
           worker |-> CHOOSE w \in Workers : TRUE, key |-> NoKey,
           expiry |-> 0, createdAt |-> 0, funded |-> FALSE, pinned |-> FALSE ]

Exists(t) == rows[t].status # "absent"

TableInit ==
    /\ clock = 0
    /\ rows = [t \in TaskIds |-> NoRow]

Tick ==
    /\ clock < MaxClock
    /\ clock' = clock + 1
-----------------------------------------------------------------------------
(* Reads. *)

(* The caller's task with this key, if it was created inside the window.   *)
findTaskByIdempotencyKey(agent, key) ==
    { t \in TaskIds :
        /\ Exists(t) /\ rows[t].agent = agent /\ rows[t].key = key
        /\ rows[t].createdAt + IDEMPOTENCY_KEY_TTL >= clock }

Committed(w) ==
    { t \in TaskIds : rows[t].worker = w /\ rows[t].status \in {"accepted", "active"} }

countCommittedTasks(w) == Cardinality(Committed(w))
-----------------------------------------------------------------------------
(* Writes.  Every one of them is UPDATE ... WHERE status IN from. *)

(* Mutant: the WHERE clause loses its status. *)
CompareAndSet_Blind(t, from, row, ok) ==
    rows' \in {[rows EXCEPT ![t] = row]} \cup (IF ok THEN {} ELSE {rows})

CompareAndSet(t, from, row, ok) ==
    LET written == [rows EXCEPT ![t] = row]
    IN  IF ok
        THEN rows[t].status \in from /\ rows' = written
        ELSE \/ rows' = rows
             \/ rows[t].status \in from /\ rows' = written

(* Mutants: a worker may withdraw by declining; a lapse takes any booking. *)
VALID_TRANSITIONS_Withdraw ==
    [ pending   |-> {},
      accepted  |-> {"pending"},
      declined  |-> {"pending", "accepted"},
      lapsed    |-> {"pending", "accepted"},
      active    |-> {"accepted"},
      completed |-> {"active", "disputed"},
      disputed  |-> {"active", "pending"},
      expired   |-> {"active", "disputed", "pending", "accepted"} ]

VALID_TRANSITIONS_LapseAny ==
    [VALID_TRANSITIONS_Withdraw EXCEPT
       !.declined = {"pending"}, !.lapsed = {"pending", "accepted", "active"}]

VALID_TRANSITIONS ==
    [ pending   |-> {},
      accepted  |-> {"pending"},
      declined  |-> {"pending"},
      lapsed    |-> {"pending", "accepted"},
      active    |-> {"accepted"},
      completed |-> {"active", "disputed"},
      disputed  |-> {"active", "pending"},
      expired   |-> {"active", "disputed", "pending", "accepted"} ]

updateTaskStatus(t, status, ok) ==
    CompareAndSet(t, VALID_TRANSITIONS[status],
                  [rows[t] EXCEPT !.status = status], ok)

(* Acceptance and the pin of the accepted prose are one statement.  No     *)
(* endpoint edits a brief, so its description guard always matches.        *)
acceptTask(t, ok) ==
    CompareAndSet(t, {"pending"},
                  [rows[t] EXCEPT !.status = "accepted", !.pinned = TRUE], ok)

markTaskFunded(t, ok) ==
    CompareAndSet(t, {"accepted"},
                  [rows[t] EXCEPT !.status = "active", !.funded = TRUE], ok)

PastExpiry(r) == r.status \in {"pending", "accepted"} /\ r.expiry =< clock

(* Best effort: a failure is swallowed and the offers lapse next time.     *)
lapseExpiredOffers ==
    \/ rows' = rows
    \/ rows' = [t \in TaskIds |->
                  IF PastExpiry(rows[t])
                  THEN [rows[t] EXCEPT !.status = "lapsed"] ELSE rows[t]]

(* Migration 021's unique index. *)
KeyTaken(agent, key) ==
    /\ key # NoKey
    /\ \E t \in TaskIds :
         Exists(t) /\ rows[t].agent = agent /\ rows[t].key = key

(* Mutant: no unique index. *)
createTask_NoIndex(t, row) ==
    /\ ~ Exists(t)
    /\ rows' = [rows EXCEPT ![t] = row]

createTask(t, row) ==
    /\ ~ Exists(t)
    /\ ~ KeyTaken(row.agent, row.key)
    /\ rows' = [rows EXCEPT ![t] = row]
=============================================================================
