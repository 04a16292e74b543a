------------------------------ MODULE OfferBooking ------------------------------
(***************************************************************************)
(* Hiring and answering, up to the funding of a task:                      *)
(*   - the request_human_work tool of lib/mcp/server.ts, with              *)
(*     createFundingOffer of lib/payments/funding.ts;                      *)
(*   - respondToOffer of lib/offers.ts.                                    *)
(* Serverless instances run these concurrently.  A call is a record whose  *)
(* pc names the await it stands at; what it read is in its other fields,   *)
(* and may be stale by the time it is used.  A call that has answered      *)
(* stays, so the calls are also the history the properties speak of.       *)
(*                                                                         *)
(* The fresh payment_request_id a hire draws is the hire's own identifier. *)
(***************************************************************************)
EXTENDS TaskTable

CONSTANTS
    Answers,      \* the accept and decline requests
    OfferExpiries \* bound: the offer_expiry_seconds agents ask for

ASSUME ExpiryAssumption == OfferExpiries \subseteq Nat \ {0}

VARIABLES
    hire,         \* [TaskIds -> Hire]
    answer        \* [Answers -> Answer]

vars == << clock, rows, hire, answer >>

Hire == [ pc : {"idle", "lapse", "cap", "insert", "conflict", "done"},
          agent : Agents, worker : Workers, key : Keys \cup {NoKey},
          auto : BOOLEAN,
          reply : {"none", "offered", "replay", "at_capacity", "conflict", "error"},
          task : TaskIds ]

Answer == [ pc : {"idle", "lapse", "read", "count", "accept", "decline",
                  "expire", "done"},
            caller : Workers, decision : {"accept", "decline"},
            task : TaskIds, ok : BOOLEAN ]

TypeOK ==
    /\ clock \in Nat
    /\ rows \in [TaskIds -> Row]
    /\ hire \in [TaskIds -> Hire]
    /\ answer \in [Answers -> Answer]

Init ==
    /\ TableInit
    /\ hire = [t \in TaskIds |->
                 [ pc |-> "idle", agent |-> NoRow.agent, worker |-> NoRow.worker,
                   key |-> NoKey, auto |-> FALSE, reply |-> "none", task |-> t ]]
    /\ answer = [a \in Answers |->
                 [ pc |-> "idle", caller |-> NoRow.worker, decision |-> "accept",
                   task |-> CHOOSE t \in TaskIds : TRUE, ok |-> FALSE ]]
-----------------------------------------------------------------------------
(* request_human_work. *)

hireTo(t, pc)          == hire' = [hire EXCEPT ![t].pc = pc]
hireReplies(t, reply)  == hire' = [hire EXCEPT ![t].pc = "done", ![t].reply = reply]
hireReplays(t, found)  ==
    hire' = [hire EXCEPT ![t].pc = "done", ![t].reply = "replay",
                         ![t].task = CHOOSE u \in found : TRUE]

(* The idempotency lookup comes before everything else.                    *)
requestHumanWork(t, agent, worker, key) ==
    LET found == findTaskByIdempotencyKey(agent, key)
        call  == [hire[t] EXCEPT !.agent = agent, !.worker = worker, !.key = key]
    IN  /\ hire[t].pc = "idle"
        /\ IF key # NoKey /\ found # {}
           THEN hire' = [hire EXCEPT ![t] =
                  [call EXCEPT !.pc = "done", !.reply = "replay",
                               !.task = CHOOSE u \in found : TRUE]]
           ELSE hire' = [hire EXCEPT ![t] = [call EXCEPT !.pc = "lapse"]]
        /\ UNCHANGED << clock, rows, answer >>

(* The worker's channels have been read (auto), then expired offers lapse. *)
hireLapse(t) ==
    /\ hire[t].pc = "lapse"
    /\ lapseExpiredOffers
    /\ \E auto \in BOOLEAN :
         hire' = [hire EXCEPT ![t].pc = IF auto THEN "cap" ELSE "insert",
                              ![t].auto = auto]
    /\ UNCHANGED << clock, answer >>

(* D5 at auto-booking time; then the AWOL check may withdraw the booking.  *)
hireCap(t) ==
    /\ hire[t].pc = "cap"
    /\ IF countCommittedTasks(hire[t].worker) >= WORKER_CONCURRENCY_CAP
       THEN hireReplies(t, "at_capacity")
       ELSE \E auto \in BOOLEAN :
              hire' = [hire EXCEPT ![t].pc = "insert", ![t].auto = auto]
    /\ UNCHANGED << clock, rows, answer >>

(* Mutant: an auto-booked row has no expiry. *)
Offered_NoExpiry(t, seconds) ==
    [ status |-> IF hire[t].auto THEN "accepted" ELSE "pending",
      agent |-> hire[t].agent, worker |-> hire[t].worker, key |-> hire[t].key,
      expiry |-> IF hire[t].auto THEN NoKey ELSE clock + seconds,
      createdAt |-> clock, funded |-> FALSE, pinned |-> hire[t].auto ]

(* createFundingOffer: an auto-booked row is born accepted, and pinned.    *)
Offered(t, seconds) ==
    [ status |-> IF hire[t].auto THEN "accepted" ELSE "pending",
      agent |-> hire[t].agent, worker |-> hire[t].worker, key |-> hire[t].key,
      expiry |-> clock + seconds, createdAt |-> clock,
      funded |-> FALSE, pinned |-> hire[t].auto ]

hireInsert(t) ==
    /\ hire[t].pc = "insert"
    /\ \E seconds \in OfferExpiries : createTask(t, Offered(t, seconds))
    /\ hireReplies(t, "offered") \/ hireReplies(t, "error")
    /\ UNCHANGED << clock, answer >>

(* 23505: another call with this key inserted first.                       *)
hireLost(t) ==
    /\ hire[t].pc = "insert"
    /\ KeyTaken(hire[t].agent, hire[t].key)
    /\ hireTo(t, "conflict")
    /\ UNCHANGED << clock, rows, answer >>

hireConflict(t) ==
    LET found == findTaskByIdempotencyKey(hire[t].agent, hire[t].key)
    IN  /\ hire[t].pc = "conflict"
        /\ IF found # {} THEN hireReplays(t, found) ELSE hireReplies(t, "conflict")
        /\ UNCHANGED << clock, rows, answer >>

(* Rate limit, screening, a bad spec, or a database fault.                 *)
hireFails(t) ==
    /\ hire[t].pc \notin {"idle", "done"}
    /\ hireReplies(t, "error")
    /\ UNCHANGED << clock, rows, answer >>
-----------------------------------------------------------------------------
(* respondToOffer. *)

answerTo(a, pc)     == answer' = [answer EXCEPT ![a].pc = pc]
answerEnds(a, ok)   == answer' = [answer EXCEPT ![a].pc = "done", ![a].ok = ok]

respondToOffer(a, caller, t, decision) ==
    /\ answer[a].pc = "idle"
    /\ lapseExpiredOffers
    /\ answer' = [answer EXCEPT ![a] =
                    [ pc |-> "lapse", caller |-> caller, decision |-> decision,
                      task |-> t, ok |-> FALSE ]]
    /\ UNCHANGED << clock, hire >>

(* getTaskByPaymentId lapses once more before it reads.                    *)
answerLapse(a) ==
    /\ answer[a].pc = "lapse"
    /\ lapseExpiredOffers
    /\ answerTo(a, "read")
    /\ UNCHANGED << clock, hire >>

(* Mutant: any registered worker may answer. *)
answerRead_AnyWorker(a) ==
    LET row == rows[answer[a].task]
    IN  /\ answer[a].pc = "read"
        /\ IF row.status # "pending" THEN answerEnds(a, FALSE)
           ELSE IF row.expiry =< clock THEN answerTo(a, "expire")
           ELSE IF answer[a].decision = "accept" THEN answerTo(a, "count")
           ELSE answerTo(a, "decline")
        /\ UNCHANGED << clock, rows, hire >>

(* 404, 403, 410 or 409; else the decision goes ahead on this reading.     *)
answerRead(a) ==
    LET row == rows[answer[a].task]
    IN  /\ answer[a].pc = "read"
        /\ IF row.status # "pending" \/ row.worker # answer[a].caller
           THEN answerEnds(a, FALSE)
           ELSE IF row.expiry =< clock THEN answerTo(a, "expire")
           ELSE IF answer[a].decision = "accept" THEN answerTo(a, "count")
           ELSE answerTo(a, "decline")
        /\ UNCHANGED << clock, rows, hire >>

answerCount(a) ==
    /\ answer[a].pc = "count"
    /\ IF countCommittedTasks(answer[a].caller) >= WORKER_CONCURRENCY_CAP
       THEN answerEnds(a, FALSE) ELSE answerTo(a, "accept")
    /\ UNCHANGED << clock, rows, hire >>

(* The write the reading led to; a refused or failed one is an error.      *)
answerWrite(a) ==
    LET t == answer[a].task
    IN  /\ \E ok \in BOOLEAN :
             \/ /\ answer[a].pc = "accept"
                /\ acceptTask(t, ok)
                /\ answerEnds(a, ok)
             \/ /\ answer[a].pc = "decline"
                /\ updateTaskStatus(t, "declined", ok)
                /\ answerEnds(a, ok)
             \/ /\ answer[a].pc = "expire"
                /\ updateTaskStatus(t, "lapsed", ok)
                /\ answerEnds(a, FALSE)
        /\ UNCHANGED << clock, hire >>

answerFails(a) ==
    /\ answer[a].pc \in {"read", "count"}
    /\ answerEnds(a, FALSE)
    /\ UNCHANGED << clock, rows, hire >>
-----------------------------------------------------------------------------
(* The rest of the platform, seen through the statements it runs on this   *)
(* table: any reader lapses offers, /api/fund-task activates, the dispute  *)
(* routes and the settlement sync (module SettlementSync) move on.         *)
Elsewhere ==
    /\ \/ lapseExpiredOffers
       \/ \E t \in TaskIds :
            \/ markTaskFunded(t, TRUE)
            \/ updateTaskStatus(t, "disputed", TRUE)
            \/ /\ rows[t].status \in {"active", "disputed"}
               /\ \E s \in {"completed", "expired"} : updateTaskStatus(t, s, TRUE)
    /\ UNCHANGED << clock, hire, answer >>

HireStep(t) ==
    \/ \E agent \in Agents, worker \in Workers, key \in Keys \cup {NoKey} :
         requestHumanWork(t, agent, worker, key)
    \/ hireLapse(t) \/ hireCap(t) \/ hireInsert(t)
    \/ hireLost(t) \/ hireConflict(t) \/ hireFails(t)

AnswerStep(a) ==
    \/ \E caller \in Workers, t \in TaskIds, decision \in {"accept", "decline"} :
         respondToOffer(a, caller, t, decision)
    \/ answerLapse(a) \/ answerRead(a) \/ answerCount(a)
    \/ answerWrite(a) \/ answerFails(a)

Next ==
    \/ \E t \in TaskIds : HireStep(t)
    \/ \E a \in Answers : AnswerStep(a)
    \/ Elsewhere
    \/ Tick /\ UNCHANGED << rows, hire, answer >>

Spec == Init /\ [][Next]_vars
-----------------------------------------------------------------------------
(* Properties. *)

(***************************************************************************)
(* Two hires by one agent with one idempotency key name one task, that     *)
(* agent's own, however they interleave: a retry never yields a second row *)
(* the agent might also fund.  About the lookup, the unique index and the  *)
(* replay after 23505 in request_human_work.                               *)
(***************************************************************************)
OneTaskPerKey ==
    \A h, g \in TaskIds :
        /\ hire[h].reply \in {"offered", "replay"}
        /\ hire[g].reply \in {"offered", "replay"}
        /\ hire[h].agent = hire[g].agent
        /\ hire[h].key = hire[g].key
        /\ hire[h].key # NoKey
        => /\ hire[h].task = hire[g].task
           /\ rows[hire[h].task].agent = hire[h].agent
           /\ rows[hire[h].task].key = hire[h].key

(***************************************************************************)
(* A task that holds a slot of its worker (accepted or active) was booked  *)
(* by that worker: by an accept request of theirs, or because they had     *)
(* pre-authorised it; and its brief is pinned from that moment (ADR-0005   *)
(* D2 and D3, CC-084).                                                     *)
(***************************************************************************)
BookedByConsent ==
    \A t \in TaskIds :
        rows[t].status \in {"accepted", "active"} =>
            /\ rows[t].pinned
            /\ \/ hire[t].auto
               \/ \E a \in Answers :
                    /\ answer[a].pc = "done"
                    /\ answer[a].task = t
                    /\ answer[a].decision = "accept"
                    /\ answer[a].caller = rows[t].worker

(***************************************************************************)
(* An offer is decided once.  At most one answer to it is told it          *)
(* succeeded, and the row agrees with that answer ever after, whichever of *)
(* accept, decline and lapse got to the row first.                         *)
(***************************************************************************)
OneDecision ==
    \A a \in Answers :
        answer[a].ok =>
            /\ \A b \in Answers \ {a} :
                 answer[b].ok => answer[b].task # answer[a].task
            /\ LET row == rows[answer[a].task]
               IN  IF answer[a].decision = "decline"
                   THEN row.status = "declined" /\ ~ row.pinned
                   ELSE row.status \notin {"pending", "declined"} /\ row.pinned

(***************************************************************************)
(* Only an offer whose expiry has passed and that nobody has funded ever   *)
(* lapses, and what has ended stays as it ended: a handler that acts on a  *)
(* stale reading cannot undo a funding, a decline or a settlement.         *)
(***************************************************************************)
LapseSparesFunded ==
    [][\A t \in TaskIds :
         /\ rows[t].status \in Terminal => rows'[t] = rows[t]
         /\ rows[t].status # "lapsed" /\ rows'[t].status = "lapsed" =>
              /\ rows[t].status \in {"pending", "accepted"}
              /\ rows[t].expiry =< clock]_vars

-----------------------------------------------------------------------------
(* What comments and the documentation say, and the code does not do.      *)

(* The D5 cap is structural: no worker ever holds more committed tasks     *)
(* than WORKER_CONCURRENCY_CAP.  (tasks.ts, above the constant.)           *)
CapHolds ==
    \A w \in Workers : countCommittedTasks(w) =< WORKER_CONCURRENCY_CAP

(* A hire whose key already has a row gets that row back, also after the   *)
(* window of the lookup.  (Migration 021.)                                 *)
KeyAlwaysReplays ==
    \A t \in TaskIds : hire[t].reply # "conflict"
=============================================================================
