-------------------------- MODULE OfferBookingProofs --------------------------
(***************************************************************************)
(* Theorems about OfferBooking, for every number of tasks, agents, workers *)
(* and concurrent calls, every cap and every window.                       *)
(*                                                                         *)
(* A step is first reduced to what it may do to one row, one hire and one  *)
(* answer (RowShape, HireShape, AnswerShape); the invariant is then shown  *)
(* to be preserved by the shapes.                                          *)
(***************************************************************************)
EXTENDS OfferBooking, TLAPS

(* What the calls hold is still true when they use it. *)
HireFirst == \A t \in TaskIds : Exists(t) => hire[t].pc = "done"

Pins ==
    \A t \in TaskIds :
        /\ rows[t].status = "pending" => ~ rows[t].pinned
        /\ rows[t].status \in {"accepted", "active"} => rows[t].pinned

Asked(a) ==
    LET row == rows[answer[a].task]
    IN  /\ answer[a].pc \in {"count", "accept", "decline", "expire"} =>
             row.status # "absent" /\ row.worker = answer[a].caller
        /\ answer[a].pc \in {"count", "accept"} => answer[a].decision = "accept"
        /\ answer[a].pc = "decline" => answer[a].decision = "decline"
        /\ answer[a].pc = "expire" => row.expiry =< clock
        /\ answer[a].pc # "done" => ~ answer[a].ok
        /\ answer[a].ok => row.status # "absent"

IInv ==
    /\ TypeOK
    /\ HireFirst
    /\ Pins
    /\ \A a \in Answers : Asked(a)
    /\ BookedByConsent
    /\ OneDecision
-----------------------------------------------------------------------------
(* The shapes of a step. *)

Born(t) ==
    /\ ~ Exists(t)
    /\ hire[t].pc = "insert" /\ hire'[t].pc = "done" /\ hire'[t].auto = hire[t].auto
    /\ rows'[t].status = IF hire[t].auto THEN "accepted" ELSE "pending"
    /\ rows'[t].pinned = hire[t].auto

AcceptedBy(t, a) ==
    /\ rows[t].status = "pending"
    /\ rows'[t] = [rows[t] EXCEPT !.status = "accepted", !.pinned = TRUE]
    /\ answer[a].pc = "accept" /\ answer[a].task = t
    /\ answer'[a].pc = "done" /\ answer'[a].task = t
    /\ answer'[a].decision = answer[a].decision
    /\ answer'[a].caller = answer[a].caller

Funded(t) ==
    /\ rows[t].status = "accepted"
    /\ rows'[t] = [rows[t] EXCEPT !.status = "active", !.funded = TRUE]

Moved(t, s) ==
    /\ rows[t].status \in VALID_TRANSITIONS[s]
    /\ rows'[t] = [rows[t] EXCEPT !.status = s]
    /\ s = "lapsed" => rows[t].expiry =< clock

Later == {"declined", "lapsed", "completed", "disputed", "expired"}

RowShape(t) ==
    \/ rows'[t] = rows[t]
    \/ Born(t)
    \/ \E a \in Answers : AcceptedBy(t, a)
    \/ Funded(t)
    \/ \E s \in Later : Moved(t, s)

HireShape(t) ==
    \/ hire'[t] = hire[t]
    \/ /\ hire[t].pc # "done"
       /\ hire[t].pc = "insert" => hire'[t].auto = hire[t].auto

(* An answer that is not yet done goes back to waiting, or ends in vain.   *)
Idles(a) ==
    /\ answer[a].pc # "done"
    /\ answer'[a].pc \in {"lapse", "read", "done"}
    /\ answer'[a].ok => answer[a].ok

Reads(a) ==
    LET row == rows[answer[a].task]
    IN  /\ answer[a].pc = "read" /\ rows' = rows
        /\ row.status = "pending" /\ row.worker = answer[a].caller
        /\ \E pc \in {"count", "decline", "expire"} :
             /\ answer'[a] = [answer[a] EXCEPT !.pc = pc]
             /\ pc = "count" => answer[a].decision = "accept"
             /\ pc = "decline" => answer[a].decision = "decline"
             /\ pc = "expire" => row.expiry =< clock

Counts(a) ==
    /\ answer[a].pc = "count" /\ rows' = rows
    /\ answer'[a] = [answer[a] EXCEPT !.pc = "accept"]

Succeeds(a) ==
    LET t == answer[a].task
    IN  /\ answer'[a] = [answer[a] EXCEPT !.pc = "done", !.ok = TRUE]
        /\ rows[t].status = "pending"
        /\ \/ /\ answer[a].pc = "accept"
              /\ rows'[t] = [rows[t] EXCEPT !.status = "accepted", !.pinned = TRUE]
           \/ /\ answer[a].pc = "decline"
              /\ rows'[t] = [rows[t] EXCEPT !.status = "declined"]
        /\ \A b \in Answers \ {a} : answer'[b] = answer[b]

AnswerShape(a) ==
    answer'[a] = answer[a] \/ Idles(a) \/ Reads(a) \/ Counts(a) \/ Succeeds(a)

Shapes ==
    /\ \A t \in TaskIds : RowShape(t) /\ HireShape(t)
    /\ \A a \in Answers : AnswerShape(a)

-----------------------------------------------------------------------------
(* What the statements of the table do to its rows. *)

(* The row that stands for no row is well typed. *)
LEMMA NoRowType == NoRow \in Row
<1>1. (CHOOSE a \in Agents : TRUE) \in Agents
  BY TableAssumption, Zenon
<1>2. (CHOOSE w \in Workers : TRUE) \in Workers
  BY TableAssumption, Zenon
<1> QED  BY <1>1, <1>2 DEF NoRow, Row

(* Lapsing changes only offers past their expiry. *)
LEMMA LapseRows ==
    ASSUME TypeOK, lapseExpiredOffers
    PROVE  /\ rows' \in [TaskIds -> Row]
           /\ \A t \in TaskIds : rows'[t] = rows[t] \/ Moved(t, "lapsed")
<1>1. CASE rows' = rows
  BY <1>1 DEF TypeOK
<1>2. CASE rows' = [t \in TaskIds |->
                      IF PastExpiry(rows[t])
                      THEN [rows[t] EXCEPT !.status = "lapsed"] ELSE rows[t]]
  <2>1. ASSUME NEW t \in TaskIds
        PROVE  [rows[t] EXCEPT !.status = "lapsed"] \in Row
    BY DEF TypeOK, Row, TaskStatus
  <2>2. rows' \in [TaskIds -> Row]
    BY <1>2, <2>1 DEF TypeOK
  <2>3. \A t \in TaskIds : rows'[t] = rows[t] \/ Moved(t, "lapsed")
    BY <1>2 DEF PastExpiry, Moved, VALID_TRANSITIONS
  <2> QED  BY <2>2, <2>3
<1> QED  BY <1>1, <1>2 DEF lapseExpiredOffers

(* The three guarded writes, in the terms of the shapes. *)
LEMMA WriteRows ==
    ASSUME TypeOK, NEW t \in TaskIds, NEW ok \in BOOLEAN
    PROVE  /\ acceptTask(t, ok) =>
               /\ rows' \in [TaskIds -> Row]
               /\ \A u \in TaskIds \ {t} : rows'[u] = rows[u]
               /\ \/ rows' = rows /\ ~ ok
                  \/ /\ rows[t].status = "pending"
                     /\ rows'[t] = [rows[t] EXCEPT !.status = "accepted",
                                                   !.pinned = TRUE]
           /\ markTaskFunded(t, ok) =>
               /\ rows' \in [TaskIds -> Row]
               /\ \A u \in TaskIds \ {t} : rows'[u] = rows[u]
               /\ rows' = rows \/ Funded(t)
           /\ \A s \in Later : updateTaskStatus(t, s, ok) =>
               /\ rows' \in [TaskIds -> Row]
               /\ \A u \in TaskIds \ {t} : rows'[u] = rows[u]
               /\ \/ rows' = rows /\ ~ ok
                  \/ /\ rows[t].status \in VALID_TRANSITIONS[s]
                     /\ rows'[t] = [rows[t] EXCEPT !.status = s]
<1>1. /\ [rows[t] EXCEPT !.status = "accepted", !.pinned = TRUE] \in Row
      /\ [rows[t] EXCEPT !.status = "active", !.funded = TRUE] \in Row
      /\ \A s \in Later : [rows[t] EXCEPT !.status = s] \in Row
  BY DEF TypeOK, Row, TaskStatus, Later
<1>2. ASSUME acceptTask(t, ok)
      PROVE  /\ rows' \in [TaskIds -> Row]
             /\ \A u \in TaskIds \ {t} : rows'[u] = rows[u]
             /\ \/ rows' = rows /\ ~ ok
                \/ /\ rows[t].status = "pending"
                   /\ rows'[t] = [rows[t] EXCEPT !.status = "accepted",
                                                 !.pinned = TRUE]
  BY <1>1, <1>2 DEF acceptTask, CompareAndSet, TypeOK
<1>3. ASSUME markTaskFunded(t, ok)
      PROVE  /\ rows' \in [TaskIds -> Row]
             /\ \A u \in TaskIds \ {t} : rows'[u] = rows[u]
             /\ rows' = rows \/ Funded(t)
  BY <1>1, <1>3 DEF markTaskFunded, Funded, CompareAndSet, TypeOK
<1>4. ASSUME NEW s \in Later, updateTaskStatus(t, s, ok)
      PROVE  /\ rows' \in [TaskIds -> Row]
             /\ \A u \in TaskIds \ {t} : rows'[u] = rows[u]
             /\ \/ rows' = rows /\ ~ ok
                \/ /\ rows[t].status \in VALID_TRANSITIONS[s]
                   /\ rows'[t] = [rows[t] EXCEPT !.status = s]
  <2>1. [rows[t] EXCEPT !.status = s] \in Row
    BY <1>1
  <2> QED  BY <1>4, <2>1 DEF updateTaskStatus, CompareAndSet, TypeOK
<1> QED  BY <1>2, <1>3, <1>4
-----------------------------------------------------------------------------
(* Every step keeps the types and has the shapes. *)

(* The records a hire moves through are well typed. *)
LEMMA HireEdits ==
    ASSUME NEW f \in Hire
    PROVE  /\ \A pc \in {"lapse", "conflict"} : [f EXCEPT !.pc = pc] \in Hire
           /\ \A g \in Agents, w \in Workers, k \in Keys \cup {NoKey} :
                [f EXCEPT !.agent = g, !.worker = w, !.key = k] \in Hire
           /\ \A pc \in {"cap", "insert"}, auto \in BOOLEAN :
                [f EXCEPT !.pc = pc, !.auto = auto] \in Hire
           /\ \A r \in {"offered", "at_capacity", "conflict", "error"} :
                [f EXCEPT !.pc = "done", !.reply = r] \in Hire
           /\ \A u \in TaskIds :
                [f EXCEPT !.pc = "done", !.reply = "replay", !.task = u] \in Hire
<1>1. \A pc \in {"lapse", "conflict"} : [f EXCEPT !.pc = pc] \in Hire
  BY DEF Hire
<1>2. \A g \in Agents, w \in Workers, k \in Keys \cup {NoKey} :
         [f EXCEPT !.agent = g, !.worker = w, !.key = k] \in Hire
  BY DEF Hire
<1>3. \A pc \in {"cap", "insert"}, auto \in BOOLEAN :
         [f EXCEPT !.pc = pc, !.auto = auto] \in Hire
  BY DEF Hire
<1>4. \A r \in {"offered", "at_capacity", "conflict", "error"} :
         [f EXCEPT !.pc = "done", !.reply = r] \in Hire
  BY DEF Hire
<1>5. \A u \in TaskIds :
         [f EXCEPT !.pc = "done", !.reply = "replay", !.task = u] \in Hire
  BY DEF Hire
<1> QED  BY <1>1, <1>2, <1>3, <1>4, <1>5

(* The steps of a hire. *)
LEMMA HireShapes ==
    ASSUME TypeOK, NEW h \in TaskIds, HireStep(h)
    PROVE  TypeOK' /\ Shapes /\ clock' = clock
<1> DEFINE HireMoves == hire' \in [TaskIds -> Hire] /\ \A t \in TaskIds : HireShape(t)
<1>1. hire \in [TaskIds -> Hire] /\ hire[h] \in Hire
  BY DEF TypeOK
<1>2. ASSUME HireMoves, UNCHANGED << clock, rows, answer >>
      PROVE  TypeOK' /\ Shapes /\ clock' = clock
  BY <1>2 DEF TypeOK, Shapes, RowShape, AnswerShape
<1>3. ASSUME HireMoves, UNCHANGED << clock, answer >>,
             rows' \in [TaskIds -> Row], \A t \in TaskIds : RowShape(t)
      PROVE  TypeOK' /\ Shapes /\ clock' = clock
  BY <1>3 DEF TypeOK, Shapes, AnswerShape
<1>4. ASSUME NEW agent \in Agents, NEW worker \in Workers,
             NEW key \in Keys \cup {NoKey}, requestHumanWork(h, agent, worker, key)
      PROVE  TypeOK' /\ Shapes /\ clock' = clock
  <2> DEFINE found == findTaskByIdempotencyKey(agent, key)
             call  == [hire[h] EXCEPT !.agent = agent, !.worker = worker, !.key = key]
  <2>1. hire[h].pc = "idle" /\ UNCHANGED << clock, rows, answer >>
    BY <1>4 DEF requestHumanWork
  <2>2. call \in Hire
    BY <1>1, HireEdits
  <2> HIDE DEF call
  <2>3. PICK f \in Hire : hire' = [hire EXCEPT ![h] = f]
    <3>1. CASE key # NoKey /\ found # {}
      <4>1. (CHOOSE u \in found : TRUE) \in found
        BY <3>1, Zenon
      <4>2. PICK u \in TaskIds :
              hire' = [hire EXCEPT ![h] =
                         [call EXCEPT !.pc = "done", !.reply = "replay", !.task = u]]
        BY <1>4, <3>1, <4>1 DEF requestHumanWork, findTaskByIdempotencyKey, call
      <4> QED  BY <2>2, <4>2, HireEdits
    <3>2. CASE ~ (key # NoKey /\ found # {})
      <4>1. hire' = [hire EXCEPT ![h] = [call EXCEPT !.pc = "lapse"]]
        BY <1>4, <3>2 DEF requestHumanWork, call
      <4> QED  BY <2>2, <4>1, HireEdits
    <3> QED  BY <3>1, <3>2
  <2>4. HireMoves
    BY <1>1, <2>1, <2>3 DEF HireShape
  <2> QED  BY <1>2, <2>1, <2>4
<1>5. CASE hireLapse(h)
  <2>1. hire[h].pc = "lapse" /\ lapseExpiredOffers /\ UNCHANGED << clock, answer >>
    BY <1>5 DEF hireLapse
  <2>2. PICK pc \in {"cap", "insert"}, auto \in BOOLEAN :
           hire' = [hire EXCEPT ![h] = [hire[h] EXCEPT !.pc = pc, !.auto = auto]]
    BY <1>1, <1>5 DEF hireLapse
  <2>3. HireMoves
    BY <1>1, <2>1, <2>2, HireEdits DEF HireShape
  <2>4. rows' \in [TaskIds -> Row] /\ \A t \in TaskIds : RowShape(t)
    BY <2>1, LapseRows DEF RowShape, Later
  <2> QED  BY <1>3, <2>1, <2>3, <2>4
<1>6. CASE hireCap(h)
  <2>1. hire[h].pc = "cap" /\ UNCHANGED << clock, rows, answer >>
    BY <1>6 DEF hireCap
  <2>2. \/ hire' = [hire EXCEPT ![h] = [hire[h] EXCEPT !.pc = "done",
                                                      !.reply = "at_capacity"]]
        \/ \E auto \in BOOLEAN :
             hire' = [hire EXCEPT ![h] = [hire[h] EXCEPT !.pc = "insert",
                                                         !.auto = auto]]
    BY <1>1, <1>6 DEF hireCap, hireReplies
  <2>3. HireMoves
    BY <1>1, <2>1, <2>2, HireEdits DEF HireShape
  <2> QED  BY <1>2, <2>1, <2>3
<1>7. CASE hireInsert(h)
  <2>1. PICK seconds \in OfferExpiries : createTask(h, Offered(h, seconds))
    BY <1>7 DEF hireInsert
  <2>2. Offered(h, seconds) \in Row
    BY <1>1, ExpiryAssumption DEF Offered, Row, TaskStatus, Hire, TypeOK
  <2>3. /\ hire[h].pc = "insert" /\ ~ Exists(h)
        /\ rows' = [rows EXCEPT ![h] = Offered(h, seconds)]
        /\ UNCHANGED << clock, answer >>
    BY <1>7, <2>1 DEF hireInsert, createTask
  <2>4. PICK r \in {"offered", "error"} :
           hire' = [hire EXCEPT ![h] = [hire[h] EXCEPT !.pc = "done", !.reply = r]]
    BY <1>1, <1>7 DEF hireInsert, hireReplies
  <2>5. /\ HireMoves
        /\ hire'[h].pc = "done" /\ hire'[h].auto = hire[h].auto
    <3>1. [hire[h] EXCEPT !.pc = "done", !.reply = r] \in Hire
      BY <1>1, HireEdits
    <3>2. hire'[h].pc = "done" /\ hire'[h].auto = hire[h].auto
      BY <1>1, <2>4 DEF Hire
    <3> QED  BY <1>1, <2>3, <2>4, <3>1, <3>2 DEF HireShape
  <2>6. Born(h)
    BY <2>3, <2>5 DEF Born, Offered, TypeOK
  <2>7. rows' \in [TaskIds -> Row] /\ \A t \in TaskIds : RowShape(t)
    BY <2>2, <2>3, <2>6 DEF RowShape, TypeOK
  <2> QED  BY <1>3, <2>3, <2>5, <2>7
<1>8. CASE hireLost(h) \/ hireFails(h)
  <2>1. hire[h].pc # "done" /\ UNCHANGED << clock, rows, answer >>
    BY <1>8 DEF hireLost, hireFails
  <2>2. \/ hire' = [hire EXCEPT ![h] = [hire[h] EXCEPT !.pc = "conflict"]]
        \/ hire' = [hire EXCEPT ![h] = [hire[h] EXCEPT !.pc = "done",
                                                      !.reply = "error"]]
    BY <1>1, <1>8 DEF hireLost, hireFails, hireTo, hireReplies
  <2>3. /\ [hire[h] EXCEPT !.pc = "conflict"] \in Hire
        /\ [hire[h] EXCEPT !.pc = "done", !.reply = "error"] \in Hire
    BY <1>1, HireEdits
  <2>4. hire' \in [TaskIds -> Hire]
    BY <1>1, <2>2, <2>3
  <2>5. hire'[h].auto = hire[h].auto
    <3>1. /\ [hire[h] EXCEPT !.pc = "conflict"].auto = hire[h].auto
          /\ [hire[h] EXCEPT !.pc = "done", !.reply = "error"].auto = hire[h].auto
      BY <1>1 DEF Hire
    <3>2. \/ hire'[h] = [hire[h] EXCEPT !.pc = "conflict"]
          \/ hire'[h] = [hire[h] EXCEPT !.pc = "done", !.reply = "error"]
      BY <1>1, <2>2
    <3> QED  BY <3>1, <3>2
  <2>6. HireMoves
    BY <1>1, <2>1, <2>2, <2>4, <2>5 DEF HireShape
  <2> QED  BY <1>2, <2>1, <2>6
<1>9. CASE hireConflict(h)
  <2> DEFINE found == findTaskByIdempotencyKey(hire[h].agent, hire[h].key)
  <2>1. hire[h].pc = "conflict" /\ UNCHANGED << clock, rows, answer >>
    BY <1>9 DEF hireConflict
  <2>2. PICK f \in Hire : hire' = [hire EXCEPT ![h] = f]
    <3>1. CASE found # {}
      <4>1. (CHOOSE u \in found : TRUE) \in found
        BY <3>1, Zenon
      <4>2. PICK u \in TaskIds :
              hire' = [hire EXCEPT ![h] = [hire[h] EXCEPT !.pc = "done",
                                             !.reply = "replay", !.task = u]]
        BY <1>1, <1>9, <3>1, <4>1
           DEF hireConflict, hireReplays, findTaskByIdempotencyKey
      <4> QED  BY <1>1, <4>2, HireEdits
    <3>2. CASE found = {}
      <4>1. hire' = [hire EXCEPT ![h] = [hire[h] EXCEPT !.pc = "done",
                                                        !.reply = "conflict"]]
        BY <1>1, <1>9, <3>2 DEF hireConflict, hireReplies
      <4> QED  BY <1>1, <4>1, HireEdits
    <3> QED  BY <3>1, <3>2
  <2>3. HireMoves
    BY <1>1, <2>1, <2>2 DEF HireShape
  <2> QED  BY <1>2, <2>1, <2>3
<1> QED  BY <1>4, <1>5, <1>6, <1>7, <1>8, <1>9 DEF HireStep

(* The records an answer moves through are well typed. *)
LEMMA AnswerEdits ==
    ASSUME NEW f \in Answer
    PROVE  /\ \A pc \in {"read", "count", "accept", "decline", "expire"} :
                [f EXCEPT !.pc = pc] \in Answer
           /\ \A ok \in BOOLEAN : [f EXCEPT !.pc = "done", !.ok = ok] \in Answer
<1>1. \A pc \in {"read", "count", "accept", "decline", "expire"} :
         [f EXCEPT !.pc = pc] \in Answer
  BY DEF Answer
<1>2. \A ok \in BOOLEAN : [f EXCEPT !.pc = "done", !.ok = ok] \in Answer
  BY DEF Answer
<1> QED  BY <1>1, <1>2

(* The steps of an answer. *)
LEMMA AnswerShapes ==
    ASSUME TypeOK, NEW a \in Answers, Asked(a), AnswerStep(a)
    PROVE  TypeOK' /\ Shapes /\ clock' = clock
<1>1. /\ answer \in [Answers -> Answer] /\ answer[a] \in Answer
      /\ answer[a].task \in TaskIds
  BY DEF TypeOK, Answer
<1>2. ASSUME NEW f \in Answer, answer' = [answer EXCEPT ![a] = f], AnswerShape(a),
             UNCHANGED << clock, hire >>,
             rows' \in [TaskIds -> Row], \A t \in TaskIds : RowShape(t)
      PROVE  TypeOK' /\ Shapes /\ clock' = clock
  <2>1. answer' \in [Answers -> Answer] /\ \A b \in Answers : AnswerShape(b)
    BY <1>1, <1>2 DEF AnswerShape
  <2> QED  BY <1>2, <2>1 DEF TypeOK, Shapes, HireShape
<1>3. rows' = rows => rows' \in [TaskIds -> Row] /\ \A t \in TaskIds : RowShape(t)
  BY DEF TypeOK, RowShape
<1>4. ASSUME NEW caller \in Workers, NEW t \in TaskIds,
             NEW decision \in {"accept", "decline"},
             respondToOffer(a, caller, t, decision)
      PROVE  TypeOK' /\ Shapes /\ clock' = clock
  <2> DEFINE f == [ pc |-> "lapse", caller |-> caller, decision |-> decision,
                    task |-> t, ok |-> FALSE ]
  <2>1. f \in Answer
    BY DEF Answer
  <2>2. /\ answer[a].pc = "idle" /\ lapseExpiredOffers
        /\ answer' = [answer EXCEPT ![a] = f] /\ UNCHANGED << clock, hire >>
    BY <1>4 DEF respondToOffer
  <2>3. AnswerShape(a)
    BY <1>1, <2>2 DEF AnswerShape, Idles
  <2>4. rows' \in [TaskIds -> Row] /\ \A u \in TaskIds : RowShape(u)
    BY <2>2, LapseRows DEF RowShape, Later
  <2> HIDE DEF f
  <2> QED  BY <1>2, <2>1, <2>2, <2>3, <2>4
<1>5. CASE answerLapse(a)
  <2> DEFINE f == [answer[a] EXCEPT !.pc = "read"]
  <2>1. f \in Answer
    BY <1>1, AnswerEdits
  <2>2. /\ answer[a].pc = "lapse" /\ lapseExpiredOffers
        /\ answer' = [answer EXCEPT ![a] = f] /\ UNCHANGED << clock, hire >>
    BY <1>1, <1>5 DEF answerLapse, answerTo
  <2>3. AnswerShape(a)
    BY <1>1, <2>2 DEF AnswerShape, Idles, Answer
  <2>4. rows' \in [TaskIds -> Row] /\ \A u \in TaskIds : RowShape(u)
    BY <2>2, LapseRows DEF RowShape, Later
  <2> HIDE DEF f
  <2> QED  BY <1>2, <2>1, <2>2, <2>3, <2>4
<1>6. CASE answerRead(a) \/ answerCount(a) \/ answerFails(a)
  <2>1. UNCHANGED << clock, rows, hire >>
    BY <1>6 DEF answerRead, answerCount, answerFails
  <2>2. PICK f \in Answer : answer' = [answer EXCEPT ![a] = f]
    BY <1>1, <1>6, AnswerEdits DEF answerRead, answerCount, answerFails, answerTo, answerEnds
  <2>3. AnswerShape(a)
    <3>1. CASE answerRead(a)
      <4> DEFINE row == rows[answer[a].task]
      <4>1. answer[a].pc = "read"
        BY <3>1 DEF answerRead
      <4>2. CASE row.status # "pending" \/ row.worker # answer[a].caller
        <5>1. answer' = [answer EXCEPT ![a].pc = "done", ![a].ok = FALSE]
          BY <3>1, <4>2 DEF answerRead, answerEnds
        <5> QED  BY <1>1, <4>1, <5>1 DEF AnswerShape, Idles, Answer
      <4>3. CASE ~ (row.status # "pending" \/ row.worker # answer[a].caller)
        <5>1. PICK pc \in {"count", "decline", "expire"} :
                /\ answer' = [answer EXCEPT ![a] = [answer[a] EXCEPT !.pc = pc]]
                /\ pc = "count" => answer[a].decision = "accept"
                /\ pc = "decline" => answer[a].decision = "decline"
                /\ pc = "expire" => row.expiry =< clock
          BY <1>1, <3>1, <4>3 DEF answerRead, answerTo, Answer
        <5>2. answer'[a] = [answer[a] EXCEPT !.pc = pc]
          BY <1>1, <5>1
        <5> QED  BY <2>1, <4>1, <4>3, <5>1, <5>2 DEF AnswerShape, Reads
      <4> QED  BY <4>2, <4>3
    <3>2. CASE answerCount(a)
      BY <1>1, <2>1, <3>2 DEF answerCount, answerTo, answerEnds, AnswerShape, Idles,
                              Counts, Answer
    <3>3. CASE answerFails(a)
      BY <1>1, <3>3 DEF answerFails, answerEnds, AnswerShape, Idles, Answer
    <3> QED  BY <1>6, <3>1, <3>2, <3>3
  <2> QED  BY <1>2, <1>3, <2>1, <2>2, <2>3
<1>7. CASE answerWrite(a)
  <2> DEFINE t == answer[a].task
             End(ok) == answer' = [answer EXCEPT ![a] =
                                     [answer[a] EXCEPT !.pc = "done", !.ok = ok]]
  <2>1. UNCHANGED << clock, hire >> /\ answer[a].pc \in {"accept", "decline", "expire"}
    BY <1>7 DEF answerWrite
  <2>2. ASSUME NEW ok \in BOOLEAN, End(ok), ~ ok
        PROVE  AnswerShape(a)
    BY <1>1, <2>1, <2>2 DEF AnswerShape, Idles, Answer
  <2>3. ASSUME NEW ok \in BOOLEAN, End(ok)
        PROVE  \E f \in Answer : answer' = [answer EXCEPT ![a] = f]
    BY <1>1, <2>3, AnswerEdits
  <2>4. PICK ok \in BOOLEAN :
          \/ answer[a].pc = "accept" /\ acceptTask(t, ok) /\ End(ok)
          \/ /\ answer[a].pc = "decline" /\ updateTaskStatus(t, "declined", ok)
             /\ End(ok)
          \/ /\ answer[a].pc = "expire" /\ updateTaskStatus(t, "lapsed", ok)
             /\ End(FALSE)
    BY <1>1, <1>7 DEF answerWrite, answerEnds
  <2>5. CASE answer[a].pc = "accept" /\ acceptTask(t, ok) /\ End(ok)
    <3>1. /\ rows' \in [TaskIds -> Row]
          /\ \A u \in TaskIds \ {t} : rows'[u] = rows[u]
          /\ \/ rows' = rows /\ ~ ok
             \/ /\ rows[t].status = "pending"
                /\ rows'[t] = [rows[t] EXCEPT !.status = "accepted", !.pinned = TRUE]
      BY <1>1, <2>5, WriteRows
    <3>2. /\ answer'[a].pc = "done" /\ answer'[a].task = t
          /\ answer'[a].decision = answer[a].decision
          /\ answer'[a].caller = answer[a].caller
      BY <1>1, <2>5 DEF Answer
    <3>3. \A u \in TaskIds : RowShape(u)
      BY <2>5, <3>1, <3>2 DEF RowShape, AcceptedBy
    <3>4. AnswerShape(a)
      <4>1. CASE ~ ok
        BY <2>2, <2>5, <4>1
      <4>2. CASE ok
        <5>1. /\ answer'[a] = [answer[a] EXCEPT !.pc = "done", !.ok = TRUE]
              /\ \A b \in Answers \ {a} : answer'[b] = answer[b]
          BY <1>1, <2>5, <4>2
        <5> QED  BY <2>5, <3>1, <4>2, <5>1 DEF AnswerShape, Succeeds
      <4> QED  BY <4>1, <4>2
    <3> QED  BY <1>2, <2>1, <2>3, <2>5, <3>1, <3>3, <3>4
  <2>6. CASE /\ answer[a].pc = "decline" /\ updateTaskStatus(t, "declined", ok)
             /\ End(ok)
    <3>1. /\ rows' \in [TaskIds -> Row]
          /\ \A u \in TaskIds \ {t} : rows'[u] = rows[u]
          /\ \/ rows' = rows /\ ~ ok
             \/ /\ rows[t].status \in VALID_TRANSITIONS["declined"]
                /\ rows'[t] = [rows[t] EXCEPT !.status = "declined"]
      BY <1>1, <2>6, WriteRows DEF Later
    <3>2. VALID_TRANSITIONS["declined"] = {"pending"}
      BY DEF VALID_TRANSITIONS
    <3>3. \A u \in TaskIds : RowShape(u)
      BY <3>1 DEF RowShape, Moved, Later
    <3>4. AnswerShape(a)
      <4>1. CASE ~ ok
        BY <2>2, <2>6, <4>1
      <4>2. CASE ok
        <5>1. /\ answer'[a] = [answer[a] EXCEPT !.pc = "done", !.ok = TRUE]
              /\ \A b \in Answers \ {a} : answer'[b] = answer[b]
          BY <1>1, <2>6, <4>2
        <5> QED  BY <2>6, <3>1, <3>2, <4>2, <5>1 DEF AnswerShape, Succeeds
      <4> QED  BY <4>1, <4>2
    <3> QED  BY <1>2, <2>1, <2>3, <2>6, <3>1, <3>3, <3>4
  <2>7. CASE /\ answer[a].pc = "expire" /\ updateTaskStatus(t, "lapsed", ok)
             /\ End(FALSE)
    <3>1. /\ rows' \in [TaskIds -> Row]
          /\ \A u \in TaskIds \ {t} : rows'[u] = rows[u]
          /\ \/ rows' = rows /\ ~ ok
             \/ /\ rows[t].status \in VALID_TRANSITIONS["lapsed"]
                /\ rows'[t] = [rows[t] EXCEPT !.status = "lapsed"]
      BY <1>1, <2>7, WriteRows DEF Later
    <3>2. rows[t].expiry =< clock
      BY <2>7 DEF Asked
    <3>3. \A u \in TaskIds : RowShape(u)
      BY <3>1, <3>2 DEF RowShape, Moved, Later
    <3>4. AnswerShape(a)
      BY <2>2, <2>7
    <3> QED  BY <1>2, <2>1, <2>3, <2>7, <3>1, <3>3, <3>4
  <2> QED  BY <2>4, <2>5, <2>6, <2>7
<1> QED  BY <1>4, <1>5, <1>6, <1>7 DEF AnswerStep

(* The steps of the rest of the platform. *)
LEMMA ElsewhereShapes ==
    ASSUME TypeOK, Elsewhere
    PROVE  TypeOK' /\ Shapes /\ clock' = clock
<1>1. UNCHANGED << clock, hire, answer >>
  BY DEF Elsewhere
<1>2. ASSUME rows' \in [TaskIds -> Row], \A t \in TaskIds : RowShape(t)
      PROVE  TypeOK' /\ Shapes /\ clock' = clock
  BY <1>1, <1>2 DEF TypeOK, Shapes, HireShape, AnswerShape
<1>3. CASE lapseExpiredOffers
  BY <1>2, <1>3, LapseRows DEF RowShape, Later
<1>4. ASSUME NEW t \in TaskIds, markTaskFunded(t, TRUE)
      PROVE  TypeOK' /\ Shapes /\ clock' = clock
  <2>1. /\ rows' \in [TaskIds -> Row]
        /\ \A u \in TaskIds \ {t} : rows'[u] = rows[u]
        /\ rows' = rows \/ Funded(t)
    BY <1>4, WriteRows
  <2> QED  BY <1>2, <2>1 DEF RowShape
<1>5. ASSUME NEW t \in TaskIds, NEW s \in {"disputed", "completed", "expired"},
             updateTaskStatus(t, s, TRUE)
      PROVE  TypeOK' /\ Shapes /\ clock' = clock
  <2>1. s \in Later
    BY DEF Later
  <2>2. /\ rows' \in [TaskIds -> Row]
        /\ \A u \in TaskIds \ {t} : rows'[u] = rows[u]
        /\ rows[t].status \in VALID_TRANSITIONS[s]
        /\ rows'[t] = [rows[t] EXCEPT !.status = s]
    BY <1>5, <2>1, WriteRows
  <2>3. Moved(t, s)
    BY <2>2 DEF Moved
  <2> QED  BY <1>2, <2>1, <2>2, <2>3 DEF RowShape
<1> QED  BY <1>3, <1>4, <1>5 DEF Elsewhere

(* Every step of the specification. *)
LEMMA StepShapes ==
    ASSUME TypeOK, \A a \in Answers : Asked(a), [Next]_vars
    PROVE  TypeOK' /\ Shapes /\ clock =< clock'
<1>1. clock' = clock => clock =< clock'
  BY DEF TypeOK
<1>2. CASE Tick /\ UNCHANGED << rows, hire, answer >>
  BY <1>2 DEF Tick, TypeOK, Shapes, RowShape, HireShape, AnswerShape
<1>3. CASE UNCHANGED vars
  BY <1>3 DEF vars, TypeOK, Shapes, RowShape, HireShape, AnswerShape
<1> QED  BY <1>1, <1>2, <1>3, HireShapes, AnswerShapes, ElsewhereShapes DEF Next
-----------------------------------------------------------------------------
(* The invariant. *)

(* Init establishes it. *)
LEMMA InitInv == Init => IInv
<1> SUFFICES ASSUME Init PROVE IInv
  OBVIOUS
<1>1. NoRow \in Row /\ NoRow.status = "absent" /\ NoRow.agent \in Agents
      /\ NoRow.worker \in Workers
  BY NoRowType DEF NoRow, Row
<1>2. (CHOOSE t \in TaskIds : TRUE) \in TaskIds
  BY TableAssumption, Zenon
<1>3. rows \in [TaskIds -> Row] /\ \A t \in TaskIds : rows[t].status = "absent"
  BY <1>1 DEF Init, TableInit
<1>4. TypeOK
  <2>1. hire \in [TaskIds -> Hire]
    BY <1>1 DEF Init, Hire
  <2>2. answer \in [Answers -> Answer]
    BY <1>1, <1>2 DEF Init, Answer
  <2> QED  BY <1>3, <2>1, <2>2 DEF Init, TableInit, TypeOK
<1>5. \A a \in Answers : answer[a].pc = "idle" /\ ~ answer[a].ok
  BY DEF Init
<1> QED  BY <1>3, <1>4, <1>5 DEF IInv, HireFirst, Exists, Pins, Asked,
                                 BookedByConsent, OneDecision

(* A row, once there, keeps its worker, its expiry and its pin. *)
LEMMA RowsKeep ==
    ASSUME TypeOK, Shapes, NEW t \in TaskIds, Exists(t)
    PROVE  /\ rows'[t].status # "absent"
           /\ rows'[t].worker = rows[t].worker
           /\ rows'[t].expiry = rows[t].expiry
           /\ rows[t].pinned => rows'[t].pinned
           /\ rows[t].status = "declined" => rows'[t] = rows[t]
           /\ rows[t].status \notin {"pending", "declined"} =>
                rows'[t].status \notin {"pending", "declined"}
<1>1. rows[t] \in Row /\ RowShape(t)
  BY DEF TypeOK, Shapes
<1>2. CASE rows'[t] = rows[t]
  BY <1>2 DEF Exists
<1>3. CASE Born(t)
  BY <1>3 DEF Born
<1>4. CASE \E a \in Answers : AcceptedBy(t, a)
  BY <1>1, <1>4 DEF AcceptedBy, Row
<1>5. CASE Funded(t)
  BY <1>1, <1>5 DEF Funded, Row
<1>6. ASSUME NEW s \in Later, Moved(t, s)
      PROVE  /\ rows'[t] = [rows[t] EXCEPT !.status = s]
             /\ rows[t].status # "declined"
             /\ rows[t].status # "pending" => s # "declined"
  BY <1>6 DEF Moved, Later, VALID_TRANSITIONS
<1>7. CASE \E s \in Later : Moved(t, s)
  BY <1>1, <1>6, <1>7 DEF Later, Row
<1> QED  BY <1>1, <1>2, <1>3, <1>4, <1>5, <1>7 DEF RowShape

(* Steps keep it: the calls. *)
LEMMA AskedStep ==
    ASSUME IInv, TypeOK', Shapes, clock =< clock', NEW a \in Answers
    PROVE  Asked(a)'
<1>1. /\ TypeOK /\ Asked(a) /\ answer[a] \in Answer /\ answer[a].task \in TaskIds
      /\ rows[answer[a].task] \in Row
  BY DEF IInv, TypeOK, Answer
<1>2. CASE answer'[a] = answer[a]
  <2>1. CASE rows[answer[a].task].status # "absent"
    <3>1. /\ rows'[answer[a].task].status # "absent"
          /\ rows'[answer[a].task].worker = rows[answer[a].task].worker
          /\ rows'[answer[a].task].expiry = rows[answer[a].task].expiry
      BY <1>1, <2>1, RowsKeep DEF Exists
    <3>2. rows[answer[a].task].expiry =< clock => rows[answer[a].task].expiry =< clock'
      BY <1>1 DEF TypeOK, Row
    <3> QED  BY <1>1, <1>2, <3>1, <3>2 DEF Asked
  <2>2. CASE rows[answer[a].task].status = "absent"
    BY <1>1, <1>2, <2>2 DEF Asked
  <2> QED  BY <2>1, <2>2
<1>3. CASE Idles(a)
  BY <1>1, <1>3 DEF Idles, Asked
<1>4. CASE Reads(a)
  <2>1. rows[answer[a].task].expiry =< clock => rows[answer[a].task].expiry =< clock'
    BY <1>1 DEF TypeOK, Row
  <2> QED  BY <1>1, <1>4, <2>1 DEF Reads, Asked, Answer
<1>5. CASE Counts(a)
  BY <1>1, <1>5 DEF Counts, Asked, Answer
<1>6. CASE Succeeds(a)
  <2>1. rows'[answer[a].task].status # "absent"
    BY <1>1, <1>6, RowsKeep DEF Succeeds, Exists
  <2> QED  BY <1>1, <1>6, <2>1 DEF Succeeds, Asked, Answer
<1> QED  BY <1>2, <1>3, <1>4, <1>5, <1>6 DEF Shapes, AnswerShape

(* Steps keep it: what a row's status says of its hire and of its pin. *)
LEMMA PinsStep ==
    ASSUME IInv, TypeOK', Shapes
    PROVE  HireFirst' /\ Pins'
<1>1. SUFFICES ASSUME NEW t \in TaskIds
               PROVE  /\ Exists(t)' => hire'[t].pc = "done"
                      /\ rows'[t].status = "pending" => ~ rows'[t].pinned
                      /\ rows'[t].status \in {"accepted", "active"} => rows'[t].pinned
  BY DEF HireFirst, Pins
<1>2. /\ rows[t] \in Row /\ RowShape(t) /\ HireShape(t)
      /\ rows[t].status = "pending" => ~ rows[t].pinned
      /\ rows[t].status \in {"accepted", "active"} => rows[t].pinned
      /\ rows[t].status # "absent" => hire[t].pc = "done"
  BY DEF IInv, TypeOK, Shapes, HireFirst, Pins, Exists
<1>3. rows[t].status # "absent" => hire'[t] = hire[t]
  BY <1>2 DEF HireShape
<1>4. CASE rows'[t] = rows[t]
  BY <1>2, <1>3, <1>4 DEF Exists
<1>5. CASE Born(t)
  BY <1>2, <1>5 DEF Born
<1>6. CASE \E a \in Answers : AcceptedBy(t, a)
  BY <1>2, <1>3, <1>6 DEF AcceptedBy, Row
<1>7. CASE Funded(t)
  BY <1>2, <1>3, <1>7 DEF Funded, Row
<1>8. CASE \E s \in Later : Moved(t, s)
  <2>1. PICK s \in Later : Moved(t, s)
    BY <1>8
  <2>2. rows'[t].status = s /\ rows[t].status # "absent"
    BY <1>2, <2>1 DEF Moved, Row, Later, VALID_TRANSITIONS
  <2> QED  BY <1>2, <1>3, <2>2 DEF Later
<1> QED  BY <1>2, <1>4, <1>5, <1>6, <1>7, <1>8 DEF RowShape

(* Steps keep it: who booked. *)
LEMMA BookedStep ==
    ASSUME IInv, TypeOK', Shapes, Pins'
    PROVE  BookedByConsent'
<1>1. SUFFICES ASSUME NEW t \in TaskIds, rows'[t].status \in {"accepted", "active"}
               PROVE  \/ hire'[t].auto
                      \/ \E a \in Answers :
                           /\ answer'[a].pc = "done" /\ answer'[a].task = t
                           /\ answer'[a].decision = "accept"
                           /\ answer'[a].caller = rows'[t].worker
  BY DEF BookedByConsent, Pins
<1>2. rows[t] \in Row /\ RowShape(t) /\ HireShape(t)
  BY DEF IInv, TypeOK, Shapes
<1>3. CASE rows[t].status \in {"accepted", "active"}
  <2>1. rows'[t].worker = rows[t].worker
    BY <1>3, RowsKeep DEF IInv, Exists
  <2>2. hire'[t] = hire[t]
    BY <1>2, <1>3 DEF IInv, HireFirst, Exists, HireShape
  <2>3. CASE hire[t].auto
    BY <2>2, <2>3
  <2>4. CASE ~ hire[t].auto
    <3>1. PICK a \in Answers :
            /\ answer[a].pc = "done" /\ answer[a].task = t
            /\ answer[a].decision = "accept" /\ answer[a].caller = rows[t].worker
      BY <1>3, <2>4 DEF IInv, BookedByConsent
    <3>2. answer'[a] = answer[a]
      BY <3>1 DEF Shapes, AnswerShape, Idles, Reads, Counts, Succeeds
    <3> QED  BY <2>1, <3>1, <3>2
  <2> QED  BY <2>3, <2>4
<1>4. CASE rows[t].status \notin {"accepted", "active"}
  <2>1. CASE Born(t)
    BY <1>1, <2>1 DEF Born
  <2>2. CASE \E a \in Answers : AcceptedBy(t, a)
    <3>1. PICK a \in Answers : AcceptedBy(t, a)
      BY <2>2
    <3>2. answer[a].caller = rows[t].worker /\ answer[a].decision = "accept"
      BY <3>1 DEF IInv, Asked, AcceptedBy
    <3> QED  BY <1>2, <3>1, <3>2 DEF AcceptedBy, Row
  <2>3. ASSUME NEW s \in Later, Moved(t, s)
        PROVE  FALSE
    BY <1>1, <1>2, <2>3 DEF Moved, Later, Row
  <2> QED  BY <1>1, <1>2, <1>4, <2>1, <2>2, <2>3 DEF RowShape, Funded
<1> QED  BY <1>3, <1>4

(* Steps keep it: who decided. *)
LEMMA DecisionStep ==
    ASSUME IInv, Shapes
    PROVE  OneDecision'
<1> USE DEF IInv
<1> DEFINE Decided(r, d) == IF d = "decline"
                            THEN r.status = "declined" /\ ~ r.pinned
                            ELSE r.status \notin {"pending", "declined"} /\ r.pinned
           row(a) == rows[answer[a].task]
<1>1. ASSUME NEW a \in Answers, answer[a].ok
      PROVE  answer'[a] = answer[a] /\ Decided(row(a)', answer[a].decision)
  <2>1. answer'[a] = answer[a]
    BY <1>1 DEF Asked, Shapes, AnswerShape, Idles, Reads, Counts, Succeeds
  <2>2. Decided(row(a), answer[a].decision) /\ row(a).status # "absent"
    BY <1>1 DEF OneDecision, Asked
  <2>3. answer[a].task \in TaskIds
    BY DEF TypeOK, Answer
  <2> QED  BY <2>1, <2>2, <2>3, RowsKeep DEF Exists
<1>2. ASSUME NEW a \in Answers, ~ answer[a].ok, answer'[a].ok
      PROVE  Succeeds(a)
  BY <1>2 DEF Shapes, AnswerShape, Idles, Reads, Counts, TypeOK, Answer
<1>3. ASSUME NEW a \in Answers, Succeeds(a)
      PROVE  /\ answer'[a].task = answer[a].task
             /\ Decided(row(a)', answer'[a].decision)
             /\ row(a).status = "pending"
             /\ \A b \in Answers \ {a} : answer'[b] = answer[b]
  <2>1. /\ answer[a] \in Answer /\ answer[a].task \in TaskIds /\ row(a) \in Row
        /\ row(a).status = "pending" /\ ~ row(a).pinned
    BY <1>3 DEF TypeOK, Answer, Pins, Succeeds
  <2>2. /\ answer'[a].task = answer[a].task
        /\ answer'[a].decision = answer[a].decision
    BY <1>3, <2>1 DEF Succeeds, Answer
  <2>3. /\ answer[a].pc = "accept" => answer[a].decision = "accept"
        /\ answer[a].pc = "decline" => answer[a].decision = "decline"
    BY DEF Asked
  <2>4. Decided(rows'[answer[a].task], answer[a].decision)
    BY <1>3, <2>1, <2>3 DEF Succeeds, Row
  <2> QED  BY <1>3, <2>1, <2>2, <2>4 DEF Succeeds
<1>4. ASSUME NEW a \in Answers, answer'[a].ok
      PROVE  Decided(row(a)', answer'[a].decision)
  BY <1>1, <1>2, <1>3, <1>4
<1>5. ASSUME NEW a \in Answers, NEW b \in Answers \ {a}, answer'[a].ok, answer'[b].ok
      PROVE  answer'[b].task # answer'[a].task
  <2>1. CASE answer[a].ok /\ answer[b].ok
    BY <1>1, <2>1 DEF OneDecision
  <2>2. ASSUME NEW c \in Answers, NEW d \in Answers \ {c},
               answer'[c].ok, answer'[d].ok, ~ answer[c].ok
        PROVE  answer'[d].task # answer'[c].task
    <3>1. Succeeds(c)
      BY <1>2, <2>2
    <3>2. answer'[d] = answer[d] /\ answer'[c].task = answer[c].task
          /\ row(c).status = "pending"
      BY <1>3, <3>1
    <3>3. row(d).status # "pending"
      BY <2>2, <3>2 DEF OneDecision
    <3> QED  BY <3>2, <3>3
  <2> QED  BY <1>5, <2>1, <2>2
<1> QED  BY <1>4, <1>5 DEF OneDecision

(* Every step keeps the invariant. *)
LEMMA StepInv == IInv /\ [Next]_vars => IInv'
<1> SUFFICES ASSUME IInv, [Next]_vars PROVE IInv'
  OBVIOUS
<1>1. TypeOK' /\ Shapes /\ clock =< clock'
  BY StepShapes DEF IInv
<1>2. HireFirst' /\ Pins'
  BY <1>1, PinsStep
<1>3. BookedByConsent' /\ OneDecision'
  BY <1>1, <1>2, BookedStep, DecisionStep
<1>4. (\A a \in Answers : Asked(a))'
  BY <1>1, AskedStep
<1> QED  BY <1>1, <1>2, <1>3, <1>4 DEF IInv

(* The invariant holds throughout. *)
LEMMA Invariance == Spec => []IInv
BY InitInv, StepInv, PTL DEF Spec
-----------------------------------------------------------------------------
(***************************************************************************)
(* Every variable keeps its type, for any number of tasks, wallets and     *)
(* concurrent calls.                                                       *)
(***************************************************************************)
THEOREM TypeCorrect == Spec => []TypeOK
<1>1. IInv => TypeOK
  BY DEF IInv
<1> QED  BY <1>1, Invariance, PTL

(***************************************************************************)
(* A task that holds a slot of a worker was booked by that worker, and its *)
(* brief is pinned: the CAS in acceptTask and the caller check in          *)
(* respondToOffer suffice, whatever runs in between (ADR-0005 D2, CC-084). *)
(***************************************************************************)
THEOREM Consent == Spec => []BookedByConsent
<1>1. IInv => BookedByConsent
  BY DEF IInv
<1> QED  BY <1>1, Invariance, PTL

(***************************************************************************)
(* At most one answer to an offer is told it succeeded, and the row agrees *)
(* with it ever after: the statuses in VALID_TRANSITIONS make the second   *)
(* write fail, however stale the reading it follows from.                  *)
(***************************************************************************)
THEOREM DecidedOnce == Spec => []OneDecision
<1>1. IInv => OneDecision
  BY DEF IInv
<1> QED  BY <1>1, Invariance, PTL

(***************************************************************************)
(* Only an unfunded offer past its expiry lapses, and what has ended stays *)
(* as it ended, for any interleaving of the handlers that lapse, answer    *)
(* and settle.                                                             *)
(***************************************************************************)
THEOREM LapsesSpare == Spec => LapseSparesFunded
<1> DEFINE A == \A t \in TaskIds :
                   /\ rows[t].status \in Terminal => rows'[t] = rows[t]
                   /\ rows[t].status # "lapsed" /\ rows'[t].status = "lapsed" =>
                        /\ rows[t].status \in {"pending", "accepted"}
                        /\ rows[t].expiry =< clock
<1>1. IInv /\ [Next]_vars => A
  <2> SUFFICES ASSUME IInv, [Next]_vars, NEW t \in TaskIds
               PROVE  /\ rows[t].status \in Terminal => rows'[t] = rows[t]
                      /\ rows[t].status # "lapsed" /\ rows'[t].status = "lapsed" =>
                           /\ rows[t].status \in {"pending", "accepted"}
                           /\ rows[t].expiry =< clock
    OBVIOUS
  <2>1. RowShape(t) /\ rows[t] \in Row
    BY StepShapes DEF IInv, Shapes, TypeOK
  <2>2. CASE rows'[t] = rows[t]
    BY <2>2
  <2>3. CASE Born(t)
    BY <2>3 DEF Born, Exists, Terminal
  <2>4. CASE (\E a \in Answers : AcceptedBy(t, a)) \/ Funded(t)
    BY <2>1, <2>4 DEF AcceptedBy, Funded, Row, Terminal
  <2>5. ASSUME NEW s \in Later, Moved(t, s)
        PROVE  /\ rows[t].status \notin Terminal
               /\ rows'[t].status = s
               /\ s = "lapsed" => /\ rows[t].status \in {"pending", "accepted"}
                                  /\ rows[t].expiry =< clock
    BY <2>1, <2>5 DEF Moved, Later, VALID_TRANSITIONS, Row, Terminal
  <2> QED  BY <2>1, <2>2, <2>3, <2>4, <2>5 DEF RowShape
<1>2. Spec => [][A]_vars
  BY <1>1, Invariance, PTL DEF Spec
<1> QED  BY <1>2 DEF LapseSparesFunded
-----------------------------------------------------------------------------
(* Idempotency keys.  A second invariant, on top of IInv: rows of one agent *)
(* with one key are one row, and a reply that names a task names the row   *)
(* that carries the call's agent and key.                                  *)

OneRowPerKey ==
    \A t, u \in TaskIds :
        /\ Exists(t) /\ Exists(u)
        /\ rows[t].agent = rows[u].agent
        /\ rows[t].key = rows[u].key /\ rows[t].key # NoKey
        => t = u

Named(h) ==
    /\ hire[h].pc # "done" => hire[h].reply = "none" /\ hire[h].task = h
    /\ hire[h].reply \in {"offered", "replay"} =>
         /\ Exists(hire[h].task)
         /\ rows[hire[h].task].agent = hire[h].agent
         /\ rows[hire[h].task].key = hire[h].key

KeyInv == OneRowPerKey /\ \A h \in TaskIds : Named(h)

(* A row is born, or keeps its agent and its key.                          *)
Carried(t) ==
    /\ Exists(t)' <=> Exists(t)
    /\ Exists(t) => rows'[t].agent = rows[t].agent /\ rows'[t].key = rows[t].key

LEMMA RowsCarry ==
    ASSUME TypeOK, Shapes, NEW t \in TaskIds
    PROVE  Carried(t) \/ Born(t)
<1>1. rows[t] \in Row /\ RowShape(t)
  BY DEF TypeOK, Shapes
<1>2. CASE rows'[t] = rows[t]
  BY <1>2 DEF Carried, Exists
<1>3. CASE (\E a \in Answers : AcceptedBy(t, a)) \/ Funded(t)
  BY <1>1, <1>3 DEF AcceptedBy, Funded, Row, Carried, Exists
<1>4. ASSUME NEW s \in Later, Moved(t, s) PROVE Carried(t)
  <2>1. rows[t].status # "absent" /\ s # "absent"
    BY <1>4 DEF Moved, Later, VALID_TRANSITIONS
  <2> QED  BY <1>1, <1>4, <2>1 DEF Moved, Row, Carried, Exists
<1> QED  BY <1>1, <1>2, <1>3, <1>4 DEF RowShape

(* When no row is born, every hire the step leaves alone stays right.      *)
LEMMA KeysCarry ==
    ASSUME TypeOK, KeyInv, \A t \in TaskIds : Carried(t)
    PROVE  /\ OneRowPerKey'
           /\ \A h \in TaskIds : hire'[h] = hire[h] => Named(h)'
<1>1. OneRowPerKey'
  BY DEF KeyInv, OneRowPerKey, Carried
<1>2. ASSUME NEW h \in TaskIds, hire'[h] = hire[h] PROVE Named(h)'
  <2>1. hire[h].task \in TaskIds /\ Named(h)
    BY DEF TypeOK, Hire, KeyInv
  <2> QED  BY <1>2, <2>1 DEF Named, Carried, Exists
<1> QED  BY <1>1, <1>2

(* What the lookup finds is a row of this agent with this key. *)
LEMMA Found ==
    ASSUME NEW agent, NEW key, findTaskByIdempotencyKey(agent, key) # {}
    PROVE  LET u == CHOOSE t \in findTaskByIdempotencyKey(agent, key) : TRUE
           IN  u \in TaskIds /\ Exists(u) /\ rows[u].agent = agent /\ rows[u].key = key
<1> DEFINE found == findTaskByIdempotencyKey(agent, key)
<1>1. (CHOOSE t \in found : TRUE) \in found
  BY Zenon
<1> QED  BY <1>1 DEF findTaskByIdempotencyKey

(* The steps of a hire. *)
LEMMA HireKeys ==
    ASSUME IInv, KeyInv, Shapes, NEW h \in TaskIds, HireStep(h)
    PROVE  KeyInv'
<1>1. /\ TypeOK /\ hire \in [TaskIds -> Hire] /\ hire[h] \in Hire /\ Named(h)
      /\ rows \in [TaskIds -> Row]
  BY DEF IInv, TypeOK, KeyInv
<1>2. ASSUME \A t \in TaskIds : Carried(t),
             NEW f, hire' = [hire EXCEPT ![h] = f], Named(h)'
      PROVE  KeyInv'
  BY <1>1, <1>2, KeysCarry DEF KeyInv
<1>3. rows' = rows => \A t \in TaskIds : Carried(t)
  BY DEF Carried, Exists
<1>4. ASSUME NEW agent \in Agents, NEW worker \in Workers,
             NEW key \in Keys \cup {NoKey}, requestHumanWork(h, agent, worker, key)
      PROVE  KeyInv'
  <2> DEFINE found == findTaskByIdempotencyKey(agent, key)
             call  == [hire[h] EXCEPT !.agent = agent, !.worker = worker, !.key = key]
  <2>1. hire[h].pc = "idle" /\ rows' = rows
    BY <1>4 DEF requestHumanWork
  <2>2. /\ call.agent = agent /\ call.key = key
        /\ call.reply = "none" /\ call.task = h /\ call \in Hire
    <3>1. hire[h].reply = "none" /\ hire[h].task = h
      BY <1>1, <2>1 DEF Named
    <3>2. call \in Hire
      BY <1>1, HireEdits
    <3>3. /\ call.agent = agent /\ call.key = key
          /\ call.reply = hire[h].reply /\ call.task = hire[h].task
      BY <1>1 DEF Hire
    <3> QED  BY <3>1, <3>2, <3>3
  <2> HIDE DEF call
  <2>3. CASE key # NoKey /\ found # {}
    <3> DEFINE u == CHOOSE t \in found : TRUE
               f == [call EXCEPT !.pc = "done", !.reply = "replay", !.task = u]
    <3>1. u \in TaskIds /\ Exists(u) /\ rows[u].agent = agent /\ rows[u].key = key
      BY <2>3, Found
    <3>2. hire' = [hire EXCEPT ![h] = f]
      BY <1>4, <2>3 DEF requestHumanWork, call
    <3> HIDE DEF u
    <3>3. /\ f.pc = "done" /\ f.reply = "replay" /\ f.task = u
          /\ f.agent = agent /\ f.key = key
      BY <2>2 DEF Hire
    <3> HIDE DEF f
    <3>4. Named(h)'
      BY <1>1, <2>1, <3>1, <3>2, <3>3 DEF Named, Exists
    <3> QED  BY <1>2, <1>3, <2>1, <3>2, <3>4
  <2>4. CASE ~ (key # NoKey /\ found # {})
    <3> DEFINE f == [call EXCEPT !.pc = "lapse"]
    <3>1. hire' = [hire EXCEPT ![h] = f]
      BY <1>4, <2>4 DEF requestHumanWork, call
    <3>2. f.reply = "none" /\ f.task = h
      BY <2>2 DEF Hire
    <3> HIDE DEF f
    <3>3. Named(h)'
      BY <1>1, <3>1, <3>2 DEF Named
    <3> QED  BY <1>2, <1>3, <2>1, <3>1, <3>3
  <2> QED  BY <2>3, <2>4
<1>5. ASSUME hire[h].pc # "done", NEW pc, NEW auto,
             hire' = [hire EXCEPT ![h] = [hire[h] EXCEPT !.pc = pc, !.auto = auto]]
      PROVE  Named(h)'
  <2>1. hire[h].reply = "none" /\ hire[h].task = h
    BY <1>1, <1>5 DEF Named
  <2>2. hire'[h].reply = "none" /\ hire'[h].task = h
    BY <1>1, <1>5, <2>1 DEF Hire
  <2> QED  BY <2>2 DEF Named
<1>6. ASSUME NEW r \in {"at_capacity", "conflict", "error"},
             hire' = [hire EXCEPT ![h] = [hire[h] EXCEPT !.pc = "done", !.reply = r]]
      PROVE  Named(h)'
  <2>1. hire'[h].pc = "done" /\ hire'[h].reply = r
    BY <1>1, <1>6 DEF Hire
  <2> QED  BY <2>1 DEF Named
<1>7. CASE hireLapse(h)
  <2>1. \A t \in TaskIds : Carried(t)
    <3>1. \A t \in TaskIds : rows'[t] = rows[t] \/ Moved(t, "lapsed")
      BY <1>1, <1>7, LapseRows DEF hireLapse
    <3> QED  BY <1>1, <3>1, ZenonT(40) DEF Carried, Exists, Moved, VALID_TRANSITIONS, Row
  <2>2. PICK pc \in {"cap", "insert"}, auto \in BOOLEAN :
          hire' = [hire EXCEPT ![h] = [hire[h] EXCEPT !.pc = pc, !.auto = auto]]
    BY <1>1, <1>7 DEF hireLapse
  <2>3. hire[h].pc # "done"
    BY <1>7 DEF hireLapse
  <2> QED  BY <1>2, <1>5, <2>1, <2>2, <2>3
<1>8. CASE hireCap(h)
  <2>1. hire[h].pc # "done" /\ \A t \in TaskIds : Carried(t)
    BY <1>3, <1>8 DEF hireCap
  <2>2. \/ hire' = [hire EXCEPT ![h] = [hire[h] EXCEPT !.pc = "done",
                                                      !.reply = "at_capacity"]]
        \/ \E auto \in BOOLEAN :
             hire' = [hire EXCEPT ![h] = [hire[h] EXCEPT !.pc = "insert",
                                                         !.auto = auto]]
    BY <1>1, <1>8 DEF hireCap, hireReplies
  <2> QED  BY <1>2, <1>5, <1>6, <2>1, <2>2
<1>9. CASE hireLost(h)
  <2>1. hire[h].pc # "done" /\ \A t \in TaskIds : Carried(t)
    BY <1>3, <1>9 DEF hireLost
  <2>2. hire' = [hire EXCEPT ![h] = [hire[h] EXCEPT !.pc = "conflict"]]
    BY <1>1, <1>9 DEF hireLost, hireTo
  <2>3. hire'[h].reply = "none" /\ hire'[h].task = h
    BY <1>1, <2>1, <2>2 DEF Named, Hire
  <2>4. Named(h)'
    BY <2>3 DEF Named
  <2> QED  BY <1>2, <2>1, <2>2, <2>4
<1>10. CASE hireFails(h)
  <2>1. \A t \in TaskIds : Carried(t)
    BY <1>3, <1>10 DEF hireFails
  <2>2. hire' = [hire EXCEPT ![h] = [hire[h] EXCEPT !.pc = "done", !.reply = "error"]]
    BY <1>1, <1>10 DEF hireFails, hireReplies
  <2> QED  BY <1>2, <1>6, <2>1, <2>2
<1>11. CASE hireConflict(h)
  <2> DEFINE found == findTaskByIdempotencyKey(hire[h].agent, hire[h].key)
  <2>1. rows' = rows
    BY <1>11 DEF hireConflict
  <2>2. CASE found # {}
    <3> DEFINE u == CHOOSE t \in found : TRUE
               f == [hire[h] EXCEPT !.pc = "done", !.reply = "replay", !.task = u]
    <3>1. /\ u \in TaskIds /\ Exists(u)
          /\ rows[u].agent = hire[h].agent /\ rows[u].key = hire[h].key
      BY <2>2, Found
    <3>2. hire' = [hire EXCEPT ![h] = f]
      BY <1>1, <1>11, <2>2 DEF hireConflict, hireReplays
    <3> HIDE DEF u
    <3>3. /\ f.pc = "done" /\ f.task = u
          /\ f.agent = hire[h].agent /\ f.key = hire[h].key
      BY <1>1 DEF Hire
    <3> HIDE DEF f
    <3>4. Named(h)'
      BY <1>1, <2>1, <3>1, <3>2, <3>3 DEF Named, Exists
    <3> QED  BY <1>2, <1>3, <2>1, <3>2, <3>4
  <2>3. CASE found = {}
    <3>1. hire' = [hire EXCEPT ![h] = [hire[h] EXCEPT !.pc = "done",
                                                      !.reply = "conflict"]]
      BY <1>1, <1>11, <2>3 DEF hireConflict, hireReplies
    <3> QED  BY <1>2, <1>3, <1>6, <2>1, <3>1
  <2> QED  BY <2>2, <2>3
<1>12. CASE hireInsert(h)
  <2>1. PICK seconds \in OfferExpiries : createTask(h, Offered(h, seconds))
    BY <1>12 DEF hireInsert
  <2> DEFINE row == Offered(h, seconds)
  <2>2. /\ row.agent = hire[h].agent /\ row.key = hire[h].key /\ row.status # "absent"
    BY DEF Offered
  <2>3. /\ ~ Exists(h) /\ ~ KeyTaken(row.agent, row.key)
        /\ rows' = [rows EXCEPT ![h] = row]
    BY <2>1 DEF createTask
  <2> HIDE DEF row
  <2>4. /\ Exists(h)' /\ rows'[h] = row
        /\ \A t \in TaskIds \ {h} : rows'[t] = rows[t]
    BY <1>1, <2>2, <2>3 DEF Exists
  <2>5. hire[h].pc = "insert" /\ hire[h].task = h
    BY <1>1, <1>12 DEF hireInsert, Named
  <2>6. PICK r \in {"offered", "error"} :
          hire' = [hire EXCEPT ![h] = [hire[h] EXCEPT !.pc = "done", !.reply = r]]
    BY <1>1, <1>12 DEF hireInsert, hireReplies
  <2>7. /\ hire'[h].pc = "done" /\ hire'[h].task = h
        /\ hire'[h].agent = hire[h].agent /\ hire'[h].key = hire[h].key
        /\ \A g \in TaskIds \ {h} : hire'[g] = hire[g]
    BY <1>1, <2>5, <2>6 DEF Hire
  <2>8. OneRowPerKey'
    <3>1. ASSUME NEW t \in TaskIds \ {h}, Exists(t)
          PROVE  ~ (rows[t].agent = row.agent /\ rows[t].key = row.key /\ row.key # NoKey)
      BY <2>3, <3>1 DEF KeyTaken
    <3> QED  BY <2>4, <3>1 DEF KeyInv, OneRowPerKey, Exists
  <2>9. Named(h)'
    BY <2>2, <2>4, <2>7 DEF Named
  <2>10. ASSUME NEW g \in TaskIds \ {h} PROVE Named(g)'
    <3>1. hire[g].task \in TaskIds /\ Named(g) /\ ~ Exists(h)
      BY <1>1, <2>3 DEF Hire, KeyInv
    <3>2. hire[g].task # h => rows'[hire[g].task] = rows[hire[g].task]
      BY <2>4, <3>1
    <3> QED  BY <2>7, <3>1, <3>2 DEF Named, Exists
  <2> QED  BY <2>8, <2>9, <2>10 DEF KeyInv
<1> QED  BY <1>4, <1>7, <1>8, <1>9, <1>10, <1>11, <1>12 DEF HireStep

(* Every step keeps it. *)
LEMMA KeyStep == IInv /\ KeyInv /\ [Next]_vars => KeyInv'
<1> SUFFICES ASSUME IInv, KeyInv, [Next]_vars PROVE KeyInv'
  OBVIOUS
<1>1. TypeOK /\ Shapes
  BY StepShapes DEF IInv
<1>2. CASE \E h \in TaskIds : HireStep(h)
  BY <1>1, <1>2, HireKeys
<1>3. CASE UNCHANGED hire
  <2>1. \A t \in TaskIds : ~ Born(t)
    BY <1>3 DEF Born
  <2>2. \A t \in TaskIds : Carried(t)
    BY <1>1, <2>1, RowsCarry
  <2> QED  BY <1>1, <1>3, <2>2, KeysCarry DEF KeyInv
<1>4. (\E h \in TaskIds : HireStep(h)) \/ UNCHANGED hire
  BY DEF Next, vars, AnswerStep, respondToOffer, answerLapse, answerRead, answerCount,
         answerWrite, answerFails, Elsewhere
<1> QED  BY <1>2, <1>3, <1>4

(***************************************************************************)
(* Two hires by one agent with one key name one task, however many run     *)
(* and however they interleave: the lookup may miss, and the unique index  *)
(* of migration 021 then makes the second insert lose and replay.          *)
(***************************************************************************)
THEOREM KeyedOnce == Spec => []OneTaskPerKey
<1>1. Init => KeyInv
  <2> SUFFICES ASSUME Init PROVE KeyInv
    OBVIOUS
  <2>1. \A t \in TaskIds : ~ Exists(t)
    BY DEF Init, TableInit, NoRow, Exists
  <2>2. \A h \in TaskIds : Named(h)
    BY DEF Init, Named
  <2> QED  BY <2>1, <2>2 DEF KeyInv, OneRowPerKey
<1>2. IInv /\ KeyInv => OneTaskPerKey
  <2> SUFFICES ASSUME IInv, KeyInv PROVE OneTaskPerKey
    OBVIOUS
  <2>1. \A h \in TaskIds : hire[h].task \in TaskIds /\ Named(h)
    BY DEF IInv, TypeOK, Hire, KeyInv
  <2> QED  BY <2>1 DEF KeyInv, OneRowPerKey, OneTaskPerKey, Named
<1> QED  BY <1>1, <1>2, KeyStep, Invariance, PTL DEF Spec
=============================================================================
