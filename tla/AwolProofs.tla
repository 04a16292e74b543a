------------------------------ MODULE AwolProofs ------------------------------
(***************************************************************************)
(* Theorems about Awol, for every number of offers, concurrent hires and   *)
(* channels, and every two thresholds.                                     *)
(*                                                                         *)
(* First that the loop counts streaks, by induction over the history;      *)
(* then what interleaving can do to the check that uses it.                *)
(***************************************************************************)
EXTENDS Awol, InductionTheorems

(* Who has said yes is pinned, by hand or by the hire; so a lapse that     *)
(* counts as a silence was the lapse of an unanswered offer.               *)
Pinned == \A t \in TaskIds : rows[t].status = "accepted" => rows[t].pinned

Heard ==
    \A t \in TaskIds :
      taskToAwolOutcome(rows[t]) \in Silence => t \in Against(taskToAwolOutcome(rows[t]))

(* What a hire knows of its check. *)
Checked(h) ==
    /\ hire[h].pc \in {"idle", "channels", "tasks"} =>
         ~ hire[h].evaluated /\ ~ hire[h].triggered
    /\ hire[h].pc = "disable" => hire[h].evaluated /\ hire[h].triggered

(* The history is finite: each row was created by a step of its own.       *)
Existing == { t \in TaskIds : Exists(t) }

IInv ==
    /\ TypeOK
    /\ IsFiniteSet(Existing)
    /\ Pinned
    /\ Heard
    /\ \A h \in Hires : Checked(h)
-----------------------------------------------------------------------------
(* What a step does to a row. *)

Born(t) ==
    /\ ~ Exists(t)
    /\ rows'[t].status \in {"accepted", "pending"}
    /\ rows'[t].status = "accepted" => rows'[t].pinned

Accepted(t) ==
    /\ rows[t].status = "pending"
    /\ rows'[t].status = "accepted" /\ rows'[t].pinned

Later == {"declined", "lapsed", "active", "completed", "disputed", "expired"}

(* Only a funded task's row expires. *)
Due(t, s) == s = "expired" => rows[t].status \in {"active", "disputed"}

Moved(t, s) ==
    /\ rows[t].status \in VALID_TRANSITIONS[s] /\ Due(t, s)
    /\ rows'[t].status = s /\ rows'[t].pinned = rows[t].pinned

RowShape(t) ==
    \/ rows'[t] = rows[t]
    \/ Born(t)
    \/ Accepted(t)
    \/ \E s \in Later : Moved(t, s)

RowShapes == rows' \in [TaskIds -> Row] /\ \A t \in TaskIds : RowShape(t)

LEMMA NoRowType == NoRow \in Row
<1>1. (CHOOSE a \in Agents : TRUE) \in Agents
  BY TableAssumption, Zenon
<1>2. (CHOOSE w \in Workers : TRUE) \in Workers
  BY TableAssumption, Zenon
<1> QED  BY <1>1, <1>2 DEF NoRow, Row

(* Lapsing changes only offers past their expiry. *)
LEMMA LapseRows ==
    ASSUME TypeOK, lapseExpiredOffers
    PROVE  RowShapes
<1>1. CASE rows' = rows
  BY <1>1 DEF RowShapes, RowShape, TypeOK
<1>2. CASE rows' = [t \in TaskIds |->
                      IF PastExpiry(rows[t])
                      THEN [rows[t] EXCEPT !.status = "lapsed"] ELSE rows[t]]
  <2>1. ASSUME NEW t \in TaskIds
        PROVE  [rows[t] EXCEPT !.status = "lapsed"] \in Row
    BY DEF TypeOK, Row, TaskStatus
  <2>2. rows' \in [TaskIds -> Row]
    BY <1>2, <2>1 DEF TypeOK
  <2>3. ASSUME NEW t \in TaskIds PROVE RowShape(t)
    <3>1. CASE PastExpiry(rows[t])
      <4>1. rows'[t] = [rows[t] EXCEPT !.status = "lapsed"]
        BY <1>2, <3>1
      <4>2. Moved(t, "lapsed")
        BY <3>1, <4>1 DEF Moved, Due, PastExpiry, VALID_TRANSITIONS, TypeOK, Row
      <4> QED  BY <4>2 DEF RowShape, Later
    <3>2. CASE ~ PastExpiry(rows[t])
      BY <1>2, <3>2 DEF RowShape
    <3> QED  BY <3>1, <3>2
  <2> QED  BY <2>2, <2>3 DEF RowShapes
<1> QED  BY <1>1, <1>2 DEF lapseExpiredOffers

(* A statement that names one row. *)
LEMMA OneRow ==
    ASSUME TypeOK, NEW t \in TaskIds, NEW row \in Row, rows' = [rows EXCEPT ![t] = row],
           RowShape(t)
    PROVE  RowShapes
BY DEF TypeOK, RowShapes, RowShape

LEMMA MovedRows ==
    ASSUME TypeOK, NEW t \in TaskIds, NEW s \in Later, NEW row \in Row,
           rows[t].status \in VALID_TRANSITIONS[s], Due(t, s), rows' = [rows EXCEPT ![t] = row],
           row.status = s, row.pinned = rows[t].pinned
    PROVE  RowShapes
<1>1. Moved(t, s)
  BY DEF Moved, TypeOK
<1> QED  BY <1>1, OneRow DEF RowShape

(* The statements of the other handlers.                                   *)
LEMMA ElsewhereRows ==
    ASSUME TypeOK, Elsewhere
    PROVE  RowShapes /\ UNCHANGED << clock, channel, hire >>
<1>1. ASSUME NEW t \in TaskIds, NEW s \in Later, updateTaskStatus(t, s, TRUE), Due(t, s)
      PROVE  RowShapes
  <2>1. [rows[t] EXCEPT !.status = s] \in Row
    BY DEF TypeOK, Row, Later, TaskStatus
  <2>2. rows[t].pinned = [rows[t] EXCEPT !.status = s].pinned
        /\ [rows[t] EXCEPT !.status = s].status = s
    BY DEF TypeOK, Row
  <2> QED  BY <1>1, <2>1, <2>2, MovedRows DEF updateTaskStatus, CompareAndSet
<1>2. ASSUME NEW t \in TaskIds, acceptTask(t, TRUE)
      PROVE  RowShapes
  <2> DEFINE row == [rows[t] EXCEPT !.status = "accepted", !.pinned = TRUE]
  <2>1. row \in Row /\ row.status = "accepted" /\ row.pinned
    BY DEF TypeOK, Row, TaskStatus
  <2>2. rows[t].status = "pending" /\ rows' = [rows EXCEPT ![t] = row]
    BY <1>2 DEF acceptTask, CompareAndSet
  <2> HIDE DEF row
  <2>3. Accepted(t)
    BY <2>1, <2>2 DEF Accepted, TypeOK
  <2> QED  BY <2>1, <2>2, <2>3, OneRow DEF RowShape
<1>3. ASSUME NEW t \in TaskIds, markTaskFunded(t, TRUE)
      PROVE  RowShapes
  <2> DEFINE row == [rows[t] EXCEPT !.status = "active", !.funded = TRUE]
  <2>1. row \in Row /\ row.status = "active" /\ row.pinned = rows[t].pinned
    BY DEF TypeOK, Row, TaskStatus
  <2>2. rows[t].status \in VALID_TRANSITIONS["active"] /\ rows' = [rows EXCEPT ![t] = row]
    BY <1>3 DEF markTaskFunded, CompareAndSet, VALID_TRANSITIONS
  <2> HIDE DEF row
  <2> QED  BY <2>1, <2>2, MovedRows DEF Later, Due
<1> QED  BY <1>1, <1>2, <1>3, LapseRows DEF Elsewhere, Later, Due
-----------------------------------------------------------------------------
(* What a step does to a hire. *)

(* A row is born; or the hire ends without one.                            *)
LEMMA InsertRows ==
    ASSUME TypeOK, NEW h \in Hires, hireInsert(h)
    PROVE  RowShapes
<1>1. CASE UNCHANGED rows
  BY <1>1 DEF RowShapes, RowShape, TypeOK
<1>2. ASSUME NEW t \in TaskIds,
             createTask(t, [NoRow EXCEPT
                 !.status = IF autoAcceptOffer(h) THEN "accepted" ELSE "pending",
                 !.expiry = clock + 1, !.pinned = autoAcceptOffer(h)])
      PROVE  RowShapes
  <2> DEFINE row == [NoRow EXCEPT
                 !.status = IF autoAcceptOffer(h) THEN "accepted" ELSE "pending",
                 !.expiry = clock + 1, !.pinned = autoAcceptOffer(h)]
  <2>1. autoAcceptOffer(h) \in BOOLEAN
    BY DEF autoAcceptOffer
  <2>2. clock + 1 \in Nat
    BY DEF TypeOK
  <2>3. /\ row \in Row
        /\ row.status = IF autoAcceptOffer(h) THEN "accepted" ELSE "pending"
        /\ row.pinned = autoAcceptOffer(h)
    <3> HIDE DEF autoAcceptOffer
    <3> QED  BY <2>1, <2>2, NoRowType DEF Row, TaskStatus
  <2>4. ~ Exists(t) /\ rows' = [rows EXCEPT ![t] = row]
    BY <1>2 DEF createTask
  <2> HIDE DEF row
  <2>5. Born(t)
    BY <2>3, <2>4 DEF Born, TypeOK
  <2> QED  BY <2>3, <2>4, <2>5, OneRow DEF RowShape
<1> QED  BY <1>1, <1>2 DEF hireInsert

(* The verdict of a check is a truth value. *)
LEMMA Verdict == ASSUME NEW s PROVE evaluateAwol(s) \in BOOLEAN
BY DEF evaluateAwol

LEMMA HireTypes ==
    ASSUME TypeOK, NEW h \in Hires, HireStep(h), Checked(h)
    PROVE  /\ RowShapes /\ clock' = clock
           /\ channel' \in [Channels -> {"absent", "off", "on"}]
           /\ hire'[h] \in Hire /\ hire' = [hire EXCEPT ![h] = hire'[h]]
           /\ hire'[h].triggered => hire'[h].evaluated
           /\ Checked(h)'
<1>1. /\ hire \in [Hires -> Hire] /\ hire[h] \in Hire
      /\ channel \in [Channels -> {"absent", "off", "on"}]
      /\ hire[h].triggered => hire[h].evaluated
  BY DEF TypeOK
<1>2. CASE requestHumanWork(h)
  <2>1. AutoBookable \in BOOLEAN
    BY DEF AutoBookable
  <2>2. Fresh \in Hire /\ ~ Fresh.evaluated /\ ~ Fresh.triggered
    BY DEF Fresh, Hire
  <2> DEFINE new == [Fresh EXCEPT !.pc = "channels", !.autoAccept = AutoBookable]
  <2>3. new \in Hire /\ new.pc = "channels" /\ ~ new.evaluated /\ ~ new.triggered
    BY <2>1, <2>2 DEF Hire
  <2>4. hire' = [hire EXCEPT ![h] = new] /\ UNCHANGED << clock, channel >>
    BY <1>2 DEF requestHumanWork
  <2> HIDE DEF new
  <2> QED  BY <1>1, <1>2, <2>3, <2>4, LapseRows DEF requestHumanWork, Checked
<1>3. CASE awolChannels(h)
  <2>1. RowShapes
    BY <1>3 DEF awolChannels, RowShapes, RowShape, TypeOK
  <2> QED  BY <1>1, <1>3, <2>1 DEF awolChannels, Checked, Hire
<1>4. CASE awolTasks(h)
  <2> DEFINE found == evaluateAwol(computeAwolStreaks(History))
  <2>1. found \in BOOLEAN
    BY Verdict
  <2>2. /\ hire[h].pc = "tasks" /\ UNCHANGED << clock, rows, channel >>
        /\ hire' = [hire EXCEPT ![h].pc = IF found THEN "disable" ELSE "insert",
                                 ![h].evaluated = TRUE, ![h].triggered = found]
    BY <1>4 DEF awolTasks
  <2> HIDE DEF found
  <2>3. RowShapes
    BY <2>2 DEF RowShapes, RowShape, TypeOK
  <2> QED  BY <1>1, <2>1, <2>2, <2>3 DEF Checked, Hire
<1>5. CASE awolDisable(h)
  <2>1. RowShapes
    BY <1>5 DEF awolDisable, RowShapes, RowShape, TypeOK
  <2>2. channel' \in [Channels -> {"absent", "off", "on"}]
    BY <1>1, <1>5 DEF awolDisable, setAcceptsAutoBookingForContractor
  <2> QED  BY <1>1, <1>5, <2>1, <2>2 DEF awolDisable, Checked, Hire
<1>6. CASE awolFails(h)
  <2>1. RowShapes
    BY <1>6 DEF awolFails, RowShapes, RowShape, TypeOK
  <2>2. channel' \in [Channels -> {"absent", "off", "on"}]
    BY <1>1, <1>6 DEF awolFails, setAcceptsAutoBookingForContractor
  <2> QED  BY <1>1, <1>6, <2>1, <2>2 DEF awolFails, Checked, Hire
<1>7. CASE hireInsert(h)
  <2>1. Fresh \in Hire /\ Fresh.pc = "idle" /\ ~ Fresh.evaluated /\ ~ Fresh.triggered
    BY DEF Fresh, Hire
  <2>2. hire' = [hire EXCEPT ![h] = Fresh] /\ UNCHANGED << clock, channel >>
    BY <1>7 DEF hireInsert
  <2> QED  BY <1>1, <1>7, <2>1, <2>2, InsertRows DEF Checked
<1> QED  BY <1>2, <1>3, <1>4, <1>5, <1>6, <1>7 DEF HireStep
-----------------------------------------------------------------------------
(* The invariant. *)

(* The rows keep the history and the pins in step. *)
LEMMA RowsInv ==
    ASSUME TypeOK, Pinned, Heard, RowShapes, Remember
    PROVE  /\ Pinned' /\ Heard'
           /\ \A kind : Against(kind) \subseteq Against(kind)'
           /\ unanswered' \subseteq TaskIds /\ refunded' \subseteq TaskIds
           /\ \A t \in TaskIds : taskToAwolOutcome(rows[t]) \in Silence => rows'[t] = rows[t]
<1>1. /\ unanswered' = unanswered \cup
           { t \in TaskIds : rows[t].status = "pending" /\ rows'[t].status = "lapsed" }
      /\ refunded' = refunded \cup
           { t \in TaskIds : /\ rows[t].status \in {"active", "disputed"}
                             /\ rows'[t].status = "expired" }
  BY DEF Remember
<1>2. ASSUME NEW t \in TaskIds
      PROVE  /\ rows[t] \in Row /\ rows'[t] \in Row /\ RowShape(t)
             /\ rows[t].status \in TaskStatus \cup {"absent"}
  BY DEF RowShapes, TypeOK, Row
<1>3. ASSUME NEW row \in Row
      PROVE  taskToAwolOutcome(row) \in Silence <=>
               \/ row.status = "expired"
               \/ row.status = "lapsed" /\ ~ row.pinned
  BY DEF taskToAwolOutcome, Silence, Row, TaskStatus
<1>4. ASSUME NEW t \in TaskIds, taskToAwolOutcome(rows[t]) \in Silence
      PROVE  rows'[t] = rows[t]
  BY <1>2, <1>3, <1>4 DEF RowShape, Born, Exists, Accepted, Moved, Later, VALID_TRANSITIONS
<1>5. ASSUME NEW t \in TaskIds, rows'[t].status = "accepted"
      PROVE  rows'[t].pinned
  BY <1>2, <1>5 DEF RowShape, Born, Accepted, Moved, Later, Pinned
<1>6. ASSUME NEW t \in TaskIds, taskToAwolOutcome(rows'[t]) \in Silence
      PROVE  (t \in Against(taskToAwolOutcome(rows[t])))'
  <2>1. \/ rows'[t].status = "expired"
        \/ rows'[t].status = "lapsed" /\ ~ rows'[t].pinned
    BY <1>2, <1>3, <1>6
  <2>2. CASE rows'[t] = rows[t]
    BY <1>1, <1>6, <2>2 DEF Heard, Against
  <2>3. CASE rows'[t].status = "expired" /\ rows'[t] # rows[t]
    <3>1. Moved(t, "expired")
      BY <1>2, <2>3 DEF RowShape, Born, Accepted, Moved, Later
    <3>2. t \in refunded'
      BY <1>1, <2>3, <3>1 DEF Moved, Due
    <3>3. taskToAwolOutcome(rows'[t]) = "expired_no_submission"
      BY <2>3 DEF taskToAwolOutcome
    <3> QED  BY <3>2, <3>3 DEF Against
  <2>4. CASE rows'[t] # rows[t] /\ rows'[t].status = "lapsed" /\ ~ rows'[t].pinned
    <3>1. Moved(t, "lapsed")
      BY <1>2, <2>4 DEF RowShape, Born, Accepted, Moved, Later
    <3>2. rows[t].status = "pending"
      BY <2>4, <3>1 DEF Moved, VALID_TRANSITIONS, Pinned
    <3>3. taskToAwolOutcome(rows'[t]) = "lapsed_offer"
      BY <2>4 DEF taskToAwolOutcome
    <3> QED  BY <1>1, <2>4, <3>2, <3>3 DEF Against
  <2> QED  BY <2>1, <2>2, <2>3, <2>4
<1>7. Pinned' /\ Heard'
  BY <1>5, <1>6 DEF Pinned, Heard, Silence
<1>8. \A kind : Against(kind) \subseteq Against(kind)'
  BY <1>1 DEF Against
<1> QED  BY <1>1, <1>4, <1>7, <1>8 DEF TypeOK

(* What the properties remember. *)
LEMMA HistoryTypes ==
    ASSUME TypeOK, Remember
    PROVE  told' \subseteq unanswered' \cup refunded' /\ absent' \in [Hires -> BOOLEAN]
<1>1. told' \subseteq unanswered' \cup refunded'
  BY DEF Remember, TypeOK
<1>2. ASSUME NEW h \in Hires
      PROVE  (IF hire'[h].pc = "channels"
              THEN TRUE ELSE absent[h] /\ IsAwol /\ IsAwol') \in BOOLEAN
  <2>1. IsAwol \in BOOLEAN /\ IsAwol' \in BOOLEAN /\ absent[h] \in BOOLEAN
    BY DEF IsAwol, TypeOK
  <2> QED  BY <2>1
<1> QED  BY <1>1, <1>2 DEF Remember

(* A step creates one row or none. *)
LEMMA FewBorn ==
    ASSUME TypeOK, Next
    PROVE  \E t \in TaskIds : \A u \in TaskIds \ {t} : ~ Exists(u) => ~ Exists(u)'
<1>1. PICK any \in TaskIds : TRUE
  BY TableAssumption
<1>2. CASE UNCHANGED rows
  BY <1>1, <1>2 DEF Exists
<1>3. CASE lapseExpiredOffers
  <2>1. ASSUME NEW u \in TaskIds, ~ Exists(u)
        PROVE  rows'[u] = rows[u]
    BY <1>3, <2>1 DEF lapseExpiredOffers, PastExpiry, Exists, TypeOK
  <2> QED  BY <1>1, <2>1 DEF Exists
<1>4. ASSUME NEW t \in TaskIds, NEW row, rows' = [rows EXCEPT ![t] = row]
      PROVE  \A u \in TaskIds \ {t} : ~ Exists(u) => ~ Exists(u)'
  BY <1>4 DEF Exists, TypeOK
<1>5. CASE Elsewhere
  BY <1>2, <1>3, <1>4, <1>5 DEF Elsewhere, acceptTask, updateTaskStatus, markTaskFunded,
                               CompareAndSet
<1>6. ASSUME NEW h \in Hires, HireStep(h)
      PROVE  UNCHANGED rows \/ lapseExpiredOffers
             \/ \E t \in TaskIds : \E row : rows' = [rows EXCEPT ![t] = row]
  <2>1. CASE hireInsert(h)
    BY <2>1 DEF hireInsert, createTask
  <2> QED  BY <1>6, <2>1 DEF HireStep, requestHumanWork, awolChannels, awolTasks, awolDisable,
                             awolFails
<1>7. CASE Dashboard
  BY <1>2, <1>7 DEF Dashboard, registerNotificationChannel, setChannelAutoBooking,
                    removeNotificationChannel
<1> QED  BY <1>2, <1>3, <1>4, <1>5, <1>6, <1>7 DEF Next

LEMMA FiniteStep ==
    ASSUME TypeOK, IsFiniteSet(Existing), Next
    PROVE  IsFiniteSet(Existing')
<1>1. PICK t \in TaskIds : \A u \in TaskIds \ {t} : ~ Exists(u) => ~ Exists(u)'
  BY FewBorn
<1>2. Existing' \subseteq Existing \cup {t}
  BY <1>1 DEF Existing
<1>3. IsFiniteSet(Existing \cup {t})
  BY FS_AddElement
<1> QED  BY <1>2, <1>3, FS_Subset

LEMMA InitInv == Init => IInv
<1> SUFFICES ASSUME Init PROVE IInv
  OBVIOUS
<1>1. Fresh \in Hire /\ Fresh.pc = "idle" /\ ~ Fresh.evaluated /\ ~ Fresh.triggered
  BY DEF Fresh, Hire
<1>2. rows = [t \in TaskIds |-> NoRow] /\ NoRow.status = "absent"
  BY DEF Init, TableInit, NoRow
<1>3. TypeOK
  BY <1>1, <1>2, NoRowType DEF Init, TypeOK, TableInit
<1>4. Pinned /\ Heard
  BY <1>2 DEF Pinned, Heard, taskToAwolOutcome, Silence
<1>5. Existing = {}
  BY <1>2 DEF Existing, Exists
<1>6. IsFiniteSet(Existing)
  BY <1>5, FS_EmptySet
<1> QED  BY <1>1, <1>3, <1>4, <1>6 DEF Init, IInv, Checked

LEMMA StepInv == IInv /\ [Next]_vars => IInv'
<1> SUFFICES ASSUME IInv, [Next]_vars PROVE IInv'
  OBVIOUS
<1>8. IsFiniteSet(Existing')
  BY FiniteStep DEF IInv, vars, Existing, Exists
<1>1. CASE UNCHANGED vars
  BY <1>1 DEF vars, IInv, TypeOK, Pinned, Heard, Against, Checked, Existing, Exists
<1>2. ASSUME Remember, RowShapes, clock' \in Nat,
             channel' \in [Channels -> {"absent", "off", "on"}],
             hire' \in [Hires -> Hire],
             \A h \in Hires : (hire'[h].triggered => hire'[h].evaluated) /\ Checked(h)'
      PROVE  IInv'
  <2>1. /\ Pinned' /\ Heard' /\ unanswered' \subseteq TaskIds /\ refunded' \subseteq TaskIds
    BY <1>2, RowsInv DEF IInv
  <2>2. told' \subseteq unanswered' \cup refunded' /\ absent' \in [Hires -> BOOLEAN]
    BY <1>2, <2>1, HistoryTypes DEF IInv
  <2>3. TypeOK'
    BY <1>2, <2>1, <2>2 DEF TypeOK, RowShapes
  <2> QED  BY <1>2, <1>8, <2>1, <2>3 DEF IInv
<1>3. ASSUME NEW h \in Hires, HireStep(h), Remember PROVE IInv'
  <2>1. /\ RowShapes /\ clock' = clock
        /\ channel' \in [Channels -> {"absent", "off", "on"}]
        /\ hire'[h] \in Hire /\ hire' = [hire EXCEPT ![h] = hire'[h]]
        /\ hire'[h].triggered => hire'[h].evaluated
        /\ Checked(h)'
    BY <1>3, HireTypes DEF IInv
  <2>2. hire' \in [Hires -> Hire] /\ \A g \in Hires \ {h} : hire'[g] = hire[g]
    BY <2>1 DEF IInv, TypeOK
  <2>3. \A g \in Hires : (hire'[g].triggered => hire'[g].evaluated) /\ Checked(g)'
    BY <2>1, <2>2 DEF IInv, TypeOK, Checked
  <2>4. clock' \in Nat
    BY <2>1 DEF IInv, TypeOK
  <2> QED  BY <1>2, <1>3, <2>1, <2>2, <2>3, <2>4
<1>4. ASSUME RowShapes, UNCHANGED hire, Remember, clock' \in Nat,
             channel' \in [Channels -> {"absent", "off", "on"}]
      PROVE  IInv'
  BY <1>2, <1>4 DEF IInv, TypeOK, Checked
<1>5. CASE Dashboard /\ Remember
  <2>1. UNCHANGED << clock, rows, hire >>
        /\ channel' \in [Channels -> {"absent", "off", "on"}]
    BY <1>5 DEF Dashboard, registerNotificationChannel, setChannelAutoBooking,
                removeNotificationChannel, IInv, TypeOK
  <2>2. RowShapes
    BY <2>1 DEF RowShapes, RowShape, IInv, TypeOK
  <2> QED  BY <1>4, <1>5, <2>1, <2>2 DEF IInv, TypeOK
<1>6. CASE Elsewhere /\ Remember
  BY <1>4, <1>6, ElsewhereRows DEF IInv, TypeOK
<1>7. CASE Tick /\ UNCHANGED << rows, channel, hire >> /\ Remember
  <2>1. clock' \in Nat
    BY <1>7 DEF Tick, IInv, TypeOK
  <2>2. RowShapes
    BY <1>7 DEF RowShapes, RowShape, IInv, TypeOK
  <2> QED  BY <1>4, <1>7, <2>1, <2>2 DEF IInv, TypeOK
<1> QED  BY <1>1, <1>3, <1>5, <1>6, <1>7 DEF Next

LEMMA Invariance == Spec => []IInv
BY InitInv, StepInv, PTL DEF Spec
-----------------------------------------------------------------------------
(* The loop counts streaks: an induction over the history, newest first.   *)

(* One turn of the loop, and what the loop starts from. *)
Turn(outcome, s) ==
    IF s.over \/ outcome = "other" THEN s
    ELSE IF outcome \in Silence /\ s.kind \in {"none", outcome}
         THEN [s EXCEPT !.kind = outcome, !.run = @ + 1]
         ELSE [s EXCEPT !.over = TRUE]

Start == [kind |-> "none", run |-> 0, over |-> FALSE]

Count == [ kind : Silence \cup {"none"}, run : Nat, over : BOOLEAN ]

Loop(g, H) ==
    g = [s \in SUBSET DOMAIN H |-> IF s = {} THEN Start
                                   ELSE Turn(H[Min(s)], g[s \ {Min(s)}])]

LEMMA LoopUnfold ==
    ASSUME NEW H
    PROVE  computeAwolStreaks(H) = (CHOOSE g : Loop(g, H))[DOMAIN H]
BY DEF computeAwolStreaks, FoldRight, MapThenFoldSet, Loop, Turn, Start

LEMMA MinIsLeast ==
    ASSUME NEW s, s \subseteq Nat, s # {}
    PROVE  Min(s) \in s /\ \A k \in s : Min(s) =< k
<1>1. \E m \in s : \A k \in s : m =< k
  BY LeastElement
<1> QED  BY <1>1, Zenon DEF Min

LEMMA TurnType ==
    ASSUME NEW outcome, NEW s \in Count
    PROVE  Turn(outcome, s) \in Count
<1>1. [s EXCEPT !.over = TRUE] \in Count
  BY DEF Count
<1>2. ASSUME outcome \in Silence
      PROVE  [s EXCEPT !.kind = outcome, !.run = @ + 1] \in Count
  <2>1. s.run + 1 \in Nat
    BY DEF Count
  <2> QED  BY <1>2, <2>1, Zenon DEF Count
<1> QED  BY <1>1, <1>2 DEF Turn

LEMMA LoopExists ==
    ASSUME NEW n \in Nat, NEW H, DOMAIN H = 1 .. n
    PROVE  \E g \in [SUBSET (1 .. n) -> Count] : Loop(g, H)
<1> DEFINE D == 1 .. n
           step == [p \in D \X Count |-> Turn(H[p[1]], p[2])]
           c == [s \in SUBSET D |-> Min(s)]
<1>1. IsFiniteSet(D)
  BY FS_Interval
<1>2. Start \in Count
  BY DEF Start, Count
<1>3. step \in [D \X Count -> Count]
  <2>1. \A p \in D \X Count : p[2] \in Count
    OBVIOUS
  <2> QED  BY <2>1, TurnType
<1>4. Picks(c, D)
  <2> SUFFICES ASSUME NEW s \in SUBSET D, s # {} PROVE c[s] \in s
    BY DEF Picks
  <2>1. s \subseteq Nat
    OBVIOUS
  <2> QED  BY <2>1, MinIsLeast
<1>5. PICK g \in [SUBSET D -> Count] : FoldsBy(g, c, Start, step, D)
  <2> HIDE DEF D, step, c
  <2> QED  BY <1>1, <1>2, <1>3, <1>4, FoldExists
<1>6. ASSUME NEW s \in SUBSET D, s # {}
      PROVE  step[<< c[s], g[s \ {c[s]}] >>] = Turn(H[Min(s)], g[s \ {Min(s)}])
  <2>1. c[s] = Min(s) /\ Min(s) \in D /\ g[s \ {Min(s)}] \in Count
    BY <1>4, <1>6 DEF Picks
  <2> QED  BY <2>1
<1>7. Loop(g, H)
  <2> HIDE DEF step, c
  <2> QED  BY <1>5, <1>6 DEF Loop, FoldsBy
<1> QED  BY <1>7

(* The part of the history from position k on.                             *)
Blocked(H, n, k, kind) == \E j \in k .. n : H[j] \notin {kind, "other"}

Trailing(H, n, k, kind) ==
    { i \in k .. n : H[i] = kind /\ ~ Blocked(H, n, i + 1, kind) }

(* What the loop knows when it has come back to position k.                *)
Counted(s, H, n, k) ==
    /\ s \in Count
    /\ s.kind = "none" => s.run = 0
    /\ \A kind \in Silence :
         /\ Blocked(H, n, k, kind) <=> s.over \/ s.kind \notin {"none", kind}
         /\ IsFiniteSet(Trailing(H, n, k, kind))
         /\ Cardinality(Trailing(H, n, k, kind)) = IF s.kind = kind THEN s.run ELSE 0

LEMMA CountedStart ==
    ASSUME NEW n \in Nat, NEW H
    PROVE  Counted(Start, H, n, n + 1)
<1>1. (n + 1) .. n = {}
  OBVIOUS
<1>2. Trailing(H, n, n + 1, "lapsed_offer") = {}
      /\ Trailing(H, n, n + 1, "expired_no_submission") = {}
  BY <1>1 DEF Trailing
<1> QED  BY <1>1, <1>2, FS_EmptySet DEF Counted, Start, Count, Silence, Blocked

LEMMA CountedTurn ==
    ASSUME NEW n \in Nat, NEW H, NEW k \in 1 .. n, NEW s, Counted(s, H, n, k + 1)
    PROVE  Counted(Turn(H[k], s), H, n, k)
<1> DEFINE u == Turn(H[k], s)
<1>1. k .. n = {k} \cup ((k + 1) .. n) /\ k \notin (k + 1) .. n
  OBVIOUS
<1>2. u \in Count /\ s \in Count
  BY TurnType DEF Counted
<1>3. ASSUME NEW kind \in Silence
      PROVE  /\ Blocked(H, n, k, kind) <=>
                  H[k] \notin {kind, "other"} \/ Blocked(H, n, k + 1, kind)
             /\ Trailing(H, n, k, kind) =
                  IF H[k] = kind /\ ~ Blocked(H, n, k + 1, kind)
                  THEN Trailing(H, n, k + 1, kind) \cup {k}
                  ELSE Trailing(H, n, k + 1, kind)
             /\ k \notin Trailing(H, n, k + 1, kind)
  <2>1. Blocked(H, n, k, kind) <=> H[k] \notin {kind, "other"} \/ Blocked(H, n, k + 1, kind)
    BY <1>1 DEF Blocked
  <2> QED  BY <1>1, <2>1 DEF Trailing
<1>4. ASSUME NEW kind \in Silence
      PROVE  /\ IsFiniteSet(Trailing(H, n, k, kind))
             /\ Cardinality(Trailing(H, n, k, kind)) =
                  IF H[k] = kind /\ ~ Blocked(H, n, k + 1, kind)
                  THEN Cardinality(Trailing(H, n, k + 1, kind)) + 1
                  ELSE Cardinality(Trailing(H, n, k + 1, kind))
  <2>1. IsFiniteSet(Trailing(H, n, k + 1, kind))
    BY DEF Counted
  <2> QED  BY <1>3, <2>1, FS_AddElement
<1>5. ASSUME NEW kind \in Silence
      PROVE  /\ Blocked(H, n, k + 1, kind) <=> s.over \/ s.kind \notin {"none", kind}
             /\ Cardinality(Trailing(H, n, k + 1, kind)) = IF s.kind = kind THEN s.run ELSE 0
             /\ s.kind = "none" => s.run = 0
             /\ kind # "none" /\ kind # "other"
  BY DEF Counted, Silence
<1>6. CASE s.over \/ H[k] = "other"
  <2>1. u = s
    BY <1>6 DEF Turn
  <2>2. ASSUME NEW kind \in Silence
        PROVE  Blocked(H, n, k, kind) <=> Blocked(H, n, k + 1, kind)
    BY <1>3, <1>5, <1>6
  <2>3. ASSUME NEW kind \in Silence
        PROVE  Cardinality(Trailing(H, n, k, kind)) = Cardinality(Trailing(H, n, k + 1, kind))
    BY <1>4, <1>5, <1>6
  <2> QED  BY <1>2, <1>4, <1>5, <2>1, <2>2, <2>3 DEF Counted
<1>7. CASE ~ s.over /\ H[k] # "other" /\ (H[k] \notin Silence \/ s.kind \notin {"none", H[k]})
  <2>1. u = [s EXCEPT !.over = TRUE]
    BY <1>7 DEF Turn
  <2>2. u.over /\ u.kind = s.kind /\ u.run = s.run
    BY <1>2, <2>1 DEF Count
  <2>3. ASSUME NEW kind \in Silence
        PROVE  /\ Blocked(H, n, k, kind)
               /\ Cardinality(Trailing(H, n, k, kind)) = Cardinality(Trailing(H, n, k + 1, kind))
    BY <1>3, <1>4, <1>5, <1>7
  <2> HIDE DEF u
  <2>4. Counted(u, H, n, k)
    BY <1>2, <1>4, <1>5, <2>2, <2>3 DEF Counted
  <2> QED  BY <2>4 DEF u
<1>8. CASE ~ s.over /\ H[k] \in Silence /\ s.kind \in {"none", H[k]}
  <2>1. H[k] # "other"
    BY <1>8 DEF Silence
  <2>2. u = [s EXCEPT !.kind = H[k], !.run = @ + 1]
    BY <1>8, <2>1 DEF Turn
  <2>3. ~ u.over /\ u.kind = H[k] /\ u.run = s.run + 1 /\ H[k] # "none" /\ s.run \in Nat
    BY <1>2, <1>5, <1>8, <2>2 DEF Count
  <2>4. ASSUME NEW kind \in Silence
        PROVE  /\ Blocked(H, n, k, kind) <=> kind # H[k]
               /\ Cardinality(Trailing(H, n, k, kind)) = IF H[k] = kind THEN s.run + 1 ELSE 0
    BY <1>3, <1>4, <1>5, <1>8, <2>1
  <2> HIDE DEF u
  <2>5. Counted(u, H, n, k)
    BY <1>2, <1>4, <2>3, <2>4 DEF Counted
  <2> QED  BY <2>5 DEF u
<1> QED  BY <1>6, <1>7, <1>8

LEMMA LoopCounts ==
    ASSUME NEW n \in Nat, NEW H, DOMAIN H = 1 .. n
    PROVE  Counted(computeAwolStreaks(H), H, n, 1)
<1> DEFINE G == CHOOSE g : Loop(g, H)
           M == { m \in Nat : m =< n => Counted(G[(n + 1 - m) .. n], H, n, n + 1 - m) }
<1>1. Loop(G, H)
  BY LoopExists, Zenon
<1>2. \A s \in SUBSET (1 .. n) :
         G[s] = IF s = {} THEN Start ELSE Turn(H[Min(s)], G[s \ {Min(s)}])
  <2> HIDE DEF G
  <2> QED  BY <1>1 DEF Loop
<1> HIDE DEF G
<1>3. 0 \in M
  <2>1. (n + 1 - 0) .. n = {} /\ n + 1 - 0 = n + 1
    OBVIOUS
  <2>2. G[{}] = Start
    BY <1>2
  <2> QED  BY <2>1, <2>2, CountedStart
<1>4. ASSUME NEW m \in M PROVE m + 1 \in M
  <2> SUFFICES ASSUME m + 1 =< n
               PROVE  Counted(G[(n + 1 - (m + 1)) .. n], H, n, n + 1 - (m + 1))
    OBVIOUS
  <2> DEFINE k == n - m
             s == k .. n
  <2>1. /\ k \in 1 .. n /\ n + 1 - (m + 1) = k /\ n + 1 - m = k + 1
        /\ s \in SUBSET (1 .. n) /\ s # {} /\ s \subseteq Nat
        /\ k \in s /\ s \ {k} = (k + 1) .. n
    <3>1. k \in 1 .. n /\ n + 1 - (m + 1) = k /\ n + 1 - m = k + 1
      OBVIOUS
    <3> HIDE DEF k
    <3>2. /\ s \in SUBSET (1 .. n) /\ s # {} /\ s \subseteq Nat
          /\ k \in s /\ s \ {k} = (k + 1) .. n
      BY <3>1
    <3> QED  BY <3>1, <3>2
  <2>2. Min(s) = k
    <3>1. Min(s) \in s /\ Min(s) =< k
      BY <2>1, MinIsLeast
    <3> QED  BY <2>1, <3>1
  <2>3. Counted(G[(k + 1) .. n], H, n, k + 1)
    BY <2>1
  <2> HIDE DEF k, s
  <2>4. G[s] = Turn(H[k], G[(k + 1) .. n])
    BY <1>2, <2>1, <2>2
  <2>5. Counted(G[s], H, n, k)
    BY <2>1, <2>3, <2>4, CountedTurn
  <2> QED  BY <2>1, <2>5 DEF s
<1>5. n \in M
  <2>1. M \subseteq Nat
    OBVIOUS
  <2> HIDE DEF M
  <2> QED  BY <1>3, <1>4, <2>1, NatInduct
<1>6. n + 1 - n = 1
  OBVIOUS
<1>7. Counted(G[1 .. n], H, n, 1)
  BY <1>5, <1>6
<1> QED  BY <1>7, LoopUnfold DEF G

(* The rows of a streak and the positions of a streak are as many. *)
LEMMA LoopCountsRows ==
    ASSUME rows \in [TaskIds -> Row], IsFiniteSet(Existing)
    PROVE  StreaksAreTrailing
<1> DEFINE n == Cardinality(Existing)
           ids == CHOOSE s \in [1 .. n -> Existing] :
                    \A i, j \in DOMAIN s : i < j => s[i] < s[j]
<1>1. n \in Nat /\ Existing \subseteq Nat
  BY FS_CardinalityType, AwolAssumption DEF Existing
<1>2. ids \in [1 .. n -> Existing] /\ Ascending(ids)
  <2>1. \E s \in [1 .. n -> Existing] : \A i, j \in DOMAIN s : i < j => s[i] < s[j]
    BY <1>1, ListInOrder DEF Ascending
  <2>2. ids \in [1 .. n -> Existing] /\ \A i, j \in DOMAIN ids : i < j => ids[i] < ids[j]
    BY <2>1, Zenon
  <2> QED  BY <2>2 DEF Ascending
<1>3. History = [i \in 1 .. n |-> taskToAwolOutcome(rows[ids[i]])]
  BY <1>2 DEF History, Existing
<1> HIDE DEF ids, n
<1>4. ids \in Bijection(1 .. n, Existing)
  BY <1>1, <1>2, ListIsComplete DEF n
<1>5. /\ \A i \in 1 .. n : ids[i] \in Existing
      /\ \A i, j \in 1 .. n : ids[i] = ids[j] => i = j
      /\ \A t \in Existing : \E i \in 1 .. n : ids[i] = t
  BY <1>4 DEF Bijection, Injection, Surjection, IsInjective
<1>6. \A i, j \in 1 .. n : i < j <=> ids[i] < ids[j]
  <2>1. ASSUME NEW i \in 1 .. n, NEW j \in 1 .. n
        PROVE  i < j <=> ids[i] < ids[j]
    <3>1. i \in Int /\ j \in Int
      BY <1>1
    <3>3. ids[i] \in Nat /\ ids[j] \in Nat
      BY <1>1, <1>5
    <3>2. (i < j => ids[i] < ids[j]) /\ (j < i => ids[j] < ids[i])
      BY <1>2 DEF Ascending
    <3> QED  BY <3>1, <3>2, <3>3
  <2> QED  BY <2>1
<1>7. \A t \in TaskIds : ~ Exists(t) => taskToAwolOutcome(rows[t]) = "other"
  BY DEF Exists, taskToAwolOutcome
<1>8. Counted(computeAwolStreaks(History), History, n, 1)
  BY <1>1, <1>3, LoopCounts
<1>9. ASSUME NEW kind \in Silence
      PROVE  Cardinality(Streak(kind)) = Cardinality(Trailing(History, n, 1, kind))
  <2> DEFINE P == Trailing(History, n, 1, kind)
             f == [i \in P |-> ids[i]]
  <2>1. kind # "other"
    BY DEF Silence
  <2>2. ASSUME NEW i \in 1 .. n PROVE i \in P <=> ids[i] \in Streak(kind)
    <3>1. /\ ids[i] \in TaskIds /\ History[i] = taskToAwolOutcome(rows[ids[i]])
          /\ i + 1 \in Nat /\ i \in Nat
      BY <1>1, <1>3, <1>5 DEF Existing
    <3>2. ASSUME ~ Blocked(History, n, i + 1, kind), NEW u \in TaskIds, u > ids[i]
          PROVE  taskToAwolOutcome(rows[u]) \in {kind, "other"}
      <4>1. CASE Exists(u)
        <5>1. PICK j \in 1 .. n : ids[j] = u
          BY <1>5, <4>1 DEF Existing
        <5>2. i < j
          BY <1>1, <1>5, <1>6, <3>2, <5>1
        <5>3. j \in (i + 1) .. n
          BY <1>1, <5>2
        <5> QED  BY <1>3, <3>2, <5>1, <5>3 DEF Blocked
      <4> QED  BY <1>7, <4>1
    <3>3. ASSUME \A u \in TaskIds : u > ids[i] => taskToAwolOutcome(rows[u]) \in {kind, "other"}
          PROVE  ~ Blocked(History, n, i + 1, kind)
      <4> SUFFICES ASSUME NEW j \in (i + 1) .. n PROVE History[j] \in {kind, "other"}
        BY DEF Blocked
      <4>1. j \in 1 .. n /\ i < j
        BY <1>1
      <4>2. ids[j] \in TaskIds /\ ids[j] > ids[i]
        BY <1>1, <1>5, <1>6, <4>1 DEF Existing
      <4> QED  BY <1>3, <3>3, <4>1, <4>2
    <3> QED  BY <3>1, <3>2, <3>3 DEF Trailing, Streak
  <2>3. Streak(kind) \subseteq Existing
    BY <1>7, <2>1 DEF Streak, Existing
  <2>4. P \subseteq 1 .. n
    BY DEF Trailing
  <2> HIDE DEF P
  <2>5. f \in Bijection(P, Streak(kind))
    <3>1. f \in [P -> Streak(kind)]
      BY <2>2, <2>4
    <3>2. \A i, j \in P : f[i] = f[j] => i = j
      BY <1>5, <2>4
    <3>3. \A t \in Streak(kind) : \E i \in P : f[i] = t
      BY <1>5, <2>2, <2>3
    <3> QED  BY <3>1, <3>2, <3>3 DEF Bijection, Injection, Surjection, IsInjective
  <2>6. IsFiniteSet(P)
    BY <1>8 DEF Counted, P
  <2>7. ExistsBijection(P, Streak(kind))
    BY <2>5 DEF ExistsBijection
  <2>8. Cardinality(Streak(kind)) = Cardinality(P)
    BY <2>6, <2>7, FS_Bijection
  <2> QED  BY <2>8 DEF P
<1> QED  BY <1>8, <1>9 DEF StreaksAreTrailing, Counted
-----------------------------------------------------------------------------
(* What the check finds. *)

LEMMA Evaluated ==
    ASSUME rows \in [TaskIds -> Row], IsFiniteSet(Existing)
    PROVE  evaluateAwol(computeAwolStreaks(History)) <=> IsAwol
<1> DEFINE counted == computeAwolStreaks(History)
<1>1. \A kind \in Silence :
         Cardinality(Streak(kind)) = IF counted.kind = kind THEN counted.run ELSE 0
  BY LoopCountsRows DEF StreaksAreTrailing
<1>2. \A kind : Threshold(kind) \in Nat \ {0}
  BY AwolAssumption DEF Threshold
<1> HIDE DEF counted
<1>3. ASSUME evaluateAwol(counted) PROVE IsAwol
  <2>1. counted.kind \in Silence /\ counted.run >= Threshold(counted.kind)
    BY <1>3 DEF evaluateAwol
  <2>2. Cardinality(Streak(counted.kind)) = counted.run
    BY <1>1, <2>1
  <2> QED  BY <2>1, <2>2 DEF IsAwol
<1>4. ASSUME IsAwol PROVE evaluateAwol(counted)
  <2>1. PICK kind \in Silence : Cardinality(Streak(kind)) >= Threshold(kind)
    BY <1>4 DEF IsAwol
  <2>2. counted.kind = kind
    BY <1>1, <1>2, <2>1
  <2>3. Cardinality(Streak(kind)) = counted.run
    BY <1>1, <2>2
  <2> QED  BY <2>1, <2>2, <2>3 DEF evaluateAwol
<1>5. evaluateAwol(counted) <=> IsAwol
  BY <1>3, <1>4
<1> QED  BY <1>5 DEF counted

(* The rows of one kind that speak against the worker. *)
Let(kind) == { t \in Against(kind) : taskToAwolOutcome(rows[t]) = kind }

Guilty == \E kind \in Silence : Cardinality(Let(kind)) >= Threshold(kind)

(* What a check that ran to its end says of the worker. *)
Judged(h) ==
    /\ hire[h].pc = "disable" => Guilty
    /\ hire[h].pc = "insert" /\ hire[h].evaluated /\ absent[h] => hire[h].triggered

JInv == \A h \in Hires : Judged(h)

LEMMA LetExists ==
    ASSUME NEW row, row.status = "absent" PROVE taskToAwolOutcome(row) \notin Silence
BY DEF taskToAwolOutcome, Silence

(* Once let go often enough is often enough for good. *)
LEMMA GuiltStays ==
    ASSUME IInv, IsFiniteSet(Existing'), RowShapes, Remember, Guilty
    PROVE  Guilty'
<1>1. PICK kind \in Silence : Cardinality(Let(kind)) >= Threshold(kind)
  BY DEF Guilty
<1>2. Let(kind) \subseteq Let(kind)'
  BY RowsInv DEF IInv, TypeOK, Let, Against
<1>3. Let(kind)' \subseteq Existing'
  BY RowsInv, LetExists DEF IInv, Let, Against, Existing, Exists
<1>4. IsFiniteSet(Let(kind)')
  BY <1>3, FS_Subset
<1>5. /\ Cardinality(Let(kind)) <= Cardinality(Let(kind)')
      /\ Cardinality(Let(kind)) \in Nat /\ Cardinality(Let(kind)') \in Nat
  <2>1. IsFiniteSet(Let(kind))
    BY <1>2, <1>4, FS_Subset
  <2> QED  BY <1>2, <1>4, <2>1, FS_Subset, FS_CardinalityType
<1>6. Threshold(kind) \in Nat
  BY AwolAssumption DEF Threshold
<1>7. Cardinality(Let(kind)') >= Threshold(kind)
  BY <1>1, <1>5, <1>6
<1>8. Threshold(kind)' = Threshold(kind)
  BY DEF Threshold
<1> QED  BY <1>7, <1>8 DEF Guilty

(* Who is AWOL has let the offers of the streak go. *)
LEMMA AwolIsGuilty ==
    ASSUME IInv, IsAwol
    PROVE  Guilty
<1>1. PICK kind \in Silence : Cardinality(Streak(kind)) >= Threshold(kind)
  BY DEF IsAwol
<1>2. Streak(kind) \subseteq Let(kind) /\ Let(kind) \subseteq Existing
  BY LetExists DEF Streak, Let, Against, IInv, Heard, TypeOK, Existing, Exists
<1>3. IsFiniteSet(Let(kind)) /\ IsFiniteSet(Streak(kind))
  BY <1>2, FS_Subset DEF IInv
<1>4. /\ Cardinality(Streak(kind)) <= Cardinality(Let(kind))
      /\ Cardinality(Streak(kind)) \in Nat /\ Cardinality(Let(kind)) \in Nat
  BY <1>2, <1>3, FS_Subset, FS_CardinalityType
<1>5. Threshold(kind) \in Nat
  BY AwolAssumption DEF Threshold
<1>6. Cardinality(Let(kind)) >= Threshold(kind)
  BY <1>1, <1>4, <1>5
<1> QED  BY <1>6 DEF Guilty

(* A step moves the rows by their shapes, and one hire or none. *)
LEMMA StepShapes ==
    ASSUME IInv, Next
    PROVE  /\ RowShapes /\ Remember
           /\ \/ hire' = hire
              \/ \E h \in Hires : /\ HireStep(h)
                                  /\ \A g \in Hires \ {h} : hire'[g] = hire[g]
<1>1. ASSUME NEW h \in Hires, HireStep(h)
      PROVE  RowShapes /\ \A g \in Hires \ {h} : hire'[g] = hire[g]
  <2>1. RowShapes /\ hire' = [hire EXCEPT ![h] = hire'[h]]
    BY <1>1, HireTypes DEF IInv
  <2> QED  BY <2>1 DEF IInv, TypeOK
<1>2. CASE Dashboard \/ (Tick /\ UNCHANGED << rows, channel, hire >>)
  <2>1. UNCHANGED << rows, hire >>
    BY <1>2 DEF Dashboard, registerNotificationChannel, setChannelAutoBooking,
                removeNotificationChannel
  <2>2. RowShapes
    BY <2>1 DEF RowShapes, RowShape, IInv, TypeOK
  <2> QED  BY <2>1, <2>2 DEF Next
<1>3. CASE Elsewhere
  BY <1>3, ElsewhereRows DEF Next, IInv
<1>4. CASE \E h \in Hires : HireStep(h)
  <2>1. PICK h \in Hires : HireStep(h)
    BY <1>4
  <2>2. RowShapes /\ \A g \in Hires \ {h} : hire'[g] = hire[g]
    BY <1>1, <2>1
  <2> QED  BY <2>1, <2>2, Zenon DEF Next
<1> QED  BY <1>2, <1>3, <1>4 DEF Next

LEMMA JudgedStep ==
    ASSUME IInv, JInv, [Next]_vars
    PROVE  JInv'
<1>1. CASE UNCHANGED vars
  BY <1>1 DEF vars, JInv, Judged, Guilty, Let, Against
<1>2. CASE Next
  <2>1. RowShapes /\ Remember
    BY <1>2, StepShapes
  <2>2. Guilty => Guilty'
    BY <2>1, StepInv, GuiltStays DEF IInv
  <2>3. ASSUME NEW h \in Hires, absent'[h], hire'[h].pc # "channels"
        PROVE  absent[h] /\ IsAwol
    BY <2>1, <2>3 DEF Remember
  <2>4. ASSUME NEW h \in Hires, hire'[h] = hire[h] PROVE Judged(h)'
    BY <2>2, <2>3, <2>4 DEF JInv, Judged
  <2>5. ASSUME NEW h \in Hires, HireStep(h) PROVE Judged(h)'
    <3>1. hire \in [Hires -> Hire] /\ Checked(h) /\ Judged(h)
      BY DEF IInv, TypeOK, JInv
    <3>2. CASE requestHumanWork(h) \/ awolChannels(h) \/ awolFails(h) \/ hireInsert(h)
      <4>1. hire'[h].pc # "disable" /\ ~ (hire'[h].pc = "insert" /\ hire'[h].evaluated)
        <5>1. CASE requestHumanWork(h) \/ hireInsert(h)
          <6> DEFINE new == [Fresh EXCEPT !.pc = "channels", !.autoAccept = AutoBookable]
          <6>1. new.pc = "channels" /\ Fresh.pc = "idle"
            BY DEF Fresh
          <6>2. hire' = [hire EXCEPT ![h] = new] \/ hire' = [hire EXCEPT ![h] = Fresh]
            BY <5>1 DEF requestHumanWork, hireInsert
          <6> HIDE DEF new
          <6> QED  BY <3>1, <6>1, <6>2
        <5>2. CASE awolChannels(h)
          BY <3>1, <5>2 DEF awolChannels, Checked, Hire
        <5>3. CASE awolFails(h)
          BY <3>1, <5>3 DEF awolFails, Hire
        <5> QED  BY <3>2, <5>1, <5>2, <5>3
      <4> QED  BY <4>1 DEF Judged
    <3>3. CASE awolTasks(h)
      <4> DEFINE found == evaluateAwol(computeAwolStreaks(History))
      <4>1. found \in BOOLEAN /\ (found <=> IsAwol)
        BY Verdict, Evaluated DEF IInv, TypeOK
      <4>2. hire' = [hire EXCEPT ![h].pc = IF found THEN "disable" ELSE "insert",
                                 ![h].evaluated = TRUE, ![h].triggered = found]
        BY <3>3 DEF awolTasks
      <4> HIDE DEF found
      <4>3. (hire'[h].pc = "disable" => found) /\ (hire'[h].pc = "insert" => ~ found)
        BY <3>1, <4>1, <4>2 DEF Hire
      <4> QED  BY <2>2, <2>3, <4>1, <4>3, AwolIsGuilty DEF Judged
    <3>4. CASE awolDisable(h)
      <4>1. hire'[h].pc = "insert" /\ hire'[h].triggered
        BY <3>1, <3>4 DEF awolDisable, Checked, Hire
      <4> QED  BY <4>1 DEF Judged
    <3> QED  BY <2>5, <3>2, <3>3, <3>4 DEF HireStep
  <2> QED  BY <1>2, <2>4, <2>5, StepShapes DEF JInv
<1> QED  BY <1>1, <1>2

LEMMA JudgedInit == Init => JInv
BY DEF Init, JInv, Judged, Fresh
-----------------------------------------------------------------------------
(***************************************************************************)
(* Every variable keeps its type; a verdict is kept only of a check that   *)
(* was made, although any of its reads and its update may fail.            *)
(***************************************************************************)
THEOREM TypeCorrect == Spec => []TypeOK
<1>1. IInv => TypeOK
  BY DEF IInv
<1> QED  BY <1>1, Invariance, PTL

(***************************************************************************)
(* The loop that walks back from the newest outcome counts the streak of   *)
(* its comment, on every history of any length that the table can hold.    *)
(***************************************************************************)
THEOREM LoopCountsStreaks == Spec => []StreaksAreTrailing
<1>1. IInv => StreaksAreTrailing
  BY LoopCountsRows DEF IInv, TypeOK
<1> QED  BY <1>1, Invariance, PTL

(***************************************************************************)
(* Auto-booking is switched off only over enough unanswered offers or      *)
(* enough funded tasks refunded to the agent, whatever agents, the         *)
(* dashboard and other hires do between the check's reading of the history *)
(* and its update.                                                         *)
(***************************************************************************)
THEOREM DisablesForCause == Spec => DisabledForCause
<1>1. IInv /\ JInv /\ [Next]_vars =>
        [\A h \in Hires :
           SwitchedOff(h) =>
             \E kind \in Silence :
               Cardinality({ t \in Against(kind) : taskToAwolOutcome(rows[t]) = kind })
                 >= Threshold(kind)]_vars
  BY DEF JInv, Judged, SwitchedOff, Guilty, Let
<1>2. IInv /\ JInv /\ [Next]_vars => JInv'
  BY JudgedStep
<1> QED  BY <1>1, <1>2, JudgedInit, Invariance, PTL DEF Spec, DisabledForCause

(***************************************************************************)
(* A worker who was AWOL all through a hire is not booked by it, whichever *)
(* of its reads were old or failed: the hire books only on a check of its  *)
(* own that found nothing (autoAcceptOffer).                               *)
(***************************************************************************)
THEOREM AbsentKept == Spec => AbsentNotBooked
<1>1. IInv /\ JInv /\ [Next]_vars =>
        [\A t \in TaskIds, h \in Hires :
           /\ ~ Exists(t) /\ rows'[t].status = "accepted"
           /\ hire[h].pc = "insert" /\ hire'[h].pc = "idle"
           => ~ absent[h]]_vars
  <2> SUFFICES ASSUME IInv, JInv, Next, NEW t \in TaskIds, NEW h \in Hires,
                      ~ Exists(t), rows'[t].status = "accepted",
                      hire[h].pc = "insert", hire'[h].pc = "idle", absent[h]
               PROVE  FALSE
    OBVIOUS
  <2>1. HireStep(h)
    BY StepShapes
  <2>2. hireInsert(h)
    BY <2>1 DEF HireStep, requestHumanWork, awolChannels, awolTasks, awolDisable, awolFails
  <2>3. rows # rows'
    BY DEF Exists
  <2>4. PICK u \in TaskIds :
          createTask(u, [NoRow EXCEPT
             !.status = IF autoAcceptOffer(h) THEN "accepted" ELSE "pending",
             !.expiry = clock + 1, !.pinned = autoAcceptOffer(h)])
    BY <2>2, <2>3 DEF hireInsert
  <2>5. autoAcceptOffer(h)
    BY <2>4 DEF createTask, Exists, IInv, TypeOK, NoRow
  <2> QED  BY <2>5 DEF autoAcceptOffer, JInv, Judged
<1>2. IInv /\ JInv /\ [Next]_vars => JInv'
  BY JudgedStep
<1> QED  BY <1>1, <1>2, JudgedInit, Invariance, PTL DEF Spec, AbsentNotBooked
=============================================================================
