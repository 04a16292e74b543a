------------------------- MODULE SettlementSyncProofs -------------------------
(***************************************************************************)
(* Theorems about the background jobs of module Progress: SettlementSync,  *)
(* for every number of tasks, overlapping cron runs, faults and every batch*)
(* limit, and, further down, NotificationDelivery.                         *)
(*                                                                         *)
(* A step moves either the chain or the rows.  What the handlers hold of   *)
(* the chain may be old, but it is of a kind that stays true (Held): that  *)
(* is why their writes, which look at nothing but the row's status, are    *)
(* right when they happen.                                                 *)
(***************************************************************************)
EXTENDS Progress, Sequences, TLAPS

(* The states that say nothing was delivered. *)
Undelivered == {"None", "Funded", "Expired"}

(* The money left the escrow exactly when the task was settled; the row    *)
(* and the chain task are compared only once there is one.                 *)
ChainInv ==
    \A t \in TaskIds :
        /\ state[t] \in Chain!Settled <=> paidTo[t] # "nobody"
        /\ state[t] = "Completed" => paidTo[t] = "worker"
        /\ state[t] = "Expired" => paidTo[t] = "agent"
        /\ terms[t] => state[t] # "None"

(* A reading of the chain, and the chain now. *)
Older(seen, now) ==
    /\ seen \in Chain!Settled => now = seen
    /\ seen \in Chain!Contested => now \notin Undelivered

(* What the handlers hold is still true when they use it. *)
Held ==
    /\ \A t \in TaskIds : confirm[t] \in ChainState => state[t] # "None" /\ terms[t]
    /\ \A t \in TaskIds : dispute[t].pc = "write" => state[t] \notin Undelivered
    /\ DOMAIN run = Runs
    /\ \A r \in Runs : \A t \in DOMAIN run[r] :
         current[t] /\ Older(run[r][t].chain, state[t])

IInv ==
    /\ TypeOK
    /\ ChainInv
    /\ Held
    /\ ActiveIsFunded
    /\ ProjectionAgrees
    /\ DisputedHasGround
-----------------------------------------------------------------------------
(* The shapes of a step. *)

Early(t) ==
    /\ rows[t].status \in {"absent", "pending", "accepted"}
    /\ rows'[t].status \in {"pending", "accepted", "declined", "lapsed"}

Activated(t) ==
    /\ rows[t].status = "accepted" /\ rows'[t].status = "active"
    /\ state[t] # "None" /\ terms[t]

Contends(t) ==
    /\ rows[t].status \in {"active", "pending"} /\ rows'[t].status = "disputed"
    /\ state[t] \notin Undelivered

Ends(t) ==
    /\ rows[t].status \notin Terminal /\ rows[t].status # "absent"
    /\ current[t] /\ terms[t]
    /\ \/ rows'[t].status = "completed" /\ paidTo[t] = "worker"
       \/ rows'[t].status = "expired" /\ paidTo[t] = "agent"

RowShape(t) ==
    rows'[t] = rows[t] \/ Early(t) \/ Activated(t) \/ Contends(t) \/ Ends(t)

RowShapes == \A t \in TaskIds : RowShape(t)

(* The rows move and the chain does not. *)
RowsMove ==
    /\ rows' \in [TaskIds -> Row]
    /\ RowShapes
    /\ UNCHANGED << chainVars, current >>

(* What a handler reads of one chain task stays true of it. *)
ChainShape(t) ==
    /\ state[t] # "None" => state'[t] # "None" /\ terms'[t] = terms[t]
    /\ state[t] \in Chain!Settled => state'[t] = state[t] /\ paidTo'[t] = paidTo[t]
    /\ state[t] \notin Undelivered => state'[t] \notin Undelivered
-----------------------------------------------------------------------------
(* What the statements of the table do to its rows. *)

(* A guarded write changes its own row or nothing. *)
LEMMA Writes ==
    ASSUME rows \in [TaskIds -> Row], NEW t \in TaskIds, NEW row \in Row,
           NEW from, NEW ok \in BOOLEAN, CompareAndSet(t, from, row, ok)
    PROVE  /\ rows' \in [TaskIds -> Row]
           /\ \A u \in TaskIds \ {t} : rows'[u] = rows[u]
           /\ rows'[t] = rows[t] \/ (rows[t].status \in from /\ rows'[t] = row)
BY DEF CompareAndSet

(* A change of status. *)
LEMMA Updates ==
    ASSUME rows \in [TaskIds -> Row], NEW t \in TaskIds, NEW s \in TaskStatus,
           NEW ok \in BOOLEAN, updateTaskStatus(t, s, ok)
    PROVE  /\ rows' \in [TaskIds -> Row]
           /\ \A u \in TaskIds \ {t} : rows'[u] = rows[u]
           /\ \/ rows'[t] = rows[t]
              \/ rows[t].status \in VALID_TRANSITIONS[s] /\ rows'[t].status = s
<1> DEFINE row == [rows[t] EXCEPT !.status = s]
<1>1. row \in Row /\ row.status = s
  BY DEF Row, TaskStatus
<1>2. CompareAndSet(t, VALID_TRANSITIONS[s], row, ok)
  BY DEF updateTaskStatus
<1> HIDE DEF row
<1> QED  BY <1>1, <1>2, Writes

(* Lapsing changes only offers. *)
LEMMA Lapses ==
    ASSUME rows \in [TaskIds -> Row], lapseExpiredOffers
    PROVE  /\ rows' \in [TaskIds -> Row]
           /\ \A t \in TaskIds : rows'[t] = rows[t] \/ Early(t)
<1>1. CASE rows' = rows
  BY <1>1
<1>2. CASE rows' = [t \in TaskIds |->
                      IF PastExpiry(rows[t])
                      THEN [rows[t] EXCEPT !.status = "lapsed"] ELSE rows[t]]
  <2>1. ASSUME NEW t \in TaskIds
        PROVE  /\ [rows[t] EXCEPT !.status = "lapsed"] \in Row
               /\ [rows[t] EXCEPT !.status = "lapsed"].status = "lapsed"
    BY DEF Row, TaskStatus
  <2>2. rows' \in [TaskIds -> Row]
    BY <1>2, <2>1
  <2>3. \A t \in TaskIds : rows'[t] = rows[t] \/ Early(t)
    BY <1>2, <2>1 DEF PastExpiry, Early
  <2> QED  BY <2>2, <2>3
<1> QED  BY <1>1, <1>2 DEF lapseExpiredOffers

(* The stamps stay numbers. *)
LEMMA Stamps ==
    ASSUME updatedAt \in [TaskIds -> Nat], clock \in Nat, Stamp
    PROVE  updatedAt' \in [TaskIds -> Nat]
BY DEF Stamp

(* The row that stands for no row is well typed. *)
LEMMA NoRowType == NoRow \in Row
<1>1. (CHOOSE a \in Agents : TRUE) \in Agents
  BY TableAssumption, Zenon
<1>2. (CHOOSE w \in Workers : TRUE) \in Workers
  BY TableAssumption, Zenon
<1> QED  BY <1>1, <1>2 DEF NoRow, Row
-----------------------------------------------------------------------------
(* The invariant, for the two kinds of step. *)

(* When the rows move: what they claim stays true. *)
LEMMA RowsKeepClaims ==
    ASSUME IInv, RowsMove
    PROVE  (ChainInv /\ ActiveIsFunded /\ ProjectionAgrees /\ DisputedHasGround)'
<1>1. UNCHANGED << state, paidTo, terms, current >>
  BY DEF RowsMove, RowShapes, chainVars
<1>2. ChainInv'
  BY <1>1 DEF IInv, ChainInv
<1>3. ASSUME NEW t \in TaskIds
      PROVE  /\ rows'[t].status = "active" /\ current[t] => state[t] # "None" /\ terms[t]
             /\ rows'[t].status = "completed" => paidTo[t] = "worker" /\ terms[t]
             /\ rows'[t].status = "expired" => paidTo[t] = "agent" /\ terms[t]
             /\ rows'[t].status = "disputed" /\ current[t] => state[t] \notin Undelivered
  <2>1. RowShape(t)
    BY DEF RowsMove, RowShapes
  <2>2. CASE rows'[t] = rows[t]
    BY <2>2 DEF IInv, ActiveIsFunded, ProjectionAgrees, DisputedHasGround, Undelivered
  <2>3. CASE Early(t)
    BY <2>3 DEF Early
  <2>4. CASE Activated(t)
    BY <2>4 DEF Activated
  <2>5. CASE Contends(t)
    BY <2>5 DEF Contends
  <2>6. CASE Ends(t)
    BY <2>6 DEF Ends
  <2> QED  BY <2>1, <2>2, <2>3, <2>4, <2>5, <2>6 DEF RowShape
<1> QED  BY <1>1, <1>2, <1>3 DEF ActiveIsFunded, ProjectionAgrees, DisputedHasGround,
                                 Undelivered

(* When the chain moves: every handler's reading and every row stay right. *)
LEMMA ChainStepInv ==
    ASSUME IInv, NEW t \in TaskIds, chainStep(t)
    PROVE  IInv' /\ RowShapes
<1>1. /\ state \in [TaskIds -> ChainState] /\ paidTo \in [TaskIds -> Chain!Party]
      /\ terms \in [TaskIds -> BOOLEAN]
      /\ UNCHANGED << clock, rows, current, updatedAt, confirm, dispute, run, faults >>
  BY DEF IInv, TypeOK, chainStep
<1>2. \/ Chain!Fund(t)
      \/ UNCHANGED terms /\ (Chain!Deliver(t) \/ Chain!Dispute(t) \/ Chain!Arbitrate(t))
      \/ UNCHANGED terms /\ (Chain!Complete(t) \/ Chain!Refund(t))
      \/ UNCHANGED terms /\ \E party \in {"worker", "agent"} : Chain!Rule(t, party)
  BY DEF chainStep, Chain!TaskStep
<1> DEFINE Right == /\ state' \in [TaskIds -> ChainState]
                    /\ paidTo' \in [TaskIds -> Chain!Party]
                    /\ terms' \in [TaskIds -> BOOLEAN]
                    /\ ChainInv'
                    /\ \A u \in TaskIds : ChainShape(u)
<1> USE DEF Chain!Move, Chain!Settle, Chain!TaskState, ChainState, Chain!Party,
            Chain!Settled, Chain!Contested, ChainShape, ChainInv, Undelivered
<1>3. ASSUME Chain!Fund(t) PROVE Right
  <2>1. PICK same \in BOOLEAN : terms' = [terms EXCEPT ![t] = same]
    BY <1>3 DEF chainStep
  <2> QED  BY <1>1, <1>3, <2>1 DEF Chain!Fund, IInv
<1>4. ASSUME UNCHANGED terms, Chain!Deliver(t) \/ Chain!Dispute(t) \/ Chain!Arbitrate(t)
      PROVE  Right
  BY <1>1, <1>4 DEF Chain!Deliver, Chain!Dispute, Chain!Arbitrate, IInv
<1>5. ASSUME UNCHANGED terms, Chain!Complete(t) \/ Chain!Refund(t) PROVE Right
  BY <1>1, <1>5 DEF Chain!Complete, Chain!Refund, IInv
<1>6. ASSUME UNCHANGED terms, NEW party \in {"worker", "agent"}, Chain!Rule(t, party)
      PROVE  Right
  BY <1>1, <1>6 DEF Chain!Rule, IInv
<1>7. Right
  BY <1>2, <1>3, <1>4, <1>5, <1>6
<1>8. TypeOK'
  BY <1>1, <1>7 DEF IInv, TypeOK
<1>9. Held'
  <2>1. \A u \in TaskIds : confirm[u] \in ChainState => state'[u] # "None" /\ terms'[u]
    BY <1>7 DEF IInv, Held
  <2>2. \A u \in TaskIds : dispute[u].pc = "write" => state'[u] \notin Undelivered
    BY <1>7 DEF IInv, Held
  <2>3. ASSUME NEW r \in Runs, NEW u \in DOMAIN run[r]
        PROVE  current[u] /\ Older(run[r][u].chain, state'[u])
    <3>1. u \in TaskIds /\ current[u] /\ Older(run[r][u].chain, state[u])
      BY DEF IInv, Held, TypeOK
    <3> QED  BY <1>7, <3>1 DEF Older
  <2> QED  BY <1>1, <2>1, <2>2, <2>3 DEF IInv, Held
<1>10. ActiveIsFunded' /\ DisputedHasGround'
  BY <1>1, <1>7 DEF IInv, ActiveIsFunded, DisputedHasGround
<1>11. ProjectionAgrees'
  <2>1. \A u \in TaskIds : paidTo[u] # "nobody" =>
           paidTo'[u] = paidTo[u] /\ terms'[u] = terms[u]
    BY <1>7 DEF IInv
  <2> QED  BY <1>1, <2>1 DEF IInv, ProjectionAgrees
<1> QED  BY <1>1, <1>7, <1>8, <1>9, <1>10, <1>11 DEF IInv, RowShapes, RowShape
-----------------------------------------------------------------------------
(* The steps of the handlers. *)

ConfirmOK ==
    /\ confirm \in [TaskIds -> Confirm]
    /\ \A t \in TaskIds : confirm[t] \in ChainState => state[t] # "None" /\ terms[t]

DisputeOK ==
    /\ dispute \in [TaskIds -> Dispute]
    /\ \A t \in TaskIds : dispute[t].pc = "write" => state[t] \notin Undelivered

RunOK ==
    /\ DOMAIN run = Runs
    /\ \A r \in Runs :
         /\ DOMAIN run[r] \subseteq TaskIds
         /\ \A t \in DOMAIN run[r] :
              run[r][t] \in Seen /\ current[t] /\ Older(run[r][t].chain, state[t])

(* What is left to show of a handler's step. *)
LEMMA MoveInv ==
    ASSUME IInv, RowsMove, clock' \in Nat, updatedAt' \in [TaskIds -> Nat],
           faults' \in 0 .. MaxFaults, ConfirmOK', DisputeOK', RunOK'
    PROVE  IInv' /\ RowShapes
<1>1. UNCHANGED << state, paidTo, terms, current >> /\ rows' \in [TaskIds -> Row]
  BY DEF RowsMove, RowShapes, chainVars
<1>2. TypeOK'
  BY <1>1 DEF IInv, TypeOK, ConfirmOK, DisputeOK, RunOK
<1>3. Held'
  BY DEF Held, ConfirmOK, DisputeOK, RunOK
<1> QED  BY <1>2, <1>3, RowsKeepClaims DEF IInv, RowsMove

(* What holds before the step. *)
LEMMA Before ==
    ASSUME IInv
    PROVE  /\ clock \in Nat /\ rows \in [TaskIds -> Row]
           /\ updatedAt \in [TaskIds -> Nat] /\ faults \in 0 .. MaxFaults
           /\ ConfirmOK /\ DisputeOK /\ RunOK
           /\ Stamp => updatedAt' \in [TaskIds -> Nat]
           /\ rows' = rows /\ UNCHANGED << chainVars, current >> => RowsMove
<1>1. clock \in Nat /\ rows \in [TaskIds -> Row] /\ updatedAt \in [TaskIds -> Nat]
  BY DEF IInv, TypeOK
<1>2. Stamp => updatedAt' \in [TaskIds -> Nat]
  BY <1>1, Stamps
<1>3. rows' = rows /\ UNCHANGED << chainVars, current >> => RowsMove
  BY <1>1 DEF RowsMove, RowShapes, RowShape
<1> QED  BY <1>1, <1>2, <1>3 DEF IInv, TypeOK, Held, ConfirmOK, DisputeOK, RunOK

(* The handlers that a step leaves alone. *)
LEMMA LeftAlone ==
    ASSUME UNCHANGED << chainVars, current >>
    PROVE  /\ ConfirmOK /\ UNCHANGED confirm => ConfirmOK'
           /\ DisputeOK /\ UNCHANGED dispute => DisputeOK'
           /\ RunOK /\ UNCHANGED run => RunOK'
<1>1. UNCHANGED << state, terms, current >>
  BY DEF chainVars
<1> QED  BY <1>1 DEF ConfirmOK, DisputeOK, RunOK

(* The offer stage and the clock. *)
LEMMA OfferStageInv ==
    ASSUME IInv, NEW t \in TaskIds, offerStage(t) \/ clockStep
    PROVE  IInv' /\ RowShapes
<1>1. CASE offerStage(t)
  <2>1. /\ Stamp
        /\ UNCHANGED << clock, chainVars, current, confirm, dispute, run, faults >>
    BY <1>1 DEF offerStage
  <2>2. RowsMove
    <3> DEFINE Lawful == rows' \in [TaskIds -> Row]
                         /\ \A u \in TaskIds : rows'[u] = rows[u] \/ Early(u)
    <3>1. rows \in [TaskIds -> Row]
      BY Before
    <3>2. ASSUME NEW auto \in BOOLEAN,
                 createTask(t, [NoRow EXCEPT
                   !.status = IF auto THEN "accepted" ELSE "pending",
                   !.expiry = clock + 1, !.createdAt = clock, !.pinned = auto])
          PROVE  Lawful
      <4> DEFINE row == [NoRow EXCEPT
                   !.status = IF auto THEN "accepted" ELSE "pending",
                   !.expiry = clock + 1, !.createdAt = clock, !.pinned = auto]
      <4>1. row \in Row /\ row.status \in {"pending", "accepted"}
        <5>1. clock \in Nat /\ clock + 1 \in Nat
          BY Before
        <5> QED  BY NoRowType, <5>1 DEF Row, TaskStatus
      <4>2. rows[t].status = "absent" /\ rows' = [rows EXCEPT ![t] = row]
        BY <3>2 DEF createTask, Exists
      <4> HIDE DEF row
      <4> QED  BY <3>1, <4>1, <4>2 DEF Early
    <3>3. ASSUME acceptTask(t, TRUE) PROVE Lawful
      <4> DEFINE row == [rows[t] EXCEPT !.status = "accepted", !.pinned = TRUE]
      <4>1. row \in Row /\ row.status = "accepted"
        BY <3>1 DEF Row, TaskStatus
      <4>2. CompareAndSet(t, {"pending"}, row, TRUE)
        BY <3>3 DEF acceptTask
      <4> HIDE DEF row
      <4>3. /\ rows' \in [TaskIds -> Row]
            /\ \A u \in TaskIds \ {t} : rows'[u] = rows[u]
            /\ \/ rows'[t] = rows[t]
               \/ rows[t].status = "pending" /\ rows'[t].status = "accepted"
        BY <3>1, <4>1, <4>2 DEF CompareAndSet
      <4> QED  BY <4>3 DEF Early
    <3>4. ASSUME updateTaskStatus(t, "declined", TRUE) PROVE Lawful
      BY <3>1, <3>4, Updates DEF Early, TaskStatus, VALID_TRANSITIONS
    <3>5. ASSUME lapseExpiredOffers PROVE Lawful
      BY <3>1, <3>5, Lapses
    <3>6. Lawful
      BY <1>1, <3>2, <3>3, <3>4, <3>5 DEF offerStage
    <3> QED  BY <2>1, <3>6 DEF RowsMove, RowShapes, RowShape
  <2> QED  BY <2>1, <2>2, Before, LeftAlone, MoveInv
<1>2. CASE clockStep
  BY <1>2, Before, LeftAlone, MoveInv DEF clockStep, Tick
<1> QED  BY <1>1, <1>2

(* Funding: the chain's answer is still right when the row is written. *)
LEMMA FundInv ==
    ASSUME IInv, NEW t \in TaskIds, fundRead(t) \/ fundChain(t) \/ fundWrite(t)
    PROVE  IInv' /\ RowShapes
<1>1. confirm \in [TaskIds -> Confirm] /\ state \in [TaskIds -> ChainState]
      /\ rows \in [TaskIds -> Row]
  BY DEF IInv, TypeOK
<1>2. "idle" \notin ChainState /\ "read" \notin ChainState
  BY DEF ChainState, Chain!TaskState
<1>3. /\ UNCHANGED << clock, chainVars, current, dispute, run, faults >>
      /\ UNCHANGED << state, paidTo, terms >>
  BY DEF fundRead, fundChain, fundWrite, chainVars
<1>4. ASSUME NEW held \in Confirm, confirmTo(t, held),
             held \in ChainState => state[t] # "None" /\ terms[t]
      PROVE  ConfirmOK'
  BY <1>1, <1>3, <1>4, Before DEF confirmTo, ConfirmOK
<1>5. CASE fundRead(t)
  <2>1. RowsMove
    BY <1>1, <1>3, <1>5, Lapses DEF fundRead, RowsMove, RowShapes, RowShape
  <2>2. ConfirmOK' /\ Stamp
    BY <1>2, <1>4, <1>5 DEF fundRead, Confirm
  <2> QED  BY <1>3, <2>1, <2>2, Before, LeftAlone, MoveInv
<1>6. CASE fundChain(t)
  <2>1. UNCHANGED << rows, updatedAt >>
    BY <1>6 DEF fundChain
  <2>2. ConfirmOK'
    BY <1>1, <1>2, <1>4, <1>6 DEF fundChain, Confirm
  <2> QED  BY <1>3, <2>1, <2>2, Before, LeftAlone, MoveInv
<1>7. CASE fundWrite(t)
  <2>1. state[t] # "None" /\ terms[t]
    BY <1>7, Before DEF fundWrite, ConfirmOK
  <2>2. PICK ok \in BOOLEAN : markTaskFunded(t, ok)
    BY <1>7 DEF fundWrite
  <2>3. RowsMove
    <3> DEFINE row == [rows[t] EXCEPT !.status = "active", !.funded = TRUE]
    <3>1. row \in Row /\ row.status = "active"
      BY <1>1 DEF Row, TaskStatus
    <3>2. CompareAndSet(t, {"accepted"}, row, ok)
      BY <2>2 DEF markTaskFunded
    <3> HIDE DEF row
    <3> QED  BY <1>1, <1>3, <2>1, <3>1, <3>2, Writes DEF RowsMove, RowShapes, RowShape, Activated
  <2>4. ConfirmOK' /\ Stamp
    BY <1>2, <1>4, <1>7 DEF fundWrite, Confirm
  <2> QED  BY <1>3, <2>3, <2>4, Before, LeftAlone, MoveInv
<1> QED  BY <1>5, <1>6, <1>7

(* Disputing: the ground that was found is still there. *)
LEMMA DisputeInv ==
    ASSUME IInv, NEW t \in TaskIds,
           disputeRead(t) \/ disputeJudge(t) \/ disputeRefused(t) \/ disputeWrite(t)
    PROVE  IInv' /\ RowShapes
<1>1. dispute \in [TaskIds -> Dispute] /\ rows \in [TaskIds -> Row]
  BY DEF IInv, TypeOK
<1>2. /\ UNCHANGED << clock, chainVars, current, confirm, run, faults >>
      /\ UNCHANGED << state, paidTo, terms >>
  BY DEF disputeRead, disputeJudge, disputeRefused, disputeWrite, chainVars
<1>3. ASSUME NEW d \in Dispute, dispute' = [dispute EXCEPT ![t] = d],
             d.pc = "write" => state[t] \notin Undelivered
      PROVE  DisputeOK'
  BY <1>1, <1>2, <1>3, Before DEF DisputeOK
<1>4. Idle \in Dispute /\ Idle.pc = "idle"
  BY DEF Idle, Dispute
<1>5. CASE disputeRead(t)
  <2>1. RowsMove
    BY <1>1, <1>2, <1>5, Lapses DEF disputeRead, RowsMove, RowShapes, RowShape
  <2> DEFINE d == [ pc |-> "read", status |-> rows'[t].status,
                    funded |-> rows'[t].funded ]
  <2>2. d \in Dispute /\ d.pc = "read"
    BY <1>5, <2>1 DEF disputeRead, RowsMove, Dispute, Row
  <2>3. dispute' = [dispute EXCEPT ![t] = d] /\ Stamp
    BY <1>5 DEF disputeRead
  <2> HIDE DEF d
  <2>4. DisputeOK'
    BY <1>3, <2>2, <2>3
  <2> QED  BY <1>2, <2>1, <2>3, <2>4, Before, LeftAlone, MoveInv
<1>6. CASE disputeJudge(t) \/ disputeRefused(t)
  <2>1. UNCHANGED << rows, updatedAt >>
    BY <1>6 DEF disputeJudge, disputeRefused
  <2>2. HasGround(t) => state[t] \notin Undelivered
    BY DEF HasGround, Undelivered
  <2>3. [dispute[t] EXCEPT !.pc = "write"] \in Dispute
    BY <1>1 DEF Dispute
  <2>4. \/ dispute' = [dispute EXCEPT ![t] = Idle]
        \/ /\ HasGround(t)
           /\ dispute' = [dispute EXCEPT ![t] = [dispute[t] EXCEPT !.pc = "write"]]
    BY <1>1, <1>6 DEF disputeJudge, disputeRefused
  <2>5. DisputeOK'
    BY <1>3, <1>4, <2>2, <2>3, <2>4
  <2> QED  BY <1>2, <2>1, <2>5, Before, LeftAlone, MoveInv
<1>7. CASE disputeWrite(t)
  <2>1. state[t] \notin Undelivered
    BY <1>7, Before DEF disputeWrite, DisputeOK
  <2>2. PICK ok \in BOOLEAN : updateTaskStatus(t, "disputed", ok)
    BY <1>7 DEF disputeWrite
  <2>3. RowsMove
    <3>1. VALID_TRANSITIONS["disputed"] = {"active", "pending"}
          /\ "disputed" \in TaskStatus
      BY DEF VALID_TRANSITIONS, TaskStatus
    <3> QED  BY <1>1, <1>2, <2>1, <2>2, <3>1, Updates DEF RowsMove, RowShapes, RowShape, Contends
  <2>4. DisputeOK' /\ Stamp
    BY <1>3, <1>4, <1>7 DEF disputeWrite
  <2> QED  BY <1>2, <2>3, <2>4, Before, LeftAlone, MoveInv
<1> QED  BY <1>5, <1>6, <1>7
-----------------------------------------------------------------------------
(* The steps of the cron job. *)

(* A row that the run has judged may be written as the judgement says.     *)
LEMMA JudgedRight ==
    ASSUME IInv, NEW r \in Runs, NEW t \in DOMAIN run[r], Read(r)
    PROVE  /\ t \in TaskIds /\ current[t]
           /\ Target(r, t) \in {"none", "completed", "expired", "disputed", "resolved"}
           /\ Target(r, t) = "completed" => terms[t] /\ paidTo[t] = "worker"
           /\ Target(r, t) = "expired" => terms[t] /\ paidTo[t] = "agent"
           /\ Target(r, t) = "disputed" => state[t] \notin Undelivered
           /\ Target(r, t) = "resolved" => terms[t] /\ paidTo[t] \in {"worker", "agent"}
<1>1. /\ t \in TaskIds /\ current[t] /\ Older(run[r][t].chain, state[t])
      /\ run[r][t] \in Seen
  BY Before DEF RunOK
<1>2. /\ state[t] \in Chain!Settled <=> paidTo[t] # "nobody"
      /\ state[t] = "Completed" => paidTo[t] = "worker"
      /\ state[t] = "Expired" => paidTo[t] = "agent"
      /\ paidTo[t] \in Chain!Party
  BY <1>1 DEF IInv, ChainInv, TypeOK
<1>3. CASE ~ terms[t]
  BY <1>1, <1>3 DEF Target
<1>4. CASE terms[t]
  <2>1. Target(r, t) = settlementTargetFor(run[r][t].row, run[r][t].chain)
    BY <1>4 DEF Target
  <2>2. CASE run[r][t].chain = "Completed"
    BY <1>1, <1>2, <1>4, <2>1, <2>2 DEF settlementTargetFor, Older, Chain!Settled
  <2>3. CASE run[r][t].chain = "Expired"
    BY <1>1, <1>2, <1>4, <2>1, <2>3 DEF settlementTargetFor, Older, Chain!Settled
  <2>4. CASE run[r][t].chain = "Resolved"
    BY <1>1, <1>2, <1>4, <2>1, <2>4
       DEF settlementTargetFor, Older, Chain!Settled, Chain!Party
  <2>5. CASE run[r][t].chain \notin {"Completed", "Expired", "Resolved"}
    <3>1. Target(r, t) = IF run[r][t].chain \in Chain!Contested /\ run[r][t].row = "active"
                         THEN "disputed" ELSE "none"
      BY <2>1, <2>5 DEF settlementTargetFor
    <3> QED  BY <1>1, <3>1 DEF Older
  <2> QED  BY <2>2, <2>3, <2>4, <2>5
<1> QED  BY <1>3, <1>4

(* A write that is right keeps the rows right. *)
LEMMA WriteMoves ==
    ASSUME IInv, NEW t \in TaskIds, NEW s \in {"completed", "expired", "disputed"},
           write(t, s), UNCHANGED << chainVars, current >>, current[t],
           s = "completed" => terms[t] /\ paidTo[t] = "worker",
           s = "expired" => terms[t] /\ paidTo[t] = "agent",
           s = "disputed" => state[t] \notin Undelivered
    PROVE  RowsMove /\ faults' \in 0 .. MaxFaults
<1>1. rows \in [TaskIds -> Row] /\ faults \in 0 .. MaxFaults /\ MaxFaults \in Nat
  BY Before, SyncAssumption
<1>2. faults' \in 0 .. MaxFaults
  <2>1. UNCHANGED faults \/ Fault
    BY DEF write
  <2> QED  BY <1>1, <2>1 DEF Fault
<1>3. CASE rows' = rows
  BY <1>2, <1>3, Before
<1>4. ASSUME NEW ok \in BOOLEAN, updateTaskStatus(t, s, ok) PROVE RowsMove
  <2>1. /\ rows' \in [TaskIds -> Row]
        /\ \A u \in TaskIds \ {t} : rows'[u] = rows[u]
        /\ \/ rows'[t] = rows[t]
           \/ rows[t].status \in VALID_TRANSITIONS[s] /\ rows'[t].status = s
    BY <1>1, <1>4, Updates DEF TaskStatus
  <2>2. RowShape(t)
    <3>1. CASE s = "disputed"
      BY <2>1, <3>1 DEF VALID_TRANSITIONS, RowShape, Contends
    <3>2. CASE s = "completed"
      BY <2>1, <3>2 DEF VALID_TRANSITIONS, RowShape, Ends, Terminal
    <3>3. CASE s = "expired"
      BY <2>1, <3>3 DEF VALID_TRANSITIONS, RowShape, Ends, Terminal
    <3> QED  BY <3>1, <3>2, <3>3
  <2> QED  BY <2>1, <2>2 DEF RowsMove, RowShapes, RowShape
<1> QED  BY <1>2, <1>3, <1>4 DEF write

(* The rows a run no longer holds are no concern of it. *)
LEMMA Drops ==
    ASSUME RunOK, UNCHANGED << state, current >>, NEW r \in Runs, NEW t, handled(r, t)
    PROVE  RunOK'
<1>1. \A q \in Runs \ {r} : run'[q] = run[q]
  BY DEF handled, RunOK
<1>2. run'[r] = [u \in DOMAIN run[r] \ {t} |-> run[r][u]]
  BY DEF handled, RunOK
<1>3. DOMAIN run' = Runs
  BY DEF handled, RunOK
<1> QED  BY <1>1, <1>2, <1>3 DEF RunOK

(* The steps of a run. *)
LEMMA SyncInv ==
    ASSUME IInv, NEW r \in Runs, SyncStep(r)
    PROVE  IInv' /\ RowShapes
<1>1. RunOK /\ MaxFaults \in Nat /\ faults \in 0 .. MaxFaults
  BY Before, SyncAssumption
<1>2. ASSUME UNCHANGED << clock, chainVars, current, confirm, dispute >>,
             RowsMove, RunOK', faults' \in 0 .. MaxFaults,
             updatedAt' = updatedAt \/ Stamp
      PROVE  IInv' /\ RowShapes
  BY <1>2, Before, LeftAlone, MoveInv
<1>3. CASE syncQuery(r)
  <2>1. UNCHANGED << clock, rows, chainVars, current, updatedAt, confirm, dispute, faults >>
    BY <1>3 DEF syncQuery
  <2>2. PICK B \in Batches :
          run' = [run EXCEPT ![r] =
                    [t \in B |-> [ row |-> rows[t].status, chain |-> "unread" ]]]
    BY <1>3 DEF syncQuery
  <2>3. \A t \in B : /\ t \in TaskIds /\ current[t]
                     /\ rows[t].status \in {"active", "disputed"}
    BY <2>2 DEF Batches, Candidates, SYNCABLE_STATUSES
  <2>4. RunOK'
    <3>1. \A q \in Runs \ {r} : run'[q] = run[q]
      BY <1>1, <2>2 DEF RunOK
    <3>2. run'[r] = [t \in B |-> [ row |-> rows[t].status, chain |-> "unread" ]]
      BY <1>1, <2>2 DEF RunOK
    <3>3. DOMAIN run' = Runs /\ UNCHANGED << state, current >>
      BY <1>1, <2>1, <2>2 DEF RunOK, chainVars
    <3>4. \A t \in B : /\ run'[r][t] \in Seen /\ Older(run'[r][t].chain, state[t])
      BY <2>3, <3>2 DEF Seen, Older, Chain!Settled, Chain!Contested
    <3> QED  BY <1>1, <2>3, <3>1, <3>2, <3>3, <3>4 DEF RunOK
  <2> QED  BY <1>1, <1>2, <2>1, <2>4, Before
<1>4. CASE syncDies(r)
  <2>1. /\ UNCHANGED << clock, rows, chainVars, current, updatedAt, confirm, dispute >>
        /\ run' = [run EXCEPT ![r] = << >>] /\ Fault
    BY <1>4 DEF syncDies
  <2>2. RunOK'
    BY <1>1, <2>1 DEF RunOK, chainVars
  <2> QED  BY <1>1, <1>2, <2>1, <2>2, Before DEF Fault
<1>5. ASSUME NEW t \in TaskIds, syncRead(r, t) PROVE IInv' /\ RowShapes
  <2>1. /\ UNCHANGED << clock, rows, chainVars, current, updatedAt, confirm, dispute >>
        /\ UNCHANGED << state, current >>
        /\ t \in DOMAIN run[r]
    BY <1>5 DEF syncRead, chainVars
  <2>2. CASE run' = [run EXCEPT ![r][t].chain = state[t]] /\ UNCHANGED faults
    <3>1. run' = [run EXCEPT ![r] = [run[r] EXCEPT ![t] =
                                       [run[r][t] EXCEPT !.chain = state[t]]]]
      BY <2>2
    <3>2. run[r][t] \in Seen /\ state[t] \in ChainState /\ current[t]
      BY <1>1, <2>1 DEF RunOK, IInv, TypeOK
    <3>3. /\ [run[r][t] EXCEPT !.chain = state[t]] \in Seen
          /\ [run[r][t] EXCEPT !.chain = state[t]].chain = state[t]
      BY <3>2 DEF Seen
    <3>4. Older(state[t], state[t])
      BY DEF Older, Chain!Contested, Undelivered
    <3>5. RunOK'
      <4>1. /\ \A q \in Runs \ {r} : run'[q] = run[q]
            /\ DOMAIN run' = Runs
            /\ DOMAIN run'[r] = DOMAIN run[r]
            /\ \A u \in DOMAIN run[r] \ {t} : run'[r][u] = run[r][u]
            /\ run'[r][t] = [run[r][t] EXCEPT !.chain = state[t]]
        BY <1>1, <2>1, <3>1 DEF RunOK
      <4> QED  BY <1>1, <2>1, <3>2, <3>3, <3>4, <4>1 DEF RunOK
    <3> QED  BY <1>1, <1>2, <2>1, <2>2, <3>5, Before
  <2>3. CASE handled(r, t) /\ Fault
    BY <1>1, <1>2, <2>1, <2>3, Before, Drops DEF Fault
  <2> QED  BY <1>5, <2>2, <2>3 DEF syncRead
<1>6. ASSUME NEW t \in TaskIds, syncSettle(r, t) PROVE IInv' /\ RowShapes
  <2>1. /\ UNCHANGED << clock, chainVars, current, confirm, dispute >>
        /\ UNCHANGED << state, current >>
        /\ Read(r) /\ t \in DOMAIN run[r] /\ handled(r, t) /\ Stamp
        /\ Target(r, t) # "resolved"
    BY <1>6 DEF syncSettle, chainVars
  <2>2. RunOK'
    BY <1>1, <2>1, Drops
  <2>3. RowsMove /\ faults' \in 0 .. MaxFaults
    <3>1. CASE Target(r, t) = "none"
      BY <1>1, <1>6, <2>1, <3>1, Before DEF syncSettle
    <3>2. CASE Target(r, t) # "none"
      <4>1. write(t, Target(r, t))
        BY <1>6, <3>2 DEF syncSettle
      <4> QED  BY <2>1, <3>2, <4>1, JudgedRight, WriteMoves
    <3> QED  BY <3>1, <3>2
  <2> QED  BY <1>2, <2>1, <2>2, <2>3
<1>7. ASSUME NEW t \in TaskIds, syncResolve(r, t) PROVE IInv' /\ RowShapes
  <2>1. /\ UNCHANGED << clock, chainVars, current, confirm, dispute >>
        /\ UNCHANGED << state, current >>
        /\ Read(r) /\ t \in DOMAIN run[r] /\ handled(r, t) /\ Stamp
        /\ Target(r, t) = "resolved"
    BY <1>7 DEF syncResolve, chainVars
  <2>2. RunOK'
    BY <1>1, <2>1, Drops
  <2>3. RowsMove /\ faults' \in 0 .. MaxFaults
    <3>1. CASE write(t, resolvedOutcome(t))
      <4>1. current[t] /\ terms[t] /\ paidTo[t] \in {"worker", "agent"}
        BY <2>1, JudgedRight
      <4>2. /\ resolvedOutcome(t) \in {"completed", "expired", "disputed"}
            /\ resolvedOutcome(t) = "completed" => paidTo[t] = "worker"
            /\ resolvedOutcome(t) = "expired" => paidTo[t] = "agent"
            /\ resolvedOutcome(t) # "disputed"
        BY <4>1 DEF resolvedOutcome
      <4> QED  BY <2>1, <3>1, <4>1, <4>2, WriteMoves
    <3>2. CASE UNCHANGED rows /\ Fault
      BY <1>1, <2>1, <3>2, Before DEF Fault
    <3> QED  BY <1>7, <3>1, <3>2 DEF syncResolve
  <2> QED  BY <1>2, <2>1, <2>2, <2>3
<1> QED  BY <1>3, <1>4, <1>5, <1>6, <1>7 DEF SyncStep
-----------------------------------------------------------------------------
(* The invariant. *)

(* Init establishes it. *)
LEMMA InitInv == Init => IInv
<1> SUFFICES ASSUME Init PROVE IInv
  OBVIOUS
<1>1. /\ NoRow \in Row /\ NoRow.status = "absent"
      /\ Earlier \in Row /\ Earlier.status = "active"
  <2>1. NoRow \in Row /\ NoRow.status = "absent"
    BY NoRowType DEF NoRow
  <2> QED  BY <2>1 DEF Earlier, Row, TaskStatus
<1>2. /\ rows \in [TaskIds -> Row]
      /\ \A t \in TaskIds : /\ rows[t].status \in {"absent", "active"}
                            /\ rows[t].status = "active" => ~ current[t]
  BY <1>1 DEF Init
<1>3. /\ state = [t \in TaskIds |-> "None"] /\ paidTo = [t \in TaskIds |-> "nobody"]
      /\ terms = [t \in TaskIds |-> FALSE]
  BY DEF Init, Chain!Init
<1>4. Idle \in Dispute /\ Idle.pc = "idle"
  BY DEF Idle, Dispute
<1>5. \A r \in Runs : DOMAIN run[r] = {}
  BY DEF Init
<1>6. TypeOK
  <2>1. faults \in 0 .. MaxFaults /\ clock \in Nat /\ updatedAt \in [TaskIds -> Nat]
    BY SyncAssumption DEF Init
  <2>2. /\ state \in [TaskIds -> ChainState] /\ paidTo \in [TaskIds -> Chain!Party]
        /\ terms \in [TaskIds -> BOOLEAN]
    BY <1>3 DEF ChainState, Chain!TaskState, Chain!Party
  <2>3. confirm \in [TaskIds -> Confirm] /\ dispute \in [TaskIds -> Dispute]
        /\ current \in [TaskIds -> BOOLEAN]
    BY <1>4 DEF Init, Confirm
  <2> QED  BY <1>2, <1>5, <2>1, <2>2, <2>3 DEF TypeOK
<1>7. ChainInv
  BY <1>3 DEF ChainInv, Chain!Settled
<1>8. Held
  <2>1. \A t \in TaskIds : confirm[t] \notin ChainState /\ dispute[t].pc = "idle"
    BY <1>4 DEF Init, ChainState, Chain!TaskState
  <2> QED  BY <1>5, <2>1 DEF Init, Held
<1>9. ActiveIsFunded /\ ProjectionAgrees /\ DisputedHasGround
  BY <1>2 DEF ActiveIsFunded, ProjectionAgrees, DisputedHasGround
<1> QED  BY <1>6, <1>7, <1>8, <1>9 DEF IInv

(* Every step keeps it. *)
LEMMA StepInv == IInv /\ [Next]_vars => IInv' /\ RowShapes
<1> SUFFICES ASSUME IInv, [Next]_vars PROVE IInv' /\ RowShapes
  OBVIOUS
<1>1. CASE UNCHANGED vars
  <2>1. UNCHANGED << clock, rows, chainVars, current, updatedAt, confirm, dispute,
                     run, faults >>
    BY <1>1 DEF vars, chainVars
  <2> QED  BY <2>1, Before, LeftAlone, MoveInv
<1>2. ASSUME NEW t \in TaskIds, chainStep(t) \/ offerStage(t) \/ HandlerStep(t)
      PROVE  IInv' /\ RowShapes
  BY <1>2, ChainStepInv, OfferStageInv, FundInv, DisputeInv DEF HandlerStep
<1>3. ASSUME NEW r \in Runs, SyncStep(r) PROVE IInv' /\ RowShapes
  BY <1>3, SyncInv
<1>4. CASE clockStep
  BY <1>4, TableAssumption, OfferStageInv
<1> QED  BY <1>1, <1>2, <1>3, <1>4 DEF Next

(* The invariant holds throughout. *)
LEMMA Invariance == Spec => []IInv
BY InitInv, StepInv, PTL DEF Spec
-----------------------------------------------------------------------------
(***************************************************************************)
(* Every variable keeps its type, for any number of tasks, runs and faults.*)
(***************************************************************************)
THEOREM TypeCorrect == Spec => []TypeOK
<1>1. IInv => TypeOK
  BY DEF IInv
<1> QED  BY <1>1, Invariance, PTL

(***************************************************************************)
(* The database is never ahead of the money: an active row of the current  *)
(* escrow has its task, its worker and its amount on the chain, although   *)
(* /api/fund-task reads the chain one await before it writes the row.      *)
(***************************************************************************)
THEOREM NeverAheadOfMoney == Spec => []ActiveIsFunded
<1>1. IInv => ActiveIsFunded
  BY DEF IInv
<1> QED  BY <1>1, Invariance, PTL

(***************************************************************************)
(* A settled row says whom the escrow paid, however many runs race to      *)
(* write it and however old their readings: settled is final on the chain, *)
(* and syncSettledTasks writes nothing that was not settled when read.     *)
(***************************************************************************)
THEOREM SettledAsPaid == Spec => []ProjectionAgrees
<1>1. IInv => ProjectionAgrees
  BY DEF IInv
<1> QED  BY <1>1, Invariance, PTL

(***************************************************************************)
(* No row of the current escrow is disputed over work that was not         *)
(* delivered: /api/dispute and the sync both ask the chain first, and a    *)
(* delivery is never undone.                                               *)
(***************************************************************************)
THEOREM DisputesHaveGround == Spec => []DisputedHasGround
<1>1. IInv => DisputedHasGround
  BY DEF IInv
<1> QED  BY <1>1, Invariance, PTL

(***************************************************************************)
(* What has ended stays as it ended: the statuses in VALID_TRANSITIONS     *)
(* leave no way out of it, whoever acts on an older reading.               *)
(***************************************************************************)
THEOREM EndedForGood == Spec => EndedStays
<1> DEFINE A == \A t \in TaskIds : rows[t].status \in Terminal => rows'[t] = rows[t]
<1>1. IInv /\ [Next]_vars => A
  BY StepInv DEF RowShapes, RowShape, Early, Activated, Contends, Ends, Terminal
<1>2. Spec => [][A]_vars
  BY <1>1, Invariance, PTL DEF Spec
<1> QED  BY <1>2 DEF EndedStays

(***************************************************************************)
(* A row left on a superseded escrow is never settled by what the new one  *)
(* says: the query of syncSettledTasks filters on escrow_contract.         *)
(***************************************************************************)
THEOREM SupersededKept == Spec => SupersededUntouched
<1> DEFINE A == \A t \in TaskIds :
                   ~ current[t] /\ rows[t].status \notin Terminal =>
                       rows'[t].status \notin {"completed", "expired"}
<1>1. IInv /\ [Next]_vars => A
  BY StepInv DEF RowShapes, RowShape, Early, Activated, Contends, Ends, Terminal
<1>2. Spec => [][A]_vars
  BY <1>1, Invariance, PTL DEF Spec
<1> QED  BY <1>2 DEF SupersededUntouched
-----------------------------------------------------------------------------
(* Notifications *)

(* All that was tried so far may clear up. *)
AllTransient(s) == \A i \in 1 .. Len(s.tries) : s.tries[i] = "transient"

(* A series, from its point of execution. *)
Consistent(s) ==
    /\ s.pc = "done" <=> s.outcome # "none"
    /\ s.pc \in {"idle", "start"} => s.tries = << >>
    /\ s.pc \in {"posting", "backoff"} => AllTransient(s) /\ Len(s.tries) < maxAttempts
    /\ Len(s.tries) <= maxAttempts
    /\ \A i \in 1 .. Len(s.tries) - 1 : s.tries[i] = "transient"

(* The posts of one channel, of which the one under way is the newest.     *)
Posts(c) ==
    /\ series[c].outcome = "delivered" => Len(series[c].tries) \in heard[c]
    /\ heard[c] \cup transit[c] \subseteq
         1 .. Len(series[c].tries) + (IF series[c].pc = "posting" THEN 1 ELSE 0)

(* What the caller does, and the series there are. *)
Called(c) ==
    /\ caller \in {"lookup", "load"} => series[c].pc = "idle" /\ found = {}
    /\ series[c].pc = "idle" <=> c \notin found
    /\ caller = "goes on" => series[c].pc \in {"idle", "done"}

TellInv ==
    /\ Delivery!TypeOK
    /\ \A c \in Channels : Consistent(series[c]) /\ Posts(c) /\ Called(c)
-----------------------------------------------------------------------------
(* The invariant, of one channel. *)
LEMMA Known ==
    ASSUME TellInv, NEW c \in Channels
    PROVE  /\ series \in [Channels -> Delivery!Series] /\ series[c] \in Delivery!Series
           /\ series[c].tries \in Seq(Delivery!Answers) /\ Len(series[c].tries) \in Nat
           /\ Consistent(series[c]) /\ Posts(c) /\ Called(c)
<1>1. series \in [Channels -> Delivery!Series] /\ series[c] \in Delivery!Series
  BY DEF TellInv, Delivery!TypeOK
<1>2. series[c].tries \in Seq(Delivery!Answers)
  BY <1>1 DEF Delivery!Series
<1>3. Len(series[c].tries) \in Nat
  BY <1>2
<1> QED  BY <1>1, <1>2, <1>3 DEF TellInv

(* The two states a series begins in. *)
LEMMA Begins ==
    LET start == [Delivery!Fresh EXCEPT !.pc = "start"]
    IN  /\ start \in Delivery!Series /\ start.pc = "start" /\ start.outcome = "none"
        /\ start.tries = << >>
        /\ Delivery!Fresh \in Delivery!Series /\ Delivery!Fresh.pc = "idle" /\ Delivery!Fresh.outcome = "none"
        /\ Delivery!Fresh.tries = << >>
<1>1. << >> \in Seq(Delivery!Answers)
  OBVIOUS
<1>2. /\ Delivery!Fresh \in Delivery!Series /\ Delivery!Fresh.pc = "idle" /\ Delivery!Fresh.outcome = "none"
      /\ Delivery!Fresh.tries = << >>
  BY <1>1 DEF Delivery!Fresh, Delivery!Series
<1> HIDE DEF Delivery!Fresh
<1> QED  BY <1>2 DEF Delivery!Series

(* A step of one channel. *)

LEMMA ChannelInv ==
    ASSUME TellInv, NEW c \in Channels, NEW s \in Delivery!Series,
           series' = [series EXCEPT ![c] = s],
           transit' \in [Channels -> SUBSET Nat], heard' \in [Channels -> SUBSET Nat],
           \A d \in Channels \ {c} : transit'[d] = transit[d] /\ heard'[d] = heard[d],
           UNCHANGED << caller, found >>,
           Consistent(s), Posts(c)', Called(c)'
    PROVE  TellInv'
<1>1. series \in [Channels -> Delivery!Series]
  BY DEF TellInv, Delivery!TypeOK
<1>2. series'[c] = s /\ \A d \in Channels \ {c} : series'[d] = series[d]
  BY <1>1
<1>3. Delivery!TypeOK'
  BY <1>1 DEF TellInv, Delivery!TypeOK
<1>4. ASSUME NEW d \in Channels
      PROVE  Consistent(series'[d]) /\ Posts(d)' /\ Called(d)'
  <2>1. CASE d = c
    BY <1>2, <2>1
  <2>2. CASE d # c
    BY <1>2, <2>2 DEF TellInv, Posts, Called
  <2> QED  BY <2>1, <2>2
<1> QED  BY <1>3, <1>4 DEF TellInv

(* The result of an attempt. *)
LEMMA Afterwards ==
    ASSUME Delivery!PolicyAssumption, NEW s \in Delivery!Series, Consistent(s), s.pc = "posting",
           NEW answer \in {"ok", "transient", "permanent"}
    PROVE  LET next == Delivery!afterAttempt(s, answer)
           IN  /\ next \in Delivery!Series /\ Consistent(next)
               /\ next.pc \in {"done", "backoff"}
               /\ Len(next.tries) = Len(s.tries) + 1
               /\ next.outcome = "delivered" => answer = "ok"
<1> DEFINE tries == Append(s.tries, answer)
           e == [s EXCEPT !.tries = tries]
<1>1. s.tries \in Seq(Delivery!Answers) /\ answer \in Delivery!Answers /\ s.outcome = "none"
  BY DEF Delivery!Series, Delivery!Answers, Delivery!Outcomes, Consistent
<1>2. /\ tries \in Seq(Delivery!Answers) /\ Len(tries) = Len(s.tries) + 1
      /\ \A i \in 1 .. Len(s.tries) : tries[i] = s.tries[i]
      /\ tries[Len(s.tries) + 1] = answer
  BY <1>1
<1>3. Len(s.tries) \in Nat /\ Len(s.tries) < maxAttempts /\ maxAttempts \in Nat
  BY <1>1 DEF Consistent, Delivery!PolicyAssumption
<1>4. \A i \in 1 .. Len(tries) - 1 : tries[i] = "transient"
  BY <1>2, <1>3 DEF Consistent, AllTransient
<1>5. answer = "transient" => \A i \in 1 .. Len(tries) : tries[i] = "transient"
  BY <1>2, <1>3 DEF Consistent, AllTransient
<1> HIDE DEF tries
<1>6. e.tries = tries /\ e \in Delivery!Series
  BY <1>2 DEF Delivery!Series
<1>7. ASSUME NEW outcome \in {"delivered", "failed"}
      PROVE  /\ Delivery!Done(e, outcome) \in Delivery!Series
             /\ Delivery!Done(e, outcome).pc = "done" /\ Delivery!Done(e, outcome).outcome = outcome
             /\ Delivery!Done(e, outcome).tries = tries
  BY <1>6 DEF Delivery!Done, Delivery!Series, Delivery!Outcomes
<1>8. LET b == [e EXCEPT !.pc = "backoff"]
      IN  /\ b \in Delivery!Series /\ b.pc = "backoff" /\ b.outcome = "none" /\ b.tries = tries
  BY <1>1, <1>6 DEF Delivery!Series
<1>9. Delivery!afterAttempt(s, answer) =
        IF answer = "ok" THEN Delivery!Done(e, "delivered")
        ELSE IF answer = "transient" /\ Len(tries) < maxAttempts
        THEN [e EXCEPT !.pc = "backoff"] ELSE Delivery!Done(e, "failed")
  BY <1>6 DEF Delivery!afterAttempt, tries
<1> HIDE DEF e
<1>10. CASE answer = "ok"
  BY <1>2, <1>3, <1>4, <1>7, <1>9, <1>10 DEF Consistent
<1>11. CASE answer # "ok" /\ answer = "transient" /\ Len(tries) < maxAttempts
  BY <1>2, <1>3, <1>4, <1>5, <1>8, <1>9, <1>11 DEF Consistent, AllTransient
<1>12. CASE answer # "ok" /\ ~ (answer = "transient" /\ Len(tries) < maxAttempts)
  BY <1>2, <1>3, <1>4, <1>7, <1>9, <1>12 DEF Consistent
<1> QED  BY <1>10, <1>11, <1>12

(* An attempt ends. *)
LEMMA AttemptInv ==
    ASSUME Delivery!PolicyAssumption, TellInv, NEW c \in Channels,
           NEW answer \in {"ok", "transient", "permanent"},
           series[c].pc = "posting",
           answer = "ok" => Delivery!Attempt(c) \in heard[c],
           series' = [series EXCEPT ![c] = Delivery!afterAttempt(series[c], answer)],
           UNCHANGED << caller, found, transit, heard >>
    PROVE  TellInv'
<1> DEFINE s == Delivery!afterAttempt(series[c], answer)
<1>1. series[c] \in Delivery!Series /\ Consistent(series[c]) /\ Posts(c) /\ Called(c)
  BY DEF TellInv, Delivery!TypeOK
<1>2. /\ s \in Delivery!Series /\ Consistent(s) /\ s.pc \in {"done", "backoff"}
      /\ Len(s.tries) = Len(series[c].tries) + 1
      /\ s.outcome = "delivered" => answer = "ok"
  BY <1>1, Afterwards
<1> HIDE DEF s
<1>3. series'[c] = s
  BY DEF TellInv, Delivery!TypeOK, s
<1>4. Posts(c)'
  <2> DEFINE n == Len(series[c].tries)
  <2>1. /\ UNCHANGED << transit, heard >> /\ heard[c] \cup transit[c] \subseteq 1 .. n + 1
        /\ s.outcome = "delivered" => n + 1 \in heard[c]
    BY <1>1, <1>2 DEF Posts, Delivery!Attempt
  <2>2. Len(s.tries) = n + 1 /\ s.pc # "posting" /\ n \in Nat
    BY <1>1, <1>2 DEF Delivery!Series
  <2> HIDE DEF n
  <2>3. 1 .. n + 1 = 1 .. (n + 1) + 0
    BY <2>2
  <2> QED  BY <1>3, <2>1, <2>2, <2>3 DEF Posts
<1>5. Called(c)'
  BY <1>1, <1>2, <1>3 DEF Called
<1> QED  BY <1>2, <1>4, <1>5, ChannelInv DEF s, TellInv, Delivery!TypeOK

(* A POST is sent, arrives or is lost; an adapter has nothing to send with. *)
LEMMA PostInv ==
    ASSUME Delivery!PolicyAssumption, TellInv, NEW c \in Channels, Delivery!unconfigured(c) \/ Delivery!post(c)
    PROVE  TellInv'
<1> DEFINE n == Len(series[c].tries)
<1>1. /\ series[c] \in Delivery!Series /\ series[c].tries \in Seq(Delivery!Answers)
      /\ Consistent(series[c]) /\ Posts(c) /\ Called(c)
      /\ UNCHANGED << caller, found, heard >> /\ n \in Nat
      /\ series \in [Channels -> Delivery!Series]
  BY Known DEF Delivery!unconfigured, Delivery!post
<1>2. CASE Delivery!unconfigured(c)
  <2> DEFINE s == Delivery!Done(series[c], "failed")
  <2>1. series[c].pc = "start" /\ series' = [series EXCEPT ![c] = s] /\ UNCHANGED transit
    BY <1>2 DEF Delivery!unconfigured
  <2>2. /\ s \in Delivery!Series /\ s.pc = "done" /\ s.outcome = "failed"
        /\ s.tries = series[c].tries
    BY <1>1 DEF Delivery!Done, Delivery!Series, Delivery!Outcomes
  <2> HIDE DEF s
  <2>3. Consistent(s)
    BY <1>1, <2>1, <2>2 DEF Consistent
  <2>4. series'[c] = s
    BY <1>1, <2>1
  <2>5. Posts(c)' /\ Called(c)'
    BY <1>1, <2>1, <2>2, <2>4 DEF Posts, Called
  <2> QED  BY <1>1, <2>1, <2>2, <2>3, <2>5, ChannelInv DEF TellInv, Delivery!TypeOK
<1>3. CASE Delivery!post(c)
  <2> DEFINE s == [series[c] EXCEPT !.pc = "posting"]
  <2>1. /\ series[c].pc \in {"start", "backoff"} /\ series' = [series EXCEPT ![c] = s]
        /\ transit' = [transit EXCEPT ![c] = transit[c] \cup {n + 1}]
    BY <1>1, <1>3 DEF Delivery!post, Delivery!Attempt
  <2>2. /\ s \in Delivery!Series /\ s.pc = "posting" /\ s.outcome = series[c].outcome
        /\ s.tries = series[c].tries
    BY <1>1 DEF Delivery!Series
  <2> HIDE DEF s
  <2>3. Consistent(s)
    <3>1. CASE series[c].pc = "start"
      <4>1. series[c].tries = << >> /\ Len(<< >>) = 0
        BY <1>1, <3>1 DEF Consistent
      <4> QED  BY <1>1, <2>2, <3>1, <4>1 DEF Consistent, AllTransient, Delivery!PolicyAssumption
    <3>2. CASE series[c].pc = "backoff"
      BY <1>1, <2>2, <3>2 DEF Consistent, AllTransient
    <3> QED  BY <2>1, <3>1, <3>2
  <2>4. series'[c] = s
    BY <1>1, <2>1
  <2>5. transit' \in [Channels -> SUBSET Nat] /\ heard' \in [Channels -> SUBSET Nat]
        /\ transit'[c] = transit[c] \cup {n + 1}
        /\ \A d \in Channels \ {c} : transit'[d] = transit[d]
    <3>1. transit \in [Channels -> SUBSET Nat] /\ heard \in [Channels -> SUBSET Nat]
      BY DEF TellInv, Delivery!TypeOK
    <3>2. n + 1 \in Nat
      <4>1. n \in Nat
        BY <1>1
      <4> HIDE DEF n
      <4> QED  BY <4>1
    <3> HIDE DEF n
    <3> QED  BY <1>1, <2>1, <3>1, <3>2
  <2>6. Posts(c)'
    <3>1. heard[c] \cup transit[c] \subseteq 1 .. n
      <4>1. 1 .. n + 0 = 1 .. n
        BY <1>1
      <4> QED  BY <1>1, <2>1, <4>1 DEF Posts
    <3>2. heard'[c] \cup transit'[c] \subseteq 1 .. n + 1
      BY <1>1, <2>5, <3>1
    <3>3. series'[c].outcome # "delivered"
      BY <1>1, <2>1, <2>2, <2>4 DEF Consistent
    <3> QED  BY <2>2, <2>4, <3>2, <3>3 DEF Posts
  <2>7. Called(c)'
    BY <1>1, <2>1, <2>2, <2>4 DEF Called
  <2> QED  BY <1>1, <2>1, <2>2, <2>3, <2>5, <2>6, <2>7, ChannelInv
<1> QED  BY <1>2, <1>3

LEMMA TransitInv ==
    ASSUME TellInv, NEW c \in Channels, NEW n \in 1 .. maxAttempts, Delivery!PolicyAssumption,
           Delivery!endpointHears(c, n) \/ Delivery!endpointMisses(c, n)
    PROVE  TellInv'
<1>1. /\ UNCHANGED << caller, found, series >> /\ n \in transit[c] /\ n \in Nat
      /\ transit' = [transit EXCEPT ![c] = transit[c] \ {n}]
      /\ heard' = heard \/ heard' = [heard EXCEPT ![c] = heard[c] \cup {n}]
  BY DEF Delivery!endpointHears, Delivery!endpointMisses, Delivery!PolicyAssumption
<1>2. Delivery!TypeOK'
  BY <1>1 DEF TellInv, Delivery!TypeOK
<1>3. ASSUME NEW d \in Channels PROVE Posts(d)'
  <2>1. Posts(d) /\ heard[d] \subseteq heard'[d]
        /\ heard'[d] \cup transit'[d] \subseteq heard[d] \cup transit[d]
    BY <1>1 DEF TellInv, Delivery!TypeOK
  <2> QED  BY <1>1, <2>1 DEF Posts
<1>4. ASSUME NEW d \in Channels PROVE Consistent(series'[d]) /\ Called(d)'
  BY <1>1 DEF TellInv, Called
<1> QED  BY <1>2, <1>3, <1>4 DEF TellInv

(* The caller's steps. *)
LEMMA CallerInv ==
    ASSUME Delivery!PolicyAssumption, TellInv, Delivery!lookupContractor \/ Delivery!loadChannels \/ Delivery!dispatchReturns
    PROVE  TellInv'
<1>1. CASE Delivery!lookupContractor
  <2>1. caller = "lookup" /\ caller' \in {"load", "goes on"}
        /\ UNCHANGED << found, series, transit, heard >>
    BY <1>1 DEF Delivery!lookupContractor
  <2> QED  BY <2>1 DEF TellInv, Delivery!TypeOK, Posts, Called
<1>2. CASE Delivery!dispatchReturns
  <2>1. /\ caller = "waiting" /\ caller' = "goes on"
        /\ \A c \in found : series[c].pc = "done"
        /\ UNCHANGED << found, series, transit, heard >>
    BY <1>2 DEF Delivery!dispatchReturns
  <2> QED  BY <2>1 DEF TellInv, Delivery!TypeOK, Posts, Called
<1>3. CASE Delivery!loadChannels
  <2> DEFINE start == [Delivery!Fresh EXCEPT !.pc = "start"]
  <2>1. caller = "load" /\ UNCHANGED << transit, heard >>
    BY <1>3 DEF Delivery!loadChannels
  <2>2. PICK f \in SUBSET Channels :
          /\ found' = f
          /\ caller' = IF f = {} THEN "goes on" ELSE "waiting"
          /\ series' = [c \in Channels |-> IF c \in f THEN start ELSE Delivery!Fresh]
    BY <1>3 DEF Delivery!loadChannels
  <2>3. /\ start \in Delivery!Series /\ start.pc = "start" /\ start.outcome = "none"
        /\ start.tries = << >>
        /\ Delivery!Fresh \in Delivery!Series /\ Delivery!Fresh.pc = "idle" /\ Delivery!Fresh.outcome = "none"
        /\ Delivery!Fresh.tries = << >>
    BY Begins
  <2> HIDE DEF start
  <2>4. Consistent(start) /\ Consistent(Delivery!Fresh)
    <3>1. Len(<< >>) = 0 /\ 1 .. Len(<< >>) - 1 = {}
      OBVIOUS
    <3> QED  BY <2>3, <3>1 DEF Consistent, Delivery!PolicyAssumption
  <2>5. Delivery!TypeOK'
    BY <2>1, <2>2, <2>3 DEF TellInv, Delivery!TypeOK
  <2>6. ASSUME NEW c \in Channels
        PROVE  Consistent(series'[c]) /\ Posts(c)' /\ Called(c)'
    <3>1. series'[c] = IF c \in f THEN start ELSE Delivery!Fresh
      BY <2>2
    <3>2. series[c].pc = "idle" /\ series[c].tries = << >>
      BY <2>1 DEF TellInv, Called, Consistent
    <3>3. Posts(c)'
      BY <2>1, <2>3, <3>1, <3>2 DEF TellInv, Posts
    <3> QED  BY <2>2, <2>3, <2>4, <3>1, <3>3 DEF Called
  <2> QED  BY <2>5, <2>6 DEF TellInv
<1> QED  BY <1>1, <1>2, <1>3

LEMMA TellSteps ==
    ASSUME Delivery!PolicyAssumption
    PROVE  /\ Delivery!Init => TellInv
           /\ TellInv /\ [Delivery!Next]_Delivery!vars => TellInv'
           /\ TellInv => Delivery!OutcomesAreTrue
<1>1. Delivery!Init => TellInv
  <2> SUFFICES ASSUME Delivery!Init PROVE TellInv
    OBVIOUS
  <2>1. /\ Delivery!Fresh \in Delivery!Series /\ Delivery!Fresh.pc = "idle" /\ Delivery!Fresh.outcome = "none"
        /\ Delivery!Fresh.tries = << >>
    BY Begins
  <2>2. Consistent(Delivery!Fresh)
    <3>1. Len(<< >>) = 0 /\ 1 .. Len(<< >>) - 1 = {}
      OBVIOUS
    <3> QED  BY <2>1, <3>1 DEF Consistent, Delivery!PolicyAssumption
  <2> QED  BY <2>1, <2>2 DEF Delivery!Init, TellInv, Delivery!TypeOK, Posts, Called
<1>2. TellInv /\ [Delivery!Next]_Delivery!vars => TellInv'
  <2> SUFFICES ASSUME TellInv, [Delivery!Next]_Delivery!vars PROVE TellInv'
    OBVIOUS
  <2>1. ASSUME NEW c \in Channels, Delivery!classifyStatus(c) PROVE TellInv'
    BY <2>1, AttemptInv DEF Delivery!classifyStatus, Delivery!Answers
  <2>2. ASSUME NEW c \in Channels, Delivery!timeout(c) PROVE TellInv'
    BY <2>2, AttemptInv DEF Delivery!timeout
  <2>3. CASE UNCHANGED Delivery!vars
    BY <2>3 DEF Delivery!vars, TellInv, Delivery!TypeOK, Posts, Called
  <2> QED  BY <2>1, <2>2, <2>3, PostInv, TransitInv, CallerInv DEF Delivery!Next
<1>3. TellInv => Delivery!OutcomesAreTrue
  <2> SUFFICES ASSUME TellInv, NEW c \in Channels
               PROVE  /\ caller = "goes on" => (series[c].outcome # "none" <=> c \in found)
                      /\ series[c].outcome = "delivered" => Len(series[c].tries) \in heard[c]
                      /\ Len(series[c].tries) <= maxAttempts
                      /\ \A i \in 1 .. Len(series[c].tries) - 1 :
                           series[c].tries[i] = "transient"
                      /\ heard[c] \cup transit[c] \subseteq 1 .. Delivery!Attempt(c)
    BY DEF Delivery!OutcomesAreTrue
  <2> DEFINE n == Len(series[c].tries)
  <2>1. Consistent(series[c]) /\ Posts(c) /\ Called(c) /\ n \in Nat
    BY Known
  <2>2. heard[c] \cup transit[c] \subseteq 1 .. n + 1
    <3>1. 1 .. n + 0 \subseteq 1 .. n + 1
      BY <2>1
    <3> QED  BY <2>1, <3>1 DEF Posts
  <2> QED  BY <2>1, <2>2 DEF Consistent, Posts, Called, Delivery!Attempt
<1> QED  BY <1>1, <1>2, <1>3

(***************************************************************************)
(* What the caller of notifyContractor is told of each channel is true,    *)
(* for any number of channels, attempts and posts that arrive late: only   *)
(* the answer to an attempt's own POST makes it "delivered", and an        *)
(* attempt is repeated only after one that may clear up.                   *)
(***************************************************************************)
THEOREM ToldTheTruth ==
    ASSUME Delivery!PolicyAssumption
    PROVE  Delivery!Spec => []Delivery!OutcomesAreTrue
BY TellSteps, PTL DEF Delivery!Spec
-----------------------------------------------------------------------------
(* The two jobs side by side. *)

LEMMA EachIsItself ==
    ProgressSpec => Spec /\ Delivery!Init /\ [][Delivery!Next]_Delivery!vars
<1>1. ProgressInit => Init /\ Delivery!Init
  BY DEF ProgressInit
<1>2. [Synced \/ Delivered]_<< part, vars, delivered >> => [Next]_vars /\ [Delivery!Next]_Delivery!vars
  BY DEF Synced, Delivered, delivered, Delivery!vars
<1> QED  BY <1>1, <1>2, PTL DEF ProgressSpec, Spec

(***************************************************************************)
(* What the caller of a notification is told of each channel is true when  *)
(* it runs beside the sync, too.                                           *)
(***************************************************************************)
THEOREM OutcomesHold == ProgressSpec => []OutcomesAreTrue
<1>1. /\ Delivery!Init => TellInv
      /\ TellInv /\ [Delivery!Next]_Delivery!vars => TellInv'
      /\ TellInv => OutcomesAreTrue
  BY ProgressAssumption, TellSteps DEF OutcomesAreTrue
<1> QED  BY <1>1, EachIsItself, PTL

(***************************************************************************)
(* And so is what the rows say of the chain: the database is never ahead   *)
(* of the money, settles as the escrow paid, disputes only delivered work, *)
(* and lets no row leave the way it ended or follow the wrong escrow.      *)
(***************************************************************************)
THEOREM RowsFollowTheChain ==
    ProgressSpec => /\ [](TypeOK /\ ActiveIsFunded /\ ProjectionAgrees /\ DisputedHasGround)
                    /\ EndedStays /\ SupersededUntouched
BY EachIsItself, TypeCorrect, NeverAheadOfMoney, SettledAsPaid, DisputesHaveGround, EndedForGood,
   SupersededKept, PTL
=============================================================================
