------------------------- MODULE CarbonEscrowProofs -------------------------
(***************************************************************************)
(* Theorems about CarbonEscrow, for every set of tasks and accounts, every *)
(* set of signed verdicts and every length of the windows.                 *)
(***************************************************************************)
EXTENDS CarbonEscrow, InductionTheorems, SequenceTheorems, TLAPS

(* A transfer of no more than the payer holds leaves balances well typed.  *)
LEMMA MovedType ==
    ASSUME usdc \in [Addresses -> Nat],
           NEW from \in Addresses, NEW to \in Addresses, NEW amount \in Nat,
           usdc[from] >= amount
    PROVE  Moved(from, to, amount) \in [Addresses -> Nat]
<1> DEFINE debited == [usdc EXCEPT ![from] = @ - amount]
<1>1. debited \in [Addresses -> Nat]
  <2>1. usdc[from] - amount \in Nat
    OBVIOUS
  <2> QED BY <2>1
<1>2. debited[to] + amount \in Nat
  BY <1>1
<1> QED BY <1>1, <1>2 DEF Moved

(* The shared tail of every settlement preserves the types it touches.     *)
LEMMA PayType ==
    ASSUME TypeOK,
           NEW t \in TaskIds, NEW task \in Task,
           NEW event \in CompletionRoute \cup {"TaskResolved", "TaskExpired"},
           NEW toWorker \in BOOLEAN,
           pay(t, task, event, toWorker),
           verdictNonceUsed' \subseteq Accounts \X Nonces
    PROVE  TypeOK'
<1> DEFINE to == IF toWorker THEN task.worker ELSE task.agent
           paid == [event |-> event, toWorker |-> toWorker, to |-> to,
                    amount |-> task.amount, at |-> now]
<1>1. task.amount \in Nat /\ to \in Addresses /\ Escrow \in Addresses
  BY DEF Task, Addresses
<1>2. usdc' \in [Addresses -> Nat]
  BY <1>1, MovedType DEF pay, TypeOK
<1>3. totalLocked' \in Nat
  BY <1>1 DEF pay, TypeOK
<1>4. paid \in Payment
  BY <1>1 DEF Payment, TypeOK
<1>5. payments' \in [TaskIds -> Seq(Payment)]
  <2>1. payments[t] \in Seq(Payment)
    BY DEF TypeOK
  <2>2. Append(payments[t], paid) \in Seq(Payment)
    BY <1>4, <2>1
  <2>3. payments' = [payments EXCEPT ![t] = Append(payments[t], paid)]
    BY DEF pay
  <2> QED BY <2>2, <2>3 DEF TypeOK
<1>6. tasks' \in [TaskIds -> Task]
  BY DEF pay, TypeOK
<1> QED BY <1>2, <1>3, <1>5, <1>6 DEF pay, TypeOK, roles

LEMMA TypeInit == Init => TypeOK
<1> SUFFICES ASSUME Init PROVE TypeOK
  OBVIOUS
<1>1. NoTask \in Task
  BY DEF NoTask, Task, TaskState, Addresses
<1>2. usdc \in [Addresses -> Nat]
  BY AmountAssumption DEF Init
<1>3. payments \in [TaskIds -> Seq(Payment)]
  BY DEF Init
<1> QED BY <1>1, <1>2, <1>3, AddressAssumption DEF Init, TypeOK

LEMMA TypeStep == TypeOK /\ [Next]_vars => TypeOK'
<1> SUFFICES ASSUME TypeOK, [Next]_vars PROVE TypeOK'
  OBVIOUS
<1> USE DEF TypeOK
<1>1. ASSUME NEW t \in TaskIds, NEW sender \in Accounts,
             NEW worker \in WorkerCandidates, NEW amount \in Amounts,
             NEW deadline \in now .. now + MAX_DEADLINE_HORIZON + 1,
             NEW reviewWindow \in 0 .. MAX_REVIEW_WINDOW + 1,
             NEW specHash \in SpecHashes \cup {ZeroHash},
             createTask(t, sender, worker, amount, deadline, reviewWindow, specHash)
      PROVE  TypeOK'
  <2> DEFINE task == [NoTask EXCEPT !.agent = sender, !.worker = worker,
                        !.amount = amount, !.deadline = deadline,
                        !.reviewWindow = reviewWindow, !.state = "Funded",
                        !.specHash = specHash]
  <2>1. /\ amount \in Nat /\ deadline \in Nat /\ reviewWindow \in Nat
        /\ sender \in Addresses /\ worker \in Addresses /\ Escrow \in Addresses
    BY AmountAssumption, AddressAssumption, WindowAssumption DEF Addresses
  <2>2. task \in Task
    BY <2>1 DEF NoTask, Task, TaskState
  <2>3. usdc' \in [Addresses -> Nat]
    BY <1>1, <2>1, MovedType DEF createTask
  <2> QED BY <1>1, <2>1, <2>2, <2>3 DEF createTask, roles
<1>2. ASSUME NEW t \in TaskIds, NEW sender \in Accounts,
             NEW evidenceHash \in EvidenceHashes \cup {ZeroHash},
             NEW specVersionAck,
             submitWork(t, sender, evidenceHash, specVersionAck)
      PROVE  TypeOK'
  <2>1. evidenceHash \in EvidenceHashes \cup {ZeroHash} /\ now \in Nat
    OBVIOUS
  <2>2. [tasks[t] EXCEPT !.state = "Delivered", !.submittedAt = now,
                         !.evidenceHash = evidenceHash] \in Task
    BY <2>1, ZenonT(40) DEF Task, TaskState
  <2>3. tasks' \in [TaskIds -> Task]
    BY <1>2, <2>2 DEF submitWork
  <2> QED BY <1>2, <2>3 DEF submitWork, roles
<1>3. ASSUME NEW t \in TaskIds, NEW route \in CompletionRoute,
             payOut(t, tasks[t], route), UNCHANGED verdictNonceUsed
      PROVE  TypeOK'
  <2>1. [tasks[t] EXCEPT !.state = "Completed"] \in Task
    BY DEF Task, TaskState
  <2> QED BY <1>3, <2>1, PayType DEF payOut
<1>4. ASSUME NEW t \in TaskIds, NEW sender \in Accounts, NEW s \in Signed,
             claimWithVerdict(t, sender, s.verdict, s.signer)
      PROVE  TypeOK'
  <2>1. s.verdict \in Verdict /\ s.signer \in Accounts /\ s.verdict.nonce \in Nonces
    BY HashAssumption DEF Verdict
  <2>2. [[tasks[t] EXCEPT !.verdictHash = s.verdict, !.verdictPassed = TRUE]
           EXCEPT !.state = "Completed"] \in Task
    BY <2>1, ZenonT(40) DEF Task, TaskState
  <2>3. verdictNonceUsed' \subseteq Accounts \X Nonces
    BY <1>4, <2>1 DEF claimWithVerdict, consumeVerdict
  <2>4. "PassingVerdict" \in CompletionRoute
    BY DEF CompletionRoute
  <2> QED BY <1>4, <2>2, <2>3, <2>4, PayType
          DEF claimWithVerdict, payOut, verdictDigest
<1>5. ASSUME NEW t \in TaskIds, NEW sender \in Accounts, NEW s \in Signed,
             disputeTask(t, sender, s.verdict, s.signer)
      PROVE  TypeOK'
  <2>1. s.verdict \in Verdict /\ s.signer \in Accounts /\ s.verdict.nonce \in Nonces
    BY HashAssumption DEF Verdict
  <2>2. verdictNonceUsed' \subseteq Accounts \X Nonces
    BY <1>5, <2>1 DEF disputeTask, consumeVerdict
  <2>3. [tasks[t] EXCEPT !.verdictHash = s.verdict, !.verdictPassed = FALSE,
                         !.state = "Disputed", !.disputedAt = now] \in Task
    BY <2>1, ZenonT(40) DEF Task, TaskState
  <2>4. tasks' \in [TaskIds -> Task]
    BY <1>5, <2>3 DEF disputeTask, verdictDigest
  <2> QED BY <1>5, <2>2, <2>4 DEF disputeTask, roles
<1>6. ASSUME NEW t \in TaskIds, NEW sender \in Accounts,
             beginArbitration(t, sender)
      PROVE  TypeOK'
  <2>1. [tasks[t] EXCEPT !.state = "Arbitrating"] \in Task
    BY DEF Task, TaskState
  <2>2. tasks' \in [TaskIds -> Task]
    BY <1>6, <2>1 DEF beginArbitration
  <2> QED BY <1>6, <2>2 DEF beginArbitration, roles
<1>7. ASSUME NEW t \in TaskIds, NEW sender \in Accounts,
             NEW releaseToWorker \in BOOLEAN,
             resolveDispute(t, sender, releaseToWorker)
      PROVE  TypeOK'
  <2>1. [tasks[t] EXCEPT !.state = "Resolved"] \in Task
    BY DEF Task, TaskState
  <2> QED BY <1>7, <2>1, PayType DEF resolveDispute
<1>8. ASSUME NEW t \in TaskIds, NEW sender \in Accounts, expireTask(t, sender)
      PROVE  TypeOK'
  <2>1. [tasks[t] EXCEPT !.state = "Expired"] \in Task
    BY DEF Task, TaskState
  <2> QED BY <1>8, <2>1, PayType DEF expireTask
<1>9. ASSUME NEW sender \in Accounts, AdminStep(sender)
      PROVE  TypeOK'
  BY <1>9, AddressAssumption
     DEF AdminStep, setVerdictSigner, revokeVerdictNonce, transferOwnership,
         acceptOwnership, renounceOwnership, roles
<1>10. ASSUME NEW sender \in Accounts, NEW amount \in Amounts,
              strayDeposit(sender, amount)
       PROVE  TypeOK'
  <2>1. usdc' \in [Addresses -> Nat]
    BY <1>10, MovedType, AmountAssumption DEF strayDeposit, Addresses
  <2> QED BY <1>10, <2>1 DEF strayDeposit, roles
<1>11. ASSUME Tick PROVE TypeOK'
  BY <1>11 DEF Tick, roles
<1>12. ASSUME UNCHANGED vars PROVE TypeOK'
  BY <1>12 DEF vars
<1>13. ASSUME NEW t \in TaskIds, NEW sender \in Accounts,
              \/ completeTask(t, sender) \/ completeTaskByOwner(t, sender)
              \/ releaseAfterReview(t, sender) \/ releaseAfterArbitration(t, sender)
       PROVE  TypeOK'
  BY <1>3, <1>13
     DEF completeTask, completeTaskByOwner, releaseAfterReview,
         releaseAfterArbitration, CompletionRoute
<1>14. ASSUME NEW t \in TaskIds, NEW sender \in Accounts, PartyStep(t, sender)
       PROVE  TypeOK'
  BY <1>1, <1>2, <1>4, <1>5, <1>8, <1>13, <1>14 DEF PartyStep
<1>15. ASSUME NEW t \in TaskIds, NEW sender \in Accounts, ArbiterStep(t, sender)
       PROVE  TypeOK'
  BY <1>6, <1>7, <1>13, <1>15 DEF ArbiterStep
<1> QED BY <1>9, <1>10, <1>11, <1>12, <1>14, <1>15 DEF Next

(***************************************************************************)
(* Every variable keeps its type: in particular totalLocked and the token  *)
(* balances never go below zero, and no verdict signer is address(0).      *)
(***************************************************************************)
THEOREM TypeCorrect == Spec => []TypeOK
BY TypeInit, TypeStep, PTL DEF Spec

-----------------------------------------------------------------------------
(* What one step can do to one task.  Every call touches at most one task, *)
(* in one of the ways named here; the invariants below are preserved shape *)
(* by shape instead of call by call.                                       *)

Same(t) == tasks'[t] = tasks[t] /\ payments'[t] = payments[t]

Created(t) ==
    /\ tasks[t].state = "None"
    /\ payments'[t] = payments[t]
    /\ tasks'[t].state = "Funded"
    /\ tasks'[t].submittedAt = 0
    /\ tasks'[t].verdictHash = ZeroHash
    /\ MIN_REVIEW_WINDOW =< tasks'[t].reviewWindow
    /\ tasks'[t].reviewWindow =< MAX_REVIEW_WINDOW

Submitted(t) ==
    /\ tasks[t].state = "Funded"
    /\ now < tasks[t].deadline
    /\ payments'[t] = payments[t]
    /\ \E e \in EvidenceHashes :
          tasks'[t] = [tasks[t] EXCEPT !.state = "Delivered",
                         !.submittedAt = now, !.evidenceHash = e]

(* The verdict v is about task t as delivered, and some signer's nonce was *)
(* unspent before the step and is spent after it.                          *)
Judged(t, v) ==
    /\ tasks[t].state = "Delivered"
    /\ v.taskId = t
    /\ v.specHash = tasks[t].specHash
    /\ v.evidenceHash = tasks[t].evidenceHash
    /\ \E s \in Accounts :
          << s, v.nonce >> \in verdictNonceUsed' \ verdictNonceUsed

Contest(t) ==
    /\ now < reviewDeadline(t)
    /\ payments'[t] = payments[t]
    /\ \E v \in Verdict :
          /\ ~ v.passed /\ Judged(t, v)
          /\ tasks'[t] = [tasks[t] EXCEPT !.verdictHash = v,
                            !.verdictPassed = FALSE,
                            !.state = "Disputed", !.disputedAt = now]

Begun(t) ==
    /\ tasks[t].state = "Disputed"
    /\ payments'[t] = payments[t]
    /\ tasks'[t] = [tasks[t] EXCEPT !.state = "Arbitrating"]

Ended(t, task, event, toWorker) ==
    /\ tasks'[t] = task
    /\ payments'[t] = Append(payments[t],
           [event |-> event, toWorker |-> toWorker,
            to |-> IF toWorker THEN task.worker ELSE task.agent,
            amount |-> task.amount, at |-> now])

Completed(t, event) ==
    Ended(t, [tasks[t] EXCEPT !.state = "Completed"], event, TRUE)

Granted(t) ==
    /\ tasks[t].state \in {"Funded", "Delivered"}
    /\ \E event \in {"AgentConfirmed", "OwnerEmergency"} : Completed(t, event)

Waited(t) ==
    /\ tasks[t].state = "Delivered"
    /\ now >= reviewDeadline(t)
    /\ Completed(t, "ReviewElapsed")

Proven(t) ==
    \E v \in Verdict :
        /\ v.passed /\ Judged(t, v)
        /\ Ended(t, [tasks[t] EXCEPT !.verdictHash = v, !.verdictPassed = TRUE,
                       !.state = "Completed"], "PassingVerdict", TRUE)

Outlasted(t) ==
    /\ tasks[t].state \in Contested
    /\ now >= arbitrationDeadline(t)
    /\ Completed(t, "ArbitrationTimeout")

Ruled(t) ==
    /\ tasks[t].state \in Contested
    /\ now < arbitrationDeadline(t)
    /\ \E toWorker \in BOOLEAN :
          Ended(t, [tasks[t] EXCEPT !.state = "Resolved"], "TaskResolved", toWorker)

Refunded(t) ==
    /\ tasks[t].state = "Funded"
    /\ now >= tasks[t].deadline
    /\ Ended(t, [tasks[t] EXCEPT !.state = "Expired"], "TaskExpired", FALSE)

Shape(t) ==
    \/ Created(t) \/ Submitted(t) \/ Contest(t) \/ Begun(t) \/ Granted(t)
    \/ Waited(t) \/ Proven(t) \/ Outlasted(t) \/ Ruled(t) \/ Refunded(t)

OneTask(t) == Shape(t) /\ \A u \in TaskIds \ {t} : Same(u)

(* Time does not run back and a spent nonce stays spent.                   *)
Onward == now' \in Nat /\ now =< now' /\ verdictNonceUsed \subseteq verdictNonceUsed'

LEMMA PayShape ==
    ASSUME TypeOK, NEW t \in TaskIds, NEW task, NEW event, NEW toWorker,
           pay(t, task, event, toWorker)
    PROVE  /\ Ended(t, task, event, toWorker)
           /\ Shape(t) => OneTask(t)
           /\ verdictNonceUsed \subseteq verdictNonceUsed' => Onward
<1>1. Ended(t, task, event, toWorker)
  BY DEF pay, Ended, TypeOK
<1>2. \A u \in TaskIds \ {t} : Same(u)
  BY DEF pay, Same, TypeOK
<1>3. now' = now /\ now \in Nat
  BY DEF pay, TypeOK
<1> QED BY <1>1, <1>2, <1>3 DEF OneTask, Onward

LEMMA StepShape ==
    ASSUME TypeOK, [Next]_vars
    PROVE  /\ Onward
           /\ \/ \A u \in TaskIds : Same(u)
              \/ \E t \in TaskIds : OneTask(t)
<1> USE DEF TypeOK
<1> DEFINE Goal == /\ Onward
                   /\ \/ \A u \in TaskIds : Same(u)
                      \/ \E t \in TaskIds : OneTask(t)
<1>1. ASSUME NEW t \in TaskIds, NEW sender \in Accounts,
             NEW worker \in WorkerCandidates, NEW amount \in Amounts,
             NEW deadline \in now .. now + MAX_DEADLINE_HORIZON + 1,
             NEW reviewWindow \in 0 .. MAX_REVIEW_WINDOW + 1,
             NEW specHash \in SpecHashes \cup {ZeroHash},
             createTask(t, sender, worker, amount, deadline, reviewWindow, specHash)
      PROVE  Goal
  <2>1. tasks'[t] = [NoTask EXCEPT !.agent = sender, !.worker = worker,
                      !.amount = amount, !.deadline = deadline,
                      !.reviewWindow = reviewWindow, !.state = "Funded",
                      !.specHash = specHash]
    BY <1>1 DEF createTask
  <2>2. Created(t)
    BY <1>1, <2>1 DEF createTask, Created, NoTask
  <2>3. \A u \in TaskIds \ {t} : Same(u)
    BY <1>1 DEF createTask, Same
  <2>4. Onward
    BY <1>1 DEF createTask, Onward
  <2> QED BY <2>2, <2>3, <2>4 DEF OneTask, Shape
<1>2. ASSUME NEW t \in TaskIds, NEW sender \in Accounts,
             NEW evidenceHash \in EvidenceHashes \cup {ZeroHash},
             NEW specVersionAck,
             submitWork(t, sender, evidenceHash, specVersionAck)
      PROVE  Goal
  <2>1. Submitted(t)
    BY <1>2 DEF submitWork, Submitted
  <2>2. \A u \in TaskIds \ {t} : Same(u)
    BY <1>2 DEF submitWork, Same
  <2>3. Onward
    BY <1>2 DEF submitWork, Onward
  <2> QED BY <2>1, <2>2, <2>3 DEF OneTask, Shape
<1>3. ASSUME NEW t \in TaskIds, NEW sender \in Accounts,
             \/ completeTask(t, sender) \/ completeTaskByOwner(t, sender)
             \/ releaseAfterReview(t, sender) \/ releaseAfterArbitration(t, sender)
             \/ expireTask(t, sender)
             \/ \E releaseToWorker \in BOOLEAN :
                   resolveDispute(t, sender, releaseToWorker)
      PROVE  Goal
  <2>1. CASE completeTask(t, sender) \/ completeTaskByOwner(t, sender)
    <3>1. PICK event \in {"AgentConfirmed", "OwnerEmergency"} :
             pay(t, [tasks[t] EXCEPT !.state = "Completed"], event, TRUE)
      BY <2>1 DEF completeTask, completeTaskByOwner, payOut
    <3>2. Granted(t)
      BY <2>1, <3>1, PayShape
         DEF completeTask, completeTaskByOwner, Granted, Completed
    <3>3. verdictNonceUsed' = verdictNonceUsed
      BY <2>1 DEF completeTask, completeTaskByOwner
    <3> QED BY <3>1, <3>2, <3>3, PayShape DEF Shape
  <2>2. CASE releaseAfterReview(t, sender)
    <3>1. pay(t, [tasks[t] EXCEPT !.state = "Completed"], "ReviewElapsed", TRUE)
      BY <2>2 DEF releaseAfterReview, payOut
    <3>2. Waited(t)
      BY <2>2, <3>1, PayShape DEF releaseAfterReview, Waited, Completed
    <3>3. verdictNonceUsed' = verdictNonceUsed
      BY <2>2 DEF releaseAfterReview
    <3> QED BY <3>1, <3>2, <3>3, PayShape DEF Shape
  <2>3. CASE releaseAfterArbitration(t, sender)
    <3>1. pay(t, [tasks[t] EXCEPT !.state = "Completed"], "ArbitrationTimeout", TRUE)
      BY <2>3 DEF releaseAfterArbitration, payOut
    <3>2. Outlasted(t)
      BY <2>3, <3>1, PayShape DEF releaseAfterArbitration, Outlasted, Completed
    <3>3. verdictNonceUsed' = verdictNonceUsed
      BY <2>3 DEF releaseAfterArbitration
    <3> QED BY <3>1, <3>2, <3>3, PayShape DEF Shape
  <2>4. CASE expireTask(t, sender)
    <3>1. pay(t, [tasks[t] EXCEPT !.state = "Expired"], "TaskExpired", FALSE)
      BY <2>4 DEF expireTask
    <3>2. Refunded(t)
      BY <2>4, <3>1, PayShape DEF expireTask, Refunded
    <3>3. verdictNonceUsed' = verdictNonceUsed
      BY <2>4 DEF expireTask
    <3> QED BY <3>1, <3>2, <3>3, PayShape DEF Shape
  <2>5. ASSUME NEW releaseToWorker \in BOOLEAN,
               resolveDispute(t, sender, releaseToWorker)
        PROVE  Goal
    <3>1. pay(t, [tasks[t] EXCEPT !.state = "Resolved"], "TaskResolved", releaseToWorker)
      BY <2>5 DEF resolveDispute
    <3>2. Ruled(t)
      BY <2>5, <3>1, PayShape DEF resolveDispute, Ruled
    <3>3. verdictNonceUsed' = verdictNonceUsed
      BY <2>5 DEF resolveDispute
    <3> QED BY <3>1, <3>2, <3>3, PayShape DEF Shape
  <2> QED BY <1>3, <2>1, <2>2, <2>3, <2>4, <2>5
<1>4. ASSUME NEW t \in TaskIds, NEW sender \in Accounts, NEW s \in Signed,
             claimWithVerdict(t, sender, s.verdict, s.signer)
      PROVE  Goal
  <2>1. s.verdict \in Verdict /\ s.signer \in Accounts
    BY HashAssumption
  <2>2. Judged(t, s.verdict) /\ s.verdict.passed
    BY <1>4, <2>1 DEF claimWithVerdict, consumeVerdict, Judged
  <2>3. pay(t, [tasks[t] EXCEPT !.verdictHash = s.verdict, !.verdictPassed = TRUE,
                  !.state = "Completed"], "PassingVerdict", TRUE)
    BY <1>4 DEF claimWithVerdict, payOut, verdictDigest
  <2>4. Proven(t)
    BY <2>1, <2>2, <2>3, PayShape DEF Proven
  <2>5. verdictNonceUsed \subseteq verdictNonceUsed'
    BY <1>4 DEF claimWithVerdict, consumeVerdict
  <2> QED BY <2>3, <2>4, <2>5, PayShape DEF Shape
<1>5. ASSUME NEW t \in TaskIds, NEW sender \in Accounts, NEW s \in Signed,
             disputeTask(t, sender, s.verdict, s.signer)
      PROVE  Goal
  <2>1. s.verdict \in Verdict /\ s.signer \in Accounts
    BY HashAssumption
  <2>2. Judged(t, s.verdict)
    BY <1>5, <2>1 DEF disputeTask, consumeVerdict, Judged
  <2>3. Contest(t)
    BY <1>5, <2>1, <2>2 DEF disputeTask, verdictDigest, Contest
  <2>4. \A u \in TaskIds \ {t} : Same(u)
    BY <1>5 DEF disputeTask, Same
  <2>5. Onward
    BY <1>5 DEF disputeTask, consumeVerdict, Onward
  <2> QED BY <2>3, <2>4, <2>5 DEF OneTask, Shape
<1>6. ASSUME NEW t \in TaskIds, NEW sender \in Accounts, beginArbitration(t, sender)
      PROVE  Goal
  <2>1. Begun(t)
    BY <1>6 DEF beginArbitration, Begun
  <2>2. \A u \in TaskIds \ {t} : Same(u)
    BY <1>6 DEF beginArbitration, Same
  <2>3. Onward
    BY <1>6 DEF beginArbitration, Onward
  <2> QED BY <2>1, <2>2, <2>3 DEF OneTask, Shape
<1>7. ASSUME NEW sender \in Accounts, AdminStep(sender)
      PROVE  Goal
  BY <1>7 DEF AdminStep, setVerdictSigner, revokeVerdictNonce, transferOwnership,
              acceptOwnership, renounceOwnership, Same, Onward
<1>8. ASSUME NEW sender \in Accounts, NEW amount \in Amounts,
             strayDeposit(sender, amount)
      PROVE  Goal
  BY <1>8 DEF strayDeposit, Same, Onward
<1>9. CASE Tick
  BY <1>9 DEF Tick, Same, Onward
<1>10. CASE UNCHANGED vars
  BY <1>10 DEF vars, Same, Onward
<1>11. ASSUME NEW t \in TaskIds, NEW sender \in Accounts, PartyStep(t, sender)
       PROVE  Goal
  BY <1>1, <1>2, <1>3, <1>4, <1>5, <1>11 DEF PartyStep
<1>12. ASSUME NEW t \in TaskIds, NEW sender \in Accounts, ArbiterStep(t, sender)
       PROVE  Goal
  BY <1>3, <1>6, <1>12 DEF ArbiterStep
<1> QED BY <1>7, <1>8, <1>9, <1>10, <1>11, <1>12 DEF Next

-----------------------------------------------------------------------------
(* The inductive invariant.  The causes of a payment are facts about the   *)
(* past of its task; Stages says what each state remembers of that past.   *)

Stage(t) ==
    /\ tasks[t].state \in {"None", "Funded"} => tasks[t].submittedAt = 0
    /\ tasks[t].state \in {"None", "Funded", "Delivered"} =>
         tasks[t].verdictHash = ZeroHash
    /\ tasks[t].state # "None" =>
         /\ MIN_REVIEW_WINDOW =< tasks[t].reviewWindow
         /\ tasks[t].reviewWindow =< MAX_REVIEW_WINDOW
    /\ tasks[t].state \in {"Delivered"} \cup Contested =>
         /\ 0 < tasks[t].submittedAt
         /\ tasks[t].submittedAt < tasks[t].deadline
         /\ tasks[t].submittedAt =< now
    /\ tasks[t].state \in Contested => DisputedInTime(t)

Stages == \A t \in TaskIds : Stage(t)

IInv ==
    /\ TypeOK
    /\ 1 =< now
    /\ Stages
    /\ Custody
    /\ RefundHasCause
    /\ WorkerClaimHasCause

LEMMA IInvInit == Init => IInv
<1> SUFFICES ASSUME Init PROVE IInv
  OBVIOUS
<1>1. \A t \in TaskIds : tasks[t] = NoTask /\ payments[t] = << >>
  BY DEF Init
<1>2. Stages
  BY <1>1 DEF Stages, Stage, NoTask, Contested
<1>3. Custody
  BY <1>1 DEF Custody, NoTask, Settled
<1>4. \A t \in TaskIds : 1 .. Len(payments[t]) = {}
  BY <1>1
<1>5. RefundHasCause /\ WorkerClaimHasCause
  BY <1>4 DEF RefundHasCause, WorkerClaimHasCause
<1> QED BY TypeInit, <1>2, <1>3, <1>5 DEF IInv, Init

LEMMA FirstPayment ==
    ASSUME NEW p
    PROVE  /\ Len(Append(<< >>, p)) = 1
           /\ Append(<< >>, p)[1] = p
           /\ 1 .. Len(Append(<< >>, p)) = {1}
OBVIOUS

LEMMA StagesStep == IInv /\ [Next]_vars => Stages'
<1> SUFFICES ASSUME IInv, [Next]_vars, NEW t \in TaskIds PROVE Stage(t)'
  BY DEF Stages
<1>1. /\ Stage(t) /\ tasks[t] \in Task /\ 1 =< now /\ now \in Nat
      /\ tasks[t].submittedAt \in Nat
  BY DEF IInv, Stages, TypeOK, Task
<1>2. now' \in Nat /\ now =< now'
  BY StepShape DEF IInv, Onward
<1>3. Same(t) \/ Shape(t)
  BY StepShape DEF IInv, OneTask
<1>4. CASE Same(t)
  BY <1>1, <1>2, <1>4 DEF Same, Stage, DisputedInTime, VerdictBinds, reviewDeadline, Task
<1>5. CASE Created(t)
  BY <1>1, <1>2, <1>5 DEF Created, Stage, Contested
<1>6. CASE Submitted(t)
  <2>1. PICK e \in EvidenceHashes :
           tasks'[t] = [tasks[t] EXCEPT !.state = "Delivered",
                          !.submittedAt = now, !.evidenceHash = e]
    BY <1>6 DEF Submitted
  <2>2. /\ tasks'[t].state = "Delivered" /\ tasks'[t].submittedAt = now
        /\ tasks'[t].verdictHash = tasks[t].verdictHash
        /\ tasks'[t].reviewWindow = tasks[t].reviewWindow
        /\ tasks'[t].deadline = tasks[t].deadline
    BY <1>1, <2>1 DEF Task
  <2> QED BY <1>1, <1>2, <1>6, <2>2 DEF Submitted, Stage, Contested
<1>7. CASE Contest(t)
  <2>1. PICK v \in Verdict :
           /\ ~ v.passed /\ Judged(t, v)
           /\ tasks'[t] = [tasks[t] EXCEPT !.verdictHash = v,
                            !.verdictPassed = FALSE,
                            !.state = "Disputed", !.disputedAt = now]
    BY <1>7 DEF Contest
  <2>2. /\ tasks'[t].state = "Disputed" /\ tasks'[t].disputedAt = now
        /\ tasks'[t].verdictHash = v /\ tasks'[t].verdictPassed = FALSE
        /\ tasks'[t].reviewWindow = tasks[t].reviewWindow
        /\ tasks'[t].deadline = tasks[t].deadline
        /\ tasks'[t].submittedAt = tasks[t].submittedAt
        /\ tasks'[t].specHash = tasks[t].specHash
        /\ tasks'[t].evidenceHash = tasks[t].evidenceHash
    BY <1>1, <2>1 DEF Task
  <2>3. v # ZeroHash /\ v.passed = FALSE
    BY <2>1, HashAssumption DEF Verdict
  <2>4. DisputedInTime(t)'
    BY <1>1, <1>7, <2>1, <2>2, <2>3
       DEF Contest, Judged, Stage, DisputedInTime, VerdictBinds, reviewDeadline
  <2> QED BY <1>1, <1>2, <2>1, <2>2, <2>4 DEF Judged, Stage, Contested
<1>8. CASE Begun(t)
  <2>1. /\ tasks'[t].state = "Arbitrating"
        /\ tasks'[t].verdictHash = tasks[t].verdictHash
        /\ tasks'[t].verdictPassed = tasks[t].verdictPassed
        /\ tasks'[t].reviewWindow = tasks[t].reviewWindow
        /\ tasks'[t].deadline = tasks[t].deadline
        /\ tasks'[t].submittedAt = tasks[t].submittedAt
        /\ tasks'[t].disputedAt = tasks[t].disputedAt
        /\ tasks'[t].specHash = tasks[t].specHash
        /\ tasks'[t].evidenceHash = tasks[t].evidenceHash
    BY <1>1, <1>8 DEF Begun, Task
  <2>2. DisputedInTime(t)'
    BY <1>1, <1>8, <2>1
       DEF Begun, Stage, Contested, DisputedInTime, VerdictBinds, reviewDeadline
  <2> QED BY <1>1, <1>2, <1>8, <2>1, <2>2 DEF Begun, Stage, Contested
<1>9. CASE \/ Granted(t) \/ Waited(t) \/ Proven(t) \/ Outlasted(t)
           \/ Ruled(t) \/ Refunded(t)
  <2>1. tasks[t].state # "None" /\ tasks'[t].state \in Settled
        /\ tasks'[t].reviewWindow = tasks[t].reviewWindow
    BY <1>1, <1>9 DEF Granted, Waited, Proven, Outlasted, Ruled, Refunded, Judged,
                      Completed, Ended, Settled, Contested, Task
  <2> QED BY <1>1, <2>1 DEF Stage, Settled, Contested
<1> QED BY <1>3, <1>4, <1>5, <1>6, <1>7, <1>8, <1>9 DEF Shape

(* A task that ends had not been paid for, and is now paid for once.       *)
LEMMA EndedOnce ==
    ASSUME IInv, NEW t \in TaskIds, tasks[t].state \notin Settled,
           NEW task, NEW event, NEW toWorker,
           Ended(t, task, event, toWorker)
    PROVE  /\ 1 .. Len(payments'[t]) = {1}
           /\ Len(payments'[t]) = 1
           /\ payments'[t][1].event = event
           /\ payments'[t][1].toWorker = toWorker
           /\ payments'[t][1].to = IF toWorker THEN task.worker ELSE task.agent
           /\ payments'[t][1].amount = task.amount
           /\ payments'[t][1].at = now
<1> DEFINE p == [event |-> event, toWorker |-> toWorker,
                 to |-> IF toWorker THEN task.worker ELSE task.agent,
                 amount |-> task.amount, at |-> now]
<1>1. payments'[t] = Append(<< >>, p)
  BY DEF IInv, Custody, Ended
<1> HIDE DEF p
<1>2. Len(payments'[t]) = 1 /\ payments'[t][1] = p /\ 1 .. Len(payments'[t]) = {1}
  BY <1>1, FirstPayment
<1> QED BY <1>2 DEF p

LEMMA CustodyStep == IInv /\ [Next]_vars => Custody'
<1> DEFINE Kept(t) ==
      IF tasks[t].state \in Settled
      THEN /\ Len(payments[t]) = 1
           /\ LET p == payments[t][1]
              IN  /\ p.amount = tasks[t].amount
                  /\ p.to = IF p.toWorker THEN tasks[t].worker ELSE tasks[t].agent
                  /\ tasks[t].state = "Completed" => p.toWorker
                  /\ tasks[t].state = "Expired" => ~ p.toWorker
      ELSE payments[t] = << >>
<1> SUFFICES ASSUME IInv, [Next]_vars, NEW t \in TaskIds PROVE Kept(t)'
  BY DEF Custody
<1>1. Kept(t) /\ tasks[t] \in Task
  BY DEF IInv, Custody, TypeOK
<1>2. Same(t) \/ Shape(t)
  BY StepShape DEF IInv, OneTask
<1>3. CASE Same(t)
  BY <1>1, <1>3 DEF Same
<1>4. CASE Created(t)
  BY <1>1, <1>4 DEF Created, Settled
<1>5. CASE Submitted(t) \/ Contest(t) \/ Begun(t)
  <2>1. /\ tasks[t].state \notin Settled /\ tasks'[t].state \notin Settled
        /\ payments'[t] = payments[t]
    BY <1>1, <1>5 DEF Submitted, Contest, Begun, Judged, Settled, Task
  <2> QED BY <1>1, <2>1
<1>6. ASSUME NEW task, NEW event, NEW toWorker \in BOOLEAN,
             Ended(t, task, event, toWorker),
             tasks[t].state \notin Settled,
             task.state \in Settled,
             task.state = "Completed" => toWorker,
             task.state = "Expired" => ~ toWorker
      PROVE  Kept(t)'
  <2>1. tasks'[t] = task
    BY <1>6 DEF Ended
  <2>2. /\ Len(payments'[t]) = 1
        /\ payments'[t][1].amount = task.amount
        /\ payments'[t][1].toWorker = toWorker
        /\ payments'[t][1].to = IF toWorker THEN task.worker ELSE task.agent
    BY <1>6, EndedOnce
  <2> QED BY <1>6, <2>1, <2>2
<1>7. CASE Granted(t) \/ Waited(t) \/ Outlasted(t)
  <2>1. PICK event : Completed(t, event)
    BY <1>7 DEF Granted, Waited, Outlasted
  <2>2. [tasks[t] EXCEPT !.state = "Completed"].state = "Completed"
    BY <1>1 DEF Task
  <2>3. tasks[t].state \notin Settled
    BY <1>7 DEF Granted, Waited, Outlasted, Settled, Contested
  <2> QED BY <1>6, <2>1, <2>2, <2>3 DEF Completed, Settled
<1>8. CASE Proven(t)
  <2>1. PICK v \in Verdict :
           /\ Judged(t, v)
           /\ Ended(t, [tasks[t] EXCEPT !.verdictHash = v, !.verdictPassed = TRUE,
                          !.state = "Completed"], "PassingVerdict", TRUE)
    BY <1>8 DEF Proven
  <2>2. [tasks[t] EXCEPT !.verdictHash = v, !.verdictPassed = TRUE,
                         !.state = "Completed"].state = "Completed"
    BY <1>1 DEF Task
  <2>3. tasks[t].state \notin Settled
    BY <2>1 DEF Judged, Settled
  <2> QED BY <1>6, <2>1, <2>2, <2>3 DEF Settled
<1>9. CASE Ruled(t)
  <2>1. PICK toWorker \in BOOLEAN :
           Ended(t, [tasks[t] EXCEPT !.state = "Resolved"], "TaskResolved", toWorker)
    BY <1>9 DEF Ruled
  <2>2. [tasks[t] EXCEPT !.state = "Resolved"].state = "Resolved"
    BY <1>1 DEF Task
  <2>3. tasks[t].state \notin Settled
    BY <1>9 DEF Ruled, Settled, Contested
  <2> QED BY <1>6, <2>1, <2>2, <2>3 DEF Settled
<1>10. CASE Refunded(t)
  <2>1. [tasks[t] EXCEPT !.state = "Expired"].state = "Expired"
    BY <1>1 DEF Task
  <2>2. tasks[t].state \notin Settled
    BY <1>10 DEF Refunded, Settled
  <2> QED BY <1>6, <1>10, <2>1, <2>2 DEF Refunded, Settled
<1> QED BY <1>2, <1>3, <1>4, <1>5, <1>7, <1>8, <1>9, <1>10 DEF Shape

(* While a task is not settled there is no payment for it to account for.  *)
LEMMA Unpaid ==
    ASSUME IInv, [Next]_vars, NEW t \in TaskIds,
           Created(t) \/ Submitted(t) \/ Contest(t) \/ Begun(t)
    PROVE  1 .. Len(payments'[t]) = {}
<1>1. payments'[t] = payments[t] /\ tasks[t].state \notin Settled
  BY DEF Created, Submitted, Contest, Begun, Judged, Settled
<1>2. payments'[t] = << >>
  BY <1>1 DEF IInv, Custody
<1> QED BY <1>2

(* The record a settled task keeps, for each way of settling it.           *)
LEMMA EndedTask ==
    ASSUME NEW t \in TaskIds, tasks[t] \in Task,
           NEW final \in Settled, NEW event, NEW toWorker,
           Ended(t, [tasks[t] EXCEPT !.state = final], event, toWorker)
    PROVE  /\ tasks'[t].submittedAt = tasks[t].submittedAt
           /\ tasks'[t].deadline = tasks[t].deadline
           /\ tasks'[t].disputedAt = tasks[t].disputedAt
           /\ tasks'[t].reviewWindow = tasks[t].reviewWindow
           /\ tasks'[t].verdictHash = tasks[t].verdictHash
           /\ tasks'[t].verdictPassed = tasks[t].verdictPassed
           /\ tasks'[t].specHash = tasks[t].specHash
           /\ tasks'[t].evidenceHash = tasks[t].evidenceHash
BY DEF Ended, Task

LEMMA RefundStep == IInv /\ [Next]_vars => RefundHasCause'
<1> DEFINE Caused(t, p) ==
      ~ p.toWorker =>
        \/ /\ p.event = "TaskExpired"
           /\ tasks[t].submittedAt = 0
           /\ p.at >= tasks[t].deadline
        \/ /\ p.event = "TaskResolved"
           /\ DisputedInTime(t)
           /\ p.at < arbitrationDeadline(t)
<1> SUFFICES ASSUME IInv, [Next]_vars, NEW t \in TaskIds,
                    NEW i \in 1 .. Len(payments'[t])
             PROVE  Caused(t, payments[t][i])'
  BY DEF RefundHasCause
<1>1. Stage(t) /\ tasks[t] \in Task
  BY DEF IInv, Stages, TypeOK
<1>2. Same(t) \/ Shape(t)
  BY StepShape DEF IInv, OneTask
<1>3. CASE Same(t)
  BY <1>3 DEF Same, IInv, RefundHasCause, DisputedInTime, VerdictBinds,
              reviewDeadline, arbitrationDeadline
<1>4. CASE Created(t) \/ Submitted(t) \/ Contest(t) \/ Begun(t)
  BY <1>4, Unpaid
<1>5. CASE Granted(t) \/ Waited(t) \/ Outlasted(t) \/ Proven(t)
  <2>1. tasks[t].state \notin Settled
    BY <1>5 DEF Granted, Waited, Outlasted, Proven, Judged, Settled, Contested
  <2>2. PICK task, event : Ended(t, task, event, TRUE)
    BY <1>5 DEF Granted, Waited, Outlasted, Proven, Completed
  <2> QED BY <2>1, <2>2, EndedOnce
<1>6. CASE Ruled(t)
  <2>1. PICK toWorker \in BOOLEAN :
           Ended(t, [tasks[t] EXCEPT !.state = "Resolved"], "TaskResolved", toWorker)
    BY <1>6 DEF Ruled
  <2>2. /\ tasks[t].state \in Contested /\ tasks[t].state \notin Settled
        /\ now < arbitrationDeadline(t)
    BY <1>6 DEF Ruled, Contested, Settled
  <2>3. DisputedInTime(t)' /\ arbitrationDeadline(t)' = arbitrationDeadline(t)
    BY <1>1, <2>1, <2>2, EndedTask
       DEF Stage, Settled, DisputedInTime, VerdictBinds, reviewDeadline,
           arbitrationDeadline
  <2>4. /\ i = 1 /\ payments'[t][1].event = "TaskResolved"
        /\ payments'[t][1].at = now
    BY <2>1, <2>2, EndedOnce
  <2> QED BY <2>2, <2>3, <2>4
<1>7. CASE Refunded(t)
  <2>1. Ended(t, [tasks[t] EXCEPT !.state = "Expired"], "TaskExpired", FALSE)
    BY <1>7 DEF Refunded
  <2>2. /\ tasks[t].submittedAt = 0 /\ tasks[t].state \notin Settled
        /\ now >= tasks[t].deadline
    BY <1>1, <1>7 DEF Refunded, Stage, Settled
  <2>3. /\ tasks'[t].submittedAt = tasks[t].submittedAt
        /\ tasks'[t].deadline = tasks[t].deadline
    BY <1>1, <2>1, EndedTask DEF Settled
  <2>4. /\ i = 1 /\ payments'[t][1].event = "TaskExpired"
        /\ payments'[t][1].at = now
    <3>1. PICK toWorker :
             Ended(t, [tasks[t] EXCEPT !.state = "Expired"], "TaskExpired", toWorker)
      BY <2>1
    <3> QED BY <2>2, <3>1, EndedOnce
  <2> QED BY <2>2, <2>3, <2>4
<1> QED BY <1>2, <1>3, <1>4, <1>5, <1>6, <1>7 DEF Shape

LEMMA WorkerClaimStep == IInv /\ [Next]_vars => WorkerClaimHasCause'
<1> DEFINE OnTime(t) == /\ 0 < tasks[t].submittedAt
                        /\ tasks[t].submittedAt < tasks[t].deadline
           Reviewed(t, p) == /\ p.at >= reviewDeadline(t)
                             /\ tasks[t].verdictHash = ZeroHash
           TimedOut(t, p) == /\ DisputedInTime(t)
                             /\ p.at >= arbitrationDeadline(t)
           Caused(t, p) ==
             /\ p.event = "ReviewElapsed" => OnTime(t) /\ Reviewed(t, p)
             /\ p.event = "PassingVerdict" => OnTime(t) /\ VerdictBinds(t, TRUE)
             /\ p.event = "ArbitrationTimeout" => OnTime(t) /\ TimedOut(t, p)
<1>0. (\A t \in TaskIds : \A i \in 1 .. Len(payments[t]) : Caused(t, payments[t][i]))
        <=> WorkerClaimHasCause
  BY DEF WorkerClaimHasCause
<1>00. (\A t \in TaskIds : \A i \in 1 .. Len(payments'[t]) : Caused(t, payments[t][i])')
        <=> WorkerClaimHasCause'
  BY DEF WorkerClaimHasCause
<1> SUFFICES ASSUME IInv, [Next]_vars, NEW t \in TaskIds,
                    NEW i \in 1 .. Len(payments'[t])
             PROVE  Caused(t, payments[t][i])'
  BY <1>00
<1>1. Stage(t) /\ tasks[t] \in Task /\ now \in Nat
  BY DEF IInv, Stages, TypeOK
<1>2. Same(t) \/ Shape(t)
  BY StepShape DEF IInv, OneTask
<1>3. CASE Same(t)
  <2>1. i \in 1 .. Len(payments[t]) /\ payments'[t][i] = payments[t][i]
    BY <1>3 DEF Same
  <2>2. Caused(t, payments[t][i])
    BY <1>0, <2>1 DEF IInv
  <2> QED BY <1>3, <2>1, <2>2
          DEF Same, DisputedInTime, VerdictBinds, reviewDeadline, arbitrationDeadline
<1>4. CASE Created(t) \/ Submitted(t) \/ Contest(t) \/ Begun(t)
  BY <1>4, Unpaid
<1>5. CASE Granted(t) \/ Ruled(t) \/ Refunded(t)
  <2>1. tasks[t].state \notin Settled
    BY <1>5 DEF Granted, Ruled, Refunded, Settled, Contested
  <2>2. PICK task, toWorker, event :
           /\ event \in {"AgentConfirmed", "OwnerEmergency",
                          "TaskResolved", "TaskExpired"}
           /\ Ended(t, task, event, toWorker)
    BY <1>5 DEF Granted, Ruled, Refunded, Completed
  <2>3. i = 1 /\ payments'[t][1].event = event
    BY <2>1, <2>2, EndedOnce
  <2> QED BY <2>2, <2>3
<1>6. CASE Waited(t)
  <2>1. Ended(t, [tasks[t] EXCEPT !.state = "Completed"], "ReviewElapsed", TRUE)
    BY <1>6 DEF Waited, Completed
  <2>2. /\ tasks[t].state \notin Settled /\ OnTime(t) /\ now >= reviewDeadline(t)
        /\ tasks[t].verdictHash = ZeroHash
    BY <1>1, <1>6 DEF Waited, Stage, Settled
  <2>3. i = 1 /\ payments'[t][1].event = "ReviewElapsed" /\ payments'[t][1].at = now
    BY <2>1, <2>2, EndedOnce
  <2>4. OnTime(t)' /\ tasks'[t].verdictHash = ZeroHash /\ reviewDeadline(t)' = reviewDeadline(t)
    BY <1>1, <2>1, <2>2, EndedTask DEF Settled, reviewDeadline
  <2> QED BY <2>2, <2>3, <2>4
<1>7. CASE Outlasted(t)
  <2>1. Ended(t, [tasks[t] EXCEPT !.state = "Completed"], "ArbitrationTimeout", TRUE)
    BY <1>7 DEF Outlasted, Completed
  <2>2. /\ tasks[t].state \notin Settled /\ OnTime(t) /\ DisputedInTime(t)
        /\ now >= arbitrationDeadline(t)
    BY <1>1, <1>7 DEF Outlasted, Stage, Settled, Contested
  <2>3. i = 1 /\ payments'[t][1].event = "ArbitrationTimeout"
        /\ payments'[t][1].at = now
    BY <2>1, <2>2, EndedOnce
  <2>4. OnTime(t)' /\ DisputedInTime(t)' /\ arbitrationDeadline(t)' = arbitrationDeadline(t)
    BY <1>1, <2>1, <2>2, EndedTask
       DEF Settled, DisputedInTime, VerdictBinds, reviewDeadline, arbitrationDeadline
  <2> QED BY <2>2, <2>3, <2>4
<1>8. CASE Proven(t)
  <2>1. PICK v \in Verdict :
           /\ v.passed /\ Judged(t, v)
           /\ Ended(t, [tasks[t] EXCEPT !.verdictHash = v, !.verdictPassed = TRUE,
                          !.state = "Completed"], "PassingVerdict", TRUE)
    BY <1>8 DEF Proven
  <2>2. tasks[t].state \notin Settled /\ OnTime(t)
    BY <1>1, <2>1 DEF Judged, Stage, Settled
  <2>3. i = 1 /\ payments'[t][1].event = "PassingVerdict"
    BY <2>1, <2>2, EndedOnce
  <2>4. /\ tasks'[t].verdictHash = v /\ tasks'[t].verdictPassed = TRUE
        /\ tasks'[t].submittedAt = tasks[t].submittedAt
        /\ tasks'[t].deadline = tasks[t].deadline
        /\ tasks'[t].specHash = tasks[t].specHash
        /\ tasks'[t].evidenceHash = tasks[t].evidenceHash
    BY <1>1, <2>1 DEF Ended, Task
  <2>5. v # ZeroHash /\ v.passed = TRUE
    BY <2>1, HashAssumption DEF Verdict
  <2>6. VerdictBinds(t, TRUE)'
    BY <2>1, <2>4, <2>5 DEF Judged, VerdictBinds
  <2> QED BY <2>2, <2>3, <2>4, <2>6
<1> QED BY <1>2, <1>3, <1>4, <1>5, <1>6, <1>7, <1>8 DEF Shape

LEMMA IInvStep == IInv /\ [Next]_vars => IInv'
<1> SUFFICES ASSUME IInv, [Next]_vars PROVE IInv'
  OBVIOUS
<1>1. TypeOK'
  BY TypeStep DEF IInv
<1>2. 1 =< now'
  BY StepShape DEF IInv, Onward, TypeOK
<1> QED BY <1>1, <1>2, StagesStep, CustodyStep, RefundStep, WorkerClaimStep DEF IInv

LEMMA Invariance == Spec => []IInv
BY IInvInit, IInvStep, PTL DEF Spec

(***************************************************************************)
(* A task's money leaves the escrow once, in full, to the worker or agent  *)
(* fixed at funding, and only as the task takes a final state (D9).        *)
(***************************************************************************)
THEOREM CustodyHolds == Spec => []Custody
<1>1. IInv => Custody
  BY DEF IInv
<1> QED BY <1>1, Invariance, PTL

(***************************************************************************)
(* An agent is refunded only for work that was never delivered, or by a    *)
(* timely ruling on a dispute that a failing verdict opened in time.       *)
(***************************************************************************)
THEOREM RefundsHaveCause == Spec => []RefundHasCause
<1>1. IInv => RefundHasCause
  BY DEF IInv
<1> QED BY <1>1, Invariance, PTL

(***************************************************************************)
(* A worker who is paid without anyone's consent delivered in time and     *)
(* waited out a clock, or holds a passing verdict about the delivery.      *)
(***************************************************************************)
THEOREM WorkerClaimsHaveCause == Spec => []WorkerClaimHasCause
<1>1. IInv => WorkerClaimHasCause
  BY DEF IInv
<1> QED BY <1>1, Invariance, PTL

(***************************************************************************)
(* The documented worst case, for any lengths of the windows: after the    *)
(* longest review and the arbitration window the worker's own claim is     *)
(* open on every task that is delivered and unsettled.                     *)
(***************************************************************************)
THEOREM WorstCaseHolds == Spec => []WorstCaseWait
<1>1. IInv => WorstCaseWait
  <2> SUFFICES ASSUME IInv, NEW t \in TaskIds,
                      tasks[t].state \in {"Delivered"} \cup Contested,
                      now >= tasks[t].submittedAt + MAX_REVIEW_WINDOW + ARBITRATION_WINDOW
               PROVE  \/ tasks[t].state = "Delivered" /\ now >= reviewDeadline(t)
                      \/ /\ tasks[t].state \in Contested
                         /\ tasks[t].disputedAt # 0
                         /\ now >= arbitrationDeadline(t)
    BY DEF WorstCaseWait
  <2>1. /\ Stage(t) /\ now \in Nat
        /\ tasks[t].submittedAt \in Nat /\ tasks[t].reviewWindow \in Nat
        /\ tasks[t].disputedAt \in Nat
    BY DEF IInv, Stages, TypeOK, Task
  <2>2. /\ 0 < tasks[t].submittedAt /\ tasks[t].reviewWindow =< MAX_REVIEW_WINDOW
    BY <2>1 DEF Stage, Contested
  <2>3. CASE tasks[t].state = "Delivered"
    BY <2>1, <2>2, <2>3, WindowAssumption DEF reviewDeadline
  <2>4. CASE tasks[t].state \in Contested
    <3>1. /\ tasks[t].submittedAt =< tasks[t].disputedAt
          /\ tasks[t].disputedAt < tasks[t].submittedAt + tasks[t].reviewWindow
      BY <2>1, <2>4 DEF Stage, DisputedInTime, reviewDeadline
    <3> QED BY <2>1, <2>2, <2>4, <3>1, WindowAssumption DEF arbitrationDeadline
  <2> QED BY <2>3, <2>4
<1> QED BY <1>1, Invariance, PTL

-----------------------------------------------------------------------------
(* Properties of steps, and the pairs of tasks. *)

(***************************************************************************)
(* What was agreed at funding, the evidence frozen at delivery, the        *)
(* verdict recorded and a settled task never change.                       *)
(***************************************************************************)
THEOREM CommitmentsStayFrozen == Spec => CommitmentsFrozen
<1> DEFINE Frozen(t) ==
      /\ tasks[t].state # "None" => Agreed(tasks'[t]) = Agreed(tasks[t])
      /\ tasks[t].submittedAt # 0 =>
           /\ tasks'[t].submittedAt = tasks[t].submittedAt
           /\ tasks'[t].evidenceHash = tasks[t].evidenceHash
      /\ tasks[t].verdictHash # ZeroHash =>
           tasks'[t].verdictHash = tasks[t].verdictHash
      /\ tasks[t].state \in Settled => tasks'[t] = tasks[t]
<1>1. ASSUME IInv, [Next]_vars PROVE [\A t \in TaskIds : Frozen(t)]_vars
  <2> SUFFICES ASSUME NEW t \in TaskIds PROVE Frozen(t)
    OBVIOUS
  <2>1. Stage(t) /\ tasks[t] \in Task
    BY <1>1 DEF IInv, Stages, TypeOK
  <2>2. Same(t) \/ Shape(t)
    BY <1>1, StepShape DEF IInv, OneTask
  <2>3. CASE Same(t)
    BY <2>3 DEF Same, Agreed
  <2>4. CASE Created(t)
    BY <2>1, <2>4 DEF Created, Stage, Settled
  <2>5. CASE Submitted(t)
    BY <2>1, <2>5 DEF Submitted, Stage, Settled, Agreed, Task
  <2>6. CASE Contest(t)
    BY <2>1, <2>6 DEF Contest, Judged, Stage, Settled, Agreed, Task
  <2>7. CASE Begun(t)
    BY <2>1, <2>7 DEF Begun, Settled, Agreed, Task
  <2>8. CASE Proven(t)
    BY <2>1, <2>8 DEF Proven, Ended, Judged, Stage, Settled, Agreed, Task
  <2>9. CASE Granted(t) \/ Waited(t) \/ Outlasted(t)
    BY <2>1, <2>9 DEF Granted, Waited, Outlasted, Completed, Ended, Settled,
                      Contested, Agreed, Task
  <2>10. CASE Ruled(t) \/ Refunded(t)
    BY <2>1, <2>10 DEF Ruled, Refunded, Ended, Settled, Contested, Agreed, Task
  <2> QED BY <2>2, <2>3, <2>4, <2>5, <2>6, <2>7, <2>8, <2>9, <2>10 DEF Shape
<1>2. IInv /\ [Next]_vars => [\A t \in TaskIds : Frozen(t)]_vars
  BY <1>1
<1>3. Spec => [][\A t \in TaskIds : Frozen(t)]_vars
  BY <1>2, Invariance, PTL DEF Spec
<1> QED BY <1>3 DEF CommitmentsFrozen

(* A decided task has spent a nonce, and two decided tasks two of them.    *)
Spent ==
    /\ IInv
    /\ \A t \in TaskIds : tasks[t].verdictHash # ZeroHash => SpentFor(t) # {}
    /\ OneNonceOneDecision

LEMMA SpentStep == Spent /\ [Next]_vars => Spent'
<1> SUFFICES ASSUME Spent, [Next]_vars PROVE Spent'
  OBVIOUS
<1>1. /\ IInv' /\ Onward
      /\ \/ \A u \in TaskIds : Same(u)
         \/ \E t \in TaskIds : OneTask(t)
  BY IInvStep, StepShape DEF Spent, IInv
<1>2. ASSUME NEW u \in TaskIds, tasks'[u].verdictHash = tasks[u].verdictHash
      PROVE  SpentFor(u) \subseteq SpentFor(u)'
  BY <1>1, <1>2 DEF SpentFor, Onward
<1>3. ASSUME NEW t \in TaskIds, NEW v, Judged(t, v), tasks'[t].verdictHash = v
      PROVE  \E n \in SpentFor(t)' : n \notin verdictNonceUsed
  <2>1. PICK s \in Accounts : << s, v.nonce >> \in verdictNonceUsed' \ verdictNonceUsed
    BY <1>3 DEF Judged
  <2>2. << s, v.nonce >> \in SpentFor(t)'
    BY <1>3, <2>1 DEF SpentFor
  <2> QED BY <2>1, <2>2
<1>4. ASSUME NEW u \in TaskIds
      PROVE  \/ tasks'[u].verdictHash = tasks[u].verdictHash
             \/ tasks'[u].verdictHash = ZeroHash
             \/ \E n \in SpentFor(u)' : n \notin verdictNonceUsed
  <2>1. Same(u) \/ Shape(u)
    BY <1>1 DEF OneTask
  <2>2. tasks[u] \in Task
    BY DEF Spent, IInv, TypeOK
  <2>3. CASE Same(u)
    BY <2>3 DEF Same
  <2>4. CASE Created(u)
    BY <2>4 DEF Created
  <2>5. CASE Submitted(u) \/ Begun(u) \/ Ruled(u) \/ Refunded(u)
    BY <2>2, <2>5 DEF Submitted, Begun, Ruled, Refunded, Ended, Task
  <2>6. CASE Granted(u) \/ Waited(u) \/ Outlasted(u)
    BY <2>2, <2>6 DEF Granted, Waited, Outlasted, Completed, Ended, Task
  <2>7. CASE Contest(u) \/ Proven(u)
    <3>1. PICK v \in Verdict : Judged(u, v) /\ tasks'[u].verdictHash = v
      BY <2>2, <2>7 DEF Contest, Proven, Ended, Task
    <3> QED BY <3>1, <1>3
  <2> QED BY <2>1, <2>3, <2>4, <2>5, <2>6, <2>7 DEF Shape
<1>5. ASSUME NEW u \in TaskIds, tasks'[u].verdictHash # ZeroHash
      PROVE  SpentFor(u)' # {}
  <2>1. CASE tasks'[u].verdictHash = tasks[u].verdictHash
    BY <1>2, <1>5, <2>1 DEF Spent
  <2> QED BY <1>4, <1>5, <2>1
<1>6. ASSUME NEW t \in TaskIds, NEW u \in TaskIds, t # u,
             tasks'[t].verdictHash # ZeroHash, tasks'[u].verdictHash # ZeroHash
      PROVE  \E n \in SpentFor(t)', m \in SpentFor(u)' : n # m
  <2>1. Same(t) \/ Same(u)
    BY <1>1, <1>6 DEF OneTask
  <2>2. CASE /\ tasks'[t].verdictHash = tasks[t].verdictHash
             /\ tasks'[u].verdictHash = tasks[u].verdictHash
    <3>1. PICK n \in SpentFor(t), m \in SpentFor(u) : n # m
      BY <1>6, <2>2 DEF Spent, OneNonceOneDecision
    <3> QED BY <3>1, <1>2, <2>2
  <2>3. ASSUME NEW x \in TaskIds, NEW y \in TaskIds, Same(x),
               tasks'[x].verdictHash # ZeroHash,
               tasks'[y].verdictHash # ZeroHash,
               tasks'[y].verdictHash # tasks[y].verdictHash
        PROVE  \E n \in SpentFor(x)', m \in SpentFor(y)' : n # m
    <3>1. PICK m \in SpentFor(y)' : m \notin verdictNonceUsed
      BY <1>4, <2>3
    <3>2. PICK n \in SpentFor(x) : n \in verdictNonceUsed
      BY <2>3 DEF Same, Spent, SpentFor
    <3>3. n \in SpentFor(x)'
      BY <1>2, <2>3, <3>2 DEF Same
    <3> QED BY <3>1, <3>2, <3>3
  <2>4. Same(t) => tasks'[t].verdictHash = tasks[t].verdictHash
    BY DEF Same
  <2>5. Same(u) => tasks'[u].verdictHash = tasks[u].verdictHash
    BY DEF Same
  <2>6. CASE tasks'[u].verdictHash # tasks[u].verdictHash
    BY <1>6, <2>1, <2>3, <2>5, <2>6
  <2>7. CASE tasks'[t].verdictHash # tasks[t].verdictHash
    <3>1. \E n \in SpentFor(u)', m \in SpentFor(t)' : n # m
      BY <1>6, <2>1, <2>3, <2>4, <2>7
    <3> QED BY <3>1
  <2> QED BY <2>2, <2>6, <2>7
<1> QED BY <1>1, <1>5, <1>6 DEF Spent, OneNonceOneDecision

(***************************************************************************)
(* A signed nonce decides at most one task: there is no replay across      *)
(* tasks, however many signers use the same nonce numbers.                 *)
(***************************************************************************)
THEOREM NoReplayAcrossTasks == Spec => []OneNonceOneDecision
<1>1. Init => Spent
  <2>1. Init => \A t \in TaskIds : tasks[t].verdictHash = ZeroHash
    BY DEF Init, NoTask
  <2> QED BY <2>1, IInvInit DEF Spent, OneNonceOneDecision
<1>2. Spent => OneNonceOneDecision
  BY DEF Spent
<1> QED BY <1>1, <1>2, SpentStep, PTL DEF Spec

-----------------------------------------------------------------------------
(* Money. *)

(* A transfer into the escrow adds to its balance; one out of it takes at  *)
(* most the amount.                                                        *)
LEMMA EscrowBalance ==
    ASSUME usdc \in [Addresses -> Nat], NEW from \in Addresses,
           NEW to \in Addresses, NEW amount \in Nat
    PROVE  /\ from # Escrow /\ to = Escrow =>
                Moved(from, to, amount)[Escrow] = usdc[Escrow] + amount
           /\ from = Escrow =>
                Moved(from, to, amount)[Escrow] >= usdc[Escrow] - amount
<1> DEFINE debited == [usdc EXCEPT ![from] = @ - amount]
<1>1. Escrow \in Addresses
  BY DEF Addresses
<1>2. Moved(from, to, amount)[Escrow] =
         IF to = Escrow THEN debited[Escrow] + amount ELSE debited[Escrow]
  BY <1>1 DEF Moved
<1>3. debited[Escrow] = IF from = Escrow THEN usdc[Escrow] - amount ELSE usdc[Escrow]
  BY <1>1
<1>4. usdc[Escrow] \in Nat
  BY <1>1
<1> QED BY <1>2, <1>3, <1>4

(* What the escrow holds above totalLocked, from one state to the next.    *)
SurplusKept == usdc'[Escrow] - totalLocked' >= usdc[Escrow] - totalLocked

LEMMA SurplusStep ==
    ASSUME TypeOK, [Next]_vars
    PROVE  SurplusKept
<1> DEFINE Kept == usdc'[Escrow] - totalLocked' >= usdc[Escrow] - totalLocked
<1> SUFFICES Kept
  BY DEF SurplusKept
<1>1. /\ usdc \in [Addresses -> Nat] /\ totalLocked \in Nat
      /\ Escrow \in Addresses /\ usdc[Escrow] \in Nat
      /\ Accounts \subseteq Addresses /\ Escrow \notin Accounts
  BY AddressAssumption DEF TypeOK, Addresses
<1>2. ASSUME NEW t \in TaskIds, NEW event, NEW toWorker \in BOOLEAN,
             NEW task \in Task, pay(t, task, event, toWorker)
      PROVE  Kept
  <2> DEFINE to == IF toWorker THEN task.worker ELSE task.agent
  <2>1. task.amount \in Nat /\ to \in Addresses
    BY DEF Task
  <2>2. Moved(Escrow, to, task.amount)[Escrow] >= usdc[Escrow] - task.amount
    BY <1>1, <2>1, EscrowBalance
  <2>3. usdc' = Moved(Escrow, to, task.amount) /\ totalLocked' = totalLocked - task.amount
    BY <1>2 DEF pay
  <2>4. usdc'[Escrow] \in Int
    <3>1. usdc[Escrow] >= task.amount
      BY <1>2 DEF pay
    <3> QED BY <1>1, <2>1, <2>3, <3>1, MovedType
  <2> QED BY <1>1, <2>1, <2>2, <2>3, <2>4
<1>3. ASSUME NEW sender \in Accounts, NEW amount \in Amounts,
             usdc' = Moved(sender, Escrow, amount)
      PROVE  usdc'[Escrow] = usdc[Escrow] + amount /\ amount \in Nat
  BY <1>1, <1>3, EscrowBalance, AmountAssumption
<1>4. ASSUME NEW t \in TaskIds, NEW sender \in Accounts, PartyStep(t, sender)
      PROVE  Kept
  <2>1. \A final \in TaskState : [tasks[t] EXCEPT !.state = final] \in Task
    BY DEF TypeOK, Task
  <2>2. \A v \in Verdict : [[tasks[t] EXCEPT !.verdictHash = v, !.verdictPassed = TRUE]
                              EXCEPT !.state = "Completed"] \in Task
    BY ZenonT(40) DEF TypeOK, Task, TaskState
  <2>3. CASE \/ completeTask(t, sender) \/ releaseAfterReview(t, sender)
             \/ releaseAfterArbitration(t, sender) \/ expireTask(t, sender)
    BY <2>1, <2>3, <1>2 DEF completeTask, releaseAfterReview, expireTask,
       releaseAfterArbitration, payOut, TaskState
  <2>4. ASSUME NEW x \in Signed, claimWithVerdict(t, sender, x.verdict, x.signer)
        PROVE  Kept
    BY <2>2, <2>4, <1>2, HashAssumption DEF claimWithVerdict, payOut, verdictDigest
  <2>5. ASSUME NEW x \in Signed, disputeTask(t, sender, x.verdict, x.signer)
        PROVE  Kept
    BY <1>1, <2>5 DEF disputeTask
  <2>6. ASSUME NEW e, NEW a, submitWork(t, sender, e, a) PROVE Kept
    BY <1>1, <2>6 DEF submitWork
  <2>7. ASSUME NEW w, NEW amount \in Amounts, NEW d, NEW r, NEW h,
               createTask(t, sender, w, amount, d, r, h)
        PROVE  Kept
    <3>1. usdc' = Moved(sender, Escrow, amount) /\ totalLocked' = totalLocked + amount
      BY <2>7 DEF createTask
    <3> QED BY <1>1, <1>3, <3>1
  <2> QED BY <1>4, <2>3, <2>4, <2>5, <2>6, <2>7 DEF PartyStep
<1>5. ASSUME NEW t \in TaskIds, NEW sender \in Accounts, ArbiterStep(t, sender)
      PROVE  Kept
  <2>1. \A final \in TaskState : [tasks[t] EXCEPT !.state = final] \in Task
    BY DEF TypeOK, Task
  <2>2. CASE completeTaskByOwner(t, sender)
    BY <2>1, <2>2, <1>2 DEF completeTaskByOwner, payOut, TaskState
  <2>3. CASE beginArbitration(t, sender)
    BY <1>1, <2>3 DEF beginArbitration
  <2>4. ASSUME NEW b \in BOOLEAN, resolveDispute(t, sender, b) PROVE Kept
    BY <2>1, <2>4, <1>2 DEF resolveDispute, TaskState
  <2> QED BY <1>5, <2>2, <2>3, <2>4 DEF ArbiterStep
<1>6. ASSUME NEW sender \in Accounts, NEW amount \in Amounts,
             strayDeposit(sender, amount)
      PROVE  Kept
  BY <1>1, <1>3, <1>6 DEF strayDeposit
<1>7. ASSUME \/ UNCHANGED vars \/ Tick
             \/ \E sender \in Accounts : AdminStep(sender)
      PROVE  Kept
  BY <1>1, <1>7 DEF vars, Tick, AdminStep, setVerdictSigner, revokeVerdictNonce,
                    transferOwnership, acceptOwnership, renounceOwnership
<1> QED BY <1>4, <1>5, <1>6, <1>7 DEF Next

(***************************************************************************)
(* Nothing but its own task's amount is ever paid out: the surplus over    *)
(* totalLocked does not shrink.                                            *)
(***************************************************************************)
THEOREM SurplusStays == Spec => StrayStaysPut
<1>1. TypeOK /\ [Next]_vars => [SurplusKept]_vars
  BY SurplusStep
<1>2. Spec => [][SurplusKept]_vars
  BY <1>1, TypeCorrect, PTL DEF Spec
<1> QED BY <1>2 DEF StrayStaysPut, SurplusKept

(* What one step does to the tasks whose money is locked and to the total. *)

live    == {t \in TaskIds : tasks[t].state \in Live}
amounts == [t \in TaskIds |-> tasks[t].amount]

Locks(t) ==
    /\ t \notin live /\ live' = live \cup {t}
    /\ totalLocked' = totalLocked + amounts'[t]

Frees(t) ==
    /\ t \in live /\ live' = live \ {t}
    /\ totalLocked' = totalLocked - amounts[t]

Holds == live' = live /\ totalLocked' = totalLocked

Ledger ==
    /\ \A u \in live : amounts'[u] = amounts[u]
    /\ Holds \/ \E t \in TaskIds : Locks(t) \/ Frees(t)

LEMMA PayFrees ==
    ASSUME TypeOK, NEW t \in TaskIds, NEW task, NEW event, NEW toWorker,
           pay(t, task, event, toWorker), tasks[t].state \in Live,
           task.state \in Settled, task.amount = tasks[t].amount
    PROVE  Ledger
<1>1. tasks'[t] = task /\ \A u \in TaskIds \ {t} : tasks'[u] = tasks[u]
  BY DEF pay, TypeOK
<1>2. live' = live \ {t} /\ t \in live
  BY <1>1 DEF live, Live, Settled, Contested
<1>3. \A u \in TaskIds : amounts'[u] = amounts[u]
  BY <1>1 DEF amounts
<1>4. totalLocked' = totalLocked - amounts[t]
  BY DEF pay, amounts
<1> QED BY <1>2, <1>3, <1>4 DEF Ledger, Frees, live

LEMMA LedgerStep ==
    ASSUME TypeOK, [Next]_vars
    PROVE  Ledger
<1>1. ASSUME \A u \in TaskIds : /\ tasks'[u].amount = tasks[u].amount
                                /\ tasks'[u].state \in Live <=> tasks[u].state \in Live,
             totalLocked' = totalLocked
      PROVE  Ledger
  BY <1>1 DEF Ledger, Holds, live, amounts
<1>2. ASSUME NEW t \in TaskIds, NEW sender \in Accounts, PartyStep(t, sender)
      PROVE  Ledger
  <2>1. \A final \in Settled : LET task == [tasks[t] EXCEPT !.state = final]
                               IN  task.state = final /\ task.amount = tasks[t].amount
    BY DEF TypeOK, Task
  <2>2. ASSUME NEW v
        PROVE LET task == [[tasks[t] EXCEPT !.verdictHash = v, !.verdictPassed = TRUE]
                              EXCEPT !.state = "Completed"]
              IN  task.state = "Completed" /\ task.amount = tasks[t].amount
    BY DEF TypeOK, Task
  <2>3. CASE \/ completeTask(t, sender) \/ releaseAfterReview(t, sender)
             \/ releaseAfterArbitration(t, sender) \/ expireTask(t, sender)
    BY <2>1, <2>3, PayFrees DEF completeTask, releaseAfterReview, expireTask,
       releaseAfterArbitration, payOut, Live, Contested, Settled
  <2>4. ASSUME NEW x \in Signed, claimWithVerdict(t, sender, x.verdict, x.signer)
        PROVE  Ledger
    BY <2>2, <2>4, PayFrees DEF claimWithVerdict, payOut, verdictDigest, Live, Settled
  <2>5. ASSUME NEW x \in Signed, disputeTask(t, sender, x.verdict, x.signer)
        PROVE  Ledger
    BY <1>1, <2>5 DEF disputeTask, TypeOK, Live, Contested, Task
  <2>6. ASSUME NEW e, NEW a, submitWork(t, sender, e, a)
        PROVE  Ledger
    BY <1>1, <2>6 DEF submitWork, TypeOK, Live, Contested, Task
  <2>7. ASSUME NEW w, NEW amount \in Amounts, NEW d, NEW r, NEW h,
               createTask(t, sender, w, amount, d, r, h)
        PROVE  Ledger
    <3>1. /\ tasks'[t].state = "Funded" /\ tasks'[t].amount = amount
          /\ \A u \in TaskIds \ {t} : tasks'[u] = tasks[u]
      BY <2>7 DEF createTask, TypeOK, NoTask
    <3>2. tasks[t].state = "None" /\ totalLocked' = totalLocked + amount
      BY <2>7 DEF createTask
    <3>3. live' = live \cup {t} /\ t \notin live
      BY <3>1, <3>2 DEF live, Live, Contested
    <3>4. \A u \in live : amounts'[u] = amounts[u]
      BY <3>1, <3>3 DEF amounts, live
    <3>5. amounts'[t] = amount
      BY <3>1 DEF amounts
    <3> QED BY <3>2, <3>3, <3>4, <3>5 DEF Ledger, Locks
  <2> QED BY <1>2, <2>3, <2>4, <2>5, <2>6, <2>7 DEF PartyStep
<1>3. ASSUME NEW t \in TaskIds, NEW sender \in Accounts, ArbiterStep(t, sender)
      PROVE  Ledger
  <2>1. \A final \in Settled : LET task == [tasks[t] EXCEPT !.state = final]
                               IN  task.state = final /\ task.amount = tasks[t].amount
    BY DEF TypeOK, Task
  <2>2. CASE completeTaskByOwner(t, sender)
    BY <2>1, <2>2, PayFrees DEF completeTaskByOwner, payOut, Live, Settled
  <2>3. CASE beginArbitration(t, sender)
    BY <1>1, <2>3 DEF beginArbitration, TypeOK, Live, Contested, Task
  <2>4. ASSUME NEW b \in BOOLEAN, resolveDispute(t, sender, b) PROVE Ledger
    BY <2>1, <2>4, PayFrees DEF resolveDispute, Live, Contested, Settled
  <2> QED BY <1>3, <2>2, <2>3, <2>4 DEF ArbiterStep
<1>4. ASSUME \/ UNCHANGED vars \/ Tick
             \/ \E sender \in Accounts : AdminStep(sender)
             \/ \E sender \in Accounts, amount \in Amounts : strayDeposit(sender, amount)
      PROVE  Ledger
  BY <1>1, <1>4 DEF vars, Tick, AdminStep, setVerdictSigner, revokeVerdictNonce,
     transferOwnership, acceptOwnership, renounceOwnership, strayDeposit
<1> QED BY <1>2, <1>3, <1>4 DEF Next

(* Solvency with what its sum needs: finitely many tasks are live at once, *)
(* since each was created by a step of its own.                            *)
Books ==
    /\ IsFiniteSet(live)
    /\ totalLocked = SumFunctionOnSet(amounts, live)
    /\ usdc[Escrow] >= totalLocked

LEMMA BooksStep == TypeOK /\ Books /\ [Next]_vars => Books'
<1> SUFFICES ASSUME TypeOK, Books, [Next]_vars PROVE Books'
  OBVIOUS
<1>1. Ledger /\ TypeOK'
  BY LedgerStep, TypeStep
<1>2. live \subseteq TaskIds /\ live' \subseteq TaskIds
  BY DEF live
<1>3. \A u \in TaskIds : amounts[u] \in Int /\ amounts'[u] \in Int
  <2>1. \A u \in TaskIds : amounts[u] = tasks[u].amount /\ amounts'[u] = tasks'[u].amount
    BY DEF amounts
  <2>2. \A task \in Task : task.amount \in Int
    BY DEF Task
  <2>3. \A u \in TaskIds : tasks[u] \in Task /\ tasks'[u] \in Task
    BY <1>1 DEF TypeOK
  <2> QED BY <2>1, <2>2, <2>3
<1>4. SumFunctionOnSet(amounts', live) = totalLocked
  <2>1. IsFiniteSet(live) /\ \A u \in live : amounts'[u] = amounts[u]
    BY <1>1 DEF Ledger, Books
  <2>2. SumFunctionOnSet(amounts', live) = SumFunctionOnSet(amounts, live)
    BY <2>1, SumSame, Zenon
  <2> QED BY <2>2, Zenon DEF Books
<1>5. IsFiniteSet(live') /\ totalLocked' = SumFunctionOnSet(amounts', live')
  <2>1. CASE Holds
    BY <1>4, <2>1 DEF Holds, Books
  <2>2. ASSUME NEW t \in TaskIds, Locks(t)
        PROVE  IsFiniteSet(live') /\ totalLocked' = SumFunctionOnSet(amounts', live')
    <3>1. IsFiniteSet(live')
      BY <2>2, FS_AddElement DEF Locks, Books
    <3>2. \A u \in live \cup {t} : amounts'[u] \in Int
      BY <1>2, <1>3
    <3>3. SumFunctionOnSet(amounts', live \cup {t}) = amounts'[t] + totalLocked
      BY <1>4, <2>2, <3>2, SumInsert DEF Locks, Books
    <3> QED BY <1>3, <2>2, <3>1, <3>3 DEF Locks, TypeOK
  <2>3. ASSUME NEW t \in TaskIds, Frees(t)
        PROVE  IsFiniteSet(live') /\ totalLocked' = SumFunctionOnSet(amounts', live')
    <3>1. IsFiniteSet(live')
      BY <2>3, FS_Subset DEF Frees, Books
    <3>2. \A u \in live : amounts'[u] \in Int
      BY <1>2, <1>3
    <3>3. totalLocked = amounts'[t] + SumFunctionOnSet(amounts', live \ {t})
      BY <1>4, <2>3, <3>2, SumRemove DEF Frees, Books
    <3>4. amounts'[t] = amounts[t]
      BY <1>1, <2>3 DEF Ledger, Frees
    <3>5. SumFunctionOnSet(amounts', live \ {t}) \in Int
      BY <2>3, <3>1, <3>2, SumType DEF Frees
    <3> QED BY <1>3, <2>3, <3>1, <3>3, <3>4, <3>5 DEF Frees
  <2> QED BY <1>1, <2>1, <2>2, <2>3 DEF Ledger
<1>6. usdc'[Escrow] >= totalLocked'
  <2>1. Escrow \in Addresses
    BY DEF Addresses
  <2>2. /\ usdc[Escrow] \in Nat /\ totalLocked \in Nat
        /\ usdc'[Escrow] \in Nat /\ totalLocked' \in Nat
    BY <1>1, <2>1 DEF TypeOK
  <2> QED BY <2>2, SurplusStep DEF SurplusKept, Books
<1> QED BY <1>5, <1>6 DEF Books

LEMMA BooksInit == Init => Books
<1> SUFFICES ASSUME Init PROVE Books
  OBVIOUS
<1>1. live = {}
  BY DEF Init, live, NoTask, Live, Contested
<1>2. IsFiniteSet(live)
  BY <1>1, FS_EmptySet
<1>3. SumFunctionOnSet(amounts, live) = 0
  BY <1>1, <1>2, SumFirst
<1>4. usdc[Escrow] = 0 /\ totalLocked = 0
  BY AddressAssumption DEF Init, Addresses
<1> QED BY <1>2, <1>3, <1>4 DEF Books

(***************************************************************************)
(* totalLocked is at every moment the sum of the amounts of the live       *)
(* tasks, and the escrow's USDC covers it: however many tasks there are    *)
(* and in whatever order they were funded and settled.                     *)
(***************************************************************************)
THEOREM SolvencyHolds == Spec => []Solvency
<1>1. Books => Solvency
  BY DEF Books, Solvency, live, amounts
<1> QED BY <1>1, BooksInit, BooksStep, TypeCorrect, PTL DEF Spec

(***************************************************************************)
(* Neither the checked subtraction nor the token transfer of a settlement  *)
(* can fail for want of money: a live task's own amount is always within   *)
(* totalLocked and within what the escrow holds.  The two guards in pay    *)
(* are never what keeps a worker or an agent from being paid.              *)
(***************************************************************************)
THEOREM LiveTasksArePayable ==
    Spec => [](\A t \in TaskIds : tasks[t].state \in Live =>
                  totalLocked >= tasks[t].amount /\ usdc[Escrow] >= tasks[t].amount)
<1> DEFINE Payable == \A t \in TaskIds : tasks[t].state \in Live =>
                  totalLocked >= tasks[t].amount /\ usdc[Escrow] >= tasks[t].amount
<1>1. TypeOK /\ Books => Payable
  <2> SUFFICES ASSUME TypeOK, Books, NEW t \in TaskIds, tasks[t].state \in Live
               PROVE  totalLocked >= tasks[t].amount /\ usdc[Escrow] >= tasks[t].amount
    OBVIOUS
  <2>1. t \in live /\ amounts[t] = tasks[t].amount
    BY DEF live, amounts
  <2>2. \A u \in live : amounts[u] \in Nat
    BY DEF live, amounts, TypeOK, Task
  <2>3. totalLocked = amounts[t] + SumFunctionOnSet(amounts, live \ {t})
    BY <2>1, <2>2, SumRemove DEF Books
  <2>4. SumFunctionOnSet(amounts, live \ {t}) \in Nat
    BY <2>2, FS_Subset, SumType DEF Books
  <2>5. usdc[Escrow] \in Nat /\ totalLocked \in Nat
    BY DEF TypeOK, Addresses
  <2> QED BY <2>1, <2>2, <2>3, <2>4, <2>5 DEF Books
<1> QED BY <1>1, BooksInit, BooksStep, TypeCorrect, PTL DEF Spec

-----------------------------------------------------------------------------
(* Refinement. *)

LEMMA LifecycleInit == Init => Lifecycle!Init
BY DEF Init, NoTask, PaidTo, Lifecycle!Init

LEMMA LifecycleStep == IInv /\ [Next]_vars => [Lifecycle!Next]_(Lifecycle!lifecycleVars)
<1> SUFFICES ASSUME IInv, [Next]_vars
             PROVE  [Lifecycle!Next]_(Lifecycle!lifecycleVars)
  OBVIOUS
<1> DEFINE state == [u \in TaskIds |-> tasks[u].state]
           paidTo == [u \in TaskIds |-> PaidTo(u)]
<1>1. \A u \in TaskIds : Same(u) => /\ tasks'[u].state = tasks[u].state
                                    /\ PaidTo(u)' = PaidTo(u)
  BY DEF Same, PaidTo
<1>2. CASE \A u \in TaskIds : Same(u)
  BY <1>1, <1>2 DEF Lifecycle!lifecycleVars
<1>3. ASSUME NEW t \in TaskIds, OneTask(t) PROVE Lifecycle!TaskStep(t)
  <2>1. tasks[t] \in Task /\ tasks[t].state = state[t]
    BY DEF IInv, TypeOK
  <2>2. /\ state' = [state EXCEPT ![t] = tasks'[t].state]
        /\ paidTo' = [paidTo EXCEPT ![t] = PaidTo(t)']
    BY <1>1, <1>3 DEF OneTask
  <2>3. payments'[t] = payments[t] => paidTo' = paidTo
    <3>1. payments'[t] = payments[t] => PaidTo(t)' = PaidTo(t)
      BY DEF PaidTo
    <3> QED BY <2>2, <3>1
  <2>4. CASE Created(t)
    BY <2>1, <2>2, <2>3, <2>4
       DEF Created, Lifecycle!TaskStep, Lifecycle!Fund, Lifecycle!Move
  <2>5. CASE Submitted(t)
    <3>1. tasks'[t].state = "Delivered"
      BY <2>1, <2>5 DEF Submitted, Task
    <3> QED BY <2>1, <2>2, <2>3, <2>5, <3>1
            DEF Submitted, Lifecycle!TaskStep, Lifecycle!Deliver, Lifecycle!Move
  <2>6. CASE Contest(t)
    <3>1. tasks[t].state = "Delivered" /\ tasks'[t].state = "Disputed"
      BY <2>1, <2>6 DEF Contest, Judged, Task
    <3> QED BY <2>1, <2>2, <2>3, <2>6, <3>1
            DEF Contest, Lifecycle!TaskStep, Lifecycle!Dispute, Lifecycle!Move
  <2>7. CASE Begun(t)
    <3>1. tasks'[t].state = "Arbitrating"
      BY <2>1, <2>7 DEF Begun, Task
    <3> QED BY <2>1, <2>2, <2>3, <2>7, <3>1
            DEF Begun, Lifecycle!TaskStep, Lifecycle!Arbitrate, Lifecycle!Move
  <2>8. ASSUME NEW task, NEW event, NEW toWorker \in BOOLEAN,
               tasks[t].state \notin Settled, Ended(t, task, event, toWorker)
        PROVE  /\ tasks'[t] = task
               /\ PaidTo(t)' = IF toWorker THEN "worker" ELSE "agent"
    <3>1. Len(payments'[t]) = 1 /\ payments'[t][1].toWorker = toWorker
      BY <2>8, EndedOnce
    <3>2. payments'[t] # << >>
      BY <3>1
    <3> QED BY <2>8, <3>1, <3>2 DEF Ended, PaidTo
  <2>9. CASE Granted(t) \/ Waited(t) \/ Outlasted(t)
    <3>1. PICK event, toWorker :
             /\ toWorker \in BOOLEAN /\ toWorker
             /\ Ended(t, [tasks[t] EXCEPT !.state = "Completed"], event, toWorker)
      BY <2>9 DEF Granted, Waited, Outlasted, Completed
    <3>2. tasks[t].state \in {"Funded", "Delivered"} \cup Contested
      BY <2>9 DEF Granted, Waited, Outlasted
    <3>3. tasks'[t].state = "Completed" /\ PaidTo(t)' = "worker"
      <4>1. tasks[t].state \notin Settled
        BY <3>2 DEF Settled, Contested
      <4>2. PaidTo(t)' = "worker"
        BY <2>8, <3>1, <4>1
      <4>3. tasks'[t].state = "Completed"
        BY <2>1, <3>1 DEF Ended, Task
      <4> QED BY <4>2, <4>3
    <3>4. Lifecycle!Complete(t)
      BY <2>1, <2>2, <3>2, <3>3
         DEF Lifecycle!Complete, Lifecycle!Settle, Lifecycle!Contested, Contested
    <3> QED BY <3>4 DEF Lifecycle!TaskStep
  <2>10. CASE Proven(t)
    <3>1. PICK v \in Verdict, toWorker \in BOOLEAN :
             /\ toWorker
             /\ Ended(t, [tasks[t] EXCEPT !.verdictHash = v, !.verdictPassed = TRUE,
                            !.state = "Completed"], "PassingVerdict", toWorker)
      BY <2>10 DEF Proven
    <3>2. tasks[t].state = "Delivered"
      BY <2>10 DEF Proven, Judged
    <3>3. tasks'[t].state = "Completed" /\ PaidTo(t)' = "worker"
      <4>1. tasks[t].state \notin Settled
        BY <3>2 DEF Settled
      <4>2. PaidTo(t)' = "worker"
        BY <2>8, <3>1, <4>1
      <4>3. tasks'[t].state = "Completed"
        BY <2>1, <3>1 DEF Ended, Task
      <4> QED BY <4>2, <4>3
    <3>4. Lifecycle!Complete(t)
      BY <2>1, <2>2, <3>2, <3>3 DEF Lifecycle!Complete, Lifecycle!Settle
    <3> QED BY <3>4 DEF Lifecycle!TaskStep
  <2>11. CASE Ruled(t)
    <3>1. PICK toWorker \in BOOLEAN :
             Ended(t, [tasks[t] EXCEPT !.state = "Resolved"], "TaskResolved", toWorker)
      BY <2>11 DEF Ruled
    <3>2. tasks[t].state \in Contested
      BY <2>11 DEF Ruled
    <3>3. tasks'[t].state = "Resolved" /\ PaidTo(t)' \in {"worker", "agent"}
      BY <2>1, <2>8, <3>1, <3>2 DEF Settled, Contested, Task
    <3>4. Lifecycle!Rule(t, PaidTo(t)')
      BY <2>1, <2>2, <3>2, <3>3
         DEF Lifecycle!Rule, Lifecycle!Settle, Lifecycle!Contested, Contested
    <3> QED BY <3>3, <3>4 DEF Lifecycle!TaskStep
  <2>12. CASE Refunded(t)
    <3>1. PICK toWorker \in BOOLEAN :
             /\ ~ toWorker
             /\ Ended(t, [tasks[t] EXCEPT !.state = "Expired"], "TaskExpired", toWorker)
      BY <2>12 DEF Refunded
    <3>2. tasks[t].state = "Funded"
      BY <2>12 DEF Refunded
    <3>3. tasks'[t].state = "Expired" /\ PaidTo(t)' = "agent"
      BY <2>1, <2>8, <3>1, <3>2 DEF Settled, Task
    <3> QED BY <2>1, <2>2, <3>2, <3>3
            DEF Lifecycle!TaskStep, Lifecycle!Refund, Lifecycle!Settle
  <2> QED BY <1>3, <2>4, <2>5, <2>6, <2>7, <2>9, <2>10, <2>11, <2>12
          DEF OneTask, Shape
<1> QED BY <1>2, <1>3, StepShape DEF IInv, Lifecycle!Next

(***************************************************************************)
(* The contract implements the lifecycle it promises: each of its calls is *)
(* one step of one task's EscrowLifecycle, or changes no task.             *)
(***************************************************************************)
THEOREM Refinement == Spec => ImplementsLifecycle
<1>1. Spec => Lifecycle!Spec
  BY LifecycleInit, LifecycleStep, Invariance, PTL DEF Spec, Lifecycle!Spec
<1> QED BY <1>1 DEF ImplementsLifecycle

=============================================================================
