---------------------------- MODULE CarbonEscrow ----------------------------
(***************************************************************************)
(* contracts/CarbonEscrow.sol: the escrow that holds an agent's USDC while *)
(* a human does the work.  One action per external function.  Every        *)
(* transaction is atomic, so an action is a whole call; the interleavings  *)
(* are those of callers (agents, workers, the owner, verdict signers) and  *)
(* of the block clock.                                                     *)
(*                                                                         *)
(* A caller is an address.  An EIP-712 digest is the verdict it commits to *)
(* (the hash is injective), and a signature is a verdict paired with the   *)
(* address that signed it.                                                 *)
(***************************************************************************)
EXTENDS Integers, Sequences, FiniteSetsExt

CONSTANTS
    TaskIds,            \* the task identifiers
    Accounts,           \* externally owned addresses
    ZeroAddress,        \* address(0)
    Escrow,             \* address(this)
    SpecHashes,         \* non-zero commitments to acceptance criteria
    EvidenceHashes,     \* non-zero commitments to submissions
    ZeroHash,           \* bytes32(0)
    Signed,             \* the signed verdicts in circulation
    Nonces,             \* the nonces signers use
    Amounts,            \* the amounts agents ask to fund, zero included
    InitialUsdc,        \* [Accounts -> Nat]: USDC before the escrow exists
    Deployer,           \* msg.sender of the constructor
    InitialSigner,      \* the constructor's initialVerdictSigner, or address(0)
    WorkerCandidates,   \* bound: the addresses agents name as worker
    OwnerCandidates,    \* bound: the accounts ownership is offered to
    SignerCandidates,   \* bound: the accounts set as verdict signers
    MIN_REVIEW_WINDOW, MAX_REVIEW_WINDOW,
    ARBITRATION_WINDOW, MAX_DEADLINE_HORIZON,
    FundingCutoff,      \* bound: no task is created after this time
    MaxTime             \* bound: the clock stops here

Addresses == Accounts \cup {ZeroAddress, Escrow}
Times     == 0 .. MaxTime

Verdict == [ taskId : TaskIds, specHash : SpecHashes,
             evidenceHash : EvidenceHashes, passed : BOOLEAN,
             expiry : Times, nonce : Nonces ]

ASSUME AddressAssumption ==
    /\ ZeroAddress \notin Accounts
    /\ Escrow \notin Accounts
    /\ Escrow # ZeroAddress
    /\ Deployer \in Accounts
    /\ InitialSigner \in Accounts \cup {ZeroAddress}
    /\ WorkerCandidates \subseteq Addresses
    /\ OwnerCandidates \subseteq Accounts
    /\ SignerCandidates \subseteq Accounts

ASSUME HashAssumption ==
    /\ ZeroHash \notin SpecHashes
    /\ ZeroHash \notin EvidenceHashes
    /\ ZeroHash \notin Verdict
    /\ Signed \subseteq [verdict : Verdict, signer : Accounts]

ASSUME AmountAssumption ==
    /\ Amounts \subseteq Nat
    /\ InitialUsdc \in [Accounts -> Nat]

ASSUME WindowAssumption ==
    /\ MIN_REVIEW_WINDOW \in Nat \ {0}
    /\ MAX_REVIEW_WINDOW \in Nat
    /\ MIN_REVIEW_WINDOW =< MAX_REVIEW_WINDOW
    /\ ARBITRATION_WINDOW \in Nat \ {0}
    /\ MAX_DEADLINE_HORIZON \in Nat \ {0}

(* The clock is stopped late enough that every clock started by a task     *)
(* created before FundingCutoff can run out.                               *)
ASSUME BoundAssumption ==
    /\ FundingCutoff \in Nat
    /\ MaxTime \in Nat
    /\ FundingCutoff + MAX_DEADLINE_HORIZON + MAX_REVIEW_WINDOW
         + ARBITRATION_WINDOW =< MaxTime

VARIABLES
    now,              \* block.timestamp
    owner,            \* Ownable's owner
    pendingOwner,     \* Ownable2Step's pending owner
    acceptedSigners,  \* the addresses mapped to true
    verdictNonceUsed, \* the <<signer, nonce>> pairs mapped to true
    tasks,            \* [TaskIds -> Task]
    totalLocked,      \* running total of USDC locked across live tasks
    usdc,             \* the token's balances
    payments          \* per task, the settlement events emitted so far

vars == << now, owner, pendingOwner, acceptedSigners, verdictNonceUsed,
           tasks, totalLocked, usdc, payments >>

roles == << owner, pendingOwner >>

-----------------------------------------------------------------------------
(* The shape of the state. *)

TaskState == { "None", "Funded", "Delivered", "Completed", "Disputed",
               "Arbitrating", "Resolved", "Expired" }

Contested == { "Disputed", "Arbitrating" }
Live      == { "Funded", "Delivered" } \cup Contested
Settled   == { "Completed", "Resolved", "Expired" }

CompletionRoute == { "AgentConfirmed", "ReviewElapsed", "PassingVerdict",
                     "ArbitrationTimeout", "OwnerEmergency" }

Task == [ agent : Addresses, worker : Addresses, amount : Nat,
          deadline : Nat, reviewWindow : Nat,
          submittedAt : Nat, disputedAt : Nat, state : TaskState,
          specHash : SpecHashes \cup {ZeroHash},
          evidenceHash : EvidenceHashes \cup {ZeroHash},
          verdictHash : Verdict \cup {ZeroHash}, verdictPassed : BOOLEAN ]

NoTask == [ agent |-> ZeroAddress, worker |-> ZeroAddress, amount |-> 0,
            deadline |-> 0, reviewWindow |-> 0,
            submittedAt |-> 0, disputedAt |-> 0, state |-> "None",
            specHash |-> ZeroHash, evidenceHash |-> ZeroHash,
            verdictHash |-> ZeroHash, verdictPassed |-> FALSE ]

(* A settlement event: TaskCompleted with its route, TaskResolved or       *)
(* TaskExpired, the transfer it reports, and the time of its block.        *)
Payment == [ event : CompletionRoute \cup {"TaskResolved", "TaskExpired"},
             toWorker : BOOLEAN, to : Addresses, amount : Nat, at : Nat ]

TypeOK ==
    /\ now \in Nat
    /\ owner \in Accounts \cup {ZeroAddress}
    /\ pendingOwner \in Accounts \cup {ZeroAddress}
    /\ acceptedSigners \subseteq Accounts
    /\ verdictNonceUsed \subseteq Accounts \X Nonces
    /\ tasks \in [TaskIds -> Task]
    /\ totalLocked \in Nat
    /\ usdc \in [Addresses -> Nat]
    /\ payments \in [TaskIds -> Seq(Payment)]

Init ==
    /\ now = 1
    /\ owner = Deployer
    /\ pendingOwner = ZeroAddress
    /\ acceptedSigners = {InitialSigner} \ {ZeroAddress}
    /\ verdictNonceUsed = {}
    /\ tasks = [t \in TaskIds |-> NoTask]
    /\ totalLocked = 0
    /\ usdc = [a \in Addresses |-> IF a \in Accounts THEN InitialUsdc[a] ELSE 0]
    /\ payments = [t \in TaskIds |-> << >>]

-----------------------------------------------------------------------------
(* View helpers. *)

reviewDeadline(t)      == tasks[t].submittedAt + tasks[t].reviewWindow
arbitrationDeadline(t) == tasks[t].disputedAt + ARBITRATION_WINDOW
verdictDigest(v)       == v

(* ERC-20 transfer, a transfer to oneself included. *)
Moved(from, to, amount) ==
    LET debited == [usdc EXCEPT ![from] = @ - amount]
    IN  [debited EXCEPT ![to] = @ + amount]

isPlatform(a) == a = owner \/ a \in acceptedSigners
-----------------------------------------------------------------------------
(* Core lifecycle. *)

createTask(t, sender, worker, amount, deadline, reviewWindow, specHash) ==
    /\ now =< FundingCutoff
    /\ tasks[t].state = "None"
    /\ worker # ZeroAddress
    /\ ~ isPlatform(sender) /\ ~ isPlatform(worker)
    /\ amount # 0
    /\ now < deadline /\ deadline =< now + MAX_DEADLINE_HORIZON
    /\ specHash # ZeroHash
    /\ MIN_REVIEW_WINDOW =< reviewWindow /\ reviewWindow =< MAX_REVIEW_WINDOW
    /\ usdc[sender] >= amount
    /\ tasks' = [tasks EXCEPT ![t] =
                   [NoTask EXCEPT !.agent = sender, !.worker = worker,
                      !.amount = amount, !.deadline = deadline,
                      !.reviewWindow = reviewWindow, !.state = "Funded",
                      !.specHash = specHash]]
    /\ totalLocked' = totalLocked + amount
    /\ usdc' = Moved(sender, Escrow, amount)
    /\ UNCHANGED << now, roles, acceptedSigners, verdictNonceUsed, payments >>

(* Mutant: a worker may replace a submission during review. *)
submitWork_Again(t, sender, evidenceHash, specVersionAck) ==
    /\ tasks[t].state \in {"Funded", "Delivered"}
    /\ sender = tasks[t].worker
    /\ evidenceHash # ZeroHash
    /\ specVersionAck = tasks[t].specHash
    /\ now < tasks[t].deadline
    /\ tasks' = [tasks EXCEPT ![t] =
                  [@ EXCEPT !.state = "Delivered",
                             !.submittedAt = now,
                             !.evidenceHash = evidenceHash]]
    /\ UNCHANGED << now, roles, acceptedSigners, verdictNonceUsed,
                    totalLocked, usdc, payments >>

submitWork(t, sender, evidenceHash, specVersionAck) ==
    /\ tasks[t].state = "Funded"
    /\ sender = tasks[t].worker
    /\ evidenceHash # ZeroHash
    /\ specVersionAck = tasks[t].specHash
    /\ now < tasks[t].deadline
    /\ tasks' = [tasks EXCEPT ![t] =
                  [@ EXCEPT !.state = "Delivered",
                             !.submittedAt = now,
                             !.evidenceHash = evidenceHash]]
    /\ UNCHANGED << now, roles, acceptedSigners, verdictNonceUsed,
                    totalLocked, usdc, payments >>

(* Mutants: the counter is not reduced; the transfer takes what is there. *)
pay_KeepsLocked(t, task, event, toWorker) ==
    LET to == IF toWorker THEN task.worker ELSE task.agent
    IN  /\ usdc[Escrow] >= task.amount
        /\ tasks' = [tasks EXCEPT ![t] = task]
        /\ usdc' = Moved(Escrow, to, task.amount)
        /\ UNCHANGED << now, roles, acceptedSigners, totalLocked, payments >>

pay_Sweeps(t, task, event, toWorker) ==
    LET to == IF toWorker THEN task.worker ELSE task.agent
    IN  /\ totalLocked >= task.amount
        /\ tasks' = [tasks EXCEPT ![t] = task]
        /\ totalLocked' = totalLocked - task.amount
        /\ usdc' = Moved(Escrow, to, usdc[Escrow])
        /\ UNCHANGED << now, roles, acceptedSigners, payments >>

(* The tail that every settlement shares: the task takes its final state,  *)
(* totalLocked drops (checked subtraction reverts below zero), the token   *)
(* moves, and the event is emitted.                                        *)
pay(t, task, event, toWorker) ==
    LET to == IF toWorker THEN task.worker ELSE task.agent
    IN  /\ totalLocked >= task.amount
        /\ usdc[Escrow] >= task.amount
        /\ tasks' = [tasks EXCEPT ![t] = task]
        /\ totalLocked' = totalLocked - task.amount
        /\ usdc' = Moved(Escrow, to, task.amount)
        /\ payments' = [payments EXCEPT ![t] = Append(@,
               [event |-> event, toWorker |-> toWorker, to |-> to,
                amount |-> task.amount, at |-> now])]
        /\ UNCHANGED << now, roles, acceptedSigners >>

(* Mutant: a payout leaves the task in its state. *)
payOut_KeepsState(t, task, route) == pay(t, task, route, TRUE)

payOut(t, task, route) ==
    pay(t, [task EXCEPT !.state = "Completed"], route, TRUE)

completeTask(t, sender) ==
    /\ tasks[t].state \in {"Funded", "Delivered"}
    /\ sender = tasks[t].agent
    /\ payOut(t, tasks[t], "AgentConfirmed")
    /\ UNCHANGED verdictNonceUsed

completeTaskByOwner(t, sender) ==
    /\ sender = owner
    /\ tasks[t].state \in {"Funded", "Delivered"}
    /\ payOut(t, tasks[t], "OwnerEmergency")
    /\ UNCHANGED verdictNonceUsed

(* Mutant: the shortest window the contract allows is all that is waited for. *)
releaseAfterReview_Shortest(t, sender) ==
    /\ tasks[t].state = "Delivered"
    /\ sender = tasks[t].worker
    /\ now >= tasks[t].submittedAt + MIN_REVIEW_WINDOW
    /\ payOut(t, tasks[t], "ReviewElapsed")
    /\ UNCHANGED verdictNonceUsed

releaseAfterReview(t, sender) ==
    /\ tasks[t].state = "Delivered"
    /\ sender = tasks[t].worker
    /\ now >= reviewDeadline(t)
    /\ payOut(t, tasks[t], "ReviewElapsed")
    /\ UNCHANGED verdictNonceUsed

(* Mutants: the commitments are not compared; the nonce is not spent. *)
consumeVerdict_Unbound(t, verdict, signer) ==
    /\ verdict.taskId = t
    /\ now =< verdict.expiry
    /\ signer \in acceptedSigners
    /\ << signer, verdict.nonce >> \notin verdictNonceUsed
    /\ verdictNonceUsed' = verdictNonceUsed \cup {<< signer, verdict.nonce >>}

consumeVerdict_Reusable(t, verdict, signer) ==
    /\ verdict.taskId = t
    /\ verdict.specHash = tasks[t].specHash
    /\ verdict.evidenceHash = tasks[t].evidenceHash
    /\ now =< verdict.expiry
    /\ signer \in acceptedSigners
    /\ UNCHANGED verdictNonceUsed

(* Validates the verdict and spends its nonce. *)
consumeVerdict(t, verdict, signer) ==
    /\ verdict.taskId = t
    /\ verdict.specHash = tasks[t].specHash
    /\ verdict.evidenceHash = tasks[t].evidenceHash
    /\ now =< verdict.expiry
    /\ signer \in acceptedSigners
    /\ << signer, verdict.nonce >> \notin verdictNonceUsed
    /\ verdictNonceUsed' = verdictNonceUsed \cup {<< signer, verdict.nonce >>}

claimWithVerdict(t, sender, verdict, signer) ==
    /\ tasks[t].state = "Delivered"
    /\ sender = tasks[t].worker
    /\ verdict.passed
    /\ consumeVerdict(t, verdict, signer)
    /\ payOut(t, [tasks[t] EXCEPT !.verdictHash = verdictDigest(verdict),
                                  !.verdictPassed = TRUE],
              "PassingVerdict")

(* Mutant: the arbitration clock is left for beginArbitration to start. *)
disputeTask_NoStamp(t, sender, verdict, signer) ==
    /\ tasks[t].state = "Delivered"
    /\ sender \in {tasks[t].agent, tasks[t].worker}
    /\ ~ verdict.passed
    /\ now < reviewDeadline(t)
    /\ consumeVerdict(t, verdict, signer)
    /\ tasks' = [tasks EXCEPT ![t] =
                  [@ EXCEPT !.verdictHash = verdictDigest(verdict),
                             !.verdictPassed = FALSE,
                             !.state = "Disputed"]]
    /\ UNCHANGED << now, roles, acceptedSigners, totalLocked, usdc, payments >>

disputeTask(t, sender, verdict, signer) ==
    /\ tasks[t].state = "Delivered"
    /\ sender \in {tasks[t].agent, tasks[t].worker}
    /\ ~ verdict.passed
    /\ now < reviewDeadline(t)
    /\ consumeVerdict(t, verdict, signer)
    /\ tasks' = [tasks EXCEPT ![t] =
                  [@ EXCEPT !.verdictHash = verdictDigest(verdict),
                             !.verdictPassed = FALSE,
                             !.state = "Disputed",
                             !.disputedAt = now]]
    /\ UNCHANGED << now, roles, acceptedSigners, totalLocked, usdc, payments >>

beginArbitration(t, sender) ==
    /\ sender = owner
    /\ tasks[t].state = "Disputed"
    /\ now < arbitrationDeadline(t)
    /\ tasks' = [tasks EXCEPT ![t] =
                  [@ EXCEPT !.state = "Arbitrating"]]
    /\ UNCHANGED << now, roles, acceptedSigners, verdictNonceUsed,
                    totalLocked, usdc, payments >>

resolveDispute(t, sender, releaseToWorker) ==
    /\ sender = owner
    /\ tasks[t].state \in Contested
    /\ now < arbitrationDeadline(t)
    /\ pay(t, [tasks[t] EXCEPT !.state = "Resolved"],
           "TaskResolved", releaseToWorker)
    /\ UNCHANGED verdictNonceUsed

releaseAfterArbitration(t, sender) ==
    /\ tasks[t].state \in Contested
    /\ sender = tasks[t].worker
    /\ tasks[t].disputedAt # 0
    /\ now >= arbitrationDeadline(t)
    /\ payOut(t, tasks[t], "ArbitrationTimeout")
    /\ UNCHANGED verdictNonceUsed

(* Mutants: v1's refund of a delivered task; a refund the owner must make. *)
expireTask_Delivered(t, sender) ==
    /\ tasks[t].state \in {"Funded", "Delivered"}
    /\ sender = tasks[t].agent
    /\ now >= tasks[t].deadline
    /\ pay(t, [tasks[t] EXCEPT !.state = "Expired"], "TaskExpired", FALSE)
    /\ UNCHANGED verdictNonceUsed

expireTask_ByOwner(t, sender) ==
    /\ tasks[t].state = "Funded"
    /\ sender = owner
    /\ now >= tasks[t].deadline
    /\ pay(t, [tasks[t] EXCEPT !.state = "Expired"], "TaskExpired", FALSE)
    /\ UNCHANGED verdictNonceUsed

expireTask(t, sender) ==
    /\ tasks[t].state = "Funded"
    /\ sender = tasks[t].agent
    /\ now >= tasks[t].deadline
    /\ pay(t, [tasks[t] EXCEPT !.state = "Expired"], "TaskExpired", FALSE)
    /\ UNCHANGED verdictNonceUsed
-----------------------------------------------------------------------------
(* Verdict signer administration. *)

(* Mutant: address(0) can be accepted. *)
setVerdictSigner_AnyAddress(sender, signer, accepted) ==
    /\ sender = owner
    /\ acceptedSigners' = IF accepted THEN acceptedSigners \cup {signer}
                                      ELSE acceptedSigners \ {signer}
    /\ UNCHANGED << now, roles, verdictNonceUsed, tasks, totalLocked, usdc,
                    payments >>

setVerdictSigner(sender, signer, accepted) ==
    /\ sender = owner
    /\ signer # ZeroAddress
    /\ acceptedSigners' = IF accepted THEN acceptedSigners \cup {signer}
                                      ELSE acceptedSigners \ {signer}
    /\ UNCHANGED << now, roles, verdictNonceUsed, tasks, totalLocked, usdc,
                    payments >>

revokeVerdictNonce(sender, nonce) ==
    /\ sender \in acceptedSigners
    /\ verdictNonceUsed' = verdictNonceUsed \cup {<< sender, nonce >>}
    /\ UNCHANGED << now, roles, acceptedSigners, tasks, totalLocked, usdc,
                    payments >>

-----------------------------------------------------------------------------
(* Inherited from OpenZeppelin's Ownable2Step. *)

transferOwnership(sender, newOwner) ==
    /\ sender = owner
    /\ pendingOwner' = newOwner
    /\ UNCHANGED << now, owner, acceptedSigners, verdictNonceUsed, tasks,
                    totalLocked, usdc, payments >>

acceptOwnership(sender) ==
    /\ sender = pendingOwner
    /\ owner' = sender
    /\ pendingOwner' = ZeroAddress
    /\ UNCHANGED << now, acceptedSigners, verdictNonceUsed, tasks,
                    totalLocked, usdc, payments >>

renounceOwnership(sender) ==
    /\ sender = owner
    /\ owner' = ZeroAddress
    /\ pendingOwner' = ZeroAddress
    /\ UNCHANGED << now, acceptedSigners, verdictNonceUsed, tasks,
                    totalLocked, usdc, payments >>
-----------------------------------------------------------------------------
(* The environment: a USDC transfer straight to the escrow's address, and  *)
(* the block clock.                                                        *)

strayDeposit(sender, amount) ==
    /\ amount # 0
    /\ usdc[sender] >= amount
    /\ usdc' = Moved(sender, Escrow, amount)
    /\ UNCHANGED << now, roles, acceptedSigners, verdictNonceUsed, tasks,
                    totalLocked, payments >>

Tick ==
    /\ now < MaxTime
    /\ now' = now + 1
    /\ UNCHANGED << roles, acceptedSigners, verdictNonceUsed, tasks,
                    totalLocked, usdc, payments >>

PartyStep(t, sender) ==
    \/ \E worker \in WorkerCandidates, amount \in Amounts, 
          deadline \in now .. now + MAX_DEADLINE_HORIZON + 1,
          reviewWindow \in 0 .. MAX_REVIEW_WINDOW + 1,
          specHash \in SpecHashes \cup {ZeroHash} :
         createTask(t, sender, worker, amount, deadline, reviewWindow, specHash)
    \/ \E evidenceHash \in EvidenceHashes \cup {ZeroHash},
          specVersionAck \in SpecHashes \cup {ZeroHash} :
         submitWork(t, sender, evidenceHash, specVersionAck)
    \/ completeTask(t, sender)
    \/ releaseAfterReview(t, sender)
    \/ \E s \in Signed : claimWithVerdict(t, sender, s.verdict, s.signer)
    \/ \E s \in Signed : disputeTask(t, sender, s.verdict, s.signer)
    \/ releaseAfterArbitration(t, sender)
    \/ expireTask(t, sender)

ArbiterStep(t, sender) ==
    \/ completeTaskByOwner(t, sender)
    \/ beginArbitration(t, sender)
    \/ \E releaseToWorker \in BOOLEAN : resolveDispute(t, sender, releaseToWorker)

AdminStep(sender) ==
    \/ \E signer \in SignerCandidates \cup {ZeroAddress}, accepted \in BOOLEAN :
         setVerdictSigner(sender, signer, accepted)
    \/ \E nonce \in Nonces : revokeVerdictNonce(sender, nonce)
    \/ \E newOwner \in OwnerCandidates \cup {ZeroAddress} :
         transferOwnership(sender, newOwner)
    \/ acceptOwnership(sender)
    \/ renounceOwnership(sender)

Next ==
    \/ \E t \in TaskIds, sender \in Accounts :
         PartyStep(t, sender) \/ ArbiterStep(t, sender)
    \/ \E sender \in Accounts : AdminStep(sender)
    \/ \E sender \in Accounts, amount \in Amounts : strayDeposit(sender, amount)
    \/ Tick

Spec == Init /\ [][Next]_vars

(***************************************************************************)
(* Fairness: time passes, a worker whose claim is open eventually makes    *)
(* it, and an agent whose refund is open eventually takes it.  Each is the *)
(* motivated party of a pull payment.  Nothing is assumed of the owner or  *)
(* of a verdict signer, and nobody is obliged to dispute or to deliver.    *)
(***************************************************************************)
WorkerClaims(t) ==
    \E sender \in Accounts :
        releaseAfterReview(t, sender) \/ releaseAfterArbitration(t, sender)

AgentReclaims(t) == \E sender \in Accounts : expireTask(t, sender)

Fairness ==
    /\ WF_vars(Tick)
    /\ \A t \in TaskIds : WF_vars(WorkerClaims(t)) /\ WF_vars(AgentReclaims(t))

LiveSpec == Spec /\ Fairness
-----------------------------------------------------------------------------
(* Properties. *)

(***************************************************************************)
(* totalLocked is the sum of the amounts of the live tasks, and the escrow *)
(* holds at least that much USDC: every live task can be paid at once.     *)
(* About the += of createTask and the -= of the three settling functions.  *)
(***************************************************************************)
Solvency ==
    LET live    == {t \in TaskIds : tasks[t].state \in Live}
        amounts == [t \in TaskIds |-> tasks[t].amount]
    IN  /\ totalLocked = SumFunctionOnSet(amounts, live)
        /\ usdc[Escrow] >= totalLocked

(***************************************************************************)
(* No call pays out more than its own task: what the escrow holds above    *)
(* totalLocked (USDC sent to it by mistake) never shrinks, whoever is paid *)
(* and whatever fails in between.                                          *)
(***************************************************************************)
StrayStaysPut ==
    [][usdc'[Escrow] - totalLocked' >= usdc[Escrow] - totalLocked]_vars

(***************************************************************************)
(* Custody (ADR-0001 D9): money leaves the escrow once per task, in full,  *)
(* to the worker or the agent fixed at funding, and exactly when the task  *)
(* takes a final state; the event names the side that was paid.            *)
(***************************************************************************)
Custody ==
    \A t \in TaskIds :
        IF tasks[t].state \in Settled
        THEN /\ Len(payments[t]) = 1
             /\ LET p == payments[t][1]
                IN  /\ p.amount = tasks[t].amount
                    /\ p.to = IF p.toWorker THEN tasks[t].worker
                                            ELSE tasks[t].agent
                    /\ tasks[t].state = "Completed" => p.toWorker
                    /\ tasks[t].state = "Expired" => ~ p.toWorker
        ELSE payments[t] = << >>

(* The verdict recorded on a task is about that task, its spec and the     *)
(* evidence frozen at delivery, and the recorded outcome is the signed one.*)
VerdictBinds(t, passed) ==
    /\ tasks[t].verdictHash # ZeroHash
    /\ tasks[t].verdictPassed = passed
    /\ tasks[t].verdictHash.passed = passed
    /\ tasks[t].verdictHash.taskId = t
    /\ tasks[t].verdictHash.specHash = tasks[t].specHash
    /\ tasks[t].verdictHash.evidenceHash = tasks[t].evidenceHash

DisputedInTime(t) ==
    /\ VerdictBinds(t, FALSE)
    /\ tasks[t].submittedAt =< tasks[t].disputedAt
    /\ tasks[t].disputedAt < reviewDeadline(t)

(***************************************************************************)
(* The agent gets its money back for one of two causes only: nothing was   *)
(* ever delivered and the deadline had passed, or a failing verdict about  *)
(* this very submission was presented inside the review window and the     *)
(* owner ruled inside the arbitration window.  This is what submitWork     *)
(* exists for: work delivered in time is not refunded by a clock.          *)
(***************************************************************************)
RefundHasCause ==
    \A t \in TaskIds : \A i \in 1 .. Len(payments[t]) :
        LET p == payments[t][i]
        IN  ~ p.toWorker =>
              \/ /\ p.event = "TaskExpired"
                 /\ tasks[t].submittedAt = 0
                 /\ p.at >= tasks[t].deadline
              \/ /\ p.event = "TaskResolved"
                 /\ DisputedInTime(t)
                 /\ p.at < arbitrationDeadline(t)

(***************************************************************************)
(* A worker paid without the agent's or the owner's consent delivered      *)
(* before the deadline, and either waited out the review window agreed for *)
(* this task without a dispute, or holds a passing verdict about that      *)
(* submission, or waited out a full arbitration window.                    *)
(***************************************************************************)
WorkerClaimHasCause ==
    \A t \in TaskIds : \A i \in 1 .. Len(payments[t]) :
        LET p == payments[t][i]
        IN  p.event \in {"ReviewElapsed", "PassingVerdict", "ArbitrationTimeout"} =>
              /\ 0 < tasks[t].submittedAt
              /\ tasks[t].submittedAt < tasks[t].deadline
              /\ CASE p.event = "ReviewElapsed" ->
                        /\ p.at >= reviewDeadline(t)
                        /\ tasks[t].verdictHash = ZeroHash
                   [] p.event = "PassingVerdict" -> VerdictBinds(t, TRUE)
                   [] p.event = "ArbitrationTimeout" ->
                        /\ DisputedInTime(t)
                        /\ p.at >= arbitrationDeadline(t)

(***************************************************************************)
(* The two clocks stack to MAX_REVIEW_WINDOW + ARBITRATION_WINDOW (21      *)
(* days) and no more: a delivered task that is still unsettled by then is  *)
(* one the worker can claim alone, whatever state it is in and whoever     *)
(* started which clock.                                                    *)
(***************************************************************************)
WorstCaseWait ==
    \A t \in TaskIds :
        /\ tasks[t].state \in {"Delivered"} \cup Contested
        /\ now >= tasks[t].submittedAt + MAX_REVIEW_WINDOW + ARBITRATION_WINDOW
        => \/ tasks[t].state = "Delivered" /\ now >= reviewDeadline(t)
           \/ /\ tasks[t].state \in Contested
              /\ tasks[t].disputedAt # 0
              /\ now >= arbitrationDeadline(t)

(* The signers that have spent a nonce a verdict of this digest carries.   *)
SpentFor(t) ==
    { n \in verdictNonceUsed : n[2] = tasks[t].verdictHash.nonce }

(***************************************************************************)
(* One signed nonce decides at most one task: two tasks that were both     *)
(* decided by a verdict have spent two different <<signer, nonce>> pairs.  *)
(* About _consumeVerdict, whose two callers each consume before they act.  *)
(***************************************************************************)
OneNonceOneDecision ==
    \A t, u \in TaskIds :
        /\ t # u
        /\ tasks[t].verdictHash # ZeroHash
        /\ tasks[u].verdictHash # ZeroHash
        => \E n \in SpentFor(t), m \in SpentFor(u) : n # m

Agreed(task) == << task.agent, task.worker, task.amount, task.deadline,
                   task.reviewWindow, task.specHash >>

(***************************************************************************)
(* What was agreed stays agreed: once funded, a task's parties, price,     *)
(* clocks and spec never change; once delivered, neither do the evidence   *)
(* nor the delivery time; once a verdict is recorded it stands; and a      *)
(* settled task never changes again.                                       *)
(***************************************************************************)
CommitmentsFrozen ==
    [][\A t \in TaskIds :
         /\ tasks[t].state # "None" =>
              Agreed(tasks'[t]) = Agreed(tasks[t])
         /\ tasks[t].submittedAt # 0 =>
              /\ tasks'[t].submittedAt = tasks[t].submittedAt
              /\ tasks'[t].evidenceHash = tasks[t].evidenceHash
         /\ tasks[t].verdictHash # ZeroHash =>
              tasks'[t].verdictHash = tasks[t].verdictHash
         /\ tasks[t].state \in Settled => tasks'[t] = tasks[t]]_vars

(***************************************************************************)
(* Silence loses: work that was delivered is settled although the agent,   *)
(* the owner and every signer may stop for good, since only the worker's   *)
(* own claims and the clock are assumed to go on.                          *)
(***************************************************************************)
DeliveredIsSettled ==
    \A t \in TaskIds :
        tasks[t].state = "Delivered" ~> tasks[t].state \in Settled

(***************************************************************************)
(* No task sits in Funded for ever (NOR-537 F7): it is delivered, paid, or *)
(* refunded, because the deadline is bounded and then opens the refund.    *)
(***************************************************************************)
FundedIsLeft ==
    \A t \in TaskIds : tasks[t].state = "Funded" ~> tasks[t].state # "Funded"

-----------------------------------------------------------------------------
(* The escrow implements the lifecycle it promises. *)

PaidTo(t) ==
    IF payments[t] = << >> THEN "nobody"
    ELSE IF payments[t][1].toWorker THEN "worker" ELSE "agent"

Lifecycle == INSTANCE EscrowLifecycle
    WITH state <- [t \in TaskIds |-> tasks[t].state],
         paidTo <- [t \in TaskIds |-> PaidTo(t)]

(***************************************************************************)
(* Every call of the contract is a step of EscrowLifecycle or leaves every *)
(* task where it was; in particular nothing leads from Delivered to a      *)
(* refund except through a dispute and a ruling.                           *)
(***************************************************************************)
ImplementsLifecycle == Lifecycle!Spec
=============================================================================
