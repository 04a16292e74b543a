# Carbon Contractors: a verification project

Carbon Contractors lets AI agents hire humans. An agent hires through an MCP
tool, the worker answers the offer, the agent locks USDC in the `CarbonEscrow`
contract, the worker delivers, and the money leaves the escrow by consent, by a
signed verdict, by a ruling or by a clock. A Postgres table of tasks mirrors the
chain, and around the two stand the services that authenticate callers, judge
evidence, sign, notify, attest, score, prune and back up. This directory holds
TLA+ models of all that keeps state, TLC configurations, and proofs checked by
TLAPS.

    tlc -config escrow_one.cfg MCCarbonEscrow.tla     # model-check a run
    tlapm CarbonEscrowProofs.tla                      # check the proofs

`PROJECT.json` lists the components, the runs, the mutants (operators in the
modules that break a property when they replace a definition), the source lines
each definition models, the hazards and the theorems.

## 1. Inventory

| Part | State it keeps | Operations | Hard about it |
|---|---|---|---|
| Escrow contract, `contracts/CarbonEscrow.sol` | tasks, `totalLocked`, spent nonces, accepted signers, owner | create, submit, three ways to complete, claim and dispute by verdict, arbitrate, rule, two timed releases, expire; signer administration | two clocks, five routes to the worker and two to the agent, signatures that can be presented again, an owner who may vanish |
| Tasks table, `lib/db/tasks.ts`, migrations | one row per task: status, parties, key, expiry, pin, `funded_at` | insert under a unique index, compare-and-set on status, lapse, count | no transaction spans two statements |
| Hiring and answering, `lib/mcp/server.ts`, `lib/payments/funding.ts`, `lib/offers.ts` | the rows; nothing else survives a call | `request_human_work`, `respondToOffer` | retries, concurrent answers, expiry during a call, the worker's cap |
| Funding, disputes, sync, `api/fund-task`, `api/dispute`, `lib/db/settlement-sync.ts` | the rows, read against the chain | confirm, mark disputed, copy settlements | readings of row and chain of different ages, overlapping and killed cron runs, redeployments |
| Other MCP tools, `lib/mcp/server.ts` | none | status, confirm, dispute, signed verdict | what an autonomous agent is told from readings some awaits old |
| Chain client, `lib/contracts/escrow.ts` | none | struct reads, windowed log scans, summaries | a head that moves between and may lag behind reads |
| Offer reminders, `api/cron/offer-reminders` | a nullable marker per row | hourly scan, claim, notify | three-valued logic, once-only |
| AWOL detection and channels, `lib/awol.ts`, `lib/db/notifications.ts`, `api/channels` | an auto-booking flag per channel | streaks at booking time, switch-off; register, toggle, remove | flag and history are read at different awaits; statuses that merge outcomes |
| Sign-in, `lib/auth`, `api/auth` | challenges, sessions | issue, prove, mint, slide, sign out, purge | single use under concurrency, a slide written over a revocation |
| Registration and screening, `api/register`, `api/profile`, `lib/sanctions` | humans, used nonces, a cache of answers | register, update, screen, purge | replays after a purge, a remembered answer, a provider that does not answer |
| MCP sessions, `api/basedhuman.mcp`, `lib/mcp/session-count.ts` | a registry in memory | open, use, close, purge | the cap is checked awaits before the entry |
| Rate limiter, `lib/ratelimit.ts`, `middleware.ts` | counters | limit | window boundaries, fail-open |
| Acceptance specs, checker, verdicts, `lib/spec`, `lib/checker`, `lib/contracts/verdict-service.ts` | none | parse, show, evaluate, sign | missing readings, boundaries, what the agent hid from the worker |
| Signer, `lib/contracts/kms-signer.ts` | two cached addresses | sign | DER, low s, recovery bit, rotated keys |
| Evidence uploads, `lib/evidence`, `api/evidence` | a credential per task | store, sign a URL, drop | three readings before the signature |
| Notifications, `lib/notifications` | none; the endpoints' | dispatch, attempt, retry | lost and late answers |
| Attestations, `lib/attestation` | none; EAS's nonce | sign off chain, delegate | several readings of one completion, an upgradable EAS |
| Reputation, `lib/reputation` | none | score | chain and table read apart, a fallback |
| Retention, `lib/db/retention.ts`, migration 025 | content, a deletion log | select, purge | overlapping runs with stale selections |
| Backup, `lib/db/backup-export.ts` | objects in a bucket | export, verify, manifest | paging while rows come and go |
| Dashboard, `app/dashboard/page.tsx` | a list, drafts, one busy action | read, offer buttons, send | a view that is older than row and chain |
| Support code, wallet hooks, scripts | none | | |

How they interact: the parties call the contract from their own wallets, and the
platform sends no transaction to it. The platform's handlers meet in the tasks
table, through single statements, and read the contract. The contract is told
nothing by the database except through the verdicts the platform signs. The
services around share nothing with each other but the tables they read.

What makes each part correct:

- *contract*: money leaves once, whole, to the right party, for a recorded cause;
  delivered work is never refunded by a clock; nobody's silence locks it for ever;
- *hiring and answering*: a booking is consented to, decided once, never undone by
  a handler with an old reading, and a retry never makes a second task;
- *auto-booking*: it is switched off only for offers the worker left unanswered or
  funded tasks refunded to the agent, and a worker who is silent is not booked;
- *funding, disputes, sync*: the database is never ahead of the escrow, says whom
  it paid, and in the end says so;
- *identity*: a session belongs to who proved it and ends when it is ended; a
  registration is admitted once;
- *judgement*: a verdict says what the committed evidence and the shown spec say,
  and is signed so that the contract accepts it;
- *records*: what is told, attested, scored, shown, pruned and backed up is what
  one moment of chain and table said, although it was put together over several.

## 2. Modules

    EscrowLifecycle          the promise: order of a task's states, whom it pays
      ^ implements (ImplementsLifecycle)      ^ INSTANCE, as the chain
    CarbonEscrow             the contract     SettlementSync   fund, dispute, sync
      ^ CarbonEscrowProofs                      |  ^ MCSettlementSync
      ^ MCCarbonEscrow                          |  ^ Progress < MCProgress
                                                |      ^ SettlementSyncProofs
                                        TaskTable        statements on the rows
                        /          |          |          |           \
              OfferBooking  OfferReminders   Awol   EvidenceUpload   Retention
                ^ OfferBookingProofs         ^ AwolProofs
                ^ MCOfferBooking             ^ MCAwol

    NotificationDelivery     with SettlementSync in Progress
    SessionAuth  Registration  McpSessions  RateLimit  AcceptanceCheck  KmsSigner
    Attestation  McpTools  ChainClient  Reputation  Dashboard  BackupExport
                             with EvidenceUpload and Retention in Services
    Services                 any of these modules, with any parameters
      ^ MCServices           a small instance
      ^ ServicesProofs       for every instance, from the two modules below
    CallersProofs            extends SessionAuth, with McpSessions, RateLimit,
                             Registration and Dashboard as instances
    RecordsProofs            extends EvidenceUpload, with Retention, Attestation,
                             McpTools, ChainClient, Reputation, AcceptanceCheck,
                             KmsSigner and BackupExport as instances
    InductionTheorems        a library: induction in a form the provers can use

### The core

**EscrowLifecycle** keeps, per task, a state and whom its money went to. Its
actions are the legal moves of the contract's `TaskState`. It is both what
`CarbonEscrow` implements and the chain `SettlementSync` reads.

**CarbonEscrow** has one action per external function, under the function's
name. A transaction is atomic, so an action is a whole call with its guards in
the code's terms; a revert is an action that is not enabled. `_payOut` and the
equal tails of `resolveDispute` and `expireTask` share `pay`. A signature is a
verdict paired with its signer and a digest is the verdict itself (hashing and
ECDSA are taken to be injective and unforgeable). `Signed` is the set of signed
verdicts in circulation, from any signer about any task. The token, the clock,
and the functions inherited from OpenZeppelin are the environment. `payments`
records the settlement events, so properties can speak of what was paid and why.

**TaskTable** is `lib/db/tasks.ts`: each statement is an operator on `rows`. All
status writes go through `CompareAndSet`, as all of them are `UPDATE .. WHERE
status IN (..)`. A write can fail for its caller and be committed all the same.
There is no endpoint that edits a brief, so the description guard of
`acceptTask` always matches and is left out.

**OfferBooking** splits `request_human_work` and `respondToOffer` at their
awaits: a call is a record with a `pc` and what it has read. A finished call
stays, and so is the history that the properties speak of. The other writers of
the table appear as the statements they issue (`Elsewhere`). Screening, rate
limit and validation are one failing outcome; the AWOL check is any outcome.

**SettlementSync** splits `/api/fund-task`, the dispute routes and
`syncSettledTasks` at their awaits. A run holds the rows it has yet to handle
with the reading of each; rows are handled in any order inside a phase, resolved
rows after all others, as in the code. `terms` says that the chain task at a
row's id has the row's worker and amount (anyone can create one that has not),
`current` that the row was made for the escrow now configured. In
`getTaskByPaymentId` the lapse and the read are one step here; since the lapse is
best effort and may do nothing, no reading is lost by that.

**Awol** is one worker's auto-booking: the hire's and the check's readings of the
channels, the count over the history, the switch-off, and the dashboard in
between. The hire's first read and its lapse are one step; screening and the cap,
which only end a hire, are left to `OfferBooking`. `unanswered`, `refunded`
and `absent` are history variables: the offers that lapsed without a word of the
worker's, the funded tasks whose money went back to the agent, and whether the worker was AWOL all
through a call, by a definition of a streak that does not use the loop.

**OfferReminders** is the reminder scan with SQL's comparison of NULL, on a
scan more reliable than the platform's.

### The services

Each is one module whose handlers are split at their awaits, in the same style:
a call is a record with a `pc`, tables and chain may move at every step.

- **SessionAuth**: a challenge is read, its signature checked, its nonce consumed
  and a session minted in four steps; a request reads a session and may slide its
  expiry; sign-outs end one or all. Statements are under way for `MaxTransit` at
  most, so a slide can land after a newer one and after a revocation.
- **Registration**: `POST /api/register` with its nonce and its screening (list,
  provider, cache, fail-open), the nonce purge, and the profile update.
- **McpSessions**: opening a session passes `verify`, `connect` and `handle`
  between the capacity check and the entry; every request purges. `/api/health`
  reads the shared counter.
- **RateLimit**: the fixed window in memory and the Redis counter whose life is
  renewed with each increment, behind the middleware's fail-open.
- **AcceptanceCheck**: intake, what the worker is shown, `evaluateV1` and the two
  callers of `computeAndSignVerdict`. The funding's own block time (`FundedAt`) and
  that of the block `/api/fund-task` records (`ConfirmedAt`) differ, and the hash that
  is funded need not be that of the task's spec. An artefact's readings are sets of at most
  one value, so that a missing one is an empty set; `Keeps` is the reference the
  evaluator is compared with and reads the criteria as sets of promises.
- **EvidenceUpload**: the hire's tail that stores the agent's credential, the
  trigger that drops it, and the URL handler's three readings.
- **KmsSigner**: DER bytes, padding, low s and the recovery bit over a group of
  seven elements in which a point is its discrete logarithm; ECDSA's own equation
  is the reference. The cached address and the key rotate apart.
- **NotificationDelivery**: the caller, its channels and each channel's series of
  attempts; a POST is under way until it is taken in or lost, its answer may be
  late or never come.
- **Attestation**: the readings a completion is put together from, for the two
  routes; EAS with its nonce and its upgrades is the environment.
- **ChainClient**: `getTask` with its older tuple, the windowed scans from a head
  that may lag, and the summary, against a chain that grows between the calls.
- **McpTools**: the four tools that speak about a task, each between row and
  chain. What was said is kept and compared with what became of it.
- **Reputation**: the score in hundredths, from the chain or from a table that lags
  behind it; each reader keeps what it was last answered and of what.
- **Dashboard**: one wallet and one task: the list as it was last read, the buttons
  (`Offered`), transactions in the wallet and the mempool, the session's cookie, and
  the drafts. The browser's clock may be off `block.timestamp` by `MaxSkew`, and the
  buttons may be those of any render since the list was read (`Shows`).
- **Retention**: the selection and `prune_task_content`, which checks again.
- **BackupExport**: pages, uploads, read-back, manifest and the switch. A page's
  order is a `CHOOSE` of the ascending list, because the library's sort is written
  in a form the provers cannot open.

Definitions that stand for code outside `src/` (the token, EAS, the HSM's answer,
Supabase's defaults) are marked external in `PROJECT.json`.

The `MC*` modules declare the model values. Two modules compose others:
**Progress** the two background jobs that must come to an end, and **Services**
the services around the tasks. The modules they compose share no variable. A step
of one therefore neither enables nor disables a step of another, and an invariant
of one is broken by its own steps or not at all, so exploring their product would
only repeat each behaviour with unrelated steps in between. `part` names the module
a behaviour runs. In Services each service's parameters are the fields of one record
constant, `v0`..`v12` hold the variables of the module that runs, and unused slots
rest at `Off`; MCProgress and MCServices give them small values. What does interact
(row and chain, hire and answer, hire and AWOL check, confirmation, dispute and
sync) is composed step by step inside the core modules.

## 3. What is checked

| Run | Instance | Distinct states | Shows |
|---|---|---|---|
| `escrow_one` | one task, four accounts, owner and signer changes, four signed verdicts (right, failing, about other work, lapsing early), fair parties | 357,936 | `TypeOK`, `Custody`, `RefundHasCause`, `WorkerClaimHasCause`, `WorstCaseWait`, `CommitmentsFrozen`, `ImplementsLifecycle`, `DeliveredIsSettled`, `FundedIsLeft` |
| `escrow_two` | two tasks, one nonce on verdicts about both, amounts that differ, stray deposits | 311,840 | `Solvency`, `OneNonceOneDecision`, `StrayStaysPut` |
| `booking` | one offer under two workers' answers, or two hires, two agents, one key and a lookup window shorter than the clock | 445,872 | `TypeOK`, `BookedByConsent`, `OneDecision`, `OneTaskPerKey`, `LapseSparesFunded` |
| `progress` | one task, current or superseded, two overlapping sync runs, two faults; or a notification over two channels with three attempts; both fair | 81,797 | `TypeOK`, `ActiveIsFunded`, `ProjectionAgrees`, `DisputedHasGround`, `OutcomesAreTrue`, `SupersededUntouched`, `EndedStays`, `SettledIsProjected`, `CallerGoesOn` |
| `awol` | three offers, two concurrent hires, one channel, two silences are too many | 1,544,199 | `TypeOK`, `StreaksAreTrailing`, `DisabledForCause`, `AbsentNotBooked` |
| `services` | the fifteen parts of Services, with the values of MCServices | 2,577,001 | the table below |

| Property of `services` | Says |
|---|---|
| `SessionIsProved` | a session goes to a wallet that signed a challenge issued for it, by a call that read it in time and unspent, with two calls that carry one nonce |
| `IdentityHolds` | a committed sign-out holds against slides under way; a session in use is not found expired; a registration message registers once, in time, on a screening that gave no hit (or no answer: the code lets those in), and no wallet of the bundled list ever enters |
| `LimitsHold` | the MCP registry passes its cap by less than the calls that opened together, and health reports its size; one window of the limiter lets through no more than the limit and any span as long at most twice that, and a client that waits out `Retry-After` is let in |
| `GrantsAreDue` | upload URLs go to the task's own worker, for a size within the agent's cap and the platform's, into a derived host, never to a request that came after the submission |
| `SignaturesAreEarned` | a verdict is on the committed evidence and the spec whose hash is on chain, and passes exactly when that evidence keeps every promise as of the recorded funding time, so only when it keeps them as shown; all verdicts on a task agree; a signature verifies, has a low s and recovers to its signer |
| `RecordsAreTrue` | answers of the tools stay true; answers from windowed scans name the event asked for and "never" is said only of what had not happened, up to the blocks the head is behind; a completion has one description, and EAS is sent no unverified struct |
| `PageAgrees` | on a page that shows the task as it is a claim is offered as the contract grants it, up to the skew of the two clocks; a transaction it sends fails only when the task moved, its last moment passed, or its first is within the skew |
| `BackupIsWhole` | a run that reports success, and had its minute to itself, left every row that was there throughout, once, and a manifest of those objects; no forbidden column is stored |
| `ScoreFollowsConduct` | of two answers about the same tasks, from the chain or the table, the later has no lower score unless a task is by then disputed or ruled on or a completion has aged: so completing never lowers a score, and by the converse a dispute never raises one; a ruling counts as a dispute, whoever it paid |
| `PruningIsDue` | content goes only after its task ended and its dispute window passed, logged exactly once |

**Bounds.** The contract's hours are ticks: the review window may be 1 or 2, the
arbitration window is 2 and the deadline at most 2 ahead, so there is a tick
inside, at and after every boundary, and unequal windows can be told apart. No
task is created after `FundingCutoff`, and `BoundAssumption` makes the clock run
long enough for every clock of every task to run out. Inputs just outside the
legal ranges (zero amount, zero hash, a window too long, a deadline too far) are
tried and refused. Two tasks suffice for what tasks share (balance, total,
nonces). One row suffices for the per-row properties of the handlers, because
every statement but the lapse, the count and the key lookup names one row; two
hires and one key suffice for the lookup. `booking` explores both cases of one
instance and, by its `CONSTRAINT OfferOrHires`, not their product: an answer and a
second hire meet only in the cap, which is the run `cap_race`. In `awol` both
thresholds are 2, so three rows hold a streak, an interrupted one, and one with a
row in flight. `MaxFaults` bounds failures per behaviour and is what makes "faults
are finitely many" an assumption of `progress`. Its batch holds all rows in
flight: with more rows than `BATCH_LIMIT` that never settle the code starves newer
ones, which its own comment says (`settlement-sync.ts:60-69`).

In `services` every table has a row more than a page, a batch or a cap holds (three
rows for pages of two, two tasks for a purge batch of one, a cap of one for two
callers), the lifetimes the properties rest on end before the clock stops, and two
calls of a kind overlap wherever the code lets them. The checker is compared with
its reference on every criterion alone and with the others, over artefacts with
each reading missing, wrong, at the boundary and right, alone in a bundle; with a second
one the artefact beside it is good, or has every reading missing or wrong.
`SessionAuth` appears twice: once with two sign-ins that carry one nonce, once with
one sign-in and two requests. The signer's group has a high and a low half,
padded bytes, and a digest that is zero as well as one that is not. Calls of one kind and
overlapping purges are interchangeable, whence `CallerSymmetry`; no property of the
run is a liveness property. The limiter runs with its memory back end, the chain
client against an endpoint whose head may be a block behind its other reads
(`HEAD_LAG`), the dashboard in a browser whose clock may be a tick fast or slow
(`MaxSkew`). A session lives four ticks, so that a slide that is not written shows.
The agent's upload cap lies below the platform's, at it and above it, with sizes
around both and two workers of whom one is the task's. Two readers would square the
reputation's states; the second answer is the same reader's. One backup runs at a
time: two that overlap are left to `BackupTheorem`, which is for any number. The run's
`CONSTRAINT FewAtOnce` bounds two parts further: of two registration messages the one
with an email address is signed first, and the page starts no second action while a
transaction of its wallet waits to be mined (reporting a dispute excepted); and once the
clock has ended with no deadline of the task open and no such transaction waiting, the
page is followed no further. What that leaves out, `Admissions` and `PageAgreesTheorem`
cover.

**Deadlock** is checked except where the system stops: in the escrow runs the clock
stops at `MaxTime` and a settled escrow that nobody owns has nothing left to do; a
notification ends with its last channel; every service rests when its callers are
answered and its bounds are reached.

**Fairness.** `CarbonEscrow!Fairness`: time passes, a worker whose timed claim
stays open makes it, and an agent whose refund stays open takes it. These are
the parties that gain by the call, and the contract makes payment theirs to
pull. Nothing is assumed of the owner or the signers, which is the point.
`ProgressSpec`: the scheduler keeps invoking the cron route (`vercel.json`
schedules it hourly) and a run that is not killed goes on, which is
`SettlementSync!LiveSpec` for one part; and timers fire and `fetch` ends by its
time-out (`NotificationDelivery!Progress`) for the other. No fairness is assumed
of the parties, of confirmations, of dispute calls or of the endpoints.

**Disagreements found.** Six runs are expected to be violated. Each takes a
sentence of a comment or migration as its property and shows a behaviour of the
code against it:

| Run | Property | The code |
|---|---|---|
| `reminder_null` | every due offer is seen by a scan | the filter `<> true` excludes NULL markers, and all are NULL |
| `cap_race` | no worker holds more than the cap | count and write are two statements |
| `key_ttl` | an old key still returns the original task | the conflict handler repeats the windowed lookup |
| `awol_toggle` | a false positive costs the worker one toggle | the same silences are counted again at the next hire |
| `awol_expired` | expired means nothing was submitted | a ruling for the agent is stored as expired too |
| `drafts_lost` | drafts survive reloads | drafts are kept under the row's id and looked up under its payment id |

None of these touches the escrow's money. `cap_race` needs two requests within
the milliseconds between two statements; the others need no race.

## 4. What is proved

`CarbonEscrowProofs` proves, for every value of the constants (any number of
tasks, accounts, signers, verdicts, amounts and any windows that satisfy the
assumptions of `CarbonEscrow`):

| Theorem | States |
|---|---|
| `TypeCorrect` | `Spec => []TypeOK` |
| `CustodyHolds` | `Spec => []Custody` |
| `RefundsHaveCause` | `Spec => []RefundHasCause` |
| `WorkerClaimsHaveCause` | `Spec => []WorkerClaimHasCause` |
| `WorstCaseHolds` | `Spec => []WorstCaseWait` |
| `CommitmentsStayFrozen` | `Spec => CommitmentsFrozen` |
| `SolvencyHolds` | `Spec => []Solvency` |
| `LiveTasksArePayable` | any live task's amount is within `totalLocked` and the balance |
| `NoReplayAcrossTasks` | `Spec => []OneNonceOneDecision` |
| `SurplusStays` | `Spec => StrayStaysPut` |
| `Refinement` | `Spec => ImplementsLifecycle` |

*Assumptions*: the named ones of `CarbonEscrow`. Addresses are distinct from the
zero address and the escrow, hashes from the zero hash, amounts are naturals,
the windows are positive and ordered. TLC evaluates them in the runs.

*Argument*. Custody and the two causes are not inductive alone: that a ruling
comes inside its window needs that a disputed task carries a timely failing
verdict, and that needs to be remembered from the dispute on. The inductive
invariant `IInv` adds `Stages`, which says for each state which timestamps,
hashes and verdict a task must have. The lemma `StepShape` reduces a step to
one of ten shapes (fund, deliver, complete, claim, dispute, ...) on at most one
task; every preservation proof then splits on the shape instead of on the
actions and their callers. Replay protection has its own small invariant
(`Spent`): the nonce of a recorded verdict is spent by some signer. So has solvency
(`Books`): there are finitely many live tasks at any moment, `totalLocked` is the sum
of their amounts, and the balance is at least that. A task that becomes live adds its
amount to the sum, one that ends takes it away, any other step leaves every summand
alone. That sums behave so is what `InductionTheorems` is for.

`InductionTheorems` is about no code. The library's induction theorems take an operator
as a parameter, which no prover here can be given; the same facts about *sets* can:
a set of numbers that contains 0 and every successor is `Nat`, and a family of subsets
of a finite set that contains a set whenever it contains its proper subsets has them
all. Both follow from `WFMin`, that a non-empty set has a minimal element in a
well-founded order. From them come the laws of `SumFunctionOnSet` and `FoldSet`-like
folds that the proofs cite, and that an order on finitely many things lists them.

`OfferBookingProofs` proves, for any number of tasks, wallets, concurrent hires
and answers, any cap and any window:

| Theorem | States |
|---|---|
| `TypeCorrect` | `Spec => []TypeOK` |
| `Consent` | `Spec => []BookedByConsent` |
| `DecidedOnce` | `Spec => []OneDecision` |
| `LapsesSpare` | `Spec => LapseSparesFunded` |
| `KeyedOnce` | `Spec => []OneTaskPerKey` |

*Assumptions*: `TableAssumption` and `ExpiryAssumption`: there are tasks, agents
and workers, and an offer expires after it is made.

*Argument*. None of the three is inductive alone, as each speaks of a row that a
call read some steps before it writes. `IInv` adds what survives of a reading
(`Asked`): the row still exists, its worker is still the caller, an expiry that
had passed has still passed; but never that the row is still pending, which is
what another call may have changed. That is re-established by the compare-and-set
itself. `HireFirst` says that a row comes only from a hire that has answered, so
that its flag no longer changes, and `Pins` that a row is pinned exactly from its
booking on. `StepShapes` reduces a step to what it does to one row (born,
accepted, funded, moved on), one hire and one answer. The same shapes give
`LapsesSpare`.
`KeyedOnce` has an invariant of its own (`KeyInv`): no two rows share an agent and a
key, which the index secures at the insert, and what a finished hire names is a row
with its agent and its key, which no other writer changes. The lookup plays no part
in it: it may miss, and the insert then loses.

`SettlementSyncProofs` proves, for any number of tasks, overlapping runs, faults and
any batch limit, and for any number of channels and attempts:

| Theorem | States |
|---|---|
| `TypeCorrect` | `Spec => []TypeOK` |
| `NeverAheadOfMoney` | `Spec => []ActiveIsFunded` |
| `SettledAsPaid` | `Spec => []ProjectionAgrees` |
| `DisputesHaveGround` | `Spec => []DisputedHasGround` |
| `EndedForGood` | `Spec => EndedStays` |
| `SupersededKept` | `Spec => SupersededUntouched` |
| `ToldTheTruth` | `Delivery!Spec => []Delivery!OutcomesAreTrue` |
| `OutcomesHold` | `ProgressSpec => []OutcomesAreTrue` |
| `RowsFollowTheChain` | `ProgressSpec =>` all of the above but the notifications |

*Assumptions*: `TableAssumption` and `SyncAssumption`, and for the notifications
`ProgressAssumption`: there is at least one attempt.

*Argument*. A write of these handlers looks at nothing but the row's status; what it
says of the chain was read before. It is right all the same because of what kind of
facts they read (`Held`): that a task exists with the row's terms, that work was
delivered, that a task has settled and how. None of these is ever undone, so an old
reading that says so is still true (`Older`), while a reading that says the opposite
is written nowhere. `ChainInv` adds the chain's side: a settled task names whom it
paid. A step moves the chain or the rows, and `RowShapes` says how a row may move
(early, activated, contended, ended).

What a notification's caller is told follows from each series' `pc`: `Consistent` says
which answers there have been, `Posts` that no POST is newer than the attempt under way,
`Called` which channels were dispatched to. `ProgressSpec` is a behaviour of both
modules at once (`EachIsItself`), so the theorems hold of the very specification that
the run `progress` checks; its fairness is not used.

`AwolProofs` proves, for any number of offers, concurrent hires and channels and any
two thresholds:

| Theorem | States |
|---|---|
| `TypeCorrect` | `Spec => []TypeOK` |
| `LoopCountsStreaks` | `Spec => []StreaksAreTrailing` |
| `DisablesForCause` | `Spec => DisabledForCause` |
| `AbsentKept` | `Spec => []AbsentNotBooked` |

*Assumptions*: `AwolAssumption`.

*Argument*. `LoopCountsStreaks` compares `computeAwolStreaks`, a loop over the history
from the newest row on that stops early, with what a streak is: the silences since the
worker last answered. The loop is a fold over the listed rows; the proof is an
induction over its length, whose invariant says that so far both counters are right for
the rows seen and that a counter is closed exactly when an answer was seen.

For the other two, `Pinned` and `Heard` say that a lapse which counts as silence was the
lapse of an unanswered offer, and `Checked` what a hire knows of its check. `Judged`
carries a verdict from the reading to the write: a check that ran to its end while the
worker was AWOL found him so, and one that found him so had silences enough to show for
it (`Guilty`), which stay, because a row's outcome is final.

Two modules prove facts of services, again for every value of the constants. Where a
theorem is of an instance, `Spec` is that instance's:

| Theorem | States | Why it is inductive with |
|---|---|---|
| `CallersProofs!SignedOut` | `Spec => []SignOutHolds` | `Gone`: a revoked row stays revoked, as the slide writes two columns that are not that one |
| `CallersProofs!Proved` | `Spec => [][SessionProved]_vars` | `Dated` and `Proving`: a challenge row that is still there is of the wallet it was issued for, and what a sign-in has read it has read in time and unspent |
| `CallersProofs!StaysAlive` | `Spec => []UseKeepsAlive` | `AliveInv`: a row's expiry, and that of every slide still under way, lies a life after the last use, less the throttle and the time a write may take |
| `CallersProofs!CapacityTheorem` | `Spec => []CapacityBounded` | the entries together with the calls that are opening stay under the cap plus the calls less one; an entry turns the one into the other |
| `CallersProofs!WindowsLimit` | `Spec => []MemoryWindow` | `LimitInv`: what was let through since an entry's window began is its count, at most the limit, and no earlier window reaches past that beginning, so a span meets two windows at most |
| `CallersProofs!Admissions` | `Spec => []AdmissionsAreEarned` | `RegInv`: a nonce that was used is still there or too old to be sent again, and what a call has read of the screening was read in time |
| `RecordsProofs!GrantsTheorem` | `Spec => []GrantsAreDue` | `Reading`: a row stays its worker's, and a request that came late finds the chain as late as it was, so the chain read last refuses it |
| `RecordsProofs!Pruning` | `Spec => [][PruningDue]_vars` | `Logged`: a task's content is there until it is logged; the status and the window are looked at again by the statement that deletes, so what a run has selected need not be true any more |
| `RecordsProofs!Attested` | `Spec => []OneCompletionOneRecord` | `Faithful`: what a request has read of an ended task is what the chain says, because an ended task does not change; `True`: so is what was signed or published |
| `RecordsProofs!ToldForGood` | `Spec => []AnswersHold` | `Read`: which facts of an old reading of row and chain are still facts (delivered, ended, funded, a deadline that had passed); `Sound`: which pairs of row and chain there are |
| `CallersProofs!PageAgreesTheorem` | `Spec => [](ClaimsAreOffered /\ SentIsAccepted)` | `Stands`: what the page saw when it offered a button is still so as long as the task did not move, because states stay and moments that had come have come, on either clock up to the skew; a move marks every action and transaction under way |
| `RecordsProofs!AnswersTheorem` | `Spec => []AnswersAreTrue` | `ClientHolds`: how a task ended is the last that happened to it, so that one event is enough; of the range of a scan, up to the lagging head, each block is in a window still to be read or holds no event that was asked for |
| `RecordsProofs!ScoresFollow` | `Spec => [][ScoreFollows]_own` | no invariant but types; the lemmas say that a better record has no lower score, in each of the three parts of the score, although each is clamped and rounded down |
| `RecordsProofs!VerdictsTheorem` | `Spec => []VerdictsAreEarned` | `JudgeInv`: what was signed is the checker's word, as of the recorded time, on the bundle that was committed, under a spec whose hash is on chain; the lemma `VerdictsAgree` beside it: the evaluator lists no failure exactly when every promise of the spec is kept |
| `RecordsProofs!SignaturesTheorem` | `Spec => []SignaturesAreTheSigners` | `SignerInv`: a call's digest is its caller's, no cache holds anything but a key's address; the lemmas are modular arithmetic: the bit that recovers to the signer makes the signature verify, and negating a high s keeps it a signature |
| `RecordsProofs!BackupTheorem` | `Spec => []BackupIsWhole` | `Paging`: the rows read ascend, and a row that was there all along is among them or comes after the last; `Exported`: what a run wrote is what it read, as long as no other run has its minute |

*Assumptions*: `McpAssumption` with finite sets of ids and calls, `AuthAssumption`
with numbered nonces and tokens, `LimitAssumption` for the memory back end,
natural numbers for the upload cap and sizes, the delivery windows
of the tools, and the windows and the skew of the dashboard. `Pruning` and `Attested` assume nothing.
The others rest on what follows:

- `Admissions`: a message's greatest age and the time a request may take are together
  no more than the age at which nonces are purged: 300 s (`register/route.ts:11`)
  against an hour (`register/route.ts:175`). With a shorter retention the replay is
  possible, and TLC finds it.
- `AnswersTheorem`: a window of at least one block. The lag of the head is any number
  (`HEAD_LAG`), and the statement says what the answers then leave out.
- `ScoresFollow`: a worker has finitely many tasks.
- `VerdictsTheorem`: an artefact has each reading at most once and hashes are finite
  sequences, and a funding is confirmed in no earlier block than its own
  (`InputAssumption`); the rest of spec and bundle may be anything.
- `SignaturesTheorem`: the order is odd and every scalar below it has an inverse
  (`GroupAssumption`), which secp256k1's is and has. Points are still discrete
  logarithms, as in the model.
- `BackupTheorem`: the registry names a table once, none is named like the manifest,
  ids are finitely many numbers and a page holds at least one row (`BackupAssumption`).

All of these are conjuncts of `ServicesAssumption`, which TLC evaluates in `services`.

`ServicesProofs` carries these theorems to the very properties that the run `services`
checks, for every value of the fifteen records:

| Theorem | States |
|---|---|
| `SessionsAreProved` | `Spec => SessionIsProved` |
| `WalletsSpeakForThemselves` | `Spec => []IdentityHolds` |
| `LimitsAreKept` | `Spec => []LimitsHold` |
| `PageAgreesHolds` | `Spec => []PageAgrees` |
| `UploadsAreDue` | `Spec => []GrantsAreDue` |
| `SignaturesHold` | `Spec => []SignaturesAreEarned` |
| `RecordsAreTrueHolds` | `Spec => []RecordsAreTrue` |
| `ScoresFollowConduct` | `Spec => ScoreFollowsConduct` |
| `BackupsAreWhole` | `Spec => []BackupIsWhole` |
| `PruningsAreDue` | `Spec => PruningIsDue` |

*Argument*. No step changes `part` (`PartStays`). A behaviour that starts in a part is
therefore a behaviour of that part's module (the `Runs` lemmas), and one that does not
never enters it. The modules that prove are instances too, of the parameters and the
slots; that they speak of the same specification as the part is a matter of opening
both definitions (the `Agrees` lemmas). Each instance stands next to the theorems that
use it, because every obligation carries all the definitions before it.

*Only model-checked*: all liveness properties (`DeliveredIsSettled`, `FundedIsLeft`,
`SettledIsProjected`, `CallerGoesOn`), which the provers do not treat, and the six
sentences of section 3 that the code violates.

## 5. Where code and words part, without a run

Modelled as the code has them. None is checked as a violation, because the words
are weaker than a property or the effect is small.

- *Challenges are single-use* (`challenge/route.ts:4`, `007_mcp_challenges.sql:3`):
  consuming a nonce is an unconditional update whose error is ignored, so two
  calls that both read it unused both mint a session, and so does a later one when
  the update failed. `SessionProved` says what remains: each session goes to a wallet
  that signed, by a call that read the nonce unspent.
- *In-memory sliding window* (`ratelimit.ts:7`) and *60, 30, 10 req/min*
  (`ratelimit.ts:147-157`): the window is fixed. It begins with a client's first
  request and is replaced when it is over, so a client that waits with most of its
  requests for the end of one window has twice the limit let through within a minute.
  `MemoryWindow` is what holds: the limit in one window, twice the limit in any span
  as long; a sliding window, as the header has it, is violated by the model in three
  steps.
- *The task's funding block timestamp* (`format.ts:119-125`, shown to the worker as
  fixed when the task is funded): `/api/fund-task` stores the latest block's time when
  it confirms (`fund-task/route.ts:159-160`; `escrow.ts:45-60` calls that approximate by
  design). Evidence captured between the two keeps what the worker was shown and fails.
  `VerdictsAreEarned` says both: the verdict is right as of the recorded time, and a
  pass is a pass as shown; the converse is left out for specs that ask for captures
  after the funding. The route does not compare the funded spec hash with the row's
  either, so that a task can be funded about which no verdict can be had.
- `acceptTask` is not guarded on the expiry, so an answer read in time can be
  written a moment late (`offers.ts:45-47` says never). `/api/fund-task` activates
  a row whose task has already left `Funded`, against its header but as its
  comment at line 126 intends.
- A tool marks the row disputed before the agent has disputed on chain, and
  `confirm_task_completion` advises `completeTask` also on a task that is disputed,
  expired or unknown on chain. `errors.ts:7-8` calls failures not retryable that a
  later call can mend. The reclaim hint can be stale by one race, which
  `AnswersHold` allows for.
- The Redis limiter renews its expiry with every request, so under steady traffic
  its window does not end and a client that keeps asking stays refused;
  `MemoryWindow` is a property of the memory back end.
- A head that is behind the other reads hides the newest event: a task that `getTask`
  shows as paid is answered with no completion while its event is in the blocks the
  head lacks. `AnswersAreTrue` says "never" only up to those.
- The browser compares deadlines with its own clock (`page.tsx:577-579`). A fast one
  offers a claim that the contract still refuses, a slow one offers it late; a render
  may also be older than the clock. Both are in the model, and `PageAgrees` bounds
  them by the skew. The evidence of a submission that a slow clock still offers is
  refused after the deadline (`Late`).
- Intake accepts reference hashes of unequal width, which `schema.ts:62` rules out
  and no evidence can meet; the rule text that is hashed for the contract says that
  every artefact "must reach" the similarity (`checker/hash.ts:42`), which the
  evaluator takes as a cap; and `provenance: {}` counts as a criterion.
- The on-chain track record counts a disputed and a resolved task as a dispute, but
  not one that waits for the arbitrator (`reputation/index.ts:92-95`). So taking up a
  dispute raises the score for a while, and a ruling lowers it although it may have
  paid the worker; `ScoreFollows` counts a ruling against him, as the code does.
- The switch-off is meant for silence, but a funded task refunded by a ruling after
  delivery is counted like one that was never delivered (`awol.ts:72`, run
  `awol_expired`). `DisabledForCause` therefore says refunded and not silent.
- The credential of a hire is stored after the row exists, so a task can end first
  and the credential be stored after the trigger that would have dropped it.
- `/api/tasks` without a session answers the public list, so "Your Tasks" shows
  everybody's until the sign-in; a declined sign-in still clears the prompt
  (`page.tsx:559-573`).
- A backup reads people before their channels and tasks, so that a row may refer
  to one that is not in the same backup, and `BackupIsWhole` does not say that a backup
  can be restored as it is; two runs in one minute share a manifest, and the manifest
  lists a table whose read-back failed as exported.
- Registering again resets availability, reputation and the email channel, and a
  profile update carries no nonce.

## 6. What is not modelled

`PROJECT.json` gives the reason per component. Left out altogether: support code
(configuration, types, validation, wording), the wallet library's hooks, and the
scripts, which are tools outside the service. Within the modelled parts: the
reentrancy guard (the token is USDC, which makes no callbacks), a token that
refuses a transfer (settlements would just stay disabled), `checkerHash` and
`breakdownHash` (recorded in events, compared with nothing), the content of briefs
beyond its hash, ABI, EIP-712, SigV4 and webhook encodings, message texts, the
searches of the whitepages, and the dashboard's profile, channel and session
panels. `middleware.ts` lies at the repository's root while the application is
under `src/app`; RateLimit takes it to be in force, which the source alone does
not show. The order of a batch is modelled as any order, so starvation by a full
batch (`settlement-sync.ts:60-69`) is documented and not checked.

## 7. Plan

The modules of the first plan are written, and so is every component that keeps
state. What could follow:

1. `Marketplace`: `OfferBooking`, `SettlementSync` and `Awol` on one table, with
   what they promise the worker together (a slot held is a slot returned).
2. Proofs: every invariant and action property of a passing run has its theorem. What
   could follow is the part of the liveness arguments that is about single steps (which
   step of a run brings `SettledIsProjected` closer, and that none takes it back), and
   `Marketplace` when it is there.
3. The dashboard under a change of wallet, and the panels that are left out.
