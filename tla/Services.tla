------------------------------- MODULE Services -------------------------------
(***************************************************************************)
(* The services around the tasks, in one specification.  They share no     *)
(* variable: all that would interleave is unrelated, and a property of one *)
(* is broken by its own steps or not at all.  So a behaviour runs one of   *)
(* them: `part` names it, the slots v0 .. v12 hold its variables (v0 its   *)
(* clock), and the slots it does not use rest at Off.                      *)
(***************************************************************************)
EXTENDS Naturals, Sequences, FiniteSets

(* The parameters of a service are the fields of one record. *)
CONSTANTS
    prove,         \* of SessionAuth, for calls that prove a wallet
    auth,          \* of SessionAuth, for the requests of one session
    registrar,     \* of Registration
    mcp,           \* of McpSessions
    limiter,       \* of RateLimit
    accept,        \* of AcceptanceCheck
    upload,        \* of EvidenceUpload
    kms,           \* of KmsSigner
    attest,        \* of Attestation
    tools,         \* of McpTools
    client,        \* of ChainClient
    reputation,    \* of Reputation
    dashboard,     \* of Dashboard
    retention,     \* of Retention
    backup,        \* of BackupExport
    Off

VARIABLES part, v0, v1, v2, v3, v4, v5, v6, v7, v8, v9, v10, v11, v12

slots == << v0, v1, v2, v3, v4, v5, v6, v7, v8, v9, v10, v11, v12 >>
-----------------------------------------------------------------------------
(* Who calls. *)

(* Several calls may carry one nonce. *)
Prove == INSTANCE SessionAuth WITH
    Wallets <- prove.Wallets, Nonces <- prove.Nonces, Tokens <- prove.Tokens,
    SignIns <- prove.SignIns, Requests <- prove.Requests,
    CHALLENGE_TTL <- prove.CHALLENGE_TTL, SESSION_TTL <- prove.SESSION_TTL,
    SLIDE_THROTTLE <- prove.SLIDE_THROTTLE, MaxTransit <- prove.MaxTransit,
    MaxClock <- prove.MaxClock,
    clock <- v0, challenge <- v1, session <- v2, signIn <- v3, request <- v4, seen <- v5,
    gone <- v6, spent <- v7

(* The requests of one session. *)
Auth == INSTANCE SessionAuth WITH
    Wallets <- auth.Wallets, Nonces <- auth.Nonces, Tokens <- auth.Tokens,
    SignIns <- auth.SignIns, Requests <- auth.Requests, CHALLENGE_TTL <- auth.CHALLENGE_TTL,
    SESSION_TTL <- auth.SESSION_TTL, SLIDE_THROTTLE <- auth.SLIDE_THROTTLE,
    MaxTransit <- auth.MaxTransit, MaxClock <- auth.MaxClock,
    clock <- v0, challenge <- v1, session <- v2, signIn <- v3, request <- v4, seen <- v5,
    gone <- v6, spent <- v7

Register == INSTANCE Registration WITH
    Wallets <- registrar.Wallets, Messages <- registrar.Messages,
    Contacts <- registrar.Contacts, Posts <- registrar.Posts, Rates <- registrar.Rates,
    Availability <- registrar.Availability, MAX_MESSAGE_AGE_S <- registrar.MAX_MESSAGE_AGE_S,
    PURGE_S <- registrar.PURGE_S, CACHE_TTL_MS <- registrar.CACHE_TTL_MS,
    MaxTransit <- registrar.MaxTransit, MaxClock <- registrar.MaxClock,
    clock <- v0, index <- v1, message <- v2, used_nonces <- v3, humans <- v4, channel <- v5,
    cache <- v6, flagged <- v7, post <- v8, admitted <- v9

Mcp == INSTANCE McpSessions WITH
    Ids <- mcp.Ids, Opens <- mcp.Opens, SESSION_TIMEOUT_MS <- mcp.SESSION_TIMEOUT_MS,
    MAX_SESSIONS <- mcp.MAX_SESSIONS, MaxClock <- mcp.MaxClock,
    clock <- v0, sessions <- v1, count <- v2, open <- v3, closing <- v4, used <- v5,
    health <- v6

Limiter == INSTANCE RateLimit WITH
    Backend <- limiter.Backend, Clients <- limiter.Clients,
    maxRequests <- limiter.maxRequests, windowMs <- limiter.windowMs,
    MaxPerTick <- limiter.MaxPerTick, MaxCount <- limiter.MaxCount,
    MaxClock <- limiter.MaxClock,
    clock <- v0, entry <- v1, reply <- v2, passed <- v3

(* What the services of the callers take their parameters to be. *)
CallersAssumption ==
    /\ Prove!AuthAssumption /\ prove.Nonces \subseteq Nat /\ prove.Tokens \subseteq Nat
    /\ Auth!AuthAssumption /\ auth.Nonces \subseteq Nat /\ auth.Tokens \subseteq Nat
    /\ registrar.MAX_MESSAGE_AGE_S \in Nat /\ registrar.PURGE_S \in Nat
    /\ registrar.CACHE_TTL_MS \in Nat /\ registrar.MaxTransit \in Nat /\ registrar.MaxClock \in Nat
    /\ registrar.MAX_MESSAGE_AGE_S + registrar.MaxTransit <= registrar.PURGE_S
    /\ Mcp!McpAssumption /\ IsFiniteSet(mcp.Ids) /\ IsFiniteSet(mcp.Opens)
    /\ Limiter!LimitAssumption /\ limiter.Backend = "memory" /\ limiter.MaxClock \in Nat
    /\ { dashboard.DELIVERY, dashboard.REVIEW, dashboard.ARBITRATION, dashboard.VERDICT_TTL,
         dashboard.MaxSkew } \subseteq Nat
-----------------------------------------------------------------------------
(* Evidence and what is signed about it. *)

Accept == INSTANCE AcceptanceCheck WITH
    Specs <- accept.Specs, Bundles <- accept.Bundles, FundedAt <- accept.FundedAt,
    ConfirmedAt <- accept.ConfirmedAt, MAX_ARTIFACTS <- accept.MAX_ARTIFACTS,
    offer <- v1, state <- v2, committed <- v3, fundedAt <- v4, reply <- v5, signed <- v6,
    specHash <- v7

Upload == INSTANCE EvidenceUpload WITH
    TaskIds <- upload.TaskIds, Agents <- upload.Agents, Workers <- upload.Workers,
    Keys <- upload.Keys, NoKey <- upload.NoKey,
    WORKER_CONCURRENCY_CAP <- upload.WORKER_CONCURRENCY_CAP,
    IDEMPOTENCY_KEY_TTL <- upload.IDEMPOTENCY_KEY_TTL, MaxClock <- upload.MaxClock,
    Uploads <- upload.Uploads,
    PLATFORM_MAX_UPLOAD_BYTES <- upload.PLATFORM_MAX_UPLOAD_BYTES, Sizes <- upload.Sizes,
    UPLOAD_URL_TTL_SECONDS <- upload.UPLOAD_URL_TTL_SECONDS,
    clock <- v0, rows <- v1, bucket <- v2, hire <- v3, credential <- v4, onChain <- v5,
    upload <- v6, grants <- v7

Kms == INSTANCE KmsSigner WITH
    SECP256K1_ORDER <- kms.SECP256K1_ORDER, Digests <- kms.Digests, Callers <- kms.Callers,
    BYTE <- kms.BYTE,
    key <- v1, address <- v2, account <- v3, signing <- v4

Attest == INSTANCE Attestation WITH
    Tasks <- attest.Tasks, Worker <- attest.Worker, Callers <- attest.Callers,
    Calls <- attest.Calls, Structs <- attest.Structs,
    VERIFIED_ATTEST_ENVELOPES <- attest.VERIFIED_ATTEST_ENVELOPES,
    MaxNonce <- attest.MaxNonce, MaxUpgrades <- attest.MaxUpgrades,
    onChain <- v1, eas <- v2, call <- v3, offchain <- v4, published <- v5
-----------------------------------------------------------------------------
(* What is read, told, shown, kept and purged. *)

Tools == INSTANCE McpTools WITH
    Calls <- tools.Calls, DELIVERY <- tools.DELIVERY, MaxClock <- tools.MaxClock,
    clock <- v0, chain <- v1, row <- v2, passes <- v3, call <- v4

Client == INSTANCE ChainClient WITH
    Tasks <- client.Tasks, Reads <- client.Reads, Mine <- client.Mine,
    RPC_MAX_BLOCK_RANGE <- client.RPC_MAX_BLOCK_RANGE,
    ESCROW_DEPLOY_BLOCK <- client.ESCROW_DEPLOY_BLOCK, MaxBlock <- client.MaxBlock,
    HEAD_LAG <- client.HEAD_LAG, Routes <- client.Routes,
    blocks <- v1, legacy <- v2, read <- v3

Rep == INSTANCE Reputation WITH
    Tasks <- reputation.Tasks, Readers <- reputation.Readers,
    chain <- v1, age <- v2, answer <- v3

(* The deployed contract has an arbitration clock (v3, in Init).           *)
Dash == INSTANCE Dashboard WITH
    Bundles <- dashboard.Bundles, Passing <- dashboard.Passing,
    DELIVERY <- dashboard.DELIVERY, REVIEW <- dashboard.REVIEW,
    ARBITRATION <- dashboard.ARBITRATION, VERDICT_TTL <- dashboard.VERDICT_TTL,
    MaxSkew <- dashboard.MaxSkew, MaxPending <- dashboard.MaxPending, MaxClock <- dashboard.MaxClock,
    clock <- v0, me <- v1, task <- v2, arbitrationClock <- v3, row <- v4, session <- v5,
    gesture <- v6, page <- v7, view <- v8, fetching <- v9, action <- v10,
    mempool <- v11, draft <- v12

Keep == INSTANCE Retention WITH
    TaskIds <- retention.TaskIds, Agents <- retention.Agents, Workers <- retention.Workers,
    Keys <- retention.Keys, NoKey <- retention.NoKey,
    WORKER_CONCURRENCY_CAP <- retention.WORKER_CONCURRENCY_CAP,
    IDEMPOTENCY_KEY_TTL <- retention.IDEMPOTENCY_KEY_TTL, MaxClock <- retention.MaxClock,
    Prunes <- retention.Prunes, DISPUTE_WINDOW_SECONDS <- retention.DISPUTE_WINDOW_SECONDS,
    PRUNE_BATCH_LIMIT <- retention.PRUNE_BATCH_LIMIT,
    clock <- v0, rows <- v1, updatedAt <- v2, content <- v3, deletions <- v4, prune <- v5

Backup == INSTANCE BackupExport WITH
    TIER1_TABLES <- backup.TIER1_TABLES, Deletable <- backup.Deletable, Ids <- backup.Ids,
    EXPORT_PAGE_SIZE <- backup.EXPORT_PAGE_SIZE, Runs <- backup.Runs,
    Minutes <- backup.Minutes, MaxChanges <- backup.MaxChanges,
    db <- v1, missing <- v2, specs <- v3, bucket <- v4, run <- v5, changes <- v6

RecordsAssumption ==
    /\ Upload!TableAssumption
    /\ upload.PLATFORM_MAX_UPLOAD_BYTES \in Nat /\ upload.Sizes \subseteq Nat
    /\ Keep!TableAssumption
    /\ tools.DELIVERY \in Nat
    /\ client.RPC_MAX_BLOCK_RANGE \in Nat \ {0} /\ client.ESCROW_DEPLOY_BLOCK \in Nat
    /\ client.MaxBlock \in Nat /\ client.HEAD_LAG \in Nat /\ client.Mine \subseteq client.Tasks
    /\ client.Routes \cap { "None", "nothing", "TaskCreated", "WorkSubmitted", "TaskExpired",
                            "Resolved to agent", "Resolved to worker" } = {}
    /\ IsFiniteSet(reputation.Tasks)
    /\ Accept!InputAssumption /\ Kms!GroupAssumption /\ Backup!BackupAssumption

ASSUME ServicesAssumption == CallersAssumption /\ RecordsAssumption
-----------------------------------------------------------------------------
(* The slots from the n-th on are not used, and neither is v0 without a clock. *)
Unused(n) ==
    /\ IF n <= 4 THEN v4 = Off ELSE TRUE
    /\ IF n <= 5 THEN v5 = Off ELSE TRUE
    /\ IF n <= 6 THEN v6 = Off ELSE TRUE
    /\ IF n <= 7 THEN v7 = Off ELSE TRUE
    /\ IF n <= 8 THEN v8 = Off ELSE TRUE
    /\ IF n <= 9 THEN v9 = Off ELSE TRUE
    /\ IF n <= 10 THEN v10 = Off ELSE TRUE
    /\ IF n <= 11 THEN v11 = Off ELSE TRUE
    /\ IF n <= 12 THEN v12 = Off ELSE TRUE
Kept(n) ==
    /\ UNCHANGED part
    /\ IF n <= 4 THEN UNCHANGED v4 ELSE TRUE
    /\ IF n <= 5 THEN UNCHANGED v5 ELSE TRUE
    /\ IF n <= 6 THEN UNCHANGED v6 ELSE TRUE
    /\ IF n <= 7 THEN UNCHANGED v7 ELSE TRUE
    /\ IF n <= 8 THEN UNCHANGED v8 ELSE TRUE
    /\ IF n <= 9 THEN UNCHANGED v9 ELSE TRUE
    /\ IF n <= 10 THEN UNCHANGED v10 ELSE TRUE
    /\ IF n <= 11 THEN UNCHANGED v11 ELSE TRUE
    /\ IF n <= 12 THEN UNCHANGED v12 ELSE TRUE

Init ==
    \/ /\ part = "prove" /\ Prove!Init /\ Unused(8)
    \/ /\ part = "auth" /\ Auth!Init /\ Unused(8)
    \/ /\ part = "register" /\ Register!Init /\ Unused(10)
    \/ /\ part = "mcp" /\ Mcp!Init /\ Unused(7)
    \/ /\ part = "limiter" /\ Limiter!Init /\ Unused(4)
    \/ /\ part = "accept" /\ Accept!Init /\ v0 = Off /\ Unused(8)
    \/ /\ part = "upload" /\ Upload!Init /\ Unused(8)
    \/ /\ part = "kms" /\ Kms!Init /\ v0 = Off /\ Unused(5)
    \/ /\ part = "attest" /\ Attest!Init /\ v0 = Off /\ Unused(6)
    \/ /\ part = "tools" /\ Tools!Init /\ Unused(5)
    \/ /\ part = "client" /\ Client!Init /\ v0 = Off /\ Unused(4)
    \/ /\ part = "reputation" /\ Rep!Init /\ v0 = Off /\ Unused(4)
    \/ /\ part = "dashboard" /\ Dash!Init /\ v3 /\ Unused(13)
    \/ /\ part = "retention" /\ Keep!Init /\ Unused(6)
    \/ /\ part = "backup" /\ Backup!Init /\ v0 = Off /\ Unused(7)

Next ==
    \/ /\ part = "prove" /\ Prove!Next /\ Kept(8)
    \/ /\ part = "auth" /\ Auth!Next /\ Kept(8)
    \/ /\ part = "register" /\ Register!Next /\ Kept(10)
    \/ /\ part = "mcp" /\ Mcp!Next /\ Kept(7)
    \/ /\ part = "limiter" /\ Limiter!Next /\ Kept(4)
    \/ /\ part = "accept" /\ Accept!Next /\ UNCHANGED v0 /\ Kept(8)
    \/ /\ part = "upload" /\ Upload!Next /\ Kept(8)
    \/ /\ part = "kms" /\ Kms!Next /\ UNCHANGED v0 /\ Kept(5)
    \/ /\ part = "attest" /\ Attest!Next /\ UNCHANGED v0 /\ Kept(6)
    \/ /\ part = "tools" /\ Tools!Next /\ Kept(5)
    \/ /\ part = "client" /\ Client!Next /\ UNCHANGED v0 /\ Kept(4)
    \/ /\ part = "reputation" /\ Rep!Next /\ UNCHANGED v0 /\ Kept(4)
    \/ /\ part = "dashboard" /\ Dash!Next /\ Kept(13)
    \/ /\ part = "retention" /\ Keep!Next /\ Kept(6)
    \/ /\ part = "backup" /\ Backup!Next /\ UNCHANGED v0 /\ Kept(7)

Spec == Init /\ [][Next]_<< part, slots >>
-----------------------------------------------------------------------------
(* Properties. *)

(* A session is given to the wallet that signed the challenge, by a call   *)
(* that read it in time and unspent: the sign-in of POST                   *)
(* /api/auth/session, under any interleaving with purges and with calls    *)
(* that carry the same nonce.                                              *)
SessionIsProved ==
    [][ part = "prove" => Prove!SessionProved ]_slots

(* A wallet speaks for itself: a committed sign-out is final and a session *)
(* in use stays alive (session.ts), and a registration that was admitted   *)
(* had a fresh signature, a nonce of its own and a screening that gave no  *)
(* hit: none now, none in an answer not yet too old, or no answer, as when *)
(* the provider is down (register/route.ts, sanctions/index.ts).           *)
IdentityHolds ==
    /\ part = "auth" => Auth!SignOutHolds /\ Auth!UseKeepsAlive
    /\ part = "register" => Register!AdmissionsAreEarned

(* What is bounded stays bounded: the MCP sessions of an instance, checked *)
(* before an await and counted after it (basedhuman.mcp/route.ts), and a   *)
(* client's requests, of which one window of the fixed-window limiter lets *)
(* no more through than the limit and any span as long at most twice that, *)
(* where two windows meet (ratelimit.ts).                                  *)
LimitsHold ==
    /\ part = "mcp" => Mcp!CapacityBounded
    /\ part = "limiter" => Limiter!MemoryWindow

(* An upload URL is for the worker of the task, to the storage its agent   *)
(* registered, within the agent's cap and the platform's, before the end of*)
(* the work (evidence/upload-url/route.ts).                                *)
GrantsAreDue == part = "upload" => Upload!GrantsAreDue

(* What the platform signs is what the evidence and the spec say, and is a *)
(* signature of the platform's own key (verdict-service.ts, kms-signer.ts).*)
SignaturesAreEarned ==
    /\ part = "accept" => Accept!VerdictsAreEarned
    /\ part = "kms" => Kms!SignaturesAreTheSigners

(* What is read from the chain in windows and in steps is what one moment  *)
(* of the chain says, up to the blocks the head is behind (escrow.ts), and *)
(* so is the one record of a completion that is attested (lib/attestation);*)
(* what a tool told an agent of a task stays true (mcp/server.ts).         *)
RecordsAreTrue ==
    /\ part = "tools" => Tools!AnswersHold
    /\ part = "client" => Client!AnswersAreTrue
    /\ part = "attest" => Attest!OneCompletionOneRecord

(* A score follows from the worker's conduct, as the chain or the table has*)
(* it: a task that completes never lowers what a reader is answered, and a *)
(* dispute never raises it; a ruling counts as a dispute, whoever it paid, *)
(* as long as the answer is from the chain (reputation/index.ts).          *)
ScoreFollowsConduct ==
    [][ part = "reputation" => Rep!ScoreFollows ]_slots

(* The dashboard offers a claim as the contract grants it, up to how far   *)
(* the browser's clock is off block.timestamp; a transaction it sends fails*)
(* only to a race or for being early or late by at most that               *)
(* (dashboard/page.tsx).                                                   *)
PageAgrees ==
    part = "dashboard" => Dash!ClaimsAreOffered /\ Dash!SentIsAccepted

(* Content is purged only when its task has ended and its window is over,  *)
(* and is logged once (retention.ts, prune_task_content).                  *)
PruningIsDue ==
    [][ part = "retention" => Keep!PruningDue ]_slots

(* A run that says it is whole, and had its minute to itself, has in its   *)
(* backup every row that was there throughout, once; no object has a       *)
(* forbidden column (backup-export.ts).                                    *)
BackupIsWhole == part = "backup" => Backup!BackupIsWhole
=============================================================================
