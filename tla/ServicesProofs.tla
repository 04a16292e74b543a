---------------------------- MODULE ServicesProofs ----------------------------
(***************************************************************************)
(* What module Services promises of its parts, for every value of their    *)
(* parameters.  A behaviour stays in the part it starts in and is there a  *)
(* behaviour of that part's module, so what CallersProofs and RecordsProofs*)
(* prove of the modules holds of it.                                       *)
(***************************************************************************)
EXTENDS Services, TLAPS

-----------------------------------------------------------------------------
(* A behaviour stays in the part it starts in, and is one of that part. *)

LEMMA PartStays == [Next]_<< part, slots >> => part' = part
BY DEF Next, Kept, slots

LEMMA ProveRuns ==
    /\ Spec /\ part = "prove" => Prove!Spec
    /\ Spec /\ ~ (part = "prove") => [] ~ (part = "prove")
<1>1. Init /\ part = "prove" => Prove!Init
  BY DEF Init
<1>2. part = "prove" /\ [Next]_<< part, slots >> => [Prove!Next]_Prove!vars
  BY DEF Next, slots, Prove!vars, Prove!own
<1>3. part = "prove" /\ [Next]_<< part, slots >> => (part = "prove")'
  BY PartStays
<1>4. ~ (part = "prove") /\ [Next]_<< part, slots >> => ~ (part = "prove")'
  BY PartStays
<1> QED  BY <1>1, <1>2, <1>3, <1>4, PTL DEF Spec, Prove!Spec

LEMMA AuthRuns ==
    /\ Spec /\ part = "auth" => Auth!Spec
    /\ Spec /\ ~ (part = "auth") => [] ~ (part = "auth")
<1>1. Init /\ part = "auth" => Auth!Init
  BY DEF Init
<1>2. part = "auth" /\ [Next]_<< part, slots >> => [Auth!Next]_Auth!vars
  BY DEF Next, slots, Auth!vars, Auth!own
<1>3. part = "auth" /\ [Next]_<< part, slots >> => (part = "auth")'
  BY PartStays
<1>4. ~ (part = "auth") /\ [Next]_<< part, slots >> => ~ (part = "auth")'
  BY PartStays
<1> QED  BY <1>1, <1>2, <1>3, <1>4, PTL DEF Spec, Auth!Spec

LEMMA RegisterRuns ==
    /\ Spec /\ part = "register" => Register!Spec
    /\ Spec /\ ~ (part = "register") => [] ~ (part = "register")
<1>1. Init /\ part = "register" => Register!Init
  BY DEF Init
<1>2. part = "register" /\ [Next]_<< part, slots >> => [Register!Next]_Register!vars
  BY DEF Next, slots, Register!vars, Register!own
<1>3. part = "register" /\ [Next]_<< part, slots >> => (part = "register")'
  BY PartStays
<1>4. ~ (part = "register") /\ [Next]_<< part, slots >> => ~ (part = "register")'
  BY PartStays
<1> QED  BY <1>1, <1>2, <1>3, <1>4, PTL DEF Spec, Register!Spec

LEMMA McpRuns ==
    /\ Spec /\ part = "mcp" => Mcp!Spec
    /\ Spec /\ ~ (part = "mcp") => [] ~ (part = "mcp")
<1>1. Init /\ part = "mcp" => Mcp!Init
  BY DEF Init
<1>2. part = "mcp" /\ [Next]_<< part, slots >> => [Mcp!Next]_Mcp!vars
  BY DEF Next, slots, Mcp!vars, Mcp!own
<1>3. part = "mcp" /\ [Next]_<< part, slots >> => (part = "mcp")'
  BY PartStays
<1>4. ~ (part = "mcp") /\ [Next]_<< part, slots >> => ~ (part = "mcp")'
  BY PartStays
<1> QED  BY <1>1, <1>2, <1>3, <1>4, PTL DEF Spec, Mcp!Spec

LEMMA LimiterRuns ==
    /\ Spec /\ part = "limiter" => Limiter!Spec
    /\ Spec /\ ~ (part = "limiter") => [] ~ (part = "limiter")
<1>1. Init /\ part = "limiter" => Limiter!Init
  BY DEF Init
<1>2. part = "limiter" /\ [Next]_<< part, slots >> => [Limiter!Next]_Limiter!vars
  BY DEF Next, slots, Limiter!vars, Limiter!own
<1>3. part = "limiter" /\ [Next]_<< part, slots >> => (part = "limiter")'
  BY PartStays
<1>4. ~ (part = "limiter") /\ [Next]_<< part, slots >> => ~ (part = "limiter")'
  BY PartStays
<1> QED  BY <1>1, <1>2, <1>3, <1>4, PTL DEF Spec, Limiter!Spec

LEMMA AcceptRuns ==
    /\ Spec /\ part = "accept" => Accept!Spec
    /\ Spec /\ ~ (part = "accept") => [] ~ (part = "accept")
<1>1. Init /\ part = "accept" => Accept!Init
  BY DEF Init
<1>2. part = "accept" /\ [Next]_<< part, slots >> => [Accept!Next]_Accept!vars
  BY DEF Next, slots, Accept!vars, Accept!own
<1>3. part = "accept" /\ [Next]_<< part, slots >> => (part = "accept")'
  BY PartStays
<1>4. ~ (part = "accept") /\ [Next]_<< part, slots >> => ~ (part = "accept")'
  BY PartStays
<1> QED  BY <1>1, <1>2, <1>3, <1>4, PTL DEF Spec, Accept!Spec

LEMMA UploadRuns ==
    /\ Spec /\ part = "upload" => Upload!Spec
    /\ Spec /\ ~ (part = "upload") => [] ~ (part = "upload")
<1>1. Init /\ part = "upload" => Upload!Init
  BY DEF Init
<1>2. part = "upload" /\ [Next]_<< part, slots >> => [Upload!Next]_Upload!vars
  BY DEF Next, slots, Upload!vars, Upload!own
<1>3. part = "upload" /\ [Next]_<< part, slots >> => (part = "upload")'
  BY PartStays
<1>4. ~ (part = "upload") /\ [Next]_<< part, slots >> => ~ (part = "upload")'
  BY PartStays
<1> QED  BY <1>1, <1>2, <1>3, <1>4, PTL DEF Spec, Upload!Spec

LEMMA KmsRuns ==
    /\ Spec /\ part = "kms" => Kms!Spec
    /\ Spec /\ ~ (part = "kms") => [] ~ (part = "kms")
<1>1. Init /\ part = "kms" => Kms!Init
  BY DEF Init
<1>2. part = "kms" /\ [Next]_<< part, slots >> => [Kms!Next]_Kms!own
  BY DEF Next, slots, Kms!own
<1>3. part = "kms" /\ [Next]_<< part, slots >> => (part = "kms")'
  BY PartStays
<1>4. ~ (part = "kms") /\ [Next]_<< part, slots >> => ~ (part = "kms")'
  BY PartStays
<1> QED  BY <1>1, <1>2, <1>3, <1>4, PTL DEF Spec, Kms!Spec

LEMMA AttestRuns ==
    /\ Spec /\ part = "attest" => Attest!Spec
    /\ Spec /\ ~ (part = "attest") => [] ~ (part = "attest")
<1>1. Init /\ part = "attest" => Attest!Init
  BY DEF Init
<1>2. part = "attest" /\ [Next]_<< part, slots >> => [Attest!Next]_Attest!own
  BY DEF Next, slots, Attest!own
<1>3. part = "attest" /\ [Next]_<< part, slots >> => (part = "attest")'
  BY PartStays
<1>4. ~ (part = "attest") /\ [Next]_<< part, slots >> => ~ (part = "attest")'
  BY PartStays
<1> QED  BY <1>1, <1>2, <1>3, <1>4, PTL DEF Spec, Attest!Spec

LEMMA ToolsRuns ==
    /\ Spec /\ part = "tools" => Tools!Spec
    /\ Spec /\ ~ (part = "tools") => [] ~ (part = "tools")
<1>1. Init /\ part = "tools" => Tools!Init
  BY DEF Init
<1>2. part = "tools" /\ [Next]_<< part, slots >> => [Tools!Next]_Tools!vars
  BY DEF Next, slots, Tools!vars, Tools!own
<1>3. part = "tools" /\ [Next]_<< part, slots >> => (part = "tools")'
  BY PartStays
<1>4. ~ (part = "tools") /\ [Next]_<< part, slots >> => ~ (part = "tools")'
  BY PartStays
<1> QED  BY <1>1, <1>2, <1>3, <1>4, PTL DEF Spec, Tools!Spec

LEMMA ClientRuns ==
    /\ Spec /\ part = "client" => Client!Spec
    /\ Spec /\ ~ (part = "client") => [] ~ (part = "client")
<1>1. Init /\ part = "client" => Client!Init
  BY DEF Init
<1>2. part = "client" /\ [Next]_<< part, slots >> => [Client!Next]_Client!own
  BY DEF Next, slots, Client!own
<1>3. part = "client" /\ [Next]_<< part, slots >> => (part = "client")'
  BY PartStays
<1>4. ~ (part = "client") /\ [Next]_<< part, slots >> => ~ (part = "client")'
  BY PartStays
<1> QED  BY <1>1, <1>2, <1>3, <1>4, PTL DEF Spec, Client!Spec

LEMMA RepRuns ==
    /\ Spec /\ part = "reputation" => Rep!Spec
    /\ Spec /\ ~ (part = "reputation") => [] ~ (part = "reputation")
<1>1. Init /\ part = "reputation" => Rep!Init
  BY DEF Init
<1>2. part = "reputation" /\ [Next]_<< part, slots >> => [Rep!Next]_Rep!own
  BY DEF Next, slots, Rep!own
<1>3. part = "reputation" /\ [Next]_<< part, slots >> => (part = "reputation")'
  BY PartStays
<1>4. ~ (part = "reputation") /\ [Next]_<< part, slots >> => ~ (part = "reputation")'
  BY PartStays
<1> QED  BY <1>1, <1>2, <1>3, <1>4, PTL DEF Spec, Rep!Spec

LEMMA DashRuns ==
    /\ Spec /\ part = "dashboard" => Dash!Spec
    /\ Spec /\ ~ (part = "dashboard") => [] ~ (part = "dashboard")
<1>1. Init /\ part = "dashboard" => Dash!Init
  BY DEF Init
<1>2. part = "dashboard" /\ [Next]_<< part, slots >> => [Dash!Next]_Dash!vars
  BY DEF Next, slots, Dash!vars, Dash!own
<1>3. part = "dashboard" /\ [Next]_<< part, slots >> => (part = "dashboard")'
  BY PartStays
<1>4. ~ (part = "dashboard") /\ [Next]_<< part, slots >> => ~ (part = "dashboard")'
  BY PartStays
<1> QED  BY <1>1, <1>2, <1>3, <1>4, PTL DEF Spec, Dash!Spec

LEMMA KeepRuns ==
    /\ Spec /\ part = "retention" => Keep!Spec
    /\ Spec /\ ~ (part = "retention") => [] ~ (part = "retention")
<1>1. Init /\ part = "retention" => Keep!Init
  BY DEF Init
<1>2. part = "retention" /\ [Next]_<< part, slots >> => [Keep!Next]_Keep!vars
  BY DEF Next, slots, Keep!vars, Keep!own
<1>3. part = "retention" /\ [Next]_<< part, slots >> => (part = "retention")'
  BY PartStays
<1>4. ~ (part = "retention") /\ [Next]_<< part, slots >> => ~ (part = "retention")'
  BY PartStays
<1> QED  BY <1>1, <1>2, <1>3, <1>4, PTL DEF Spec, Keep!Spec

LEMMA BackupRuns ==
    /\ Spec /\ part = "backup" => Backup!Spec
    /\ Spec /\ ~ (part = "backup") => [] ~ (part = "backup")
<1>1. Init /\ part = "backup" => Backup!Init
  BY DEF Init
<1>2. part = "backup" /\ [Next]_<< part, slots >> => [Backup!Next]_Backup!own
  BY DEF Next, slots, Backup!own
<1>3. part = "backup" /\ [Next]_<< part, slots >> => (part = "backup")'
  BY PartStays
<1>4. ~ (part = "backup") /\ [Next]_<< part, slots >> => ~ (part = "backup")'
  BY PartStays
<1> QED  BY <1>1, <1>2, <1>3, <1>4, PTL DEF Spec, Backup!Spec
-----------------------------------------------------------------------------
(* Who calls: the module that proves, with the parameters and the slots of the parts. *)

Access == INSTANCE CallersProofs WITH
    Wallets <- auth.Wallets, Nonces <- auth.Nonces, Tokens <- auth.Tokens,
    SignIns <- auth.SignIns, Requests <- auth.Requests, CHALLENGE_TTL <- auth.CHALLENGE_TTL,
    SESSION_TTL <- auth.SESSION_TTL, SLIDE_THROTTLE <- auth.SLIDE_THROTTLE,
    MaxTransit <- auth.MaxTransit, MaxClock <- auth.MaxClock, clock <- v0, challenge <- v1,
    session <- v2, signIn <- v3, request <- v4, seen <- v5, gone <- v6, spent <- v7,
    Registrants <- registrar.Wallets, Messages <- registrar.Messages,
    Contacts <- registrar.Contacts, Posts <- registrar.Posts, Rates <- registrar.Rates,
    Availability <- registrar.Availability, MAX_MESSAGE_AGE_S <- registrar.MAX_MESSAGE_AGE_S,
    PURGE_S <- registrar.PURGE_S, CACHE_TTL_MS <- registrar.CACHE_TTL_MS,
    PostTransit <- registrar.MaxTransit, RegisterEnd <- registrar.MaxClock, index <- v1,
    message <- v2, used_nonces <- v3, humans <- v4, channel <- v5, cache <- v6,
    flagged <- v7, post <- v8, admitted <- v9,
    Ids <- mcp.Ids, Opens <- mcp.Opens, SESSION_TIMEOUT_MS <- mcp.SESSION_TIMEOUT_MS,
    MAX_SESSIONS <- mcp.MAX_SESSIONS, McpEnd <- mcp.MaxClock, sessions <- v1, count <- v2,
    open <- v3, closing <- v4, used <- v5, health <- v6,
    Backend <- limiter.Backend, Clients <- limiter.Clients,
    maxRequests <- limiter.maxRequests, windowMs <- limiter.windowMs,
    MaxPerTick <- limiter.MaxPerTick, MaxCount <- limiter.MaxCount,
    LimiterEnd <- limiter.MaxClock, entry <- v1, reply <- v2, passed <- v3,
    Bundles <- dashboard.Bundles, Passing <- dashboard.Passing,
    DELIVERY <- dashboard.DELIVERY, REVIEW <- dashboard.REVIEW,
    ARBITRATION <- dashboard.ARBITRATION, VERDICT_TTL <- dashboard.VERDICT_TTL,
    MaxSkew <- dashboard.MaxSkew,
    MaxPending <- dashboard.MaxPending, PageEnd <- dashboard.MaxClock, me <- v1, task <- v2,
    arbitrationClock <- v3, listed <- v4, cookie <- v5, gesture <- v6, page <- v7,
    view <- v8, fetching <- v9, action <- v10, mempool <- v11, draft <- v12

(* The parameters are what the proofs assume of them. *)
LEMMA CallersAgree ==
    /\ Access!Assumed
    /\ Access!RegAssumed
    /\ Access!McpAssumed
    /\ Access!LimitAssumed
    /\ Access!PageAssumed
<1>1. Access!Assumed
  BY ServicesAssumption DEF CallersAssumption, Auth!AuthAssumption, Access!Assumed,
     Access!AuthAssumption
<1>2. Access!RegAssumed
  BY ServicesAssumption DEF CallersAssumption, Access!RegAssumed
<1>3. Access!McpAssumed
  BY ServicesAssumption DEF CallersAssumption, Mcp!McpAssumption, Access!McpAssumed,
     Access!Mcp!McpAssumption, IsFiniteSet, Access!IsFiniteSet
<1>4. Access!LimitAssumed
  BY ServicesAssumption DEF CallersAssumption, Limiter!LimitAssumption, Access!LimitAssumed,
     Access!Limiter!LimitAssumption
<1>5. Access!PageAssumed
  BY ServicesAssumption DEF CallersAssumption, Access!PageAssumed
<1> QED  BY <1>1, <1>2, <1>3, <1>4, <1>5

LEMMA AuthAgrees ==
    /\ Auth!Spec <=> Access!Spec
    /\ []Auth!SignOutHolds <=> []Access!SignOutHolds
    /\ []Auth!UseKeepsAlive <=> []Access!UseKeepsAlive
BY DEF
  Auth!own, Auth!vars, Auth!SignIn, Auth!Scope, Auth!Pending, Auth!Answered, Auth!None,
  Auth!Purged, Auth!Present, Auth!Init, Auth!issue, Auth!readChallenge, Auth!verifySignature,
  Auth!consumeChallenge, Auth!mintSession, Auth!Live, Auth!Used, Auth!Answer, Auth!Proceed,
  Auth!verifySessionToken, Auth!slideSession, Auth!MayRevoke, Auth!revokeSessions,
  Auth!answered, Auth!Tick, Auth!SignInStep, Auth!RequestStep, Auth!Next, Auth!Spec,
  Auth!SignOutHolds, Auth!SessionProved, Auth!UseKeepsAlive, Access!own, Access!vars,
  Access!SignIn, Access!Scope, Access!Pending, Access!Answered, Access!None, Access!Purged,
  Access!Present, Access!Init, Access!issue, Access!readChallenge, Access!verifySignature,
  Access!consumeChallenge, Access!mintSession, Access!Live, Access!Used, Access!Answer,
  Access!Proceed, Access!verifySessionToken, Access!slideSession, Access!MayRevoke,
  Access!revokeSessions, Access!answered, Access!Tick, Access!SignInStep, Access!RequestStep,
  Access!Next, Access!Spec, Access!SignOutHolds, Access!SessionProved, Access!UseKeepsAlive

LEMMA RegisterAgrees ==
    /\ Register!Spec <=> Access!Register!Spec
    /\ []Register!AdmissionsAreEarned <=> []Access!Register!AdmissionsAreEarned
BY DEF
  Register!own, Register!vars, Register!Never, Register!NoRow, Register!NoChannel,
  Register!Unknown, Register!Unsigned, Register!NoPost, Register!Init, Register!sign,
  Register!flag, Register!restart, Register!Tick, Register!At, Register!Sender,
  Register!register, Register!Fresh, Register!Screened, Register!Remember,
  Register!isWalletSanctioned, Register!screenViaProvider, Register!purgeNonces,
  Register!existingNonce, Register!consumeNonce, Register!upsertHuman, Register!contactEmail,
  Register!registerFails, Register!PATCH, Register!Next, Register!Spec,
  Register!AdmissionsAreEarned, Access!Register!own, Access!Register!vars,
  Access!Register!Never, Access!Register!NoRow, Access!Register!NoChannel,
  Access!Register!Unknown, Access!Register!Unsigned, Access!Register!NoPost,
  Access!Register!Init, Access!Register!sign, Access!Register!flag, Access!Register!restart,
  Access!Register!Tick, Access!Register!At, Access!Register!Sender, Access!Register!register,
  Access!Register!Fresh, Access!Register!Screened, Access!Register!Remember,
  Access!Register!isWalletSanctioned, Access!Register!screenViaProvider,
  Access!Register!purgeNonces, Access!Register!existingNonce, Access!Register!consumeNonce,
  Access!Register!upsertHuman, Access!Register!contactEmail, Access!Register!registerFails,
  Access!Register!PATCH, Access!Register!Next, Access!Register!Spec,
  Access!Register!AdmissionsAreEarned

LEMMA McpAgrees ==
    /\ Mcp!Spec <=> Access!Mcp!Spec
    /\ []Mcp!CapacityBounded <=> []Access!Mcp!CapacityBounded
BY DEF
  Mcp!own, Mcp!vars, Mcp!Registered, Mcp!Init, Mcp!Idle, Mcp!purgeExpiredSessions, Mcp!existing,
  Mcp!post, Mcp!delete, Mcp!sessionClosed, Mcp!initialize, Mcp!verified, Mcp!connected,
  Mcp!sessionInitialized, Mcp!healthCheck, Mcp!Tick, Mcp!Next, Mcp!Spec, Mcp!Opening,
  Mcp!CapacityBounded, Mcp!Cardinality, Access!Mcp!own, Access!Mcp!vars, Access!Mcp!Registered,
  Access!Mcp!Init, Access!Mcp!Idle, Access!Mcp!purgeExpiredSessions, Access!Mcp!existing,
  Access!Mcp!post, Access!Mcp!delete, Access!Mcp!sessionClosed, Access!Mcp!initialize,
  Access!Mcp!verified, Access!Mcp!connected, Access!Mcp!sessionInitialized,
  Access!Mcp!healthCheck, Access!Mcp!Tick, Access!Mcp!Next, Access!Mcp!Spec, Access!Mcp!Opening,
  Access!Mcp!CapacityBounded, Access!Mcp!Cardinality

LEMMA LimiterAgrees ==
    /\ Limiter!Spec <=> Access!Limiter!Spec
    /\ []Limiter!MemoryWindow <=> []Access!Limiter!MemoryWindow
BY DEF
  Limiter!own, Limiter!vars, Limiter!Ticks, Limiter!None, Limiter!Init, Limiter!Admit,
  Limiter!limitInMemory, Limiter!limitUpstash, Limiter!upstashFails, Limiter!InBounds,
  Limiter!limit, Limiter!fails, Limiter!Tick, Limiter!Next, Limiter!Spec, Limiter!Passed,
  Limiter!MemoryWindow, Limiter!SumFunctionOnSet, Limiter!FoldFunctionOnSet,
  Limiter!MapThenFoldSet, Access!Limiter!own, Access!Limiter!vars, Access!Limiter!Ticks,
  Access!Limiter!None, Access!Limiter!Init, Access!Limiter!Admit, Access!Limiter!limitInMemory,
  Access!Limiter!limitUpstash, Access!Limiter!upstashFails, Access!Limiter!InBounds,
  Access!Limiter!limit, Access!Limiter!fails, Access!Limiter!Tick, Access!Limiter!Next,
  Access!Limiter!Spec, Access!Limiter!Passed, Access!Limiter!MemoryWindow,
  Access!Limiter!SumFunctionOnSet, Access!Limiter!FoldFunctionOnSet,
  Access!Limiter!MapThenFoldSet

LEMMA DashAgrees ==
    /\ Dash!Spec <=> Access!Page!Spec
    /\ []Dash!ClaimsAreOffered <=> []Access!Page!ClaimsAreOffered
    /\ []Dash!SentIsAccepted <=> []Access!Page!SentIsAccepted
BY DEF
  Dash!own, Dash!vars, Dash!None, Dash!NoTask, Dash!NoChain, Dash!Nothing, Dash!Idle,
  Dash!Keys, Dash!Init, Dash!Worker, Dash!Writes, Dash!Permits, Dash!PermitsAt, Dash!Now,
  Dash!Names, Dash!Becomes, Dash!Moved,
  Dash!Set, Dash!createTask, Dash!elsewhere, Dash!ruled, Dash!mined, Dash!rowStep,
  Dash!sessionEnds, Dash!Tick, Dash!Fetch, Dash!probeSession, Dash!handleSignIn,
  Dash!handleRevokeAllSessions, Dash!Listed, Dash!Known, Dash!fetchTasks, Dash!fetchFails,
  Dash!reload, Dash!InReview, Dash!Offered, Dash!Answers, Dash!Evidence, Dash!Acts, Dash!Shows,
  Dash!Given,
  Dash!edit, Dash!click, Dash!SignedIn, Dash!handleOfferResponse,
  Dash!handleDownloadAttestation, Dash!requestVerdict, Dash!actionFails, Dash!writeContract,
  Dash!recordDispute, Dash!Next, Dash!Spec, Dash!Claims, Dash!MayAt, Dash!Early,
  Dash!ClaimsAreOffered,
  Dash!Late, Dash!SentIsAccepted, Dash!Cardinality, Access!Page!own, Access!Page!vars,
  Access!Page!None, Access!Page!NoTask, Access!Page!NoChain, Access!Page!Nothing,
  Access!Page!Idle, Access!Page!Keys, Access!Page!Init, Access!Page!Worker,
  Access!Page!Writes, Access!Page!Permits, Access!Page!PermitsAt, Access!Page!Now,
  Access!Page!Names, Access!Page!Becomes, Access!Page!Moved,
  Access!Page!Set, Access!Page!createTask, Access!Page!elsewhere, Access!Page!ruled,
  Access!Page!mined, Access!Page!rowStep, Access!Page!sessionEnds, Access!Page!Tick,
  Access!Page!Fetch, Access!Page!probeSession, Access!Page!handleSignIn,
  Access!Page!handleRevokeAllSessions, Access!Page!Listed, Access!Page!Known,
  Access!Page!fetchTasks, Access!Page!fetchFails, Access!Page!reload, Access!Page!InReview,
  Access!Page!Offered, Access!Page!Answers, Access!Page!Evidence, Access!Page!Acts,
  Access!Page!Shows, Access!Page!Given,
  Access!Page!edit, Access!Page!click, Access!Page!SignedIn, Access!Page!handleOfferResponse,
  Access!Page!handleDownloadAttestation, Access!Page!requestVerdict, Access!Page!actionFails,
  Access!Page!writeContract, Access!Page!recordDispute, Access!Page!Next, Access!Page!Spec,
  Access!Page!Claims, Access!Page!MayAt, Access!Page!Early, Access!Page!ClaimsAreOffered,
  Access!Page!Late,
  Access!Page!SentIsAccepted, Access!Page!Cardinality

(***************************************************************************)
(* A wallet speaks for itself (session.ts, register/route.ts): for every   *)
(* number of sessions, requests, sign-outs and registrations under way and *)
(* every lifetime, as long as a message ages faster than nonces are purged.*)
(***************************************************************************)
THEOREM WalletsSpeakForThemselves == Spec => []IdentityHolds
<1>1. Spec /\ part = "auth" => [](Auth!SignOutHolds /\ Auth!UseKeepsAlive)
  BY CallersAgree, AuthRuns, AuthAgrees, Access!SignedOut, Access!StaysAlive, PTL
<1>2. Spec /\ part = "register" => []Register!AdmissionsAreEarned
  BY CallersAgree, RegisterRuns, RegisterAgrees, Access!Admissions, PTL
<1>3. IdentityHolds <=>
        /\ part = "auth" => Auth!SignOutHolds /\ Auth!UseKeepsAlive
        /\ part = "register" => Register!AdmissionsAreEarned
  BY DEF IdentityHolds
<1> QED  BY <1>1, <1>2, <1>3, AuthRuns, RegisterRuns, PTL

(***************************************************************************)
(* What is bounded stays bounded: the MCP sessions of an instance, though  *)
(* checked before an await and counted after it (basedhuman.mcp/route.ts), *)
(* and a client's requests, by the limit in one fixed window of the memory *)
(* back end and by twice that in any span as long (ratelimit.ts), for every*)
(* cap, limit, life and window.                                            *)
(***************************************************************************)
THEOREM LimitsAreKept == Spec => []LimitsHold
<1>1. Spec /\ part = "mcp" => []Mcp!CapacityBounded
  BY CallersAgree, McpRuns, McpAgrees, Access!CapacityTheorem, PTL
<1>2. Spec /\ part = "limiter" => []Limiter!MemoryWindow
  BY CallersAgree, LimiterRuns, LimiterAgrees, Access!WindowsLimit, PTL
<1>3. LimitsHold <=> /\ part = "mcp" => Mcp!CapacityBounded
                     /\ part = "limiter" => Limiter!MemoryWindow
  BY DEF LimitsHold
<1> QED  BY <1>1, <1>2, <1>3, McpRuns, LimiterRuns, PTL

(***************************************************************************)
(* The dashboard offers a claim as the contract grants it, up to how far   *)
(* the browser's clock is off block.timestamp, and a transaction it sends  *)
(* fails only to a race or for being early or late by at most that         *)
(* (dashboard/page.tsx): for every skew of the clocks, every deadline and  *)
(* every number of transactions under way.                                 *)
(***************************************************************************)
THEOREM PageAgreesHolds == Spec => []PageAgrees
<1>0. Access!Page!Spec => [](Access!Page!ClaimsAreOffered /\ Access!Page!SentIsAccepted)
  BY CallersAgree, Access!PageAgreesTheorem
<1>1. Spec /\ part = "dashboard" => [](Dash!ClaimsAreOffered /\ Dash!SentIsAccepted)
  BY <1>0, DashRuns, DashAgrees, PTL
<1>2. PageAgrees <=> (part = "dashboard" => Dash!ClaimsAreOffered /\ Dash!SentIsAccepted)
  BY DEF PageAgrees
<1> QED  BY <1>1, <1>2, DashRuns, PTL

(* The same, for the calls that prove a wallet. *)
Provers == INSTANCE CallersProofs WITH
    Wallets <- prove.Wallets, Nonces <- prove.Nonces, Tokens <- prove.Tokens,
    SignIns <- prove.SignIns, Requests <- prove.Requests,
    CHALLENGE_TTL <- prove.CHALLENGE_TTL, SESSION_TTL <- prove.SESSION_TTL,
    SLIDE_THROTTLE <- prove.SLIDE_THROTTLE, MaxTransit <- prove.MaxTransit,
    MaxClock <- prove.MaxClock, clock <- v0, challenge <- v1, session <- v2, signIn <- v3,
    request <- v4, seen <- v5, gone <- v6, spent <- v7,
    Registrants <- registrar.Wallets, Messages <- registrar.Messages,
    Contacts <- registrar.Contacts, Posts <- registrar.Posts, Rates <- registrar.Rates,
    Availability <- registrar.Availability, MAX_MESSAGE_AGE_S <- registrar.MAX_MESSAGE_AGE_S,
    PURGE_S <- registrar.PURGE_S, CACHE_TTL_MS <- registrar.CACHE_TTL_MS,
    PostTransit <- registrar.MaxTransit, RegisterEnd <- registrar.MaxClock, index <- v1,
    message <- v2, used_nonces <- v3, humans <- v4, channel <- v5, cache <- v6,
    flagged <- v7, post <- v8, admitted <- v9,
    Ids <- mcp.Ids, Opens <- mcp.Opens, SESSION_TIMEOUT_MS <- mcp.SESSION_TIMEOUT_MS,
    MAX_SESSIONS <- mcp.MAX_SESSIONS, McpEnd <- mcp.MaxClock, sessions <- v1, count <- v2,
    open <- v3, closing <- v4, used <- v5, health <- v6,
    Backend <- limiter.Backend, Clients <- limiter.Clients,
    maxRequests <- limiter.maxRequests, windowMs <- limiter.windowMs,
    MaxPerTick <- limiter.MaxPerTick, MaxCount <- limiter.MaxCount,
    LimiterEnd <- limiter.MaxClock, entry <- v1, reply <- v2, passed <- v3,
    Bundles <- dashboard.Bundles, Passing <- dashboard.Passing,
    DELIVERY <- dashboard.DELIVERY, REVIEW <- dashboard.REVIEW,
    ARBITRATION <- dashboard.ARBITRATION, VERDICT_TTL <- dashboard.VERDICT_TTL,
    MaxSkew <- dashboard.MaxSkew,
    MaxPending <- dashboard.MaxPending, PageEnd <- dashboard.MaxClock, me <- v1, task <- v2,
    arbitrationClock <- v3, listed <- v4, cookie <- v5, gesture <- v6, page <- v7,
    view <- v8, fetching <- v9, action <- v10, mempool <- v11, draft <- v12

LEMMA ProversAgree == Provers!Assumed
BY ServicesAssumption DEF CallersAssumption, Prove!AuthAssumption, Provers!Assumed,
   Provers!AuthAssumption

LEMMA ProveAgrees ==
    /\ Prove!Spec <=> Provers!Spec
    /\ [][Prove!SessionProved]_Prove!vars <=> [][Provers!SessionProved]_Provers!vars
BY DEF
  Prove!own, Prove!vars, Prove!SignIn, Prove!Scope, Prove!Pending, Prove!Answered, Prove!None,
  Prove!Purged, Prove!Present, Prove!Init, Prove!issue, Prove!readChallenge,
  Prove!verifySignature, Prove!consumeChallenge, Prove!mintSession, Prove!Live, Prove!Used,
  Prove!Answer, Prove!Proceed, Prove!verifySessionToken, Prove!slideSession, Prove!MayRevoke,
  Prove!revokeSessions, Prove!answered, Prove!Tick, Prove!SignInStep, Prove!RequestStep,
  Prove!Next, Prove!Spec, Prove!SignOutHolds, Prove!SessionProved, Prove!UseKeepsAlive,
  Provers!own, Provers!vars, Provers!SignIn, Provers!Scope, Provers!Pending, Provers!Answered,
  Provers!None, Provers!Purged, Provers!Present, Provers!Init, Provers!issue,
  Provers!readChallenge, Provers!verifySignature, Provers!consumeChallenge, Provers!mintSession,
  Provers!Live, Provers!Used, Provers!Answer, Provers!Proceed, Provers!verifySessionToken,
  Provers!slideSession, Provers!MayRevoke, Provers!revokeSessions, Provers!answered,
  Provers!Tick, Provers!SignInStep, Provers!RequestStep, Provers!Next, Provers!Spec,
  Provers!SignOutHolds, Provers!SessionProved, Provers!UseKeepsAlive

(***************************************************************************)
(* A session is given to the wallet that signed the challenge: the sign-in *)
(* of POST /api/auth/session, for every number of calls under way.         *)
(***************************************************************************)
THEOREM SessionsAreProved == Spec => SessionIsProved
<1>1. Spec /\ part = "prove" => [][Prove!SessionProved]_Prove!vars
  BY ProversAgree, ProveRuns, ProveAgrees, Provers!Proved, PTL
<1>2. part = "prove" /\ [Next]_<< part, slots >> /\ [Prove!SessionProved]_Prove!vars
        => [part = "prove" => Prove!SessionProved]_slots
  BY DEF Next, Kept, slots, Prove!vars, Prove!own
<1>3. part = "prove" /\ [Next]_<< part, slots >> => (part = "prove")'
  BY PartStays
<1>4. ~ (part = "prove") => [part = "prove" => Prove!SessionProved]_slots
  OBVIOUS
<1> QED  BY <1>1, <1>2, <1>3, <1>4, ProveRuns, PTL DEF Spec, SessionIsProved
-----------------------------------------------------------------------------
(* Evidence, what is signed about it, and what is read, kept and purged. *)

Records == INSTANCE RecordsProofs WITH
    TaskIds <- upload.TaskIds, Agents <- upload.Agents, Workers <- upload.Workers,
    Keys <- upload.Keys, NoKey <- upload.NoKey,
    WORKER_CONCURRENCY_CAP <- upload.WORKER_CONCURRENCY_CAP,
    IDEMPOTENCY_KEY_TTL <- upload.IDEMPOTENCY_KEY_TTL, MaxClock <- upload.MaxClock,
    Uploads <- upload.Uploads,
    PLATFORM_MAX_UPLOAD_BYTES <- upload.PLATFORM_MAX_UPLOAD_BYTES, Sizes <- upload.Sizes,
    UPLOAD_URL_TTL_SECONDS <- upload.UPLOAD_URL_TTL_SECONDS, clock <- v0, rows <- v1,
    bucket <- v2, hire <- v3, credential <- v4, onChain <- v5, upload <- v6, grants <- v7,
    Tasks <- attest.Tasks, Worker <- attest.Worker, Callers <- attest.Callers,
    Calls <- attest.Calls, Structs <- attest.Structs,
    VERIFIED_ATTEST_ENVELOPES <- attest.VERIFIED_ATTEST_ENVELOPES,
    MaxNonce <- attest.MaxNonce, MaxUpgrades <- attest.MaxUpgrades, escrow <- v1, eas <- v2,
    call <- v3, offchain <- v4, published <- v5,
    ToolCalls <- tools.Calls, DELIVERY <- tools.DELIVERY, ToolsEnd <- tools.MaxClock,
    chain <- v1, taskRow <- v2, passes <- v3, asked <- v4,
    Escrowed <- client.Tasks, Reads <- client.Reads, Mine <- client.Mine,
    RPC_MAX_BLOCK_RANGE <- client.RPC_MAX_BLOCK_RANGE,
    ESCROW_DEPLOY_BLOCK <- client.ESCROW_DEPLOY_BLOCK, MaxBlock <- client.MaxBlock,
    HEAD_LAG <- client.HEAD_LAG, Routes <- client.Routes, blocks <- v1, legacy <- v2,
    read <- v3,
    Rows <- reputation.Tasks, Readers <- reputation.Readers,
    states <- v1, age <- v2, scored <- v3,
    Prunes <- retention.Prunes, DISPUTE_WINDOW_SECONDS <- retention.DISPUTE_WINDOW_SECONDS,
    PRUNE_BATCH_LIMIT <- retention.PRUNE_BATCH_LIMIT,
    updatedAt <- v2, content <- v3, deletions <- v4, prune <- v5,
    Specs <- accept.Specs, Bundles <- accept.Bundles, FundedAt <- accept.FundedAt,
    ConfirmedAt <- accept.ConfirmedAt, MAX_ARTIFACTS <- accept.MAX_ARTIFACTS, offer <- v1,
    state <- v2, committed <- v3, fundedAt <- v4, reply <- v5, signed <- v6, specHash <- v7,
    SECP256K1_ORDER <- kms.SECP256K1_ORDER, Digests <- kms.Digests, Signers <- kms.Callers,
    BYTE <- kms.BYTE, key <- v1, address <- v2, account <- v3, signing <- v4,
    TIER1_TABLES <- backup.TIER1_TABLES, Deletable <- backup.Deletable, Ids <- backup.Ids,
    EXPORT_PAGE_SIZE <- backup.EXPORT_PAGE_SIZE, Runs <- backup.Runs,
    Minutes <- backup.Minutes, MaxChanges <- backup.MaxChanges, db <- v1, missing <- v2,
    specs <- v3, vault <- v4, run <- v5, changes <- v6

(* The parameters are what the proofs assume of them. *)
LEMMA RecordsAgree ==
    /\ Records!Assumed /\ tools.DELIVERY \in Nat
    /\ Records!ClientAssumed
    /\ Records!IsFiniteSet(reputation.Tasks)
    /\ Records!Judge!InputAssumption
    /\ Records!Kms!GroupAssumption
    /\ Records!Backup!BackupAssumption
<1>1. Records!Assumed /\ tools.DELIVERY \in Nat
  BY ServicesAssumption DEF RecordsAssumption, Records!Assumed
<1>2. Records!ClientAssumed
  BY ServicesAssumption DEF RecordsAssumption, Records!ClientAssumed
<1>3. Records!IsFiniteSet(reputation.Tasks)
  BY ServicesAssumption DEF RecordsAssumption, IsFiniteSet, Records!IsFiniteSet
<1>4. Records!Judge!InputAssumption
  BY ServicesAssumption DEF RecordsAssumption, Accept!InputAssumption, Accept!Criteria,
     Accept!Artefact, Accept!Optional, Records!Judge!InputAssumption, Records!Judge!Criteria,
     Records!Judge!Artefact, Records!Judge!Optional
<1>5. Records!Kms!GroupAssumption
  BY ServicesAssumption DEF RecordsAssumption, Kms!GroupAssumption, Records!Kms!GroupAssumption
<1>6. Records!Backup!BackupAssumption
  BY ServicesAssumption DEF RecordsAssumption, Backup!BackupAssumption, Backup!Tables,
     Backup!Manifest, Backup!Range, Backup!IsInjective, Backup!IsFiniteSet,
     Records!Backup!BackupAssumption, Records!Backup!Tables, Records!Backup!Manifest,
     Records!Backup!Range, Records!Backup!IsInjective, Records!Backup!IsFiniteSet
<1> QED  BY <1>1, <1>2, <1>3, <1>4, <1>5, <1>6

LEMMA AcceptAgrees ==
    /\ Accept!Spec <=> Records!Judge!Spec
    /\ []Accept!VerdictsAreEarned <=> []Records!Judge!VerdictsAreEarned
BY DEF
  Accept!own, Accept!vars, Accept!NoSpec, Accept!Refused, Accept!Pending, Accept!Offered,
  Accept!BadHex, Accept!FundingTime, Accept!AcceptanceSpecV1, Accept!parseAndHashSpec,
  Accept!hasNoCriteria, Accept!formatCriteria, Accept!parseSpecForDisplay, Accept!gpsWithin,
  Accept!parseTimestamp, Accept!capturedAfter, Accept!hammingHex, Accept!WithinCap,
  Accept!Comparable, Accept!phashWithinCap, Accept!evaluateV1, Accept!evaluateEvidence,
  Accept!parseAndHashEvidenceBundle, Accept!Init, Accept!intake, Accept!submitWork,
  Accept!settle, Accept!Told, Accept!Sign, Accept!computeAndSignVerdict, Accept!verdictPOST,
  Accept!Next, Accept!Spec, Accept!Keeps, Accept!Kept, Accept!VerdictsAreEarned, Accept!Cardinality,
  Records!Judge!own, Records!Judge!vars, Records!Judge!NoSpec, Records!Judge!Refused,
  Records!Judge!Pending, Records!Judge!Offered, Records!Judge!BadHex,
  Records!Judge!FundingTime, Records!Judge!AcceptanceSpecV1, Records!Judge!parseAndHashSpec,
  Records!Judge!hasNoCriteria, Records!Judge!formatCriteria,
  Records!Judge!parseSpecForDisplay, Records!Judge!gpsWithin, Records!Judge!parseTimestamp,
  Records!Judge!capturedAfter, Records!Judge!hammingHex, Records!Judge!WithinCap,
  Records!Judge!Comparable, Records!Judge!phashWithinCap, Records!Judge!evaluateV1,
  Records!Judge!evaluateEvidence, Records!Judge!parseAndHashEvidenceBundle,
  Records!Judge!Init, Records!Judge!intake, Records!Judge!submitWork, Records!Judge!settle,
  Records!Judge!Told, Records!Judge!Sign, Records!Judge!computeAndSignVerdict,
  Records!Judge!verdictPOST, Records!Judge!Next, Records!Judge!Spec, Records!Judge!Keeps,
  Records!Judge!Kept,
  Records!Judge!VerdictsAreEarned, Records!Judge!Cardinality

LEMMA UploadAgrees ==
    /\ Upload!Spec <=> Records!Spec
    /\ []Upload!GrantsAreDue <=> []Records!GrantsAreDue
BY DEF
  Upload!TaskStatus, Upload!Terminal, Upload!Row, Upload!NoRow, Upload!Exists, Upload!TableInit,
  Upload!Tick, Upload!findTaskByIdempotencyKey, Upload!Committed, Upload!countCommittedTasks,
  Upload!CompareAndSet, Upload!VALID_TRANSITIONS, Upload!updateTaskStatus, Upload!acceptTask,
  Upload!markTaskFunded, Upload!PastExpiry, Upload!lapseExpiredOffers, Upload!KeyTaken,
  Upload!createTask, Upload!own, Upload!vars, Upload!Providers, Upload!Places, Upload!Bucket,
  Upload!NoBucket, Upload!NoCall, Upload!Init, Upload!Smaller, Upload!resolveBucketLocation,
  Upload!checkUploadRequest, Upload!hireInsert, Upload!encryptCredential,
  Upload!storeUploadCredential, Upload!hireFails, Upload!Dropping,
  Upload!drop_upload_credential_on_terminal, Upload!taskStep, Upload!chainStep, Upload!Final,
  Upload!uploadTask, Upload!getUploadCredential, Upload!uploadChain, Upload!presignUrl,
  Upload!uploadFails, Upload!clockStep, Upload!HireStep, Upload!UploadStep, Upload!Next,
  Upload!Spec, Upload!GrantsAreDue, Records!TaskStatus, Records!Terminal, Records!Row,
  Records!NoRow, Records!Exists, Records!TableInit, Records!Tick,
  Records!findTaskByIdempotencyKey, Records!Committed, Records!countCommittedTasks,
  Records!CompareAndSet, Records!VALID_TRANSITIONS, Records!updateTaskStatus,
  Records!acceptTask, Records!markTaskFunded, Records!PastExpiry, Records!lapseExpiredOffers,
  Records!KeyTaken, Records!createTask, Records!own, Records!vars, Records!Providers,
  Records!Places, Records!Bucket, Records!NoBucket, Records!NoCall, Records!Init,
  Records!Smaller, Records!resolveBucketLocation, Records!checkUploadRequest,
  Records!hireInsert, Records!encryptCredential, Records!storeUploadCredential,
  Records!hireFails, Records!Dropping, Records!drop_upload_credential_on_terminal,
  Records!taskStep, Records!chainStep, Records!Final, Records!uploadTask,
  Records!getUploadCredential, Records!uploadChain, Records!presignUrl, Records!uploadFails,
  Records!clockStep, Records!HireStep, Records!UploadStep, Records!Next, Records!Spec,
  Records!GrantsAreDue

LEMMA KmsAgrees ==
    /\ Kms!Spec <=> Records!Kms!Spec
    /\ []Kms!SignaturesAreTheSigners <=> []Records!Kms!SignaturesAreTheSigners
BY DEF
  Kms!own, Kms!Scalars, Kms!Resting, Kms!Mod, Kms!Neg, Kms!Inv, Kms!XOf, Kms!Init, Kms!Bytes,
  Kms!Der, Kms!ValueOf, Kms!subarray, Kms!NoDer, Kms!parseDerSignature, Kms!normalizeSValue,
  Kms!recoverAddress, Kms!derToEthSignature, Kms!Signatures, Kms!Answer, Kms!To,
  Kms!getPlatformAccount, Kms!getEthAddressFromKms, Kms!createKmsAccount, Kms!kmsSign,
  Kms!kmsFails, Kms!rotate, Kms!coldStart, Kms!Next, Kms!Spec, Kms!Verifies,
  Kms!SignaturesAreTheSigners, Kms!FoldLeft, Kms!MapThenFoldSet, Kms!Max, Kms!Front,
  Records!Kms!own, Records!Kms!Scalars, Records!Kms!Resting, Records!Kms!Mod,
  Records!Kms!Neg, Records!Kms!Inv, Records!Kms!XOf, Records!Kms!Init, Records!Kms!Bytes,
  Records!Kms!Der, Records!Kms!ValueOf, Records!Kms!subarray, Records!Kms!NoDer,
  Records!Kms!parseDerSignature, Records!Kms!normalizeSValue, Records!Kms!recoverAddress,
  Records!Kms!derToEthSignature, Records!Kms!Signatures, Records!Kms!Answer, Records!Kms!To,
  Records!Kms!getPlatformAccount, Records!Kms!getEthAddressFromKms,
  Records!Kms!createKmsAccount, Records!Kms!kmsSign, Records!Kms!kmsFails,
  Records!Kms!rotate, Records!Kms!coldStart, Records!Kms!Next, Records!Kms!Spec,
  Records!Kms!Verifies, Records!Kms!SignaturesAreTheSigners, Records!Kms!FoldLeft,
  Records!Kms!MapThenFoldSet, Records!Kms!Max, Records!Kms!Front

LEMMA AttestAgrees ==
    /\ Attest!Spec <=> Records!Attest!Spec
    /\ []Attest!OneCompletionOneRecord <=> []Records!Attest!OneCompletionOneRecord
BY DEF
  Attest!own, Attest!Zero, Attest!Idle, Attest!Fresh, Attest!ContractRoutes,
  Attest!CompletionRoute, Attest!Init, Attest!submitWork, Attest!recordVerdict, Attest!pay,
  Attest!refund, Attest!upgrade, Attest!Goes, Attest!request, Attest!readTask,
  Attest!loadCompletedTask, Attest!completionRecord, Attest!resolveEnvelope,
  Attest!readEasInputs, Attest!signCompletionAttestation, Attest!signDelegatedCompletionRequest,
  Attest!dropped, Attest!attestByDelegation, Attest!Next, Attest!Spec, Attest!Signed,
  Attest!OneCompletionOneRecord, Records!Attest!own, Records!Attest!Zero, Records!Attest!Idle,
  Records!Attest!Fresh, Records!Attest!ContractRoutes, Records!Attest!CompletionRoute,
  Records!Attest!Init, Records!Attest!submitWork, Records!Attest!recordVerdict,
  Records!Attest!pay, Records!Attest!refund, Records!Attest!upgrade, Records!Attest!Goes,
  Records!Attest!request, Records!Attest!readTask, Records!Attest!loadCompletedTask,
  Records!Attest!completionRecord, Records!Attest!resolveEnvelope, Records!Attest!readEasInputs,
  Records!Attest!signCompletionAttestation, Records!Attest!signDelegatedCompletionRequest,
  Records!Attest!dropped, Records!Attest!attestByDelegation, Records!Attest!Next,
  Records!Attest!Spec, Records!Attest!Signed, Records!Attest!OneCompletionOneRecord

LEMMA ToolsAgrees ==
    /\ Tools!Spec <=> Records!Tools!Spec
    /\ []Tools!AnswersHold <=> []Records!Tools!AnswersHold
BY DEF
  Tools!own, Tools!vars, Tools!Parties, Tools!Idle, Tools!Unread, Tools!Init, Tools!escrowStep,
  Tools!rowStep, Tools!Tick, Tools!Goes, Tools!toolAnswer, Tools!toolError, Tools!Authorized,
  Tools!Open, Tools!invoke, Tools!unauthenticated, Tools!getTaskByPaymentId,
  Tools!getOnChainTask, Tools!fails, Tools!reclaim, Tools!get_task_status,
  Tools!confirm_task_completion, Tools!computeAndSignVerdict, Tools!Records,
  Tools!get_signed_verdict, Tools!dispute_task, Tools!updateTaskStatus, Tools!write, Tools!Next,
  Tools!Spec, Tools!AnswersHold, Records!Tools!own, Records!Tools!vars, Records!Tools!Parties,
  Records!Tools!Idle, Records!Tools!Unread, Records!Tools!Init, Records!Tools!escrowStep,
  Records!Tools!rowStep, Records!Tools!Tick, Records!Tools!Goes, Records!Tools!toolAnswer,
  Records!Tools!toolError, Records!Tools!Authorized, Records!Tools!Open, Records!Tools!invoke,
  Records!Tools!unauthenticated, Records!Tools!getTaskByPaymentId, Records!Tools!getOnChainTask,
  Records!Tools!fails, Records!Tools!reclaim, Records!Tools!get_task_status,
  Records!Tools!confirm_task_completion, Records!Tools!computeAndSignVerdict,
  Records!Tools!Records, Records!Tools!get_signed_verdict, Records!Tools!dispute_task,
  Records!Tools!updateTaskStatus, Records!Tools!write, Records!Tools!Next, Records!Tools!Spec,
  Records!Tools!AnswersHold

LEMMA ClientAgrees ==
    /\ Client!Spec <=> Records!Client!Spec
    /\ []Client!AnswersAreTrue <=> []Records!Client!AnswersAreTrue
BY DEF
  Client!own, Client!Kinds, Client!PaidBy, Client!Ended, Client!Blocks, Client!Operations,
  Client!Listings, Client!NoAnswer, Client!Null, Client!Events, Client!StateAt, Client!StateNow,
  Client!Init, Client!mine, Client!Smallest, Client!windows, Client!Logs, Client!Call,
  Client!Answered, Client!Scans, Client!begin, Client!Summary, Client!readTaskStruct,
  Client!getBlockNumber, Client!getLogs, Client!scanned, Client!fails, Client!taken,
  Client!Next, Client!Spec, Client!Sought, Client!AnswersAreTrue, Client!Reverse,
  Records!Client!own, Records!Client!Kinds, Records!Client!PaidBy, Records!Client!Ended,
  Records!Client!Blocks, Records!Client!Operations, Records!Client!Listings,
  Records!Client!NoAnswer, Records!Client!Null, Records!Client!Events, Records!Client!StateAt,
  Records!Client!StateNow, Records!Client!Init, Records!Client!mine, Records!Client!Smallest,
  Records!Client!windows, Records!Client!Logs, Records!Client!Call, Records!Client!Answered,
  Records!Client!Scans, Records!Client!begin, Records!Client!Summary,
  Records!Client!readTaskStruct, Records!Client!getBlockNumber, Records!Client!getLogs,
  Records!Client!scanned, Records!Client!fails, Records!Client!taken, Records!Client!Next,
  Records!Client!Spec, Records!Client!Sought, Records!Client!AnswersAreTrue,
  Records!Client!Reverse

LEMMA RepAgrees ==
    /\ Rep!Spec <=> Records!Rep!Spec
    /\ [][Rep!ScoreFollows]_Rep!own <=> [][Records!Rep!ScoreFollows]_Records!Rep!own
<1>1. \A s : Rep!computeReputation(s) = Records!Rep!computeReputation(s)
  BY DEF
    Rep!Clamp, Rep!completionPoints, Rep!volumePoints, Rep!recencyPoints,
    Rep!computeReputation, Records!Rep!Clamp, Records!Rep!completionPoints,
    Records!Rep!volumePoints, Records!Rep!recencyPoints, Records!Rep!computeReputation
<1>2. \A known, done, held : Rep!Summary(known, done, held) = Records!Rep!Summary(known, done, held)
  BY DEF Rep!Summary, Rep!Cardinality, Records!Rep!Summary, Records!Rep!Cardinality
<1>3. /\ Rep!onChainSummary = Records!Rep!onChainSummary
      /\ \A status : Rep!databaseSummary(status) = Records!Rep!databaseSummary(status)
  BY <1>2, Zenon DEF Rep!onChainSummary, Rep!databaseSummary, Records!Rep!onChainSummary,
                     Records!Rep!databaseSummary
<1>4. Rep!Init <=> Records!Rep!Init
  BY DEF Rep!Init, Rep!Nothing, Records!Rep!Init, Records!Rep!Nothing
<1>5. \A r, f : Rep!Calls(r, f) <=> Records!Rep!Calls(r, f)
  BY DEF Rep!Calls, Records!Rep!Calls
<1>6. \A r, source, s, read :
        Rep!Answers(r, source, s, read) <=> Records!Rep!Answers(r, source, s, read)
  BY <1>1, <1>5, Zenon DEF Rep!Answers, Records!Rep!Answers
<1>7. \A r : Rep!multicall(r) <=> Records!Rep!multicall(r)
  BY <1>3, <1>5, <1>6, Zenon DEF Rep!multicall, Records!Rep!multicall
<1>8. \A r : Rep!fallback(r) <=> Records!Rep!fallback(r)
  <2>1. \A state : Rep!Statuses(state) = Records!Rep!Statuses(state)
    BY DEF Rep!Statuses, Records!Rep!Statuses
  <2> QED  BY <1>3, <1>5, <1>6, <2>1, Zenon DEF Rep!fallback, Records!Rep!fallback
<1>9. \A r : Rep!getTasksByWallet(r) <=> Records!Rep!getTasksByWallet(r)
  BY <1>5, Zenon DEF Rep!getTasksByWallet, Records!Rep!getTasksByWallet
<1>10. /\ \A t, to : Rep!escrowStep(t, to) <=> Records!Rep!escrowStep(t, to)
       /\ \A t : Rep!getsOlder(t) <=> Records!Rep!getsOlder(t)
  BY DEF Rep!escrowStep, Rep!getsOlder, Rep!Moves, Records!Rep!escrowStep, Records!Rep!getsOlder,
         Records!Rep!Moves
<1>11. Rep!Moves = Records!Rep!Moves
  BY DEF Rep!Moves, Records!Rep!Moves
<1>12. Rep!Next <=> Records!Rep!Next
  BY <1>7, <1>8, <1>9, <1>10, <1>11, Zenon DEF Rep!Next, Records!Rep!Next
<1>13. [Rep!Next]_Rep!own <=> [Records!Rep!Next]_Records!Rep!own
  BY <1>12, Zenon DEF Rep!own, Records!Rep!own
<1>14. /\ \A a : Rep!Counted(a) = Records!Rep!Counted(a)
       /\ \A a, b, t : Rep!NoWorse(a, b, t) <=> Records!Rep!NoWorse(a, b, t)
  BY DEF Rep!Counted, Rep!NoWorse, Rep!For, Rep!Against, Records!Rep!Counted,
         Records!Rep!NoWorse, Records!Rep!For, Records!Rep!Against
<1>15. Rep!ScoreFollows <=> Records!Rep!ScoreFollows
  BY <1>14, Zenon DEF Rep!ScoreFollows, Rep!Nothing, Records!Rep!ScoreFollows, Records!Rep!Nothing
<1>16. [Rep!ScoreFollows]_Rep!own <=> [Records!Rep!ScoreFollows]_Records!Rep!own
  BY <1>15, Zenon DEF Rep!own, Records!Rep!own
<1> QED  BY <1>4, <1>13, <1>16, PTL DEF Rep!Spec, Records!Rep!Spec

LEMMA BackupAgrees ==
    /\ Backup!Spec <=> Records!Backup!Spec
    /\ []Backup!BackupIsWhole <=> []Records!Backup!BackupIsWhole
BY DEF
  Backup!own, Backup!Tables, Backup!Manifest, Backup!NoObject, Backup!Waiting,
  Backup!FORBIDDEN_COLUMNS, Backup!EXCLUDED_TABLES, Backup!buildManifest,
  Backup!NotYet, Backup!Init, Backup!Active, Backup!insert,
  Backup!delete, Backup!Goes, Backup!assertSpecCompliance, Backup!begin, Backup!TableOf,
  Backup!Recorded, Backup!Sorted, Backup!FirstOf, Backup!nextPage, Backup!fetchAllRows,
  Backup!Store, Backup!Body, Backup!putObject, Backup!getObject, Backup!tableFails,
  Backup!Whole, Backup!ManifestOf, Backup!putManifest, Backup!Ended, Backup!getManifest,
  Backup!manifestFails, Backup!crash, Backup!Next, Backup!Spec, Backup!Alone,
  Backup!BackupIsWhole, Backup!Range, Backup!Last, Backup!IsInjective, Backup!Cardinality,
  Records!Backup!own, Records!Backup!Tables, Records!Backup!Manifest,
  Records!Backup!NoObject, Records!Backup!Waiting,
  Records!Backup!FORBIDDEN_COLUMNS, Records!Backup!EXCLUDED_TABLES, Records!Backup!buildManifest,
  Records!Backup!NotYet, Records!Backup!Init, Records!Backup!Active, Records!Backup!insert,
  Records!Backup!delete, Records!Backup!Goes, Records!Backup!assertSpecCompliance,
  Records!Backup!begin, Records!Backup!TableOf, Records!Backup!Recorded,
  Records!Backup!Sorted, Records!Backup!FirstOf, Records!Backup!nextPage,
  Records!Backup!fetchAllRows, Records!Backup!Store, Records!Backup!Body,
  Records!Backup!putObject, Records!Backup!getObject, Records!Backup!tableFails,
  Records!Backup!Whole, Records!Backup!ManifestOf, Records!Backup!putManifest,
  Records!Backup!Ended, Records!Backup!getManifest, Records!Backup!manifestFails,
  Records!Backup!crash, Records!Backup!Next, Records!Backup!Spec, Records!Backup!Alone,
  Records!Backup!BackupIsWhole, Records!Backup!Range, Records!Backup!Last,
  Records!Backup!IsInjective, Records!Backup!Cardinality

(***************************************************************************)
(* Upload URLs are for the task's worker, to the storage its agent         *)
(* registered, within the agent's cap and the platform's, before the end of*)
(* the work (evidence/upload-url/route.ts).                                *)
(***************************************************************************)
THEOREM UploadsAreDue == Spec => []GrantsAreDue
<1>0. Records!Spec => []Records!GrantsAreDue
  BY RecordsAgree, ServicesAssumption, Records!GrantsTheorem
     DEF RecordsAssumption, Upload!TableAssumption
<1>1. Spec /\ part = "upload" => []Upload!GrantsAreDue
  BY <1>0, UploadRuns, UploadAgrees, PTL
<1>2. GrantsAreDue <=> (part = "upload" => Upload!GrantsAreDue)
  BY DEF GrantsAreDue
<1> QED  BY <1>1, <1>2, UploadRuns, PTL

(***************************************************************************)
(* What the platform signs is what the evidence and the spec say, and is a *)
(* signature of the platform's own key (verdict-service.ts, kms-signer.ts):*)
(* for every spec, bundle and caller, and every group of odd prime order.  *)
(***************************************************************************)
THEOREM SignaturesHold == Spec => []SignaturesAreEarned
<1>a. Records!Judge!Spec => []Records!Judge!VerdictsAreEarned
  BY RecordsAgree, ServicesAssumption, Records!VerdictsTheorem
     DEF RecordsAssumption, Upload!TableAssumption
<1>b. Records!Kms!Spec => []Records!Kms!SignaturesAreTheSigners
  BY RecordsAgree, ServicesAssumption, Records!SignaturesTheorem
     DEF RecordsAssumption, Upload!TableAssumption
<1>1. Spec /\ part = "accept" => []Accept!VerdictsAreEarned
  BY <1>a, AcceptRuns, AcceptAgrees, PTL
<1>2. Spec /\ part = "kms" => []Kms!SignaturesAreTheSigners
  BY <1>b, KmsRuns, KmsAgrees, PTL
<1>3. SignaturesAreEarned <=>
        /\ part = "accept" => Accept!VerdictsAreEarned
        /\ part = "kms" => Kms!SignaturesAreTheSigners
  BY DEF SignaturesAreEarned
<1> QED  BY <1>1, <1>2, <1>3, AcceptRuns, KmsRuns, PTL

(***************************************************************************)
(* What is read from the chain in windows and in steps is what one moment  *)
(* of the chain says, up to the blocks the head is behind (escrow.ts), and *)
(* so is the one record of a completion that is attested (lib/attestation);*)
(* what a tool told an agent of a task stays true (mcp/server.ts): for     *)
(* every number of tasks and calls and every lag of the head.              *)
(***************************************************************************)
THEOREM RecordsAreTrueHolds == Spec => []RecordsAreTrue
<1>a. Records!Tools!Spec => []Records!Tools!AnswersHold
  BY RecordsAgree, ServicesAssumption, Records!ToldForGood
     DEF RecordsAssumption, Upload!TableAssumption
<1>b. Records!Client!Spec => []Records!Client!AnswersAreTrue
  BY RecordsAgree, ServicesAssumption, Records!AnswersTheorem
     DEF RecordsAssumption, Upload!TableAssumption
<1>c. Records!Attest!Spec => []Records!Attest!OneCompletionOneRecord
  BY ServicesAssumption, Records!Attested DEF RecordsAssumption, Upload!TableAssumption
<1>1. Spec /\ part = "tools" => []Tools!AnswersHold
  BY <1>a, ToolsRuns, ToolsAgrees, PTL
<1>2. Spec /\ part = "client" => []Client!AnswersAreTrue
  BY <1>b, ClientRuns, ClientAgrees, PTL
<1>3. Spec /\ part = "attest" => []Attest!OneCompletionOneRecord
  BY <1>c, AttestRuns, AttestAgrees, PTL
<1>4. RecordsAreTrue <=>
        /\ part = "tools" => Tools!AnswersHold
        /\ part = "client" => Client!AnswersAreTrue
        /\ part = "attest" => Attest!OneCompletionOneRecord
  BY DEF RecordsAreTrue
<1> QED  BY <1>1, <1>2, <1>3, <1>4, ToolsRuns, ClientRuns, AttestRuns, PTL

(***************************************************************************)
(* No answer about a worker, from the chain or from the table, gives a     *)
(* lower score than an earlier one about the same tasks, unless one of them*)
(* is by then disputed or ruled on, or a completion is of an earlier month;*)
(* and none a higher one for a dispute (reputation/index.ts, compute.ts):  *)
(* for every number of tasks and of readers.                               *)
(***************************************************************************)
THEOREM ScoresFollowConduct == Spec => ScoreFollowsConduct
<1>0. Records!Rep!Spec => [][Records!Rep!ScoreFollows]_Records!Rep!own
  BY RecordsAgree, ServicesAssumption, Records!ScoresFollow
     DEF RecordsAssumption, Upload!TableAssumption
<1>1. Spec /\ part = "reputation" => [][Rep!ScoreFollows]_Rep!own
  BY <1>0, RepRuns, RepAgrees, PTL
<1>2. part = "reputation" /\ [Next]_<< part, slots >> /\ [Rep!ScoreFollows]_Rep!own
        => [part = "reputation" => Rep!ScoreFollows]_slots
  BY DEF Next, Kept, slots, Rep!own
<1>3. part = "reputation" /\ [Next]_<< part, slots >> => (part = "reputation")'
  BY PartStays
<1>4. ~ (part = "reputation") => [part = "reputation" => Rep!ScoreFollows]_slots
  OBVIOUS
<1> QED  BY <1>1, <1>2, <1>3, <1>4, RepRuns, PTL DEF Spec, ScoreFollowsConduct

(***************************************************************************)
(* A run that says it is whole, and had its minute to itself, has in its   *)
(* backup every row that was there throughout, once; no object has a       *)
(* forbidden column (backup-export.ts), for every number of tables, rows,  *)
(* runs and changes and every page size.                                   *)
(***************************************************************************)
THEOREM BackupsAreWhole == Spec => []BackupIsWhole
<1>0. Records!Backup!Spec => []Records!Backup!BackupIsWhole
  BY RecordsAgree, ServicesAssumption, Records!BackupTheorem
     DEF RecordsAssumption, Upload!TableAssumption
<1>1. Spec /\ part = "backup" => []Backup!BackupIsWhole
  BY <1>0, BackupRuns, BackupAgrees, PTL
<1>2. BackupIsWhole <=> (part = "backup" => Backup!BackupIsWhole)
  BY DEF BackupIsWhole
<1> QED  BY <1>1, <1>2, BackupRuns, PTL

(* The same, on the table that the retention prunes. *)
Pruned == INSTANCE RecordsProofs WITH
    TaskIds <- retention.TaskIds, Agents <- retention.Agents, Workers <- retention.Workers,
    Keys <- retention.Keys, NoKey <- retention.NoKey,
    WORKER_CONCURRENCY_CAP <- retention.WORKER_CONCURRENCY_CAP,
    IDEMPOTENCY_KEY_TTL <- retention.IDEMPOTENCY_KEY_TTL, MaxClock <- retention.MaxClock,
    Prunes <- retention.Prunes, DISPUTE_WINDOW_SECONDS <- retention.DISPUTE_WINDOW_SECONDS,
    PRUNE_BATCH_LIMIT <- retention.PRUNE_BATCH_LIMIT, clock <- v0, rows <- v1,
    updatedAt <- v2, content <- v3, deletions <- v4, prune <- v5,
    Tasks <- attest.Tasks, Worker <- attest.Worker, Callers <- attest.Callers,
    Calls <- attest.Calls, Structs <- attest.Structs,
    VERIFIED_ATTEST_ENVELOPES <- attest.VERIFIED_ATTEST_ENVELOPES,
    MaxNonce <- attest.MaxNonce, MaxUpgrades <- attest.MaxUpgrades, escrow <- v1, eas <- v2,
    call <- v3, offchain <- v4, published <- v5,
    ToolCalls <- tools.Calls, DELIVERY <- tools.DELIVERY, ToolsEnd <- tools.MaxClock,
    chain <- v1, taskRow <- v2, passes <- v3, asked <- v4,
    Escrowed <- client.Tasks, Reads <- client.Reads, Mine <- client.Mine,
    RPC_MAX_BLOCK_RANGE <- client.RPC_MAX_BLOCK_RANGE,
    ESCROW_DEPLOY_BLOCK <- client.ESCROW_DEPLOY_BLOCK, MaxBlock <- client.MaxBlock,
    HEAD_LAG <- client.HEAD_LAG, Routes <- client.Routes, blocks <- v1, legacy <- v2,
    read <- v3,
    Rows <- reputation.Tasks, Readers <- reputation.Readers,
    states <- v1, age <- v2, scored <- v3,
    Uploads <- upload.Uploads, PLATFORM_MAX_UPLOAD_BYTES <- upload.PLATFORM_MAX_UPLOAD_BYTES,
    Sizes <- upload.Sizes, UPLOAD_URL_TTL_SECONDS <- upload.UPLOAD_URL_TTL_SECONDS,
    bucket <- v2, hire <- v3, credential <- v4, onChain <- v5, upload <- v6, grants <- v7,
    Specs <- accept.Specs, Bundles <- accept.Bundles, FundedAt <- accept.FundedAt,
    ConfirmedAt <- accept.ConfirmedAt, MAX_ARTIFACTS <- accept.MAX_ARTIFACTS, offer <- v1,
    state <- v2, committed <- v3, fundedAt <- v4, reply <- v5, signed <- v6, specHash <- v7,
    SECP256K1_ORDER <- kms.SECP256K1_ORDER, Digests <- kms.Digests, Signers <- kms.Callers,
    BYTE <- kms.BYTE, key <- v1, address <- v2, account <- v3, signing <- v4,
    TIER1_TABLES <- backup.TIER1_TABLES, Deletable <- backup.Deletable, Ids <- backup.Ids,
    EXPORT_PAGE_SIZE <- backup.EXPORT_PAGE_SIZE, Runs <- backup.Runs,
    Minutes <- backup.Minutes, MaxChanges <- backup.MaxChanges, db <- v1, missing <- v2,
    specs <- v3, vault <- v4, run <- v5, changes <- v6

LEMMA KeepAgrees ==
    /\ Keep!Spec <=> Pruned!Keep!Spec
    /\ [][Keep!PruningDue]_Keep!vars <=> [][Pruned!Keep!PruningDue]_Pruned!Keep!vars
BY DEF
  Keep!TaskStatus, Keep!Terminal, Keep!Row, Keep!NoRow, Keep!Exists, Keep!TableInit, Keep!Tick,
  Keep!findTaskByIdempotencyKey, Keep!Committed, Keep!countCommittedTasks, Keep!CompareAndSet,
  Keep!VALID_TRANSITIONS, Keep!updateTaskStatus, Keep!acceptTask, Keep!markTaskFunded,
  Keep!PastExpiry, Keep!lapseExpiredOffers, Keep!KeyTaken, Keep!createTask, Keep!own, Keep!vars,
  Keep!NoRun, Keep!Init, Keep!TERMINAL_STATUSES, Keep!isPruneEligible, Keep!Batches,
  Keep!pruneExpiredTaskContent, Keep!prune_task_content, Keep!pruneOne, Keep!pruneFails,
  Keep!pruneEnds, Keep!taskStep, Keep!clockStep, Keep!Next, Keep!Spec, Keep!PruningDue,
  Keep!Cardinality, Pruned!Keep!TaskStatus, Pruned!Keep!Terminal, Pruned!Keep!Row,
  Pruned!Keep!NoRow, Pruned!Keep!Exists, Pruned!Keep!TableInit, Pruned!Keep!Tick,
  Pruned!Keep!findTaskByIdempotencyKey, Pruned!Keep!Committed, Pruned!Keep!countCommittedTasks,
  Pruned!Keep!CompareAndSet, Pruned!Keep!VALID_TRANSITIONS, Pruned!Keep!updateTaskStatus,
  Pruned!Keep!acceptTask, Pruned!Keep!markTaskFunded, Pruned!Keep!PastExpiry,
  Pruned!Keep!lapseExpiredOffers, Pruned!Keep!KeyTaken, Pruned!Keep!createTask, Pruned!Keep!own,
  Pruned!Keep!vars, Pruned!Keep!NoRun, Pruned!Keep!Init, Pruned!Keep!TERMINAL_STATUSES,
  Pruned!Keep!isPruneEligible, Pruned!Keep!Batches, Pruned!Keep!pruneExpiredTaskContent,
  Pruned!Keep!prune_task_content, Pruned!Keep!pruneOne, Pruned!Keep!pruneFails,
  Pruned!Keep!pruneEnds, Pruned!Keep!taskStep, Pruned!Keep!clockStep, Pruned!Keep!Next,
  Pruned!Keep!Spec, Pruned!Keep!PruningDue, Pruned!Keep!Cardinality

(***************************************************************************)
(* Content is purged only when its task has ended and its window is over,  *)
(* and is logged once (retention.ts, prune_task_content).                  *)
(***************************************************************************)
THEOREM PruningsAreDue == Spec => PruningIsDue
<1>0. Pruned!Keep!Spec => [][Pruned!Keep!PruningDue]_Pruned!Keep!vars
  BY ServicesAssumption, Pruned!Pruning DEF RecordsAssumption, Keep!TableAssumption
<1>1. Spec /\ part = "retention" => [][Keep!PruningDue]_Keep!vars
  BY <1>0, KeepRuns, KeepAgrees, PTL
<1>2. part = "retention" /\ [Next]_<< part, slots >> /\ [Keep!PruningDue]_Keep!vars
        => [part = "retention" => Keep!PruningDue]_slots
  BY DEF Next, Kept, slots, Keep!vars, Keep!own
<1>3. part = "retention" /\ [Next]_<< part, slots >> => (part = "retention")'
  BY PartStays
<1>4. ~ (part = "retention") => [part = "retention" => Keep!PruningDue]_slots
  OBVIOUS
<1> QED  BY <1>1, <1>2, <1>3, <1>4, KeepRuns, PTL DEF Spec, PruningIsDue
=============================================================================
