------------------------- MODULE RecordsProofs -------------------------
(***************************************************************************)
(* What the platform keeps, signs and says about a task, for every number  *)
(* of tasks and of concurrent requests: the upload URLs (EvidenceUpload,   *)
(* which this module extends), the purge of content (Retention), the       *)
(* attestations (Attestation), the answers of the agents' tools (McpTools),*)
(* what is read from the chain (ChainClient), the scores of workers        *)
(* (Reputation), the verdicts (AcceptanceCheck), their signatures          *)
(* (KmsSigner) and the backups (BackupExport).                             *)
(***************************************************************************)
EXTENDS EvidenceUpload, Sequences, FiniteSetTheorems, TLAPS

Ind == INSTANCE InductionTheorems

(* The run of lib/db/retention.ts, on the same table.                      *)
CONSTANTS Prunes, DISPUTE_WINDOW_SECONDS, PRUNE_BATCH_LIMIT
VARIABLES updatedAt, content, deletions, prune
Keep == INSTANCE Retention

(* The attestations of lib/attestation. *)
CONSTANTS
    Tasks, Worker, Callers, Calls, Structs, VERIFIED_ATTEST_ENVELOPES, MaxNonce, MaxUpgrades
VARIABLES escrow, eas, call, offchain, published
Attest == INSTANCE Attestation WITH onChain <- escrow

(* The tools of mcp/server.ts that speak of a task. *)
CONSTANTS ToolCalls, DELIVERY, ToolsEnd
VARIABLES chain, taskRow, passes, asked
Tools == INSTANCE McpTools WITH
    Calls <- ToolCalls, MaxClock <- ToolsEnd, row <- taskRow, call <- asked

(* The reads of contracts/escrow.ts. *)
CONSTANTS
    Escrowed, Reads, RPC_MAX_BLOCK_RANGE, ESCROW_DEPLOY_BLOCK, MaxBlock, HEAD_LAG, Mine, Routes
VARIABLES blocks, legacy, read
Client == INSTANCE ChainClient WITH Tasks <- Escrowed

(* A worker's score. *)
CONSTANTS Rows, Readers
VARIABLES states, age, scored
Rep == INSTANCE Reputation WITH Tasks <- Rows, chain <- states, answer <- scored

(* The verdict on a task's evidence (verdict-service.ts, lib/checker). *)
CONSTANTS Specs, Bundles, FundedAt, ConfirmedAt, MAX_ARTIFACTS
VARIABLES offer, state, specHash, committed, fundedAt, reply, signed
Judge == INSTANCE AcceptanceCheck

(* The key that signs it (kms-signer.ts). *)
CONSTANTS SECP256K1_ORDER, Digests, Signers, BYTE
VARIABLES key, address, account, signing
Kms == INSTANCE KmsSigner WITH Callers <- Signers

(* The export of the reference tables (backup-export.ts). *)
CONSTANTS TIER1_TABLES, Deletable, Ids, EXPORT_PAGE_SIZE, Runs, Minutes, MaxChanges
VARIABLES db, missing, specs, vault, run, changes
Backup == INSTANCE BackupExport WITH bucket <- vault
-----------------------------------------------------------------------------
(* Evidence uploads. *)

Assumed == PLATFORM_MAX_UPLOAD_BYTES \in Nat /\ Sizes \subseteq Nat

ChainStates == { "None", "Funded", "Delivered", "Settled" }

Call == [ pc : {"credential", "chain", "sign"}, task : TaskIds, caller : Workers,
          size : Sizes, type : {"allowed", "other"}, cap : Nat, late : BOOLEAN ]

Grant == [ task : TaskIds, caller : Workers, size : Sizes, late : BOOLEAN, expires : Nat ]

Typed ==
    /\ clock \in Nat
    /\ rows \in [TaskIds -> Row]
    /\ bucket \in [TaskIds -> Bucket \cup {NoBucket}]
    /\ hire \in [TaskIds -> {"idle", "encrypting", "storing", "answered"}]
    /\ credential \in [TaskIds -> SUBSET Nat]
    /\ onChain \in [TaskIds -> ChainStates]
    /\ upload \in [Uploads -> Call \cup {NoCall}]

(* A credential is stored after the row it is for, under the agent's cap.  *)
Capped(t) ==
    /\ hire[t] # "idle" => bucket[t] \in Bucket
    /\ hire[t] \in {"encrypting", "storing"} => Exists(t)
    /\ \A cap \in credential[t] :
         hire[t] # "idle" /\ Exists(t) /\ cap <= bucket[t].max

(* The row a request has read is still its worker's, and a request that    *)
(* came late finds the chain as late as it was: the work is in for good.   *)
Reading(u) ==
    upload[u] \in Call =>
        LET t == upload[u].task
        IN  /\ Exists(t) /\ rows[t].worker = upload[u].caller
            /\ upload[u].late => onChain[t] \in {"Delivered", "Settled"}
            /\ upload[u].pc # "credential" =>
                 /\ upload[u].cap <= PLATFORM_MAX_UPLOAD_BYTES
                 /\ bucket[t].max \in Nat /\ upload[u].cap <= bucket[t].max
            /\ upload[u].pc = "sign" =>
                 /\ upload[u].size <= PLATFORM_MAX_UPLOAD_BYTES
                 /\ upload[u].size <= bucket[t].max
                 /\ ~ upload[u].late /\ onChain[t] # "None"

Due(g) ==
    /\ g.task \in TaskIds /\ Exists(g.task) /\ g.caller = rows[g.task].worker
    /\ g.size <= PLATFORM_MAX_UPLOAD_BYTES /\ g.size <= bucket[g.task].max
    /\ bucket[g.task].provider \in {"s3", "gcs"}
    /\ bucket[g.task].provider = "s3" => bucket[g.task].place \notin {"other endpoint", "nowhere"}
    /\ ~ g.late
    /\ onChain[g.task] # "None"

IInv ==
    /\ Typed
    /\ \A t \in TaskIds : Capped(t)
    /\ \A u \in Uploads : Reading(u)
    /\ \A g \in grants : Due(g)
-----------------------------------------------------------------------------
LEMMA NoRowType == NoRow \in Row
<1>1. (CHOOSE a \in Agents : TRUE) \in Agents
  BY TableAssumption, Zenon
<1>2. (CHOOSE w \in Workers : TRUE) \in Workers
  BY TableAssumption, Zenon
<1> QED  BY <1>1, <1>2 DEF NoRow, Row

LEMMA CallsDiffer == NoCall \notin Call /\ NoCall.pc = "idle"
BY DEF NoCall, Call

(* A row that exists stays its worker's, and its bucket what it was; and   *)
(* what the chain has taken in, it keeps.                                  *)
Kept ==
    \A t \in TaskIds :
        /\ Exists(t) => /\ rows'[t].status # "absent" /\ rows'[t].worker = rows[t].worker
                        /\ bucket'[t] = bucket[t]
        /\ onChain[t] # "None" => onChain'[t] # "None"
        /\ onChain[t] \in {"Delivered", "Settled"} => onChain'[t] \in {"Delivered", "Settled"}

(* No statement of the table removes a row or gives it to another worker.  *)
Standing ==
    /\ rows' \in [TaskIds -> Row]
    /\ \A u \in TaskIds : Exists(u) => rows'[u].status # "absent"
                                       /\ rows'[u].worker = rows[u].worker

(* One statement over one row that exists. *)
LEMMA OneRow ==
    ASSUME rows \in [TaskIds -> Row], NEW t \in TaskIds, NEW row \in Row,
           rows' = [rows EXCEPT ![t] = row],
           Exists(t), row.status # "absent", row.worker = rows[t].worker
    PROVE  Standing
BY DEF Exists, Standing

LEMMA Statements ==
    ASSUME rows \in [TaskIds -> Row], NEW t \in TaskIds,
           \/ acceptTask(t, TRUE) \/ markTaskFunded(t, TRUE) \/ lapseExpiredOffers
           \/ \E s \in {"declined", "disputed", "completed", "expired"} : updateTaskStatus(t, s, TRUE)
    PROVE  Standing
<1>1. ASSUME NEW s \in TaskStatus, updateTaskStatus(t, s, TRUE), "absent" \notin VALID_TRANSITIONS[s]
      PROVE  Standing
  <2> DEFINE row == [rows[t] EXCEPT !.status = s]
  <2>1. row \in Row /\ row.status # "absent" /\ row.worker = rows[t].worker
    BY DEF Row, TaskStatus
  <2>2. Exists(t) /\ rows' = [rows EXCEPT ![t] = row]
    BY <1>1 DEF updateTaskStatus, CompareAndSet, Exists
  <2> HIDE DEF row
  <2> QED  BY <2>1, <2>2, OneRow
<1>2. \A s \in {"declined", "disputed", "completed", "expired"} :
         s \in TaskStatus /\ "absent" \notin VALID_TRANSITIONS[s]
  BY DEF VALID_TRANSITIONS, TaskStatus
<1>3. CASE acceptTask(t, TRUE)
  <2> DEFINE row == [rows[t] EXCEPT !.status = "accepted", !.pinned = TRUE]
  <2>1. row \in Row /\ row.status # "absent" /\ row.worker = rows[t].worker
    BY DEF Row, TaskStatus
  <2>2. Exists(t) /\ rows' = [rows EXCEPT ![t] = row]
    BY <1>3 DEF acceptTask, CompareAndSet, Exists
  <2> HIDE DEF row
  <2> QED  BY <2>1, <2>2, OneRow
<1>4. CASE markTaskFunded(t, TRUE)
  <2> DEFINE row == [rows[t] EXCEPT !.status = "active", !.funded = TRUE]
  <2>1. row \in Row /\ row.status # "absent" /\ row.worker = rows[t].worker
    BY DEF Row, TaskStatus
  <2>2. Exists(t) /\ rows' = [rows EXCEPT ![t] = row]
    BY <1>4 DEF markTaskFunded, CompareAndSet, Exists
  <2> HIDE DEF row
  <2> QED  BY <2>1, <2>2, OneRow
<1>5. CASE lapseExpiredOffers
  <2>1. ASSUME NEW u \in TaskIds
        PROVE  LET row == [rows[u] EXCEPT !.status = "lapsed"]
               IN  row \in Row /\ row.status # "absent" /\ row.worker = rows[u].worker
    BY DEF Row, TaskStatus
  <2> QED  BY <1>5, <2>1 DEF lapseExpiredOffers, Exists, Standing
<1> QED  BY <1>1, <1>2, <1>3, <1>4, <1>5

LEMMA TaskRows ==
    ASSUME Typed, NEW t \in TaskIds, taskStep(t)
    PROVE  Standing
<1>1. /\ rows \in [TaskIds -> Row]
      /\ \/ acceptTask(t, TRUE) \/ markTaskFunded(t, TRUE) \/ lapseExpiredOffers
         \/ \E s \in {"declined", "disputed", "completed", "expired"} : updateTaskStatus(t, s, TRUE)
  BY DEF taskStep, Typed
<1> QED  BY <1>1, Statements
-----------------------------------------------------------------------------
(* Whatever keeps rows and chain keeps what requests and URLs rest on.     *)
LEMMA KeptInv ==
    ASSUME IInv, Typed', Kept, UNCHANGED << upload, grants >>,
           \A t \in TaskIds : Capped(t)'
    PROVE  IInv'
<1>1. ASSUME NEW u \in Uploads PROVE Reading(u)'
  <2>1. CASE upload[u] \in Call
    <3>1. upload[u].task \in TaskIds /\ Reading(u)
      BY <2>1 DEF Call, IInv
    <3> QED  BY <2>1, <3>1 DEF Reading, Kept, Exists
  <2> QED  BY <2>1 DEF Reading
<1>2. ASSUME NEW g \in grants PROVE Due(g)'
  <2>1. Due(g) /\ g.task \in TaskIds
    BY DEF IInv, Due
  <2> QED  BY <2>1 DEF Due, Kept, Exists
<1> QED  BY <1>1, <1>2 DEF IInv

LEMMA HireInv ==
    ASSUME Assumed, IInv, NEW t \in TaskIds, HireStep(t)
    PROVE  IInv'
<1>1. ASSUME NEW w \in Workers, NEW b \in Bucket, NEW wants \in BOOLEAN,
             hireInsert(t, w, b, wants, 1)
      PROVE  IInv'
  <2> DEFINE row == [NoRow EXCEPT !.status = "pending", !.worker = w,
                                  !.createdAt = clock, !.expiry = clock + 1]
  <2>1. clock + 1 \in Nat /\ clock \in Nat
    BY DEF IInv, Typed
  <2>2. row \in Row /\ row.status # "absent"
    BY <2>1, NoRowType DEF Row, TaskStatus
  <2>3. /\ ~ Exists(t) /\ rows' = [rows EXCEPT ![t] = row]
        /\ hire' = [hire EXCEPT ![t] = IF wants THEN "encrypting" ELSE "answered"]
        /\ bucket' = [bucket EXCEPT ![t] = b]
        /\ UNCHANGED << clock, credential, onChain, upload, grants >>
    BY <1>1 DEF hireInsert, createTask
  <2> HIDE DEF row
  <2>4. Typed'
    BY <2>2, <2>3 DEF IInv, Typed
  <2>5. Kept
    BY <2>3 DEF Kept, IInv, Typed, Exists
  <2>6. ASSUME NEW u \in TaskIds PROVE Capped(u)'
    <3>1. CASE u = t
      BY <2>2, <2>3, <3>1 DEF Capped, IInv, Typed, Exists
    <3>2. CASE u # t
      BY <2>3, <3>2 DEF Capped, IInv, Typed, Exists
    <3> QED  BY <3>1, <3>2
  <2> QED  BY <2>3, <2>4, <2>5, <2>6, KeptInv
<1>2. CASE encryptCredential(t) \/ hireFails(t)
  <2>1. UNCHANGED << clock, rows, bucket, credential, onChain, upload, grants >>
    BY <1>2 DEF encryptCredential, hireFails
  <2>2. PICK h \in {"storing", "answered"} :
          hire' = [hire EXCEPT ![t] = h] /\ hire[t] \in {"encrypting", "storing"}
    BY <1>2 DEF encryptCredential, hireFails
  <2>3. Typed' /\ Kept
    BY <2>1, <2>2 DEF IInv, Typed, Kept, Exists
  <2>4. \A u \in TaskIds : Capped(u)'
    BY <2>1, <2>2 DEF IInv, Typed, Capped, Exists
  <2> QED  BY <2>1, <2>3, <2>4, KeptInv
<1>3. CASE storeUploadCredential(t)
  <2> DEFINE cap == Smaller(bucket[t].max, PLATFORM_MAX_UPLOAD_BYTES)
  <2>1. Exists(t) /\ bucket[t] \in Bucket /\ hire[t] = "storing"
    BY <1>3 DEF storeUploadCredential, IInv, Capped
  <2>2. cap \in Nat /\ cap <= bucket[t].max
    <3>1. bucket[t].max \in Sizes
      BY <2>1 DEF Bucket
    <3>2. bucket[t].max \in Nat
      BY <3>1 DEF Assumed
    <3> QED  BY <3>2 DEF Assumed, Smaller
  <2>3. /\ credential' = [credential EXCEPT ![t] = {cap}]
        /\ hire' = [hire EXCEPT ![t] = "answered"]
        /\ UNCHANGED << clock, rows, bucket, onChain, upload, grants >>
    BY <1>3 DEF storeUploadCredential
  <2> HIDE DEF cap
  <2>4. Typed'
    BY <2>2, <2>3 DEF IInv, Typed
  <2>5. ASSUME NEW u \in TaskIds PROVE Capped(u)'
    <3>1. CASE u = t
      BY <2>1, <2>2, <2>3, <3>1 DEF Capped, IInv, Typed, Exists
    <3>2. CASE u # t
      BY <2>3, <3>2 DEF Capped, IInv, Typed, Exists
    <3> QED  BY <3>1, <3>2
  <2> QED  BY <2>3, <2>4, <2>5, KeptInv DEF Kept, Exists
<1> QED  BY <1>1, <1>2, <1>3 DEF HireStep

LEMMA TaskInv ==
    ASSUME IInv, NEW t \in TaskIds, taskStep(t)
    PROVE  IInv'
<1>1. /\ rows' \in [TaskIds -> Row]
      /\ \A u \in TaskIds : Exists(u) => rows'[u].status # "absent"
                                         /\ rows'[u].worker = rows[u].worker
  BY TaskRows DEF IInv, Standing
<1>2. UNCHANGED << clock, bucket, hire, upload, grants, onChain >>
  BY DEF taskStep
<1>3. /\ credential' \in [TaskIds -> SUBSET Nat]
      /\ \A u \in TaskIds : credential'[u] \subseteq credential[u]
  BY DEF taskStep, drop_upload_credential_on_terminal, IInv, Typed
<1>4. Typed' /\ Kept
  BY <1>1, <1>2, <1>3 DEF IInv, Typed, Kept
<1>5. \A u \in TaskIds : Capped(u)'
  BY <1>1, <1>2, <1>3 DEF IInv, Capped, Exists
<1> QED  BY <1>2, <1>4, <1>5, KeptInv

(* The chain only goes on. *)
LEMMA ChainInv ==
    ASSUME IInv, NEW t \in TaskIds, chainStep(t)
    PROVE  IInv'
<1>1. UNCHANGED << clock, rows, bucket, hire, credential, upload, grants >>
  BY DEF chainStep
<1>2. PICK s \in {"Funded", "Delivered", "Settled"} :
        /\ onChain' = [onChain EXCEPT ![t] = s]
        /\ onChain[t] \in {"Delivered", "Settled"} => s = "Settled"
  BY DEF chainStep
<1>3. Typed' /\ Kept
  BY <1>1, <1>2 DEF IInv, Typed, Kept, ChainStates, Exists
<1>4. \A u \in TaskIds : Capped(u)'
  BY <1>1 DEF IInv, Capped, Exists
<1> QED  BY <1>1, <1>3, <1>4, KeptInv
-----------------------------------------------------------------------------
(* A request moves on, and nothing else changes. *)
LEMMA CallMoves ==
    ASSUME IInv, NEW u \in Uploads, NEW c \in Call \cup {NoCall},
           upload' = [upload EXCEPT ![u] = c], Reading(u)',
           UNCHANGED << clock, rows, bucket, hire, credential, onChain, grants >>
    PROVE  IInv'
<1>1. Typed' /\ \A v \in Uploads \ {u} : upload'[v] = upload[v]
  BY DEF IInv, Typed
<1>2. \A v \in Uploads : Reading(v)'
  BY <1>1 DEF IInv, Reading, Exists
<1>3. \A g \in grants : Due(g)'
  BY DEF IInv, Due, Exists
<1>4. \A t \in TaskIds : Capped(t)'
  BY DEF IInv, Capped, Exists
<1> QED  BY <1>1, <1>2, <1>3, <1>4 DEF IInv

LEMMA UploadInv ==
    ASSUME Assumed, IInv, NEW u \in Uploads, UploadStep(u)
    PROVE  IInv'
<1>1. /\ upload \in [Uploads -> Call \cup {NoCall}] /\ Reading(u)
      /\ credential \in [TaskIds -> SUBSET Nat] /\ onChain \in [TaskIds -> ChainStates]
  BY DEF IInv, Typed
<1>2. ASSUME NEW t \in TaskIds, NEW w \in Workers, NEW size \in Sizes,
             NEW type \in {"allowed", "other"}, uploadTask(u, t, w, size, type)
      PROVE  IInv'
  <2> DEFINE c == [ pc |-> "credential", task |-> t, caller |-> w, size |-> size,
                    type |-> type, cap |-> 0, late |-> Final(t) ]
  <2>1. Final(t) \in BOOLEAN
    BY DEF Final
  <2>2. Final(t) => onChain[t] \in {"Delivered", "Settled"}
    BY <1>1, <1>2 DEF Final, uploadTask, Dropping, ChainStates
  <2>3. /\ c \in Call /\ c.pc = "credential" /\ c.task = t /\ c.caller = w
        /\ c.late = Final(t)
    BY <2>1 DEF Call
  <2>4. /\ upload' = [upload EXCEPT ![u] = c] /\ Exists(t) /\ rows[t].worker = w
        /\ UNCHANGED << clock, rows, bucket, hire, credential, onChain, grants >>
    BY <1>2 DEF uploadTask
  <2> HIDE DEF c
  <2>5. Reading(u)'
    BY <1>1, <2>2, <2>3, <2>4 DEF Reading, Exists
  <2> QED  BY <2>3, <2>4, <2>5, CallMoves
<1>3. CASE getUploadCredential(u)
  <2>1. upload[u] \in Call
    BY <1>1, <1>3, CallsDiffer DEF getUploadCredential
  <2>2. PICK cap \in credential[upload[u].task] :
          upload' = [upload EXCEPT ![u].pc = "chain",
                                   ![u].cap = Smaller(cap, PLATFORM_MAX_UPLOAD_BYTES)]
    BY <1>3 DEF getUploadCredential
  <2>3. /\ Smaller(cap, PLATFORM_MAX_UPLOAD_BYTES) \in Nat
        /\ Smaller(cap, PLATFORM_MAX_UPLOAD_BYTES) <= PLATFORM_MAX_UPLOAD_BYTES
        /\ Smaller(cap, PLATFORM_MAX_UPLOAD_BYTES) <= bucket[upload[u].task].max
        /\ bucket[upload[u].task].max \in Nat
    <3>1. cap \in Nat
      BY <1>1, <2>1 DEF Call
    <3>2. upload[u].task \in TaskIds
      BY <2>1 DEF Call
    <3>3. /\ hire[upload[u].task] # "idle" /\ cap <= bucket[upload[u].task].max
          /\ bucket[upload[u].task] \in Bucket
      BY <3>2 DEF IInv, Capped
    <3>4. bucket[upload[u].task].max \in Nat
      <4>1. bucket[upload[u].task].max \in Sizes
        BY <3>3 DEF Bucket
      <4> QED  BY <4>1 DEF Assumed
    <3> QED  BY <3>1, <3>3, <3>4 DEF Assumed, Smaller
  <2> DEFINE c == [upload[u] EXCEPT !.pc = "chain",
                                    !.cap = Smaller(cap, PLATFORM_MAX_UPLOAD_BYTES)]
  <2>4. /\ c \in Call /\ c.pc = "chain" /\ c.task = upload[u].task
        /\ c.caller = upload[u].caller /\ c.late = upload[u].late
        /\ c.cap <= PLATFORM_MAX_UPLOAD_BYTES
        /\ c.cap <= bucket[upload[u].task].max
    BY <2>1, <2>3 DEF Call
  <2>5. /\ upload' = [upload EXCEPT ![u] = c] /\ upload[u].pc = "credential"
        /\ UNCHANGED << clock, rows, bucket, hire, credential, onChain, grants >>
    BY <1>1, <1>3, <2>2 DEF getUploadCredential
  <2> HIDE DEF c
  <2>6. Reading(u)'
    BY <1>1, <2>1, <2>3, <2>4, <2>5 DEF Reading, Exists
  <2> QED  BY <2>4, <2>5, <2>6, CallMoves
<1>4. CASE uploadChain(u)
  <2>1. upload[u] \in Call
    BY <1>1, <1>4, CallsDiffer DEF uploadChain
  <2> DEFINE c == [upload[u] EXCEPT !.pc = "sign"]
  <2>2. /\ c \in Call /\ c.pc = "sign" /\ c.task = upload[u].task /\ c.cap = upload[u].cap
        /\ c.caller = upload[u].caller /\ c.late = upload[u].late /\ c.size = upload[u].size
    BY <2>1 DEF Call
  <2>3. /\ upload' = [upload EXCEPT ![u] = c] /\ upload[u].pc = "chain"
        /\ onChain[upload[u].task] = "Funded" /\ upload[u].size \in 1 .. upload[u].cap
        /\ UNCHANGED << clock, rows, bucket, hire, credential, onChain, grants >>
    BY <1>1, <1>4 DEF uploadChain, checkUploadRequest
  <2>4. /\ upload[u].size <= PLATFORM_MAX_UPLOAD_BYTES
        /\ upload[u].size <= bucket[upload[u].task].max
    <3>1. /\ upload[u].cap \in Nat /\ upload[u].size \in Nat
          /\ upload[u].cap <= PLATFORM_MAX_UPLOAD_BYTES
          /\ upload[u].cap <= bucket[upload[u].task].max
      BY <1>1, <2>1, <2>3 DEF Call, Reading, Assumed
    <3>2. bucket[upload[u].task].max \in Nat
      BY <1>1, <2>1, <2>3 DEF Call, Reading
    <3> QED  BY <2>3, <3>1, <3>2 DEF Assumed
  <2> HIDE DEF c
  <2>5. Reading(u)'
    BY <1>1, <2>1, <2>2, <2>3, <2>4 DEF Reading, Exists
  <2> QED  BY <2>2, <2>3, <2>5, CallMoves
<1>5. CASE presignUrl(u)
  <2>1. upload[u] \in Call /\ upload[u].pc = "sign"
    BY <1>1, <1>5, CallsDiffer DEF presignUrl
  <2> DEFINE g == [ task |-> upload[u].task, caller |-> upload[u].caller,
                    size |-> upload[u].size, late |-> upload[u].late,
                    expires |-> clock + UPLOAD_URL_TTL_SECONDS ]
  <2>2. /\ grants' = grants \cup {g} /\ upload' = [upload EXCEPT ![u] = NoCall]
        /\ resolveBucketLocation(bucket[upload[u].task])
        /\ UNCHANGED << clock, rows, bucket, hire, credential, onChain >>
    BY <1>5 DEF presignUrl, own
  <2>3. Due(g)
    BY <1>1, <2>1, <2>2 DEF Due, Reading, Call, resolveBucketLocation
  <2> HIDE DEF g
  <2>4. \A h \in grants' : Due(h)'
    BY <2>2, <2>3 DEF IInv, Due, Exists
  <2>5. Typed' /\ \A v \in Uploads \ {u} : upload'[v] = upload[v]
    BY <1>1, <2>2 DEF IInv, Typed
  <2>6. Reading(u)'
    BY <1>1, <2>2, CallsDiffer DEF Reading
  <2>7. \A v \in Uploads : Reading(v)'
    BY <2>2, <2>5, <2>6 DEF IInv, Reading, Exists
  <2>8. \A t \in TaskIds : Capped(t)'
    BY <2>2 DEF IInv, Capped, Exists
  <2> QED  BY <2>4, <2>5, <2>7, <2>8 DEF IInv
<1>6. CASE uploadFails(u)
  <2>1. /\ upload' = [upload EXCEPT ![u] = NoCall]
        /\ UNCHANGED << clock, rows, bucket, hire, credential, onChain, grants >>
    BY <1>6 DEF uploadFails
  <2>2. Reading(u)'
    BY <1>1, <2>1, CallsDiffer DEF Reading
  <2> QED  BY <2>1, <2>2, CallMoves
<1> QED  BY <1>2, <1>3, <1>4, <1>5, <1>6 DEF UploadStep
-----------------------------------------------------------------------------
LEMMA InitInv == Init => IInv
<1> SUFFICES ASSUME Init PROVE IInv
  OBVIOUS
<1>1. Typed
  BY NoRowType DEF Init, TableInit, Typed, ChainStates
<1>2. \A t \in TaskIds : Capped(t)
  BY DEF Init, Capped
<1>3. \A u \in Uploads : Reading(u)
  BY CallsDiffer DEF Init, Reading
<1> QED  BY <1>1, <1>2, <1>3 DEF Init, IInv

LEMMA StepInv == Assumed /\ IInv /\ [Next]_vars => IInv'
<1> SUFFICES ASSUME Assumed, IInv, [Next]_vars PROVE IInv'
  OBVIOUS
<1>1. CASE UNCHANGED vars
  <2>1. UNCHANGED << clock, rows, bucket, hire, credential, onChain, upload, grants >>
    BY <1>1 DEF vars, own
  <2> QED  BY <2>1, KeptInv DEF IInv, Typed, Kept, Capped, Exists
<1>2. CASE clockStep
  <2>1. clock' \in Nat /\ UNCHANGED << rows, bucket, hire, credential, onChain, upload, grants >>
    BY <1>2 DEF clockStep, Tick, own, IInv, Typed
  <2> QED  BY <2>1, KeptInv DEF IInv, Typed, Kept, Capped, Exists
<1> QED  BY <1>1, <1>2, HireInv, TaskInv, ChainInv, UploadInv DEF Next

(***************************************************************************)
(* A URL is signed for the task's own worker, for a size within the agent's*)
(* cap and the platform's, into a derived host, and never for a request    *)
(* that came when the work was already in, although upload-url/route.ts    *)
(* reads row, credential and chain in three awaits: what made the request  *)
(* late does not pass, and the chain is read last.                         *)
(***************************************************************************)
THEOREM GrantsTheorem == ASSUME Assumed PROVE Spec => []GrantsAreDue
<1>1. IInv => GrantsAreDue
  BY DEF IInv, Due, GrantsAreDue
<1>2. Spec => []IInv
  BY InitInv, StepInv, PTL DEF Spec
<1> QED  BY <1>1, <1>2, PTL
-----------------------------------------------------------------------------
(* Retention *)

(* Every value that a statement of the table gives a row.                  *)
KeepTyped ==
    /\ clock \in Nat
    /\ rows \in [TaskIds -> Row]
    /\ updatedAt \in [TaskIds -> Nat]
    /\ content \in [TaskIds -> BOOLEAN]
    /\ deletions \in [TaskIds -> Nat]

(* What a row that is there has lost is in the log once; a row that is not *)
(* there has nothing to lose.                                              *)
Logged(t) ==
    /\ content[t] => Exists(t)
    /\ deletions[t] = (IF Exists(t) /\ ~ content[t] THEN 1 ELSE 0)

KeepInv == KeepTyped /\ \A t \in TaskIds : Logged(t)

(* Pruned under the conditions that hold when it is pruned, or not at all. *)
LEMMA Pruned ==
    ASSUME KeepInv, NEW p, NEW t \in TaskIds,
           Keep!prune_task_content(p, t) \/ UNCHANGED << content, deletions >>,
           UNCHANGED << clock, rows, updatedAt >>
    PROVE  KeepInv' /\ Keep!PruningDue
<1>1. CASE UNCHANGED << content, deletions >>
  BY <1>1 DEF KeepInv, KeepTyped, Logged, Exists, Keep!PruningDue, Keep!Exists
<1>2. CASE /\ Keep!isPruneEligible(t, clock)
           /\ content' = [content EXCEPT ![t] = FALSE]
           /\ deletions' = [deletions EXCEPT ![t] = @ + 1]
  <2>1. /\ rows[t].status \in {"completed", "expired"} /\ content[t] /\ Exists(t)
        /\ clock >= updatedAt[t] + DISPUTE_WINDOW_SECONDS
    BY <1>2 DEF Keep!isPruneEligible, Keep!TERMINAL_STATUSES, Keep!Exists, Exists
  <2>2. deletions[t] = 0
    BY <2>1 DEF KeepInv, Logged
  <2>3. /\ content' \in [TaskIds -> BOOLEAN] /\ deletions' \in [TaskIds -> Nat]
        /\ ~ content'[t] /\ deletions'[t] = 1
        /\ \A u \in TaskIds : u # t => content'[u] = content[u] /\ deletions'[u] = deletions[u]
    BY <1>2, <2>2 DEF KeepInv, KeepTyped
  <2>4. KeepInv'
    BY <2>1, <2>3 DEF KeepInv, KeepTyped, Logged, Exists
  <2>5. Keep!PruningDue
    BY <2>1, <2>3 DEF Keep!PruningDue, Keep!Exists, KeepInv, Logged, Exists
  <2> QED  BY <2>4, <2>5
<1> QED  BY <1>1, <1>2 DEF Keep!prune_task_content

LEMMA KeptRows ==
    ASSUME KeepInv, NEW t \in TaskIds, Keep!taskStep(t)
    PROVE  Standing
<1>1. ASSUME Keep!acceptTask(t, TRUE) PROVE acceptTask(t, TRUE)
  BY <1>1 DEF Keep!acceptTask, acceptTask, Keep!CompareAndSet, CompareAndSet
<1>2. ASSUME Keep!markTaskFunded(t, TRUE) PROVE markTaskFunded(t, TRUE)
  BY <1>2 DEF Keep!markTaskFunded, markTaskFunded, Keep!CompareAndSet, CompareAndSet
<1>3. ASSUME Keep!lapseExpiredOffers PROVE lapseExpiredOffers
  BY <1>3 DEF Keep!lapseExpiredOffers, lapseExpiredOffers, Keep!PastExpiry, PastExpiry
<1>4. ASSUME NEW s, Keep!updateTaskStatus(t, s, TRUE) PROVE updateTaskStatus(t, s, TRUE)
  BY <1>4 DEF Keep!updateTaskStatus, updateTaskStatus, Keep!CompareAndSet, CompareAndSet,
              Keep!VALID_TRANSITIONS, VALID_TRANSITIONS
<1>5. CASE Keep!createTask(t, [Keep!NoRow EXCEPT !.status = "pending", !.createdAt = clock,
                                                 !.expiry = clock + 1])
  <2>1. Keep!NoRow \in Row
    BY NoRowType DEF Keep!NoRow, NoRow
  <2> DEFINE row == [Keep!NoRow EXCEPT !.status = "pending", !.createdAt = clock, !.expiry = clock + 1]
  <2>2. row \in Row
    <3>1. clock \in Nat /\ clock + 1 \in Nat
      BY DEF KeepInv, KeepTyped
    <3> QED  BY <2>1, <3>1 DEF Row, TaskStatus
  <2>3. ~ Exists(t) /\ rows' = [rows EXCEPT ![t] = row]
    BY <1>5 DEF Keep!createTask, Keep!Exists, Exists
  <2> HIDE DEF row
  <2> QED  BY <2>2, <2>3 DEF Standing, Exists, KeepInv, KeepTyped
<1> QED  BY <1>1, <1>2, <1>3, <1>4, <1>5, Statements DEF Keep!taskStep, KeepInv, KeepTyped

(* A row's first content comes with the row, and no statement takes it.    *)
LEMMA KeptContent ==
    ASSUME KeepInv, NEW t \in TaskIds, Keep!taskStep(t)
    PROVE  KeepInv' /\ Keep!PruningDue
<1>1. /\ UNCHANGED << clock, deletions >>
      /\ updatedAt' = [u \in TaskIds |-> IF rows'[u].status = rows[u].status THEN updatedAt[u] ELSE clock]
      /\ content' = [u \in TaskIds |-> IF Exists(u) THEN content[u] ELSE rows'[u].status # "absent"]
  BY DEF Keep!taskStep, Keep!Exists, Exists
<1>2. Standing
  BY KeptRows
<1>3. KeepTyped'
  BY <1>1, <1>2 DEF KeepInv, KeepTyped, Standing
<1>4. \A u \in TaskIds : Logged(u)'
  BY <1>1, <1>2 DEF KeepInv, Logged, Standing, Exists
<1>5. Keep!PruningDue
  BY <1>1, <1>2 DEF KeepInv, Logged, Standing, Exists, Keep!PruningDue, Keep!Exists
<1> QED  BY <1>3, <1>4, <1>5 DEF KeepInv

(***************************************************************************)
(* Content outlives its task by the whole dispute window and is logged     *)
(* once when it goes, for any number of tasks and overlapping runs, any    *)
(* window and any batch: prune_task_content (migration 025) looks again at *)
(* what the selection of lib/db/retention.ts has seen.                     *)
(***************************************************************************)
THEOREM Pruning == Keep!Spec => [][Keep!PruningDue]_Keep!vars
<1>1. Keep!Init => KeepInv
  <2> SUFFICES ASSUME Keep!Init PROVE KeepInv
    OBVIOUS
  <2>1. rows = [t \in TaskIds |-> NoRow] /\ clock = 0
    BY DEF Keep!Init, Keep!TableInit, Keep!NoRow, NoRow
  <2>2. /\ updatedAt = [t \in TaskIds |-> 0] /\ deletions = [t \in TaskIds |-> 0]
        /\ content = [t \in TaskIds |-> FALSE]
    BY DEF Keep!Init
  <2>3. \A t \in TaskIds : ~ Exists(t)
    BY <2>1 DEF Exists, NoRow
  <2> QED  BY <2>1, <2>2, <2>3, NoRowType DEF KeepInv, KeepTyped, Logged
<1>2. KeepInv /\ Keep!Next => KeepInv' /\ Keep!PruningDue
  <2> SUFFICES ASSUME KeepInv, Keep!Next PROVE KeepInv' /\ Keep!PruningDue
    OBVIOUS
  <2>1. ASSUME NEW p \in Prunes, NEW t \in TaskIds, Keep!pruneOne(p, t) \/ Keep!pruneFails(p, t)
        PROVE  KeepInv' /\ Keep!PruningDue
    BY <2>1, Pruned DEF Keep!pruneOne, Keep!pruneFails
  <2>2. ASSUME UNCHANGED << rows, updatedAt, content, deletions >>, clock' \in Nat
        PROVE  KeepInv' /\ Keep!PruningDue
    BY <2>2 DEF KeepInv, KeepTyped, Logged, Exists, Keep!PruningDue, Keep!Exists
  <2>3. ASSUME NEW p \in Prunes, Keep!pruneExpiredTaskContent(p) \/ Keep!pruneEnds(p)
        PROVE  KeepInv' /\ Keep!PruningDue
    BY <2>2, <2>3 DEF Keep!pruneExpiredTaskContent, Keep!pruneEnds, KeepInv, KeepTyped
  <2>4. CASE Keep!clockStep
    BY <2>2, <2>4 DEF Keep!clockStep, Keep!Tick, Keep!own, KeepInv, KeepTyped
  <2> QED  BY <2>1, <2>3, <2>4, KeptContent DEF Keep!Next
<1>3. KeepInv /\ UNCHANGED Keep!vars => KeepInv'
  BY DEF KeepInv, KeepTyped, Logged, Exists, Keep!vars, Keep!own
<1> QED  BY <1>1, <1>2, <1>3, PTL DEF Keep!Spec
-----------------------------------------------------------------------------
(* Attestations *)

Struct ==
    [ state : {"Funded", "Delivered", "Completed", "Resolved", "Expired"},
      evidence : {"zero", "evidence"}, verdict : {"zero", "verdict"},
      route : {"none", "later"} \cup Attest!CompletionRoute ]

Kinds   == {"offchain", "delegated"}
Records == { Attest!completionRecord(t, s) : t \in Tasks, s \in Struct }

Requested  == [ pc : {"getTask"}, caller : Callers, task : Tasks, kind : Kinds ]
Seeing     == [ pc : {"getLogs"}, caller : Callers, task : Tasks, kind : Kinds, seen : Struct ]
Loaded     == [ pc : {"inputs"}, task : Tasks, kind : Kinds, seen : Struct ]
Copying    == [ pc : {"sign"}, task : Tasks, kind : {"offchain"}, seen : Struct ]
Delegating == [ pc : {"sign"}, task : Tasks, kind : {"delegated"}, seen : Struct,
                struct : VERIFIED_ATTEST_ENVELOPES, nonce : Nat ]
Delegated  == [ pc : {"signed"}, struct : VERIFIED_ATTEST_ENVELOPES, nonce : Nat,
                deadline : { Structs[s] : s \in VERIFIED_ATTEST_ENVELOPES }, record : Records ]
Request    == {Attest!Idle} \cup Requested \cup Seeing \cup Loaded \cup Copying \cup Delegating
                \cup Delegated

AttestTyped ==
    /\ escrow \in [Tasks -> Struct]
    /\ eas.nonce \in Nat /\ eas = [ struct |-> eas.struct, upgrades |-> eas.upgrades, nonce |-> eas.nonce ]
    /\ call \in [Calls -> Request]
    /\ published \in Seq(Records)
    /\ eas.nonce = Len(published)

(* A record is what the contract ended with, of a task that paid.          *)
True(r) ==
    /\ r.task \in Tasks
    /\ escrow[r.task].route \in Attest!CompletionRoute
    /\ r = Attest!completionRecord(r.task, escrow[r.task])

(* What a request has read of a task that had ended is still all there is  *)
(* to read, and from "inputs" on the task had ended, and paid.             *)
Faithful(f) ==
    /\ f.pc = "getLogs" /\ f.seen.state \in {"Completed", "Resolved"} => f.seen = escrow[f.task]
    /\ f.pc \in {"inputs", "sign"} =>
         f.seen = escrow[f.task] /\ f.seen.route \in Attest!CompletionRoute
    /\ f.pc = "signed" => True(f.record)

AttestInv ==
    /\ AttestTyped
    /\ \A t \in Tasks : escrow[t].state \in {"Funded", "Delivered"} => escrow[t].route = "none"
    /\ \A c \in Calls : Faithful(call[c])
    /\ \A r \in offchain : True(r)
    /\ \A i \in 1 .. Len(published) : True(published[i])

LEMMA Pcs ==
    ASSUME NEW f
    PROVE  /\ f = Attest!Idle => f \in Request /\ f.pc = "idle"
           /\ f \in Requested => f \in Request /\ f.pc = "getTask"
           /\ f \in Seeing => f \in Request /\ f.pc = "getLogs"
           /\ f \in Loaded => f \in Request /\ f.pc = "inputs"
           /\ f \in Copying => f \in Request /\ f.pc = "sign" /\ f.kind = "offchain"
           /\ f \in Delegating => f \in Request /\ f.pc = "sign" /\ f.kind = "delegated"
           /\ f \in Delegated => f \in Request /\ f.pc = "signed"
<1>1. /\ f = Attest!Idle => f.pc = "idle"
      /\ f \in Requested => f.pc = "getTask"
      /\ f \in Seeing => f.pc = "getLogs"
      /\ f \in Loaded => f.pc = "inputs"
      /\ f \in Copying => f.pc = "sign" /\ f.kind = "offchain"
      /\ f \in Delegating => f.pc = "sign" /\ f.kind = "delegated"
      /\ f \in Delegated => f.pc = "signed"
  BY DEF Attest!Idle, Requested, Seeing, Loaded, Copying, Delegating, Delegated
<1>2. /\ f = Attest!Idle => f \in Request
      /\ f \in Requested => f \in Request
      /\ f \in Seeing => f \in Request
      /\ f \in Loaded => f \in Request
      /\ f \in Copying => f \in Request
      /\ f \in Delegating => f \in Request
      /\ f \in Delegated => f \in Request
  BY Zenon DEF Request
<1> QED  BY <1>1, <1>2, Zenon

LEMMA ByPc ==
    ASSUME NEW f \in Request
    PROVE  /\ f.pc = "idle" => f = Attest!Idle
           /\ f.pc = "getTask" => f \in Requested
           /\ f.pc = "getLogs" => f \in Seeing
           /\ f.pc = "inputs" => f \in Loaded
           /\ f.pc = "sign" /\ f.kind = "offchain" => f \in Copying
           /\ f.pc = "sign" /\ f.kind = "delegated" => f \in Delegating
           /\ f.pc = "sign" => f \in Copying \cup Delegating
           /\ f.pc = "signed" => f \in Delegated
<1>1. \/ f = Attest!Idle \/ f \in Requested \/ f \in Seeing \/ f \in Loaded
      \/ f \in Copying \/ f \in Delegating \/ f \in Delegated
  BY Zenon DEF Request
<1> QED  BY <1>1, Pcs

(* The contract changes a task only while it is funded or delivered.       *)
LEMMA ChainGoesOn ==
    ASSUME AttestInv, escrow' \in [Tasks -> Struct], UNCHANGED << eas, call, offchain, published >>,
           \A t \in Tasks :
              /\ escrow[t].state \notin {"Funded", "Delivered"} => escrow'[t] = escrow[t]
              /\ escrow'[t].state \in {"Funded", "Delivered"} => escrow'[t].route = "none"
    PROVE  AttestInv'
<1>1. \A t \in Tasks : escrow[t].route \in Attest!CompletionRoute => escrow'[t] = escrow[t]
  BY DEF AttestInv, Attest!CompletionRoute
<1>2. \A r : True(r) => True(r)'
  BY <1>1 DEF True
<1>3. ASSUME NEW c \in Calls PROVE Faithful(call[c])'
  <2>1. call[c] \in Request /\ Faithful(call[c]) /\ call'[c] = call[c]
    BY DEF AttestInv, AttestTyped
  <2>2. CASE call[c].pc = "getLogs"
    <3>0. call[c] \in Seeing
      BY <2>1, <2>2, ByPc
    <3>1. call[c].task \in Tasks
      BY <3>0 DEF Seeing
    <3> QED  BY <2>1, <2>2, <3>1 DEF Faithful
  <2>3. CASE call[c].pc \in {"inputs", "sign"}
    <3>0. call[c] \in Loaded \/ call[c] \in Copying \/ call[c] \in Delegating
      BY <2>1, <2>3, ByPc
    <3>1. call[c].task \in Tasks
      BY <3>0 DEF Loaded, Copying, Delegating
    <3> QED  BY <1>1, <2>1, <2>3, <3>1 DEF Faithful
  <2>4. CASE call[c].pc \notin {"getLogs", "inputs", "sign"}
    BY <1>2, <2>1, <2>4 DEF Faithful
  <2> QED  BY <2>2, <2>3, <2>4
<1> QED  BY <1>2, <1>3 DEF AttestInv, AttestTyped

(* A request goes on, and may leave a record. *)
LEMMA RequestGoesOn ==
    ASSUME AttestInv, NEW c \in Calls, NEW f \in Request, call' = [call EXCEPT ![c] = f],
           Faithful(f), UNCHANGED << escrow, eas, published >>,
           \A r \in offchain' : r \in offchain \/ True(r)
    PROVE  AttestInv'
<1>1. \A r : True(r)' <=> True(r)
  BY DEF True
<1>2. \A d \in Calls : call'[d] \in Request /\ (call'[d] = f \/ call'[d] = call[d])
  BY DEF AttestInv, AttestTyped
<1>3. \A g : Faithful(g) => /\ g.pc = "getLogs" /\ g.seen.state \in {"Completed", "Resolved"} => g.seen = escrow'[g.task]
                            /\ g.pc \in {"inputs", "sign"} =>
                                 g.seen = escrow'[g.task] /\ g.seen.route \in Attest!CompletionRoute
                            /\ g.pc = "signed" => True(g.record)'
  BY <1>1 DEF Faithful
<1>4. \A d \in Calls : Faithful(call[d])'
  BY <1>2, <1>3 DEF AttestInv, Faithful
<1>5. AttestTyped'
  BY DEF AttestInv, AttestTyped
<1> QED  BY <1>1, <1>4, <1>5 DEF AttestInv

LEMMA IdleFaithful == Attest!Idle \in Request /\ Faithful(Attest!Idle)
BY Pcs DEF Faithful

LEMMA EscrowMoves ==
    ASSUME AttestInv, NEW t \in Tasks,
           \/ Attest!submitWork(t) \/ Attest!recordVerdict(t) \/ Attest!refund(t)
           \/ \E r \in Attest!ContractRoutes \cup {"ArbitrationRuling"} : Attest!pay(t, r)
    PROVE  AttestInv'
<1>1. /\ escrow \in [Tasks -> Struct]
      /\ escrow[t].state \in {"Funded", "Delivered"} => escrow[t].route = "none"
  BY DEF AttestInv, AttestTyped
<1>2. ASSUME NEW s \in Struct, escrow' = [escrow EXCEPT ![t] = s],
             escrow[t].state \in {"Funded", "Delivered"},
             s.state \in {"Funded", "Delivered"} => s.route = "none",
             UNCHANGED << eas, call, offchain, published >>
      PROVE  AttestInv'
  <2>1. escrow' \in [Tasks -> Struct]
    BY <1>1, <1>2
  <2>2. \A u \in Tasks : u # t => escrow'[u] = escrow[u]
    BY <1>1, <1>2
  <2>3. escrow'[t] = s
    BY <1>1, <1>2
  <2> QED  BY <1>2, <2>1, <2>2, <2>3, ChainGoesOn DEF AttestInv
<1>3. CASE Attest!submitWork(t)
  <2> DEFINE s == [escrow[t] EXCEPT !.state = "Delivered", !.evidence = "evidence"]
  <2>1. s \in Struct /\ s.route = escrow[t].route
    BY <1>1 DEF Struct
  <2>2. /\ escrow' = [escrow EXCEPT ![t] = s] /\ escrow[t].state = "Funded"
        /\ UNCHANGED << eas, call, offchain, published >>
    BY <1>1, <1>3 DEF Attest!submitWork
  <2> HIDE DEF s
  <2> QED  BY <1>1, <1>2, <2>1, <2>2
<1>4. CASE Attest!recordVerdict(t)
  <2> DEFINE s == [escrow[t] EXCEPT !.verdict = "verdict"]
  <2>1. s \in Struct /\ s.route = escrow[t].route
    BY <1>1 DEF Struct
  <2>2. /\ escrow' = [escrow EXCEPT ![t] = s] /\ escrow[t].state = "Delivered"
        /\ UNCHANGED << eas, call, offchain, published >>
    BY <1>1, <1>4 DEF Attest!recordVerdict
  <2> HIDE DEF s
  <2> QED  BY <1>1, <1>2, <2>1, <2>2
<1>5. CASE Attest!refund(t)
  <2> DEFINE s == [escrow[t] EXCEPT !.state = IF @ = "Funded" THEN "Expired" ELSE "Resolved"]
  <2>1. s \in Struct /\ s.state \notin {"Funded", "Delivered"}
    BY <1>1 DEF Struct
  <2>2. /\ escrow' = [escrow EXCEPT ![t] = s] /\ escrow[t].state \in {"Funded", "Delivered"}
        /\ UNCHANGED << eas, call, offchain, published >>
    BY <1>1, <1>5 DEF Attest!refund
  <2> HIDE DEF s
  <2> QED  BY <1>2, <2>1, <2>2
<1>6. ASSUME NEW r \in Attest!ContractRoutes \cup {"ArbitrationRuling"}, Attest!pay(t, r)
      PROVE  AttestInv'
  <2> DEFINE s == [escrow[t] EXCEPT
                     !.state = IF r = "ArbitrationRuling" THEN "Resolved" ELSE "Completed",
                     !.route = r,
                     !.verdict = IF r = "PassingVerdict" THEN "verdict" ELSE @]
  <2>1. s \in Struct /\ s.state \notin {"Funded", "Delivered"}
    BY <1>1 DEF Struct, Attest!ContractRoutes, Attest!CompletionRoute
  <2>2. /\ escrow' = [escrow EXCEPT ![t] = s] /\ escrow[t].state \in {"Funded", "Delivered"}
        /\ UNCHANGED << eas, call, offchain, published >>
    BY <1>1, <1>6 DEF Attest!pay
  <2> HIDE DEF s
  <2> QED  BY <1>2, <2>1, <2>2
<1> QED  BY <1>3, <1>4, <1>5, <1>6

(* EAS changes behind its proxy: what was signed for it is not read anew.  *)
LEMMA Upgrades ==
    ASSUME AttestInv, NEW s, Attest!upgrade(s)
    PROVE  AttestInv'
<1>1. /\ eas' = [eas EXCEPT !.struct = s, !.upgrades = @ + 1]
      /\ UNCHANGED << escrow, call, offchain, published >>
  BY DEF Attest!upgrade
<1>2. AttestTyped'
  BY <1>1 DEF AttestInv, AttestTyped
<1>3. \A r : True(r)' <=> True(r)
  BY <1>1 DEF True
<1>4. \A c \in Calls : Faithful(call[c])'
  BY <1>1, <1>3 DEF AttestInv, Faithful
<1> QED  BY <1>1, <1>2, <1>3, <1>4 DEF AttestInv

LEMMA RequestReads ==
    ASSUME AttestInv, NEW c \in Calls,
           \/ \E w \in Callers, t \in Tasks, k \in {"offchain", "delegated"} : Attest!request(c, w, t, k)
           \/ Attest!readTask(c) \/ Attest!loadCompletedTask(c)
    PROVE  AttestInv'
<1>1. call[c] \in Request /\ Faithful(call[c]) /\ escrow \in [Tasks -> Struct]
  BY DEF AttestInv, AttestTyped
<1>2. ASSUME NEW f \in Request, Faithful(f), Attest!Goes(c, f)
      PROVE  AttestInv'
  BY <1>2, RequestGoesOn DEF Attest!Goes
<1>3. ASSUME NEW w \in Callers, NEW t \in Tasks, NEW k \in {"offchain", "delegated"},
             Attest!request(c, w, t, k)
      PROVE  AttestInv'
  <2> DEFINE f == [ pc |-> "getTask", caller |-> w, task |-> t, kind |-> k ]
  <2>1. f \in Request /\ f.pc = "getTask"
    BY DEF Request, Requested, Kinds
  <2>2. Attest!Goes(c, f)
    BY <1>3 DEF Attest!request
  <2> HIDE DEF f
  <2> QED  BY <1>2, <2>1, <2>2 DEF Faithful
<1>4. CASE Attest!readTask(c)
  <2>1. call[c] \in Requested
    <3>1. call[c].pc = "getTask"
      BY <1>4 DEF Attest!readTask
    <3> QED  BY <1>1, <3>1, ByPc
  <2> DEFINE f == [ pc |-> "getLogs", caller |-> call[c].caller, task |-> call[c].task,
                    kind |-> call[c].kind, seen |-> escrow[call[c].task] ]
  <2>2. f \in Seeing /\ f.seen = escrow[f.task]
    BY <1>1, <2>1 DEF Requested, Seeing
  <2>3. Attest!Goes(c, f) \/ Attest!Goes(c, Attest!Idle)
    BY <1>4 DEF Attest!readTask
  <2> HIDE DEF f
  <2>4. f \in Request /\ Faithful(f)
    BY <2>2, Pcs DEF Faithful
  <2> QED  BY <1>2, <2>3, <2>4, IdleFaithful
<1>5. CASE Attest!loadCompletedTask(c)
  <2>1. call[c] \in Seeing
    <3>1. call[c].pc = "getLogs"
      BY <1>5 DEF Attest!loadCompletedTask
    <3> QED  BY <1>1, <3>1, ByPc
  <2> DEFINE f == [ pc |-> "inputs", task |-> call[c].task, kind |-> call[c].kind,
                    seen |-> [call[c].seen EXCEPT !.route = escrow[call[c].task].route] ]
  <2>2. \/ Attest!Goes(c, Attest!Idle)
        \/ /\ Attest!Goes(c, f)
           /\ call[c].seen.state \in {"Completed", "Resolved"}
           /\ escrow[call[c].task].route \in Attest!CompletionRoute
    BY <1>5 DEF Attest!loadCompletedTask
  <2>3. ASSUME call[c].seen.state \in {"Completed", "Resolved"},
               escrow[call[c].task].route \in Attest!CompletionRoute
        PROVE  f \in Loaded /\ f.seen = escrow[f.task] /\ f.seen.route \in Attest!CompletionRoute
    <3>1. call[c].seen = escrow[call[c].task] /\ call[c].task \in Tasks /\ call[c].kind \in Kinds
      BY <1>1, <2>1, <2>3 DEF Faithful, Seeing
    <3>2. [call[c].seen EXCEPT !.route = escrow[call[c].task].route] = escrow[call[c].task]
      BY <1>1, <3>1 DEF Struct
    <3> QED  BY <1>1, <2>3, <3>1, <3>2 DEF Loaded
  <2> HIDE DEF f
  <2>4. ASSUME f \in Loaded, f.seen = escrow[f.task], f.seen.route \in Attest!CompletionRoute
        PROVE  f \in Request /\ Faithful(f)
    BY <2>4, Pcs DEF Faithful
  <2> QED  BY <1>2, <2>2, <2>3, <2>4, IdleFaithful
<1> QED  BY <1>3, <1>4, <1>5

LEMMA RequestSigns ==
    ASSUME AttestInv, NEW c \in Calls,
           \/ Attest!readEasInputs(c) \/ Attest!signCompletionAttestation(c)
           \/ Attest!signDelegatedCompletionRequest(c) \/ Attest!dropped(c)
    PROVE  AttestInv'
<1>1. /\ call[c] \in Request /\ Faithful(call[c]) /\ escrow \in [Tasks -> Struct]
      /\ eas.nonce \in Nat
  BY DEF AttestInv, AttestTyped
<1>2. ASSUME NEW f \in Request, Faithful(f), Attest!Goes(c, f)
      PROVE  AttestInv'
  BY <1>2, RequestGoesOn DEF Attest!Goes
<1>3. CASE Attest!readEasInputs(c)
  <2>1. call[c] \in Loaded
    <3>1. call[c].pc = "inputs"
      BY <1>3 DEF Attest!readEasInputs
    <3> QED  BY <1>1, <3>1, ByPc
  <2>2. call[c].seen = escrow[call[c].task] /\ call[c].seen.route \in Attest!CompletionRoute
    BY <1>1, <2>1, Pcs DEF Faithful
  <2>3. CASE call[c].kind = "offchain" /\ Attest!Goes(c, [call[c] EXCEPT !.pc = "sign"])
    <3> DEFINE f == [call[c] EXCEPT !.pc = "sign"]
    <3>1. f \in Copying /\ f.seen = call[c].seen /\ f.task = call[c].task
      BY <2>1, <2>3 DEF Loaded, Copying
    <3> HIDE DEF f
    <3>2. f \in Request /\ Faithful(f)
      BY <2>2, <3>1, Pcs DEF Faithful
    <3>3. Attest!Goes(c, f)
      BY <2>3 DEF f
    <3> QED  BY <1>2, <3>2, <3>3
  <2>4. ASSUME NEW s \in Attest!resolveEnvelope,
               Attest!Goes(c, [ pc |-> "sign", task |-> call[c].task, kind |-> "delegated",
                                seen |-> call[c].seen, struct |-> s, nonce |-> eas.nonce ])
        PROVE  AttestInv'
    <3> DEFINE f == [ pc |-> "sign", task |-> call[c].task, kind |-> "delegated",
                      seen |-> call[c].seen, struct |-> s, nonce |-> eas.nonce ]
    <3>1. f \in Delegating /\ f.seen = call[c].seen /\ f.task = call[c].task
      BY <1>1, <2>1 DEF Loaded, Delegating, Attest!resolveEnvelope
    <3>2. Attest!Goes(c, f)
      BY <2>4
    <3> HIDE DEF f
    <3>3. f \in Request /\ Faithful(f)
      BY <2>2, <3>1, Pcs DEF Faithful
    <3> QED  BY <1>2, <3>2, <3>3
  <2> QED  BY <1>2, <1>3, <2>3, <2>4, IdleFaithful DEF Attest!readEasInputs
<1>4. CASE Attest!signCompletionAttestation(c)
  <2>1. call[c] \in Copying
    BY <1>1, <1>4, ByPc DEF Attest!signCompletionAttestation
  <2>2. /\ call[c].seen = escrow[call[c].task] /\ call[c].seen.route \in Attest!CompletionRoute
        /\ call[c].task \in Tasks
    BY <1>1, <2>1, Pcs DEF Faithful, Copying
  <2>3. True(Attest!completionRecord(call[c].task, call[c].seen))
    BY <2>2 DEF True, Attest!completionRecord
  <2> QED  BY <1>4, <2>3, IdleFaithful, RequestGoesOn DEF Attest!signCompletionAttestation
<1>5. CASE Attest!signDelegatedCompletionRequest(c)
  <2>1. call[c] \in Delegating
    BY <1>1, <1>5, ByPc DEF Attest!signDelegatedCompletionRequest
  <2>2. /\ call[c].seen = escrow[call[c].task] /\ call[c].seen.route \in Attest!CompletionRoute
        /\ call[c].task \in Tasks /\ call[c].seen \in Struct
        /\ call[c].struct \in VERIFIED_ATTEST_ENVELOPES /\ call[c].nonce \in Nat
    BY <1>1, <2>1, Pcs DEF Faithful, Delegating
  <2> DEFINE r == Attest!completionRecord(call[c].task, call[c].seen)
  <2>3. True(r)
    BY <2>2 DEF True, Attest!completionRecord
  <2>4. r \in Records
    BY <2>2 DEF Records
  <2> HIDE DEF r
  <2> DEFINE f == [ pc |-> "signed", struct |-> call[c].struct, nonce |-> call[c].nonce,
                    deadline |-> Structs[call[c].struct], record |-> r ]
  <2>5. f \in Delegated /\ f.record = r
    BY <2>2, <2>4 DEF Delegated
  <2>6. Attest!Goes(c, f)
    BY <1>5 DEF Attest!signDelegatedCompletionRequest, r
  <2> HIDE DEF f
  <2>7. f \in Request /\ Faithful(f)
    BY <2>3, <2>5, Pcs DEF Faithful
  <2> QED  BY <1>2, <2>6, <2>7
<1>6. CASE Attest!dropped(c)
  BY <1>2, <1>6, IdleFaithful DEF Attest!dropped
<1> QED  BY <1>3, <1>4, <1>5, <1>6

(* EAS takes a record at its nonce, or reverts. *)
LEMMA Submits ==
    ASSUME AttestInv, NEW c \in Calls, Attest!attestByDelegation(c)
    PROVE  AttestInv'
<1>1. /\ call[c] \in Request /\ Faithful(call[c]) /\ escrow \in [Tasks -> Struct]
      /\ published \in Seq(Records) /\ eas.nonce \in Nat /\ eas.nonce = Len(published)
  BY DEF AttestInv, AttestTyped
<1>2. call[c] \in Delegated /\ True(call[c].record) /\ call[c].record \in Records
  <2>1. call[c] \in Delegated
    BY <1>1, ByPc DEF Attest!attestByDelegation
  <2> QED  BY <1>1, <2>1, Pcs DEF Faithful, Delegated
<1>3. call' = [call EXCEPT ![c] = Attest!Idle] /\ UNCHANGED << escrow, offchain >>
  BY DEF Attest!attestByDelegation
<1>4. CASE UNCHANGED << eas, published >>
  BY <1>3, <1>4, IdleFaithful, RequestGoesOn
<1>5. CASE /\ eas' = [eas EXCEPT !.nonce = @ + 1]
           /\ published' = Append(published, call[c].record)
  <2>1. /\ published' \in Seq(Records) /\ Len(published') = Len(published) + 1
        /\ \A i \in 1 .. Len(published') :
             published'[i] = IF i = Len(published) + 1 THEN call[c].record ELSE published[i]
    BY <1>1, <1>2, <1>5
  <2>2. \A r : True(r)' <=> True(r)
    BY <1>3 DEF True
  <2>3. \A i \in 1 .. Len(published') : True(published[i])'
    <3>1. \A i \in 1 .. Len(published') : True(published'[i])
      BY <1>1, <1>2, <2>1 DEF AttestInv
    <3> QED  BY <2>2, <3>1
  <2>4. \A d \in Calls : Faithful(call'[d]) /\ call'[d] \in Request
    BY <1>3, IdleFaithful DEF AttestInv, AttestTyped
  <2>5. \A d \in Calls : Faithful(call[d])'
    BY <1>3, <2>2, <2>4 DEF Faithful
  <2>6. AttestTyped'
    <3>1. call' \in [Calls -> Request]
      BY <1>3, IdleFaithful DEF AttestInv, AttestTyped
    <3>2. /\ eas'.nonce = eas.nonce + 1
          /\ eas' = [ struct |-> eas'.struct, upgrades |-> eas'.upgrades, nonce |-> eas'.nonce ]
      BY <1>5 DEF AttestInv, AttestTyped
    <3> QED  BY <1>1, <1>3, <2>1, <3>1, <3>2 DEF AttestInv, AttestTyped
  <2> QED  BY <1>3, <2>2, <2>3, <2>5, <2>6 DEF AttestInv
<1> QED  BY <1>4, <1>5 DEF Attest!attestByDelegation

(***************************************************************************)
(* However many requests read a task and EAS in however many steps, a      *)
(* completion has one description, off chain and published, and it is what *)
(* the contract ended with: lib/attestation takes only a task it saw ended,*)
(* and what has ended on chain is read the same by everybody.              *)
(***************************************************************************)
THEOREM Attested == Attest!Spec => []Attest!OneCompletionOneRecord
<1>1. Attest!Init => AttestInv
  <2> SUFFICES ASSUME Attest!Init PROVE AttestInv
    OBVIOUS
  <2>1. /\ escrow = [t \in Tasks |-> Attest!Fresh] /\ call = [c \in Calls |-> Attest!Idle]
        /\ offchain = {} /\ published = << >>
    BY DEF Attest!Init
  <2>2. PICK s \in DOMAIN Structs : eas = [ struct |-> s, upgrades |-> 0, nonce |-> 0 ]
    BY DEF Attest!Init
  <2>3. Attest!Fresh \in Struct /\ Attest!Fresh.route = "none"
    BY DEF Attest!Fresh, Struct, Attest!Zero
  <2>4. AttestTyped
    BY <2>1, <2>2, <2>3, IdleFaithful DEF AttestTyped
  <2> QED  BY <2>1, <2>3, <2>4, IdleFaithful DEF AttestInv
<1>2. AttestInv /\ Attest!Next => AttestInv'
  BY EscrowMoves, Upgrades, RequestReads, RequestSigns, Submits DEF Attest!Next
<1>3. AttestInv /\ UNCHANGED Attest!own => AttestInv'
  <2> SUFFICES ASSUME AttestInv, UNCHANGED Attest!own PROVE AttestInv'
    OBVIOUS
  <2>1. UNCHANGED << escrow, eas, call, offchain, published >>
    BY DEF Attest!own
  <2>2. escrow' \in [Tasks -> Struct]
    BY <2>1 DEF AttestInv, AttestTyped
  <2> QED  BY <2>1, <2>2, ChainGoesOn DEF AttestInv
<1>4. AttestInv => Attest!OneCompletionOneRecord
  <2> SUFFICES ASSUME AttestInv PROVE Attest!OneCompletionOneRecord
    OBVIOUS
  <2>1. \A r \in Attest!Signed : True(r)
    BY DEF AttestInv, Attest!Signed, Faithful
  <2>2. \A c \in Calls : call[c].pc = "signed" => call[c].struct \in VERIFIED_ATTEST_ENVELOPES
    <3> SUFFICES ASSUME NEW c \in Calls, call[c].pc = "signed"
                 PROVE  call[c].struct \in VERIFIED_ATTEST_ENVELOPES
      OBVIOUS
    <3>1. call[c] \in Delegated
      BY ByPc DEF AttestInv, AttestTyped
    <3> QED  BY <3>1 DEF Delegated
  <2>3. eas.nonce = Len(published)
    BY DEF AttestInv, AttestTyped
  <2> QED  BY <2>1, <2>2, <2>3 DEF Attest!OneCompletionOneRecord, True
<1> QED  BY <1>1, <1>2, <1>3, <1>4, PTL DEF Attest!Spec
-----------------------------------------------------------------------------
(* The MCP tools *)

ToolNames == {"get_task_status", "confirm_task_completion", "dispute_task", "get_signed_verdict"}
ChainTask == [ state : {"None", "Funded", "Delivered", "Disputed", "Arbitrating", "Resolved",
                        "Completed", "Expired"},
               deadline : Nat, delivered : BOOLEAN, contested : BOOLEAN ]
ToolRow   == [ status : TaskStatus, funded : BOOLEAN ]

Codes == { "UNAUTHENTICATED", "FORBIDDEN", "INVALID_TASK_STATE", "INTERNAL", "TASK_NOT_FOUND",
           "VERDICT_COMPUTATION_FAILED", "VERDICT_INPUT_INVALID", "VERDICT_PASSED",
           "DISPUTE_REQUIRES_VERDICT" }
Words == Codes \cup { "reclaim", "task_description", "settled", "delivered", "pay early",
                      "disputed", "on chain", "verdict" }

Asking == [ pc : {"unauthenticated", "row", "chain", "read", "sign", "write"}, name : ToolNames,
            caller : {"agent", "worker", "stranger", "nobody"},
            bundle : {"none", "committed", "other"},
            row : ToolRow, onChain : ChainTask \cup {Tools!Unread} ]
Told   == [ pc : {"told"}, caller : {"agent", "worker", "stranger", "nobody"},
            bundle : {"none", "committed", "other"}, said : SUBSET Words, current : BOOLEAN ]

ToolTyped ==
    /\ clock \in Nat
    /\ chain \in ChainTask
    /\ taskRow \in ToolRow
    /\ asked \in [ToolCalls -> {Tools!Idle} \cup Asking \cup Told]

(* What the state of a task says of its past, and the row of the chain's.  *)
Sound ==
    /\ chain.state \in {"None", "Funded"} => ~ chain.delivered
    /\ chain.state \in {"Disputed", "Arbitrating", "Resolved"} => chain.contested
    /\ taskRow.status = "completed" => chain.state \in {"Completed", "Resolved"}

EndedRow == {"disputed", "completed", "expired"}

(* What was read and does not pass. *)
Read(f) ==
    /\ f.onChain.delivered => chain.delivered
    /\ f.onChain.state \in {"Disputed", "Arbitrating", "Resolved"} => chain.contested
    /\ f.onChain.state \in {"Completed", "Resolved"} => chain.state \in {"Completed", "Resolved"}
    /\ f.pc \in {"chain", "read", "sign", "write"} =>
         /\ Tools!Authorized(f.name, f.caller)
         /\ f.bundle # "none" => f.caller \in {"agent", "worker"}
         /\ f.row.status = "disputed" => taskRow.status \in EndedRow
    /\ f.pc = "row" /\ f.bundle # "none" => f.name \in {"dispute_task", "get_signed_verdict"}
    /\ f.pc = "sign" => chain.delivered /\ f.bundle # "none"
    /\ f.pc = "write" => IF f.bundle = "none" THEN chain.contested ELSE chain.delivered

(* What was said and stays true. *)
Holds(f) ==
    /\ "reclaim" \in f.said /\ f.current =>
         /\ ~ chain.delivered /\ chain.state # "None"
         /\ chain.state = "Funded" => clock >= chain.deadline
    /\ "settled" \in f.said => chain.state \in {"Completed", "Resolved"}
    /\ "disputed" \in f.said => taskRow.status \in EndedRow
    /\ "on chain" \in f.said => chain.contested
    /\ "verdict" \in f.said => chain.delivered /\ f.caller \in {"agent", "worker"}

Keeping(f) ==
    /\ f \in Asking => Read(f)
    /\ f \in Told => Holds(f)

ToolInv ==
    /\ ToolTyped /\ Sound
    /\ \A c \in ToolCalls : Keeping(asked[c])

LEMMA ToolPcs ==
    ASSUME NEW f
    PROVE  /\ f = Tools!Idle => f.pc = "idle"
           /\ f \in Asking => f.pc \in {"unauthenticated", "row", "chain", "read", "sign", "write"}
           /\ f \in Told => f.pc = "told"
BY DEF Tools!Idle, Asking, Told

(* The chain, the row and the clock go on, and take nothing back.          *)
LEMMA WorldGoesOn ==
    ASSUME ToolInv, ToolTyped', Sound', UNCHANGED asked,
           chain.delivered => chain'.delivered,
           chain.contested => chain'.contested,
           chain.state \in {"Completed", "Resolved"} => chain'.state \in {"Completed", "Resolved"},
           taskRow.status \in EndedRow => taskRow'.status \in EndedRow,
           /\ ~ chain.delivered /\ chain.state # "None"
           /\ chain.state = "Funded" => clock >= chain.deadline
           => /\ ~ chain'.delivered /\ chain'.state # "None"
              /\ chain'.state = "Funded" => clock' >= chain'.deadline
    PROVE  ToolInv'
<1>1. ASSUME NEW f \in Asking, Read(f) PROVE Read(f)'
  BY <1>1 DEF Read
<1>2. ASSUME NEW f \in Told, Holds(f) PROVE Holds(f)'
  BY <1>2 DEF Holds
<1>3. \A f : Keeping(f) => Keeping(f)'
  BY <1>1, <1>2 DEF Keeping
<1> QED  BY <1>3 DEF ToolInv, Keeping

(* A call goes on, and may move the row to disputed. *)
LEMMA ToolGoesOn ==
    ASSUME ToolInv, NEW c \in ToolCalls, NEW f \in {Tools!Idle} \cup Asking \cup Told,
           asked' = [asked EXCEPT ![c] = f], Keeping(f)', UNCHANGED << clock, chain >>,
           taskRow' \in ToolRow,
           taskRow' = taskRow \/ taskRow'.status = "disputed"
    PROVE  ToolInv'
<1>1. ASSUME NEW g \in Asking, Read(g) PROVE Read(g)'
  BY <1>1 DEF Read, EndedRow, Tools!Authorized, Tools!Parties
<1>2. ASSUME NEW g \in Told, Holds(g) PROVE Holds(g)'
  BY <1>2 DEF Holds, EndedRow
<1>3. ASSUME NEW d \in ToolCalls PROVE Keeping(asked[d])'
  BY <1>1, <1>2 DEF ToolInv, ToolTyped, Keeping, EndedRow, Read
<1>4. ToolTyped' /\ Sound'
  BY DEF ToolInv, ToolTyped, Sound
<1> QED  BY <1>3, <1>4 DEF ToolInv

(* A call reads on. *)
LEMMA Asks ==
    ASSUME ToolInv, NEW c \in ToolCalls, NEW f \in Asking, Tools!Goes(c, f), UNCHANGED taskRow, Read(f)
    PROVE  ToolInv'
<1>1. /\ asked' = [asked EXCEPT ![c] = f] /\ UNCHANGED << clock, chain, taskRow >>
      /\ taskRow' \in ToolRow
  BY DEF Tools!Goes, ToolInv, ToolTyped
<1>2. Keeping(f)'
  BY <1>1, ToolPcs DEF Keeping, Read
<1> QED  BY <1>1, <1>2, ToolGoesOn

(* A call is answered. *)
LEMMA Tells ==
    ASSUME ToolInv, NEW c \in ToolCalls, asked[c] \in Asking, NEW said \in SUBSET Words,
           Tools!toolAnswer(c, said), taskRow' \in ToolRow,
           taskRow' = taskRow \/ taskRow'.status = "disputed",
           "reclaim" \in said => Tools!reclaim(asked[c].onChain),
           "settled" \in said => chain.state \in {"Completed", "Resolved"},
           "disputed" \in said => taskRow'.status \in EndedRow,
           "on chain" \in said => chain.contested,
           "verdict" \in said => chain.delivered /\ asked[c].caller \in {"agent", "worker"}
    PROVE  ToolInv'
<1>0. PICK f : f = [ pc |-> "told", caller |-> asked[c].caller, bundle |-> asked[c].bundle,
                     said |-> said, current |-> asked[c].onChain = chain ]
  OBVIOUS
<1>1. /\ f \in Told /\ f.said = said /\ f.caller = asked[c].caller
      /\ f.current => asked[c].onChain = chain
  BY <1>0 DEF Asking, Told
<1>2. asked' = [asked EXCEPT ![c] = f] /\ UNCHANGED << clock, chain >>
  BY <1>0 DEF Tools!toolAnswer, Tools!Goes
<1>3. ASSUME "reclaim" \in said, f.current
      PROVE  ~ chain.delivered /\ chain.state = "Funded" /\ clock >= chain.deadline
  BY <1>1, <1>3 DEF Tools!reclaim, ToolInv, Sound
<1>4. Holds(f)'
  BY <1>1, <1>2, <1>3 DEF Holds
<1>5. Keeping(f)'
  BY <1>1, <1>4, ToolPcs DEF Keeping
<1> QED  BY <1>1, <1>2, <1>5, ToolGoesOn

LEMMA Errs ==
    ASSUME ToolInv, NEW c \in ToolCalls, asked[c] \in Asking, NEW code \in Codes, Tools!toolError(c, code)
    PROVE  ToolInv'
<1>1. Tools!toolAnswer(c, {code}) /\ UNCHANGED taskRow
  BY DEF Tools!toolError
<1>2. /\ {code} \in SUBSET Words
      /\ {"reclaim", "settled", "disputed", "on chain", "verdict"} \cap {code} = {}
  BY DEF Codes, Words
<1>3. taskRow' \in ToolRow
  BY <1>1 DEF ToolInv, ToolTyped
<1> QED  BY <1>1, <1>2, <1>3, Tells

(* What a call that is under way has read. *)
LEMMA Under ==
    ASSUME ToolInv, NEW c \in ToolCalls,
           asked[c].pc \in {"unauthenticated", "row", "chain", "read", "sign", "write"}
    PROVE  asked[c] \in Asking /\ Read(asked[c])
<1>1. asked[c] \in {Tools!Idle} \cup Asking \cup Told /\ Keeping(asked[c])
  BY DEF ToolInv, ToolTyped
<1>2. asked[c] \in Asking
  BY <1>1, ToolPcs
<1> QED  BY <1>1, <1>2 DEF Keeping
-----------------------------------------------------------------------------
LEMMA Invokes ==
    ASSUME ToolInv, NEW c \in ToolCalls, NEW name \in ToolNames,
           NEW who \in Tools!Parties \cup {"stranger", "nobody"},
           NEW bundle \in {"none", "committed", "other"}, Tools!invoke(c, name, who, bundle)
    PROVE  ToolInv'
<1> DEFINE f == [ pc |-> IF who = "nobody" /\ name # "get_task_status" THEN "unauthenticated" ELSE "row",
                  name |-> name, caller |-> who, bundle |-> bundle,
                  row |-> taskRow, onChain |-> Tools!Unread ]
<1>1. /\ f \in Asking /\ f.onChain = Tools!Unread /\ f.pc \in {"unauthenticated", "row"}
      /\ f.bundle # "none" => f.name \in {"dispute_task", "get_signed_verdict"}
  BY DEF Asking, ToolInv, ToolTyped, Tools!Parties, Tools!invoke
<1>2. Tools!Goes(c, f) /\ UNCHANGED taskRow
  BY DEF Tools!invoke
<1> HIDE DEF f
<1>3. Read(f)
  BY <1>1 DEF Read, Tools!Unread
<1> QED  BY <1>1, <1>2, <1>3, Asks

LEMMA ReadsRow ==
    ASSUME ToolInv, NEW c \in ToolCalls,
           Tools!unauthenticated(c) \/ Tools!getTaskByPaymentId(c)
             \/ \E code \in {"INTERNAL", "TASK_NOT_FOUND", "VERDICT_COMPUTATION_FAILED"} : Tools!fails(c, code)
    PROVE  ToolInv'
<1>1. CASE Tools!unauthenticated(c)
  BY <1>1, Under, Errs DEF Tools!unauthenticated, Codes
<1>2. ASSUME NEW code \in {"INTERNAL", "TASK_NOT_FOUND", "VERDICT_COMPUTATION_FAILED"}, Tools!fails(c, code)
      PROVE  ToolInv'
  BY <1>2, Under, Errs DEF Tools!fails, Codes
<1>3. CASE Tools!getTaskByPaymentId(c)
  <2>1. asked[c].pc = "row" /\ asked[c] \in Asking /\ Read(asked[c])
    BY <1>3, Under DEF Tools!getTaskByPaymentId
  <2> DEFINE f == [asked[c] EXCEPT !.pc = "chain", !.row = taskRow]
  <2>2. \/ Tools!toolError(c, "FORBIDDEN") \/ Tools!toolError(c, "INVALID_TASK_STATE")
        \/ /\ Tools!toolAnswer(c, {"settled"}) /\ UNCHANGED taskRow
           /\ taskRow.status = "completed"
        \/ Tools!Goes(c, f) /\ UNCHANGED taskRow /\ Tools!Authorized(asked[c].name, asked[c].caller)
    BY <1>3 DEF Tools!getTaskByPaymentId
  <2>3. /\ f \in Asking /\ f.pc = "chain" /\ f.row = taskRow /\ f.onChain = asked[c].onChain
        /\ f.name = asked[c].name /\ f.caller = asked[c].caller /\ f.bundle = asked[c].bundle
    BY <2>1 DEF Asking, ToolInv, ToolTyped
  <2> HIDE DEF f
  <2>4. ASSUME Tools!Authorized(asked[c].name, asked[c].caller) PROVE Read(f)
    BY <2>1, <2>3, <2>4 DEF Read, EndedRow, Tools!Authorized, Tools!Parties
  <2>5. CASE Tools!toolAnswer(c, {"settled"}) /\ UNCHANGED taskRow /\ taskRow.status = "completed"
    <3>1. chain.state \in {"Completed", "Resolved"} /\ taskRow' \in ToolRow
      BY <2>5 DEF ToolInv, Sound, ToolTyped
    <3>2. {"settled"} \in SUBSET Words
      BY DEF Words, Codes
    <3> QED  BY <2>1, <2>5, <3>1, <3>2, Tells
  <2> QED  BY <2>1, <2>2, <2>3, <2>4, <2>5, Asks, Errs DEF Codes
<1> QED  BY <1>1, <1>2, <1>3

LEMMA ReadsChain ==
    ASSUME ToolInv, NEW c \in ToolCalls, Tools!getOnChainTask(c)
    PROVE  ToolInv'
<1>1. asked[c].pc = "chain" /\ asked[c] \in Asking /\ Read(asked[c])
  BY Under DEF Tools!getOnChainTask
<1>2. PICK seen \in {chain, Tools!Unread} :
         Tools!Goes(c, [asked[c] EXCEPT !.pc = "read", !.onChain = seen]) /\ UNCHANGED taskRow
  BY DEF Tools!getOnChainTask
<1> DEFINE f == [asked[c] EXCEPT !.pc = "read", !.onChain = seen]
<1>3. /\ f \in Asking /\ f.pc = "read" /\ f.row = asked[c].row /\ f.onChain = seen
      /\ f.name = asked[c].name /\ f.caller = asked[c].caller /\ f.bundle = asked[c].bundle
  BY <1>1, <1>2 DEF Asking, ToolInv, ToolTyped
<1>4. /\ seen.delivered => chain.delivered
      /\ seen.state \in {"Disputed", "Arbitrating", "Resolved"} => chain.contested
      /\ seen.state \in {"Completed", "Resolved"} => chain.state \in {"Completed", "Resolved"}
  BY <1>2 DEF ToolInv, Sound, Tools!Unread
<1>5. Read(f)
  <2> HIDE DEF f
  <2> QED  BY <1>1, <1>3, <1>4 DEF Read
<1> QED  BY <1>2, <1>3, <1>5, Asks

LEMMA Informs ==
    ASSUME ToolInv, NEW c \in ToolCalls, Tools!get_task_status(c) \/ Tools!confirm_task_completion(c)
    PROVE  ToolInv'
<1>1. asked[c].pc = "read" /\ asked[c] \in Asking /\ Read(asked[c]) /\ UNCHANGED taskRow
      /\ taskRow' \in ToolRow
  BY Under DEF Tools!get_task_status, Tools!confirm_task_completion, ToolInv, ToolTyped
<1>2. CASE Tools!get_task_status(c)
  <2> DEFINE said == (IF Tools!reclaim(asked[c].onChain) THEN {"reclaim"} ELSE {})
                     \cup (IF asked[c].caller = "agent" THEN {"task_description"} ELSE {})
  <2>1. said \in SUBSET Words /\ ("reclaim" \in said => Tools!reclaim(asked[c].onChain))
        /\ {"settled", "disputed", "on chain", "verdict"} \cap said = {}
    BY DEF Words, Codes
  <2>2. Tools!toolAnswer(c, said)
    BY <1>2 DEF Tools!get_task_status
  <2> HIDE DEF said
  <2> QED  BY <1>1, <2>1, <2>2, Tells
<1>3. CASE Tools!confirm_task_completion(c)
  <2>1. PICK word \in {"settled", "delivered", "pay early"} :
          /\ Tools!toolAnswer(c, {word})
          /\ word = "settled" => asked[c].onChain.state \in {"Completed", "Resolved"}
    BY <1>3 DEF Tools!confirm_task_completion
  <2>2. word = "settled" => chain.state \in {"Completed", "Resolved"}
    BY <1>1, <2>1 DEF Read
  <2>3. {word} \in SUBSET Words /\ {"reclaim", "disputed", "on chain", "verdict"} \cap {word} = {}
    BY <2>1 DEF Words, Codes
  <2> QED  BY <1>1, <2>1, <2>2, <2>3, Tells
<1> QED  BY <1>2, <1>3

(* The tools that ask for a verdict. *)
LEMMA Records_ ==
    ASSUME ToolInv, NEW c \in ToolCalls, asked[c].pc \in {"read", "sign"}, NEW said \in SUBSET Words,
           Tools!Records(c, said),
           {"reclaim", "settled"} \cap said = {},
           "on chain" \in said => chain.contested,
           "verdict" \in said => chain.delivered /\ asked[c].caller \in {"agent", "worker"},
           IF asked[c].bundle = "none" THEN chain.contested ELSE chain.delivered
    PROVE  ToolInv'
<1>1. asked[c] \in Asking /\ Read(asked[c])
  BY Under
<1>2. CASE asked[c].row.status = "disputed" /\ Tools!toolAnswer(c, said) /\ UNCHANGED taskRow
  <2>1. taskRow'.status \in EndedRow /\ taskRow' \in ToolRow
    BY <1>1, <1>2 DEF Read, ToolInv, ToolTyped
  <2> QED  BY <1>1, <1>2, <2>1, Tells
<1>3. CASE Tools!Goes(c, [asked[c] EXCEPT !.pc = "write"]) /\ UNCHANGED taskRow
  <2> DEFINE f == [asked[c] EXCEPT !.pc = "write"]
  <2>1. /\ f \in Asking /\ f.pc = "write" /\ f.row = asked[c].row /\ f.onChain = asked[c].onChain
        /\ f.name = asked[c].name /\ f.caller = asked[c].caller /\ f.bundle = asked[c].bundle
    BY <1>1 DEF Asking
  <2>2. Read(f)
    <3> HIDE DEF f
    <3> QED  BY <1>1, <2>1 DEF Read
  <2> QED  BY <1>3, <2>1, <2>2, Asks
<1> QED  BY <1>2, <1>3 DEF Tools!Records

LEMMA Judges ==
    ASSUME ToolInv, NEW c \in ToolCalls,
           Tools!computeAndSignVerdict(c) \/ Tools!get_signed_verdict(c) \/ Tools!dispute_task(c)
    PROVE  ToolInv'
<1>0. asked[c].pc \in {"read", "sign"}
  BY DEF Tools!computeAndSignVerdict, Tools!get_signed_verdict, Tools!dispute_task
<1>1. asked[c] \in Asking /\ Read(asked[c]) /\ taskRow \in ToolRow
  BY <1>0, Under DEF ToolInv, ToolTyped
<1>2. CASE Tools!computeAndSignVerdict(c)
  <2> DEFINE f == [asked[c] EXCEPT !.pc = "sign"]
  <2>1. /\ asked[c].pc = "read" /\ asked[c].bundle # "none"
        /\ \/ Tools!toolError(c, "VERDICT_COMPUTATION_FAILED")
           \/ Tools!toolError(c, "VERDICT_INPUT_INVALID")
           \/ asked[c].onChain.delivered /\ Tools!Goes(c, f) /\ UNCHANGED taskRow
    BY <1>1, <1>2 DEF Tools!computeAndSignVerdict, Asking, ChainTask
  <2>2. /\ f \in Asking /\ f.pc = "sign" /\ f.row = asked[c].row /\ f.onChain = asked[c].onChain
        /\ f.name = asked[c].name /\ f.caller = asked[c].caller /\ f.bundle = asked[c].bundle
    BY <1>1 DEF Asking
  <2> HIDE DEF f
  <2>3. asked[c].onChain.delivered => Read(f)
    BY <1>1, <2>1, <2>2 DEF Read
  <2> QED  BY <1>1, <2>1, <2>2, <2>3, Asks, Errs DEF Codes
<1>3. CASE Tools!get_signed_verdict(c)
  <2>1. /\ asked[c].pc = "sign" /\ Tools!toolAnswer(c, {"verdict"}) /\ UNCHANGED taskRow
    BY <1>3 DEF Tools!get_signed_verdict
  <2>2. chain.delivered /\ asked[c].caller \in {"agent", "worker"}
    BY <1>1, <2>1 DEF Read
  <2>3. {"verdict"} \in SUBSET Words /\ {"reclaim", "settled", "disputed", "on chain"} \cap {"verdict"} = {}
    BY DEF Words, Codes
  <2> QED  BY <1>1, <2>1, <2>2, <2>3, Tells
<1>4. CASE Tools!dispute_task(c)
  <2>1. CASE asked[c].pc = "sign" /\ Tools!Records(c, {"disputed", "verdict"})
    <3>1. chain.delivered /\ asked[c].bundle # "none" /\ asked[c].caller \in {"agent", "worker"}
      BY <1>1, <2>1 DEF Read
    <3>2. {"disputed", "verdict"} \in SUBSET Words
          /\ {"reclaim", "settled"} \cap {"disputed", "verdict"} = {}
          /\ "on chain" \notin {"disputed", "verdict"}
      BY DEF Words, Codes
    <3> QED  BY <1>0, <2>1, <3>1, <3>2, Records_
  <2>2. CASE /\ asked[c].pc = "read" /\ asked[c].bundle = "none"
             /\ asked[c].onChain.state \in {"Disputed", "Arbitrating", "Resolved"}
             /\ Tools!Records(c, {"disputed", "on chain"})
    <3>1. chain.contested
      BY <1>1, <2>2 DEF Read
    <3>2. {"disputed", "on chain"} \in SUBSET Words
          /\ {"reclaim", "settled"} \cap {"disputed", "on chain"} = {}
          /\ "verdict" \notin {"disputed", "on chain"}
      BY DEF Words, Codes
    <3> QED  BY <1>0, <2>2, <3>1, <3>2, Records_
  <2>3. \/ Tools!toolError(c, "VERDICT_PASSED") \/ Tools!toolError(c, "DISPUTE_REQUIRES_VERDICT")
        \/ asked[c].pc = "sign" /\ Tools!Records(c, {"disputed", "verdict"})
        \/ /\ asked[c].pc = "read" /\ asked[c].bundle = "none"
           /\ asked[c].onChain.state \in {"Disputed", "Arbitrating", "Resolved"}
           /\ Tools!Records(c, {"disputed", "on chain"})
    BY <1>4 DEF Tools!dispute_task
  <2> QED  BY <1>1, <2>1, <2>2, <2>3, Errs DEF Codes
<1> QED  BY <1>2, <1>3, <1>4

(* The statement's own condition makes the answer true, not what was read. *)
LEMMA Writes ==
    ASSUME ToolInv, NEW c \in ToolCalls, Tools!write(c)
    PROVE  ToolInv'
<1>1. asked[c].pc = "write" /\ asked[c] \in Asking /\ Read(asked[c]) /\ taskRow \in ToolRow
  BY Under DEF Tools!write, ToolInv, ToolTyped
<1>2. CASE Tools!toolError(c, "INTERNAL")
  BY <1>1, <1>2, Errs DEF Codes
<1>3. CASE /\ taskRow' = [taskRow EXCEPT !.status = "disputed"]
           /\ \/ Tools!toolAnswer(c, {"disputed", IF asked[c].bundle = "none" THEN "on chain" ELSE "verdict"})
              \/ Tools!toolAnswer(c, {"INTERNAL"})
  <2>1. taskRow' \in ToolRow /\ taskRow'.status = "disputed"
    BY <1>1, <1>3 DEF ToolRow, TaskStatus
  <2>2. PICK word \in {"on chain", "verdict"} :
          /\ word = "on chain" => chain.contested
          /\ word = "verdict" => chain.delivered /\ asked[c].caller \in {"agent", "worker"}
          /\ Tools!toolAnswer(c, {"disputed", word}) \/ Tools!toolAnswer(c, {"INTERNAL"})
    <3>1. IF asked[c].bundle = "none" THEN chain.contested
          ELSE chain.delivered /\ asked[c].caller \in {"agent", "worker"}
      BY <1>1 DEF Read
    <3> QED  BY <1>3, <3>1
  <2>3. CASE Tools!toolAnswer(c, {"INTERNAL"})
    <3>1. {"INTERNAL"} \in SUBSET Words
          /\ {"reclaim", "settled", "disputed", "on chain", "verdict"} \cap {"INTERNAL"} = {}
      BY DEF Words, Codes
    <3> QED  BY <1>1, <2>1, <2>3, <3>1, Tells
  <2>4. CASE Tools!toolAnswer(c, {"disputed", word})
    <3>1. /\ {"disputed", word} \in SUBSET Words
          /\ "reclaim" \notin {"disputed", word} /\ "settled" \notin {"disputed", word}
          /\ "on chain" \in {"disputed", word} => word = "on chain"
          /\ "verdict" \in {"disputed", word} => word = "verdict"
      BY <2>2 DEF Words, Codes
    <3>2. taskRow'.status \in EndedRow
      BY <2>1 DEF EndedRow
    <3> QED  BY <1>1, <2>1, <2>2, <2>4, <3>1, <3>2, Tells
  <2> QED  BY <2>2, <2>3, <2>4
<1> QED  BY <1>2, <1>3 DEF Tools!write, Tools!updateTaskStatus

LEMMA WorldSteps ==
    ASSUME ToolInv, Tools!escrowStep \/ Tools!rowStep \/ Tools!Tick, DELIVERY \in Nat
    PROVE  ToolInv'
<1>1. /\ clock \in Nat /\ chain \in ChainTask /\ taskRow \in ToolRow /\ Sound
      /\ asked \in [ToolCalls -> {Tools!Idle} \cup Asking \cup Told]
  BY DEF ToolInv, ToolTyped
<1>2. CASE Tools!escrowStep
  <2>1. UNCHANGED << clock, taskRow, asked >>
    BY <1>2 DEF Tools!escrowStep
  <2>2. chain' \in ChainTask
    <3>1. clock + DELIVERY \in Nat
      BY <1>1
    <3> QED  BY <1>1, <1>2, <3>1 DEF Tools!escrowStep, ChainTask
  <2>3. ToolTyped' /\ Sound'
    <3>1. chain'.state \in {"None", "Funded"} => ~ chain'.delivered
      <4>1. chain'.state \in {"None", "Funded"} =>
              chain.state = "None" /\ chain'.delivered = chain.delivered
        BY <1>1, <1>2 DEF Tools!escrowStep, ChainTask
      <4> QED  BY <1>1, <4>1 DEF Sound
    <3>2. chain'.state \in {"Disputed", "Arbitrating", "Resolved"} => chain'.contested
      BY <1>1, <1>2 DEF Tools!escrowStep, Sound, ChainTask
    <3>3. chain.state \in {"Completed", "Resolved"} => chain'.state \in {"Completed", "Resolved"}
      BY <1>1, <1>2 DEF Tools!escrowStep, ChainTask
    <3> QED  BY <1>1, <2>1, <2>2, <3>1, <3>2, <3>3 DEF ToolTyped, Sound
  <2>4. /\ chain.delivered => chain'.delivered
        /\ chain.contested => chain'.contested
        /\ chain.state \in {"Completed", "Resolved"} => chain'.state \in {"Completed", "Resolved"}
    BY <1>1, <1>2 DEF Tools!escrowStep, ChainTask
  <2>5. ASSUME ~ chain.delivered, chain.state # "None", chain.state = "Funded" => clock >= chain.deadline
        PROVE  /\ ~ chain'.delivered /\ chain'.state # "None"
               /\ chain'.state = "Funded" => clock' >= chain'.deadline
    <3>1. /\ chain.deadline \in Nat /\ ~ (clock >= chain.deadline /\ clock < chain.deadline)
      BY <1>1 DEF ChainTask
    <3> QED  BY <1>1, <1>2, <2>1, <2>5, <3>1 DEF Tools!escrowStep, ChainTask
  <2> QED  BY <2>1, <2>3, <2>4, <2>5, WorldGoesOn
<1>3. CASE Tools!rowStep
  <2>1. UNCHANGED << clock, chain, asked >>
    BY <1>3 DEF Tools!rowStep
  <2>2. /\ taskRow' \in ToolRow
        /\ taskRow.status \in EndedRow => taskRow'.status \in EndedRow
        /\ taskRow'.status = "completed" => chain.state \in {"Completed", "Resolved"}
    <3>1. PICK r \in ToolRow :
            /\ taskRow' = r
            /\ taskRow.status \in EndedRow => r.status \in EndedRow
            /\ r.status = "completed" =>
                 taskRow.status = "completed" \/ chain.state \in {"Completed", "Resolved"}
      <4>1. \A s \in TaskStatus : [taskRow EXCEPT !.status = s] \in ToolRow
                                  /\ [taskRow EXCEPT !.status = s].status = s
        BY <1>1 DEF ToolRow
      <4>2. /\ [ status |-> "active", funded |-> TRUE ] \in ToolRow
            /\ {"accepted", "declined", "lapsed", "disputed", "completed", "expired"} \subseteq TaskStatus
        BY DEF ToolRow, TaskStatus
      <4> QED  BY <1>3, <4>1, <4>2 DEF Tools!rowStep, EndedRow
    <3> QED  BY <1>1, <3>1 DEF Sound
  <2>3. ToolTyped' /\ Sound'
    BY <1>1, <2>1, <2>2 DEF ToolTyped, Sound
  <2> QED  BY <2>1, <2>2, <2>3, WorldGoesOn
<1>4. CASE Tools!Tick
  <2>1. clock' = clock + 1 /\ UNCHANGED << chain, taskRow, asked >>
    BY <1>4 DEF Tools!Tick, Tools!own
  <2>2. ToolTyped' /\ Sound'
    BY <1>1, <2>1 DEF ToolTyped, Sound
  <2>3. chain.deadline \in Nat
    BY <1>1 DEF ChainTask
  <2>4. clock >= chain.deadline => clock' >= chain'.deadline
    BY <1>1, <2>1, <2>3
  <2> QED  BY <2>1, <2>2, <2>4, WorldGoesOn
<1> QED  BY <1>2, <1>3, <1>4

(***************************************************************************)
(* What a tool of mcp/server.ts has told an agent of a task stays true,    *)
(* although row and chain are read awaits apart and each may have moved    *)
(* when the answer is written: for any number of concurrent calls and any  *)
(* delivery window.                                                        *)
(***************************************************************************)
THEOREM ToldForGood ==
    ASSUME DELIVERY \in Nat
    PROVE  Tools!Spec => []Tools!AnswersHold
<1>1. Tools!Init => ToolInv
  <2> SUFFICES ASSUME Tools!Init PROVE ToolInv
    OBVIOUS
  <2>1. /\ clock = 0 /\ taskRow = [ status |-> "pending", funded |-> FALSE ]
        /\ chain = [ state |-> "None", deadline |-> 0, delivered |-> FALSE, contested |-> FALSE ]
        /\ asked = [c \in ToolCalls |-> Tools!Idle]
    BY DEF Tools!Init
  <2>2. chain \in ChainTask /\ taskRow \in ToolRow
    BY <2>1 DEF ChainTask, ToolRow, TaskStatus
  <2>3. ToolTyped /\ Sound
    BY <2>1, <2>2 DEF ToolTyped, Sound
  <2> QED  BY <2>1, <2>3, ToolPcs DEF ToolInv, Keeping
<1>2. ToolInv /\ Tools!Next => ToolInv'
  BY WorldSteps, Invokes, ReadsRow, ReadsChain, Informs, Judges, Writes DEF Tools!Next, ToolNames
<1>3. ToolInv /\ UNCHANGED Tools!vars => ToolInv'
  <2> SUFFICES ASSUME ToolInv, UNCHANGED << clock, chain, taskRow, asked >> PROVE ToolInv'
    BY DEF Tools!vars, Tools!own
  <2>1. ToolTyped' /\ Sound'
    BY DEF ToolInv, ToolTyped, Sound
  <2> QED  BY <2>1, WorldGoesOn
<1>4. ToolInv => Tools!AnswersHold
  <2> SUFFICES ASSUME ToolInv, NEW c \in ToolCalls, asked[c].pc = "told" PROVE Holds(asked[c])
    BY DEF Tools!AnswersHold, Holds, EndedRow, Tools!Parties
  <2>1. asked[c] \in Told /\ Keeping(asked[c])
    BY ToolPcs DEF ToolInv, ToolTyped
  <2> QED  BY <2>1 DEF Keeping
<1> QED  BY <1>1, <1>2, <1>3, <1>4, PTL DEF Tools!Spec
-----------------------------------------------------------------------------
(* What is read from the chain. *)

ClientAssumed ==
    /\ RPC_MAX_BLOCK_RANGE \in Nat \ {0} /\ ESCROW_DEPLOY_BLOCK \in Nat /\ MaxBlock \in Nat
    /\ HEAD_LAG \in Nat /\ Mine \subseteq Escrowed
    /\ Routes \cap { "None", "nothing", "TaskCreated", "WorkSubmitted", "TaskExpired",
                     "Resolved to agent", "Resolved to worker" } = {}

Window == Nat \X Nat
Covers(ws, b) == \E i \in 1 .. Len(ws) : ws[i][1] <= b /\ b <= ws[i][2]

(* The windows of a range, in either direction, leave no block out. *)
LEMMA DivSpan ==
    ASSUME NEW a \in Nat, NEW n \in Nat \ {0}
    PROVE  a \div n \in Nat /\ (a \div n) * n <= a /\ a <= (a \div n) * n + n - 1
OBVIOUS

LEMMA SpanMonotone ==
    ASSUME NEW a \in Nat, NEW b \in Nat, NEW n \in Nat \ {0}, a <= b
    PROVE  a \div n <= b \div n
OBVIOUS

LEMMA WindowsCover ==
    ASSUME ClientAssumed, NEW head \in Nat
    PROVE  LET ws == Client!windows(ESCROW_DEPLOY_BLOCK, head)
           IN  /\ ws \in Seq(Window) /\ Client!Reverse(ws) \in Seq(Window)
               /\ \A b \in Nat : ESCROW_DEPLOY_BLOCK <= b /\ b <= head
                    => Covers(ws, b) /\ Covers(Client!Reverse(ws), b)
<1> DEFINE D == ESCROW_DEPLOY_BLOCK
           R == RPC_MAX_BLOCK_RANGE
           ws == Client!windows(D, head)
           W(i) == << D + (i - 1) * R, Client!Smallest(head, D + (i - 1) * R + R - 1) >>
<1>1. D \in Nat /\ R \in Nat \ {0}
  BY DEF ClientAssumed
<1>2. PICK n \in Nat : n = IF head < D THEN 0 ELSE (head - D) \div R + 1
  <2>1. CASE head < D
    BY <2>1
  <2>2. CASE ~ (head < D)
    <3>1. head - D \in Nat
      BY <1>1, <2>2
    <3>2. (head - D) \div R \in Nat
      BY <1>1, <3>1, DivSpan
    <3> QED  BY <2>2, <3>2
  <2> QED  BY <2>1, <2>2
<1>3. ws = [i \in 1 .. n |-> W(i)]
  BY <1>2 DEF Client!windows
<1>4. ASSUME NEW i \in 1 .. n PROVE W(i) \in Window /\ head >= D
  <2>1. head >= D /\ i - 1 \in Nat
    BY <1>1, <1>2
  <2>2. (i - 1) * R \in Nat
    BY <1>1, <2>1
  <2>3. PICK s \in Nat : s = (i - 1) * R
    BY <2>2
  <2> QED  BY <1>1, <2>1, <2>3 DEF Window, Client!Smallest
<1>5. ws \in Seq(Window) /\ Len(ws) = n
  <2> HIDE DEF W
  <2> QED  BY <1>3, <1>4
<1>6. \A i \in 1 .. n : Client!Reverse(ws)[i] = ws[n - i + 1] /\ n - i + 1 \in 1 .. n
  BY <1>5 DEF Client!Reverse
<1>7. Client!Reverse(ws) \in Seq(Window) /\ Len(Client!Reverse(ws)) = n
  <2>1. \A i \in 1 .. n : ws[n - i + 1] \in Window
    <3> HIDE DEF ws
    <3> QED  BY <1>5
  <2>2. Client!Reverse(ws) = [i \in 1 .. n |-> ws[n - i + 1]]
    <3> HIDE DEF ws
    <3> QED  BY <1>5 DEF Client!Reverse
  <2> HIDE DEF ws
  <2> QED  BY <2>1, <2>2
<1>8. ASSUME NEW b \in Nat, D <= b, b <= head
      PROVE  \E i \in 1 .. n : ws[i][1] <= b /\ b <= ws[i][2]
  <2>1. PICK q \in Nat : q = (b - D) \div R /\ q * R <= b - D /\ b - D <= q * R + R - 1
    <3>1. b - D \in Nat
      BY <1>1, <1>8
    <3> QED  BY <1>1, <3>1, DivSpan
  <2>2. q + 1 \in 1 .. n
    <3>1. head - D \in Nat /\ b - D \in Nat /\ b - D <= head - D /\ ~ (head < D)
      BY <1>1, <1>8
    <3>2. q <= (head - D) \div R /\ (head - D) \div R \in Nat
      BY <1>1, <2>1, <3>1, SpanMonotone, DivSpan
    <3> QED  BY <1>2, <3>1, <3>2
  <2>3. ws[q + 1] = W(q + 1)
    BY <1>3, <2>2
  <2>4. PICK s \in Nat : s = q * R
    BY <1>1, <2>1
  <2>5. W(q + 1) = << D + s, Client!Smallest(head, D + s + R - 1) >>
    <3>1. (q + 1) - 1 = q
      BY <2>1
    <3> QED  BY <3>1, <2>4
  <2>6. D + s <= b /\ b <= Client!Smallest(head, D + s + R - 1)
    BY <1>1, <1>8, <2>1, <2>4 DEF Client!Smallest
  <2> QED  BY <2>2, <2>3, <2>5, <2>6
<1>9. ASSUME NEW b \in Nat, D <= b, b <= head
      PROVE  \E i \in 1 .. n : Client!Reverse(ws)[i][1] <= b /\ b <= Client!Reverse(ws)[i][2]
  <2>1. PICK j \in 1 .. n : ws[j][1] <= b /\ b <= ws[j][2]
    BY <1>8, <1>9
  <2>2. PICK i \in 1 .. n : n - i + 1 = j
    BY <2>1
  <2> QED  BY <1>6, <2>1, <2>2
<1> HIDE DEF ws
<1> QED  BY <1>5, <1>7, <1>8, <1>9 DEF Covers, ws
-----------------------------------------------------------------------------
(* The chain. *)

ChainTyped == blocks \in Seq([task : Escrowed, kind : Client!Kinds])

(* How a task ended is the last thing that happened to it. *)
EndsLast ==
    \A b, c \in 1 .. Len(blocks) :
        b < c /\ blocks[b].task = blocks[c].task /\ blocks[c].kind # "nothing"
            => blocks[b].kind \notin Client!Ended

ChainHolds == ChainTyped /\ EndsLast

LEMMA LatestOf ==
    ASSUME NEW n \in Nat, NEW S, S \subseteq 1 .. n, S # {}
    PROVE  \E m \in S : \A k \in S : k <= m
<1> DEFINE B == { u \in Nat : \A k \in S : k <= u }
<1>1. n \in B
  OBVIOUS
<1>2. PICK u \in B : \A v \in B : u <= v
  <2> B \subseteq Nat /\ B # {}
    BY <1>1
  <2> HIDE DEF B
  <2> QED  BY Ind!LeastElement
<1>3. u \in S
  <2> SUFFICES ASSUME u \notin S PROVE FALSE
    OBVIOUS
  <2>0. PICK k \in S : k <= u /\ k \in 1 .. n
    BY <1>2
  <2>1. u # 0 /\ u \in Nat
    BY <2>0
  <2>2. u - 1 \in B
    BY <2>1
  <2> QED  BY <1>2, <2>2
<1> QED  BY <1>2, <1>3

(* The state of a task with events is the kind of the last one. *)
LEMMA NowIsLast ==
    ASSUME ChainTyped, NEW t, Client!Events(t, Len(blocks)) # {}
    PROVE  \E b \in Client!Events(t, Len(blocks)) :
               /\ \A c \in Client!Events(t, Len(blocks)) : c <= b
               /\ Client!StateNow(t) = blocks[b].kind
<1> DEFINE E == Client!Events(t, Len(blocks))
           P(b) == b \in E /\ \A c \in E : c <= b
<1>1. Len(blocks) \in Nat /\ E \subseteq 1 .. Len(blocks)
  BY DEF ChainTyped, Client!Events
<1>2. \E b \in E : \A c \in E : c <= b
  <2>1. E # {}
    OBVIOUS
  <2> HIDE DEF E
  <2> QED  BY <1>1, <2>1, LatestOf
<1>3. PICK b : b = CHOOSE x \in E : \A c \in E : c <= x
  OBVIOUS
<1>4. b \in E /\ \A c \in E : c <= b
  <2> HIDE DEF E
  <2> QED  BY <1>2, <1>3
<1>5. Client!StateNow(t) = blocks[b].kind
  BY <1>3 DEF Client!StateNow, Client!StateAt
<1> QED  BY <1>4, <1>5

LEMMA NowHappened ==
    ASSUME ChainTyped, NEW t, Client!StateNow(t) # "None"
    PROVE  \E b \in 1 .. Len(blocks) :
               blocks[b].task = t /\ blocks[b].kind = Client!StateNow(t)
<1>1. Client!Events(t, Len(blocks)) # {}
  BY DEF Client!StateNow, Client!StateAt
<1> QED  BY <1>1, NowIsLast DEF Client!Events

LEMMA EndIsNow ==
    ASSUME ClientAssumed, ChainHolds, NEW b \in 1 .. Len(blocks), blocks[b].kind \in Client!Ended
    PROVE  /\ Client!StateNow(blocks[b].task) = blocks[b].kind
           /\ \A c \in 1 .. Len(blocks) :
                blocks[c].task = blocks[b].task /\ blocks[c].kind # "nothing" => c <= b
<1> DEFINE t == blocks[b].task
<1>1. Len(blocks) \in Nat
  BY DEF ChainHolds, ChainTyped
<1>2. blocks[b].kind # "nothing"
  BY DEF ClientAssumed, Client!Ended, Client!PaidBy
<1>3. \A c \in 1 .. Len(blocks) : blocks[c].task = t /\ blocks[c].kind # "nothing" => c <= b
  BY <1>1 DEF ChainHolds, EndsLast
<1>4. b \in Client!Events(t, Len(blocks))
  BY <1>1, <1>2 DEF Client!Events
<1>5. PICK c \in Client!Events(t, Len(blocks)) :
        /\ \A d \in Client!Events(t, Len(blocks)) : d <= c
        /\ Client!StateNow(t) = blocks[c].kind
  BY <1>4, NowIsLast DEF ChainHolds
<1>6. c = b
  BY <1>1, <1>3, <1>4, <1>5 DEF Client!Events
<1> QED  BY <1>3, <1>5, <1>6

EndsAreNow ==
    ClientAssumed /\ ChainHolds =>
        \A t : \A b \in 1 .. Len(blocks) :
            blocks[b].task = t /\ blocks[b].kind \in Client!Ended
                => Client!StateNow(t) = blocks[b].kind

LEMMA EndsAreNowHolds == EndsAreNow
BY EndIsNow DEF EndsAreNow

(* What a block adds. *)
LEMMA ChainGrows ==
    ASSUME ClientAssumed, ChainHolds, NEW t \in Escrowed, NEW k \in Client!Kinds, Client!mine(t, k)
    PROVE  /\ ChainHolds' /\ legacy' = legacy /\ read' = read
           /\ Len(blocks') = Len(blocks) + 1
           /\ \A b \in 1 .. Len(blocks) : blocks'[b] = blocks[b]
<1> DEFINE n == Len(blocks)
<1>1. /\ blocks' = Append(blocks, [ task |-> t, kind |-> k ])
      /\ legacy' = legacy /\ read' = read
  BY DEF Client!mine
<1>2. /\ n \in Nat /\ Len(blocks') = n + 1 /\ ChainTyped'
      /\ \A b \in 1 .. n : blocks'[b] = blocks[b]
      /\ blocks'[n + 1] = [ task |-> t, kind |-> k ]
  BY <1>1 DEF ChainHolds, ChainTyped
<1>3. k # "nothing" => Client!StateNow(t) \in { "None", "TaskCreated", "WorkSubmitted" }
  BY DEF Client!mine
<1>4. ASSUME NEW b \in 1 .. n, blocks[b].task = t, k # "nothing"
      PROVE  blocks[b].kind \notin Client!Ended
  <2> SUFFICES ASSUME blocks[b].kind \in Client!Ended PROVE FALSE
    OBVIOUS
  <2>1. Client!StateNow(t) \in Client!Ended
    BY <1>4, EndIsNow
  <2> QED  BY <1>3, <1>4, <2>1 DEF Client!Ended, Client!PaidBy, ClientAssumed
<1>5. EndsLast'
  <2> SUFFICES ASSUME NEW b \in 1 .. n + 1, NEW c \in 1 .. n + 1, b < c,
                      blocks'[b].task = blocks'[c].task, blocks'[c].kind # "nothing"
               PROVE  blocks'[b].kind \notin Client!Ended
    BY <1>2 DEF EndsLast, Client!Ended, Client!PaidBy
  <2>1. b \in 1 .. n /\ blocks'[b] = blocks[b]
    BY <1>2
  <2>2. CASE c \in 1 .. n
    BY <1>2, <2>1, <2>2 DEF ChainHolds, EndsLast
  <2>3. CASE c = n + 1
    BY <1>2, <1>4, <2>1, <2>3
  <2> QED  BY <1>2, <2>2, <2>3
<1> QED  BY <1>1, <1>2, <1>5 DEF ChainHolds

(* A task that has ended stays as it ended. *)
LEMMA EndStays ==
    ASSUME ClientAssumed, ChainHolds, ChainHolds', Len(blocks') >= Len(blocks),
           \A b \in 1 .. Len(blocks) : blocks'[b] = blocks[b],
           NEW t, Client!StateNow(t) \in Client!Ended
    PROVE  Client!StateNow(t)' = Client!StateNow(t)
<1>1. PICK b \in 1 .. Len(blocks) : blocks[b].task = t /\ blocks[b].kind = Client!StateNow(t)
  BY NowHappened DEF Client!Ended, Client!PaidBy, ClientAssumed, ChainHolds
<1>2. /\ b \in 1 .. Len(blocks') /\ blocks'[b] = blocks[b]
      /\ blocks'[b].kind \in Client!Ended
  <2>1. Len(blocks) \in Nat /\ Len(blocks') \in Nat
    BY DEF ChainHolds, ChainTyped
  <2> QED  BY <1>1, <2>1
<1>3. EndsAreNow'
  BY EndsAreNowHolds, PTL
<1>4. Client!StateNow(t)' = blocks'[b].kind
  BY <1>1, <1>2, <1>3 DEF EndsAreNow, Client!Ended, Client!PaidBy
<1> QED  BY <1>1, <1>2, <1>4
-----------------------------------------------------------------------------
(* The calls. *)

Ops    == { "completion", "outcome", "created", "submitted", "summary" }
Rulings == { "Resolved to worker", "Resolved to agent" }

Inquiry == [ pc : {"getTask", "getBlockNumber"}, op : Ops, task : Escrowed, began : Nat,
            old : BOOLEAN, kinds : SUBSET Client!Kinds ]

Scanning == [ pc : {"getLogs"}, op : Ops, task : Escrowed, began : Nat, head : Nat,
              kinds : SUBSET Client!Kinds, found : SUBSET Nat, todo : Seq(Window) ]

Reply == [ pc : {"answered"}, op : Ops, task : Escrowed, began : Nat,
          value : Nat \cup [ paid : SUBSET Escrowed, unverified : SUBSET Escrowed ] ]

(* The block is one of the call's task and of a kind it looks for. *)
Hit(a, b) == blocks[b].task = a.task /\ blocks[b].kind \in a.kinds

(* A call for the completion looks for the way its task has ended. *)
KindsFit(a) ==
    \/ a.op \in { "outcome", "created", "submitted" } /\ a.kinds = Client!Scans(a.op)
    \/ a.op = "completion" /\ a.kinds \in { Routes, Rulings }
         /\ Client!StateNow(a.task) \in a.kinds

(* What was found is there, and until something is found every block of   *)
(* the range is in a window that is still to be read, or is no hit.        *)
ScanFits(a) ==
    /\ a.began <= a.head + HEAD_LAG /\ a.head <= Len(blocks) /\ a.began <= Len(blocks)
    /\ \A b \in a.found : b \in 1 .. Len(blocks) /\ Hit(a, b)
    /\ a.found = {} =>
         \A b \in 1 .. Len(blocks) :
            ESCROW_DEPLOY_BLOCK <= b /\ b <= a.head /\ Hit(a, b) => Covers(a.todo, b)

Before(a, t, kinds, lag) ==
    \E b \in Client!Events(t, a.began) : /\ b >= ESCROW_DEPLOY_BLOCK /\ b + lag <= a.began
                                         /\ blocks[b].kind \in kinds

AnswerTrue(a) ==
    IF a.op = "summary"
    THEN /\ \A t \in a.value.paid : t \in Mine /\ Client!StateNow(t) \in Routes
         /\ \A t \in Mine : Before(a, t, Routes, 0) => t \in a.value.paid
    ELSE IF a.value = 0 THEN ~ Before(a, a.task, Client!Sought(a.op), HEAD_LAG)
    ELSE /\ a.value \in 1 .. Len(blocks) /\ blocks[a.value].task = a.task
         /\ blocks[a.value].kind \in Client!Sought(a.op)

CallHolds(a) ==
    \/ a = Client!NoAnswer
    \/ a \in Inquiry /\ a.began <= Len(blocks)
         /\ (a.pc = "getTask" => a.op \in { "completion", "summary" })
         /\ (a.pc = "getBlockNumber" => KindsFit(a))
    \/ a \in Scanning /\ KindsFit(a) /\ ScanFits(a)
    \/ a \in Reply /\ a.began <= Len(blocks) /\ AnswerTrue(a)

ReadsHold == read = [r \in Reads |-> read[r]] /\ \A r \in Reads : CallHolds(read[r])

ClientHolds == ChainHolds /\ ReadsHold

LEMMA AnswersFollow == ReadsHold => Client!AnswersAreTrue
<1> SUFFICES ASSUME ReadsHold, NEW r \in Reads, read[r].pc = "answered"
             PROVE  AnswerTrue(read[r])
  BY DEF Client!AnswersAreTrue, AnswerTrue, Before, Client!Null
<1> QED  BY DEF ReadsHold, CallHolds, Client!NoAnswer, Inquiry, Scanning

(* A call outlives the blocks that come while it is under way. *)
LEMMA CallStays ==
    ASSUME ClientAssumed, ChainHolds, ChainHolds', Len(blocks') >= Len(blocks),
           \A b \in 1 .. Len(blocks) : blocks'[b] = blocks[b],
           NEW a, CallHolds(a)
    PROVE  CallHolds(a)'
<1>1. Len(blocks) \in Nat /\ Len(blocks') \in Nat
  BY DEF ChainHolds, ChainTyped
<1>2. \A t : Client!StateNow(t) \in Client!Ended => Client!StateNow(t)' = Client!StateNow(t)
  BY EndStays
<1>3. Routes \subseteq Client!Ended /\ Rulings \subseteq Client!Ended
  BY DEF Client!Ended, Client!PaidBy, Rulings
<1>4. KindsFit(a) => KindsFit(a)'
  BY <1>2, <1>3 DEF KindsFit
<1>5. ASSUME NEW h \in Nat, h <= Len(blocks), NEW t
      PROVE  /\ Client!Events(t, h)' = Client!Events(t, h)
             /\ \A b \in Client!Events(t, h) : blocks'[b] = blocks[b]
  BY <1>1, <1>5 DEF Client!Events
<1>6. CASE a = Client!NoAnswer
  BY <1>6 DEF CallHolds
<1>7. CASE a \in Inquiry /\ a.began <= Len(blocks)
             /\ (a.pc = "getTask" => a.op \in { "completion", "summary" })
             /\ (a.pc = "getBlockNumber" => KindsFit(a))
  <2>1. a.began \in Nat
    BY <1>7 DEF Inquiry
  <2>2. a.began <= Len(blocks')
    BY <1>1, <1>7, <2>1
  <2>3. (a \in Inquiry)'
    BY <1>7 DEF Inquiry
  <2> QED  BY <1>4, <1>7, <2>2, <2>3 DEF CallHolds
<1>8. CASE a \in Scanning /\ KindsFit(a) /\ ScanFits(a)
  <2>1. a.began \in Nat /\ a.head \in Nat /\ a.found \subseteq Nat
    BY <1>8 DEF Scanning
  <2>2. \A b \in 1 .. Len(blocks) : Hit(a, b)' <=> Hit(a, b)
    BY <1>1 DEF Hit
  <2>3. ScanFits(a)'
    <3>1. \A b \in a.found : b \in 1 .. Len(blocks') /\ Hit(a, b)'
      BY <1>1, <1>8, <2>2 DEF ScanFits
    <3>2. ASSUME a.found = {}, NEW b \in 1 .. Len(blocks'), ESCROW_DEPLOY_BLOCK <= b, b <= a.head,
                 Hit(a, b)'
          PROVE  Covers(a.todo, b)
      <4>1. b \in 1 .. Len(blocks)
        BY <1>1, <1>8, <2>1, <3>2 DEF ScanFits
      <4> QED  BY <1>8, <2>2, <3>2, <4>1 DEF ScanFits
    <3>3. a.began <= a.head + HEAD_LAG /\ a.head <= Len(blocks') /\ a.began <= Len(blocks')
      BY <1>1, <1>8, <2>1 DEF ScanFits
    <3> QED  BY <3>1, <3>2, <3>3 DEF ScanFits, Covers
  <2> QED  BY <1>4, <1>8, <2>3 DEF CallHolds, Scanning
<1>9. CASE a \in Reply /\ a.began <= Len(blocks) /\ AnswerTrue(a)
  <2>1. a.began \in Nat
    BY <1>9 DEF Reply
  <2>2. \A t, kinds, lag : Before(a, t, kinds, lag)' <=> Before(a, t, kinds, lag)
    BY <1>5, <1>9, <2>1 DEF Before
  <2>3. AnswerTrue(a)'
    <3>1. CASE a.op = "summary"
      BY <1>2, <1>3, <1>9, <2>2, <3>1 DEF AnswerTrue
    <3>2. CASE a.op # "summary" /\ a.value = 0
      BY <1>9, <2>2, <3>2 DEF AnswerTrue
    <3>3. CASE a.op # "summary" /\ a.value # 0
      BY <1>1, <1>9, <3>3 DEF AnswerTrue
    <3> QED  BY <3>1, <3>2, <3>3
  <2> QED  BY <1>1, <1>9, <2>1, <2>3 DEF CallHolds
<1> QED  BY <1>6, <1>7, <1>8, <1>9 DEF CallHolds

(* What an operation makes of a call. *)
LEMMA CallIs ==
    ASSUME NEW a, CallHolds(a)
    PROVE  /\ a.pc \in {"getTask", "getBlockNumber"} =>
                a \in Inquiry /\ a.began <= Len(blocks)
                /\ (a.pc = "getTask" => a.op \in { "completion", "summary" })
                /\ (a.pc = "getBlockNumber" => KindsFit(a))
           /\ a.pc = "getLogs" => a \in Scanning /\ KindsFit(a) /\ ScanFits(a)
<1>1. a = Client!NoAnswer => a.pc = "idle"
  BY DEF Client!NoAnswer
<1>2. a \in Scanning => a.pc = "getLogs"
  BY DEF Scanning
<1>3. a \in Reply => a.pc = "answered"
  BY DEF Reply
<1>4. a \in Inquiry => a.pc \in {"getTask", "getBlockNumber"}
  BY DEF Inquiry
<1> QED  BY <1>1, <1>2, <1>3, <1>4 DEF CallHolds

LEMMA BeginsRead ==
    ASSUME NEW op \in Ops, NEW t \in Escrowed, ChainHolds
    PROVE  CallHolds([ pc |-> IF Client!Scans(op) = {} THEN "getTask" ELSE "getBlockNumber",
                       op |-> op, task |-> t, began |-> Len(blocks), old |-> FALSE,
                       kinds |-> Client!Scans(op) ])
<1> DEFINE a == [ pc |-> IF Client!Scans(op) = {} THEN "getTask" ELSE "getBlockNumber",
                  op |-> op, task |-> t, began |-> Len(blocks), old |-> FALSE,
                  kinds |-> Client!Scans(op) ]
<1>1. Len(blocks) \in Nat
  BY DEF ChainHolds, ChainTyped
<1>2. Client!Scans(op) \subseteq Client!Kinds
  BY DEF Client!Scans, Client!Kinds, Ops
<1>3. a \in Inquiry
  BY <1>1, <1>2 DEF Inquiry
<1>4. a.pc = "getTask" => op \in { "completion", "summary" }
  BY DEF Client!Scans, Ops
<1>5. a.pc = "getBlockNumber" => KindsFit(a)
  BY DEF Client!Scans, Ops, KindsFit
<1> QED  BY <1>1, <1>3, <1>4, <1>5 DEF CallHolds

(* The events that ended a task before the call say how it has ended now.  *)
LEMMA EndedBefore ==
    ASSUME ClientAssumed, ChainHolds, NEW a, NEW t, NEW kinds, kinds \subseteq Client!Ended,
           NEW lag, Before(a, t, kinds, lag)
    PROVE  Client!StateNow(t) \in kinds
<1>1. PICK b \in 1 .. Len(blocks) : blocks[b].task = t /\ blocks[b].kind \in kinds
  BY DEF Before, Client!Events, ChainHolds, ChainTyped
<1> QED  BY <1>1, EndIsNow

LEMMA Answers ==
    ASSUME ClientAssumed, ChainHolds, NEW a, a.op \in Ops, a.task \in Escrowed, a.began \in Nat,
           a.began <= Len(blocks), NEW v,
           v \in Nat \cup [ paid : SUBSET Escrowed, unverified : SUBSET Escrowed ],
           AnswerTrue([ pc |-> "answered", op |-> a.op, task |-> a.task, value |-> v,
                        began |-> a.began ])
    PROVE  CallHolds([ pc |-> "answered", op |-> a.op, task |-> a.task, value |-> v,
                       began |-> a.began ])
BY DEF CallHolds, Reply

LEMMA ReadsTask ==
    ASSUME ClientAssumed, ClientHolds, NEW r \in Reads, Client!readTaskStruct(r)
    PROVE  \E f : Client!Call(r, f) /\ CallHolds(f)
<1> DEFINE a == read[r]
           now == Client!StateNow(a.task)
           told(v) == [ pc |-> "answered", op |-> a.op, task |-> a.task, value |-> v,
                        began |-> a.began ]
<1>1. /\ a \in Inquiry /\ a.pc = "getTask" /\ a.began <= Len(blocks)
      /\ a.op \in { "completion", "summary" } /\ ChainHolds
  <2>1. CallHolds(a) /\ a.pc = "getTask" /\ ChainHolds
    BY DEF ClientHolds, ReadsHold, Client!readTaskStruct
  <2> QED  BY <2>1, CallIs
<1>2. /\ a.op \in Ops /\ a.task \in Escrowed /\ a.began \in Nat /\ Len(blocks) \in Nat
  BY <1>1 DEF Inquiry, ChainHolds, ChainTyped
<1>3. CASE legacy /\ ~ a.old
  <2>1. Client!Call(r, [a EXCEPT !.old = TRUE])
    BY <1>3 DEF Client!readTaskStruct
  <2>2. CallHolds([a EXCEPT !.old = TRUE])
    BY <1>1 DEF CallHolds, Inquiry
  <2> QED  BY <2>1, <2>2
<1>4. CASE ~ (legacy /\ ~ a.old) /\ a.op = "summary"
  <2> DEFINE s == Client!Summary(Escrowed)
  <2>1. Client!Call(r, told(s))
    BY <1>4 DEF Client!readTaskStruct, Client!Answered
  <2>2. /\ s \in [ paid : SUBSET Escrowed, unverified : SUBSET Escrowed ]
        /\ s.paid = { t \in Escrowed \cap Mine : Client!StateNow(t) # "None"
                                                /\ Client!StateNow(t) \in Routes }
    BY DEF Client!Summary
  <2>3. \A t \in Mine : Before(told(s), t, Routes, 0) => t \in s.paid
    <3>1. Routes \subseteq Client!Ended
      BY DEF Client!Ended, Client!PaidBy
    <3> HIDE DEF told, s
    <3> QED  BY <2>2, <3>1, <1>1, EndedBefore DEF ClientAssumed
  <2>4. AnswerTrue(told(s))
    BY <1>4, <2>2, <2>3 DEF AnswerTrue
  <2>5. CallHolds(told(s))
    BY <1>1, <1>2, <2>2, <2>4, Answers
  <2> QED  BY <2>1, <2>5
<1>5. CASE ~ (legacy /\ ~ a.old) /\ a.op # "summary" /\ now \in Routes
  <2> DEFINE f == [a EXCEPT !.pc = "getBlockNumber", !.kinds = Routes]
  <2>1. Client!Call(r, f)
    BY <1>5 DEF Client!readTaskStruct
  <2>2. f \in Inquiry /\ KindsFit(f)
    BY <1>1, <1>5 DEF Inquiry, KindsFit, Client!Kinds
  <2> QED  BY <1>1, <2>1, <2>2 DEF CallHolds, Inquiry
<1>6. CASE ~ (legacy /\ ~ a.old) /\ a.op # "summary" /\ now \notin Routes /\ now \in Rulings
  <2> DEFINE f == [a EXCEPT !.pc = "getBlockNumber", !.kinds = Rulings]
  <2>1. Client!Call(r, f)
    BY <1>6 DEF Client!readTaskStruct, Rulings
  <2>2. f \in Inquiry /\ KindsFit(f)
    BY <1>1, <1>6 DEF Inquiry, KindsFit, Client!Kinds, Rulings
  <2> QED  BY <1>1, <2>1, <2>2 DEF CallHolds, Inquiry
<1>7. CASE ~ (legacy /\ ~ a.old) /\ a.op # "summary" /\ now \notin Routes /\ now \notin Rulings
  <2>1. Client!Call(r, told(0))
    BY <1>7 DEF Client!readTaskStruct, Client!Answered, Client!Null, Rulings
  <2>2. ~ Before(told(0), a.task, Client!PaidBy, HEAD_LAG)
    <3>1. Client!PaidBy \subseteq Client!Ended /\ now \notin Client!PaidBy
      BY <1>7 DEF Client!Ended, Client!PaidBy, Rulings
    <3> HIDE DEF told
    <3> QED  BY <1>1, <3>1, EndedBefore
  <2>3. AnswerTrue(told(0))
    BY <1>1, <1>7, <2>2 DEF AnswerTrue, Client!Sought
  <2>4. CallHolds(told(0))
    BY <1>1, <1>2, <2>3, Answers
  <2> QED  BY <2>1, <2>4
<1> QED  BY <1>3, <1>4, <1>5, <1>6, <1>7

(* What a call looks for is no empty block. *)
LEMMA KindsAreEvents ==
    ASSUME ClientAssumed, NEW a, KindsFit(a), NEW k \in a.kinds
    PROVE  k # "nothing"
BY DEF ClientAssumed, KindsFit, Client!Scans, Rulings

LEMMA ReadsHead ==
    ASSUME ClientAssumed, ClientHolds, NEW r \in Reads, Client!getBlockNumber(r)
    PROVE  \E f : Client!Call(r, f) /\ CallHolds(f)
<1> DEFINE a == read[r]
<1>1. CallHolds(a) /\ a.pc = "getBlockNumber" /\ ChainHolds
  BY DEF ClientHolds, ReadsHold, Client!getBlockNumber
<1>2. a \in Inquiry /\ a.began <= Len(blocks) /\ KindsFit(a)
  BY <1>1, CallIs
<1>3. /\ a.op \in Ops /\ a.task \in Escrowed /\ a.began \in Nat /\ Len(blocks) \in Nat
      /\ a.kinds \in SUBSET Client!Kinds
  BY <1>1, <1>2 DEF Inquiry, ChainHolds, ChainTyped
<1> DEFINE W(h) == IF a.op \in Client!Listings THEN Client!windows(ESCROW_DEPLOY_BLOCK, h)
                   ELSE Client!Reverse(Client!windows(ESCROW_DEPLOY_BLOCK, h))
           F(h, w) == [ pc |-> "getLogs", op |-> a.op, task |-> a.task, began |-> a.began,
                        kinds |-> a.kinds, head |-> h, found |-> {}, todo |-> w ]
<1>4. PICK head \in Client!Blocks \cup {0} :
        head <= Len(blocks) /\ Len(blocks) <= head + HEAD_LAG /\ Client!Call(r, F(head, W(head)))
  BY DEF Client!getBlockNumber
<1>5. PICK ws : ws = W(head)
  OBVIOUS
<1>a. head \in Nat /\ head <= Len(blocks) /\ Len(blocks) <= head + HEAD_LAG
  <2> HIDE DEF F, W
  <2>1. head <= Len(blocks) /\ Len(blocks) <= head + HEAD_LAG
    BY <1>4
  <2>2. head \in Nat
    <3>1. MaxBlock \in Nat
      BY DEF ClientAssumed
    <3>2. head \in 1 .. MaxBlock \cup {0}
      BY <1>4 DEF Client!Blocks
    <3>3. \A m \in Nat : \A h \in (1 .. m) \cup {0} : h \in Nat
      OBVIOUS
    <3> QED  BY <3>1, <3>2, <3>3
  <2> QED  BY <2>1, <2>2
<1>6. ws \in Seq(Window)
  BY <1>5, <1>a, WindowsCover
<1>7. \A b \in Nat : ESCROW_DEPLOY_BLOCK <= b /\ b <= head => Covers(ws, b)
  BY <1>5, <1>a, WindowsCover
<1> DEFINE f == F(head, ws)
<1>8. f \in Scanning /\ KindsFit(f)
  BY <1>2, <1>3, <1>6, <1>a DEF Scanning, KindsFit
<1>9. ScanFits(f)
  <2>1. a.began <= head + HEAD_LAG
    <3>1. HEAD_LAG \in Nat
      BY DEF ClientAssumed
    <3> QED  BY <1>2, <1>3, <1>a, <3>1
  <2> QED  BY <1>2, <1>3, <1>a, <1>7, <2>1 DEF ScanFits
<1> QED  BY <1>4, <1>5, <1>8, <1>9 DEF CallHolds

LEMMA ReadsLogs ==
    ASSUME ClientAssumed, ClientHolds, NEW r \in Reads, Client!getLogs(r)
    PROVE  \E f : Client!Call(r, f) /\ CallHolds(f)
<1> DEFINE a == read[r]
           hits == Client!Logs(Head(a.todo), a.task, a.kinds)
           got == a.found \cup hits
           stop == got # {} /\ a.op \notin Client!Listings
           f == [a EXCEPT !.found = got, !.todo = IF stop THEN << >> ELSE Tail(a.todo)]
<1>1. CallHolds(a) /\ a.pc = "getLogs" /\ a.todo # << >> /\ ChainHolds
  BY DEF ClientHolds, ReadsHold, Client!getLogs
<1>2. a \in Scanning /\ KindsFit(a) /\ ScanFits(a)
  BY <1>1, CallIs
<1>3. /\ Len(blocks) \in Nat /\ a.todo \in Seq(Window) /\ a.found \in SUBSET Nat
      /\ a.began \in Nat /\ a.head \in Nat
  BY <1>1, <1>2 DEF Scanning, ChainHolds, ChainTyped
<1>4. Client!Call(r, f)
  BY DEF Client!getLogs
<1>5. \A b \in hits : b \in 1 .. Len(blocks) /\ Hit(a, b)
  BY <1>3 DEF Client!Logs, Client!Events, Hit
<1>6. f \in Scanning
  <2>1. got \in SUBSET Nat
    BY <1>3, <1>5
  <2>2. (IF stop THEN << >> ELSE Tail(a.todo)) \in Seq(Window)
    BY <1>1, <1>3
  <2> HIDE DEF got, stop
  <2> QED  BY <1>2, <2>1, <2>2 DEF Scanning
<1>7. KindsFit(f)
  BY <1>2 DEF KindsFit, Scanning
<1>8. ScanFits(f)
  <2>1. /\ f.began = a.began /\ f.head = a.head /\ f.found = got /\ f.task = a.task
        /\ f.kinds = a.kinds /\ f.todo = IF stop THEN << >> ELSE Tail(a.todo)
    BY <1>2 DEF Scanning
  <2>2. \A b \in got : b \in 1 .. Len(blocks) /\ Hit(a, b)
    BY <1>2, <1>5 DEF ScanFits
  <2>3. ASSUME got = {}, NEW b \in 1 .. Len(blocks), ESCROW_DEPLOY_BLOCK <= b, b <= a.head,
               Hit(a, b)
        PROVE  Covers(Tail(a.todo), b)
    <3>1. PICK i \in 1 .. Len(a.todo) : a.todo[i][1] <= b /\ b <= a.todo[i][2]
      BY <1>2, <2>3 DEF ScanFits, Covers
    <3>2. blocks[b].kind # "nothing"
      BY <1>2, <2>3, KindsAreEvents DEF Hit
    <3>3. i # 1
      <4> SUFFICES ASSUME i = 1 PROVE FALSE
        OBVIOUS
      <4>1. b \in hits
        BY <1>1, <1>3, <2>3, <3>1, <3>2 DEF Client!Logs, Client!Events, Hit
      <4> QED  BY <2>3, <4>1
    <3>4. i - 1 \in 1 .. Len(Tail(a.todo)) /\ Tail(a.todo)[i - 1] = a.todo[i]
      BY <1>1, <1>3, <3>1, <3>3
    <3> QED  BY <3>1, <3>4 DEF Covers
  <2>4. \A b : Hit(f, b) <=> Hit(a, b)
    BY <2>1 DEF Hit
  <2> HIDE DEF f, got
  <2> QED  BY <1>2, <2>1, <2>2, <2>3, <2>4 DEF ScanFits
<1> QED  BY <1>4, <1>6, <1>7, <1>8 DEF CallHolds

LEMMA Scanned ==
    ASSUME ClientAssumed, ClientHolds, NEW r \in Reads, Client!scanned(r)
    PROVE  \E f : Client!Call(r, f) /\ CallHolds(f)
<1> DEFINE a == read[r]
           last == IF a.found = {} THEN 0 ELSE CHOOSE b \in a.found : \A c \in a.found : c <= b
           told(v) == [ pc |-> "answered", op |-> a.op, task |-> a.task, value |-> v,
                        began |-> a.began ]
<1>1. CallHolds(a) /\ a.pc = "getLogs" /\ a.todo = << >> /\ ChainHolds
  BY DEF ClientHolds, ReadsHold, Client!scanned
<1>2. a \in Scanning /\ KindsFit(a) /\ ScanFits(a)
  BY <1>1, CallIs
<1>3. /\ Len(blocks) \in Nat /\ a.found \in SUBSET Nat /\ a.op \in Ops /\ a.task \in Escrowed
      /\ a.began \in Nat /\ a.head \in Nat
      /\ a.began <= Len(blocks) /\ a.began <= a.head + HEAD_LAG /\ HEAD_LAG \in Nat
  <2>1. HEAD_LAG \in Nat
    BY DEF ClientAssumed
  <2>2. Len(blocks) \in Nat
    BY <1>1 DEF ChainHolds, ChainTyped
  <2>3. /\ a.found \in SUBSET Nat /\ a.op \in Ops /\ a.task \in Escrowed
        /\ a.began \in Nat /\ a.head \in Nat
    BY <1>2 DEF Scanning
  <2>4. a.began <= a.head + HEAD_LAG /\ a.began <= Len(blocks)
    BY <1>2 DEF ScanFits
  <2> QED  BY <2>1, <2>2, <2>3, <2>4
<1>4. a.op # "summary"
  BY <1>2 DEF KindsFit
<1>5. a.op = "completion" => Client!StateNow(a.task) \in a.kinds /\ a.kinds \in { Routes, Rulings }
  BY <1>2 DEF KindsFit
<1>6. Client!PaidBy \subseteq Client!Ended /\ Routes \subseteq Client!Ended /\ Rulings \subseteq Client!Ended
  BY DEF Client!Ended, Client!PaidBy, Rulings
<1>7. CASE a.found = {}
  <2>1. Client!Call(r, told(0))
    BY <1>7 DEF Client!scanned, Client!Answered, Client!Null
  <2>2. ASSUME Before(told(0), a.task, Client!Sought(a.op), HEAD_LAG) PROVE FALSE
    <3>1. PICK b \in Client!Events(a.task, a.began) :
            /\ b >= ESCROW_DEPLOY_BLOCK /\ b + HEAD_LAG <= a.began
            /\ blocks[b].kind \in Client!Sought(a.op)
      BY <2>2 DEF Before
    <3>2. b \in 1 .. Len(blocks) /\ b <= a.head /\ blocks[b].task = a.task
      BY <1>3, <3>1 DEF Client!Events
    <3>3. blocks[b].kind \in a.kinds
      <4>1. CASE a.op = "completion"
        <5>1. blocks[b].kind \in Client!Ended
          BY <1>6, <3>1, <4>1 DEF Client!Sought
        <5>2. blocks[b].kind = Client!StateNow(a.task)
          BY <1>1, <3>2, <5>1, EndIsNow
        <5> QED  BY <1>5, <4>1, <5>2
      <4>2. CASE a.op # "completion"
        BY <1>2, <3>1, <4>2 DEF Client!Sought, KindsFit
      <4> QED  BY <4>1, <4>2
    <3>4. Covers(a.todo, b)
      BY <1>2, <1>7, <3>1, <3>2, <3>3 DEF ScanFits, Hit, ClientAssumed
    <3> QED  BY <1>1, <3>4 DEF Covers
  <2>3. AnswerTrue(told(0))
    BY <1>4, <2>2 DEF AnswerTrue
  <2>4. CallHolds(told(0))
    BY <1>1, <1>3, <2>3, Answers
  <2> QED  BY <2>1, <2>4
<1>8. CASE a.found # {}
  <2>1. PICK b : b = last
    OBVIOUS
  <2>2. b \in a.found
    <3>1. a.found \subseteq 1 .. Len(blocks)
      BY <1>2 DEF ScanFits
    <3>2. \E m \in a.found : \A k \in a.found : k <= m
      BY <1>3, <1>8, <3>1, LatestOf
    <3> QED  BY <1>8, <2>1, <3>2
  <2>3. b \in 1 .. Len(blocks) /\ blocks[b].task = a.task /\ blocks[b].kind \in a.kinds
    BY <1>2, <2>2 DEF ScanFits, Hit
  <2>4. CASE a.op = "completion" /\ blocks[b].kind = "Resolved to agent"
    <3>1. Client!Call(r, told(0))
      BY <1>3, <1>8, <2>1, <2>3, <2>4 DEF Client!scanned, Client!Answered, Client!Null
    <3>2. blocks[b].kind \in Client!Ended /\ blocks[b].kind \notin Client!PaidBy
      BY <2>4 DEF Client!Ended, Client!PaidBy, ClientAssumed
    <3>3. Client!StateNow(a.task) \notin Client!PaidBy
      BY <1>1, <2>3, <3>2, EndIsNow
    <3>4. ~ Before(told(0), a.task, Client!Sought(a.op), HEAD_LAG)
      <4> HIDE DEF told
      <4> QED  BY <1>1, <1>6, <2>4, <3>3, EndedBefore DEF Client!Sought
    <3>5. AnswerTrue(told(0))
      BY <1>4, <3>4 DEF AnswerTrue
    <3>6. CallHolds(told(0))
      BY <1>1, <1>3, <3>5, Answers
    <3> QED  BY <3>1, <3>6
  <2>5. CASE ~ (a.op = "completion" /\ blocks[b].kind = "Resolved to agent")
    <3>1. Client!Call(r, told(b))
      BY <1>3, <1>8, <2>1, <2>3, <2>5 DEF Client!scanned, Client!Answered, Client!Null
    <3>2. blocks[b].kind \in Client!Sought(a.op)
      <4>1. CASE a.op = "completion"
        <5>1. blocks[b].kind # "Resolved to agent"
          BY <2>5, <4>1
        <5>2. a.kinds \in { Routes, Rulings } /\ blocks[b].kind \in a.kinds
          BY <1>5, <2>3, <4>1
        <5>3. blocks[b].kind \in Client!PaidBy
          BY <5>1, <5>2 DEF Client!PaidBy, Rulings
        <5> QED  BY <4>1, <5>3 DEF Client!Sought
      <4>2. CASE a.op # "completion"
        BY <1>2, <2>3, <4>2 DEF Client!Sought, KindsFit
      <4> QED  BY <4>1, <4>2
    <3>3. AnswerTrue(told(b))
      BY <1>3, <1>4, <2>3, <3>2 DEF AnswerTrue
    <3>4. b \in Nat
      BY <1>3, <2>2
    <3>5. CallHolds(told(b))
      BY <1>1, <1>3, <3>3, <3>4, Answers
    <3> QED  BY <3>1, <3>5
  <2> QED  BY <2>4, <2>5
<1> QED  BY <1>7, <1>8

(* A call that changes leaves the chain and the other calls. *)
LEMMA CallChanges ==
    ASSUME ClientAssumed, ClientHolds, NEW r \in Reads, NEW f, Client!Call(r, f), CallHolds(f)
    PROVE  ClientHolds'
<1>1. read' = [read EXCEPT ![r] = f] /\ blocks' = blocks /\ legacy' = legacy
  BY DEF Client!Call
<1>2. ChainHolds'
  BY <1>1 DEF ClientHolds, ChainHolds, ChainTyped, EndsLast
<1>3. \A a : CallHolds(a) => CallHolds(a)'
  <2>1. Len(blocks) \in Nat /\ ChainHolds
    BY DEF ClientHolds, ChainHolds, ChainTyped
  <2> QED  BY <1>1, <1>2, <2>1, CallStays
<1>4. read = [q \in Reads |-> read[q]] /\ \A q \in Reads : CallHolds(read[q])
  BY DEF ClientHolds, ReadsHold
<1>5. \A q \in Reads : read'[q] = IF q = r THEN f ELSE read[q]
  BY <1>1, <1>4
<1>6. read' = [q \in Reads |-> read'[q]]
  BY <1>1, <1>4, <1>5
<1>7. ASSUME NEW q \in Reads PROVE CallHolds(read[q])'
  <2>1. PICK a : a = read'[q]
    OBVIOUS
  <2>2. CallHolds(a)
    BY <1>4, <1>5, <2>1
  <2>3. CallHolds(a)'
    BY <1>3, <2>2
  <2> QED  BY <2>1, <2>3
<1> QED  BY <1>2, <1>6, <1>7 DEF ClientHolds, ReadsHold

(***************************************************************************)
(* An answer about a task names the event it was asked for, "never" is     *)
(* only said of what had not happened when the question was asked, up to   *)
(* the blocks the head is behind, and a summary counts what the chain has  *)
(* paid: for every number of calls, width of the windows, block of         *)
(* deployment and lag of the head, while the chain grows.                  *)
(***************************************************************************)
THEOREM AnswersTheorem == ASSUME ClientAssumed PROVE Client!Spec => []Client!AnswersAreTrue
<1>1. Client!Init => ClientHolds
  <2> SUFFICES ASSUME Client!Init PROVE ClientHolds
    OBVIOUS
  <2>1. blocks = << >> /\ read = [r \in Reads |-> Client!NoAnswer]
    BY DEF Client!Init
  <2>2. ChainHolds
    BY <2>1 DEF ChainHolds, ChainTyped, EndsLast
  <2>3. ReadsHold
    BY <2>1 DEF ReadsHold, CallHolds
  <2> QED  BY <2>2, <2>3 DEF ClientHolds
<1>2. ClientHolds /\ [Client!Next]_Client!own => ClientHolds'
  <2> SUFFICES ASSUME ClientHolds, [Client!Next]_Client!own PROVE ClientHolds'
    OBVIOUS
  <2>0. ChainHolds
    BY DEF ClientHolds
  <2>1. ASSUME NEW t \in Escrowed, NEW k \in Client!Kinds, Client!mine(t, k) PROVE ClientHolds'
    <3>1. /\ ChainHolds' /\ read' = read /\ Len(blocks') = Len(blocks) + 1 /\ Len(blocks) \in Nat
          /\ \A b \in 1 .. Len(blocks) : blocks'[b] = blocks[b]
      <4>1. Len(blocks) \in Nat
        BY <2>0 DEF ChainHolds, ChainTyped
      <4> QED  BY <2>0, <2>1, <4>1, ChainGrows
    <3>2. \A a : CallHolds(a) => CallHolds(a)'
      BY <2>0, <3>1, CallStays
    <3>3. ASSUME NEW r \in Reads PROVE CallHolds(read[r])'
      <4>1. PICK a : a = read[r] /\ a = read'[r]
        BY <3>1
      <4>2. CallHolds(a)'
        BY <3>2, <4>1 DEF ClientHolds, ReadsHold
      <4> QED  BY <4>1, <4>2
    <3> QED  BY <3>1, <3>3 DEF ClientHolds, ReadsHold
  <2>2. ASSUME NEW r \in Reads, NEW t \in Escrowed, NEW op \in Client!Operations,
               Client!begin(r, op, t)
        PROVE  ClientHolds'
    <3>1. op \in Ops
      BY DEF Client!Operations, Ops
    <3>2. Client!Call(r, [ pc |-> IF Client!Scans(op) = {} THEN "getTask" ELSE "getBlockNumber",
                     op |-> op, task |-> t, began |-> Len(blocks), old |-> FALSE,
                     kinds |-> Client!Scans(op) ])
      BY <2>2 DEF Client!begin
    <3> QED  BY <2>0, <3>1, <3>2, BeginsRead, CallChanges
  <2>3. ASSUME NEW r \in Reads, Client!readTaskStruct(r) PROVE ClientHolds'
    BY <2>3, ReadsTask, CallChanges
  <2>4. ASSUME NEW r \in Reads, Client!getBlockNumber(r) PROVE ClientHolds'
    BY <2>4, ReadsHead, CallChanges
  <2>5. ASSUME NEW r \in Reads, Client!getLogs(r) PROVE ClientHolds'
    BY <2>5, ReadsLogs, CallChanges
  <2>6. ASSUME NEW r \in Reads, Client!scanned(r) PROVE ClientHolds'
    BY <2>6, Scanned, CallChanges
  <2>7. ASSUME NEW r \in Reads, Client!fails(r) \/ Client!taken(r) PROVE ClientHolds'
    <3>1. Client!Call(r, Client!NoAnswer)
      BY <2>7 DEF Client!fails, Client!taken
    <3>2. CallHolds(Client!NoAnswer)
      BY DEF CallHolds
    <3> QED  BY <3>1, <3>2, CallChanges
  <2>8. CASE UNCHANGED Client!own
    <3>1. blocks' = blocks /\ read' = read
      BY <2>8 DEF Client!own
    <3>2. ChainHolds' /\ Len(blocks) \in Nat
      BY <2>0, <3>1 DEF ChainHolds, ChainTyped, EndsLast
    <3>3. \A a : CallHolds(a) => CallHolds(a)'
      BY <2>0, <3>1, <3>2, CallStays
    <3>4. ASSUME NEW r \in Reads PROVE CallHolds(read[r])'
      <4>1. PICK a : a = read[r] /\ a = read'[r]
        BY <3>1
      <4>2. CallHolds(a)'
        BY <3>3, <4>1 DEF ClientHolds, ReadsHold
      <4> QED  BY <4>1, <4>2
    <3> QED  BY <3>1, <3>2, <3>4 DEF ClientHolds, ReadsHold
  <2> QED  BY <2>1, <2>2, <2>3, <2>4, <2>5, <2>6, <2>7, <2>8 DEF Client!Next
<1>3. ClientHolds => Client!AnswersAreTrue
  BY AnswersFollow DEF ClientHolds
<1> QED  BY <1>1, <1>2, <1>3, PTL DEF Client!Spec
-----------------------------------------------------------------------------
(* The scores of workers. *)

ScoreAssumed == IsFiniteSet(Rows)

(* The summaries of a worker's tasks. *)
Counts == [ total : Nat, completed : Nat, disputed : Nat,
            recentCompletions : Nat, midCompletions : Nat ]

(* b is a better record than a: as many tasks, no fewer of them paid.      *)
Better(a, b) ==
    /\ b.total = a.total /\ a.completed <= b.completed /\ b.disputed <= a.disputed
    /\ a.recentCompletions <= b.recentCompletions
    /\ a.midCompletions <= b.midCompletions

LEMMA DivMonotone ==
    ASSUME NEW a \in Nat, NEW b \in Nat, NEW n \in Nat \ {0}, a <= b
    PROVE  a \div n \in Nat /\ b \div n \in Nat /\ a \div n <= b \div n
OBVIOUS

LEMMA ClampMonotone ==
    ASSUME NEW a \in Nat, NEW b \in Nat, NEW n \in Nat, a <= b
    PROVE  /\ Rep!Clamp(a, n) \in Nat /\ Rep!Clamp(b, n) \in Nat
           /\ Rep!Clamp(a, n) <= Rep!Clamp(b, n)
BY DEF Rep!Clamp

(* The points for completed work fall with no better record. *)
LEMMA CompletionMonotone ==
    ASSUME NEW a \in Counts, NEW b \in Counts, Better(a, b)
    PROVE  /\ Rep!completionPoints(a) \in Nat /\ Rep!completionPoints(b) \in Nat
           /\ Rep!completionPoints(a) <= Rep!completionPoints(b)
<1>1. /\ a.total \in Nat /\ b.total = a.total
      /\ a.completed \in Nat /\ b.completed \in Nat /\ a.disputed \in Nat /\ b.disputed \in Nat
      /\ a.completed <= b.completed /\ b.disputed <= a.disputed
  BY DEF Counts, Better
<1>2. ASSUME NEW s \in Counts, ~ (s.total = 0 \/ 2 * s.disputed >= s.completed)
      PROVE  /\ s.total \in Nat \ {0} /\ (s.completed - 2 * s.disputed) * 5000 \in Nat
             /\ Rep!completionPoints(s)
                  = Rep!Clamp(((s.completed - 2 * s.disputed) * 5000) \div s.total, 5000)
             /\ ((s.completed - 2 * s.disputed) * 5000) \div s.total \in Nat
             /\ Rep!completionPoints(s) \in Nat
  <2>1. s.total \in Nat /\ s.completed \in Nat /\ s.disputed \in Nat
    BY DEF Counts
  <2>2. s.total \in Nat \ {0} /\ (s.completed - 2 * s.disputed) * 5000 \in Nat
    BY <1>2, <2>1
  <2>3. ((s.completed - 2 * s.disputed) * 5000) \div s.total \in Nat
    BY <2>2, DivMonotone
  <2>4. Rep!completionPoints(s)
          = Rep!Clamp(((s.completed - 2 * s.disputed) * 5000) \div s.total, 5000)
    BY <1>2 DEF Rep!completionPoints
  <2> QED  BY <2>2, <2>3, <2>4, ClampMonotone
<1>3. CASE a.total = 0 \/ 2 * a.disputed >= a.completed
  <2>1. Rep!completionPoints(a) = 0
    BY <1>3 DEF Rep!completionPoints
  <2>2. Rep!completionPoints(b) \in Nat
    <3>1. CASE b.total = 0 \/ 2 * b.disputed >= b.completed
      BY <3>1 DEF Rep!completionPoints
    <3>2. CASE ~ (b.total = 0 \/ 2 * b.disputed >= b.completed)
      BY <1>2, <3>2
    <3> QED  BY <3>1, <3>2
  <2> QED  BY <2>1, <2>2
<1>4. CASE ~ (a.total = 0 \/ 2 * a.disputed >= a.completed)
  <2>1. ~ (b.total = 0 \/ 2 * b.disputed >= b.completed)
    BY <1>1, <1>4
  <2>2. (a.completed - 2 * a.disputed) * 5000 <= (b.completed - 2 * b.disputed) * 5000
    BY <1>1
  <2>3. ((a.completed - 2 * a.disputed) * 5000) \div a.total
          <= ((b.completed - 2 * b.disputed) * 5000) \div b.total
    BY <1>1, <1>2, <1>4, <2>1, <2>2, DivMonotone
  <2> QED  BY <1>2, <1>4, <2>1, <2>3, ClampMonotone
<1> QED  BY <1>3, <1>4

LEMMA VolumeMonotone ==
    ASSUME NEW a \in Counts, NEW b \in Counts, Better(a, b)
    PROVE  /\ Rep!volumePoints(a) \in Nat /\ Rep!volumePoints(b) \in Nat
           /\ Rep!volumePoints(a) <= Rep!volumePoints(b)
<1>1. a.completed \in Nat /\ b.completed \in Nat /\ a.completed <= b.completed
  BY DEF Counts, Better
<1> QED  BY <1>1 DEF Rep!volumePoints

LEMMA RecencyMonotone ==
    ASSUME NEW a \in Counts, NEW b \in Counts, Better(a, b)
    PROVE  /\ Rep!recencyPoints(a) \in Nat /\ Rep!recencyPoints(b) \in Nat
           /\ Rep!recencyPoints(a) <= Rep!recencyPoints(b)
<1>1. PICK p \in Nat : p = 400 * a.recentCompletions + 100 * a.midCompletions
  BY DEF Counts
<1>2. PICK q \in Nat : q = 400 * b.recentCompletions + 100 * b.midCompletions
  BY DEF Counts
<1>3. p <= q
  BY <1>1, <1>2 DEF Counts, Better
<1>4. Rep!recencyPoints(a) = Rep!Clamp(p, 2500) /\ Rep!recencyPoints(b) = Rep!Clamp(q, 2500)
  BY <1>1, <1>2 DEF Rep!recencyPoints
<1> QED  BY <1>3, <1>4, ClampMonotone

(* A better record has no lower score. *)
LEMMA ScoreMonotone ==
    ASSUME NEW a \in Counts, NEW b \in Counts, Better(a, b)
    PROVE  Rep!computeReputation(a) <= Rep!computeReputation(b)
<1>1. PICK p \in Nat, q \in Nat :
        /\ p = Rep!completionPoints(a) + Rep!volumePoints(a) + Rep!recencyPoints(a)
        /\ q = Rep!completionPoints(b) + Rep!volumePoints(b) + Rep!recencyPoints(b)
        /\ p <= q
  BY CompletionMonotone, VolumeMonotone, RecencyMonotone
<1>2. PICK x \in Nat, y \in Nat : x = Rep!Clamp(p, 10000) /\ y = Rep!Clamp(q, 10000) /\ x <= y
  BY <1>1 DEF Rep!Clamp
<1>3. Rep!computeReputation(a) = (x + 50) \div 100 /\ Rep!computeReputation(b) = (y + 50) \div 100
  BY <1>1, <1>2 DEF Rep!computeReputation
<1> QED  BY <1>2, <1>3
-----------------------------------------------------------------------------
LEMMA RepCardinality == \A s : Rep!Cardinality(s) = Cardinality(s)
BY DEF Rep!Cardinality, Cardinality

LEMMA RowsCount == ASSUME ScoreAssumed, NEW s, s \subseteq Rows PROVE Cardinality(s) \in Nat
BY FS_Subset, FS_CardinalityType DEF ScoreAssumed

LEMMA CountsGrow ==
    ASSUME ScoreAssumed, NEW s, NEW u, s \subseteq u, u \subseteq Rows
    PROVE  Cardinality(s) <= Cardinality(u)
BY FS_Subset DEF ScoreAssumed

(* What an answer was told, and that its score is of just that.            *)
Saw(a, words)   == { t \in Rep!Counted(a) : a.read[t] \in words }
DoneIn(a, month) == { t \in Saw(a, Rep!For) : a.age[t] = month }

Counting(a, s) ==
    /\ s.total = Cardinality(Rep!Counted(a))
    /\ s.completed = Cardinality(Saw(a, Rep!For))
    /\ s.disputed = Cardinality(Saw(a, Rep!Against))
    /\ s.recentCompletions = Cardinality(DoneIn(a, "recent"))
    /\ s.midCompletions = Cardinality(DoneIn(a, "mid"))

Scored(a) == \E s \in Counts : Counting(a, s) /\ a.score = Rep!computeReputation(s)

(* Two answers about the same tasks are in the order of what they saw.     *)
LEMMA AnswersInOrder ==
  ASSUME ScoreAssumed, NEW a, NEW b, Scored(a), Scored(b), Rep!Counted(a) = Rep!Counted(b),
         \A t \in Rep!Counted(a) : Rep!NoWorse(a, b, t)
  PROVE  a.score <= b.score
<1>1. PICK s \in Counts : Counting(a, s) /\ a.score = Rep!computeReputation(s)
  BY DEF Scored
<1>2. PICK z \in Counts : Counting(b, z) /\ b.score = Rep!computeReputation(z)
  BY DEF Scored
<1>3. /\ Saw(a, Rep!For) \subseteq Saw(b, Rep!For) /\ Saw(b, Rep!For) \subseteq Rows
      /\ Saw(b, Rep!Against) \subseteq Saw(a, Rep!Against) /\ Saw(a, Rep!Against) \subseteq Rows
      /\ \A m : DoneIn(a, m) \subseteq DoneIn(b, m) /\ DoneIn(b, m) \subseteq Rows
  BY DEF Saw, DoneIn, Rep!NoWorse, Rep!Counted
<1>4. Better(s, z)
  BY <1>1, <1>2, <1>3, CountsGrow DEF Better, Counting
<1> QED  BY <1>1, <1>2, <1>4, ScoreMonotone

(* A summary counts what its answer is recorded to have read.              *)
LEMMA SummaryCounts ==
  ASSUME ScoreAssumed, NEW source, NEW told, NEW known, NEW done, NEW held,
         NEW score, score = Rep!computeReputation(Rep!Summary(known, done, held)),
         known = { t \in Rows : told[t] \notin {"None", "Foreign"} },
         done = { t \in known : told[t] \in Rep!For },
         held = { t \in known : told[t] \in Rep!Against }
  PROVE  Scored([ source |-> source, score |-> score, read |-> told, age |-> age ])
<1> DEFINE a == [ source |-> source, score |-> score, read |-> told, age |-> age ]
<1>1. a.read = told /\ a.age = age /\ a.score = score
  OBVIOUS
<1> HIDE DEF a
<1>2. Rep!Counted(a) = known /\ Saw(a, Rep!For) = done /\ Saw(a, Rep!Against) = held
  BY <1>1 DEF Rep!Counted, Saw
<1>3. \A m : DoneIn(a, m) = { t \in done : age[t] = m }
  BY <1>1, <1>2 DEF DoneIn
<1>4. Rep!Summary(known, done, held) =
        [ total |-> Cardinality(known), completed |-> Cardinality(done),
          disputed |-> Cardinality(held), recentCompletions |-> Cardinality(DoneIn(a, "recent")),
          midCompletions |-> Cardinality(DoneIn(a, "mid")) ]
  BY <1>3, RepCardinality DEF Rep!Summary
<1>5. /\ known \subseteq Rows /\ done \subseteq Rows /\ held \subseteq Rows
      /\ \A m : DoneIn(a, m) \subseteq Rows
  BY <1>3
<1>6. /\ Cardinality(known) \in Nat /\ Cardinality(done) \in Nat /\ Cardinality(held) \in Nat
      /\ \A m : Cardinality(DoneIn(a, m)) \in Nat
  BY <1>5, RowsCount
<1>7. PICK s : s = Rep!Summary(known, done, held)
  OBVIOUS
<1>8. s \in Counts /\ Counting(a, s)
  BY <1>2, <1>4, <1>6, <1>7 DEF Counts, Counting
<1> QED  BY <1>1, <1>7, <1>8 DEF Scored, a

RepHolds ==
    /\ scored = [r \in Readers |-> scored[r]]
    /\ \A r \in Readers :
         /\ scored[r] = [ pc |-> scored[r].pc, said |-> scored[r].said ]
         /\ scored[r].said = Rep!Nothing \/ Scored(scored[r].said)

(* The chain's states are not the table's words.                           *)
RepWords ==
    /\ states = [t \in Rows |-> states[t]]
    /\ \A t \in Rows : states[t] \notin {"completed", "disputed"}

LEMMA WordsStep == RepWords /\ [Rep!Next]_Rep!own => RepWords'
<1> SUFFICES ASSUME RepWords, [Rep!Next]_Rep!own PROVE RepWords'
  OBVIOUS
<1>1. ASSUME UNCHANGED states PROVE RepWords'
  BY <1>1 DEF RepWords
<1>2. ASSUME NEW t \in Rows, NEW m \in Rep!Moves, Rep!escrowStep(t, m[2])
      PROVE  RepWords'
  <2>1. m[2] \notin {"completed", "disputed"} /\ states' = [states EXCEPT ![t] = m[2]]
    BY <1>2 DEF Rep!escrowStep, Rep!Moves
  <2> QED  BY <2>1 DEF RepWords
<1>3. ASSUME NEW t \in Rows, Rep!getsOlder(t) PROVE RepWords'
  BY <1>1, <1>3 DEF Rep!getsOlder
<1>4. ASSUME NEW r \in Readers, Rep!getTasksByWallet(r) \/ Rep!multicall(r) \/ Rep!fallback(r)
      PROVE  RepWords'
  BY <1>1, <1>4 DEF Rep!getTasksByWallet, Rep!multicall, Rep!fallback, Rep!Answers, Rep!Calls
<1>5. CASE UNCHANGED Rep!own
  BY <1>1, <1>5 DEF Rep!own
<1> QED  BY <1>2, <1>3, <1>4, <1>5 DEF Rep!Next

LEMMA RepStep == ASSUME ScoreAssumed PROVE RepWords /\ RepHolds /\ [Rep!Next]_Rep!own => RepHolds'
<1> SUFFICES ASSUME RepWords, RepHolds, [Rep!Next]_Rep!own PROVE RepHolds'
  OBVIOUS
<1>1. ASSUME NEW r \in Readers, NEW pc, NEW said,
             scored' = [scored EXCEPT ![r] = [ pc |-> pc, said |-> said ]],
             said \in {Rep!Nothing, scored[r].said} \/ Scored(said)
      PROVE  RepHolds'
  <2> DEFINE f == [ pc |-> pc, said |-> said ]
  <2>1. f.said = said /\ f = [ pc |-> f.pc, said |-> f.said ]
    OBVIOUS
  <2> HIDE DEF f
  <2>2. /\ scored' = [q \in Readers |-> scored'[q]] /\ scored'[r] = f
        /\ \A q \in Readers \ {r} : scored'[q] = scored[q]
    BY <1>1 DEF RepHolds, f
  <2>3. f.said = Rep!Nothing \/ Scored(f.said)
    BY <1>1, <2>1 DEF RepHolds
  <2> QED  BY <2>1, <2>2, <2>3, Zenon DEF RepHolds
<1>2. ASSUME UNCHANGED scored PROVE RepHolds'
  BY <1>2, Zenon DEF RepHolds
<1>0. ASSUME NEW r \in Readers, NEW pc, Rep!Calls(r, [scored[r] EXCEPT !.pc = pc])
      PROVE  RepHolds'
  <2>1. [scored[r] EXCEPT !.pc = pc] = [ pc |-> pc, said |-> scored[r].said ]
    BY DEF RepHolds
  <2>2. scored' = [scored EXCEPT ![r] = [ pc |-> pc, said |-> scored[r].said ]]
    BY <1>0, <2>1 DEF Rep!Calls
  <2> QED  BY <1>1, <2>2
<1>3. ASSUME NEW r \in Readers, Rep!getTasksByWallet(r)
      PROVE  RepHolds'
  BY <1>0, <1>3 DEF Rep!getTasksByWallet
<1>8. ASSUME NEW r \in Readers, NEW source, NEW told, NEW known, NEW done, NEW held,
             Rep!Answers(r, source, Rep!Summary(known, done, held), told),
             known = { t \in Rows : told[t] \notin {"None", "Foreign"} },
             done = { t \in known : told[t] \in Rep!For },
             held = { t \in known : told[t] \in Rep!Against }
      PROVE  RepHolds'
  <2>1. PICK score : score = Rep!computeReputation(Rep!Summary(known, done, held))
    OBVIOUS
  <2>2. Scored([ source |-> source, score |-> score, read |-> told, age |-> age ])
    BY <1>8, <2>1, SummaryCounts
  <2>3. PICK said : said = [ source |-> source, score |-> score, read |-> told, age |-> age ]
    OBVIOUS
  <2>4. scored' = [scored EXCEPT ![r] = [ pc |-> "none", said |-> said ]]
    BY <1>8, <2>1, <2>3 DEF Rep!Answers, Rep!Calls
  <2> QED  BY <1>1, <2>2, <2>3, <2>4
<1>4. ASSUME NEW r \in Readers, Rep!multicall(r)
      PROVE  RepHolds'
  <2> DEFINE known == { t \in Rows : states[t] \notin {"None", "Foreign"} }
             done  == { t \in known : states[t] = "Completed" }
             held  == { t \in known : states[t] \in {"Disputed", "Resolved"} }
  <2>0. CASE Rep!Calls(r, [scored[r] EXCEPT !.pc = "fallback"])
    BY <1>0, <2>0
  <2>1. CASE Rep!Answers(r, "on-chain", Rep!onChainSummary, states)
    <3>1. Rep!onChainSummary = Rep!Summary(known, done, held)
      BY DEF Rep!onChainSummary
    <3>2. ASSUME NEW t \in known
          PROVE  /\ states[t] \in Rep!For <=> states[t] = "Completed"
                 /\ states[t] \in Rep!Against <=> states[t] \in {"Disputed", "Resolved"}
      BY DEF RepWords, Rep!For, Rep!Against
    <3>3. /\ done = { t \in known : states[t] \in Rep!For }
          /\ held = { t \in known : states[t] \in Rep!Against }
      BY <3>2
    <3> QED  BY <1>8, <2>1, <3>1, <3>3
  <2> QED  BY <1>4, <2>0, <2>1 DEF Rep!multicall
<1>5. ASSUME NEW r \in Readers, Rep!fallback(r)
      PROVE  RepHolds'
  <2>0. CASE Rep!Calls(r, [scored[r] EXCEPT !.pc = "none"])
    BY <1>0, <2>0
  <2>1. ASSUME NEW status \in [Rows -> {"completed", "disputed", "other"}],
               Rep!Answers(r, "database", Rep!databaseSummary(status), status)
        PROVE  RepHolds'
    <3> DEFINE done == { t \in Rows : status[t] = "completed" }
               held == { t \in Rows : status[t] = "disputed" }
    <3>1. Rep!databaseSummary(status) = Rep!Summary(Rows, done, held)
      BY DEF Rep!databaseSummary
    <3>2. /\ Rows = { t \in Rows : status[t] \notin {"None", "Foreign"} }
          /\ done = { t \in Rows : status[t] \in Rep!For }
          /\ held = { t \in Rows : status[t] \in Rep!Against }
      BY <2>1 DEF Rep!For, Rep!Against
    <3> QED  BY <1>8, <2>1, <3>1, <3>2
  <2> QED  BY <1>5, <2>0, <2>1 DEF Rep!fallback
<1>6. CASE UNCHANGED Rep!own
  BY <1>2, <1>6 DEF Rep!own
<1>7. ASSUME NEW t \in Rows, Rep!getsOlder(t) \/ \E m \in Rep!Moves : Rep!escrowStep(t, m[2])
      PROVE  RepHolds'
  BY <1>2, <1>7 DEF Rep!getsOlder, Rep!escrowStep
<1> QED  BY <1>3, <1>4, <1>5, <1>6, <1>7, Zenon DEF Rep!Next

(***************************************************************************)
(* Whichever source it is from, no answer about a worker gives a lower     *)
(* score than an earlier one about the same tasks, unless one of them is by*)
(* then disputed or ruled on, as the source has it, or a completion is of  *)
(* an earlier month; and none a higher one unless one is by then completed,*)
(* or no more said to be disputed (reputation/index.ts, compute.ts): for   *)
(* every number of tasks and of readers.                                   *)
(***************************************************************************)
THEOREM ScoresFollow == ASSUME IsFiniteSet(Rows) PROVE Rep!Spec => [][Rep!ScoreFollows]_Rep!own
<1> USE DEF ScoreAssumed
<1>1. Rep!Init => RepWords /\ RepHolds
  BY DEF Rep!Init, RepWords, RepHolds
<1>2. RepWords /\ RepHolds /\ [Rep!Next]_Rep!own => (RepWords /\ RepHolds)'
  BY WordsStep, RepStep
<1>3. RepHolds /\ RepHolds' => Rep!ScoreFollows
  <2> SUFFICES ASSUME RepHolds, RepHolds', NEW r \in Readers, NEW s \in Readers
               PROVE  LET a == scored[s].said
                          b == scored'[r].said
                      IN  (a # Rep!Nothing /\ b # Rep!Nothing /\ Rep!Counted(a) = Rep!Counted(b)) =>
                            /\ (\A t \in Rep!Counted(a) : Rep!NoWorse(a, b, t)) => a.score <= b.score
                            /\ (\A t \in Rep!Counted(a) : Rep!NoWorse(b, a, t)) => b.score <= a.score
    BY DEF Rep!ScoreFollows
  <2> DEFINE a == scored[s].said
             b == scored'[r].said
  <2>1. a = Rep!Nothing \/ Scored(a)
    BY DEF RepHolds
  <2>2. b = Rep!Nothing \/ Scored(b)
    BY DEF RepHolds, Scored
  <2> HIDE DEF a, b
  <2>3. (a # Rep!Nothing /\ b # Rep!Nothing /\ Rep!Counted(a) = Rep!Counted(b)) =>
            /\ (\A t \in Rep!Counted(a) : Rep!NoWorse(a, b, t)) => a.score <= b.score
            /\ (\A t \in Rep!Counted(a) : Rep!NoWorse(b, a, t)) => b.score <= a.score
    BY <2>1, <2>2, AnswersInOrder
  <2> QED  BY <2>3 DEF a, b
<1> QED  BY <1>1, <1>2, <1>3, PTL DEF Rep!Spec
-----------------------------------------------------------------------------
(* Verdicts. *)

(* Two hashes of one width: the bits that differ and those that agree.     *)
LEMMA BitsCount ==
  ASSUME NEW r \in Seq(Nat), NEW x \in Seq(Nat), DOMAIN r = DOMAIN x
  PROVE  /\ Judge!hammingHex(r, x) \in Nat
         /\ Cardinality({ j \in DOMAIN r : j \in DOMAIN x /\ r[j] = x[j] })
              = Len(r) - Judge!hammingHex(r, x)
         /\ Cardinality(DOMAIN r) = Len(r) /\ Len(r) \in Nat
<1> DEFINE same == { j \in DOMAIN r : j \in DOMAIN x /\ r[j] = x[j] }
           diff == { i \in DOMAIN r : r[i] # x[i] }
<1>1. DOMAIN r = 1 .. Len(r) /\ Len(r) \in Nat
  OBVIOUS
<1>2. IsFiniteSet(DOMAIN r) /\ Cardinality(DOMAIN r) = Len(r)
  <2>1. PICK n \in Nat : n = Len(r) /\ DOMAIN r = 1 .. n
    BY <1>1, Zenon
  <2>2. 1 \in Int /\ n \in Int
    OBVIOUS
  <2>3. IsFiniteSet(1 .. n) /\ Cardinality(1 .. n) = IF 1 > n THEN 0 ELSE n - 1 + 1
    BY <2>2, FS_Interval, Zenon
  <2>4. Cardinality(1 .. n) = n
    BY <2>3
  <2> QED  BY <2>1, <2>3, <2>4
<1>3. diff \subseteq DOMAIN r /\ same = DOMAIN r \ diff
  OBVIOUS
<1>4. IsFiniteSet(diff) /\ Cardinality(diff) \in Nat
  BY <1>2, <1>3, FS_Subset, FS_CardinalityType
<1>5. Cardinality(DOMAIN r \ diff) = Cardinality(DOMAIN r) - Cardinality(DOMAIN r \cap diff)
  BY <1>2, FS_Difference
<1>6. DOMAIN r \cap diff = diff
  BY <1>3
<1>7. Judge!hammingHex(r, x) = Cardinality(diff)
  BY DEF Judge!hammingHex, Judge!Cardinality, Cardinality
<1> HIDE DEF diff
<1>8. Cardinality(same) = Len(r) - Cardinality(diff)
  BY <1>2, <1>3, <1>5, <1>6
<1> QED  BY <1>1, <1>2, <1>4, <1>7, <1>8

(* The code's comparison of similarities is the promise's.                 *)
LEMMA CapsAgree ==
  ASSUME NEW r \in Seq(Nat), NEW x \in Seq(Nat), NEW halves \in Nat
  PROVE  Judge!Comparable(r, x) /\ Judge!WithinCap(r, x, halves) <=>
           /\ {r, x} \cap {Judge!BadHex} = {} /\ DOMAIN r = DOMAIN x
           /\ 2 * Cardinality({ j \in DOMAIN r : j \in DOMAIN x /\ r[j] = x[j] })
                <= halves * Cardinality(DOMAIN r)
<1>1. Len(r) = Len(x) <=> DOMAIN r = DOMAIN x
  OBVIOUS
<1>2. CASE DOMAIN r = DOMAIN x
  <2> DEFINE n == Len(r) - Judge!hammingHex(r, x)
             most == halves * Len(r)
  <2>1. n \in Int /\ Len(r) \in Nat
    <3>1. Judge!hammingHex(r, x) \in Nat /\ Len(r) \in Nat
      BY <1>2, BitsCount, Zenon
    <3> QED  BY <3>1
  <2>2. most \in Nat
    BY <2>1
  <2>3. n * 2 <= most <=> 2 * n <= most
    <3> HIDE DEF n, most
    <3> QED  BY <2>1, <2>2
  <2> QED  BY <1>1, <1>2, <2>3, BitsCount DEF Judge!Comparable, Judge!WithinCap
<1> QED  BY <1>1, <1>2 DEF Judge!Comparable

(* One artefact: what each criterion asks of it is what its row promises.  *)
LEMMA GpsAgrees ==
  ASSUME NEW a \in Judge!Artefact, NEW radius \in Nat
  PROVE  Judge!gpsWithin(a, radius) <=> a.gps # {} /\ \A d \in a.gps : d \in 0 .. radius
BY DEF Judge!gpsWithin, Judge!Artefact, Judge!Optional

LEMMA TimesAgree ==
  ASSUME NEW at \in Nat, NEW a \in Judge!Artefact, NEW t \in Nat
  PROVE  Judge!capturedAfter(a, t, at) <=>
           /\ a.taken # {}
           /\ \A u \in a.taken : ~ (u < (IF t = Judge!FundingTime THEN at ELSE t))
BY DEF Judge!capturedAfter, Judge!parseTimestamp, Judge!Artefact, Judge!Optional

LEMMA HashesAgree ==
  ASSUME NEW a \in Judge!Artefact, NEW h \in [ source : Seq(Seq(Nat)), halves : Nat ]
  PROVE  Judge!phashWithinCap(a, h) <=>
           /\ a.phash # {}
           /\ \A x \in a.phash, i \in DOMAIN h.source :
                LET r    == h.source[i]
                    same == { j \in DOMAIN r : j \in DOMAIN x /\ r[j] = x[j] }
                IN  /\ {r, x} \cap {Judge!BadHex} = {} /\ DOMAIN r = DOMAIN x
                    /\ 2 * Cardinality(same) <= h.halves * Cardinality(DOMAIN r)
<1>1. a.phash \subseteq Seq(Nat) /\ \A x, y \in a.phash : x = y
  BY DEF Judge!Artefact, Judge!Optional
<1>2. \A i \in DOMAIN h.source : h.source[i] \in Seq(Nat)
  OBVIOUS
<1>3. h.halves \in Nat
  OBVIOUS
<1> DEFINE Fits(x, i) == Judge!Comparable(h.source[i], x) /\ Judge!WithinCap(h.source[i], x, h.halves)
           Promise(x, i) == LET r    == h.source[i]
                                same == { j \in DOMAIN r : j \in DOMAIN x /\ r[j] = x[j] }
                            IN  /\ {r, x} \cap {Judge!BadHex} = {} /\ DOMAIN r = DOMAIN x
                                /\ 2 * Cardinality(same) <= h.halves * Cardinality(DOMAIN r)
<1>4. \A x \in a.phash, i \in DOMAIN h.source : Fits(x, i) <=> Promise(x, i)
  BY <1>1, <1>2, <1>3, CapsAgree
<1>5. Judge!phashWithinCap(a, h) <=> \E x \in a.phash : \A i \in DOMAIN h.source : Fits(x, i)
  BY DEF Judge!phashWithinCap
<1> HIDE DEF Fits, Promise
<1>6. (\E x \in a.phash : \A i \in DOMAIN h.source : Fits(x, i))
        <=> a.phash # {} /\ \A x \in a.phash, i \in DOMAIN h.source : Promise(x, i)
  BY <1>1, <1>4
<1> QED  BY <1>5, <1>6 DEF Promise

(* The criteria that fail, one by one: a criterion fails when an artefact  *)
(* does not keep it, and none that is not in the worker's view does.       *)
LEMMA FailuresListed ==
  ASSUME NEW spec \in Judge!Criteria, NEW bundle, NEW at
  PROVE  /\ Judge!evaluateV1(spec, bundle, at) \subseteq
              { "min_artefacts", "gps", "captured_after", "camera", "ai", "phash" }
         /\ "min_artefacts" \in Judge!evaluateV1(spec, bundle, at) <=>
              \E n \in spec.min_artefacts : Len(bundle) < n
         /\ "gps" \in Judge!evaluateV1(spec, bundle, at) <=>
              \E i \in DOMAIN bundle, r \in spec.gps : ~ Judge!gpsWithin(bundle[i], r)
         /\ "captured_after" \in Judge!evaluateV1(spec, bundle, at) <=>
              \E i \in DOMAIN bundle, t \in spec.captured_after : ~ Judge!capturedAfter(bundle[i], t, at)
         /\ "camera" \in Judge!evaluateV1(spec, bundle, at) <=>
              /\ \E p \in spec.provenance : "yes" \in p.camera
              /\ \E i \in DOMAIN bundle : ~ bundle[i].camera
         /\ "ai" \in Judge!evaluateV1(spec, bundle, at) <=>
              /\ \E p \in spec.provenance : "yes" \in p.ai
              /\ \E i \in DOMAIN bundle : bundle[i].ai
         /\ "phash" \in Judge!evaluateV1(spec, bundle, at) <=>
              \E i \in DOMAIN bundle, h \in spec.phash : ~ Judge!phashWithinCap(bundle[i], h)
<1> DEFINE K == Judge!formatCriteria(spec)
           arts == { bundle[i] : i \in DOMAIN bundle }
           asks(k) == \E p \in spec.provenance : "yes" \in p[k]
           Fails(k) ==
             CASE k = "min_artefacts"  -> \E n \in spec.min_artefacts : Len(bundle) < n
               [] k = "gps"            -> \E a \in arts, r \in spec.gps : ~ Judge!gpsWithin(a, r)
               [] k = "captured_after" ->
                    \E a \in arts, t \in spec.captured_after : ~ Judge!capturedAfter(a, t, at)
               [] k = "camera"         -> asks("camera") /\ \E a \in arts : ~ a.camera
               [] k = "ai"             -> asks("ai") /\ \E a \in arts : a.ai
               [] k = "phash"          ->
                    \E a \in arts, h \in spec.phash : ~ Judge!phashWithinCap(a, h)
               [] OTHER                -> FALSE
<1>1. Judge!evaluateV1(spec, bundle, at) = { k \in K : Fails(k) }
  BY DEF Judge!evaluateV1
<1>2. /\ "min_artefacts" \in K <=> spec.min_artefacts # {}
      /\ "gps" \in K <=> spec.gps # {}
      /\ "captured_after" \in K <=> spec.captured_after # {}
      /\ "phash" \in K <=> spec.phash # {}
      /\ "camera" \in K <=> \E p \in spec.provenance : p.camera # {}
      /\ "ai" \in K <=> \E p \in spec.provenance : p.ai # {}
      /\ K \subseteq { "min_artefacts", "gps", "captured_after", "camera", "ai", "phash",
                       "no_criteria" }
  BY DEF Judge!formatCriteria, Judge!hasNoCriteria
<1> HIDE DEF K
<1>3. /\ Fails("min_artefacts") <=> \E n \in spec.min_artefacts : Len(bundle) < n
      /\ Fails("gps") <=> \E a \in arts, r \in spec.gps : ~ Judge!gpsWithin(a, r)
      /\ Fails("captured_after") <=>
           \E a \in arts, t \in spec.captured_after : ~ Judge!capturedAfter(a, t, at)
      /\ Fails("camera") <=> asks("camera") /\ \E a \in arts : ~ a.camera
      /\ Fails("ai") <=> asks("ai") /\ \E a \in arts : a.ai
      /\ Fails("phash") <=> \E a \in arts, h \in spec.phash : ~ Judge!phashWithinCap(a, h)
      /\ ~ Fails("no_criteria")
  OBVIOUS
<1> HIDE DEF Fails
<1> QED  BY <1>1, <1>2, <1>3, ZenonT(40)

(* The verdict passes exactly when every artefact keeps every promise.     *)
LEMMA VerdictsAgree ==
  ASSUME Judge!InputAssumption, NEW spec \in Judge!Criteria, Judge!parseAndHashSpec(spec),
         NEW bundle \in Seq(Judge!Artefact), NEW at \in Nat
  PROVE  Judge!evaluateEvidence(spec, bundle, at) <=> Judge!Kept(spec, bundle, at)
<1>0. /\ Len(bundle) \in Nat
      /\ \A i \in DOMAIN bundle : bundle[i] \in Judge!Artefact
      /\ spec.min_artefacts \subseteq Nat /\ spec.gps \subseteq Nat
      /\ spec.captured_after \subseteq Nat
      /\ spec.phash \subseteq [ source : Seq(Seq(Nat)), halves : Nat ]
  BY DEF Judge!InputAssumption, Judge!Criteria
<1>1. spec.version = 1 /\ 0 \notin spec.min_artefacts
  BY DEF Judge!parseAndHashSpec, Judge!AcceptanceSpecV1
<1>2. Judge!evaluateEvidence(spec, bundle, at) <=>
        /\ "min_artefacts" \notin Judge!evaluateV1(spec, bundle, at)
        /\ "gps" \notin Judge!evaluateV1(spec, bundle, at)
        /\ "captured_after" \notin Judge!evaluateV1(spec, bundle, at)
        /\ "camera" \notin Judge!evaluateV1(spec, bundle, at)
        /\ "ai" \notin Judge!evaluateV1(spec, bundle, at)
        /\ "phash" \notin Judge!evaluateV1(spec, bundle, at)
  BY <1>1, FailuresListed DEF Judge!evaluateEvidence
<1>3. "min_artefacts" \notin Judge!evaluateV1(spec, bundle, at) <=>
        \A n \in spec.min_artefacts : n \in 1 .. Len(bundle)
  <2>1. \A n \in spec.min_artefacts : ~ (Len(bundle) < n) <=> n \in 1 .. Len(bundle)
    BY <1>0, <1>1
  <2> QED  BY <2>1, FailuresListed
<1>4. "gps" \notin Judge!evaluateV1(spec, bundle, at) <=>
        \A i \in DOMAIN bundle, r \in spec.gps :
          bundle[i].gps # {} /\ \A d \in bundle[i].gps : d \in 0 .. r
  BY <1>0, FailuresListed, GpsAgrees
<1>5. "captured_after" \notin Judge!evaluateV1(spec, bundle, at) <=>
        \A i \in DOMAIN bundle, t \in spec.captured_after :
          /\ bundle[i].taken # {}
          /\ \A u \in bundle[i].taken : ~ (u < (IF t = Judge!FundingTime THEN at ELSE t))
  BY <1>0, FailuresListed, TimesAgree
<1>6. "camera" \notin Judge!evaluateV1(spec, bundle, at) <=>
        \A i \in DOMAIN bundle, p \in spec.provenance : "yes" \in p.camera => bundle[i].camera
  BY FailuresListed
<1>7. "ai" \notin Judge!evaluateV1(spec, bundle, at) <=>
        \A i \in DOMAIN bundle, p \in spec.provenance : "yes" \in p.ai => ~ bundle[i].ai
  BY FailuresListed
<1> DEFINE Hashed(a, h) ==
      /\ a.phash # {}
      /\ \A x \in a.phash, i \in DOMAIN h.source :
           LET r    == h.source[i]
               same == { j \in DOMAIN r : j \in DOMAIN x /\ r[j] = x[j] }
           IN  /\ {r, x} \cap {Judge!BadHex} = {} /\ DOMAIN r = DOMAIN x
               /\ 2 * Cardinality(same) <= h.halves * Cardinality(DOMAIN r)
<1>8. "phash" \notin Judge!evaluateV1(spec, bundle, at) <=>
        \A i \in DOMAIN bundle, h \in spec.phash : Hashed(bundle[i], h)
  <2>1. \A i \in DOMAIN bundle, h \in spec.phash :
          Judge!phashWithinCap(bundle[i], h) <=> Hashed(bundle[i], h)
    BY <1>0, HashesAgree
  <2> HIDE DEF Hashed
  <2> QED  BY <2>1, FailuresListed
<1>9. \A a : Judge!Keeps(a, spec, at) <=>
        /\ \A r \in spec.gps : a.gps # {} /\ \A d \in a.gps : d \in 0 .. r
        /\ \A t \in spec.captured_after :
             /\ a.taken # {}
             /\ \A u \in a.taken : ~ (u < (IF t = Judge!FundingTime THEN at ELSE t))
        /\ \A p \in spec.provenance : "yes" \in p.camera => a.camera
        /\ \A p \in spec.provenance : "yes" \in p.ai => ~ a.ai
        /\ \A h \in spec.phash : Hashed(a, h)
  BY DEF Judge!Keeps, Judge!Cardinality, Cardinality
<1> HIDE DEF Hashed
<1>10. Judge!Kept(spec, bundle, at) <=>
         /\ \A i \in DOMAIN bundle : Judge!Keeps(bundle[i], spec, at)
         /\ \A n \in spec.min_artefacts : n \in 1 .. Len(bundle)
  BY DEF Judge!Kept
<1> QED  BY <1>2, <1>3, <1>4, <1>5, <1>6, <1>7, <1>8, <1>9, <1>10

(* What is kept as of a later funding is kept as of an earlier one; and    *)
(* conversely, unless the spec asks for captures after the funding.        *)
LEMMA FundingTimes ==
  ASSUME NEW spec \in Judge!Criteria, NEW bundle \in Seq(Judge!Artefact),
         NEW early \in Nat, NEW at \in Nat, early <= at
  PROVE  /\ Judge!Kept(spec, bundle, at) => Judge!Kept(spec, bundle, early)
         /\ Judge!Kept(spec, bundle, early) =>
              Judge!Kept(spec, bundle, at) \/ Judge!FundingTime \in spec.captured_after
<1> DEFINE Rest(a) ==
      /\ \A r \in spec.gps : a.gps # {} /\ \A d \in a.gps : d \in 0 .. r
      /\ \A p \in spec.provenance :
           ("yes" \in p.camera => a.camera) /\ ("yes" \in p.ai => ~ a.ai)
      /\ \A h \in spec.phash : a.phash # {} /\ \A x \in a.phash, i \in DOMAIN h.source :
           LET r    == h.source[i]
               same == { j \in DOMAIN r : j \in DOMAIN x /\ r[j] = x[j] }
           IN  /\ {r, x} \cap {Judge!BadHex} = {} /\ DOMAIN r = DOMAIN x
               /\ 2 * Cardinality(same) <= h.halves * Cardinality(DOMAIN r)
           Timely(a, when) ==
      \A t \in spec.captured_after :
        a.taken # {} /\ \A u \in a.taken : ~ (u < (IF t = Judge!FundingTime THEN when ELSE t))
<1>1. \A a, when : Judge!Keeps(a, spec, when) <=> Rest(a) /\ Timely(a, when)
  BY DEF Judge!Keeps, Judge!Cardinality, Cardinality
<1>2. \A a \in Judge!Artefact :
        /\ Timely(a, at) => Timely(a, early)
        /\ Timely(a, early) => Timely(a, at) \/ Judge!FundingTime \in spec.captured_after
  BY DEF Judge!Artefact, Judge!Optional
<1>3. \A i \in DOMAIN bundle : bundle[i] \in Judge!Artefact
  OBVIOUS
<1> HIDE DEF Rest, Timely
<1> QED  BY <1>1, <1>2, <1>3 DEF Judge!Kept

(* What has been signed is about the committed bundle and is the checker's *)
(* word on it; neither changes any more.                                   *)
JudgeInv ==
    /\ \/ offer \in Judge!Criteria /\ Judge!parseAndHashSpec(offer)
       \/ offer \in {Judge!Pending, Judge!Refused, Judge!NoSpec}
    /\ state # "Funded" => committed \in Bundles
    /\ fundedAt = {} \/ \E at \in ConfirmedAt : fundedAt = {at}
    /\ \A v \in signed :
         /\ state # "Funded" /\ offer \notin {Judge!Pending, Judge!Refused, Judge!NoSpec}
         /\ specHash /\ fundedAt # {} /\ v.bundle = committed
         /\ \A at \in fundedAt : v.passed = Judge!evaluateEvidence(offer, committed, at)

LEMMA JudgeStep ==
  ASSUME Judge!InputAssumption PROVE JudgeInv /\ [Judge!Next]_Judge!vars => JudgeInv'
<1> SUFFICES ASSUME JudgeInv, [Judge!Next]_Judge!vars PROVE JudgeInv'
  OBVIOUS
<1>1. CASE UNCHANGED Judge!vars
  BY <1>1 DEF JudgeInv, Judge!vars, Judge!own, Judge!evaluateEvidence, Judge!evaluateV1
<1>2. ASSUME NEW spec \in Specs \cup {Judge!NoSpec}, Judge!intake(spec)
      PROVE  JudgeInv'
  <2>1. signed = {} /\ signed' = {}
    BY <1>2 DEF Judge!intake, JudgeInv
  <2> QED  BY <1>2, <2>1 DEF Judge!intake, JudgeInv, Judge!InputAssumption, Judge!parseAndHashSpec,
                             Judge!AcceptanceSpecV1
<1>3. ASSUME NEW b \in Bundles, Judge!submitWork(b)
      PROVE  JudgeInv'
  BY <1>3 DEF Judge!submitWork, JudgeInv
<1>4. CASE Judge!settle
  BY <1>4 DEF Judge!settle, JudgeInv
<1>5. ASSUME NEW party \in BOOLEAN, NEW b, Judge!verdictPOST(party, b)
      PROVE  JudgeInv'
  <2> DEFINE verdict(at) == [ bundle |-> b, passed |-> Judge!evaluateEvidence(offer, b, at) ]
  <2>1. UNCHANGED << offer, state, specHash, committed, fundedAt >> /\ offer \notin {Judge!Pending, Judge!Refused}
    BY <1>5 DEF Judge!verdictPOST
  <2>2. \/ signed' = signed
        \/ /\ offer # Judge!NoSpec /\ state # "Funded" /\ specHash /\ b = committed
           /\ \E at \in fundedAt : signed' = signed \cup {verdict(at)}
    BY <1>5 DEF Judge!verdictPOST, Judge!computeAndSignVerdict, Judge!Told, Judge!Sign
  <2>3. \A at : verdict(at).bundle = b /\ verdict(at).passed = Judge!evaluateEvidence(offer, b, at)
    OBVIOUS
  <2> HIDE DEF verdict
  <2>4. CASE signed' = signed
    BY <2>1, <2>4, Zenon DEF JudgeInv
  <2>5. CASE signed' # signed
    <3>1. PICK at \in fundedAt : signed' = signed \cup {verdict(at)}
      BY <2>2, <2>5
    <3>2. b = committed /\ offer # Judge!NoSpec /\ state # "Funded" /\ specHash
      BY <2>2, <2>5
    <3>3. fundedAt = {at}
      BY <3>1 DEF JudgeInv
    <3>4. \A v \in signed' : v \in signed \/ v = verdict(at)
      BY <3>1
    <3> QED  BY <2>1, <2>3, <3>2, <3>3, <3>4 DEF JudgeInv
  <2> QED  BY <2>4, <2>5
<1> QED  BY <1>1, <1>2, <1>3, <1>4, <1>5 DEF Judge!Next

LEMMA JudgeEarns == ASSUME Judge!InputAssumption PROVE JudgeInv => Judge!VerdictsAreEarned
<1> SUFFICES ASSUME JudgeInv, NEW v \in signed
             PROVE  /\ state # "Funded" /\ v.bundle = committed /\ specHash
                    /\ \A at \in fundedAt : v.passed <=> Judge!Kept(offer, committed, at)
                    /\ v.passed => Judge!Kept(offer, committed, FundedAt)
                    /\ Judge!Kept(offer, committed, FundedAt) =>
                         v.passed \/ Judge!FundingTime \in offer.captured_after
                    /\ \A at \in fundedAt :
                         v.passed \/ Judge!evaluateV1(offer, committed, at)
                                       \subseteq Judge!parseSpecForDisplay(offer)
                    /\ \A u \in signed : u.passed = v.passed
  BY DEF Judge!VerdictsAreEarned
<1>1. PICK at \in ConfirmedAt : fundedAt = {at}
  BY DEF JudgeInv
<1>2. /\ state # "Funded" /\ v.bundle = committed /\ specHash
      /\ offer \in Judge!Criteria /\ Judge!parseAndHashSpec(offer) /\ offer # Judge!NoSpec
      /\ committed \in Seq(Judge!Artefact)
      /\ \A u \in signed : u.passed = Judge!evaluateEvidence(offer, committed, at)
  BY <1>1 DEF JudgeInv, Judge!InputAssumption
<1>3. at \in Nat /\ FundedAt \in Nat /\ FundedAt <= at
  BY DEF Judge!InputAssumption
<1>4. Judge!evaluateV1(offer, committed, at) \subseteq Judge!parseSpecForDisplay(offer)
  BY <1>2 DEF Judge!evaluateV1, Judge!parseSpecForDisplay
<1>5. Judge!evaluateEvidence(offer, committed, at) <=> Judge!Kept(offer, committed, at)
  BY <1>2, <1>3, VerdictsAgree
<1>6. /\ Judge!Kept(offer, committed, at) => Judge!Kept(offer, committed, FundedAt)
      /\ Judge!Kept(offer, committed, FundedAt) =>
           Judge!Kept(offer, committed, at) \/ Judge!FundingTime \in offer.captured_after
  BY <1>2, <1>3, FundingTimes
<1>7. v.passed = Judge!evaluateEvidence(offer, committed, at)
  BY <1>2
<1> QED  BY <1>1, <1>2, <1>4, <1>5, <1>6, <1>7

(* Verdicts (verdict-service.ts, lib/checker): whatever the spec, the      *)
(* evidence, the number of artefacts and the block the funding was         *)
(* confirmed at, a verdict that is signed is about the committed bundle    *)
(* and the committed spec, passes exactly when that bundle keeps every     *)
(* promise as of the recorded time, hence only when it keeps them as the   *)
(* worker was shown them, and agrees with all others on the task.          *)
THEOREM VerdictsTheorem ==
  ASSUME Judge!InputAssumption
  PROVE  Judge!Spec => []Judge!VerdictsAreEarned
<1>1. Judge!Init => JudgeInv
  BY DEF Judge!Init, JudgeInv
<1>2. JudgeInv /\ [Judge!Next]_Judge!vars => JudgeInv'
  BY JudgeStep
<1>3. JudgeInv => Judge!VerdictsAreEarned
  BY JudgeEarns
<1> QED  BY <1>1, <1>2, <1>3, PTL DEF Judge!Spec
-----------------------------------------------------------------------------
(* Signatures. *)

(* a and b are one residue. *)
Cong(a, b) == \E q \in Int : a = b + q * SECP256K1_ORDER

LEMMA CongSame == ASSUME SECP256K1_ORDER \in Int, NEW a \in Int PROVE Cong(a, a)
<1>1. a = a + 0 * SECP256K1_ORDER
  OBVIOUS
<1> QED  BY <1>1 DEF Cong

LEMMA CongBack ==
  ASSUME SECP256K1_ORDER \in Int, NEW a \in Int, NEW b \in Int, Cong(a, b)
  PROVE  Cong(b, a)
<1>1. PICK q \in Int : a = b + q * SECP256K1_ORDER
  BY DEF Cong
<1>2. b = a + (- q) * SECP256K1_ORDER
  BY <1>1
<1>3. - q \in Int
  OBVIOUS
<1> QED  BY <1>2, <1>3 DEF Cong

LEMMA CongThen ==
  ASSUME SECP256K1_ORDER \in Int, NEW a \in Int, NEW b \in Int, NEW c \in Int, Cong(a, b), Cong(b, c)
  PROVE  Cong(a, c)
<1>1. PICK q \in Int : a = b + q * SECP256K1_ORDER
  BY DEF Cong
<1>2. PICK p \in Int : b = c + p * SECP256K1_ORDER
  BY DEF Cong
<1>3. a = c + (q + p) * SECP256K1_ORDER
  BY <1>1, <1>2
<1>4. q + p \in Int
  OBVIOUS
<1> QED  BY <1>3, <1>4 DEF Cong

LEMMA CongPlus ==
  ASSUME SECP256K1_ORDER \in Int, NEW a \in Int, NEW b \in Int, NEW c \in Int, NEW d \in Int,
         Cong(a, b), Cong(c, d)
  PROVE  Cong(a + c, b + d)
<1>1. PICK q \in Int : a = b + q * SECP256K1_ORDER
  BY DEF Cong
<1>2. PICK p \in Int : c = d + p * SECP256K1_ORDER
  BY DEF Cong
<1>3. a + c = b + d + (q + p) * SECP256K1_ORDER
  BY <1>1, <1>2
<1>4. q + p \in Int
  OBVIOUS
<1> QED  BY <1>3, <1>4 DEF Cong

LEMMA CongTimes ==
  ASSUME SECP256K1_ORDER \in Int, NEW a \in Int, NEW b \in Int, NEW c \in Int, NEW d \in Int,
         Cong(a, b), Cong(c, d)
  PROVE  Cong(a * c, b * d)
<1>1. PICK q \in Int : a = b + q * SECP256K1_ORDER
  BY DEF Cong
<1>2. PICK p \in Int : c = d + p * SECP256K1_ORDER
  BY DEF Cong
<1> DEFINE w == q * d + p * b + q * p * SECP256K1_ORDER
<1>3. a * c = b * d + w * SECP256K1_ORDER
  BY <1>1, <1>2
<1>4. w \in Int
  OBVIOUS
<1> QED  BY <1>3, <1>4 DEF Cong

(* Residues below the order are equal when they are one.                   *)
LEMMA CongEqual ==
  ASSUME SECP256K1_ORDER \in Nat, NEW a \in 0 .. SECP256K1_ORDER - 1,
         NEW b \in 0 .. SECP256K1_ORDER - 1, Cong(a, b)
  PROVE  a = b
<1>1. PICK q \in Int : a = b + q * SECP256K1_ORDER
  BY DEF Cong
<1>2. CASE q >= 1
  <2>1. q * SECP256K1_ORDER >= SECP256K1_ORDER
    BY <1>2
  <2> QED  BY <1>1, <2>1
<1>3. CASE q <= -1
  <2>1. q * SECP256K1_ORDER <= - SECP256K1_ORDER
    BY <1>3
  <2> QED  BY <1>1, <2>1
<1>4. CASE q = 0
  BY <1>1, <1>4
<1> QED  BY <1>2, <1>3, <1>4

LEMMA ModCong ==
  ASSUME Kms!GroupAssumption, NEW n \in Nat
  PROVE  Kms!Mod(n) \in 0 .. SECP256K1_ORDER - 1 /\ Cong(Kms!Mod(n), n)
<1>1. SECP256K1_ORDER \in Nat /\ SECP256K1_ORDER > 0
  BY DEF Kms!GroupAssumption
<1>2. /\ n % SECP256K1_ORDER \in 0 .. SECP256K1_ORDER - 1 /\ n \div SECP256K1_ORDER \in Int
      /\ n = SECP256K1_ORDER * (n \div SECP256K1_ORDER) + (n % SECP256K1_ORDER)
  BY <1>1
<1>3. n % SECP256K1_ORDER = n + (- (n \div SECP256K1_ORDER)) * SECP256K1_ORDER
  BY <1>1, <1>2
<1> QED  BY <1>2, <1>3 DEF Cong, Kms!Mod

LEMMA NegCong ==
  ASSUME Kms!GroupAssumption, NEW n \in Nat
  PROVE  Kms!Neg(n) \in 0 .. SECP256K1_ORDER - 1 /\ Cong(n + Kms!Neg(n), 0)
<1>1. SECP256K1_ORDER \in Nat
  BY DEF Kms!GroupAssumption
<1>2. Kms!Mod(n) \in 0 .. SECP256K1_ORDER - 1 /\ Cong(Kms!Mod(n), n)
  BY ModCong
<1>3. PICK m \in Nat : m = SECP256K1_ORDER - Kms!Mod(n)
  BY <1>1, <1>2
<1>4. Kms!Neg(n) \in 0 .. SECP256K1_ORDER - 1 /\ Cong(Kms!Neg(n), m)
  BY <1>3, ModCong DEF Kms!Neg
<1>5. PICK p \in Int : Kms!Mod(n) = n + p * SECP256K1_ORDER
  BY <1>2 DEF Cong
<1>6. PICK q \in Int : Kms!Neg(n) = m + q * SECP256K1_ORDER
  BY <1>4 DEF Cong
<1>7. n + Kms!Neg(n) = 0 + (1 - p + q) * SECP256K1_ORDER
  BY <1>1, <1>3, <1>5, <1>6
<1> QED  BY <1>4, <1>7 DEF Cong

LEMMA InvCong ==
  ASSUME Kms!GroupAssumption, NEW n \in Kms!Scalars
  PROVE  Kms!Inv(n) \in Kms!Scalars /\ Cong(n * Kms!Inv(n), 1)
<1>1. \E m \in Kms!Scalars : Kms!Mod(n * m) = 1
  BY DEF Kms!GroupAssumption, Kms!Scalars, Kms!Mod
<1>2. Kms!Inv(n) \in Kms!Scalars /\ Kms!Mod(n * Kms!Inv(n)) = 1
  BY <1>1 DEF Kms!Inv
<1>3. SECP256K1_ORDER \in Nat /\ n \in Nat /\ Kms!Inv(n) \in Nat /\ n * Kms!Inv(n) \in Nat
  BY <1>2 DEF Kms!GroupAssumption, Kms!Scalars
<1>4. Cong(1, n * Kms!Inv(n))
  BY <1>2, <1>3, ModCong
<1> QED  BY <1>2, <1>3, <1>4, CongBack

(* The smaller of a scalar and its inverse.                                *)
LEMMA NegIs ==
  ASSUME Kms!GroupAssumption, NEW n \in Kms!Scalars
  PROVE  Kms!Neg(n) = SECP256K1_ORDER - n
<1>1. SECP256K1_ORDER \in Nat /\ n \in 1 .. SECP256K1_ORDER - 1
  BY DEF Kms!GroupAssumption, Kms!Scalars
<1>2. \A k \in 0 .. SECP256K1_ORDER - 1 : Kms!Mod(k) = k
  BY <1>1 DEF Kms!Mod
<1> QED  BY <1>1, <1>2 DEF Kms!Neg

LEMMA HalvesMeet ==
  ASSUME Kms!GroupAssumption, NEW r \in Kms!Scalars, Kms!XOf(r) = r
  PROVE  /\ Kms!XOf(Kms!Neg(r)) = r
         /\ Kms!Neg(r) \in Kms!Scalars
<1>1. SECP256K1_ORDER \in Nat /\ r \in 1 .. SECP256K1_ORDER - 1 /\ SECP256K1_ORDER % 2 = 1
  BY DEF Kms!GroupAssumption, Kms!Scalars
<1>2. Kms!Neg(r) = SECP256K1_ORDER - r /\ SECP256K1_ORDER - r \in Kms!Scalars
  BY <1>1, NegIs DEF Kms!Scalars
<1>3. Kms!Neg(SECP256K1_ORDER - r) = r
  BY <1>1, <1>2, NegIs
<1>4. r < SECP256K1_ORDER - r
  BY <1>1, <1>2 DEF Kms!XOf
<1> QED  BY <1>1, <1>2, <1>3, <1>4 DEF Kms!XOf

(* The signer's equation is the verifier's: with R the point that v picks, *)
(* signer = (s R - e) / r, so (e + r signer) / s = R, and R has the x r.   *)
LEMMA RecoveredVerifies ==
  ASSUME Kms!GroupAssumption, NEW e \in Nat, NEW r, NEW s, NEW v, NEW signer \in Kms!Scalars,
         Kms!recoverAddress(e, r, s, v) = signer
  PROVE  /\ r \in Kms!Scalars /\ s \in Kms!Scalars
         /\ Kms!XOf(Kms!Mod(Kms!Inv(s) * (e + r * signer))) = r
<1>1. signer # 0 /\ SECP256K1_ORDER \in Nat
  BY DEF Kms!Scalars, Kms!GroupAssumption
<1>2. r \in Kms!Scalars /\ s \in Kms!Scalars /\ Kms!XOf(r) = r
  BY <1>1 DEF Kms!recoverAddress
<1> DEFINE R == IF v = 27 THEN r ELSE Kms!Neg(r)
<1>3. R \in Kms!Scalars /\ Kms!XOf(R) = r
  BY <1>2, HalvesMeet
<1>4. signer = Kms!Mod(Kms!Inv(r) * (s * R + Kms!Neg(e)))
  BY <1>1, <1>2 DEF Kms!recoverAddress
<1> HIDE DEF R
<1> DEFINE i == Kms!Inv(r)
           j == Kms!Inv(s)
           w == Kms!Neg(e)
<1>5. i \in Kms!Scalars /\ Cong(r * i, 1) /\ j \in Kms!Scalars /\ Cong(s * j, 1)
  BY <1>2, InvCong
<1>6. w \in Nat /\ Cong(e + w, 0)
  BY NegCong
<1> HIDE DEF i, j, w
<1>7. r \in Nat /\ s \in Nat /\ R \in Nat /\ i \in Nat /\ j \in Nat /\ signer \in Nat
  BY <1>2, <1>3, <1>5 DEF Kms!Scalars
<1>8. PICK a \in Int : r * i = 1 + a * SECP256K1_ORDER
  BY <1>5 DEF Cong
<1>9. PICK b \in Int : s * j = 1 + b * SECP256K1_ORDER
  BY <1>5 DEF Cong
<1>10. PICK c \in Int : e + w = 0 + c * SECP256K1_ORDER
  BY <1>6 DEF Cong
<1>11. PICK d \in Int : signer = i * (s * R + w) + d * SECP256K1_ORDER
  <2>1. i * (s * R + w) \in Nat
    BY <1>6, <1>7
  <2>2. Cong(Kms!Mod(i * (s * R + w)), i * (s * R + w))
    BY <2>1, ModCong
  <2> QED  BY <1>4, <2>2 DEF Cong, i, w
<1> DEFINE f == a * (s * R + w) + r * d
           g == j * c + j * f + b * R
<1>12. r * signer = s * R + w + f * SECP256K1_ORDER
  <2>1. r * signer = (r * i) * (s * R + w) + (r * d) * SECP256K1_ORDER
    BY <1>1, <1>6, <1>7, <1>11
  <2>2. (r * i) * (s * R + w) = (s * R + w) + (a * (s * R + w)) * SECP256K1_ORDER
    BY <1>1, <1>6, <1>7, <1>8
  <2>3. a * (s * R + w) \in Int /\ r * d \in Int /\ s * R + w \in Int
    BY <1>6, <1>7
  <2> QED  BY <1>1, <1>6, <1>7, <2>1, <2>2, <2>3
<1>13. f \in Int /\ g \in Int
  BY <1>6, <1>7
<1>14. e + r * signer = s * R + (c + f) * SECP256K1_ORDER
  <2> HIDE DEF f, g
  <2> QED  BY <1>1, <1>6, <1>7, <1>10, <1>12, <1>13
<1>15. j * (e + r * signer) = R + g * SECP256K1_ORDER
  <2> HIDE DEF f
  <2>1. j * (e + r * signer) = (s * j) * R + (j * c + j * f) * SECP256K1_ORDER
    BY <1>1, <1>6, <1>7, <1>13, <1>14
  <2>2. (s * j) * R = R + (b * R) * SECP256K1_ORDER
    BY <1>1, <1>7, <1>9
  <2>3. j * c + j * f \in Int /\ b * R \in Int
    BY <1>7, <1>13
  <2> QED  BY <1>1, <1>7, <2>1, <2>2, <2>3
<1>16. j * (e + r * signer) \in Nat
  BY <1>7
<1>17. Kms!Mod(j * (e + r * signer)) = R
  <2> HIDE DEF g
  <2>1. Cong(j * (e + r * signer), R)
    BY <1>13, <1>15 DEF Cong
  <2>2. /\ Kms!Mod(j * (e + r * signer)) \in 0 .. SECP256K1_ORDER - 1
        /\ Cong(Kms!Mod(j * (e + r * signer)), j * (e + r * signer))
    BY <1>16, ModCong
  <2>3. PICK m \in Int : m = j * (e + r * signer)
    BY <1>16
  <2>4. Cong(Kms!Mod(m), R)
    BY <1>1, <1>7, <2>1, <2>2, <2>3, CongThen
  <2>5. R \in 0 .. SECP256K1_ORDER - 1
    BY <1>3 DEF Kms!Scalars
  <2> QED  BY <1>1, <2>2, <2>3, <2>4, <2>5, CongEqual
<1> QED  BY <1>2, <1>3, <1>17 DEF j
-----------------------------------------------------------------------------
(* What is read from DER bytes is a number. *)

MaxIs(s) == CHOOSE x \in s : \A y \in s : x >= y

LEMMA GreatestElement ==
  ASSUME NEW n \in Nat, NEW s \in SUBSET (1 .. n), s # {}
  PROVE  MaxIs(s) \in s
<1> DEFINE t == { n - x : x \in s }
<1>1. t \subseteq Nat /\ t # {}
  <2>1. \A x \in s : n - x \in Nat
    OBVIOUS
  <2>2. \A x \in s : n - x \in t
    OBVIOUS
  <2> QED  BY <2>1, <2>2
<1>2. PICK m \in t : \A k \in t : m =< k
  BY <1>1, Ind!LeastElement
<1>3. PICK x \in s : m = n - x
  BY <1>2
<1>4. \A y \in s : x >= y
  <2> TAKE y \in s
  <2>1. n - x =< n - y
    BY <1>2, <1>3
  <2> QED  BY <2>1
<1> QED  BY <1>3, <1>4, Zenon DEF MaxIs

Reads256(g, bytes) ==
    g = [s \in SUBSET DOMAIN bytes |->
           IF s = {} THEN 0 ELSE g[s \ {MaxIs(s)}] * BYTE + bytes[MaxIs(s)]]

LEMMA ValueUnfold ==
  ASSUME NEW bytes
  PROVE  Kms!ValueOf(bytes) = (CHOOSE g : Reads256(g, bytes))[DOMAIN bytes]
BY DEF Kms!ValueOf, Kms!FoldLeft, Kms!MapThenFoldSet, Kms!Max, Reads256, MaxIs

LEMMA ValueIsNat ==
  ASSUME BYTE \in Nat, NEW bytes \in Seq(Nat)
  PROVE  Kms!ValueOf(bytes) \in Nat
<1> DEFINE n == Len(bytes)
           D == 1 .. n
           step == [p \in D \X Nat |-> p[2] * BYTE + bytes[p[1]]]
           c == [s \in SUBSET D |-> MaxIs(s)]
<1>1. n \in Nat /\ D = DOMAIN bytes /\ \A i \in D : bytes[i] \in Nat
  OBVIOUS
<1>2. Ind!IsFiniteSet(D)
  <2>1. IsFiniteSet(D)
    BY <1>1, FS_Interval
  <2>2. IsFiniteSet(D) => Ind!IsFiniteSet(D)
    BY DEF Ind!IsFiniteSet, IsFiniteSet
  <2> QED  BY <2>1, <2>2
<1>3. step \in [D \X Nat -> Nat]
  <2>1. \A k \in Nat, b \in Nat : k * BYTE + b \in Nat
    OBVIOUS
  <2>2. \A p \in D \X Nat : p[2] * BYTE + bytes[p[1]] \in Nat
    BY <1>1, <2>1
  <2> QED  BY <2>2
<1>4. Ind!Picks(c, D)
  BY <1>1, GreatestElement DEF Ind!Picks
<1>5. PICK g \in [SUBSET D -> Nat] : Ind!FoldsBy(g, c, 0, step, D)
  <2> HIDE DEF D, step, c
  <2>1. 0 \in Nat
    OBVIOUS
  <2> QED  BY <1>2, <1>3, <1>4, <2>1, Ind!FoldExists, Zenon
<1>6. Reads256(g, bytes)
  <2>1. ASSUME NEW s \in SUBSET D, s # {}
        PROVE  step[<< c[s], g[s \ {c[s]}] >>] = g[s \ {MaxIs(s)}] * BYTE + bytes[MaxIs(s)]
    <3>1. c[s] = MaxIs(s) /\ MaxIs(s) \in D /\ g[s \ {MaxIs(s)}] \in Nat
      BY <1>1, <1>5, <2>1, GreatestElement
    <3> QED  BY <3>1
  <2> HIDE DEF step, c, D
  <2> QED  BY <1>1, <1>5, <2>1 DEF Reads256, Ind!FoldsBy
<1> DEFINE G == CHOOSE h : Reads256(h, bytes)
<1>7. Reads256(G, bytes)
  BY <1>6, Zenon
<1> HIDE DEF G, step, c
<1> DEFINE F == { s \in SUBSET D : G[s] \in Nat }
<1>8. ASSUME NEW s \in SUBSET D, \A U \in SUBSET s : U # s => U \in F
      PROVE  s \in F
  <2>1. G[s] = IF s = {} THEN 0 ELSE G[s \ {MaxIs(s)}] * BYTE + bytes[MaxIs(s)]
    BY <1>1, <1>7 DEF Reads256
  <2>2. CASE s # {}
    <3>1. MaxIs(s) \in s /\ MaxIs(s) \in D
      BY <1>1, <2>2, GreatestElement
    <3>2. s \ {MaxIs(s)} \in F
      BY <1>8, <3>1
    <3>3. G[s \ {MaxIs(s)}] \in Nat /\ bytes[MaxIs(s)] \in Nat
      BY <1>1, <3>1, <3>2
    <3>4. \A k \in Nat, b \in Nat : k * BYTE + b \in Nat
      OBVIOUS
    <3>5. G[s \ {MaxIs(s)}] * BYTE + bytes[MaxIs(s)] \in Nat
      BY <3>3, <3>4, Zenon
    <3>6. G[s] \in Nat
      BY <2>1, <2>2, <3>5, Zenon
    <3> QED  BY <3>6, Zenon
  <2> QED  BY <2>1, <2>2
<1>9. F = SUBSET D
  <2> HIDE DEF D
  <2>1. F \subseteq SUBSET D
    OBVIOUS
  <2> HIDE DEF F
  <2> QED  BY <1>2, <1>8, <2>1, Ind!SetInduct, Zenon
<1>10. G[D] \in Nat
  BY <1>9
<1> QED  BY <1>1, <1>10, ValueUnfold DEF G

LEMMA PartsAreSeqs ==
  ASSUME NEW der \in Seq(Nat), NEW from \in Nat \ {0}, NEW n \in Nat
  PROVE  Kms!subarray(der, from, n) \in Seq(Nat)
<1> DEFINE to == IF from + n - 1 > Len(der) THEN Len(der) ELSE from + n - 1
<1>1. to \in Int /\ to <= Len(der) /\ Len(der) \in Nat
  OBVIOUS
<1>2. Kms!subarray(der, from, n) = SubSeq(der, from, to)
  BY DEF Kms!subarray
<1> HIDE DEF to
<1>3. \A i \in from .. to : der[i] \in Nat
  BY <1>1
<1> QED  BY <1>1, <1>2, <1>3

LEMMA ParsedIsNat ==
  ASSUME BYTE \in Nat, NEW der \in Seq(Nat), Kms!parseDerSignature(der) # Kms!NoDer
  PROVE  Kms!parseDerSignature(der)[2] \in Nat
<1>1. Len(der) \in Nat /\ Len(der) >= 8
  BY SMTT(30) DEF Kms!parseDerSignature, Kms!NoDer
<1>2. der[4] \in Nat
  BY <1>1
<1> DEFINE at == 5 + der[4]
<1>3. at \in Nat /\ ~ (at + 1 > Len(der))
  <2>1. at \in Nat
    BY <1>2
  <2>2. at + 1 > Len(der) => Kms!parseDerSignature(der) = Kms!NoDer
    BY Zenon DEF Kms!parseDerSignature
  <2> QED  BY <2>1, <2>2
<1>4. der[at + 1] \in Nat
  <2>1. at + 1 \in 1 .. Len(der)
    <3> HIDE DEF at
    <3> QED  BY <1>1, <1>3
  <2> HIDE DEF at
  <2> QED  BY <2>1
<1>5. Kms!parseDerSignature(der)[2] = Kms!ValueOf(Kms!subarray(der, at + 2, der[at + 1]))
  BY <1>1, <1>3 DEF Kms!parseDerSignature, Kms!NoDer
<1>6. at + 2 \in Nat \ {0}
  BY <1>3
<1> HIDE DEF at
<1> QED  BY <1>4, <1>5, <1>6, PartsAreSeqs, ValueIsNat

LEMMA DerIsSeq ==
  ASSUME Kms!GroupAssumption, NEW r \in Nat, NEW s \in Nat
  PROVE  Kms!Der(r, s) \in Seq(Nat) /\ Len(Kms!Der(r, s)) > 0
<1>1. ASSUME NEW n \in Nat PROVE Kms!Bytes(n) \in Seq(Nat)
  <2>1. n \div BYTE \in Nat /\ n % BYTE \in Nat
    BY DEF Kms!GroupAssumption
  <2>2. (IF n < BYTE THEN << n >> ELSE << n \div BYTE, n % BYTE >>) \in Seq(Nat)
    BY <2>1
  <2>3. \A digits \in Seq(Nat) : << 0 >> \o digits \in Seq(Nat)
    OBVIOUS
  <2> QED  BY <2>2, <2>3 DEF Kms!Bytes
<1> DEFINE b == Kms!Bytes(r)
           c == Kms!Bytes(s)
<1>2. b \in Seq(Nat) /\ c \in Seq(Nat)
  BY <1>1
<1> HIDE DEF b, c
<1> DEFINE body == << 2, Len(b) >> \o b \o << 2, Len(c) >> \o c
<1>3. body \in Seq(Nat)
  <2>1. << 2, Len(b) >> \o b \in Seq(Nat)
    BY <1>2
  <2>2. << 2, Len(c) >> \in Seq(Nat)
    BY <1>2
  <2>3. << 2, Len(b) >> \o b \o << 2, Len(c) >> \in Seq(Nat)
    BY <2>1, <2>2
  <2> QED  BY <1>2, <2>3
<1>4. Kms!Der(r, s) = << 48, Len(body) >> \o body
  BY DEF Kms!Der, b, c
<1> HIDE DEF body
<1> QED  BY <1>3, <1>4

(* Whatever the module answers, its bytes are a sequence of numbers.       *)
LEMMA AnswersAreSeqs ==
  ASSUME Kms!GroupAssumption, key \in Kms!Scalars, NEW e \in Nat, NEW der \in Kms!Answer(e)
  PROVE  der \in Seq(Nat)
<1>1. ASSUME NEW k \in Kms!Scalars
      PROVE  Kms!XOf(k) \in Nat /\ Kms!Mod(Kms!Inv(k) * (e + Kms!XOf(k) * key)) \in Nat
  <2>1. k \in Nat /\ Kms!Neg(k) \in Nat /\ Kms!Inv(k) \in Nat /\ key \in Nat
    BY NegCong, InvCong DEF Kms!Scalars
  <2>2. Kms!XOf(k) \in Nat
    BY <2>1 DEF Kms!XOf
  <2>3. Kms!XOf(k) * key \in Nat
    BY <2>1, <2>2
  <2>4. Kms!Inv(k) * (e + Kms!XOf(k) * key) \in Nat
    BY <2>1, <2>3
  <2> QED  BY <2>2, <2>4, ModCong
<1>2. \A x \in Kms!Signatures(e) : x[1] \in Nat /\ x[2] \in Nat
  BY <1>1 DEF Kms!Signatures
<1>3. \A x \in Kms!Signatures(e) :
        Kms!Der(x[1], x[2]) \in Seq(Nat) /\ Len(Kms!Der(x[1], x[2])) > 0
  BY <1>2, DerIsSeq
<1>4. \A d \in Seq(Nat) : Len(d) > 0 => SubSeq(d, 1, Len(d) - 1) \in Seq(Nat)
  OBVIOUS
<1>5. \A d \in Seq(Nat) : Len(d) > 0 => Kms!Front(d) \in Seq(Nat)
  BY <1>4 DEF Kms!Front
<1> QED  BY <1>3, <1>5 DEF Kms!Answer
-----------------------------------------------------------------------------
Signature(x) ==
    /\ Kms!Verifies(x.hash, x.sig, x.signer)
    /\ 2 * x.sig.s < SECP256K1_ORDER
    /\ Kms!recoverAddress(x.hash, x.sig.r, x.sig.s, x.sig.v) = x.signer

(* A call under way knows a digest and, once it has it, an account whose   *)
(* address is a key's; no cache holds anything else.                       *)
SignerInv ==
    /\ key \in Kms!Scalars
    /\ address \in {0} \cup Kms!Scalars /\ account \in {0} \cup Kms!Scalars
    /\ \A c \in Signers :
         /\ signing[c].pc \in {"idle", "getPublicKey", "account", "sign", "signed"}
         /\ signing[c].pc # "idle" => signing[c].hash \in Digests
         /\ signing[c].pc \in {"account", "sign", "signed"} => signing[c].signer \in Kms!Scalars
         /\ signing[c].pc = "account" =>
              signing[c] = [ pc |-> "account", hash |-> signing[c].hash, signer |-> signing[c].signer ]
         /\ signing[c].pc = "signed" => Signature(signing[c])
    /\ signing = [c \in Signers |-> signing[c]]

LEMMA HandedOut ==
  ASSUME Kms!GroupAssumption, key \in Kms!Scalars, NEW e \in Digests, NEW signer \in Kms!Scalars,
         NEW der \in Kms!Answer(e), NEW sig \in Kms!derToEthSignature(e, der, signer)
  PROVE  Signature([ pc |-> "signed", hash |-> e, signer |-> signer, sig |-> sig ])
<1>1. e \in Nat /\ SECP256K1_ORDER \in Nat /\ SECP256K1_ORDER % 2 = 1 /\ BYTE \in Nat
  BY DEF Kms!GroupAssumption
<1> DEFINE rs == Kms!parseDerSignature(der)
           s == Kms!normalizeSValue(rs[2])
<1>2. PICK v \in {27, 28} :
        /\ rs # Kms!NoDer /\ sig = [ r |-> rs[1], s |-> s, v |-> v ]
        /\ Kms!recoverAddress(e, rs[1], s, v) = signer
  BY DEF Kms!derToEthSignature
<1>3. rs[2] \in Nat
  BY <1>1, <1>2, AnswersAreSeqs, ParsedIsNat
<1> HIDE DEF rs
<1>4. /\ rs[1] \in Kms!Scalars /\ s \in Kms!Scalars
      /\ Kms!XOf(Kms!Mod(Kms!Inv(s) * (e + rs[1] * signer))) = rs[1]
  BY <1>1, <1>2, RecoveredVerifies
<1>5. 2 * s < SECP256K1_ORDER
  <2>1. PICK h \in Nat : SECP256K1_ORDER = 2 * h + 1 /\ SECP256K1_ORDER \div 2 = h
    BY <1>1
  <2>2. s = IF rs[2] > h THEN SECP256K1_ORDER - rs[2] ELSE rs[2]
    BY <2>1 DEF Kms!normalizeSValue
  <2> QED  BY <1>1, <1>3, <2>1, <2>2
<1> HIDE DEF s
<1>6. sig.r = rs[1] /\ sig.s = s /\ sig.v = v
  BY <1>2
<1> QED  BY <1>2, <1>4, <1>5, <1>6 DEF Signature, Kms!Verifies

LEMMA SignerStep ==
  ASSUME Kms!GroupAssumption PROVE SignerInv /\ [Kms!Next]_Kms!own => SignerInv'
<1> SUFFICES ASSUME SignerInv, [Kms!Next]_Kms!own PROVE SignerInv'
  OBVIOUS
<1> DEFINE Fits(x) ==
      /\ x.pc \in {"idle", "getPublicKey", "account", "sign", "signed"}
      /\ x.pc # "idle" => x.hash \in Digests
      /\ x.pc \in {"account", "sign", "signed"} => x.signer \in Kms!Scalars
      /\ x.pc = "account" => x = [ pc |-> "account", hash |-> x.hash, signer |-> x.signer ]
      /\ x.pc = "signed" => Signature(x)
<1>0. /\ key \in Kms!Scalars
      /\ address \in {0} \cup Kms!Scalars /\ account \in {0} \cup Kms!Scalars
      /\ \A c \in Signers : Fits(signing[c])
      /\ signing = [c \in Signers |-> signing[c]]
  BY DEF SignerInv
<1>a. ASSUME key' \in Kms!Scalars, address' \in {0} \cup Kms!Scalars,
             account' \in {0} \cup Kms!Scalars,
             NEW c \in Signers, NEW f, Kms!To(c, f), Fits(f)
      PROVE  SignerInv'
  <2>1. signing' = [signing EXCEPT ![c] = f]
    BY <1>a DEF Kms!To
  <2> HIDE DEF Fits
  <2>2. \A d \in Signers : Fits(signing'[d])
    BY <1>0, <1>a, <2>1
  <2>3. signing' = [d \in Signers |-> signing'[d]]
    BY <1>0, <2>1
  <2> QED  BY <1>a, <2>2, <2>3 DEF SignerInv, Fits, Signature, Kms!Verifies, Kms!recoverAddress,
                                   Kms!Scalars
<1>b. Fits(Kms!Resting)
  BY DEF Kms!Resting
<1>1. CASE UNCHANGED Kms!own
  BY <1>0, <1>1 DEF Kms!own, SignerInv, Signature
<1>2. ASSUME NEW c \in Signers, NEW e \in Digests, Kms!getPlatformAccount(c, e)
      PROVE  SignerInv'
  <2>1. PICK f : Kms!To(c, f) /\ f \in { [ pc |-> "sign", hash |-> e, signer |-> account ],
                                        [ pc |-> "account", hash |-> e, signer |-> address ],
                                        [ pc |-> "getPublicKey", hash |-> e ] }
                 /\ (f.pc = "sign" => account # 0) /\ (f.pc = "account" => address # 0)
    BY <1>2 DEF Kms!getPlatformAccount
  <2>2. Fits(f)
    BY <1>0, <2>1
  <2>3. UNCHANGED << key, address, account >>
    BY <1>2 DEF Kms!getPlatformAccount
  <2> HIDE DEF Fits
  <2> QED  BY <1>0, <1>a, <2>1, <2>2, <2>3
<1>3. ASSUME NEW c \in Signers, Kms!getEthAddressFromKms(c)
      PROVE  SignerInv'
  <2> DEFINE f == [ pc |-> "account", hash |-> signing[c].hash, signer |-> key ]
  <2>1. /\ UNCHANGED << key, account >> /\ signing[c].pc = "getPublicKey"
        /\ \/ address' = key /\ Kms!To(c, f)
           \/ Kms!To(c, Kms!Resting) /\ UNCHANGED address
    BY <1>3 DEF Kms!getEthAddressFromKms
  <2>2. Fits(f)
    BY <1>0, <2>1
  <2> HIDE DEF Fits, f
  <2> QED  BY <1>0, <1>a, <1>b, <2>1, <2>2
<1>4. ASSUME NEW c \in Signers, Kms!createKmsAccount(c)
      PROVE  SignerInv'
  <2> DEFINE f == [signing[c] EXCEPT !.pc = "sign"]
  <2>1. /\ UNCHANGED << key, address >> /\ signing[c].pc = "account"
        /\ account' = signing[c].signer /\ Kms!To(c, f)
    BY <1>4 DEF Kms!createKmsAccount
  <2>2. f = [ pc |-> "sign", hash |-> signing[c].hash, signer |-> signing[c].signer ]
        /\ signing[c].signer \in Kms!Scalars /\ signing[c].hash \in Digests
    BY <1>0, <2>1
  <2>3. Fits(f)
    BY <2>2
  <2> HIDE DEF Fits, f
  <2> QED  BY <1>0, <1>a, <2>1, <2>2, <2>3
<1>5. ASSUME NEW c \in Signers, Kms!kmsSign(c)
      PROVE  SignerInv'
  <2>1. /\ UNCHANGED << key, address, account >> /\ signing[c].pc = "sign"
        /\ signing[c].hash \in Digests /\ signing[c].signer \in Kms!Scalars
    BY <1>0, <1>5 DEF Kms!kmsSign
  <2>2. PICK der \in Kms!Answer(signing[c].hash) :
          LET out == Kms!derToEthSignature(signing[c].hash, der, signing[c].signer)
          IN  IF out = {} THEN Kms!To(c, Kms!Resting)
              ELSE \E sig \in out :
                     Kms!To(c, [ pc |-> "signed", hash |-> signing[c].hash,
                                 signer |-> signing[c].signer, sig |-> sig ])
    BY <1>5 DEF Kms!kmsSign
  <2>3. CASE Kms!To(c, Kms!Resting)
    <3> HIDE DEF Fits
    <3> QED  BY <1>0, <1>a, <1>b, <2>1, <2>3
  <2>4. CASE ~ Kms!To(c, Kms!Resting)
    <3>1. PICK sig \in Kms!derToEthSignature(signing[c].hash, der, signing[c].signer) :
            Kms!To(c, [ pc |-> "signed", hash |-> signing[c].hash,
                        signer |-> signing[c].signer, sig |-> sig ])
      BY <2>2, <2>4
    <3> DEFINE f == [ pc |-> "signed", hash |-> signing[c].hash,
                      signer |-> signing[c].signer, sig |-> sig ]
    <3>2. Signature(f)
      BY <1>0, <2>1, <2>2, HandedOut
    <3>3. f.pc = "signed" /\ f.hash \in Digests /\ f.signer \in Kms!Scalars
      BY <2>1
    <3>4. Fits(f)
      <4> HIDE DEF f
      <4> QED  BY <3>2, <3>3
    <3> HIDE DEF Fits
    <3> QED  BY <1>0, <1>a, <2>1, <3>1, <3>4
  <2> QED  BY <2>3, <2>4
<1>6. ASSUME NEW c \in Signers, Kms!kmsFails(c)
      PROVE  SignerInv'
  <2>1. UNCHANGED << key, address, account >> /\ Kms!To(c, Kms!Resting)
    BY <1>6 DEF Kms!kmsFails
  <2> HIDE DEF Fits
  <2> QED  BY <1>0, <1>a, <1>b, <2>1
<1>7. ASSUME NEW k \in Kms!Scalars, Kms!rotate(k)
      PROVE  SignerInv'
  <2>1. key' \in Kms!Scalars' /\ UNCHANGED << address, account, signing >>
    BY <1>7 DEF Kms!rotate, Kms!Scalars
  <2> QED  BY <1>0, <2>1 DEF SignerInv, Signature, Kms!Verifies, Kms!recoverAddress, Kms!Scalars
<1>8. CASE Kms!coldStart
  <2>1. /\ UNCHANGED key /\ address' = 0 /\ account' = 0
        /\ signing' = [c \in Signers |-> Kms!Resting]
    BY <1>8 DEF Kms!coldStart
  <2> HIDE DEF Fits
  <2>2. \A c \in Signers : Fits(signing'[c])
    BY <1>b, <2>1
  <2> QED  BY <1>0, <2>1, <2>2 DEF SignerInv, Fits, Signature, Kms!Verifies,
                                   Kms!recoverAddress, Kms!Scalars
<1> QED  BY <1>1, <1>2, <1>3, <1>4, <1>5, <1>6, <1>7, <1>8 DEF Kms!Next

(* Signatures (kms-signer.ts): in every group of odd prime order, whatever *)
(* the module drew and however its answer was cut, a signature handed out  *)
(* verifies for the account's address, has the low s, and leads back to it,*)
(* even after the key was rotated under the cached address.                *)
THEOREM SignaturesTheorem ==
  ASSUME Kms!GroupAssumption
  PROVE  Kms!Spec => []Kms!SignaturesAreTheSigners
<1>1. Kms!Init => SignerInv
  BY DEF Kms!Init, Kms!Resting, SignerInv
<1>2. SignerInv /\ [Kms!Next]_Kms!own => SignerInv'
  BY SignerStep
<1>3. SignerInv => Kms!SignaturesAreTheSigners
  BY DEF SignerInv, Signature, Kms!SignaturesAreTheSigners
<1> QED  BY <1>1, <1>2, <1>3, PTL DEF Kms!Spec
-----------------------------------------------------------------------------
(* Backups. *)

Copied  == Backup!Tables
Pages == Seq(Ids)

Outcome == [ status : {"not yet", "absent", "failed"} ]
             \cup [ status : {"exported"}, rows : Pages, verified : BOOLEAN ]
Line    == [ status : {"not yet", "absent", "failed"} ]
             \cup [ status : {"exported"}, rows : Pages ]
Stored  == [ rows : Pages \cup [Copied -> Line],
             columns : SUBSET ({"id"} \cup Backup!FORBIDDEN_COLUMNS), there : BOOLEAN ]
Export  == [ pc : {"fetch", "put", "get", "put manifest", "get manifest"}, prefix : Minutes,
             table : Nat, rows : Pages, there : [Copied -> SUBSET Ids],
             results : [Copied -> Outcome] ]
Summary == [ pc : {"ended"}, ok : BOOLEAN, prefix : Minutes, there : [Copied -> SUBSET Ids],
             results : [Copied -> Outcome] ]

BackupTyped ==
    /\ db \in [Copied -> SUBSET Ids]
    /\ specs \in [Copied -> SUBSET ({"id"} \cup Backup!FORBIDDEN_COLUMNS)]
    /\ vault \in [Minutes -> [Copied \cup {Backup!Manifest} -> Stored]]
    /\ run \in [Runs -> {Backup!Waiting} \cup Export \cup Summary]

(* The table a run is at.  What has been read of it so far ends where the  *)
(* next page begins; the tables after it have no outcome yet.              *)
Paging(f) ==
    /\ Ind!Ascending(f.rows)
    /\ f.pc \in {"fetch", "put", "get"} =>
         /\ f.table \in 1 .. Len(TIER1_TABLES)
         /\ \A j \in f.table .. Len(TIER1_TABLES) : f.results[TIER1_TABLES[j]] = Backup!NotYet
         /\ \A i \in f.there[TIER1_TABLES[f.table]] :
              \/ \E k \in DOMAIN f.rows : f.rows[k] = i
              \/ f.pc = "fetch" /\ (f.rows = << >> \/ i > f.rows[Len(f.rows)])

(* The tables a run has dealt with.  What it wrote is there as long as no  *)
(* other run has its minute.                                               *)
Exported(f, mine) ==
    \A t \in Copied :
       /\ f.results[t].status = "absent" => t \in missing
       /\ f.results[t].status = "exported" =>
            /\ Ind!Ascending(f.results[t].rows)
            /\ \A i \in f.there[t] : \E k \in DOMAIN f.results[t].rows : f.results[t].rows[k] = i
            /\ f.results[t].verified /\ mine => vault[f.prefix][t].rows = f.results[t].rows

BackupInv ==
    /\ BackupTyped
    /\ \A p \in Minutes, t \in Copied : vault[p][t].columns \cap Backup!FORBIDDEN_COLUMNS = {}
    /\ \A r \in Runs :
         /\ run[r] \in Export =>
              /\ Backup!assertSpecCompliance /\ Paging(run[r])
              /\ \A t \in Copied : run[r].there[t] \subseteq db[t]
         /\ run[r] \in Export \cup Summary => Exported(run[r], Backup!Alone(r))
         /\ run[r] \in Summary /\ run[r].ok =>
              /\ Backup!Whole(run[r].results)
              /\ Backup!Alone(r) => vault[run[r].prefix][Backup!Manifest].rows =
                                         Backup!buildManifest(run[r].results)

(* The rows of a set in order; the first of them.                          *)
LEMMA SortedList ==
  ASSUME Backup!BackupAssumption, NEW S \in SUBSET Ids
  PROVE  /\ Backup!Sorted(S) \in [1 .. Cardinality(S) -> S] /\ Cardinality(S) \in Nat
         /\ Ind!Ascending(Backup!Sorted(S))
         /\ \A i \in S : \E k \in 1 .. Cardinality(S) : Backup!Sorted(S)[k] = i
<1>1. S \subseteq Nat /\ IsFiniteSet(S)
  <2>1. Ids \subseteq Nat /\ IsFiniteSet(Ids)
    BY DEF Backup!BackupAssumption, Backup!IsFiniteSet, IsFiniteSet
  <2> QED  BY <2>1, FS_Subset
<1>2. Cardinality(S) \in Nat
  BY <1>1, FS_CardinalityType
<1>3. \E e \in [1 .. Cardinality(S) -> S] : Ind!Ascending(e)
  BY <1>1, Ind!ListInOrder DEF Ind!IsFiniteSet, IsFiniteSet, Ind!Cardinality, Cardinality
<1>4. Backup!Sorted(S) = CHOOSE e \in [1 .. Cardinality(S) -> S] : Ind!Ascending(e)
  BY DEF Backup!Sorted, Ind!Ascending, Backup!Cardinality, Cardinality
<1>5. Backup!Sorted(S) \in [1 .. Cardinality(S) -> S] /\ Ind!Ascending(Backup!Sorted(S))
  BY <1>3, <1>4, Zenon
<1>6. \A e \in [1 .. Cardinality(S) -> S] :
        Ind!Ascending(e) => \A i \in S : \E k \in 1 .. Cardinality(S) : e[k] = i
  <2> TAKE e \in [1 .. Cardinality(S) -> S]
  <2> HAVE Ind!Ascending(e)
  <2>1. e \in Ind!Bijection(1 .. Cardinality(S), S)
    BY <1>1, Ind!ListIsComplete DEF Ind!IsFiniteSet, IsFiniteSet, Ind!Cardinality, Cardinality
  <2> QED  BY <2>1 DEF Ind!Bijection, Ind!Surjection
<1> QED  BY <1>2, <1>5, <1>6

LEMMA FirstPage ==
  ASSUME Backup!BackupAssumption, NEW S \in SUBSET Ids, NEW p, p = Backup!FirstOf(S)
  PROVE  /\ p \in Pages /\ Ind!Ascending(p)
         /\ \A k \in DOMAIN p : p[k] \in S
         /\ \A i \in S : \/ \E k \in DOMAIN p : p[k] = i
                         \/ Len(p) >= EXPORT_PAGE_SIZE /\ i > p[Len(p)]
<1> DEFINE s == Backup!Sorted(S)
           n == Cardinality(S)
<1>1. /\ s \in [1 .. n -> S] /\ n \in Nat /\ Ind!Ascending(s)
      /\ \A i \in S : \E k \in 1 .. n : s[k] = i
  BY SortedList
<1>2. p = SubSeq(s, 1, IF Len(s) < EXPORT_PAGE_SIZE THEN Len(s) ELSE EXPORT_PAGE_SIZE)
  BY DEF Backup!FirstOf
<1>3. EXPORT_PAGE_SIZE \in Nat \ {0} /\ S \subseteq Nat /\ Ids \subseteq Nat
  BY DEF Backup!BackupAssumption
<1> HIDE DEF s, n
<1>4. s \in Seq(S) /\ Len(s) = n
  BY <1>1
<1>5. PICK m \in Nat : /\ m <= n /\ m = IF n < EXPORT_PAGE_SIZE THEN n ELSE EXPORT_PAGE_SIZE
                       /\ p = SubSeq(s, 1, m)
  BY <1>1, <1>2, <1>3, <1>4
<1>6. p \in Seq(S) /\ Len(p) = m /\ \A k \in 1 .. m : p[k] = s[k]
  BY <1>1, <1>4, <1>5
<1>7. DOMAIN p = 1 .. m
  BY <1>6
<1>8. p \in Pages
  BY <1>6 DEF Pages
<1>9. Ind!Ascending(p)
  BY <1>1, <1>5, <1>6, <1>7, SMTT(30) DEF Ind!Ascending
<1>10. ASSUME NEW i \in S
       PROVE  \/ \E k \in DOMAIN p : p[k] = i
              \/ Len(p) >= EXPORT_PAGE_SIZE /\ i > p[Len(p)]
  <2>1. PICK k \in 1 .. n : s[k] = i
    BY <1>1
  <2>2. CASE k <= m
    BY <1>6, <1>7, <2>1, <2>2
  <2>3. CASE k > m
    <3>1. m = EXPORT_PAGE_SIZE /\ m \in 1 .. n
      BY <1>1, <1>3, <1>5, <2>1, <2>3
    <3>2. s[m] < s[k]
      BY <1>1, <2>1, <2>3, <3>1 DEF Ind!Ascending
    <3>3. s[m] \in Nat /\ s[k] \in Nat
      BY <1>1, <1>3, <3>1
    <3>4. p[m] = s[m]
      BY <1>6, <3>1
    <3>5. Len(p) = m /\ m >= EXPORT_PAGE_SIZE
      BY <1>3, <1>6, <3>1
    <3>6. p[Len(p)] = s[m]
      BY <3>4, <3>5
    <3>7. i > s[m]
      BY <2>1, <3>2, <3>3
    <3> QED  BY <3>5, <3>6, <3>7
  <2>4. k <= m \/ k > m
    <3>1. n \in Nat
      BY <1>1
    <3> QED  BY <3>1
  <2> QED  BY <2>2, <2>3, <2>4
<1> QED  BY <1>6, <1>7, <1>8, <1>9, <1>10

(* A page goes on where the rows before it end.                            *)
LEMMA PagesJoin ==
  ASSUME Ids \subseteq Nat, NEW a \in Pages, NEW b \in Pages, Ind!Ascending(a), Ind!Ascending(b),
         \A k \in DOMAIN b : a = << >> \/ b[k] > a[Len(a)]
  PROVE  /\ a \o b \in Pages /\ Ind!Ascending(a \o b)
         /\ \A i : (\E k \in DOMAIN a : a[k] = i) \/ (\E k \in DOMAIN b : b[k] = i)
                     => \E k \in DOMAIN (a \o b) : (a \o b)[k] = i
         /\ b # << >> => a \o b # << >> /\ (a \o b)[Len(a \o b)] = b[Len(b)]
         /\ b = << >> => a \o b = a
<1> DEFINE c == a \o b
<1>1. /\ c \in Pages /\ Len(c) = Len(a) + Len(b) /\ Len(a) \in Nat /\ Len(b) \in Nat
      /\ DOMAIN a = 1 .. Len(a) /\ DOMAIN b = 1 .. Len(b) /\ DOMAIN c = 1 .. Len(a) + Len(b)
  BY DEF Pages
<1>2. /\ \A k \in 1 .. Len(a) : c[k] = a[k]
      /\ \A k \in 1 .. Len(b) : c[Len(a) + k] = b[k]
  BY DEF Pages
<1>3. \A k \in 1 .. Len(a) + Len(b) : k \in 1 .. Len(a) \/ \E j \in 1 .. Len(b) : k = Len(a) + j
  <2> TAKE k \in 1 .. Len(a) + Len(b)
  <2>1. CASE k > Len(a)
    <3>1. k - Len(a) \in 1 .. Len(b) /\ k = Len(a) + (k - Len(a))
      BY <1>1, <2>1
    <3> QED  BY <3>1
  <2> QED  BY <1>1, <2>1
<1>4. /\ \A k \in 1 .. Len(a) : a[k] \in Nat
      /\ \A k \in 1 .. Len(b) : b[k] \in Nat
  <2>1. /\ \A k \in 1 .. Len(a) : a[k] \in Ids
        /\ \A k \in 1 .. Len(b) : b[k] \in Ids
    BY DEF Pages
  <2> QED  BY <2>1
<1> HIDE DEF c
<1>5. ASSUME NEW i \in DOMAIN c, NEW j \in DOMAIN c, i < j
      PROVE  c[i] < c[j]
  <2>1. CASE j <= Len(a)
    BY <1>1, <1>2, <1>5, <2>1 DEF Ind!Ascending
  <2>2. CASE i > Len(a)
    <3>1. PICK x \in 1 .. Len(b) : i = Len(a) + x
      BY <1>1, <1>3, <2>2
    <3>5. j \in 1 .. Len(a) + Len(b) /\ j \notin 1 .. Len(a)
      BY <1>1, <1>5, <2>2
    <3>2. PICK y \in 1 .. Len(b) : j = Len(a) + y
      BY <1>3, <3>5
    <3>3. x < y
      BY <1>1, <1>5, <3>1, <3>2
    <3>4. b[x] < b[y]
      BY <1>1, <3>3 DEF Ind!Ascending
    <3> QED  BY <1>2, <3>1, <3>2, <3>4
  <2>3. CASE i <= Len(a) /\ j > Len(a)
    <3>1. PICK y \in 1 .. Len(b) : j = Len(a) + y
      BY <1>1, <1>3, <2>3
    <3>2. i \in 1 .. Len(a) /\ a # << >> /\ Len(a) \in 1 .. Len(a)
      BY <1>1, <2>3
    <3>3. b[y] > a[Len(a)]
      BY <1>1, <3>2
    <3>4. a[i] <= a[Len(a)]
      <4>1. CASE i = Len(a)
        BY <1>4, <3>2, <4>1
      <4>2. CASE i < Len(a)
        BY <1>1, <1>4, <3>2, <4>2 DEF Ind!Ascending
      <4> QED  BY <1>1, <3>2, <4>1, <4>2
    <3>5. a[i] \in Nat /\ a[Len(a)] \in Nat /\ b[y] \in Nat
      BY <1>4, <3>2
    <3>6. c[i] = a[i] /\ c[j] = b[y]
      BY <1>2, <3>1, <3>2
    <3> QED  BY <3>3, <3>4, <3>5, <3>6
  <2> QED  BY <1>1, <2>1, <2>2, <2>3
<1>6. Ind!Ascending(c)
  BY <1>5 DEF Ind!Ascending
<1>7. ASSUME NEW i, (\E k \in DOMAIN a : a[k] = i) \/ (\E k \in DOMAIN b : b[k] = i)
      PROVE  \E k \in DOMAIN c : c[k] = i
  <2>1. ASSUME NEW k \in DOMAIN a PROVE k \in DOMAIN c /\ c[k] = a[k]
    BY <1>1, <1>2
  <2>2. ASSUME NEW k \in DOMAIN b PROVE Len(a) + k \in DOMAIN c /\ c[Len(a) + k] = b[k]
    BY <1>1, <1>2
  <2> QED  BY <1>7, <2>1, <2>2
<1>8. b # << >> => c # << >> /\ c[Len(c)] = b[Len(b)]
  <2> SUFFICES ASSUME b # << >> PROVE c # << >> /\ c[Len(c)] = b[Len(b)]
    OBVIOUS
  <2>1. Len(b) \in 1 .. Len(b)
    BY DEF Pages
  <2>2. c[Len(a) + Len(b)] = b[Len(b)]
    BY <1>2, <2>1
  <2>3. c # << >>
    BY <1>1, <2>1
  <2> QED  BY <1>1, <2>2, <2>3
<1>9. b = << >> => c = a
  BY DEF Pages, c
<1> QED  BY <1>1, <1>6, <1>7, <1>8, <1>9 DEF c

(* A run keeps its minute: what is not alone stays so.                     *)
LEMMA AloneStays ==
  ASSUME \A o \in Runs : run[o].pc # "waiting" =>
            run'[o].pc # "waiting" /\ run'[o].prefix = run[o].prefix,
         NEW r \in Runs, run[r].pc # "waiting", Backup!Alone(r)'
  PROVE  Backup!Alone(r)
<1> SUFFICES ASSUME NEW o \in Runs \ {r}, run[o].pc # "waiting", run[o].prefix = run[r].prefix
             PROVE  FALSE
  BY DEF Backup!Alone
<1>1. run'[o].pc = "waiting" \/ run'[o].prefix # run'[r].prefix
  BY DEF Backup!Alone
<1> QED  BY <1>1

LEMMA RunKinds ==
  /\ Backup!Waiting.pc = "waiting" /\ Backup!Waiting \notin Export \cup Summary
  /\ \A f \in Export : f.pc \notin {"waiting", "ended"} /\ f \notin Summary
  /\ \A f \in Summary : f.pc = "ended"
BY DEF Backup!Waiting, Export, Summary

(* One run goes on; nothing else changes.                                  *)
LEMMA GoesKeeps ==
  ASSUME BackupInv, NEW r \in Runs, NEW f \in Export \cup Summary, Backup!Goes(r, f),
         NEW mine \in BOOLEAN, Exported(f, mine),
         \/ run[r] = Backup!Waiting /\ mine
         \/ run[r] \in Export /\ f.prefix = run[r].prefix /\ mine = Backup!Alone(r),
         f \in Export => /\ Backup!assertSpecCompliance /\ Paging(f)
                         /\ \A t \in Copied : f.there[t] \subseteq db[t],
         f \in Summary /\ f.ok =>
            /\ Backup!Whole(f.results)
            /\ mine => vault[f.prefix][Backup!Manifest].rows =
                            Backup!buildManifest(f.results)
  PROVE  BackupInv'
<1>1. /\ UNCHANGED << db, missing, specs, vault >> /\ run' = [run EXCEPT ![r] = f]
      /\ run \in [Runs -> {Backup!Waiting} \cup Export \cup Summary]
  BY DEF Backup!Goes, BackupInv, BackupTyped
<1>2. /\ run' \in [Runs -> {Backup!Waiting} \cup Export \cup Summary]
      /\ run'[r] = f /\ \A o \in Runs \ {r} : run'[o] = run[o]
  BY <1>1
<1>3. \A o \in Runs : run[o].pc # "waiting" =>
         run'[o].pc # "waiting" /\ run'[o].prefix = run[o].prefix
  BY <1>2, RunKinds
<1>4. BackupTyped'
  BY <1>1, <1>2 DEF BackupInv, BackupTyped
<1>5. \A p \in Minutes, t \in Copied : vault'[p][t].columns \cap Backup!FORBIDDEN_COLUMNS = {}
  BY <1>1 DEF BackupInv
<1>6. Backup!assertSpecCompliance' <=> Backup!assertSpecCompliance
  BY <1>1 DEF Backup!assertSpecCompliance
<1>7. \A g, m, n : Exported(g, m) /\ (n => m) => Exported(g, n)
  BY DEF Exported
<1>8. ASSUME NEW o \in Runs
      PROVE  /\ run'[o] \in Export =>
                  /\ Backup!assertSpecCompliance' /\ Paging(run'[o])
                  /\ \A t \in Copied : run'[o].there[t] \subseteq db'[t]
             /\ run'[o] \in Export \cup Summary => Exported(run'[o], Backup!Alone(o)')
             /\ run'[o] \in Summary /\ run'[o].ok =>
                  /\ Backup!Whole(run'[o].results)
                  /\ Backup!Alone(o)' =>
                       vault'[run'[o].prefix][Backup!Manifest].rows =
                            Backup!buildManifest(run'[o].results)
  <2>1. CASE o # r
    <3>1. run'[o] = run[o]
      BY <1>2, <2>1
    <3>2. run[o] \in Export \cup Summary => (Backup!Alone(o)' => Backup!Alone(o))
      BY <1>3, AloneStays, RunKinds
    <3>3. /\ run[o] \in Export =>
                  /\ Backup!assertSpecCompliance /\ Paging(run[o])
                  /\ \A t \in Copied : run[o].there[t] \subseteq db[t]
          /\ run[o] \in Export \cup Summary => Exported(run[o], Backup!Alone(o))
          /\ run[o] \in Summary /\ run[o].ok =>
                  /\ Backup!Whole(run[o].results)
                  /\ Backup!Alone(o) => vault[run[o].prefix][Backup!Manifest].rows =
                                             Backup!buildManifest(run[o].results)
      BY DEF BackupInv
    <3> QED  BY <1>1, <1>6, <1>7, <3>1, <3>2, <3>3
  <2>2. CASE o = r
    <3>1. run'[r] = f
      BY <1>2
    <3>2. Backup!Alone(r)' => mine
      BY <1>3, AloneStays, RunKinds
    <3> QED  BY <1>1, <1>6, <1>7, <2>2, <3>1, <3>2
  <2> QED  BY <2>1, <2>2
<1>9. \A o \in Runs :
         /\ run'[o] \in Export =>
              /\ Backup!assertSpecCompliance' /\ Paging(run[o])'
              /\ \A t \in Copied : run'[o].there[t] \subseteq db'[t]
         /\ run'[o] \in Export \cup Summary => Exported(run[o], Backup!Alone(o))'
         /\ run'[o] \in Summary /\ run'[o].ok =>
              /\ Backup!Whole(run[o].results)'
              /\ Backup!Alone(o)' => vault'[run'[o].prefix][Backup!Manifest].rows =
                                          Backup!buildManifest(run'[o].results)
  BY <1>1, <1>8, SMTT(30) DEF Paging, Exported, Backup!Whole
<1> QED  BY <1>4, <1>5, <1>9 DEF BackupInv

(* The tables of the registry, in order and once each.                     *)
LEMMA RegistryInOrder ==
  ASSUME Backup!BackupAssumption
  PROVE  /\ Len(TIER1_TABLES) \in Nat \ {0}
         /\ \A j \in 1 .. Len(TIER1_TABLES) : TIER1_TABLES[j] \in Copied
         /\ \A t \in Copied : \E j \in 1 .. Len(TIER1_TABLES) : TIER1_TABLES[j] = t
         /\ \A i, j \in 1 .. Len(TIER1_TABLES) : TIER1_TABLES[i] = TIER1_TABLES[j] => i = j
<1>1. TIER1_TABLES \in Seq(STRING) /\ TIER1_TABLES # << >>
  BY DEF Backup!BackupAssumption
<1>2. DOMAIN TIER1_TABLES = 1 .. Len(TIER1_TABLES) /\ Len(TIER1_TABLES) \in Nat \ {0}
  BY <1>1
<1> QED  BY <1>2 DEF Copied, Backup!Tables, Backup!Range, Backup!BackupAssumption, Backup!IsInjective

(* What others write. *)
LEMMA GrowKeeps ==
  ASSUME BackupInv, UNCHANGED << missing, specs, vault, run >>, db' \in [Copied -> SUBSET Ids],
         \A u \in Copied : db[u] \subseteq db'[u]
  PROVE  BackupInv'
<1>1. UNCHANGED << missing, specs, vault, run >>
  OBVIOUS
<1>2. db' \in [Copied -> SUBSET Ids] /\ \A u \in Copied : db[u] \subseteq db'[u]
  OBVIOUS
<1>3. \A o \in Runs : Backup!Alone(o)' <=> Backup!Alone(o)
  BY <1>1 DEF Backup!Alone
<1>4. BackupTyped'
  BY <1>1, <1>2 DEF BackupInv, BackupTyped
<1>5. \A p \in Minutes, u \in Copied : vault'[p][u].columns \cap Backup!FORBIDDEN_COLUMNS = {}
  BY <1>1 DEF BackupInv
<1>6. ASSUME NEW o \in Runs
      PROVE  /\ (run[o] \in Export =>
                  /\ Backup!assertSpecCompliance /\ Paging(run[o])
                  /\ \A u \in Copied : run[o].there[u] \subseteq db[u])'
             /\ (run[o] \in Export \cup Summary => Exported(run[o], Backup!Alone(o)))'
             /\ (run[o] \in Summary /\ run[o].ok =>
                  /\ Backup!Whole(run[o].results)
                  /\ Backup!Alone(o) =>
                       vault[run[o].prefix][Backup!Manifest].rows =
                            Backup!buildManifest(run[o].results))'
  <2>1. /\ run[o] \in Export =>
             /\ Backup!assertSpecCompliance /\ Paging(run[o])
             /\ \A u \in Copied : run[o].there[u] \subseteq db[u]
        /\ run[o] \in Export \cup Summary => Exported(run[o], Backup!Alone(o))
        /\ run[o] \in Summary /\ run[o].ok =>
             /\ Backup!Whole(run[o].results)
             /\ Backup!Alone(o) => vault[run[o].prefix][Backup!Manifest].rows =
                                        Backup!buildManifest(run[o].results)
    BY DEF BackupInv
  <2>2. (run[o] \in Export =>
           /\ Backup!assertSpecCompliance /\ Paging(run[o])
           /\ \A u \in Copied : run[o].there[u] \subseteq db[u])'
    <3>1. run[o] \in Export => \A u \in Copied : run[o].there[u] \subseteq db'[u]
      BY <1>2, <2>1
    <3> QED  BY <1>1, <2>1, <3>1 DEF Paging, Backup!assertSpecCompliance
  <2>3. (run[o] \in Export \cup Summary => Exported(run[o], Backup!Alone(o)))'
    BY <1>1, <1>3, <2>1 DEF Exported
  <2>4. (run[o] \in Summary /\ run[o].ok =>
           /\ Backup!Whole(run[o].results)
           /\ Backup!Alone(o) =>
                vault[run[o].prefix][Backup!Manifest].rows =
                     Backup!buildManifest(run[o].results))'
    BY <1>1, <1>3, <2>1 DEF Backup!Whole, Backup!buildManifest
  <2> QED  BY <2>2, <2>3, <2>4
<1> QED  BY <1>4, <1>5, <1>6 DEF BackupInv

LEMMA InsertKeeps ==
  ASSUME BackupInv, NEW t \in Copied, NEW i \in Ids, Backup!insert(t, i)
  PROVE  BackupInv'
<1>1. /\ db' = [db EXCEPT ![t] = @ \cup {i}] /\ UNCHANGED << missing, specs, vault, run >>
      /\ db \in [Copied -> SUBSET Ids]
  BY DEF Backup!insert, BackupInv, BackupTyped
<1>2. db' \in [Copied -> SUBSET Ids] /\ \A u \in Copied : db[u] \subseteq db'[u]
  BY <1>1
<1> QED  BY <1>1, <1>2, GrowKeeps

LEMMA DeleteKeeps ==
  ASSUME Backup!BackupAssumption, BackupInv, NEW t \in Copied, NEW i \in Ids, Backup!delete(t, i)
  PROVE  BackupInv'
<1> DEFINE Without(f) == [f EXCEPT !.there[t] = @ \ {i}]
<1>1. /\ db' = [db EXCEPT ![t] = @ \ {i}] /\ UNCHANGED << missing, specs, vault >>
      /\ run' = [r \in Runs |-> IF Backup!Active(r) THEN Without(run[r]) ELSE run[r]]
      /\ db \in [Copied -> SUBSET Ids] /\ run \in [Runs -> {Backup!Waiting} \cup Export \cup Summary]
  BY DEF Backup!delete, BackupInv, BackupTyped
<1>2. \A f \in Export :
        /\ Without(f) \in Export /\ Without(f).prefix = f.prefix /\ Without(f).pc = f.pc
        /\ Without(f).results = f.results /\ Without(f).rows = f.rows
        /\ Without(f).table = f.table
        /\ \A u \in Copied : Without(f).there[u] = IF u = t THEN f.there[u] \ {i} ELSE f.there[u]
  BY DEF Export
<1>3. \A r \in Runs : Backup!Active(r) <=> run[r] \in Export
  BY <1>1, RunKinds DEF Backup!Active
<1> HIDE DEF Without
<1>4. \A r \in Runs : IF run[r] \in Export THEN run'[r] = Without(run[r]) ELSE run'[r] = run[r]
  BY <1>1, <1>3
<1>5. db' \in [Copied -> SUBSET Ids] /\ run' \in [Runs -> {Backup!Waiting} \cup Export \cup Summary]
  BY <1>1, <1>2, <1>4
<1>6. \A o \in Runs : run[o].pc # "waiting" =>
         run'[o].pc # "waiting" /\ run'[o].prefix = run[o].prefix
  BY <1>2, <1>4
<1>7. ASSUME NEW f \in Export, Paging(f) PROVE Paging(Without(f))
  <2>1. \A u \in Copied : Without(f).there[u] \subseteq f.there[u]
    BY <1>2
  <2>2. CASE f.pc \notin {"fetch", "put", "get"}
    BY <1>2, <1>7, <2>2 DEF Paging
  <2>3. CASE f.pc \in {"fetch", "put", "get"}
    <3>1. f.table \in 1 .. Len(TIER1_TABLES)
      BY <1>7, <2>3 DEF Paging
    <3>2. TIER1_TABLES[f.table] \in Copied
      BY <3>1, RegistryInOrder
    <3> QED  BY <1>2, <1>7, <2>1, <2>3, <3>2 DEF Paging
  <2> QED  BY <2>2, <2>3
<1>8. ASSUME NEW f \in Export, NEW m, NEW n, Exported(f, m), n => m PROVE Exported(Without(f), n)
  <2>1. \A u \in Copied : Without(f).there[u] \subseteq f.there[u]
    BY <1>2
  <2> QED  BY <1>2, <1>8, <2>1 DEF Exported
<1>9. ASSUME NEW f \in Export, \A u \in Copied : f.there[u] \subseteq db[u]
      PROVE  \A u \in Copied : Without(f).there[u] \subseteq db'[u]
  <2> SUFFICES ASSUME NEW u \in Copied PROVE Without(f).there[u] \subseteq db'[u]
    OBVIOUS
  <2>1. db'[u] = IF u = t THEN db[u] \ {i} ELSE db[u]
    BY <1>1
  <2> QED  BY <1>2, <1>9, <2>1
<1>10. BackupTyped'
  BY <1>1, <1>5 DEF BackupInv, BackupTyped
<1>11. \A p \in Minutes, u \in Copied : vault'[p][u].columns \cap Backup!FORBIDDEN_COLUMNS = {}
  BY <1>1 DEF BackupInv
<1>12. ASSUME NEW o \in Runs
       PROVE  /\ (run[o] \in Export =>
                   /\ Backup!assertSpecCompliance /\ Paging(run[o])
                   /\ \A u \in Copied : run[o].there[u] \subseteq db[u])'
              /\ (run[o] \in Export \cup Summary => Exported(run[o], Backup!Alone(o)))'
              /\ (run[o] \in Summary /\ run[o].ok =>
                   /\ Backup!Whole(run[o].results)
                   /\ Backup!Alone(o) =>
                        vault[run[o].prefix][Backup!Manifest].rows =
                             Backup!buildManifest(run[o].results))'
  <2>1. /\ run[o] \in Export =>
             /\ Backup!assertSpecCompliance /\ Paging(run[o])
             /\ \A u \in Copied : run[o].there[u] \subseteq db[u]
        /\ run[o] \in Export \cup Summary => Exported(run[o], Backup!Alone(o))
        /\ run[o] \in Summary /\ run[o].ok =>
             /\ Backup!Whole(run[o].results)
             /\ Backup!Alone(o) => vault[run[o].prefix][Backup!Manifest].rows =
                                        Backup!buildManifest(run[o].results)
    BY DEF BackupInv
  <2>2. run[o] \in Export \cup Summary => (Backup!Alone(o)' => Backup!Alone(o))
    BY <1>6, AloneStays, RunKinds
  <2>3. CASE run[o] \in Export
    <3>1. run'[o] = Without(run[o]) /\ run'[o] \in Export /\ run'[o] \notin Summary
      BY <1>2, <1>4, <2>3, RunKinds
    <3>2. Paging(run'[o]) /\ \A u \in Copied : run'[o].there[u] \subseteq db'[u]
      BY <1>7, <1>9, <2>1, <2>3, <3>1
    <3>3. Exported(run'[o], Backup!Alone(o)')
      BY <1>8, <2>1, <2>2, <2>3, <3>1
    <3>4. Backup!assertSpecCompliance'
      BY <1>1, <2>1, <2>3 DEF Backup!assertSpecCompliance
    <3>5. Paging(run[o])'
      BY <3>2 DEF Paging
    <3>6. Exported(run[o], Backup!Alone(o))'
      BY <1>1, <3>3 DEF Exported
    <3> QED  BY <3>1, <3>2, <3>4, <3>5, <3>6
  <2>4. CASE run[o] \notin Export
    <3>1. run'[o] = run[o]
      BY <1>4, <2>4
    <3>2. (run[o] \in Export \cup Summary => Exported(run[o], Backup!Alone(o)))'
      BY <1>1, <2>1, <2>2, <3>1 DEF Exported
    <3>3. (run[o] \in Summary /\ run[o].ok =>
             /\ Backup!Whole(run[o].results)
             /\ Backup!Alone(o) =>
                  vault[run[o].prefix][Backup!Manifest].rows =
                       Backup!buildManifest(run[o].results))'
      BY <1>1, <2>1, <2>2, <3>1 DEF Backup!Whole, Backup!buildManifest
    <3> QED  BY <2>4, <3>1, <3>2, <3>3
  <2> QED  BY <2>3, <2>4
<1> QED  BY <1>10, <1>11, <1>12 DEF BackupInv

(* A run begins; it knows of no table yet.                                 *)
LEMMA BeginKeeps ==
  ASSUME Backup!BackupAssumption, BackupInv, NEW r \in Runs, NEW p \in Minutes, Backup!begin(r, p)
  PROVE  BackupInv'
<1> DEFINE f == [ pc |-> "fetch", prefix |-> p, table |-> 1, rows |-> << >>, there |-> db,
                  results |-> [t \in Copied |-> Backup!NotYet] ]
<1>1. /\ run[r].pc = "waiting" /\ Backup!assertSpecCompliance /\ Backup!Goes(r, f)
      /\ run[r] \in {Backup!Waiting} \cup Export \cup Summary /\ db \in [Copied -> SUBSET Ids]
  BY DEF Backup!begin, BackupInv, BackupTyped, Copied
<1>2. run[r] = Backup!Waiting
  BY <1>1, RunKinds
<1>3. f \in Export
  <2>1. Backup!NotYet \in Outcome
    BY DEF Outcome, Backup!NotYet
  <2>2. PICK none \in [Copied -> Outcome] : none = [t \in Copied |-> Backup!NotYet]
    BY <2>1
  <2>5. << >> \in Pages
    BY DEF Pages
  <2>3. PICK e \in Pages : e = << >>
    BY <2>5
  <2>4. [ pc |-> "fetch", prefix |-> p, table |-> 1, rows |-> e, there |-> db, results |-> none ]
          \in Export
    BY <1>1 DEF Export
  <2> QED  BY <2>2, <2>3, <2>4
<1>4. Paging(f)
  <2>1. 1 \in 1 .. Len(TIER1_TABLES)
    BY RegistryInOrder
  <2>2. \A j \in 1 .. Len(TIER1_TABLES) : f.results[TIER1_TABLES[j]] = Backup!NotYet
    BY RegistryInOrder
  <2>3. Ind!Ascending(<< >>)
    BY DEF Ind!Ascending
  <2> QED  BY <2>1, <2>2, <2>3 DEF Paging
<1>5. Exported(f, TRUE)
  BY DEF Exported, Backup!NotYet
<1>6. \A t \in Copied : f.there[t] \subseteq db[t]
  OBVIOUS
<1> HIDE DEF f
<1> QED  BY <1>1, <1>2, <1>3, <1>4, <1>5, <1>6, RunKinds, GoesKeeps

(* A run under way, and the table it is at.                                *)
LEMMA AtTable ==
  ASSUME Backup!BackupAssumption, BackupInv, NEW r \in Runs, run[r].pc \notin {"waiting", "ended"}
  PROVE  /\ run[r] \in Export /\ Backup!assertSpecCompliance /\ Paging(run[r])
         /\ Exported(run[r], Backup!Alone(r)) /\ Backup!Alone(r) \in BOOLEAN
         /\ \A t \in Copied : run[r].there[t] \subseteq db[t]
         /\ run[r].pc \in {"fetch", "put", "get"} =>
              /\ run[r].table \in 1 .. Len(TIER1_TABLES)
              /\ Backup!TableOf(r) = TIER1_TABLES[run[r].table] /\ Backup!TableOf(r) \in Copied
<1>1. run[r] \in Export
  BY RunKinds DEF BackupInv, BackupTyped
<1>2. /\ Backup!assertSpecCompliance /\ Paging(run[r]) /\ Exported(run[r], Backup!Alone(r))
      /\ \A t \in Copied : run[r].there[t] \subseteq db[t]
  BY <1>1 DEF BackupInv
<1>3. ASSUME run[r].pc \in {"fetch", "put", "get"} PROVE run[r].table \in 1 .. Len(TIER1_TABLES)
  <2> QED  BY <1>2, <1>3 DEF Paging
<1>4. Backup!Alone(r) \in BOOLEAN
  BY DEF Backup!Alone
<1> QED  BY <1>1, <1>2, <1>3, <1>4, RegistryInOrder DEF Backup!TableOf

(* What a table's outcome says is so.                                      *)
TrueWord(f, t, result) ==
    /\ result.status = "absent" => t \in missing
    /\ result.status = "exported" =>
         /\ f.pc = "get" /\ result.rows = f.rows
         /\ result.verified => vault[f.prefix][t].rows = f.rows

(* A table has its outcome, and the run goes to the next.                  *)
LEMMA RecordedKeeps ==
  ASSUME Backup!BackupAssumption, BackupInv, NEW r \in Runs, run[r].pc \in {"fetch", "put", "get"},
         NEW result \in Outcome, Backup!Goes(r, Backup!Recorded(r, result)),
         TrueWord(run[r], Backup!TableOf(r), result)
  PROVE  BackupInv'
<1> DEFINE n == Len(TIER1_TABLES)
           t == Backup!TableOf(r)
           f == Backup!Recorded(r, result)
<1>1. /\ run[r] \in Export /\ Backup!assertSpecCompliance /\ Paging(run[r])
      /\ Exported(run[r], Backup!Alone(r)) /\ \A u \in Copied : run[r].there[u] \subseteq db[u]
      /\ run[r].table \in 1 .. n /\ t = TIER1_TABLES[run[r].table] /\ t \in Copied
  BY AtTable
<1>2. /\ f.pc \in {"put manifest", "fetch"} /\ (f.pc = "fetch" => run[r].table + 1 <= n)
      /\ f.prefix = run[r].prefix /\ f.table = run[r].table + 1 /\ f.rows = << >>
      /\ f.there = run[r].there /\ f.results = [run[r].results EXCEPT ![t] = result]
      /\ f \in Export
  <2> DEFINE g == [run[r] EXCEPT !.results[t] = result, !.table = @ + 1, !.rows = << >>]
  <2>1. /\ g \in Export /\ g.prefix = run[r].prefix /\ g.table = run[r].table + 1
        /\ g.rows = << >> /\ g.there = run[r].there
        /\ g.results = [run[r].results EXCEPT ![t] = result]
    <3>1. << >> \in Pages
      BY DEF Pages
    <3>5. run[r].table \in Nat
      BY <1>1 DEF Export
    <3>2. run[r].table + 1 \in Nat
      BY <3>5
    <3>3. run[r].results \in [Copied -> Outcome]
      BY <1>1 DEF Export
    <3>4. [run[r].results EXCEPT ![t] = result] \in [Copied -> Outcome]
      BY <3>3
    <3> HIDE DEF t
    <3> QED  BY <1>1, <3>1, <3>2, <3>4 DEF Export
  <2>2. f = [g EXCEPT !.pc = IF g.table > n THEN "put manifest" ELSE "fetch"]
    BY DEF Backup!Recorded
  <2>3. g.table \in Nat /\ n \in Nat
    BY <2>1, RegistryInOrder DEF Export
  <2> HIDE DEF g, f, t, n
  <2>4. CASE g.table > n
    <3>1. f = [g EXCEPT !.pc = "put manifest"]
      BY <2>2, <2>4
    <3> QED  BY <2>1, <3>1 DEF Export
  <2>5. CASE ~ (g.table > n)
    <3>1. f = [g EXCEPT !.pc = "fetch"]
      BY <2>2, <2>5
    <3>2. run[r].table + 1 <= n
      BY <2>1, <2>3, <2>5
    <3> QED  BY <2>1, <3>1, <3>2 DEF Export
  <2> QED  BY <2>4, <2>5
<1>3. n \in Nat
  BY RegistryInOrder
<1>4. run[r].results \in [Copied -> Outcome]
  BY <1>1 DEF Export
<1>5. \A u \in Copied : f.results[u] = IF u = t THEN result ELSE run[r].results[u]
  BY <1>2, <1>4
<1> HIDE DEF f, n
<1>9. PICK at \in 1 .. n : /\ at = run[r].table /\ f.table = at + 1
                           /\ f.pc = "fetch" => at + 1 <= n
  BY <1>1, <1>2, Zenon
<1>6. Paging(f)
  <2>1. Ind!Ascending(<< >>)
    BY DEF Ind!Ascending
  <2>2. ASSUME f.pc = "fetch" PROVE f.table \in 1 .. n
    BY <1>3, <1>9, <2>2
  <2>3. ASSUME NEW j \in f.table .. n
        PROVE  f.results[TIER1_TABLES[j]] = Backup!NotYet
    <3>1. j \in 1 .. n /\ j \in run[r].table .. n /\ j # run[r].table
      BY <1>3, <1>9
    <3>2. TIER1_TABLES[j] \in Copied /\ TIER1_TABLES[j] # t
      BY <1>1, <3>1, RegistryInOrder DEF n
    <3>3. run[r].results[TIER1_TABLES[j]] = Backup!NotYet
      BY <1>1, <3>1 DEF Paging, n
    <3> QED  BY <1>5, <3>2, <3>3
  <2> QED  BY <1>2, <2>1, <2>2, <2>3 DEF Paging, n
<1>7. Exported(f, Backup!Alone(r))
  <2> SUFFICES ASSUME NEW u \in Copied
               PROVE  /\ f.results[u].status = "absent" => u \in missing
                      /\ f.results[u].status = "exported" =>
                           /\ Ind!Ascending(f.results[u].rows)
                           /\ \A i \in f.there[u] :
                                \E k \in DOMAIN f.results[u].rows : f.results[u].rows[k] = i
                           /\ f.results[u].verified /\ Backup!Alone(r) =>
                                vault[f.prefix][u].rows = f.results[u].rows
    BY DEF Exported
  <2> HIDE DEF t
  <2>1. CASE u # t
    <3>1. f.results[u] = run[r].results[u] /\ f.there = run[r].there /\ f.prefix = run[r].prefix
      BY <1>2, <1>5, <2>1
    <3> QED  BY <1>1, <3>1 DEF Exported
  <2>2. CASE u = t
    <3>1. f.results[u] = result /\ f.there = run[r].there /\ f.prefix = run[r].prefix
      BY <1>2, <1>5, <2>2
    <3>2. run[r].pc = "get" =>
            /\ Ind!Ascending(run[r].rows)
            /\ \A i \in run[r].there[t] : \E k \in DOMAIN run[r].rows : run[r].rows[k] = i
      BY <1>1 DEF Paging
    <3>3. TrueWord(run[r], u, result)
      BY <2>2 DEF t
    <3> QED  BY <2>2, <3>1, <3>2, <3>3 DEF TrueWord
  <2> QED  BY <2>1, <2>2
<1>8. Backup!Goes(r, f)
  BY DEF f
<1>10. /\ \A u \in Copied : f.there[u] \subseteq db[u]
       /\ f \in Export /\ f \notin Summary /\ f.prefix = run[r].prefix
  BY <1>1, <1>2, RunKinds
<1>11. Backup!Alone(r) \in BOOLEAN
  BY DEF Backup!Alone
<1> QED  BY <1>1, <1>6, <1>7, <1>8, <1>10, <1>11, GoesKeeps

LEMMA FetchKeeps ==
  ASSUME Backup!BackupAssumption, BackupInv, NEW r \in Runs, Backup!fetchAllRows(r)
  PROVE  BackupInv'
<1> DEFINE t    == Backup!TableOf(r)
           before == run[r].rows
           S    == { i \in db[t] : before = << >> \/ i > Backup!Last(before) }
           page == Backup!nextPage(t, before)
           f    == [run[r] EXCEPT !.rows = @ \o page,
                             !.pc = IF Len(page) < EXPORT_PAGE_SIZE THEN "put" ELSE "fetch"]
<1>0. run[r].pc = "fetch"
  BY DEF Backup!fetchAllRows
<1>1. /\ run[r] \in Export /\ Backup!assertSpecCompliance /\ Paging(run[r])
      /\ Exported(run[r], Backup!Alone(r)) /\ \A u \in Copied : run[r].there[u] \subseteq db[u]
      /\ run[r].table \in 1 .. Len(TIER1_TABLES) /\ t = TIER1_TABLES[run[r].table] /\ t \in Copied
  BY <1>0, AtTable
<1>2. CASE t \in missing
  <2> DEFINE result == [ status |-> "absent" ]
  <2>1. result \in Outcome /\ result.status = "absent"
    BY DEF Outcome
  <2>2. Backup!Goes(r, Backup!Recorded(r, result))
    BY <1>2 DEF Backup!fetchAllRows
  <2> HIDE DEF result
  <2>3. TrueWord(run[r], t, result)
    BY <1>2, <2>1 DEF TrueWord
  <2> QED  BY <1>0, <2>1, <2>2, <2>3, RecordedKeeps
<1>3. CASE t \notin missing
  <2>1. Backup!Goes(r, f)
    BY <1>3 DEF Backup!fetchAllRows
  <2>2. S \in SUBSET Ids /\ page = Backup!FirstOf(S) /\ Ids \subseteq Nat
    <3>1. db[t] \subseteq Ids
      BY <1>1 DEF BackupInv, BackupTyped
    <3> QED  BY <3>1 DEF Backup!nextPage, Backup!BackupAssumption
  <2>3. Backup!Last(before) = before[Len(before)]
    BY DEF Backup!Last
  <2>4. /\ page \in Pages /\ Ind!Ascending(page)
        /\ \A k \in DOMAIN page : page[k] \in S
        /\ \A i \in S : \/ \E k \in DOMAIN page : page[k] = i
                        \/ Len(page) >= EXPORT_PAGE_SIZE /\ i > page[Len(page)]
    <3> HIDE DEF S, page
    <3> QED  BY <2>2, FirstPage
  <2>5. \A k \in DOMAIN page : before = << >> \/ page[k] > before[Len(before)]
    BY <2>3, <2>4
  <2>6. before \in Pages /\ Ind!Ascending(before) /\ EXPORT_PAGE_SIZE \in Nat \ {0}
    BY <1>1 DEF Export, Paging, Backup!BackupAssumption
  <2>7. ASSUME NEW i \in run[r].there[t]
        PROVE  (\E k \in DOMAIN before : before[k] = i) \/ i \in S
    <3>1. i \in db[t]
      BY <1>1
    <3> QED  BY <1>0, <1>1, <2>3, <3>1 DEF Paging
  <2> DEFINE joined == before \o page
  <2> HIDE DEF before, S, page, t
  <2>8. /\ joined \in Pages /\ Ind!Ascending(joined)
        /\ \A i : (\E k \in DOMAIN before : before[k] = i) \/ (\E k \in DOMAIN page : page[k] = i)
                     => \E k \in DOMAIN joined : joined[k] = i
        /\ page # << >> => joined # << >> /\ joined[Len(joined)] = page[Len(page)]
    BY <2>2, <2>4, <2>5, <2>6, PagesJoin
  <2> HIDE DEF joined
  <2>9. /\ f \in Export /\ f.rows = joined /\ f.prefix = run[r].prefix /\ f.table = run[r].table
        /\ f.there = run[r].there /\ f.results = run[r].results
        /\ f.pc = IF Len(page) < EXPORT_PAGE_SIZE THEN "put" ELSE "fetch"
    BY <1>1, <2>8 DEF Export, joined, before
  <2> HIDE DEF f
  <2>10. ASSUME NEW i \in f.there[t]
         PROVE  \/ \E k \in DOMAIN joined : joined[k] = i
                \/ f.pc = "fetch" /\ (joined = << >> \/ i > joined[Len(joined)])
    <3>1. CASE \E k \in DOMAIN before : before[k] = i
      BY <2>8, <3>1
    <3>2. CASE i \in S
      <4>1. CASE \E k \in DOMAIN page : page[k] = i
        BY <2>8, <4>1
      <4>2. CASE Len(page) >= EXPORT_PAGE_SIZE /\ i > page[Len(page)]
        <5>1. Len(page) \in Nat /\ page # << >>
          BY <2>4, <2>6, <4>2 DEF Pages
        <5>2. f.pc = "fetch"
          BY <2>6, <2>9, <4>2, <5>1
        <5> QED  BY <2>8, <4>2, <5>1, <5>2
      <4> QED  BY <2>4, <3>2, <4>1, <4>2
    <3> QED  BY <2>7, <2>9, <3>1, <3>2
  <2>11. Paging(f)
    BY <1>0, <1>1, <2>8, <2>9, <2>10 DEF Paging
  <2>12. Exported(f, Backup!Alone(r))
    BY <1>1, <2>9 DEF Exported
  <2> QED  BY <1>0, <1>1, <2>1, <2>9, <2>11, <2>12, AtTable, RunKinds, GoesKeeps
<1> QED  BY <1>2, <1>3

LEMMA GetKeeps ==
  ASSUME Backup!BackupAssumption, BackupInv, NEW r \in Runs, Backup!getObject(r)
  PROVE  BackupInv'
<1>1. run[r].pc = "get"
  BY DEF Backup!getObject
<1>2. PICK intact \in BOOLEAN :
        Backup!Goes(r, Backup!Recorded(r, [ status |-> "exported", rows |-> run[r].rows,
          verified |-> intact /\ vault[run[r].prefix][Backup!TableOf(r)] = Backup!Body(r) ]))
  BY DEF Backup!getObject
<1>3. run[r] \in Export
  BY <1>1, AtTable
<1>4. run[r].rows \in Pages
  BY <1>3 DEF Export
<1> DEFINE seen == intact /\ vault[run[r].prefix][Backup!TableOf(r)] = Backup!Body(r)
           result == [ status |-> "exported", rows |-> run[r].rows, verified |-> seen ]
<1>5. seen \in BOOLEAN
  OBVIOUS
<1>6. seen => vault[run[r].prefix][Backup!TableOf(r)].rows = run[r].rows
  BY DEF Backup!Body
<1>7. Backup!Goes(r, Backup!Recorded(r, result))
  BY <1>2
<1> HIDE DEF seen
<1>8. /\ result \in Outcome /\ result.status = "exported" /\ result.rows = run[r].rows
      /\ result.verified = seen
  BY <1>4, <1>5 DEF Outcome
<1> HIDE DEF result
<1>9. TrueWord(run[r], Backup!TableOf(r), result)
  BY <1>1, <1>6, <1>8 DEF TrueWord
<1> QED  BY <1>1, <1>7, <1>8, <1>9, RecordedKeeps

LEMMA FailKeeps ==
  ASSUME Backup!BackupAssumption, BackupInv, NEW r \in Runs, Backup!tableFails(r)
  PROVE  BackupInv'
<1> DEFINE result == [ status |-> "failed" ]
<1>1. run[r].pc \in {"fetch", "put", "get"} /\ Backup!Goes(r, Backup!Recorded(r, result))
  BY DEF Backup!tableFails
<1>2. result \in Outcome /\ result.status = "failed"
  BY DEF Outcome
<1> HIDE DEF result
<1>3. TrueWord(run[r], Backup!TableOf(r), result)
  BY <1>2 DEF TrueWord
<1> QED  BY <1>1, <1>2, <1>3, RecordedKeeps

(* An object is put: a table's, whose outcome is still to come, or the     *)
(* manifest.                                                               *)
LEMMA StoreKeeps ==
  ASSUME Backup!BackupAssumption, BackupInv, NEW r \in Runs, run[r] \in Export,
         NEW name, NEW object \in Stored, NEW pc \in {"get", "get manifest"},
         Backup!Store(r, name, object), run' = [run EXCEPT ![r].pc = pc],
         UNCHANGED << db, missing, specs >>,
         \/ name \in Copied /\ run[r].results[name] = Backup!NotYet
         \/ name = Backup!Manifest,
         name \in Copied => object.columns \cap Backup!FORBIDDEN_COLUMNS = {},
         pc = "get" => run[r].pc = "put", pc = "get manifest" => run[r].pc = "put manifest"
  PROVE  BackupInv'
<1> DEFINE f == [run[r] EXCEPT !.pc = pc]
           m == run[r].prefix
<1>1. /\ run \in [Runs -> {Backup!Waiting} \cup Export \cup Summary]
      /\ vault \in [Minutes -> [Copied \cup {Backup!Manifest} -> Stored]]
      /\ Backup!Manifest \notin Copied
  BY DEF BackupInv, BackupTyped, Backup!BackupAssumption, Copied
<1>2. /\ f \in Export /\ f.pc = pc /\ f.prefix = m /\ f.there = run[r].there /\ f.rows = run[r].rows
      /\ f.results = run[r].results /\ f.table = run[r].table /\ m \in Minutes
  BY DEF Export
<1>3. run' = [run EXCEPT ![r] = f]
  BY <1>1
<1> HIDE DEF f
<1>4. /\ run' \in [Runs -> {Backup!Waiting} \cup Export \cup Summary]
      /\ run'[r] = f /\ \A o \in Runs \ {r} : run'[o] = run[o]
  BY <1>1, <1>2, <1>3
<1>5. vault' = [vault EXCEPT ![m][name] = object]
  BY DEF Backup!Store
<1> HIDE DEF m
<1>6. /\ vault' \in [Minutes -> [Copied \cup {Backup!Manifest} -> Stored]]
      /\ \A p \in Minutes, n \in Copied \cup {Backup!Manifest} :
           vault'[p][n] = IF p = m /\ n = name THEN object ELSE vault[p][n]
  <2>1. vault[m] \in [Copied \cup {Backup!Manifest} -> Stored] /\ name \in Copied \cup {Backup!Manifest}
    BY <1>1, <1>2
  <2>2. [vault[m] EXCEPT ![name] = object] \in [Copied \cup {Backup!Manifest} -> Stored]
    BY <2>1
  <2>3. vault' = [vault EXCEPT ![m] = [vault[m] EXCEPT ![name] = object]]
    BY <1>5
  <2>4. \A p \in Minutes :
          vault'[p] = IF p = m THEN [vault[m] EXCEPT ![name] = object] ELSE vault[p]
    BY <1>1, <2>3
  <2> QED  BY <1>1, <1>2, <2>1, <2>2, <2>3, <2>4
<1>7. BackupTyped'
  BY <1>4, <1>6 DEF BackupInv, BackupTyped
<1>8. \A p \in Minutes, u \in Copied : vault'[p][u].columns \cap Backup!FORBIDDEN_COLUMNS = {}
  BY <1>6 DEF BackupInv
<1>9. \A o \in Runs : run[o].pc # "waiting" =>
         run'[o].pc # "waiting" /\ run'[o].prefix = run[o].prefix
  BY <1>2, <1>4, RunKinds DEF m
<1>10. ASSUME NEW o \in Runs
       PROVE  /\ (run[o] \in Export =>
                   /\ Backup!assertSpecCompliance /\ Paging(run[o])
                   /\ \A u \in Copied : run[o].there[u] \subseteq db[u])'
              /\ (run[o] \in Export \cup Summary => Exported(run[o], Backup!Alone(o)))'
              /\ (run[o] \in Summary /\ run[o].ok =>
                   /\ Backup!Whole(run[o].results)
                   /\ Backup!Alone(o) =>
                        vault[run[o].prefix][Backup!Manifest].rows =
                             Backup!buildManifest(run[o].results))'
  <2>1. /\ run[o] \in Export =>
             /\ Backup!assertSpecCompliance /\ Paging(run[o])
             /\ \A u \in Copied : run[o].there[u] \subseteq db[u]
        /\ run[o] \in Export \cup Summary => Exported(run[o], Backup!Alone(o))
        /\ run[o] \in Summary /\ run[o].ok =>
             /\ Backup!Whole(run[o].results)
             /\ Backup!Alone(o) => vault[run[o].prefix][Backup!Manifest].rows =
                                        Backup!buildManifest(run[o].results)
    BY DEF BackupInv
  <2>2. run[o] \in Export \cup Summary => (Backup!Alone(o)' => Backup!Alone(o))
    BY <1>9, AloneStays, RunKinds
  <2>3. CASE o # r
    <3>1. run'[o] = run[o]
      BY <1>4, <2>3
    <3>2. ASSUME run[o] \in Export \cup Summary, Backup!Alone(o)' PROVE run[o].prefix # m
      <4>1. run'[r].pc # "waiting" /\ run'[r].prefix = m
        BY <1>2, <1>4, RunKinds
      <4> QED  BY <2>3, <3>1, <3>2, <4>1 DEF Backup!Alone
    <3>3. run[o] \in Export \cup Summary => run[o].prefix \in Minutes
      BY DEF Export, Summary
    <3>4. ASSUME run[o] \in Export \cup Summary PROVE Exported(run[o], Backup!Alone(o))'
      <4> SUFFICES ASSUME NEW u \in Copied
                   PROVE  (/\ run[o].results[u].status = "absent" => u \in missing
                           /\ run[o].results[u].status = "exported" =>
                                /\ Ind!Ascending(run[o].results[u].rows)
                                /\ \A i \in run[o].there[u] :
                                     \E k \in DOMAIN run[o].results[u].rows :
                                       run[o].results[u].rows[k] = i
                                /\ run[o].results[u].verified /\ Backup!Alone(o) =>
                                     vault[run[o].prefix][u].rows = run[o].results[u].rows)'
        BY DEF Exported, Copied
      <4>1. Backup!Alone(o)' => vault'[run[o].prefix][u] = vault[run[o].prefix][u]
        BY <1>6, <3>2, <3>3, <3>4
      <4>2. /\ run[o].results[u].status = "absent" => u \in missing
            /\ run[o].results[u].status = "exported" =>
                 /\ Ind!Ascending(run[o].results[u].rows)
                 /\ \A i \in run[o].there[u] :
                      \E k \in DOMAIN run[o].results[u].rows : run[o].results[u].rows[k] = i
                 /\ run[o].results[u].verified /\ Backup!Alone(o) =>
                      vault[run[o].prefix][u].rows = run[o].results[u].rows
        BY <2>1, <3>4 DEF Exported
      <4>3. Backup!Alone(o)' => Backup!Alone(o)
        BY <2>2, <3>4
      <4> QED  BY <3>1, <4>1, <4>2, <4>3, ZenonT(40)
    <3>5. (run[o] \in Export =>
             /\ Backup!assertSpecCompliance /\ Paging(run[o])
             /\ \A u \in Copied : run[o].there[u] \subseteq db[u])'
      BY <2>1, <3>1, ZenonT(40) DEF Paging, Backup!assertSpecCompliance
    <3>6. (run[o] \in Summary /\ run[o].ok =>
             /\ Backup!Whole(run[o].results)
             /\ Backup!Alone(o) =>
                  vault[run[o].prefix][Backup!Manifest].rows =
                       Backup!buildManifest(run[o].results))'
      <4>1. run[o] \in Summary /\ Backup!Alone(o)' =>
              vault'[run[o].prefix][Backup!Manifest] = vault[run[o].prefix][Backup!Manifest]
        BY <1>6, <3>2, <3>3
      <4>2. Backup!buildManifest(run[o].results)' = Backup!buildManifest(run'[o].results)
        BY DEF Backup!buildManifest
      <4> QED  BY <2>1, <2>2, <3>1, <4>1, <4>2 DEF Backup!Whole
    <3> QED  BY <3>1, <3>4, <3>5, <3>6
  <2>4. CASE o = r
    <3>1. run'[o] = f /\ f \in Export /\ f \notin Summary
      BY <1>2, <1>4, <2>4, RunKinds
    <3>2. Exported(run[o], Backup!Alone(o))'
      <4> SUFFICES ASSUME NEW u \in Copied
                   PROVE  (/\ run[o].results[u].status = "absent" => u \in missing
                           /\ run[o].results[u].status = "exported" =>
                                /\ Ind!Ascending(run[o].results[u].rows)
                                /\ \A i \in run[o].there[u] :
                                     \E k \in DOMAIN run[o].results[u].rows :
                                       run[o].results[u].rows[k] = i
                                /\ run[o].results[u].verified /\ Backup!Alone(o) =>
                                     vault[run[o].prefix][u].rows = run[o].results[u].rows)'
        BY DEF Exported, Copied
      <4>1. f.results[u] = run[o].results[u] /\ f.there = run[o].there /\ f.prefix = run[o].prefix
        BY <1>2, <2>4 DEF m
      <4>2. ASSUME run[o].results[u].status = "exported" PROVE u # name
        <5>1. Backup!NotYet.status # "exported"
          BY DEF Backup!NotYet
        <5> QED  BY <1>1, <2>4, <4>2, <5>1
      <4>3. u # name => vault'[f.prefix][u] = vault[f.prefix][u]
        BY <1>2, <1>6
      <4>4. /\ run[o].results[u].status = "absent" => u \in missing
            /\ run[o].results[u].status = "exported" =>
                 /\ Ind!Ascending(run[o].results[u].rows)
                 /\ \A i \in run[o].there[u] :
                      \E k \in DOMAIN run[o].results[u].rows : run[o].results[u].rows[k] = i
                 /\ run[o].results[u].verified /\ Backup!Alone(o) =>
                      vault[run[o].prefix][u].rows = run[o].results[u].rows
        BY <2>1, <2>4 DEF Exported
      <4>5. Backup!Alone(o)' => Backup!Alone(o)
        BY <2>2, <2>4
      <4>6. run'[o].results[u] = run[o].results[u] /\ run'[o].there = run[o].there
            /\ run'[o].prefix = f.prefix /\ run[o].prefix = f.prefix
        BY <3>1, <4>1
      <4>7. run[o].results[u].status = "exported" =>
              vault'[f.prefix][u] = vault[f.prefix][u]
        BY <4>2, <4>3
      <4>8. (run[o].results[u].status = "absent" => u \in missing)'
        BY <4>4, <4>6
      <4>9. ASSUME run'[o].results[u].status = "exported"
            PROVE  /\ Ind!Ascending(run'[o].results[u].rows)
                   /\ \A i \in run'[o].there[u] :
                        \E k \in DOMAIN run'[o].results[u].rows : run'[o].results[u].rows[k] = i
                   /\ run'[o].results[u].verified /\ Backup!Alone(o)' =>
                        vault'[run'[o].prefix][u].rows = run'[o].results[u].rows
        <5>1. run[o].results[u].status = "exported"
          BY <4>6, <4>9
        <5>2. vault'[f.prefix][u] = vault[f.prefix][u]
          BY <4>7, <5>1
        <5>3. /\ Ind!Ascending(run[o].results[u].rows)
              /\ \A i \in run[o].there[u] :
                   \E k \in DOMAIN run[o].results[u].rows : run[o].results[u].rows[k] = i
              /\ run[o].results[u].verified /\ Backup!Alone(o) =>
                   vault[run[o].prefix][u].rows = run[o].results[u].rows
          BY <4>4, <5>1
        <5> QED  BY <4>5, <4>6, <5>2, <5>3, ZenonT(40)
      <4> QED  BY <4>8, <4>9
    <3>3. Paging(f)
      <4>1. Paging(run[r])
        BY <2>1, <2>4
      <4> QED  BY <1>2, <4>1 DEF Paging
    <3>4. Paging(run[o])'
      BY <3>1, <3>3 DEF Paging
    <3>5. Backup!assertSpecCompliance' /\ \A u \in Copied : f.there[u] \subseteq db'[u]
      BY <1>2, <2>1, <2>4 DEF Backup!assertSpecCompliance
    <3> QED  BY <3>1, <3>2, <3>4, <3>5
  <2> QED  BY <2>3, <2>4
<1> QED  BY <1>7, <1>8, <1>10 DEF BackupInv

LEMMA PutKeeps ==
  ASSUME Backup!BackupAssumption, BackupInv, NEW r \in Runs,
         Backup!putObject(r) \/ Backup!putManifest(r)
  PROVE  BackupInv'
<1>1. CASE Backup!putObject(r)
  <2> DEFINE t == Backup!TableOf(r)
             object == Backup!Body(r)
  <2>1. /\ run[r].pc = "put" /\ Backup!Store(r, t, object) /\ run' = [run EXCEPT ![r].pc = "get"]
        /\ UNCHANGED << db, missing, specs >>
    BY <1>1 DEF Backup!putObject
  <2>2. /\ run[r] \in Export /\ Backup!assertSpecCompliance /\ Paging(run[r])
        /\ run[r].table \in 1 .. Len(TIER1_TABLES) /\ t = TIER1_TABLES[run[r].table] /\ t \in Copied
    BY <2>1, AtTable
  <2>3. run[r].results[t] = Backup!NotYet
    <3>1. run[r].table \in run[r].table .. Len(TIER1_TABLES)
      BY <2>2, RegistryInOrder
    <3> QED  BY <2>1, <2>2, <3>1 DEF Paging
  <2>4. specs[t] \in SUBSET ({"id"} \cup Backup!FORBIDDEN_COLUMNS)
    BY <2>2 DEF BackupInv, BackupTyped
  <2>5. specs[t] \cap Backup!FORBIDDEN_COLUMNS = {}
    BY <2>2 DEF Backup!assertSpecCompliance, Copied
  <2>6. run[r].rows \in Pages
    BY <2>2 DEF Export
  <2>7. object \in Stored /\ object.columns = specs[t]
    BY <2>4, <2>6 DEF Stored, Backup!Body
  <2> HIDE DEF object, t
  <2>8. object.columns \cap Backup!FORBIDDEN_COLUMNS = {}
    BY <2>5, <2>7
  <2> QED  BY <2>1, <2>2, <2>3, <2>7, <2>8, StoreKeeps
<1>2. CASE Backup!putManifest(r)
  <2> DEFINE object == Backup!ManifestOf(r)
  <2>1. /\ run[r].pc = "put manifest" /\ Backup!Store(r, Backup!Manifest, object)
        /\ run' = [run EXCEPT ![r].pc = "get manifest"] /\ UNCHANGED << db, missing, specs >>
    BY <1>2 DEF Backup!putManifest
  <2>2. run[r] \in Export
    BY <2>1, AtTable
  <2>3. run[r].results \in [Copied -> Outcome]
    BY <2>2 DEF Export
  <2>4. Backup!buildManifest(run[r].results) \in [Copied -> Line]
    <3> DEFINE built == [t \in Copied |-> IF run[r].results[t].status = "exported"
                                          THEN [ status |-> "exported", rows |-> run[r].results[t].rows ]
                                          ELSE [ status |-> run[r].results[t].status ]]
    <3>1. ASSUME NEW t \in Copied PROVE built[t] \in Line
      <4>1. run[r].results[t] \in Outcome
        BY <2>3
      <4> QED  BY <4>1 DEF Outcome, Line
    <3>2. built \in [Copied -> Line]
      BY <3>1
    <3> QED  BY <3>2 DEF Backup!buildManifest, Copied
  <2>6. object \in Stored /\ object.columns = {}
    <3>1. PICK built \in [Copied -> Line] : built = Backup!buildManifest(run[r].results)
      BY <2>4
    <3> QED  BY <3>1 DEF Stored, Backup!ManifestOf
  <2> HIDE DEF object
  <2>5. object.columns \cap Backup!FORBIDDEN_COLUMNS = {}
    BY <2>6
  <2> QED  BY <2>1, <2>2, <2>5, <2>6, StoreKeeps
<1> QED  BY <1>1, <1>2

(* A run ends: with a word that all is well only when it is.               *)
LEMMA EndKeeps ==
  ASSUME Backup!BackupAssumption, BackupInv, NEW r \in Runs, run[r].pc \notin {"waiting", "ended"},
         NEW ok \in BOOLEAN, Backup!Ended(r, ok),
         ok => /\ Backup!Whole(run[r].results)
               /\ vault[run[r].prefix][Backup!Manifest].rows =
                       Backup!buildManifest(run[r].results)
  PROVE  BackupInv'
<1> DEFINE f == [ pc |-> "ended", ok |-> ok, prefix |-> run[r].prefix,
                  there |-> run[r].there, results |-> run[r].results ]
<1>1. run[r] \in Export /\ Exported(run[r], Backup!Alone(r)) /\ Backup!Alone(r) \in BOOLEAN
  BY AtTable
<1>2. Backup!Goes(r, f)
  BY DEF Backup!Ended
<1>3. f \in Summary
  BY <1>1 DEF Export, Summary
<1>4. /\ f.ok = ok /\ f.prefix = run[r].prefix /\ f.there = run[r].there
      /\ f.results = run[r].results
  OBVIOUS
<1> HIDE DEF f
<1>5. Exported(f, Backup!Alone(r))
  BY <1>1, <1>4 DEF Exported
<1>6. f \notin Export
  BY <1>3, RunKinds
<1>7. f.ok => Backup!Whole(f.results) /\ vault[f.prefix][Backup!Manifest].rows =
                                              Backup!buildManifest(f.results)
  BY <1>4
<1> QED  BY <1>1, <1>2, <1>3, <1>4, <1>5, <1>6, <1>7, GoesKeeps

LEMMA BackupStep ==
  ASSUME Backup!BackupAssumption PROVE BackupInv /\ [Backup!Next]_Backup!own => BackupInv'
<1> SUFFICES ASSUME BackupInv, [Backup!Next]_Backup!own PROVE BackupInv'
  OBVIOUS
<1>1. CASE UNCHANGED Backup!own
  <2>1. UNCHANGED << missing, specs, vault, run >> /\ db' = db /\ db \in [Copied -> SUBSET Ids]
    BY <1>1 DEF Backup!own, BackupInv, BackupTyped
  <2> QED  BY <2>1, GrowKeeps
<1>2. ASSUME NEW t \in Copied, NEW i \in Ids, Backup!insert(t, i) \/ Backup!delete(t, i)
      PROVE  BackupInv'
  BY <1>2, InsertKeeps, DeleteKeeps
<1>3. ASSUME NEW r \in Runs, NEW p \in Minutes, Backup!begin(r, p)
      PROVE  BackupInv'
  BY <1>3, BeginKeeps
<1>4. ASSUME NEW r \in Runs, Backup!fetchAllRows(r) \/ Backup!getObject(r) \/ Backup!tableFails(r)
      PROVE  BackupInv'
  BY <1>4, FetchKeeps, GetKeeps, FailKeeps
<1>5. ASSUME NEW r \in Runs, Backup!putObject(r) \/ Backup!putManifest(r)
      PROVE  BackupInv'
  BY <1>5, PutKeeps
<1>6. ASSUME NEW r \in Runs, Backup!getManifest(r)
      PROVE  BackupInv'
  <2>1. PICK intact \in BOOLEAN :
          Backup!Ended(r, /\ Backup!Whole(run[r].results)
                          /\ intact
                          /\ vault[run[r].prefix][Backup!Manifest] = Backup!ManifestOf(r))
    BY <1>6 DEF Backup!getManifest
  <2> DEFINE ok == /\ Backup!Whole(run[r].results)
                   /\ intact /\ vault[run[r].prefix][Backup!Manifest] = Backup!ManifestOf(r)
  <2>2. ok \in BOOLEAN /\ Backup!Ended(r, ok)
    BY <2>1 DEF Backup!Whole
  <2>3. ok => /\ Backup!Whole(run[r].results)
              /\ vault[run[r].prefix][Backup!Manifest].rows =
                      Backup!buildManifest(run[r].results)
    BY DEF Backup!ManifestOf
  <2>4. run[r].pc \notin {"waiting", "ended"}
    BY <1>6 DEF Backup!getManifest
  <2> HIDE DEF ok
  <2> QED  BY <2>2, <2>3, <2>4, EndKeeps
<1>7. ASSUME NEW r \in Runs, Backup!manifestFails(r) \/ Backup!crash(r)
      PROVE  BackupInv'
  <2>1. Backup!Ended(r, FALSE) /\ run[r].pc \notin {"waiting", "ended"}
    BY <1>7 DEF Backup!manifestFails, Backup!crash, Backup!Active
  <2> QED  BY <2>1, EndKeeps
<1> QED  BY <1>1, <1>2, <1>3, <1>4, <1>5, <1>6, <1>7 DEF Backup!Next, Copied

LEMMA BackupBegins == ASSUME Backup!BackupAssumption PROVE Backup!Init => BackupInv
<1> SUFFICES ASSUME Backup!Init PROVE BackupInv
  OBVIOUS
<1>1. /\ db \in [Copied -> SUBSET Ids]
      /\ specs \in [Copied -> { {"id"}, {"id"} \cup Backup!FORBIDDEN_COLUMNS }]
      /\ vault = [p \in Minutes |-> [n \in Copied \cup {Backup!Manifest} |-> Backup!NoObject]]
      /\ run = [r \in Runs |-> Backup!Waiting]
  BY DEF Backup!Init, Copied
<1>2. Backup!NoObject \in Stored /\ Backup!NoObject.columns = {}
  <2>1. << >> \in Pages
    BY DEF Pages
  <2> QED  BY <2>1 DEF Backup!NoObject, Stored
<1>3. BackupTyped
  BY <1>1, <1>2 DEF BackupTyped
<1>4. \A r \in Runs : run[r] \notin Export \cup Summary
  BY <1>1, RunKinds
<1>5. \A p \in Minutes, t \in Copied : vault[p][t].columns \cap Backup!FORBIDDEN_COLUMNS = {}
  BY <1>1, <1>2
<1> QED  BY <1>3, <1>4, <1>5 DEF BackupInv

LEMMA BackupShows == ASSUME Backup!BackupAssumption PROVE BackupInv => Backup!BackupIsWhole
<1> SUFFICES ASSUME BackupInv PROVE Backup!BackupIsWhole
  OBVIOUS
<1>1. \A p \in Minutes, t \in Copied : vault[p][t].columns \cap Backup!FORBIDDEN_COLUMNS = {}
  BY DEF BackupInv
<1>2. ASSUME NEW r \in Runs, run[r].pc = "ended", run[r].ok, Backup!Alone(r),
             NEW t \in Copied \ missing
      PROVE  LET objects == vault[run[r].prefix] IN
               /\ run[r].there[t] \subseteq Backup!Range(objects[t].rows)
               /\ Backup!IsInjective(objects[t].rows)
               /\ objects[Backup!Manifest].rows[t] =
                    [ status |-> "exported", rows |-> objects[t].rows ]
  <2>1. run[r] \in Summary
    BY <1>2, RunKinds DEF BackupInv, BackupTyped
  <2>2. /\ Exported(run[r], Backup!Alone(r)) /\ Backup!Whole(run[r].results)
        /\ vault[run[r].prefix][Backup!Manifest].rows =
                Backup!buildManifest(run[r].results)
    BY <1>2, <2>1 DEF BackupInv
  <2> DEFINE result == run[r].results[t]
             object == vault[run[r].prefix][t]
  <2>3. result \in Outcome
    BY <2>1 DEF Summary
  <2>4. result.status = "exported" /\ result.verified
    BY <1>2, <2>2 DEF Exported, Backup!Whole, Copied
  <2>5. /\ Ind!Ascending(result.rows) /\ object.rows = result.rows
        /\ \A i \in run[r].there[t] : \E k \in DOMAIN result.rows : result.rows[k] = i
    BY <1>2, <2>2, <2>4 DEF Exported
  <2> HIDE DEF result, object
  <2>6. /\ result.rows \in Pages
        /\ result = [ status |-> "exported", rows |-> result.rows, verified |-> TRUE ]
    BY <2>3, <2>4 DEF Outcome
  <2>7. Backup!IsInjective(result.rows)
    <3>1. Ids \subseteq Nat
      BY DEF Backup!BackupAssumption
    <3>2. \A k \in DOMAIN result.rows : k \in Nat /\ result.rows[k] \in Nat
      BY <2>6, <3>1 DEF Pages
    <3>3. ASSUME NEW i \in DOMAIN result.rows, NEW j \in DOMAIN result.rows,
                 result.rows[i] = result.rows[j], i # j
          PROVE  FALSE
      <4>1. i < j \/ j < i
        BY <3>2, <3>3
      <4>2. /\ i < j => result.rows[i] < result.rows[j]
            /\ j < i => result.rows[j] < result.rows[i]
        BY <2>5 DEF Ind!Ascending
      <4> QED  BY <3>2, <3>3, <4>1, <4>2
    <3> QED  BY <3>3 DEF Backup!IsInjective
  <2>8. run[r].there[t] \subseteq Backup!Range(result.rows)
    BY <2>5 DEF Backup!Range
  <2>9. vault[run[r].prefix][Backup!Manifest].rows[t] =
          [ status |-> "exported", rows |-> result.rows ]
    BY <2>2, <2>4 DEF result, Backup!buildManifest, Copied
  <2> QED  BY <2>5, <2>6, <2>7, <2>8, <2>9 DEF object
<1> QED  BY <1>1, <1>2 DEF Backup!BackupIsWhole, Copied

(* Backups (backup-export.ts): whatever the tables, their rows, the size of*)
(* a page, and however many runs and writers there are, a run that says all*)
(* is well and had its minute to itself has left every row that was there  *)
(* throughout, once, in the object its manifest is of, and no object has a *)
(* forbidden column.  Rows of several tables may be of different moments.  *)
THEOREM BackupTheorem ==
  ASSUME Backup!BackupAssumption
  PROVE  Backup!Spec => []Backup!BackupIsWhole
<1>1. Backup!Init => BackupInv
  BY BackupBegins
<1>2. BackupInv /\ [Backup!Next]_Backup!own => BackupInv'
  BY BackupStep
<1>3. BackupInv => Backup!BackupIsWhole
  BY BackupShows
<1> QED  BY <1>1, <1>2, <1>3, PTL DEF Backup!Spec
=============================================================================
