---------------------------- MODULE EvidenceUpload ----------------------------
(***************************************************************************)
(* Platform-minted evidence uploads: the agent's bucket credential, from   *)
(* the hire that stores it (the tail of request_human_work) to the trigger *)
(* that deletes it (migration 027), and the URLs that are signed with it   *)
(* (/api/evidence/upload-url, lib/evidence, lib/db/upload-credentials.ts). *)
(* The row exists before the credential does, and row, credential and      *)
(* chain are read in three awaits before a URL is signed.                  *)
(***************************************************************************)
EXTENDS TaskTable

CONSTANTS
    Uploads,                     \* concurrent POST /api/evidence/upload-url
    PLATFORM_MAX_UPLOAD_BYTES,
    Sizes,                       \* bound: caps agents set, sizes workers send
    UPLOAD_URL_TTL_SECONDS

VARIABLES
    bucket,       \* [TaskIds -> evidence_bucket, where its credential points, and
                  \*             max_upload_bytes as the agent asked for it]
    hire,         \* [TaskIds -> how far the hire's tail has come]
    credential,   \* task_upload_credentials: [TaskIds -> {} or {its cap}]
    onChain,      \* [TaskIds -> state of the task on chain]
    upload,       \* [Uploads -> the call]
    grants        \* history: the URLs that were signed

own  == << rows, bucket, hire, credential, onChain, upload, grants >>
vars == << clock, own >>

Providers == {"none", "s3", "gcs", "https"}
Places    == {"region", "r2 endpoint", "other endpoint", "nowhere"}
Bucket    == [ provider : Providers, place : Places, max : Sizes ]
NoBucket  == [ provider |-> "none", place |-> "nowhere" ]

NoCall == [ pc |-> "idle" ]

Init ==
    /\ TableInit
    /\ bucket = [t \in TaskIds |-> NoBucket]
    /\ hire = [t \in TaskIds |-> "idle"]
    /\ credential = [t \in TaskIds |-> {}]
    /\ onChain = [t \in TaskIds |-> "None"]
    /\ upload = [u \in Uploads |-> NoCall]
    /\ grants = {}

Smaller(a, b) == IF a < b THEN a ELSE b
-----------------------------------------------------------------------------
(* upload-policy.ts *)

(* A host is derived, never free-form: GCS, one of R2's, or a region's.    *)
resolveBucketLocation(b) ==
    \/ b.provider = "gcs"
    \/ b.provider = "s3" /\ b.place \in {"r2 endpoint", "region"}

checkUploadRequest(type, size, cap) == type = "allowed" /\ size \in 1 .. cap
-----------------------------------------------------------------------------
(* The hire.  A credential is checked against the bucket before a row      *)
(* exists, and encrypted and stored after it, as its key is bound to the   *)
(* task's id.                                                              *)

hireInsert(t, w, b, wants, seconds) ==
    /\ hire[t] = "idle"
    /\ wants => resolveBucketLocation(b)
    /\ createTask(t, [NoRow EXCEPT !.status = "pending", !.worker = w,
                                   !.createdAt = clock, !.expiry = clock + seconds])
    /\ bucket' = [bucket EXCEPT ![t] = b]
    /\ hire' = [hire EXCEPT ![t] = IF wants THEN "encrypting" ELSE "answered"]
    /\ UNCHANGED << clock, credential, onChain, upload, grants >>

(* Either step may fail; the hire stands, and says so. *)
encryptCredential(t) ==
    /\ hire[t] = "encrypting"
    /\ hire' = [hire EXCEPT ![t] = "storing"]
    /\ UNCHANGED << clock, rows, bucket, credential, onChain, upload, grants >>

storeUploadCredential(t) ==
    /\ hire[t] = "storing"
    /\ hire' = [hire EXCEPT ![t] = "answered"]
    /\ credential' = [credential EXCEPT ![t] = 
         {Smaller(bucket[t].max, PLATFORM_MAX_UPLOAD_BYTES)}]
    /\ UNCHANGED << clock, rows, bucket, onChain, upload, grants >>

hireFails(t) ==
    /\ hire[t] \in {"encrypting", "storing"}
    /\ hire' = [hire EXCEPT ![t] = "answered"]
    /\ UNCHANGED << clock, rows, bucket, credential, onChain, upload, grants >>
-----------------------------------------------------------------------------
(* The task's life, through the statements of TaskTable; and the trigger,  *)
(* part of each of them.                                                   *)

Dropping == {"completed", "expired", "declined", "lapsed", "disputed"}

drop_upload_credential_on_terminal ==
    credential' = [t \in TaskIds |->
        IF rows'[t].status \in Dropping /\ rows'[t].status # rows[t].status
        THEN {} ELSE credential[t]]

taskStep(t) ==
    /\ \/ acceptTask(t, TRUE) /\ UNCHANGED onChain
       \/ updateTaskStatus(t, "declined", TRUE) /\ UNCHANGED onChain
       \/ lapseExpiredOffers /\ UNCHANGED onChain
       \/ onChain[t] # "None" /\ markTaskFunded(t, TRUE) /\ UNCHANGED onChain
       \/ onChain[t] = "Delivered" /\ updateTaskStatus(t, "disputed", TRUE) /\ UNCHANGED onChain
       \/ /\ onChain[t] = "Settled" /\ UNCHANGED onChain
          /\ \E s \in {"completed", "expired"} : updateTaskStatus(t, s, TRUE)
    /\ drop_upload_credential_on_terminal
    /\ UNCHANGED << clock, bucket, hire, upload, grants >>

chainStep(t) ==
    /\ \/ Exists(t) /\ onChain[t] = "None" /\ onChain' = [onChain EXCEPT ![t] = "Funded"]
       \/ onChain[t] = "Funded" /\ \E s \in {"Delivered", "Settled"} : onChain' = [onChain EXCEPT ![t] = s]
       \/ onChain[t] = "Delivered" /\ onChain' = [onChain EXCEPT ![t] = "Settled"]
    /\ UNCHANGED << clock, rows, bucket, hire, credential, upload, grants >>
-----------------------------------------------------------------------------
(* POST /api/evidence/upload-url *)

Final(t) == rows[t].status \in Dropping \/ onChain[t] \notin {"None", "Funded"}

(* Mutant: any signed-in worker may ask. *)
uploadTask_AnyCaller(u, t, caller, size, type) ==
    /\ upload[u] = NoCall
    /\ Exists(t) /\ rows[t].status = "active"
    /\ upload' = [upload EXCEPT ![u] =
         [ pc |-> "credential", task |-> t, caller |-> caller, size |-> size,
           type |-> type, cap |-> 0, late |-> Final(t) ]]
    /\ UNCHANGED << clock, rows, bucket, hire, credential, onChain, grants >>

(* late: the work was in, or the task over, when the request came.         *)
uploadTask(u, t, caller, size, type) ==
    /\ upload[u] = NoCall
    /\ Exists(t) /\ rows[t].worker = caller /\ rows[t].status = "active"
    /\ upload' = [upload EXCEPT ![u] =
         [ pc |-> "credential", task |-> t, caller |-> caller, size |-> size,
           type |-> type, cap |-> 0, late |-> Final(t) ]]
    /\ UNCHANGED << clock, rows, bucket, hire, credential, onChain, grants >>

(* Mutant: the platform's cap alone. *)
getUploadCredential_Platform(u) ==
    /\ upload[u].pc = "credential" /\ credential[upload[u].task] # {}
    /\ upload' = [upload EXCEPT ![u].pc = "chain", ![u].cap = PLATFORM_MAX_UPLOAD_BYTES]
    /\ UNCHANGED << clock, rows, bucket, hire, credential, onChain, grants >>

getUploadCredential(u) ==
    /\ upload[u].pc = "credential"
    /\ \E cap \in credential[upload[u].task] :
         upload' = [upload EXCEPT ![u].pc = "chain",
                                  ![u].cap = Smaller(cap, PLATFORM_MAX_UPLOAD_BYTES)]
    /\ UNCHANGED << clock, rows, bucket, hire, credential, onChain, grants >>

(* Mutant: the row's word is taken for the chain's. *)
uploadChain_Unread(u) ==
    /\ upload[u].pc = "chain"
    /\ checkUploadRequest(upload[u].type, upload[u].size, upload[u].cap)
    /\ upload' = [upload EXCEPT ![u].pc = "sign"]
    /\ UNCHANGED << clock, rows, bucket, hire, credential, onChain, grants >>

uploadChain(u) ==
    /\ upload[u].pc = "chain"
    /\ onChain[upload[u].task] = "Funded"
    /\ checkUploadRequest(upload[u].type, upload[u].size, upload[u].cap)
    /\ upload' = [upload EXCEPT ![u].pc = "sign"]
    /\ UNCHANGED << clock, rows, bucket, hire, credential, onChain, grants >>

(* decryptCredential asks the key service; the signature covers the type   *)
(* and the size that were checked.                                         *)
presignUrl(u) ==
    /\ upload[u].pc = "sign"
    /\ resolveBucketLocation(bucket[upload[u].task])
    /\ grants' = grants \cup
         {[ task |-> upload[u].task, caller |-> upload[u].caller, size |-> upload[u].size,
            late |-> upload[u].late, expires |-> clock + UPLOAD_URL_TTL_SECONDS ]}
    /\ upload' = [upload EXCEPT ![u] = NoCall]
    /\ UNCHANGED << clock, rows, bucket, hire, credential, onChain >>

(* Any refusal or fault, of a check, a read or the key service.            *)
uploadFails(u) ==
    /\ upload[u] # NoCall
    /\ upload' = [upload EXCEPT ![u] = NoCall]
    /\ UNCHANGED << clock, rows, bucket, hire, credential, onChain, grants >>

clockStep ==
    /\ Tick
    /\ UNCHANGED own

HireStep(t) ==
    \/ \E w \in Workers, b \in Bucket, wants \in BOOLEAN : hireInsert(t, w, b, wants, 1)
    \/ encryptCredential(t) \/ storeUploadCredential(t) \/ hireFails(t)

UploadStep(u) ==
    \/ \E t \in TaskIds, w \in Workers, size \in Sizes, type \in {"allowed", "other"} :
         uploadTask(u, t, w, size, type)
    \/ getUploadCredential(u) \/ uploadChain(u) \/ presignUrl(u) \/ uploadFails(u)

Next ==
    \/ \E t \in TaskIds : HireStep(t) \/ taskStep(t) \/ chainStep(t)
    \/ \E u \in Uploads : UploadStep(u)
    \/ clockStep

Spec == Init /\ [][Next]_vars
-----------------------------------------------------------------------------
(* A URL is signed for the task's own worker, for a size that neither the  *)
(* agent's cap nor the platform's forbids, into a bucket whose host was    *)
(* derived, and never for a request that came after the work was submitted *)
(* or the task had ended: the evidence is final, up to the calls under way *)
(* and the URLs' lifetime.                                                 *)
GrantsAreDue ==
    \A g \in grants :
        LET b == bucket[g.task]
        IN  /\ g.caller = rows[g.task].worker
            /\ g.size <= PLATFORM_MAX_UPLOAD_BYTES /\ g.size <= b.max
            /\ b.provider \in {"s3", "gcs"}
            /\ b.provider = "s3" => b.place \notin {"other endpoint", "nowhere"}
            /\ ~ g.late
            /\ onChain[g.task] # "None"
=============================================================================
