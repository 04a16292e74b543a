--------------------------- MODULE AcceptanceCheck ---------------------------
(***************************************************************************)
(* Acceptance specs and the verdicts about them: intake and display        *)
(* (lib/spec), the deterministic checker (lib/checker), and the service    *)
(* that signs (lib/contracts/verdict-service.ts behind /api/verdict).  One *)
(* task, from the spec its agent sends to the verdicts its parties ask for.*)
(*                                                                         *)
(* A preimage stands for its hash, so two are equal when their hashes are. *)
(* An artefact carries what the checker is given: a distance to the target,*)
(* a capture time, and a perceptual hash as a sequence of bits.            *)
(***************************************************************************)
EXTENDS Naturals, Sequences, FiniteSets

CONSTANTS
    Specs,          \* well-formed and ill-formed specs an agent may send
    Bundles,        \* evidence bundles a party may send
    FundedAt,       \* the funding block's timestamp, as the worker is shown it
    ConfirmedAt,    \* those of the blocks /api/fund-task may read, once it confirms
    MAX_ARTIFACTS   \* of one bundle

(* What a caller may send, well-formed or not; a reading is there or not.  *)
Optional(S) == { o \in SUBSET S : \A x, y \in o : x = y }
Artefact == [ gps : Optional(Nat), taken : Optional(Nat), camera : BOOLEAN, ai : BOOLEAN,
              phash : Optional(Seq(Nat)) ]
Criteria == [ version : Nat, min_artefacts : SUBSET Nat, gps : SUBSET Nat,
              captured_after : SUBSET Nat,
              provenance : SUBSET [ camera : SUBSET STRING, ai : SUBSET STRING ],
              phash : SUBSET [ source : Seq(Seq(Nat)), halves : Nat ] ]

InputAssumption ==
    /\ Specs \subseteq Criteria /\ Bundles \subseteq Seq(Artefact)
    /\ FundedAt \in Nat /\ MAX_ARTIFACTS \in Nat
    /\ ConfirmedAt \subseteq Nat /\ \A t \in ConfirmedAt : FundedAt <= t

VARIABLES
    offer,        \* the task's spec, NoSpec, or Refused at intake
    state,        \* of the task on chain: "Funded", "Delivered", "Later"
    specHash,     \* whether createTask was given the hash of the task's spec
    committed,    \* the bundle whose hash submitWork committed
    fundedAt,     \* tasks.funded_at, if it was recorded
    reply,        \* what the last caller of /api/verdict was told
    signed        \* verdicts that were signed

own  == << offer, state, specHash, committed, fundedAt, reply, signed >>
vars == own

NoSpec  == [ none |-> "no spec" ]
Refused == [ none |-> "refused" ]
Pending == [ none |-> "not sent yet" ]
Offered == offer \notin {NoSpec, Refused, Pending}

BadHex  == << 2 >>         \* a string that is not hexadecimal
FundingTime == 0           \* "task_funding_block_timestamp"
-----------------------------------------------------------------------------
(* lib/spec.  An optional field is a set of at most one element.           *)

(* The references of the similarity cap may be strings of any kind.        *)
AcceptanceSpecV1(spec) ==
    /\ 0 \notin spec.min_artefacts
    /\ \A h \in spec.phash : h.source # << >>

parseAndHashSpec(spec) == spec.version = 1 /\ AcceptanceSpecV1(spec)

(* Object.keys(criteria).length = 0: a provenance object counts, empty or not. *)
hasNoCriteria(spec) ==
    spec.min_artefacts = {} /\ spec.gps = {} /\ spec.captured_after = {}
      /\ spec.provenance = {} /\ spec.phash = {}

(* formatCriteria: the criteria that have a row in the worker's view.      *)
formatCriteria(spec) ==
    IF hasNoCriteria(spec) THEN {"no_criteria"}
    ELSE { k \in {"min_artefacts", "gps", "captured_after", "phash"} : spec[k] # {} }
         \cup { k \in {"camera", "ai"} : \E p \in spec.provenance : p[k] # {} }

(* The same validation in the worker's browser; a spec that does not pass  *)
(* it has no rows, and an absent one reads as one without criteria.        *)
parseSpecForDisplay(spec) ==
    IF spec = NoSpec THEN {"no_criteria"}
    ELSE IF parseAndHashSpec(spec) THEN formatCriteria(spec) ELSE {}
-----------------------------------------------------------------------------
(* lib/checker: one operator per criterion, of one artefact.               *)

gpsWithin(a, radius) == \E distance \in a.gps : distance <= radius

(* at is tasks.funded_at: the latest block when the funding was confirmed. *)
parseTimestamp(t, at) == IF t = FundingTime THEN at ELSE t

capturedAfter(a, threshold, at) == \E t \in a.taken : t >= parseTimestamp(threshold, at)

hammingHex(a, b) == Cardinality({ i \in DOMAIN a : a[i] # b[i] })

(* similarity <= threshold, in halves, with similarity = 1 - distance / width *)
WithinCap(ref, hash, halves) == (Len(ref) - hammingHex(ref, hash)) * 2 <= halves * Len(ref)

Comparable(ref, hash) == BadHex \notin {ref, hash} /\ Len(ref) = Len(hash)

(* Mutant: a reference of another width is skipped. *)
phashWithinCap_Skips(a, cap) ==
    \E hash \in a.phash : \A i \in DOMAIN cap.source :
        Comparable(cap.source[i], hash) => WithinCap(cap.source[i], hash, cap.halves)

(* Uncomparable with any reference is a failure, never a skip.             *)
phashWithinCap(a, cap) ==
    \E hash \in a.phash : \A i \in DOMAIN cap.source :
        Comparable(cap.source[i], hash) /\ WithinCap(cap.source[i], hash, cap.halves)

(* evaluateV1: the criteria that fail.  The verdict passes when none does. *)
evaluateV1(spec, bundle, at) ==
    LET arts == { bundle[i] : i \in DOMAIN bundle }
        asks(k) == \E p \in spec.provenance : "yes" \in p[k]
    IN  { k \in formatCriteria(spec) :
            CASE k = "min_artefacts"  -> \E n \in spec.min_artefacts : Len(bundle) < n
              [] k = "gps"            -> \E a \in arts, r \in spec.gps : ~ gpsWithin(a, r)
              [] k = "captured_after" -> 
                   \E a \in arts, t \in spec.captured_after : ~ capturedAfter(a, t, at)
              [] k = "camera"         -> asks("camera") /\ \E a \in arts : ~ a.camera
              [] k = "ai"             -> asks("ai") /\ \E a \in arts : a.ai
              [] k = "phash"          -> \E a \in arts, h \in spec.phash : ~ phashWithinCap(a, h)
              [] OTHER                -> FALSE }

evaluateEvidence(spec, bundle, at) == spec.version = 1 /\ evaluateV1(spec, bundle, at) = {}

parseAndHashEvidenceBundle(bundle) == Len(bundle) \in 1 .. MAX_ARTIFACTS
-----------------------------------------------------------------------------
Init ==
    /\ offer = Pending /\ state = "Funded" /\ committed = << >>
    /\ specHash \in BOOLEAN
    /\ fundedAt \in { {t} : t \in ConfirmedAt } \cup {{}}
    /\ reply = "" /\ signed = {}

(* request_human_work takes the spec, or the task has none; the agent      *)
(* funds with a hash of its own, which /api/fund-task does not look at.    *)
intake(spec) ==
    /\ offer = Pending
    /\ offer' = IF spec = NoSpec \/ parseAndHashSpec(spec) THEN spec ELSE Refused
    /\ UNCHANGED << state, specHash, committed, fundedAt, reply, signed >>

(* submitWork commits any hash: the chain does not look into a bundle.     *)
submitWork(bundle) ==
    /\ offer \notin {Pending, Refused} /\ state = "Funded"
    /\ state' = "Delivered" /\ committed' = bundle
    /\ UNCHANGED << offer, specHash, fundedAt, reply, signed >>

settle ==
    /\ state = "Delivered" /\ state' = "Later"
    /\ UNCHANGED << offer, specHash, committed, fundedAt, reply, signed >>

Told(answer) == reply' = answer /\ UNCHANGED signed

Sign(bundle) ==
    \E at \in fundedAt :
        /\ signed' = signed \cup
             {[ bundle |-> bundle, passed |-> evaluateEvidence(offer, bundle, at) ]}
        /\ reply' = "signed"

(* Mutant: the bundle is not compared with the commitment. *)
computeAndSignVerdict_AnyBundle(bundle) ==
    IF offer = NoSpec \/ state = "Funded" \/ ~ parseAndHashEvidenceBundle(bundle)
    THEN Told("input")
    ELSE IF fundedAt = {} \/ ~ specHash THEN Told("internal") ELSE Sign(bundle)

(* Mutant: nor is the spec. *)
computeAndSignVerdict_AnySpec(bundle) ==
    IF \/ offer = NoSpec \/ state = "Funded"
       \/ ~ parseAndHashEvidenceBundle(bundle) \/ bundle # committed
    THEN Told("input")
    ELSE IF fundedAt = {} THEN Told("internal") ELSE Sign(bundle)

(* The refusals: input errors are 409; a spec that is not the one the      *)
(* chain holds the hash of, or a row without its funding time, is 500,     *)
(* looked at before the bundle or after it.  Then the verdict over what    *)
(* the chain committed.                                                    *)
computeAndSignVerdict(bundle) ==
    IF offer = NoSpec \/ state = "Funded" THEN Told("input")
    ELSE IF ~ specHash THEN Told("internal")
    ELSE IF ~ parseAndHashEvidenceBundle(bundle) \/ bundle # committed THEN Told("input")
    ELSE IF fundedAt = {} THEN Told("internal")
    ELSE Sign(bundle)

(* POST /api/verdict by a party, or by somebody else, whose bundle nobody  *)
(* looks at; nothing is stored.                                            *)
verdictPOST(party, bundle) ==
    /\ offer \notin {Pending, Refused}
    /\ IF party THEN computeAndSignVerdict(bundle) ELSE Told("not a party")
    /\ UNCHANGED << offer, state, specHash, committed, fundedAt >>

Next ==
    \/ \E spec \in Specs \cup {NoSpec} : intake(spec)
    \/ \E b \in Bundles : submitWork(b)
    \/ settle
    \/ \E b \in Bundles : verdictPOST(TRUE, b)
    \/ verdictPOST(FALSE, << >>)

Spec == Init /\ [][Next]_vars
-----------------------------------------------------------------------------
(* Reference: what the rows promise of an artefact, when the funding's     *)
(* time is taken to be `at`.                                               *)
Keeps(a, spec, at) ==
    /\ \A r \in spec.gps : a.gps # {} /\ \A d \in a.gps : d \in 0 .. r
    /\ \A t \in spec.captured_after :
         a.taken # {} /\ \A u \in a.taken : ~ (u < (IF t = FundingTime THEN at ELSE t))
    /\ \A p \in spec.provenance :
         ("yes" \in p.camera => a.camera) /\ ("yes" \in p.ai => ~ a.ai)
    /\ \A h \in spec.phash : a.phash # {} /\ \A x \in a.phash, i \in DOMAIN h.source :
         LET r    == h.source[i]
             same == { j \in DOMAIN r : j \in DOMAIN x /\ r[j] = x[j] }
         IN  /\ {r, x} \cap {BadHex} = {} /\ DOMAIN r = DOMAIN x
             /\ 2 * Cardinality(same) <= h.halves * Cardinality(DOMAIN r)

Kept(spec, bundle, at) ==
    /\ \A i \in DOMAIN bundle : Keeps(bundle[i], spec, at)
    /\ \A n \in spec.min_artefacts : n \in 1 .. Len(bundle)

(* Every verdict a party can obtain is about the evidence the worker       *)
(* committed and the spec the agent did.  It passes exactly when that      *)
(* evidence keeps every promise as of the time the funding was recorded    *)
(* at; so only when it keeps them as the worker was shown them, with the   *)
(* funding block's own time, which may be earlier, and one that fails on   *)
(* evidence that keeps those asks for captures after the funding.  It      *)
(* fails on rows the worker was shown alone.  And all verdicts about a     *)
(* task agree: none that the contract takes from one side contradicts the  *)
(* other's.                                                                *)
VerdictsAreEarned ==
    \A v \in signed :
        /\ state # "Funded" /\ v.bundle = committed /\ specHash
        /\ \A at \in fundedAt : v.passed <=> Kept(offer, committed, at)
        /\ v.passed => Kept(offer, committed, FundedAt)
        /\ Kept(offer, committed, FundedAt) => v.passed \/ FundingTime \in offer.captured_after
        /\ \A at \in fundedAt :
             v.passed \/ evaluateV1(offer, committed, at) \subseteq parseSpecForDisplay(offer)
        /\ \A u \in signed : u.passed = v.passed
=============================================================================
