----------------------------- MODULE Attestation -----------------------------
(***************************************************************************)
(* lib/attestation and its two routes: the completion a worker is paid for *)
(* is signed off chain, for the worker to keep, and on request as a        *)
(* delegated EAS attestation, which the worker submits.  Nothing is stored:*)
(* each signature is made from what the chain says, read in steps while    *)
(* the chain, and EAS behind its proxy, move on.                           *)
(***************************************************************************)
EXTENDS Naturals, Sequences

CONSTANTS
    Tasks, Worker,          \* Worker \in [Tasks -> wallets]: the on-chain worker
    Callers,                \* the wallets that call the routes
    Calls,                  \* concurrent requests
    Structs,                \* EAS versions: [Attest struct -> has a deadline]
    VERIFIED_ATTEST_ENVELOPES, \* the structs that have been verified
    MaxNonce, MaxUpgrades   \* bounds

VARIABLES
    onChain,     \* [Tasks -> the escrow's struct and its payout event]
    eas,         \* EAS: the struct it runs, its upgrades, the attester's nonce
    call,        \* [Calls -> a request under way, or what it was answered]
    offchain,    \* history: the messages signed off chain
    published    \* Seq of what EAS has recorded

own == << onChain, eas, call, offchain, published >>

Zero  == "zero"
Idle  == [ pc |-> "idle" ]
Fresh == [ state |-> "Funded", evidence |-> Zero, verdict |-> Zero, route |-> "none" ]

(* CompletionRoute: the contract's exits, the last of which this build may *)
(* not know, and the ruling, which the contract does not give a route.     *)
ContractRoutes  == {"AgentConfirmed", "ReviewElapsed", "PassingVerdict", "later"}
CompletionRoute == {"AgentConfirmed", "ReviewElapsed", "PassingVerdict", "ArbitrationRuling"}

Init ==
    /\ onChain = [t \in Tasks |-> Fresh]
    /\ \E s \in DOMAIN Structs : eas = [ struct |-> s, upgrades |-> 0, nonce |-> 0 ]
    /\ call = [c \in Calls |-> Idle]
    /\ offchain = {} /\ published = << >>
-----------------------------------------------------------------------------
(* The chain. *)

submitWork(t) ==
    /\ onChain[t].state = "Funded"
    /\ onChain' = [onChain EXCEPT ![t].state = "Delivered", ![t].evidence = "evidence"]
    /\ UNCHANGED << eas, call, offchain, published >>

(* A verdict is recorded by the call that pays on it, or in a dispute.     *)
recordVerdict(t) ==
    /\ onChain[t].state = "Delivered" /\ onChain[t].verdict = Zero
    /\ onChain' = [onChain EXCEPT ![t].verdict = "verdict"]
    /\ UNCHANGED << eas, call, offchain, published >>

(* The agent may pay before anything is delivered. *)
pay(t, route) ==
    /\ \/ onChain[t].state = "Delivered"
       \/ onChain[t].state = "Funded" /\ route = "AgentConfirmed"
    /\ onChain' = [onChain EXCEPT
         ![t].state = IF route = "ArbitrationRuling" THEN "Resolved" ELSE "Completed",
         ![t].route = route,
         ![t].verdict = IF route = "PassingVerdict" THEN "verdict" ELSE @]
    /\ UNCHANGED << eas, call, offchain, published >>

refund(t) ==
    /\ onChain[t].state \in {"Funded", "Delivered"}
    /\ onChain' = [onChain EXCEPT ![t].state = IF @ = "Funded" THEN "Expired" ELSE "Resolved"]
    /\ UNCHANGED << eas, call, offchain, published >>

upgrade(s) ==
    /\ eas.upgrades < MaxUpgrades
    /\ eas' = [eas EXCEPT !.struct = s, !.upgrades = @ + 1]
    /\ UNCHANGED << onChain, call, offchain, published >>
-----------------------------------------------------------------------------
(* loadCompletedTask *)

Goes(c, f) == call' = [call EXCEPT ![c] = f] /\ UNCHANGED << onChain, eas, offchain, published >>

(* An authenticated request for the off-chain copy, or to publish. *)
request(c, caller, t, kind) ==
    /\ call[c].pc = "idle"
    /\ Goes(c, [ pc |-> "getTask", caller |-> caller, task |-> t, kind |-> kind ])

(* getOnChainTask and getTaskCompletion each read the task; the client     *)
(* batches what is asked in one tick into one multicall, so both see the   *)
(* same block.                                                             *)
readTask(c) ==
    /\ call[c].pc = "getTask"
    /\ \/ Goes(c, [pc |-> "getLogs", caller |-> call[c].caller, task |-> call[c].task,
                   kind |-> call[c].kind, seen |-> onChain[call[c].task]])
       \/ Goes(c, Idle)

(* Mutant: whether the task is paid is read apart, a request later. *)
loadCompletedTask_Apart(c) ==
    /\ call[c].pc = "getLogs"
    /\ LET t == call[c].task
       IN  IF /\ call[c].caller = Worker[t]
              /\ onChain[t].state \in {"Completed", "Resolved"}
              /\ onChain[t].route \in CompletionRoute
           THEN Goes(c, [ pc |-> "inputs", task |-> t, kind |-> call[c].kind,
                          seen |-> [call[c].seen EXCEPT !.route = onChain[t].route] ])
           ELSE Goes(c, Idle)

(* Only a task seen as paid has its event looked for, and a route that     *)
(* this build does not know is refused, as are a stranger and a task that  *)
(* has not paid its worker.                                                *)
loadCompletedTask(c) ==
    /\ call[c].pc = "getLogs"
    /\ LET t == call[c].task
       IN  IF /\ call[c].caller = Worker[t]
              /\ call[c].seen.state \in {"Completed", "Resolved"}
              /\ onChain[t].route \in CompletionRoute
           THEN Goes(c, [ pc |-> "inputs", task |-> t, kind |-> call[c].kind,
                          seen |-> [call[c].seen EXCEPT !.route = onChain[t].route] ])
           ELSE Goes(c, Idle)

(* completionRecord: of the task, what is there when it is signed.         *)
completionRecord(t, seen) ==
    [ task |-> t, recipient |-> Worker[t], route |-> seen.route, evidence |-> seen.evidence,
      verdict |-> seen.verdict, checker |-> IF seen.verdict = Zero THEN Zero ELSE "rules v1" ]
-----------------------------------------------------------------------------
(* Signing. *)

(* readEasDomainInputs or readEasDelegationInputs, one multicall; then     *)
(* resolveEnvelope, which refuses a struct that is not on record.  A proxy *)
(* read by mistake and a separator that does not match are refused too.    *)
resolveEnvelope == VERIFIED_ATTEST_ENVELOPES \cap {eas.struct}

readEasInputs(c) ==
    /\ call[c].pc = "inputs"
    /\ \/ /\ call[c].kind = "offchain"
          /\ Goes(c, [call[c] EXCEPT !.pc = "sign"])
       \/ /\ call[c].kind = "delegated"
          /\ \E s \in resolveEnvelope :
               Goes(c, [ pc |-> "sign", task |-> call[c].task, kind |-> "delegated",
                         seen |-> call[c].seen, struct |-> s, nonce |-> eas.nonce ])
       \/ Goes(c, Idle)

signCompletionAttestation(c) ==
    /\ call[c].pc = "sign" /\ call[c].kind = "offchain"
    /\ offchain' = offchain \cup {completionRecord(call[c].task, call[c].seen)}
    /\ call' = [call EXCEPT ![c] = Idle]
    /\ UNCHANGED << onChain, eas, published >>

signDelegatedCompletionRequest(c) ==
    /\ call[c].pc = "sign" /\ call[c].kind = "delegated"
    /\ Goes(c, [ pc |-> "signed", struct |-> call[c].struct, nonce |-> call[c].nonce,
                 deadline |-> Structs[call[c].struct],
                 record |-> completionRecord(call[c].task, call[c].seen) ])

(* The signer fails; or the worker never submits what it was given.        *)
dropped(c) ==
    /\ call[c].pc \in {"sign", "signed"}
    /\ Goes(c, Idle)

(* attestByDelegation, from the worker's wallet.  EAS takes the signature  *)
(* of its own struct at the attester's nonce; where there is a deadline it *)
(* may also have passed.  Anything else reverts.                           *)
attestByDelegation(c) ==
    /\ call[c].pc = "signed"
    /\ \/ /\ call[c].struct = eas.struct /\ call[c].nonce = eas.nonce /\ eas.nonce < MaxNonce
          /\ eas' = [eas EXCEPT !.nonce = @ + 1]
          /\ published' = Append(published, call[c].record)
       \/ /\ call[c].struct # eas.struct \/ call[c].nonce # eas.nonce \/ call[c].deadline
          /\ UNCHANGED << eas, published >>
    /\ call' = [call EXCEPT ![c] = Idle]
    /\ UNCHANGED << onChain, offchain >>

Next ==
    \/ \E t \in Tasks : submitWork(t) \/ recordVerdict(t) \/ refund(t)
    \/ \E t \in Tasks, r \in ContractRoutes \cup {"ArbitrationRuling"} : pay(t, r)
    \/ \E s \in DOMAIN Structs : upgrade(s)
    \/ \E c \in Calls, w \in Callers, t \in Tasks, k \in {"offchain", "delegated"} : request(c, w, t, k)
    \/ \E c \in Calls : \/ readTask(c) \/ loadCompletedTask(c) \/ readEasInputs(c)
                        \/ signCompletionAttestation(c) \/ signDelegatedCompletionRequest(c)
                        \/ dropped(c) \/ attestByDelegation(c)

Spec == Init /\ [][Next]_own
-----------------------------------------------------------------------------
Signed == offchain \cup { published[i] : i \in 1 .. Len(published) }
            \cup { call[c].record : c \in { d \in Calls : call[d].pc = "signed" } }

(* Whatever was read in between: a completion has one description, off     *)
(* chain and published, and it is what the contract ended with; it is only *)
(* given of a task that paid its worker.  EAS is never sent a struct that  *)
(* nobody verified.                                                        *)
OneCompletionOneRecord ==
    /\ \A r \in Signed :
         /\ onChain[r.task].route \in CompletionRoute
         /\ r = completionRecord(r.task, onChain[r.task])
    /\ \A c \in Calls : call[c].pc = "signed" => call[c].struct \in VERIFIED_ATTEST_ENVELOPES
    /\ eas.nonce = Len(published)
=============================================================================
