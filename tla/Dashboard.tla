----------------------------- MODULE Dashboard -----------------------------
(***************************************************************************)
(* app/dashboard/page.tsx, for one wallet and one task: the list the page  *)
(* has read from /api/tasks, the buttons it shows of it, the one action it *)
(* is busy with, the session it rides on and the evidence draft it keeps.  *)
(* Row, chain and session move under it.  `clock' is block.timestamp, and  *)
(* the browser's Date.now() may be ahead of it or behind.                  *)
(*                                                                         *)
(* Of the three deadlines of a task only the one that its state is under   *)
(* is compared with anything: `due' is deadline while it is Funded,        *)
(* reviewDeadline while Delivered, and arbitrationDeadline in a dispute.   *)
(***************************************************************************)
EXTENDS Naturals, FiniteSets

CONSTANTS
    Bundles, Passing,           \* evidence bundles; those that meet the criteria
    DELIVERY, REVIEW, ARBITRATION, VERDICT_TTL,
    MaxSkew,                    \* how far the browser's clock may be off block.timestamp
    MaxPending, MaxClock        \* bounds

VARIABLES
    clock,
    me,          \* the connected wallet's side of the task
    task,        \* the task on the chain
    arbitrationClock, \* whether the deployed contract has one
    row,         \* status in the tasks table
    session,     \* whether the browser's cookie is good
    gesture,     \* userGestureRef
    page,        \* checking, sign-in or tasks
    view,        \* the task as listed, or Nothing
    fetching,    \* whether a fetchTasks is under way
    action,      \* what actionBusy stands for, or Idle
    mempool,     \* transactions the wallet has sent
    draft        \* evidenceDrafts, which every render writes to localStorage

own  == << me, task, arbitrationClock, row, session, gesture, page, view, fetching, action,
           mempool, draft >>
vars == << clock, own >>

None    == "none"
NoTask  == [ state |-> "None", due |-> 0, evidenceHash |-> None ]
NoChain == [NoTask EXCEPT !.state = "unread"]
Nothing == [ list |-> "none", status |-> None, on_chain |-> NoChain, readAt |-> 0 ]
Idle    == [ name |-> None ]

(* A task has an id of its own beside the request it was hired by.         *)
Keys    == {"id", "payment_request_id"}

(* What Date.now() may say in the browser.                                 *)
Now == { n \in 0 .. (clock + MaxSkew) : clock <= n + MaxSkew }

Init ==
    /\ clock = 0
    /\ me \in {"worker", "agent"}
    /\ task = NoTask /\ arbitrationClock \in BOOLEAN
    /\ row = "pending"
    /\ session \in BOOLEAN /\ gesture = FALSE
    /\ page = "checking" /\ view = Nothing
    /\ fetching = FALSE
    /\ action = Idle /\ mempool = {}
    /\ draft = [k \in Keys |-> None]
-----------------------------------------------------------------------------
(* CarbonEscrow, for one task whose criteria and verdict signers stand.    *)

Worker == { "submitWork", "releaseAfterReview", "claimWithVerdict", "releaseAfterArbitration" }
Writes == Worker \cup { "expireTask", "disputeTask" }

(* What an evidence bundle goes with. *)
Evidence == { "submitWork", "claimWithVerdict", "disputeTask" }

PermitsAt(tx, time) ==
    \/ tx.name = "submitWork" /\ task.state = "Funded" /\ time < task.due
    \/ tx.name = "expireTask" /\ task.state = "Funded" /\ time >= task.due
    \/ tx.name = "releaseAfterReview" /\ task.state = "Delivered" /\ time >= task.due
    \/ /\ tx.name \in {"claimWithVerdict", "disputeTask"} /\ task.state = "Delivered"
       /\ tx.bundle = task.evidenceHash /\ time <= tx.expiry
       /\ tx.name = "disputeTask" => time < task.due
    \/ /\ tx.name = "releaseAfterArbitration" /\ task.state \in {"Disputed", "Arbitrating"}
       /\ arbitrationClock /\ time >= task.due

Permits(tx) == PermitsAt(tx, clock)

Becomes(tx) ==
    CASE tx.name = "submitWork"  -> [ state |-> "Delivered", due |-> clock + REVIEW, evidenceHash |-> tx.bundle ]
      [] tx.name = "expireTask"  -> [NoTask EXCEPT !.state = "Expired"]
      [] tx.name = "disputeTask" -> [task EXCEPT !.state = "Disputed", !.due = clock + ARBITRATION]
      [] OTHER                   -> [NoTask EXCEPT !.state = "Completed"]

(* `moved' of what the page is about to send or has sent: whether the task *)
(* changed since the page read it.                                         *)
Moved(a) == IF a.name \in Writes THEN [a EXCEPT !.moved = TRUE] ELSE a

Set(t, sent) ==
    /\ task' = t
    /\ action' = IF t = task THEN action ELSE Moved(action)
    /\ mempool' = IF t = task THEN sent ELSE { Moved(tx) : tx \in sent }
    /\ UNCHANGED << clock, me, arbitrationClock, row, session, gesture, page, view, fetching, draft >>

createTask ==
    /\ row = "accepted" /\ task = NoTask
    /\ Set([NoTask EXCEPT !.state = "Funded", !.due = clock + DELIVERY], mempool)

(* What the parties send from elsewhere.                                   *)
Given(name) == IF name \in Evidence THEN Bundles ELSE {None}

elsewhere(name, b) ==
    LET tx == [ name |-> name, bundle |-> b, expiry |-> clock ]
    IN  Permits(tx) /\ Set(Becomes(tx), mempool)

(* completeTask and completeTaskByOwner, beginArbitration, resolveDispute. *)
ruled(to) ==
    /\ \/ task.state \in {"Funded", "Delivered"} /\ to = "Completed"
       \/ task.state = "Disputed" /\ to = "Arbitrating"
       \/ task.state \in {"Disputed", "Arbitrating"} /\ to = "Resolved"
    /\ task.state \in {"Disputed", "Arbitrating"} => clock < task.due
    /\ Set(IF to = "Arbitrating" THEN [task EXCEPT !.state = to] ELSE [NoTask EXCEPT !.state = to], mempool)

mined(tx) ==
    /\ tx \in mempool
    /\ Set(IF Permits(tx) THEN Becomes(tx) ELSE task, mempool \ {tx})

(* The row follows: answers, lapses, fund-task, the settlement sync.       *)
rowStep(to) ==
    /\ \/ row = "pending" /\ to \in {"accepted", "declined", "lapsed"}
       \/ row = "accepted" /\ to = "active" /\ task.state # "None"
       \/ row = "active" /\ to = "disputed" /\ task.state \in {"Disputed", "Arbitrating"}
       \/ /\ row \in {"active", "disputed"}
          /\ \/ to = "completed" /\ task.state \in {"Completed", "Resolved"}
             \/ to = "expired" /\ task.state \in {"Expired", "Resolved"}
    /\ row' = to
    /\ UNCHANGED << clock, me, task, arbitrationClock, session, gesture, page, view, fetching, action, mempool, draft >>

(* It runs out, or is revoked from another browser.                        *)
sessionEnds ==
    /\ session
    /\ session' = FALSE
    /\ UNCHANGED << clock, me, task, arbitrationClock, row, gesture, page, view, fetching, action, mempool, draft >>

Tick ==
    /\ clock < MaxClock
    /\ clock' = clock + 1
    /\ UNCHANGED own
-----------------------------------------------------------------------------
(* The buttons. *)

InReview(v) == v.on_chain.state = "Delivered" /\ v.status # "completed"

(* Mutant: an unpaid delivery is claimed a moment later than it could be.  *)
Offered_Later(name, v, nowSec) ==
    CASE name = "releaseAfterReview" -> me = "worker" /\ InReview(v) /\ nowSec > v.on_chain.due
      [] name = "expireTask" -> /\ me = "agent" /\ v.on_chain.state = "Funded"
                                /\ nowSec >= v.on_chain.due
      [] OTHER -> FALSE

(* Mutant: the time is rounded up. *)
Offered_RoundedUp(name, v, nowSec) ==
    CASE name = "releaseAfterReview" -> me = "worker" /\ InReview(v) /\ nowSec + 1 >= v.on_chain.due
      [] name = "submitWork" -> /\ me = "worker" /\ v.status = "active" /\ v.on_chain.state = "Funded"
                                /\ nowSec < v.on_chain.due
      [] OTHER -> FALSE

Offered(name, v, nowSec) ==
    CASE name \in {"accept", "decline"} -> me = "worker" /\ v.status = "pending"
      [] name = "submitWork" -> /\ me = "worker" /\ v.status = "active" /\ v.on_chain.state = "Funded"
                                /\ nowSec < v.on_chain.due
      [] name = "expireTask" -> me = "agent" /\ v.on_chain.state = "Funded" /\ nowSec >= v.on_chain.due
      [] name = "releaseAfterReview" -> me = "worker" /\ InReview(v) /\ nowSec >= v.on_chain.due
      [] name = "claimWithVerdict"   -> me = "worker" /\ InReview(v)
      [] name = "disputeTask" -> /\ v.on_chain.state = "Delivered" /\ nowSec < v.on_chain.due
                                 /\ v.status # "disputed"
      [] name = "releaseAfterArbitration" ->
            /\ me = "worker" /\ v.on_chain.state \in {"Disputed", "Arbitrating"}
            /\ arbitrationClock /\ nowSec >= v.on_chain.due
      [] name = "attestation" -> me = "worker" /\ v.on_chain.state \in {"Completed", "Resolved"}

Answers  == { "accept", "decline", "attestation" }
Names    == Writes \cup Answers

(* Every change of the page's state renders it anew, at the browser's time *)
(* and without reading the list again; no clock does.  So what it shows may*)
(* date from any moment since the list was set.                            *)
Shows(name) ==
    \E nowSec \in 0 .. (clock + MaxSkew) :
        view.readAt <= nowSec + MaxSkew /\ Offered(name, view, nowSec)
-----------------------------------------------------------------------------
(* Reading the list. *)

Fetch == fetching' = TRUE

(* The probe of a mount: a good session loads, another shows the button.   *)
probeSession ==
    /\ page = "checking"
    /\ IF session THEN page' = "tasks" /\ Fetch ELSE page' = "sign-in" /\ UNCHANGED fetching
    /\ UNCHANGED << clock, me, task, arbitrationClock, row, session, gesture, view, action, mempool, draft >>

(* One message signed, or declined; the list is read whichever.            *)
handleSignIn(signs) ==
    /\ page = "sign-in"
    /\ page' = "tasks" /\ gesture' = TRUE
    /\ session' = (session \/ signs)
    /\ Fetch
    /\ UNCHANGED << clock, me, task, arbitrationClock, row, view, action, mempool, draft >>

handleRevokeAllSessions ==
    /\ page = "tasks" /\ session
    /\ session' = FALSE /\ page' = "sign-in" /\ view' = Nothing
    /\ UNCHANGED << clock, me, task, arbitrationClock, row, gesture, fetching, action, mempool, draft >>

(* GET /api/tasks: the wallet's own, or to nobody in particular the public *)
(* projection, where a request has no id before its offer is funded, with  *)
(* the chain's word on each, where it can be had.                          *)
Listed(on_chain) ==
    [ list |-> IF session THEN "own" ELSE "public", status |-> row, on_chain |-> on_chain, readAt |-> clock ]

Known(v) == IF v.list = "public" /\ v.status \in {"pending", "accepted"} THEN {}
            ELSE {"payment_request_id"}

(* The list is set, and drafts of tasks it does not know are dropped.      *)
fetchTasks ==
    /\ fetching
    /\ \E on_chain \in {task, NoChain} :
         /\ Known(Listed(on_chain)) = {} => on_chain = NoChain
         /\ view' = Listed(on_chain)
    /\ draft' = [k \in Keys |-> IF k \in Known(view') THEN draft[k] ELSE None]
    /\ fetching' = FALSE
    /\ UNCHANGED << clock, me, task, arbitrationClock, row, session, gesture, page, action, mempool >>

fetchFails ==
    /\ fetching
    /\ view' = Nothing
    /\ fetching' = FALSE
    /\ UNCHANGED << clock, me, task, arbitrationClock, row, session, gesture, page, action, mempool, draft >>

(* The page is opened again: what was sent is sent, the draft was stored.  *)
reload ==
    /\ page # "checking"
    /\ page' = "checking" /\ view' = Nothing /\ gesture' = FALSE
    /\ fetching' = FALSE /\ action' = Idle
    /\ UNCHANGED << clock, me, task, arbitrationClock, row, session, mempool, draft >>
-----------------------------------------------------------------------------
(* What the buttons do. *)

Acts(a) ==
    /\ action' = a
    /\ UNCHANGED << clock, me, task, arbitrationClock, page, view, mempool, draft >>

(* The form of the evidence, by hand or by an upload.                      *)
edit(b) ==
    /\ page = "tasks" /\ \E name \in Evidence : Shows(name)
    /\ draft' = [draft EXCEPT !["id"] = b]
    /\ UNCHANGED << clock, me, task, arbitrationClock, row, session, gesture, page, view, fetching, action, mempool >>

(* A bundle that is not there stops every form; one that is not the        *)
(* submitted one stops an early claim.                                     *)
click(name) ==
    /\ page = "tasks" /\ action = Idle /\ Shows(name)
    /\ name \in Evidence => draft["id"] # None
    /\ name = "claimWithVerdict" => draft["id"] = view.on_chain.evidenceHash
    /\ Acts([ name |-> name, moved |-> view.on_chain # task, expiry |-> 0,
              bundle |-> IF name \in Evidence THEN draft["id"] ELSE None,
              pc |-> IF name \in Answers THEN "request"
                     ELSE IF name \in {"claimWithVerdict", "disputeTask"} THEN "verdict" ELSE "wallet" ])
    /\ UNCHANGED << row, session, gesture, fetching >>

(* fetchWithSession: where the session is gone, one that a gesture allows. *)
SignedIn == session' = TRUE /\ (session \/ gesture)

(* POST /api/offers: the first answer to a live offer stands, and then the *)
(* list is read again.                                                     *)
handleOfferResponse ==
    /\ action.name \in {"accept", "decline"} /\ SignedIn
    /\ \/ row = "pending" /\ row' = (IF action.name = "accept" THEN "accepted" ELSE "declined") /\ Fetch
       \/ row # "pending" /\ UNCHANGED << row, fetching >>
    /\ Acts(Idle)
    /\ UNCHANGED gesture

handleDownloadAttestation ==
    /\ action.name = "attestation" /\ SignedIn
    /\ Acts(Idle)
    /\ UNCHANGED << row, gesture, fetching >>

(* POST /api/verdict: on what is committed, of what was asked.             *)
requestVerdict ==
    /\ action.name # None /\ action.pc = "verdict"
    /\ SignedIn
    /\ IF /\ task.state \in {"Delivered", "Disputed", "Arbitrating"} /\ action.bundle = task.evidenceHash
          /\ (action.bundle \in Passing) = (action.name = "claimWithVerdict")
       THEN /\ Acts([action EXCEPT !.pc = "wallet", !.expiry = clock + VERDICT_TTL])
            /\ UNCHANGED fetching
       ELSE Acts(Idle) /\ Fetch
    /\ UNCHANGED << row, gesture >>

(* A call refused, a signature declined: only what was for the contract    *)
(* reads the list again.                                                   *)
actionFails ==
    /\ action.name # None
    /\ Acts(Idle)
    /\ IF action.name \in Answers THEN UNCHANGED fetching ELSE Fetch
    /\ UNCHANGED << row, session, gesture >>

(* writeContractAsync returns when the wallet has sent; a dispute is then  *)
(* reported.                                                               *)
writeContract ==
    /\ action.name # None /\ action.pc = "wallet"
    /\ Cardinality(mempool) < MaxPending
    /\ mempool' = mempool \cup { [ name |-> action.name, bundle |-> action.bundle,
                                   expiry |-> action.expiry, moved |-> action.moved ] }
    /\ action' = IF action.name = "disputeTask" THEN [action EXCEPT !.pc = "record"] ELSE Idle
    /\ IF action.name = "disputeTask" THEN UNCHANGED fetching ELSE Fetch
    /\ UNCHANGED << clock, me, task, arbitrationClock, row, session, gesture, page, view, draft >>

(* POST /api/dispute records what the chain says.                          *)
recordDispute ==
    /\ action.name # None /\ action.pc = "record"
    /\ SignedIn
    /\ row' = IF row = "active" /\ task.state = "Disputed" THEN "disputed" ELSE row
    /\ Acts(Idle) /\ Fetch
    /\ UNCHANGED gesture

Next ==
    \/ createTask \/ sessionEnds \/ Tick
    \/ \E name \in Writes : \E b \in Given(name) : elsewhere(name, b)
    \/ \E to \in {"Completed", "Arbitrating", "Resolved"} : ruled(to)
    \/ \E tx \in mempool : mined(tx)
    \/ \E to \in {"accepted", "declined", "lapsed", "active", "disputed", "completed", "expired"} : rowStep(to)
    \/ probeSession \/ handleRevokeAllSessions \/ reload
    \/ \E signs \in BOOLEAN : handleSignIn(signs)
    \/ fetchTasks \/ fetchFails
    \/ \E b \in Bundles : edit(b)
    \/ \E name \in Names : click(name)
    \/ handleOfferResponse \/ handleDownloadAttestation \/ requestVerdict \/ actionFails \/ recordDispute
    \/ writeContract

Spec == Init /\ [][Next]_vars
-----------------------------------------------------------------------------
Claims == { "expireTask", "releaseAfterReview", "releaseAfterArbitration" }

MayAt(name, time) == /\ (me = "agent") = (name = "expireTask")
                     /\ PermitsAt([ name |-> name ], time)

(* A page that shows the task as it is and renders now offers a party the  *)
(* money it can take by itself as the contract would give it, up to the    *)
(* skew of the browser's clock: never earlier than that before, and always *)
(* when it has been due that long.                                         *)
ClaimsAreOffered ==
    (page = "tasks" /\ view.on_chain = task /\ view.status = row) =>
        \A name \in Claims, nowSec \in Now :
          /\ Offered(name, view, nowSec) => MayAt(name, clock + MaxSkew)
          /\ \A time \in 0 .. clock :
               time + MaxSkew <= clock /\ MayAt(name, time) => Offered(name, view, nowSec)

(* A transaction the page had the wallet send is refused only when the task*)
(* moved after the page read it, when its last moment had passed, or when  *)
(* its first was less than the skew away.                                  *)
Late(tx) ==
    \/ tx.name = "submitWork" /\ clock >= task.due
    \/ tx.name = "disputeTask" /\ clock >= task.due
    \/ tx.name \in {"claimWithVerdict", "disputeTask"} /\ clock > tx.expiry

Early(tx) == tx.name \in Claims /\ PermitsAt(tx, clock + MaxSkew)

SentIsAccepted ==
    \A tx \in mempool : Permits(tx) \/ tx.moved \/ Late(tx) \/ Early(tx)

(* page.tsx:281: "Drafts survive reloads".                                 *)
DraftsSurvive ==
    [][ draft["id"] # None => draft'["id"] # None ]_vars
=============================================================================
