---------------------------------- MODULE Awol ----------------------------------
(***************************************************************************)
(* Auto-booking and the AWOL check of lib/awol.ts, for one worker: hires   *)
(* read the worker's channels, count the silences at the end of the        *)
(* worker's history, and either book the worker or switch auto-booking off *)
(* on every channel (lib/db/notifications.ts).  The worker's dashboard     *)
(* (/api/channels), answers, lapses and settlements come in between.       *)
(*                                                                         *)
(* Screening, lookup and the cap, which only end a hire, are OfferBooking's.*)
(* Task ids are numbered in the order of created_at.                       *)
(***************************************************************************)
EXTENDS TaskTable, SequencesExt

CONSTANTS
    Hires,        \* concurrent request_human_work calls that name the worker
    Channels,     \* the types of channel; a contractor has one of each
    AWOL_LAPSED_OFFER_THRESHOLD,
    AWOL_EXPIRED_TASK_THRESHOLD

ASSUME AwolAssumption ==
    /\ TaskIds \subseteq Nat
    /\ AWOL_LAPSED_OFFER_THRESHOLD \in Nat \ {0}
    /\ AWOL_EXPIRED_TASK_THRESHOLD \in Nat \ {0}

VARIABLES
    channel,      \* [Channels -> {"absent", "off", "on"}]
    hire,         \* [Hires -> Hire]
    unanswered,   \* history: the offers that lapsed while the worker had said nothing
    refunded,     \* history: the funded tasks whose money went back to the agent
    told,         \* history: both, when auto-booking was last switched off
    absent        \* history: [Hires -> the worker was AWOL all through the call]

vars == << clock, rows, channel, hire, unanswered, refunded, told, absent >>

(* autoAccept is the hire's own reading, evaluated and triggered the check's. *)
Hire == [ pc : {"idle", "channels", "tasks", "disable", "insert"},
          autoAccept : BOOLEAN, evaluated : BOOLEAN, triggered : BOOLEAN ]

Fresh == [ pc |-> "idle", autoAccept |-> FALSE,
           evaluated |-> FALSE, triggered |-> FALSE ]

TypeOK ==
    /\ clock \in Nat
    /\ rows \in [TaskIds -> Row]
    /\ channel \in [Channels -> {"absent", "off", "on"}]
    /\ hire \in [Hires -> Hire]
    /\ \A h \in Hires : hire[h].triggered => hire[h].evaluated
    /\ unanswered \subseteq TaskIds /\ refunded \subseteq TaskIds
    /\ told \subseteq unanswered \cup refunded
    /\ absent \in [Hires -> BOOLEAN]

Init ==
    /\ TableInit
    /\ channel \in [Channels -> {"absent", "on"}]
    /\ hire = [h \in Hires |-> Fresh]
    /\ unanswered = {} /\ refunded = {} /\ told = {}
    /\ absent = [h \in Hires |-> FALSE]

AutoBookable == \E c \in Channels : channel[c] = "on"
-----------------------------------------------------------------------------
(* The streaks. *)

Silence == {"lapsed_offer", "expired_no_submission"}

(* Mutant: a lapse is silence also when the worker had said yes. *)
taskToAwolOutcome_StatusOnly(row) ==
    CASE row.status = "lapsed"  -> "lapsed_offer"
      [] row.status = "expired" -> "expired_no_submission"
      [] row.status \in {"completed", "disputed", "declined", "accepted"} -> row.status
      [] OTHER -> "other"

(* The pin says that the worker had accepted: then the agent walked away.  *)
taskToAwolOutcome(row) ==
    CASE row.status = "lapsed" /\ ~ row.pinned -> "lapsed_offer"
      [] row.status = "lapsed" /\ row.pinned   -> "accepted"
      [] row.status = "expired"                -> "expired_no_submission"
      [] row.status \in {"completed", "disputed", "declined", "accepted"} -> row.status
      [] OTHER -> "other"

(* getTasksByWallet, turned to oldest first. *)
History ==
    LET mine == { t \in TaskIds : Exists(t) }
        ids  == CHOOSE s \in [1 .. Cardinality(mine) -> mine] :
                  \A i, j \in DOMAIN s : i < j => s[i] < s[j]
    IN  [i \in DOMAIN ids |-> taskToAwolOutcome(rows[ids[i]])]

(* Mutant: a silence of the other kind is skipped. *)
computeAwolStreaks_Mixed(outcomes) ==
    LET Count(outcome, s) ==
          IF s.over \/ outcome = "other" \/ (outcome \in Silence /\ s.kind \notin {"none", outcome})
          THEN s
          ELSE IF outcome \in Silence
               THEN [s EXCEPT !.kind = outcome, !.run = @ + 1]
               ELSE [s EXCEPT !.over = TRUE]
    IN  FoldRight(Count, outcomes, [kind |-> "none", run |-> 0, over |-> FALSE])

(* From the newest outcome back, until something is not the same silence.  *)
computeAwolStreaks(outcomes) ==
    LET Count(outcome, s) ==
          IF s.over \/ outcome = "other" THEN s
          ELSE IF outcome \in Silence /\ s.kind \in {"none", outcome}
               THEN [s EXCEPT !.kind = outcome, !.run = @ + 1]
               ELSE [s EXCEPT !.over = TRUE]
    IN  FoldRight(Count, outcomes, [kind |-> "none", run |-> 0, over |-> FALSE])

Threshold(kind) ==
    IF kind = "lapsed_offer"
    THEN AWOL_LAPSED_OFFER_THRESHOLD ELSE AWOL_EXPIRED_TASK_THRESHOLD

evaluateAwol(streaks) == streaks.kind \in Silence /\ streaks.run >= Threshold(streaks.kind)
-----------------------------------------------------------------------------
(* request_human_work, from the reading of the channels to the insert. *)

requestHumanWork(h) ==
    /\ hire[h].pc = "idle"
    /\ lapseExpiredOffers
    /\ hire' = [hire EXCEPT ![h] = [Fresh EXCEPT !.pc = "channels",
                                                 !.autoAccept = AutoBookable]]
    /\ UNCHANGED << clock, channel >>

(* evaluateAwolAtBooking: no channel on, nothing to check. *)
awolChannels(h) ==
    /\ hire[h].pc = "channels"
    /\ hire' = [hire EXCEPT ![h].pc = IF AutoBookable THEN "tasks" ELSE "insert"]
    /\ UNCHANGED << clock, rows, channel >>

awolTasks(h) ==
    /\ hire[h].pc = "tasks"
    /\ LET triggered == evaluateAwol(computeAwolStreaks(History))
       IN  hire' = [hire EXCEPT ![h].pc = IF triggered THEN "disable" ELSE "insert",
                                ![h].evaluated = TRUE, ![h].triggered = triggered]
    /\ UNCHANGED << clock, rows, channel >>

setAcceptsAutoBookingForContractor ==
    channel' = [c \in Channels |-> IF channel[c] = "on" THEN "off" ELSE channel[c]]

awolDisable(h) ==
    /\ hire[h].pc = "disable"
    /\ setAcceptsAutoBookingForContractor
    /\ hire' = [hire EXCEPT ![h].pc = "insert"]
    /\ UNCHANGED << clock, rows >>

(* Mutant: the verdict of a check that failed is kept. *)
awolFails_KeepsVerdict(h) ==
    /\ hire[h].pc \in {"channels", "tasks", "disable"}
    /\ \/ UNCHANGED channel
       \/ hire[h].pc = "disable" /\ setAcceptsAutoBookingForContractor
    /\ hire' = [hire EXCEPT ![h].pc = "insert", ![h].evaluated = FALSE]
    /\ UNCHANGED << clock, rows >>

(* A read or the update fails, and awol stays at its default.  The update  *)
(* may have been made all the same.                                        *)
awolFails(h) ==
    /\ hire[h].pc \in {"channels", "tasks", "disable"}
    /\ \/ UNCHANGED channel
       \/ hire[h].pc = "disable" /\ setAcceptsAutoBookingForContractor
    /\ hire' = [hire EXCEPT ![h].pc = "insert", ![h].evaluated = FALSE,
                            ![h].triggered = FALSE]
    /\ UNCHANGED << clock, rows >>

(* Mutant: the first reading of the channels alone decides. *)
autoAcceptOffer_ReadFirst(h) == hire[h].autoAccept

autoAcceptOffer(h) ==
    hire[h].autoAccept /\ hire[h].evaluated /\ ~ hire[h].triggered

(* The new row comes after all others; or the hire ends without one.       *)
hireInsert(h) ==
    /\ hire[h].pc = "insert"
    /\ \/ UNCHANGED rows
       \/ \E t \in TaskIds :
            /\ \A u \in TaskIds : ~ Exists(u) <=> u >= t
            /\ createTask(t, [NoRow EXCEPT
                 !.status = IF autoAcceptOffer(h) THEN "accepted" ELSE "pending",
                 !.expiry = clock + 1, !.pinned = autoAcceptOffer(h)])
    /\ hire' = [hire EXCEPT ![h] = Fresh]
    /\ UNCHANGED << clock, channel >>

HireStep(h) ==
    \/ requestHumanWork(h) \/ awolChannels(h) \/ awolTasks(h)
    \/ awolDisable(h) \/ awolFails(h) \/ hireInsert(h)
-----------------------------------------------------------------------------
(* The worker's dashboard: register, toggle or remove a channel. *)

registerNotificationChannel(c, on) ==
    /\ channel' = [channel EXCEPT ![c] = IF on THEN "on" ELSE "off"]
    /\ UNCHANGED << clock, rows, hire >>

setChannelAutoBooking(c, on) ==
    /\ channel[c] # "absent"
    /\ channel' = [channel EXCEPT ![c] = IF on THEN "on" ELSE "off"]
    /\ UNCHANGED << clock, rows, hire >>

removeNotificationChannel(c) ==
    /\ channel' = [channel EXCEPT ![c] = "absent"]
    /\ UNCHANGED << clock, rows, hire >>

Dashboard ==
    \E c \in Channels :
      \/ \E on \in BOOLEAN :
           registerNotificationChannel(c, on) \/ setChannelAutoBooking(c, on)
      \/ removeNotificationChannel(c)

(* Answers, confirmations, disputes and settlements, as statements.        *)
Elsewhere ==
    /\ \/ lapseExpiredOffers
       \/ \E t \in TaskIds :
            \/ acceptTask(t, TRUE)
            \/ updateTaskStatus(t, "declined", TRUE)
            \/ markTaskFunded(t, TRUE)
            \/ updateTaskStatus(t, "disputed", TRUE)
            \/ /\ rows[t].status \in {"active", "disputed"}
               /\ \E s \in {"completed", "expired"} : updateTaskStatus(t, s, TRUE)
    /\ UNCHANGED << clock, channel, hire >>
-----------------------------------------------------------------------------
(* What the properties remember. *)

(* The definition of a streak that the loop is checked against: the rows   *)
(* of one silence such that nothing but more of it, and rows in flight,    *)
(* comes after the oldest of them.                                         *)
Streak(kind) ==
    { t \in TaskIds :
        /\ taskToAwolOutcome(rows[t]) = kind
        /\ \A u \in TaskIds :
             u > t => taskToAwolOutcome(rows[u]) \in {kind, "other"} }

IsAwol == \E kind \in Silence : Cardinality(Streak(kind)) >= Threshold(kind)

SwitchedOff(h) ==
    hire[h].pc = "disable" /\ hire'[h].pc = "insert" /\ channel' # channel

Remember ==
    /\ unanswered' = unanswered \cup
         { t \in TaskIds : rows[t].status = "pending" /\ rows'[t].status = "lapsed" }
    /\ refunded' = refunded \cup
         { t \in TaskIds : /\ rows[t].status \in {"active", "disputed"}
                           /\ rows'[t].status = "expired" }
    /\ told' = IF \E h \in Hires : SwitchedOff(h) THEN unanswered \cup refunded ELSE told
    /\ absent' = [h \in Hires |->
                    IF hire'[h].pc = "channels"
                    THEN TRUE ELSE absent[h] /\ IsAwol /\ IsAwol']

Next ==
    /\ \/ \E h \in Hires : HireStep(h)
       \/ Dashboard
       \/ Elsewhere
       \/ Tick /\ UNCHANGED << rows, channel, hire >>
    /\ Remember

Spec == Init /\ [][Next]_vars
-----------------------------------------------------------------------------
(* Properties. *)

(***************************************************************************)
(* The loop of computeAwolStreaks counts what its comment describes, on    *)
(* every history the table can hold.                                       *)
(***************************************************************************)
StreaksAreTrailing ==
    LET counted == computeAwolStreaks(History)
    IN  \A kind \in Silence :
          Cardinality(Streak(kind)) = IF counted.kind = kind THEN counted.run ELSE 0

(***************************************************************************)
(* The platform switches a worker's auto-booking off only when enough      *)
(* offers lapsed without a word of the worker's, or enough funded tasks    *)
(* ended with the money back at the agent: no agent who hires and never    *)
(* funds can bring it about, also when the history moves between the       *)
(* check's reads and its update.  About taskToAwolOutcome's use of         *)
(* accepted_description_hash.  A funded task may have been refunded for a  *)
(* lost dispute and not for silence: the row does not say (see the         *)
(* README on SettlementSync's ExpiredHadNoSubmission).                     *)
(***************************************************************************)
Against(kind) == IF kind = "lapsed_offer" THEN unanswered ELSE refunded

DisabledForCause ==
    [][\A h \in Hires :
         SwitchedOff(h) =>
           \E kind \in Silence :
             Cardinality({ t \in Against(kind) : taskToAwolOutcome(rows[t]) = kind })
               >= Threshold(kind)]_vars

(***************************************************************************)
(* A worker who was AWOL all through a hire is not booked by it: whatever  *)
(* the channels said, when they were read, and whichever read or update    *)
(* failed, the offer waits for an answer.                                  *)
(***************************************************************************)
AbsentNotBooked ==
    [][\A t \in TaskIds, h \in Hires :
         /\ ~ Exists(t) /\ rows'[t].status = "accepted"
         /\ hire[h].pc = "insert" /\ hire'[h].pc = "idle"
         => ~ absent[h]]_vars

-----------------------------------------------------------------------------
(* What a comment says, and the code does not do.                          *)

(* A false positive costs the worker one toggle on the dashboard: having   *)
(* been switched off and on again, auto-booking is not switched off for    *)
(* the same rows.  (awol.ts, the header.)                                  *)
OneToggleSuffices ==
    [][\A h \in Hires : SwitchedOff(h) => unanswered \cup refunded # told]_vars
=================================================================================
