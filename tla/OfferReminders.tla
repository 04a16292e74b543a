----------------------------- MODULE OfferReminders -----------------------------
(***************************************************************************)
(* The hourly scan of api/cron/offer-reminders, which warns a worker that  *)
(* an offer is about to expire, over the statements of lib/db/tasks.ts.    *)
(* The scan is taken to be punctual and never to fail, which is more than  *)
(* the platform promises: what it misses, it misses by its query alone.    *)
(***************************************************************************)
EXTENDS TaskTable

CONSTANTS
    INTERVAL,                     \* the cron's period
    OFFER_REMINDER_LEAD_SECONDS,
    OfferExpiries                 \* bound: the offer_expiry_seconds agents ask for

VARIABLES
    offer_reminder_sent,  \* [TaskIds -> the nullable boolean]
    due,                  \* the scan of this hour is still to come
    scan,                 \* the candidates the running scan has yet to claim
    seen                  \* history: the offers some scan has selected

vars == << clock, rows, offer_reminder_sent, due, scan, seen >>

(* A value is "NULL", "FALSE" or "TRUE".  column <> TRUE: SQL's comparison *)
(* with NULL is not true.                                                  *)
NotTrue(v) == v = "FALSE"

(* No insert names the column, so a new row has its default, NULL.         *)
Init ==
    /\ TableInit
    /\ offer_reminder_sent = [t \in TaskIds |-> "NULL"]
    /\ due = FALSE
    /\ scan = {}
    /\ seen = {}

Candidates ==
    { t \in TaskIds :
        /\ rows[t].status = "pending"
        /\ rows[t].expiry > clock
        /\ rows[t].expiry =< clock + OFFER_REMINDER_LEAD_SECONDS
        /\ NotTrue(offer_reminder_sent[t]) }

getOffersNeedingReminder ==
    /\ due
    /\ scan' = Candidates
    /\ seen' = seen \cup Candidates
    /\ due' = FALSE
    /\ UNCHANGED << clock, rows, offer_reminder_sent >>

markOfferReminderSent(t) ==
    /\ t \in scan
    /\ scan' = scan \ {t}
    /\ offer_reminder_sent' =
         IF rows[t].status = "pending" /\ NotTrue(offer_reminder_sent[t])
         THEN [offer_reminder_sent EXCEPT ![t] = "TRUE"]
         ELSE offer_reminder_sent
    /\ UNCHANGED << clock, rows, due, seen >>

(* The offer stage of module OfferBooking, through its statements.         *)
offerStage(t) ==
    /\ \/ \E seconds \in OfferExpiries :
            createTask(t, [NoRow EXCEPT !.status = "pending",
                             !.expiry = clock + seconds, !.createdAt = clock])
       \/ acceptTask(t, TRUE)
       \/ updateTaskStatus(t, "declined", TRUE)
       \/ lapseExpiredOffers
    /\ UNCHANGED << clock, offer_reminder_sent, due, scan, seen >>

(* Time waits for a scan that is due.                                      *)
clockStep ==
    /\ ~ due /\ scan = {}
    /\ Tick
    /\ due' = (clock' % INTERVAL = 0)
    /\ UNCHANGED << rows, offer_reminder_sent, scan, seen >>

Next ==
    \/ getOffersNeedingReminder
    \/ \E t \in TaskIds : markOfferReminderSent(t) \/ offerStage(t)
    \/ clockStep

Spec == Init /\ [][Next]_vars

(* Every offer whose expiry is more than the lead away when it is created  *)
(* is seen by at least one scan inside its reminder window: none runs out  *)
(* unanswered and unseen.  (offer-reminders/route.ts, the header.)         *)
SeenByAScan ==
    \A t \in TaskIds :
        /\ rows[t].status = "pending"
        /\ rows[t].expiry > rows[t].createdAt + OFFER_REMINDER_LEAD_SECONDS
        /\ clock >= rows[t].expiry
        => t \in seen
=============================================================================
