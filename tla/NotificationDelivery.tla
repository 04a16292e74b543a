------------------------- MODULE NotificationDelivery -------------------------
(***************************************************************************)
(* lib/notifications: one notification, from the lifecycle's call          *)
(* (dispatch.ts) over the worker's channels (delivery.ts), each with its   *)
(* own series of attempts (retry.ts, http.ts, webhook-target.ts, channels/)*)
(* against an endpoint that may answer, refuse, answer late or not at all. *)
(* An answer is its classification; addresses and payloads are left out.   *)
(***************************************************************************)
EXTENDS Naturals, Sequences, FiniteSets

CONSTANTS
    Channels,
    maxAttempts      \* RetryPolicy.maxAttempts

PolicyAssumption == maxAttempts \in Nat \ {0}

VARIABLES
    caller,      \* the lifecycle path that notifies
    found,       \* the channels that were loaded
    series,      \* [Channels -> the series of attempts]
    transit,     \* [Channels -> attempts whose POST is neither taken in nor lost]
    heard        \* history: [Channels -> attempts whose POST was taken in]

vars == << caller, found, series, transit, heard >>

Answers  == {"ok", "transient", "permanent"}
Outcomes == {"delivered", "failed"}
Series   == [ pc : {"idle", "start", "posting", "backoff", "done"}, tries : Seq(Answers),
              outcome : Outcomes \cup {"none"} ]
Fresh    == [ pc |-> "idle", tries |-> << >>, outcome |-> "none" ]

TypeOK ==
    /\ caller \in {"lookup", "load", "waiting", "goes on"}
    /\ found \subseteq Channels
    /\ series \in [Channels -> Series]
    /\ transit \in [Channels -> SUBSET Nat] /\ heard \in [Channels -> SUBSET Nat]

Init ==
    /\ caller = "lookup" /\ found = {}
    /\ series = [c \in Channels |-> Fresh]
    /\ transit = [c \in Channels |-> {}] /\ heard = [c \in Channels |-> {}]
-----------------------------------------------------------------------------
(* notifyContractor: a worker who is not found, or a fault, is no channel. *)

lookupContractor ==
    /\ caller = "lookup"
    /\ caller' \in {"load", "goes on"}
    /\ UNCHANGED << found, series, transit, heard >>

loadChannels ==
    /\ caller = "load"
    /\ \E f \in SUBSET Channels :
         /\ found' = f
         /\ caller' = IF f = {} THEN "goes on" ELSE "waiting"
         /\ series' = [c \in Channels |-> IF c \in f THEN [Fresh EXCEPT !.pc = "start"] ELSE Fresh]
    /\ UNCHANGED << transit, heard >>

(* Promise.all over the series, which never reject. *)
dispatchReturns ==
    /\ caller = "waiting"
    /\ \A c \in found : series[c].pc = "done"
    /\ caller' = "goes on"
    /\ UNCHANGED << found, series, transit, heard >>
-----------------------------------------------------------------------------
(* One channel. *)

Done(s, outcome) == [s EXCEPT !.pc = "done", !.outcome = outcome]

(* The adapter has nothing to send with (Telegram), or throws.             *)
unconfigured(c) ==
    /\ series[c].pc = "start"
    /\ series' = [series EXCEPT ![c] = Done(@, "failed")]
    /\ UNCHANGED << caller, found, transit, heard >>

Attempt(c) == Len(series[c].tries) + 1

post(c) ==
    /\ series[c].pc \in {"start", "backoff"}
    /\ series' = [series EXCEPT ![c].pc = "posting"]
    /\ transit' = [transit EXCEPT ![c] = @ \cup {Attempt(c)}]
    /\ UNCHANGED << caller, found, heard >>

(* Mutant: whatever failed is tried again. *)
afterAttempt_AnyFailure(s, answer) ==
    LET next == [s EXCEPT !.tries = Append(@, answer)]
    IN  IF answer = "ok" THEN Done(next, "delivered")
        ELSE IF Len(next.tries) < maxAttempts THEN [next EXCEPT !.pc = "backoff"]
        ELSE Done(next, "failed")

(* Mutant: the number of attempts is not looked at. *)
afterAttempt_Unbounded(s, answer) ==
    LET next == [s EXCEPT !.tries = Append(SelectSeq(@, LAMBDA a : a # answer), answer)]
    IN  IF answer = "ok" THEN Done(next, "delivered")
        ELSE IF answer = "transient" THEN [next EXCEPT !.pc = "backoff"]
        ELSE Done(next, "failed")

(* withRetries, and finishResult when it is over. *)
afterAttempt(s, answer) ==
    LET next == [s EXCEPT !.tries = Append(@, answer)]
    IN  IF answer = "ok" THEN Done(next, "delivered")
        ELSE IF answer = "transient" /\ Len(next.tries) < maxAttempts
        THEN [next EXCEPT !.pc = "backoff"]
        ELSE Done(next, "failed")

(* The endpoint takes in the POST, now or after the attempt was given up.  *)
endpointHears(c, n) ==
    /\ n \in transit[c]
    /\ transit' = [transit EXCEPT ![c] = @ \ {n}]
    /\ heard' = [heard EXCEPT ![c] = @ \cup {n}]
    /\ UNCHANGED << caller, found, series >>

endpointMisses(c, n) ==
    /\ n \in transit[c]
    /\ transit' = [transit EXCEPT ![c] = @ \ {n}]
    /\ UNCHANGED << caller, found, series, heard >>

(* Only the answer to this attempt's own POST settles it: 2xx; 429 and 5xx;*)
(* all else, redirects and refused targets included.                       *)
classifyStatus(c) ==
    /\ series[c].pc = "posting"
    /\ \E answer \in Answers :
         /\ answer = "ok" => Attempt(c) \in heard[c]
         /\ series' = [series EXCEPT ![c] = afterAttempt(@, answer)]
    /\ UNCHANGED << caller, found, transit, heard >>

(* The timer, or a network fault, whether or not the POST has arrived.     *)
timeout(c) ==
    /\ series[c].pc = "posting"
    /\ series' = [series EXCEPT ![c] = afterAttempt(@, "transient")]
    /\ UNCHANGED << caller, found, transit, heard >>

Next ==
    \/ lookupContractor \/ loadChannels \/ dispatchReturns
    \/ \E c \in Channels :
         \/ unconfigured(c) \/ post(c) \/ classifyStatus(c) \/ timeout(c)
         \/ \E n \in 1 .. maxAttempts : endpointHears(c, n) \/ endpointMisses(c, n)

(* Timers fire and the event loop runs; of the endpoints nothing is asked. *)
Progress == \/ lookupContractor \/ loadChannels \/ dispatchReturns
            \/ \E c \in Channels : post(c) \/ timeout(c)

Spec == Init /\ [][Next]_vars /\ WF_vars(Progress)
-----------------------------------------------------------------------------
(* What the caller is told is true: one outcome per channel that was       *)
(* loaded, "delivered" only when the endpoint took the message in, no more *)
(* attempts than the policy has, and an attempt is repeated only after one *)
(* that may clear up; so a message arrives twice only when the answer to   *)
(* an earlier one was lost or was an error.                                *)
OutcomesAreTrue ==
    \A c \in Channels :
        /\ caller = "goes on" => (series[c].outcome # "none" <=> c \in found)
        /\ series[c].outcome = "delivered" => Len(series[c].tries) \in heard[c]
        /\ Len(series[c].tries) <= maxAttempts
        /\ \A i \in 1 .. Len(series[c].tries) - 1 : series[c].tries[i] = "transient"
        /\ heard[c] \cup transit[c] \subseteq 1 .. Attempt(c)

(* The hire, answer or settlement that notifies goes on, whatever its      *)
(* endpoints do.                                                           *)
CallerGoesOn == <>(caller = "goes on")
=============================================================================
