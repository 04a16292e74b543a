------------------------------ MODULE RateLimit ------------------------------
(***************************************************************************)
(* lib/ratelimit.ts behind middleware.ts: one limiter, with its counters   *)
(* in the instance's memory or in Upstash Redis.  The memory's window is   *)
(* fixed: it starts at a client's first request and ends for the next one  *)
(* after it.  The Redis counter lives for a window from its last increment,*)
(* as EXPIRE is sent with every INCR.  When Redis cannot be reached the    *)
(* request is let through.                                                 *)
(***************************************************************************)
EXTENDS Naturals, Functions

CONSTANTS
    Backend,        \* "memory" or "redis"
    Clients,        \* IPs; or wallets, for taskCreationRateLimiter
    maxRequests,
    windowMs,       \* in ticks, of a second
    MaxPerTick,     \* bound: requests of one client let through in a tick
    MaxCount,       \* bound: where the model stops counting refusals
    MaxClock

LimitAssumption ==
    /\ Backend \in {"memory", "redis"}
    /\ maxRequests \in Nat \ {0} /\ windowMs \in Nat \ {0}

VARIABLES
    clock,
    entry,       \* [Clients -> None or [count, windowStart] or [count, expires]]
    reply,       \* [Clients -> the last answer, and when it was given]
    passed       \* history: [Clients -> [ticks -> requests let through]]

own  == << entry, reply, passed >>
vars == << clock, own >>

Ticks == 0 .. MaxClock
None  == [ count |-> 0, since |-> 0 ]

Init ==
    /\ clock = 0
    /\ entry = [c \in Clients |-> None]
    /\ reply = [c \in Clients |-> [ success |-> TRUE, retryAfterS |-> 0, at |-> 0 ]]
    /\ passed = [c \in Clients |-> [t \in Ticks |-> 0]]
-----------------------------------------------------------------------------
Admit(c, success, retry) ==
    /\ reply' = [reply EXCEPT ![c] = [ success |-> success, retryAfterS |-> retry, at |-> clock ]]
    /\ passed' = IF success THEN [passed EXCEPT ![c][clock] = @ + 1] ELSE passed

(* Mutant: the window starts anew with every request that is let through. *)
limitInMemory_Restart(c) ==
    LET e == entry[c]
    IN  IF e.count = 0 \/ clock - e.since > windowMs
        THEN /\ entry' = [entry EXCEPT ![c] = [ count |-> 1, since |-> clock ]]
             /\ Admit(c, TRUE, 0)
        ELSE /\ entry' = [entry EXCEPT ![c].count = @ + 1, ![c].since = clock]
             /\ IF e.count + 1 > maxRequests
                THEN Admit(c, FALSE, e.since + windowMs - clock)
                ELSE Admit(c, TRUE, 0)

(* Mutant: the count is compared before this request is in it. *)
limitInMemory_Late(c) ==
    LET e == entry[c]
    IN  IF e.count = 0 \/ clock - e.since > windowMs
        THEN /\ entry' = [entry EXCEPT ![c] = [ count |-> 1, since |-> clock ]]
             /\ Admit(c, TRUE, 0)
        ELSE /\ entry' = [entry EXCEPT ![c].count = @ + 1]
             /\ IF e.count > maxRequests
                THEN Admit(c, FALSE, e.since + windowMs - clock)
                ELSE Admit(c, TRUE, 0)

(* since is windowStart. *)
limitInMemory(c) ==
    LET e == entry[c]
    IN  IF e.count = 0 \/ clock - e.since > windowMs
        THEN /\ entry' = [entry EXCEPT ![c] = [ count |-> 1, since |-> clock ]]
             /\ Admit(c, TRUE, 0)
        ELSE /\ entry' = [entry EXCEPT ![c].count = @ + 1]
             /\ IF e.count + 1 > maxRequests
                THEN Admit(c, FALSE, e.since + windowMs - clock)
                ELSE Admit(c, TRUE, 0)

(* since is when the key was last set to expire from. *)
limitUpstash(c) ==
    LET e    == entry[c]
        live == e.count > 0 /\ clock < e.since + windowMs
        n    == IF live THEN e.count + 1 ELSE 1
    IN  /\ entry' = [entry EXCEPT ![c] = [ count |-> n, since |-> clock ]]
        /\ IF n > maxRequests THEN Admit(c, FALSE, windowMs) ELSE Admit(c, TRUE, 0)

(* The pipeline fails, on its way there or on its way back. *)
upstashFails(c) ==
    /\ \/ UNCHANGED entry
       \/ LET e == entry[c]
              n == IF e.count > 0 /\ clock < e.since + windowMs THEN e.count + 1 ELSE 1
          IN  entry' = [entry EXCEPT ![c] = [ count |-> n, since |-> clock ]]
    /\ Admit(c, TRUE, 0)

InBounds(c) ==
    /\ passed[c][clock] < MaxPerTick
    /\ entry[c].count < MaxCount \/ clock - entry[c].since > windowMs

(* One request that the middleware hands to the limiter. *)
limit(c) ==
    /\ InBounds(c)
    /\ \/ Backend = "memory" /\ limitInMemory(c)
       \/ Backend = "redis"  /\ limitUpstash(c)
    /\ UNCHANGED clock

fails(c) ==
    /\ InBounds(c)
    /\ Backend = "redis" /\ upstashFails(c)
    /\ UNCHANGED clock

Tick ==
    /\ clock < MaxClock
    /\ clock' = clock + 1
    /\ UNCHANGED own

Next == (\E c \in Clients : limit(c) \/ fails(c)) \/ Tick

Spec == Init /\ [][Next]_vars
-----------------------------------------------------------------------------
Passed(c, from, to) ==
    SumFunctionOnSet(passed[c], { t \in Ticks : from <= t /\ t <= to })

(* In memory no window lets through more than the limit.  The windows are  *)
(* fixed and not sliding, as the header of ratelimit.ts has it: a span as  *)
(* long as one can meet the end of one window and the whole of the next,   *)
(* and twice the limit is all that holds of it.  A client that was refused *)
(* and stays away for longer than Retry-After said is let through again.   *)
MemoryWindow ==
    \A c \in Clients :
      /\ Passed(c, entry[c].since, entry[c].since + windowMs) <= maxRequests
      /\ \A t \in Ticks : Passed(c, t, t + windowMs) <= 2 * maxRequests
      /\ ~ reply[c].success /\ clock > reply[c].at + reply[c].retryAfterS
           => clock - entry[c].since > windowMs
=============================================================================
