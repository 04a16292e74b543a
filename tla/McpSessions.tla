----------------------------- MODULE McpSessions -----------------------------
(***************************************************************************)
(* The MCP endpoint's registry of protocol sessions, in the memory of one  *)
(* instance (/api/basedhuman.mcp), the counter it shares with the health   *)
(* check (lib/mcp/session-count.ts), and /api/health.  Opening a session   *)
(* passes several awaits between the capacity check and the entry in the   *)
(* registry, and any other request may purge, close or open in between.    *)
(***************************************************************************)
EXTENDS Naturals, FiniteSets

CONSTANTS
    Ids,                   \* mcp-session-id values, random, used once
    Opens,                 \* concurrent POSTs that initialise
    SESSION_TIMEOUT_MS,    \* in ticks
    MAX_SESSIONS,
    MaxClock

McpAssumption ==
    /\ MAX_SESSIONS \in Nat \ {0} /\ SESSION_TIMEOUT_MS \in Nat /\ MaxClock \in Nat

VARIABLES
    clock,
    sessions,     \* [Ids -> 0, or 1 + lastActivityAt]
    count,        \* session-count.ts: what the health check reports
    open,         \* [Opens -> {"idle", "verify", "connect", "handle"}]
    closing,      \* ids whose transport is handling a DELETE
    used,         \* history: ids ever given out
    health        \* the last answer of /api/health

own  == << sessions, count, open, closing, used, health >>
vars == << clock, own >>

Registered(s) == { i \in Ids : s[i] > 0 }

TypeOK ==
    /\ clock \in Nat /\ sessions \in [Ids -> Nat] /\ count \in Nat
    /\ open \in [Opens -> {"idle", "verify", "connect", "handle"}]
    /\ closing \subseteq Ids /\ Registered(sessions) \subseteq used
    /\ health \in [ ok : BOOLEAN, count : Nat, size : Nat ]

Init ==
    /\ clock = 0
    /\ sessions = [i \in Ids |-> 0] /\ count = 0
    /\ open = [c \in Opens |-> "idle"]
    /\ closing = {} /\ used = {}
    /\ health = [ ok |-> FALSE, count |-> 0, size |-> 0 ]
-----------------------------------------------------------------------------
Idle(i) == clock - (sessions[i] - 1)

(* The registry as every request finds it: idle sessions dropped. *)
purgeExpiredSessions ==
    [i \in Ids |-> IF sessions[i] > 0 /\ Idle(i) > SESSION_TIMEOUT_MS THEN 0 ELSE sessions[i]]

(* A request for a session: handled, or 404. *)
existing(i) ==
    LET purged == purgeExpiredSessions
    IN  /\ sessions' = IF purged[i] > 0 THEN [purged EXCEPT ![i] = 1 + clock] ELSE purged
        /\ count' = Cardinality(Registered(sessions'))
        /\ UNCHANGED << clock, open, used, health >>

post(i) == existing(i) /\ UNCHANGED closing

delete(i) ==
    /\ existing(i)
    /\ closing' = IF sessions'[i] > 0 THEN closing \cup {i} ELSE closing

(* onsessionclosed, when the transport has handled the DELETE. *)
sessionClosed(i) ==
    /\ i \in closing
    /\ sessions' = [sessions EXCEPT ![i] = 0]
    /\ count' = Cardinality(Registered(sessions'))
    /\ closing' = closing \ {i}
    /\ UNCHANGED << clock, open, used, health >>

(* Mutant: capacity is not checked. *)
initialize_NoCap(c) ==
    /\ open[c] = "idle"
    /\ sessions' = purgeExpiredSessions
    /\ count' = Cardinality(Registered(sessions'))
    /\ \E next \in {"verify", "connect"} : open' = [open EXCEPT ![c] = next]
    /\ UNCHANGED << clock, closing, used, health >>

(* POST of an initialize request: at capacity 503; then the signature, if  *)
(* one is sent, else straight on.                                          *)
initialize(c) ==
    /\ open[c] = "idle"
    /\ sessions' = purgeExpiredSessions
    /\ count' = Cardinality(Registered(sessions'))
    /\ IF count' >= MAX_SESSIONS THEN UNCHANGED open
       ELSE \E next \in {"verify", "connect"} : open' = [open EXCEPT ![c] = next]
    /\ UNCHANGED << clock, closing, used, health >>

(* verifyChallengeSignature answers, or 401. *)
verified(c) ==
    /\ open[c] = "verify"
    /\ \E next \in {"connect", "idle"} : open' = [open EXCEPT ![c] = next]
    /\ UNCHANGED << clock, sessions, count, closing, used, health >>

(* server.connect succeeds, or 500. *)
connected(c) ==
    /\ open[c] = "connect"
    /\ \E next \in {"handle", "idle"} : open' = [open EXCEPT ![c] = next]
    /\ UNCHANGED << clock, sessions, count, closing, used, health >>

(* onsessioninitialized; or the transport refuses the request itself. *)
sessionInitialized(c, i) ==
    /\ open[c] = "handle"
    /\ \A j \in Ids : j \in used <=> j < i
    /\ \/ /\ sessions' = [sessions EXCEPT ![i] = 1 + clock]
          /\ count' = Cardinality(Registered(sessions'))
          /\ used' = used \cup {i}
       \/ UNCHANGED << sessions, count, used >>
    /\ open' = [open EXCEPT ![c] = "idle"]
    /\ UNCHANGED << clock, closing, health >>

(* /api/health: the database, the escrow read, and the counter. *)
healthCheck(db, escrow) ==
    /\ health' = [ ok |-> db /\ escrow, count |-> count,
                   size |-> Cardinality(Registered(sessions)) ]
    /\ UNCHANGED << clock, sessions, count, open, closing, used >>

Tick ==
    /\ clock < MaxClock
    /\ clock' = clock + 1
    /\ UNCHANGED own

Next ==
    \/ \E i \in Ids : post(i) \/ delete(i) \/ sessionClosed(i)
    \/ \E c \in Opens : initialize(c) \/ verified(c) \/ connected(c)
    \/ \E c \in Opens, i \in Ids : sessionInitialized(c, i)
    \/ \E db, escrow \in BOOLEAN : healthCheck(db, escrow)
    \/ Tick

Spec == Init /\ [][Next]_vars
-----------------------------------------------------------------------------
Opening == { c \in Opens : open[c] # "idle" }

(* The capacity check is made several awaits before the entry: the cap can *)
(* be passed, but only by the calls that were under way together, and the  *)
(* health check reports the size there is.                                 *)
CapacityBounded ==
    /\ Cardinality(Registered(sessions)) + Cardinality(Opening)
         <= MAX_SESSIONS + Cardinality(Opens) - 1
    /\ count = Cardinality(Registered(sessions))
    /\ health.count = health.size
=============================================================================
