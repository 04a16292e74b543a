---------------------------- MODULE Registration ----------------------------
(***************************************************************************)
(* api/register and api/profile over the humans table, with the sanctions  *)
(* screen of lib/sanctions.  A registration is a message the wallet signed,*)
(* good for MAX_MESSAGE_AGE_S and, by its nonce, for one request; the      *)
(* nonces are purged after PURGE_S.  Screening asks the bundled list, then *)
(* a provider that may not answer, and remembers answers for CACHE_TTL_MS. *)
(***************************************************************************)
EXTENDS Naturals, Sequences

CONSTANTS
    Wallets,
    Messages,                   \* registrations, each with a nonce of its own
    Contacts,                   \* those of them that give an email address
    Posts,                      \* concurrent requests
    Rates, Availability,        \* what a worker may set
    MAX_MESSAGE_AGE_S, PURGE_S, CACHE_TTL_MS,
    MaxTransit,                 \* a request ends within so long
    MaxClock                    \* bound

VARIABLES
    clock,
    index,       \* SANCTIONED_ADDRESS_INDEX: the wallets on the bundled list
    message,     \* [Messages -> a signed registration]
    used_nonces, \* [Messages -> when its nonce was consumed, or Never]
    humans,      \* [Wallets -> a row, or NoRow]
    channel,     \* [Wallets -> the email channel, or NoChannel]
    cache,       \* [Wallets -> a remembered screen]
    flagged,     \* [Wallets -> since when the provider lists it, or Never]
    post,        \* [Posts -> a request]
    admitted     \* history: [Messages -> for each time it registered, whether the
                 \* screen was of its time]

own  == << index, message, used_nonces, humans, channel, cache, flagged, post, admitted >>
vars == << clock, own >>

Never     == MaxClock + 1
NoRow     == [ rate_usdc |-> 0, availability |-> "none" ]
NoChannel == [ auto |-> FALSE, there |-> FALSE ]
Unknown   == [ sanctioned |-> FALSE, expiresAt |-> 0 ]
Unsigned  == [ wallet |-> "none", rate_usdc |-> 0, timestamp |-> Never ]
NoPost    == [ pc |-> "none" ]

Init ==
    /\ clock = 0
    /\ index \in SUBSET Wallets
    /\ message = [m \in Messages |-> Unsigned]
    /\ used_nonces = [m \in Messages |-> Never]
    /\ humans = [w \in Wallets |-> NoRow]
    /\ channel = [w \in Wallets |-> NoChannel]
    /\ cache = [w \in Wallets |-> Unknown]
    /\ flagged = [w \in Wallets |-> Never]
    /\ post = [p \in Posts |-> NoPost]
    /\ admitted = [m \in Messages |-> << >>]
-----------------------------------------------------------------------------
(* The worker signs; its clock is the server's.  The client may send what  *)
(* it signed any number of times.                                          *)
sign(m, w, rate) ==
    /\ message[m] = Unsigned
    /\ message' = [message EXCEPT ![m] = [ wallet |-> w, rate_usdc |-> rate, timestamp |-> clock ]]
    /\ UNCHANGED << clock, index, used_nonces, humans, channel, cache, flagged, post, admitted >>

flag(w) ==
    /\ flagged[w] = Never
    /\ flagged' = [flagged EXCEPT ![w] = clock]
    /\ UNCHANGED << clock, index, message, used_nonces, humans, channel, cache, post, admitted >>

(* A new process has an empty cache. *)
restart ==
    /\ cache' = [w \in Wallets |-> Unknown]
    /\ UNCHANGED << clock, index, message, used_nonces, humans, channel, flagged, post, admitted >>

Tick ==
    /\ clock < MaxClock
    /\ \A p \in Posts : post[p].pc # "none" => clock < post[p].began + MaxTransit
    /\ clock' = clock + 1
    /\ UNCHANGED own
-----------------------------------------------------------------------------
(* POST /api/register *)

At(p, f) == post' = [post EXCEPT ![p] = f]
Sender(p) == message[post[p].message].wallet

(* The signature is good. *)
register(p, m) ==
    /\ post[p].pc = "none" /\ message[m] # Unsigned
    /\ At(p, [ pc |-> "screen", message |-> m, began |-> clock ])
    /\ UNCHANGED << clock, index, message, used_nonces, humans, channel, cache, flagged, admitted >>

(* age is 0 .. MAX_MESSAGE_AGE_S when it is looked at. *)
Fresh(p) == clock <= message[post[p].message].timestamp + MAX_MESSAGE_AGE_S

Screened(p, sanctioned, failed) ==
    At(p, IF sanctioned \/ ~ Fresh(p) THEN NoPost
          ELSE [ pc |-> "purge", message |-> post[p].message, began |-> post[p].began,
                 timely |-> failed \/ clock < flagged[Sender(p)] + CACHE_TTL_MS ])

Remember(w, sanctioned) ==
    cache' = [cache EXCEPT ![w] = [ sanctioned |-> sanctioned, expiresAt |-> clock + CACHE_TTL_MS ]]

(* The cache, the bundled list, then the provider. *)
isWalletSanctioned(p) ==
    /\ post[p].pc = "screen"
    /\ LET w == Sender(p)
       IN  IF cache[w].expiresAt > clock
           THEN Screened(p, cache[w].sanctioned, FALSE) /\ UNCHANGED cache
           ELSE IF w \in index
           THEN Screened(p, TRUE, FALSE) /\ Remember(w, TRUE)
           ELSE At(p, [post[p] EXCEPT !.pc = "provider"]) /\ UNCHANGED cache
    /\ UNCHANGED << clock, index, message, used_nonces, humans, channel, flagged, admitted >>

(* Mutant: what could not be asked is remembered as clean. *)
screenViaProvider_Remembers(p) ==
    /\ post[p].pc = "provider"
    /\ LET w == Sender(p)
       IN  \/ Screened(p, flagged[w] <= clock, FALSE) /\ Remember(w, flagged[w] <= clock)
           \/ Screened(p, FALSE, TRUE) /\ Remember(w, FALSE)
    /\ UNCHANGED << clock, index, message, used_nonces, humans, channel, flagged, admitted >>

(* No key, no answer or one that cannot be read: the wallet passes and     *)
(* nothing is remembered.                                                  *)
screenViaProvider(p) ==
    /\ post[p].pc = "provider"
    /\ LET w == Sender(p)
       IN  \/ Screened(p, flagged[w] <= clock, FALSE) /\ Remember(w, flagged[w] <= clock)
           \/ Screened(p, FALSE, TRUE) /\ UNCHANGED cache
    /\ UNCHANGED << clock, index, message, used_nonces, humans, channel, flagged, admitted >>

(* Mutant: nonces are kept for no time. *)
purgeNonces_AtOnce(p) ==
    /\ post[p].pc = "purge"
    /\ used_nonces' = [m \in Messages |-> IF used_nonces[m] <= clock THEN Never ELSE used_nonces[m]]
    /\ At(p, [post[p] EXCEPT !.pc = "nonce"])
    /\ UNCHANGED << clock, index, message, humans, channel, cache, flagged, admitted >>

(* The best-effort clean-up, of every wallet's nonces. *)
purgeNonces(p) ==
    /\ post[p].pc = "purge"
    /\ used_nonces' = [m \in Messages |-> IF used_nonces[m] + PURGE_S < clock THEN Never ELSE used_nonces[m]]
    /\ At(p, [post[p] EXCEPT !.pc = "nonce"])
    /\ UNCHANGED << clock, index, message, humans, channel, cache, flagged, admitted >>

existingNonce(p) ==
    /\ post[p].pc = "nonce"
    /\ At(p, IF used_nonces[post[p].message] # Never THEN NoPost
             ELSE [post[p] EXCEPT !.pc = "consume"])
    /\ UNCHANGED << clock, index, message, used_nonces, humans, channel, cache, flagged, admitted >>

(* The insert, which the unique key decides between two. *)
consumeNonce(p) ==
    /\ post[p].pc = "consume"
    /\ LET m == post[p].message
       IN  IF used_nonces[m] # Never THEN At(p, NoPost) /\ UNCHANGED used_nonces
           ELSE used_nonces' = [used_nonces EXCEPT ![m] = clock] /\ At(p, [post[p] EXCEPT !.pc = "upsert"])
    /\ UNCHANGED << clock, index, message, humans, channel, cache, flagged, admitted >>

(* Whatever the row was, it is as a new one now. *)
upsertHuman(p) ==
    /\ post[p].pc = "upsert"
    /\ LET m == post[p].message
       IN  /\ humans' = [humans EXCEPT ![Sender(p)] =
                [ rate_usdc |-> message[m].rate_usdc, availability |-> "available" ]]
           /\ admitted' = [admitted EXCEPT ![m] = Append(@, post[p].timely)]
           /\ At(p, IF m \in Contacts THEN [ pc |-> "channel", message |-> m, began |-> post[p].began ]
                    ELSE NoPost)
    /\ UNCHANGED << clock, index, message, used_nonces, channel, cache, flagged >>

(* registerNotificationChannel, an upsert of the email channel. *)
contactEmail(p) ==
    /\ post[p].pc = "channel"
    /\ channel' = [channel EXCEPT ![Sender(p)] = [ there |-> TRUE, auto |-> FALSE ]]
    /\ At(p, NoPost)
    /\ UNCHANGED << clock, index, message, used_nonces, humans, cache, flagged, admitted >>

(* A call fails, or the function ends: what is written stays. *)
registerFails(p) ==
    /\ post[p].pc # "none"
    /\ At(p, NoPost)
    /\ UNCHANGED << clock, index, message, used_nonces, humans, channel, cache, flagged, admitted >>
-----------------------------------------------------------------------------
(* PATCH /api/profile, by session or by a signed message, which no nonce   *)
(* stops from being applied again: one update, of the fields it gives, of a *)
(* row that is there.                                                      *)
PATCH(w, rate, availability) ==
    /\ humans[w] # NoRow
    /\ rate \in Rates \cup {humans[w].rate_usdc}
    /\ availability \in Availability \cup {humans[w].availability}
    /\ humans' = [humans EXCEPT ![w] = [ rate_usdc |-> rate, availability |-> availability ]]
    /\ UNCHANGED << clock, index, message, used_nonces, channel, cache, flagged, post, admitted >>

Next ==
    \/ \E m \in Messages, w \in Wallets, r \in Rates : sign(m, w, r)
    \/ \E w \in Wallets : flag(w)
    \/ restart \/ Tick
    \/ \E p \in Posts, m \in Messages : register(p, m)
    \/ \E p \in Posts : \/ isWalletSanctioned(p) \/ screenViaProvider(p) \/ purgeNonces(p)
                        \/ existingNonce(p) \/ consumeNonce(p) \/ upsertHuman(p)
                        \/ contactEmail(p) \/ registerFails(p)
    \/ \E w \in Wallets : \E r \in Rates \cup {humans[w].rate_usdc},
                           a \in Availability \cup {humans[w].availability} : PATCH(w, r, a)

Spec == Init /\ [][Next]_vars
-----------------------------------------------------------------------------
(* A message registers once, whoever else holds a copy of it and whatever  *)
(* is purged meanwhile.  No wallet of the bundled list is ever in the      *)
(* whitepages; one the provider lists can only enter while an answer from  *)
(* before is remembered, or in a request that could not ask.               *)
AdmissionsAreEarned ==
    /\ \A m \in Messages : Len(admitted[m]) <= 1
    /\ \A m \in Messages : \A i \in 1 .. Len(admitted[m]) : admitted[m][i]
    /\ \A w \in index : humans[w] = NoRow
=============================================================================
