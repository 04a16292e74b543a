----------------------------- MODULE SessionAuth -----------------------------
(***************************************************************************)
(* Wallet challenges and sessions: /api/basedhuman.mcp/challenge,          *)
(* lib/auth/wallet-challenge.ts, lib/auth/session.ts, /api/auth/session.   *)
(* A wallet proves itself once, over a challenge that lives a minute, and  *)
(* is given a session whose expiry slides while it is used.  Each handler  *)
(* is split at its awaits; two tables are all that outlives a call.        *)
(*                                                                         *)
(* A token stands for its hash, and a signature for the wallet that made   *)
(* it: verifyWalletSignature accepts it for that wallet only.              *)
(***************************************************************************)
EXTENDS Naturals, FiniteSets

CONSTANTS
    Wallets,
    Nonces,            \* random, so each is issued once
    Tokens,            \* likewise, each minted once
    SignIns,           \* concurrent POST /api/auth/session
    Requests,          \* concurrent requests that carry a token
    CHALLENGE_TTL,     \* CHALLENGE_TTL_S, in ticks
    SESSION_TTL,       \* SESSION_TTL_SECONDS, in ticks
    SLIDE_THROTTLE,    \* SLIDE_THROTTLE_MS, in ticks
    MaxTransit,        \* how long a statement is under way at most
    MaxClock           \* where the model's clock stops

AuthAssumption ==
    /\ CHALLENGE_TTL \in Nat /\ SESSION_TTL \in Nat /\ SLIDE_THROTTLE \in Nat
    /\ MaxTransit \in Nat /\ MaxClock \in Nat
    /\ SLIDE_THROTTLE < SESSION_TTL

VARIABLES
    clock,
    challenge,    \* mcp_challenges
    session,      \* sessions
    signIn,       \* the calls that prove a wallet
    request,      \* the calls that present a token
    seen,         \* history: when a token was last accepted
    gone,         \* history: tokens a completed sign-out was to end
    spent         \* history: nonces whose row has been marked used

own  == << challenge, session, signIn, request, seen, gone, spent >>
vars == << clock, own >>

(* again is whether the nonce had been spent when its row was read.        *)
SignIn    == [ pc : {"verify", "consume", "mint"}, nonce : Nonces, wallet : Wallets,
               signer : Wallets, created : Nat, at : Nat, again : BOOLEAN ]

(* The sessions a request is to end: none, one by its id, or all there are. *)
Scope     == {{}, Tokens} \cup { {t} : t \in Tokens }

(* at is when the row was read, late whether that was after a sign-out,    *)
(* early whether a session was found expired although lately used.         *)
Pending   == [ pc : {"slide", "revoke"}, token : Tokens, scope : Scope,
               at : Nat, late : BOOLEAN ]
Answered  == [ pc : {"accepted", "refused"}, late : BOOLEAN, early : BOOLEAN ]
None      == [ none |-> TRUE ]
Purged    == [ none |-> FALSE ]

Present(row) == row \notin {None, Purged}

Init ==
    /\ clock = 0
    /\ challenge = [n \in Nonces |-> None]
    /\ session = [t \in Tokens |-> None]
    /\ signIn = [c \in SignIns |-> None]
    /\ request = [r \in Requests |-> None]
    /\ seen = [t \in Tokens |-> 0]
    /\ gone = {}
    /\ spent = {}
-----------------------------------------------------------------------------
(* POST /api/basedhuman.mcp/challenge.  The purge is best effort.          *)

issue(n, w) ==
    /\ \A m \in Nonces : challenge[m] = None <=> m >= n
    /\ \E purged \in {{}, { m \in Nonces : Present(challenge[m]) /\ challenge[m].expires < clock }} :
         challenge' = [m \in Nonces |->
            CASE m = n -> [ wallet |-> w, created |-> clock,
                            expires |-> clock + CHALLENGE_TTL, used |-> FALSE ]
              [] m \in purged -> Purged
              [] OTHER -> challenge[m]]
    /\ UNCHANGED << clock, session, signIn, request, seen, gone, spent >>
-----------------------------------------------------------------------------
(* POST /api/auth/session. *)

(* Mutant: a challenge is read without looking at its expiry. *)
readChallenge_AnyAge(c, n, w, signer) ==
    /\ signIn[c] = None
    /\ Present(challenge[n]) /\ ~ challenge[n].used
    /\ challenge[n].wallet = w
    /\ signIn' = [signIn EXCEPT ![c] =
         [ pc |-> "verify", nonce |-> n, wallet |-> w, signer |-> signer,
           created |-> challenge[n].created, at |-> clock, again |-> n \in spent ]]
    /\ UNCHANGED << clock, challenge, session, request, seen, gone, spent >>

(* Mutant: a challenge is read without looking at used_at. *)
readChallenge_Used(c, n, w, signer) ==
    /\ signIn[c] = None
    /\ Present(challenge[n]) /\ challenge[n].expires >= clock
    /\ challenge[n].wallet = w
    /\ signIn' = [signIn EXCEPT ![c] =
         [ pc |-> "verify", nonce |-> n, wallet |-> w, signer |-> signer,
           created |-> challenge[n].created, at |-> clock, again |-> n \in spent ]]
    /\ UNCHANGED << clock, challenge, session, request, seen, gone, spent >>

(* The select and its four refusals; a refused call leaves nothing behind. *)
readChallenge(c, n, w, signer) ==
    /\ signIn[c] = None
    /\ Present(challenge[n]) /\ ~ challenge[n].used
    /\ challenge[n].expires >= clock
    /\ challenge[n].wallet = w
    /\ signIn' = [signIn EXCEPT ![c] =
         [ pc |-> "verify", nonce |-> n, wallet |-> w, signer |-> signer,
           created |-> challenge[n].created, at |-> clock, again |-> n \in spent ]]
    /\ UNCHANGED << clock, challenge, session, request, seen, gone, spent >>

(* verifyWalletSignature asks a node; a wrong signature or a fault is 401. *)
verifySignature(c) ==
    /\ Present(signIn[c]) /\ signIn[c].pc = "verify"
    /\ \/ /\ signIn[c].signer = signIn[c].wallet
          /\ signIn' = [signIn EXCEPT ![c].pc = "consume"]
       \/ signIn' = [signIn EXCEPT ![c] = None]
    /\ UNCHANGED << clock, challenge, session, request, seen, gone, spent >>

(* The update names the nonce only, and its error is not looked at. *)
consumeChallenge(c) ==
    /\ Present(signIn[c]) /\ signIn[c].pc = "consume"
    /\ LET n == signIn[c].nonce
       IN  \/ /\ Present(challenge[n])
              /\ challenge' = [challenge EXCEPT ![n].used = TRUE]
              /\ spent' = spent \cup {n}
           \/ UNCHANGED << challenge, spent >>
    /\ signIn' = [signIn EXCEPT ![c].pc = "mint"]
    /\ UNCHANGED << clock, session, request, seen, gone >>

mintSession(c, t) ==
    /\ Present(signIn[c]) /\ signIn[c].pc = "mint"
    /\ \A u \in Tokens : session[u] = None <=> u >= t
    /\ session' = [session EXCEPT ![t] =
         [ wallet |-> signIn[c].wallet, expires |-> clock + SESSION_TTL,
           lastUsed |-> clock, revoked |-> FALSE ]]
    /\ seen' = [seen EXCEPT ![t] = clock]
    /\ signIn' = [signIn EXCEPT ![c] = None]
    /\ UNCHANGED << clock, challenge, request, gone, spent >>
-----------------------------------------------------------------------------
(* verifySessionToken, for any route and for the two kinds of sign-out.    *)

Live(row) == Present(row) /\ ~ row.revoked /\ row.expires > clock

Used(t, at) == [seen EXCEPT ![t] = IF @ > at THEN @ ELSE at]

Answer(r, pc) ==
    request' = [request EXCEPT ![r] = [ pc |-> pc, late |-> @.late, early |-> FALSE ]]

(* A verified request acts, or goes on to the statement that revokes.      *)
Proceed(r) ==
    IF request[r].scope = {} THEN Answer(r, "accepted")
    ELSE request' = [request EXCEPT ![r].pc = "revoke"]

(* The select.  A session that has not been used for a while is slid by a  *)
(* statement of its own, whose times are taken now.                        *)
verifySessionToken(r, t, scope) ==
    /\ request[r] = None
    /\ LET row  == session[t]
           late == t \in gone
           pend == [ pc |-> "slide", token |-> t, scope |-> scope,
                     at |-> clock, late |-> late ]
       IN  IF ~ Live(row)
           THEN /\ request' = [request EXCEPT ![r] =
                     [ pc |-> "refused", late |-> late,
                       early |-> /\ Present(row) /\ ~ row.revoked
                                 /\ clock + SLIDE_THROTTLE + MaxTransit < seen[t] + SESSION_TTL ]]
                /\ UNCHANGED seen
           ELSE IF clock - row.lastUsed > SLIDE_THROTTLE
           THEN request' = [request EXCEPT ![r] = pend] /\ UNCHANGED seen
           ELSE /\ request' = [request EXCEPT ![r] =
                     IF scope = {} THEN [ pc |-> "accepted", late |-> late, early |-> FALSE ]
                     ELSE [pend EXCEPT !.pc = "revoke"]]
                /\ seen' = Used(t, clock)
    /\ UNCHANGED << clock, challenge, session, signIn, gone, spent >>

(* Mutant: the row is written back as it was read. *)
slideSession_WholeRow(r) ==
    /\ Present(request[r]) /\ request[r].pc = "slide"
    /\ LET t == request[r].token
       IN  \/ /\ session' = [session EXCEPT ![t].lastUsed = request[r].at,
                                            ![t].expires = request[r].at + SESSION_TTL,
                                            ![t].revoked = FALSE]
              /\ seen' = Used(t, request[r].at)
              /\ Proceed(r)
           \/ UNCHANGED << session, seen >> /\ Answer(r, "refused")
    /\ UNCHANGED << clock, challenge, signIn, gone, spent >>

(* Mutant: a session in use is let through, and its expiry is not slid. *)
slideSession_NotWritten(r) ==
    /\ Present(request[r]) /\ request[r].pc = "slide"
    /\ \/ seen' = Used(request[r].token, request[r].at) /\ Proceed(r)
       \/ UNCHANGED seen /\ Answer(r, "refused")
    /\ UNCHANGED << clock, challenge, session, signIn, gone, spent >>

(* The update, by id alone; when it fails the request has no session.      *)
slideSession(r) ==
    /\ Present(request[r]) /\ request[r].pc = "slide"
    /\ LET t == request[r].token
       IN  \/ /\ session' = [session EXCEPT ![t].lastUsed = request[r].at,
                                            ![t].expires = request[r].at + SESSION_TTL]
              /\ seen' = Used(t, request[r].at)
              /\ Proceed(r)
           \/ UNCHANGED << session, seen >> /\ Answer(r, "refused")
    /\ UNCHANGED << clock, challenge, signIn, gone, spent >>

MayRevoke(r, t) ==
    /\ Present(session[t])
    /\ session[t].wallet = session[request[r].token].wallet
    /\ t \in request[r].scope

(* DELETE: every session of the caller's wallet, or the one it names; the  *)
(* id of another wallet's session is not found.                            *)
revokeSessions(r) ==
    /\ Present(request[r]) /\ request[r].pc = "revoke"
    /\ LET mine == { t \in Tokens : MayRevoke(r, t) }
       IN  /\ session' = [t \in Tokens |->
                IF t \in mine THEN [session[t] EXCEPT !.revoked = TRUE] ELSE session[t]]
           /\ gone' = gone \cup mine
    /\ Answer(r, "accepted")
    /\ UNCHANGED << clock, challenge, signIn, seen, spent >>

(* A call that has been answered makes room for the next. *)
answered(r) ==
    /\ Present(request[r]) /\ request[r].pc \in {"accepted", "refused"}
    /\ request' = [request EXCEPT ![r] = None]
    /\ UNCHANGED << clock, challenge, session, signIn, seen, gone, spent >>

Tick ==
    /\ clock < MaxClock
    /\ \A r \in Requests : request[r] \in Pending => clock < request[r].at + MaxTransit
    /\ clock' = clock + 1
    /\ UNCHANGED own

SignInStep ==
    \/ \E c \in SignIns, n \in Nonces, w, s \in Wallets : readChallenge(c, n, w, s)
    \/ \E c \in SignIns : verifySignature(c) \/ consumeChallenge(c)
    \/ \E c \in SignIns, t \in Tokens : mintSession(c, t)

RequestStep ==
    \/ \E r \in Requests, t \in Tokens, scope \in Scope : verifySessionToken(r, t, scope)
    \/ \E r \in Requests : slideSession(r) \/ revokeSessions(r) \/ answered(r)

Next ==
    \/ \E n \in Nonces, w \in Wallets : issue(n, w)
    \/ SignInStep
    \/ RequestStep
    \/ Tick

Spec == Init /\ [][Next]_vars
-----------------------------------------------------------------------------
(* Once a sign-out has been committed, no request that reads the session   *)
(* afterwards is accepted, whatever slides were under way.                 *)
SignOutHolds ==
    \A r \in Requests : Present(request[r]) /\ request[r].late => request[r].pc = "refused"

(* A session is given to a wallet that signed a challenge issued for it,   *)
(* which the call read within its lifetime, and before the nonce had been  *)
(* spent.  So one challenge gives a second session only to a call that had *)
(* read it already, or when the update that spends it failed, which        *)
(* nobody looks at (wallet-challenge.ts:82-85).                            *)
SessionProved ==
    \A t \in Tokens : session[t] = None /\ session'[t] # None =>
      \E c \in SignIns :
        /\ signIn[c] \in SignIn /\ signIn[c].signer = session'[t].wallet
        /\ signIn[c].at <= signIn[c].created + CHALLENGE_TTL
        /\ ~ signIn[c].again
        /\ LET row == challenge[signIn[c].nonce]
           IN  Present(row) => row.wallet = session'[t].wallet

(* A session that is used more often than its lifetime, less the throttle, *)
(* is never found expired: a late slide may not pull its expiry back that  *)
(* far, although it is written over newer ones.                            *)
UseKeepsAlive ==
    \A r \in Requests : request[r] \in Answered => ~ request[r].early
=============================================================================
