---------------------------- MODULE CallersProofs ----------------------------
(***************************************************************************)
(* Those who call: signing in and out, the registry of protocol sessions,  *)
(* the limiter, registration and the page they act from, for every number  *)
(* of wallets, sessions, clients and calls under way, every lifetime,      *)
(* throttle and cap.                                                       *)
(*                                                                         *)
(* The two facts sign-in and sign-out rest on: a row that a sign-out has   *)
(* revoked stays revoked, whatever slides are written over it; and a       *)
(* challenge, as long as its row is there, is of the wallet it was issued  *)
(* for, and stays spent once it is.                                        *)
(***************************************************************************)
EXTENDS SessionAuth, InductionTheorems, Sequences

CONSTANTS
    Ids, Opens, SESSION_TIMEOUT_MS, MAX_SESSIONS, McpEnd,            \* McpSessions
    Backend, Clients, maxRequests, windowMs,                         \* RateLimit
    MaxPerTick, MaxCount, LimiterEnd,
    Registrants, Messages, Contacts, Posts, Rates, Availability,     \* Registration
    MAX_MESSAGE_AGE_S, PURGE_S, CACHE_TTL_MS, PostTransit, RegisterEnd,
    Bundles, Passing, DELIVERY, REVIEW, ARBITRATION, VERDICT_TTL,    \* Dashboard
    MaxSkew, MaxPending, PageEnd

VARIABLES
    sessions, count, open, closing, used, health,                    \* McpSessions
    entry, reply, passed,                                            \* RateLimit
    index, message, used_nonces, humans, channel, cache, flagged,    \* Registration
    post, admitted,
    me, task, arbitrationClock, listed, cookie, gesture, page, view, \* Dashboard
    fetching, action, mempool, draft

Mcp      == INSTANCE McpSessions WITH MaxClock <- McpEnd
Limiter  == INSTANCE RateLimit WITH MaxClock <- LimiterEnd
Register == INSTANCE Registration WITH
    Wallets <- Registrants, MaxTransit <- PostTransit, MaxClock <- RegisterEnd
Page     == INSTANCE Dashboard WITH MaxClock <- PageEnd, row <- listed, session <- cookie
-----------------------------------------------------------------------------
(* Signing in and out. *)

Assumed == AuthAssumption /\ Nonces \subseteq Nat /\ Tokens \subseteq Nat

ChallengeRow == [ wallet : Wallets, created : Nat, expires : Nat, used : BOOLEAN ]
SessionRow   == [ wallet : Wallets, expires : Nat, lastUsed : Nat, revoked : BOOLEAN ]

Typed ==
    /\ clock \in Nat
    /\ challenge \in [Nonces -> ChallengeRow \cup {None, Purged}]
    /\ session \in [Tokens -> SessionRow \cup {None}]
    /\ signIn \in [SignIns -> SignIn \cup {None}]
    /\ request \in [Requests -> Pending \cup Answered \cup {None}]
    /\ gone \subseteq Tokens
    /\ spent \subseteq Nonces

(* A challenge row lives CHALLENGE_TTL. *)
Dated == \A n \in Nonces : challenge[n] \in ChallengeRow =>
            challenge[n].expires = challenge[n].created + CHALLENGE_TTL

(* A spent nonce stays marked for as long as its row is there. *)
StaysSpent == \A n \in spent :
            /\ challenge[n] # None
            /\ challenge[n] \in ChallengeRow => challenge[n].used

(* What a sign-in has read and checked. *)
Proving(c) ==
    signIn[c] \in SignIn =>
        /\ signIn[c].at <= signIn[c].created + CHALLENGE_TTL
        /\ ~ signIn[c].again
        /\ challenge[signIn[c].nonce] # None
        /\ challenge[signIn[c].nonce] \in ChallengeRow =>
             challenge[signIn[c].nonce].wallet = signIn[c].wallet
        /\ signIn[c].pc # "verify" => signIn[c].signer = signIn[c].wallet

(* What a request has read, and what it was answered. *)
Asking(r) ==
    /\ request[r] \in Pending => session[request[r].token] \in SessionRow /\ ~ request[r].late
    /\ request[r] \in Answered => (request[r].late => request[r].pc = "refused")

Gone == \A t \in gone : session[t] \in SessionRow /\ session[t].revoked

ProveInv == Dated /\ StaysSpent /\ \A c \in SignIns : Proving(c)
AskInv   == Gone /\ \A r \in Requests : Asking(r)

IInv == Typed /\ ProveInv /\ AskInv
-----------------------------------------------------------------------------
(* A row is told from a missing one by its columns. *)
LEMMA Distinct ==
    /\ None # Purged
    /\ \A row \in ChallengeRow \cup SessionRow \cup SignIn \cup Pending \cup Answered :
         Present(row)
    /\ \A row \in Pending : row \notin Answered
<1>1. None # Purged
  <2>1. None.none # Purged.none
    BY DEF None, Purged
  <2> QED  BY <2>1
<1>2. "none" \in DOMAIN None /\ "none" \in DOMAIN Purged
  BY DEF None, Purged
<1>3. ASSUME NEW row \in ChallengeRow \cup SessionRow \cup SignIn \cup Pending \cup Answered
      PROVE  "none" \notin DOMAIN row
  <2>1. CASE row \in ChallengeRow
    BY <2>1 DEF ChallengeRow
  <2>2. CASE row \in SessionRow
    BY <2>2 DEF SessionRow
  <2>3. CASE row \in SignIn
    BY <2>3 DEF SignIn
  <2>4. CASE row \in Pending
    BY <2>4 DEF Pending
  <2>5. CASE row \in Answered
    BY <2>5 DEF Answered
  <2> QED  BY <1>3, <2>1, <2>2, <2>3, <2>4, <2>5
<1>4. \A row \in Pending : row \notin Answered
  BY DEF Pending, Answered
<1> QED  BY <1>1, <1>2, <1>3, <1>4 DEF Present
-----------------------------------------------------------------------------
(* Issuing a challenge. *)
LEMMA IssueInv ==
    ASSUME Assumed, IInv, NEW n \in Nonces, NEW w \in Wallets, issue(n, w)
    PROVE  IInv'
<1> DEFINE fresh == [ wallet |-> w, created |-> clock,
                      expires |-> clock + CHALLENGE_TTL, used |-> FALSE ]
<1>1. UNCHANGED << clock, session, signIn, request, gone, spent >>
  BY DEF issue
<1>2. challenge[n] = None
  BY DEF issue, Assumed
<1>3. /\ fresh \in ChallengeRow /\ fresh.expires = fresh.created + CHALLENGE_TTL
  BY DEF IInv, Typed, Assumed, AuthAssumption, ChallengeRow
<1>4. PICK purged \in {{}, { m \in Nonces : Present(challenge[m])
                                            /\ challenge[m].expires < clock }} :
        challenge' = [m \in Nonces |-> CASE m = n -> fresh
                                         [] m \in purged -> Purged
                                         [] OTHER -> challenge[m]]
  BY DEF issue
<1> HIDE DEF fresh
<1>5. \A m \in Nonces : \/ m = n /\ challenge'[m] = fresh
                        \/ m # n /\ challenge'[m] = Purged
                        \/ m # n /\ challenge'[m] = challenge[m]
  <2> SUFFICES ASSUME NEW m \in Nonces
               PROVE  \/ m = n /\ challenge'[m] = fresh
                      \/ m # n /\ challenge'[m] = Purged
                      \/ m # n /\ challenge'[m] = challenge[m]
    OBVIOUS
  <2>1. challenge'[m] = CASE m = n -> fresh
                          [] m \in purged -> Purged
                          [] OTHER -> challenge[m]
    BY <1>4
  <2>2. n \notin purged
    BY <1>2 DEF Present
  <2>3. CASE m = n
    BY <2>1, <2>2, <2>3
  <2>4. CASE m # n /\ m \in purged
    BY <2>1, <2>4
  <2>5. CASE m # n /\ m \notin purged
    BY <2>1, <2>5
  <2> QED  BY <2>3, <2>4, <2>5
<1>6. challenge' \in [Nonces -> ChallengeRow \cup {None, Purged}]
  <2>1. challenge' = [m \in Nonces |-> challenge'[m]]
    BY <1>4
  <2> QED  BY <1>3, <1>5, <2>1 DEF IInv, Typed
<1>7. Typed'
  BY <1>1, <1>6 DEF IInv, Typed
<1>8. Purged \notin ChallengeRow /\ Purged # None /\ fresh # None
  BY <1>3, Distinct DEF Present
<1>9. Dated'
  BY <1>3, <1>5, <1>8 DEF IInv, ProveInv, Dated
<1>10. StaysSpent'
  <2> SUFFICES ASSUME NEW m \in spent
               PROVE  challenge'[m] # None /\ (challenge'[m] \in ChallengeRow => challenge'[m].used)
    BY <1>1 DEF StaysSpent
  <2>1. m \in Nonces /\ m # n
    BY <1>2 DEF IInv, Typed, ProveInv, StaysSpent
  <2> QED  BY <1>5, <1>8, <2>1 DEF IInv, ProveInv, StaysSpent
<1>11. ASSUME NEW c \in SignIns PROVE Proving(c)'
  <2>1. signIn[c] \in SignIn => signIn[c].nonce \in Nonces
    BY DEF SignIn
  <2>2. signIn[c] \in SignIn => signIn[c].nonce # n
    BY <1>2 DEF IInv, ProveInv, Proving
  <2> QED  BY <1>1, <1>5, <1>8, <2>1, <2>2 DEF IInv, ProveInv, Proving
<1>12. AskInv'
  BY <1>1 DEF IInv, AskInv, Gone, Asking
<1> QED  BY <1>7, <1>9, <1>11, <1>12, <1>10 DEF IInv, ProveInv
-----------------------------------------------------------------------------
(* Signing in. *)

(* A sign-in's own step, while the tables of sessions and requests rest.   *)
LEMMA ReadInv ==
    ASSUME Assumed, IInv, NEW c \in SignIns, NEW n \in Nonces, NEW w \in Wallets,
           NEW signer \in Wallets, readChallenge(c, n, w, signer)
    PROVE  IInv'
<1> DEFINE f == [ pc |-> "verify", nonce |-> n, wallet |-> w, signer |-> signer,
                  created |-> challenge[n].created, at |-> clock, again |-> FALSE ]
<1>1. /\ UNCHANGED << clock, challenge, session, request, gone, spent >>
      /\ signIn' = [signIn EXCEPT ![c] =
             [ pc |-> "verify", nonce |-> n, wallet |-> w, signer |-> signer,
               created |-> challenge[n].created, at |-> clock, again |-> n \in spent ]]
      /\ Present(challenge[n]) /\ challenge[n].expires >= clock /\ challenge[n].wallet = w
      /\ ~ challenge[n].used
  BY DEF readChallenge
<1>2. challenge[n] \in ChallengeRow /\ challenge[n] # None
  BY <1>1 DEF IInv, Typed, Present
<1>3. /\ challenge[n].created \in Nat /\ clock \in Nat /\ challenge[n].expires \in Nat
      /\ challenge[n].expires = challenge[n].created + CHALLENGE_TTL
  BY <1>2 DEF ChallengeRow, IInv, Typed, ProveInv, Dated
<1>4. (n \in spent) = FALSE
  BY <1>1, <1>2 DEF IInv, ProveInv, StaysSpent
<1>5. /\ f \in SignIn /\ f.pc = "verify" /\ f.nonce = n /\ f.wallet = w
      /\ f.at <= f.created + CHALLENGE_TTL /\ ~ f.again
  BY <1>1, <1>3 DEF SignIn
<1>6. signIn' = [signIn EXCEPT ![c] = f]
  BY <1>1, <1>4
<1> HIDE DEF f
<1>7. Typed'
  BY <1>1, <1>5, <1>6 DEF IInv, Typed
<1>8. ASSUME NEW d \in SignIns PROVE Proving(d)'
  <2>1. CASE d = c
    <3>1. signIn'[c] = f
      BY <1>6 DEF IInv, Typed
    <3> QED  BY <1>1, <1>2, <1>5, <2>1, <3>1 DEF Proving
  <2>2. CASE d # c
    <3>1. signIn'[d] = signIn[d]
      BY <1>6, <2>2 DEF IInv, Typed
    <3> QED  BY <1>1, <3>1 DEF IInv, ProveInv, Proving
  <2> QED  BY <2>1, <2>2
<1>9. Dated' /\ StaysSpent' /\ AskInv'
  BY <1>1 DEF IInv, ProveInv, Dated, StaysSpent, AskInv, Gone, Asking
<1> QED  BY <1>7, <1>8, <1>9 DEF IInv, ProveInv

(* The signature is checked, and the challenge used up. *)
LEMMA SignInInv ==
    ASSUME Assumed, IInv, NEW c \in SignIns, verifySignature(c) \/ consumeChallenge(c)
    PROVE  IInv'
<1>1. UNCHANGED << clock, session, request, gone >> /\ signIn[c] \in SignIn
  BY DEF verifySignature, consumeChallenge, Present, IInv, Typed
<1> DEFINE n == signIn[c].nonce
<1>2. n \in Nonces
  BY <1>1 DEF SignIn
<1>3. /\ challenge' \in [Nonces -> ChallengeRow \cup {None, Purged}]
      /\ \A m \in Nonces :
           \/ challenge'[m] = challenge[m]
           \/ /\ challenge[m] \in ChallengeRow /\ challenge'[m] \in ChallengeRow
              /\ challenge'[m].wallet = challenge[m].wallet
              /\ challenge'[m].created = challenge[m].created
              /\ challenge'[m].expires = challenge[m].expires
              /\ challenge'[m].used
      /\ \A m \in spent' : m \in Nonces /\ (m \in spent \/ challenge'[m] \in ChallengeRow)
      /\ \A m \in spent' \ spent : challenge'[m].used
  <2>1. CASE UNCHANGED << challenge, spent >>
    BY <2>1 DEF IInv, Typed
  <2>2. CASE /\ Present(challenge[n]) /\ challenge' = [challenge EXCEPT ![n].used = TRUE]
             /\ spent' = spent \cup {n}
    <3> DEFINE row == [challenge[n] EXCEPT !.used = TRUE]
    <3>1. challenge[n] \in ChallengeRow
      BY <1>2, <2>2 DEF IInv, Typed, Present
    <3>2. /\ row \in ChallengeRow /\ row.used = TRUE /\ row.wallet = challenge[n].wallet
          /\ row.created = challenge[n].created /\ row.expires = challenge[n].expires
      BY <3>1 DEF ChallengeRow
    <3>3. challenge' = [challenge EXCEPT ![n] = row]
      BY <2>2
    <3> HIDE DEF row
    <3>4. \A m \in Nonces : challenge'[m] = IF m = n THEN row ELSE challenge[m]
      BY <3>3 DEF IInv, Typed
    <3>5. challenge' \in [Nonces -> ChallengeRow \cup {None, Purged}]
      BY <1>2, <3>2, <3>3 DEF IInv, Typed
    <3>6. ASSUME NEW m \in spent'
          PROVE  m \in Nonces /\ (m \in spent \/ (challenge'[m] \in ChallengeRow /\ challenge'[m].used))
      <4>1. m \in spent \/ m = n
        BY <2>2
      <4>2. spent \subseteq Nonces
        BY DEF IInv, Typed
      <4> QED  BY <1>2, <3>2, <3>4, <4>1, <4>2
    <3> QED  BY <1>2, <3>1, <3>2, <3>4, <3>5, <3>6
  <2> QED  BY <2>1, <2>2 DEF verifySignature, consumeChallenge
<1>4. PICK f \in SignIn \cup {None} :
        /\ signIn' = [signIn EXCEPT ![c] = f]
        /\ f \in SignIn => /\ f.nonce = n /\ f.wallet = signIn[c].wallet
                           /\ f.at = signIn[c].at /\ f.created = signIn[c].created
                           /\ f.signer = f.wallet /\ f.again = signIn[c].again
  <2> DEFINE g(pc) == [signIn[c] EXCEPT !.pc = pc]
  <2>1. ASSUME NEW pc \in {"consume", "mint"}
        PROVE  /\ g(pc) \in SignIn /\ g(pc).nonce = n
               /\ g(pc).wallet = signIn[c].wallet /\ g(pc).signer = signIn[c].signer
               /\ g(pc).at = signIn[c].at /\ g(pc).created = signIn[c].created
               /\ g(pc).again = signIn[c].again
    BY <1>1 DEF SignIn
  <2>2. CASE signIn' = [signIn EXCEPT ![c] = None]
    BY <2>2, Distinct DEF Present
  <2>3. CASE signIn[c].signer = signIn[c].wallet /\ signIn' = [signIn EXCEPT ![c].pc = "consume"]
    <3>1. signIn' = [signIn EXCEPT ![c] = g("consume")]
      BY <2>3
    <3> QED  BY <2>1, <2>3, <3>1
  <2>4. CASE consumeChallenge(c)
    <3>1. signIn' = [signIn EXCEPT ![c] = g("mint")] /\ signIn[c].pc = "consume"
      BY <2>4 DEF consumeChallenge
    <3>2. signIn[c].signer = signIn[c].wallet
      BY <1>1, <3>1 DEF IInv, ProveInv, Proving
    <3> QED  BY <2>1, <3>1, <3>2
  <2> QED  BY <2>2, <2>3, <2>4 DEF verifySignature
<1>5. Typed'
  BY <1>1, <1>3, <1>4 DEF IInv, Typed
<1>6. None \notin ChallengeRow
  BY Distinct DEF Present
<1>7. ASSUME NEW d \in SignIns PROVE Proving(d)'
  <2>1. CASE d = c
    <3>1. signIn'[c] = f
      BY <1>4 DEF IInv, Typed
    <3> QED  BY <1>1, <1>2, <1>3, <1>4, <1>6, <2>1, <3>1 DEF IInv, ProveInv, Proving
  <2>2. CASE d # c
    <3>1. signIn'[d] = signIn[d]
      BY <1>4, <2>2 DEF IInv, Typed
    <3>2. signIn[d] \in SignIn => signIn[d].nonce \in Nonces
      BY DEF SignIn
    <3> QED  BY <1>3, <1>6, <3>1, <3>2 DEF IInv, ProveInv, Proving
  <2> QED  BY <2>1, <2>2
<1>8. Dated' /\ StaysSpent'
  BY <1>3, <1>6 DEF IInv, ProveInv, Dated, StaysSpent
<1>9. AskInv'
  BY <1>1 DEF IInv, AskInv, Gone, Asking
<1> QED  BY <1>5, <1>7, <1>8, <1>9 DEF IInv, ProveInv

(* The session is minted under a token no table has seen. *)
LEMMA MintInv ==
    ASSUME Assumed, IInv, NEW c \in SignIns, NEW t \in Tokens, mintSession(c, t)
    PROVE  IInv'
<1> DEFINE row == [ wallet |-> signIn[c].wallet, expires |-> clock + SESSION_TTL,
                    lastUsed |-> clock, revoked |-> FALSE ]
<1>1. /\ UNCHANGED << clock, challenge, request, gone, spent >>
      /\ session' = [session EXCEPT ![t] = row]
      /\ signIn' = [signIn EXCEPT ![c] = None] /\ signIn[c] \in SignIn
  BY DEF mintSession, Present, IInv, Typed
<1>2. session[t] = None
  BY DEF mintSession, Assumed
<1>3. row \in SessionRow
  BY <1>1 DEF SignIn, SessionRow, IInv, Typed, Assumed, AuthAssumption
<1> HIDE DEF row
<1>4. None \notin SessionRow /\ None \notin SignIn
  BY Distinct DEF Present
<1>5. Typed'
  BY <1>1, <1>3 DEF IInv, Typed
<1>6. \A u \in Tokens : session[u] \in SessionRow => session'[u] = session[u]
  BY <1>1, <1>2, <1>4 DEF IInv, Typed
<1>7. ASSUME NEW d \in SignIns PROVE Proving(d)'
  <2>1. signIn'[d] = None \/ signIn'[d] = signIn[d]
    BY <1>1 DEF IInv, Typed
  <2> QED  BY <1>1, <1>4, <2>1 DEF IInv, ProveInv, Proving
<1>8. Gone'
  BY <1>1, <1>6 DEF IInv, Typed, AskInv, Gone
<1>9. ASSUME NEW r \in Requests PROVE Asking(r)'
  <2>1. request[r] \in Pending => request[r].token \in Tokens
    BY DEF Pending
  <2> QED  BY <1>1, <1>6, <2>1 DEF IInv, AskInv, Asking
<1> QED  BY <1>1, <1>5, <1>7, <1>8, <1>9 DEF IInv, ProveInv, AskInv, Dated, StaysSpent
-----------------------------------------------------------------------------
(* Requests. *)

(* A request's own step: it may touch sessions that are there, and never   *)
(* takes a revocation back.                                                *)
LEMMA RequestInv ==
    ASSUME Assumed, IInv, NEW r \in Requests, NEW f \in Pending \cup Answered \cup {None},
           request' = [request EXCEPT ![r] = f],
           UNCHANGED << clock, challenge, signIn, spent >>,
           session' \in [Tokens -> SessionRow \cup {None}],
           \A t \in Tokens : session[t] \in SessionRow => session'[t] \in SessionRow,
           \A t \in Tokens : session[t] \in SessionRow /\ session[t].revoked =>
             session'[t].revoked,
           gone' \subseteq Tokens,
           \A t \in gone' \ gone : session'[t] \in SessionRow /\ session'[t].revoked,
           f \in Pending => session[f.token] \in SessionRow /\ ~ f.late,
           f \in Answered => (f.late => f.pc = "refused")
    PROVE  IInv'
<1>1. Typed'
  BY DEF IInv, Typed
<1>2. ProveInv'
  BY DEF IInv, ProveInv, Dated, StaysSpent, Proving
<1>3. Gone'
  BY DEF IInv, Typed, AskInv, Gone
<1>4. ASSUME NEW q \in Requests PROVE Asking(q)'
  <2>1. \A g \in Pending : g.token \in Tokens
    BY DEF Pending
  <2>2. CASE q = r
    <3>1. request'[q] = f
      BY <2>2 DEF IInv, Typed
    <3> QED  BY <2>1, <3>1 DEF Asking
  <2>3. CASE q # r
    <3>1. request'[q] = request[q]
      BY <2>3 DEF IInv, Typed
    <3> QED  BY <2>1, <3>1 DEF IInv, AskInv, Asking
  <2> QED  BY <2>2, <2>3
<1> QED  BY <1>1, <1>2, <1>3, <1>4 DEF IInv, AskInv

(* The session is looked up: a revoked one, and with it one that a         *)
(* completed sign-out was to end, is refused.                              *)
LEMMA VerifyInv ==
    ASSUME Assumed, IInv, NEW r \in Requests, NEW t \in Tokens, NEW scope \in Scope,
           verifySessionToken(r, t, scope)
    PROVE  IInv'
<1> DEFINE late    == t \in gone
           pend    == [ pc |-> "slide", token |-> t, scope |-> scope, at |-> clock,
                        late |-> late ]
           asked   == [pend EXCEPT !.pc = "revoke"]
           granted == [ pc |-> "accepted", late |-> late, early |-> FALSE ]
<1>1. UNCHANGED << clock, challenge, session, signIn, gone, spent >> /\ clock \in Nat
  BY DEF verifySessionToken, IInv, Typed
<1>2. late \in BOOLEAN
  OBVIOUS
<1> HIDE DEF late
<1>3. Live(session[t]) => session[t] \in SessionRow /\ ~ late
  BY DEF Live, Present, IInv, Typed, AskInv, Gone, late
<1>4. /\ pend \in Pending /\ pend.token = t /\ pend.late = late
      /\ asked \in Pending /\ asked.token = t /\ asked.late = late
      /\ granted \in Answered /\ granted.late = late
  BY <1>1, <1>2 DEF Pending, Answered
<1>5. CASE ~ Live(session[t])
  <2>1. PICK early \in BOOLEAN :
          request' = [request EXCEPT ![r] = [ pc |-> "refused", late |-> late,
                                              early |-> early ]]
    BY <1>5 DEF verifySessionToken, late
  <2> DEFINE f == [ pc |-> "refused", late |-> late, early |-> early ]
  <2>2. f \in Answered /\ f.pc = "refused"
    BY <1>2 DEF Answered
  <2>3. f \notin Pending
    BY <2>2, Distinct
  <2>4. request' = [request EXCEPT ![r] = f]
    BY <2>1
  <2> HIDE DEF f
  <2> QED  BY <1>1, <2>2, <2>3, <2>4, RequestInv DEF IInv, Typed
<1>6. CASE Live(session[t])
  <2>1. \/ request' = [request EXCEPT ![r] = pend]
        \/ request' = [request EXCEPT ![r] = asked]
        \/ request' = [request EXCEPT ![r] = granted]
    BY <1>6 DEF verifySessionToken, late
  <2>2. PICK f \in {pend, asked, granted} : request' = [request EXCEPT ![r] = f]
    BY <2>1
  <2>3. /\ f \in Pending \cup Answered
        /\ f.late = late
        /\ f \in Pending => f.token = t
    BY <1>4, <2>2, Distinct
  <2> HIDE DEF pend, asked, granted
  <2> QED  BY <1>1, <1>3, <1>6, <2>2, <2>3, RequestInv DEF IInv, Typed
<1> QED  BY <1>5, <1>6

(* Answers, as Answer and Proceed give them to a request that is waiting. *)
LEMMA Answers ==
    ASSUME IInv, NEW r \in Requests, request[r] \in Pending
    PROVE  /\ \A pc \in {"accepted", "refused"} :
                LET f == [ pc |-> pc, late |-> request[r].late, early |-> FALSE ]
                IN  f \in Answered /\ ~ f.late /\ f \notin Pending
           /\ LET f == [request[r] EXCEPT !.pc = "revoke"]
              IN  f \in Pending /\ ~ f.late /\ f.token = request[r].token /\ f \notin Answered
           /\ session[request[r].token] \in SessionRow /\ request[r].token \in Tokens
<1>1. /\ session[request[r].token] \in SessionRow /\ request[r].token \in Tokens
      /\ request[r].late = FALSE
  BY DEF IInv, AskInv, Asking, Pending
<1>2. \A pc \in {"accepted", "refused"} :
         LET f == [ pc |-> pc, late |-> request[r].late, early |-> FALSE ]
         IN  f \in Answered /\ ~ f.late
  BY <1>1 DEF Answered
<1>3. LET f == [request[r] EXCEPT !.pc = "revoke"]
      IN  f \in Pending /\ ~ f.late /\ f.token = request[r].token
  BY <1>1 DEF Pending
<1> QED  BY <1>1, <1>2, <1>3, Distinct

(* The slide: the times are written, the revocation is not. *)
LEMMA SlideInv ==
    ASSUME Assumed, IInv, NEW r \in Requests, slideSession(r)
    PROVE  IInv'
<1> DEFINE t == request[r].token
<1>1. UNCHANGED << clock, challenge, signIn, gone, spent >> /\ gone \subseteq Tokens
  BY DEF slideSession, IInv, Typed
<1>2. request[r] \in Pending /\ request[r].pc = "slide"
  BY DEF slideSession, Present, IInv, Typed, Answered
<1>3. session[t] \in SessionRow /\ t \in Tokens
  BY <1>2, Answers
<1>4. /\ session' \in [Tokens -> SessionRow \cup {None}]
      /\ \A u \in Tokens : session[u] \in SessionRow =>
           session'[u] \in SessionRow /\ session'[u].revoked = session[u].revoked
  <2>1. CASE UNCHANGED session
    BY <2>1 DEF IInv, Typed
  <2>2. CASE session' = [session EXCEPT ![t].lastUsed = request[r].at,
                                        ![t].expires = request[r].at + SESSION_TTL]
    <3> DEFINE row == [session[t] EXCEPT !.lastUsed = request[r].at,
                                         !.expires = request[r].at + SESSION_TTL]
    <3>1. row \in SessionRow /\ row.revoked = session[t].revoked
      <4>1. request[r].at \in Nat /\ request[r].at + SESSION_TTL \in Nat
        BY <1>2 DEF Pending, Assumed, AuthAssumption
      <4> QED  BY <1>3, <4>1 DEF SessionRow
    <3>2. session' = [session EXCEPT ![t] = row]
      <4>1. session = [u \in Tokens |-> session[u]]
        BY DEF IInv, Typed
      <4>2. session' = [session EXCEPT ![t] = [session[t] EXCEPT
                !.lastUsed = request[r].at, !.expires = request[r].at + SESSION_TTL]]
        BY <1>3, <2>2, <4>1
      <4> QED  BY <4>2
    <3> HIDE DEF row
    <3> QED  BY <1>3, <3>1, <3>2 DEF IInv, Typed
  <2> QED  BY <2>1, <2>2 DEF slideSession
<1>5. PICK f \in Pending \cup Answered :
        /\ request' = [request EXCEPT ![r] = f]
        /\ ~ f.late /\ (f \in Pending => f.token = t)
  <2>1. \/ Answer(r, "accepted") \/ Answer(r, "refused")
        \/ request' = [request EXCEPT ![r] = [request[r] EXCEPT !.pc = "revoke"]]
    BY DEF slideSession, Proceed
  <2>2. CASE \E pc \in {"accepted", "refused"} : Answer(r, pc)
    <3>1. PICK pc \in {"accepted", "refused"} :
            request' = [request EXCEPT ![r] = [ pc |-> pc, late |-> request[r].late,
                                                early |-> FALSE ]]
      BY <2>2 DEF Answer
    <3> QED  BY <1>2, <3>1, Answers
  <2>3. CASE request' = [request EXCEPT ![r] = [request[r] EXCEPT !.pc = "revoke"]]
    BY <1>2, <2>3, Answers
  <2> QED  BY <2>1, <2>2, <2>3
<1> QED  BY <1>1, <1>3, <1>4, <1>5, RequestInv

(* The sign-out's statement. *)
LEMMA RevokeInv ==
    ASSUME Assumed, IInv, NEW r \in Requests, revokeSessions(r)
    PROVE  IInv'
<1> DEFINE mine == { t \in Tokens : MayRevoke(r, t) }
<1>1. /\ UNCHANGED << clock, challenge, signIn, spent >> /\ gone' = gone \cup mine
      /\ session' = [t \in Tokens |->
           IF t \in mine THEN [session[t] EXCEPT !.revoked = TRUE] ELSE session[t]]
      /\ gone \subseteq Tokens
  BY DEF revokeSessions, IInv, Typed
<1>2. request[r] \in Pending
  BY DEF revokeSessions, Present, IInv, Typed, Answered
<1>3. \A t \in mine : session[t] \in SessionRow
  BY DEF MayRevoke, Present, IInv, Typed
<1>4. ASSUME NEW row \in SessionRow
      PROVE  /\ [row EXCEPT !.revoked = TRUE] \in SessionRow
             /\ [row EXCEPT !.revoked = TRUE].revoked = TRUE
  BY DEF SessionRow
<1>5. /\ mine \subseteq Tokens
      /\ \A t \in mine : session'[t] \in SessionRow /\ session'[t].revoked
      /\ \A t \in Tokens \ mine : session'[t] = session[t]
  <2>1. mine \subseteq Tokens
    OBVIOUS
  <2> HIDE DEF mine
  <2> QED  BY <1>1, <1>3, <1>4, <2>1
<1> HIDE DEF mine
<1>6. /\ session' \in [Tokens -> SessionRow \cup {None}]
      /\ \A t \in Tokens : session[t] \in SessionRow => session'[t] \in SessionRow
      /\ \A t \in Tokens : session[t] \in SessionRow /\ session[t].revoked =>
           session'[t].revoked
  <2>1. session' = [t \in Tokens |-> session'[t]]
    BY <1>1
  <2> QED  BY <1>5, <2>1 DEF IInv, Typed
<1> DEFINE f == [ pc |-> "accepted", late |-> request[r].late, early |-> FALSE ]
<1>7. request' = [request EXCEPT ![r] = f]
  BY DEF revokeSessions, Answer
<1>8. f \in Answered /\ ~ f.late /\ f \notin Pending
  BY <1>2, Answers
<1> HIDE DEF f
<1>9. gone' \subseteq Tokens
  BY <1>1, <1>5
<1>10. \A t \in gone' \ gone : session'[t] \in SessionRow /\ session'[t].revoked
  BY <1>1, <1>5
<1> QED  BY <1>1, <1>6, <1>7, <1>8, <1>9, <1>10, RequestInv

(* Every step keeps the invariant. *)
LEMMA StepInv == Assumed /\ IInv /\ [Next]_vars => IInv'
<1> SUFFICES ASSUME Assumed, IInv, [Next]_vars PROVE IInv'
  OBVIOUS
<1>1. CASE Tick \/ UNCHANGED vars
  <2>1. UNCHANGED << challenge, session, signIn, request, gone, spent >> /\ clock' \in Nat
    BY <1>1 DEF Tick, vars, own, IInv, Typed
  <2> QED  BY <2>1 DEF IInv, Typed, ProveInv, Dated, StaysSpent, Proving, AskInv, Gone, Asking
<1>2. ASSUME NEW r \in Requests, answered(r) PROVE IInv'
  <2>1. None \notin Pending /\ None \notin Answered
    BY Distinct DEF Present
  <2> QED  BY <1>2, <2>1, RequestInv DEF answered, IInv, Typed
<1> QED  BY <1>1, <1>2, IssueInv, ReadInv, SignInInv, MintInv, VerifyInv, SlideInv, RevokeInv
         DEF Next, SignInStep, RequestStep

(* The invariant holds throughout. *)
LEMMA Invariance == ASSUME Assumed PROVE Spec => []IInv
<1>1. Init => IInv
  <2> SUFFICES ASSUME Init PROVE IInv
    OBVIOUS
  <2>1. None \notin ChallengeRow \cup SessionRow \cup SignIn \cup Pending \cup Answered
    BY Distinct DEF Present
  <2> QED  BY <2>1 DEF Init, IInv, Typed, ProveInv, Dated, StaysSpent, Proving, AskInv, Gone, Asking
<1> QED  BY <1>1, StepInv, PTL DEF Spec

(***************************************************************************)
(* A sign-out that has been committed holds: no request that reads the     *)
(* session afterwards is accepted, whatever slides were under way, because *)
(* the slide of lib/auth/session.ts writes the two times and nothing else. *)
(***************************************************************************)
THEOREM SignedOut == ASSUME Assumed PROVE Spec => []SignOutHolds
<1>1. IInv => SignOutHolds
  <2> SUFFICES ASSUME IInv, NEW r \in Requests, Present(request[r]), request[r].late
               PROVE  request[r].pc = "refused"
    BY DEF SignOutHolds
  <2> QED  BY DEF IInv, Typed, AskInv, Asking, Present
<1> QED  BY <1>1, Invariance, PTL

(***************************************************************************)
(* A session is given to a wallet that signed a challenge issued for it,   *)
(* read within its lifetime and before its nonce was spent, however many   *)
(* calls carry the challenge and whichever of their updates fail.          *)
(***************************************************************************)
THEOREM Proved == ASSUME Assumed PROVE Spec => [][SessionProved]_vars
<1>1. IInv /\ [Next]_vars => [SessionProved]_vars
  <2> SUFFICES ASSUME IInv, Next, NEW t \in Tokens, session[t] = None, session'[t] # None
               PROVE  \E c \in SignIns :
                        /\ signIn[c] \in SignIn /\ signIn[c].signer = session'[t].wallet
                        /\ signIn[c].at <= signIn[c].created + CHALLENGE_TTL
                        /\ ~ signIn[c].again
                        /\ LET row == challenge[signIn[c].nonce]
                           IN  Present(row) => row.wallet = session'[t].wallet
    BY DEF SessionProved
  <2>1. session \in [Tokens -> SessionRow \cup {None}] /\ None \notin SessionRow
    BY Distinct DEF Present, IInv, Typed
  <2>2. ASSUME NEW r \in Requests, slideSession(r) PROVE FALSE
    <3>1. request[r] \in Pending
      BY <2>2 DEF slideSession, Present, IInv, Typed, Answered
    <3>2. request[r].token # t
      BY <2>1, <3>1, Answers
    <3> QED  BY <2>1, <2>2, <3>2 DEF slideSession
  <2>3. ASSUME NEW r \in Requests, revokeSessions(r) PROVE FALSE
    BY <2>1, <2>3 DEF revokeSessions, MayRevoke, Present
  <2>4. UNCHANGED session => FALSE
    OBVIOUS
  <2>5. PICK c \in SignIns, u \in Tokens : mintSession(c, u)
    BY <2>2, <2>3, <2>4 DEF Next, SignInStep, RequestStep, issue, readChallenge,
       verifySignature, consumeChallenge, verifySessionToken, answered, Tick, own
  <2>6. signIn[c] \in SignIn /\ signIn[c].pc = "mint"
    BY <2>5 DEF mintSession, Present, IInv, Typed
  <2>7. session'[t].wallet = signIn[c].wallet
    BY <2>1, <2>5 DEF mintSession
  <2>8. /\ signIn[c].at <= signIn[c].created + CHALLENGE_TTL /\ ~ signIn[c].again
        /\ signIn[c].signer = signIn[c].wallet
        /\ challenge[signIn[c].nonce] \in ChallengeRow =>
             challenge[signIn[c].nonce].wallet = signIn[c].wallet
    BY <2>6 DEF IInv, ProveInv, Proving
  <2>9. Present(challenge[signIn[c].nonce]) => challenge[signIn[c].nonce] \in ChallengeRow
    BY <2>6 DEF SignIn, Present, IInv, Typed
  <2> QED  BY <2>6, <2>7, <2>8, <2>9
<1> QED  BY <1>1, Invariance, PTL DEF Spec
-----------------------------------------------------------------------------
(***************************************************************************)
(* A session in use.  Its row follows its uses: a slide that is late is    *)
(* late by MaxTransit, and one that was not due is early by the throttle.  *)
(***************************************************************************)
Lasts(t) ==
    session[t] \in SessionRow =>
        /\ session[t].expires = session[t].lastUsed + SESSION_TTL
        /\ seen[t] <= session[t].lastUsed + SLIDE_THROTTLE + MaxTransit

UnderWay(r) ==
    request[r] \in Pending =>
        request[r].at <= clock /\ clock <= request[r].at + MaxTransit

NeverEarly(r) == request[r] \in Answered => ~ request[r].early

AliveInv ==
    /\ seen \in [Tokens -> Nat] /\ \A t \in Tokens : seen[t] <= clock
    /\ \A t \in Tokens : Lasts(t)
    /\ \A r \in Requests : UnderWay(r) /\ NeverEarly(r)

(* A step that answers one request, or sends it on, at no new time. *)
LEMMA OneRequest ==
    ASSUME Assumed, IInv, AliveInv, NEW r \in Requests, NEW f \in Pending \cup Answered \cup {None},
           request' = [request EXCEPT ![r] = f], UNCHANGED clock,
           f \in Pending => f.at <= clock /\ clock <= f.at + MaxTransit,
           f \in Answered => ~ f.early,
           seen' \in [Tokens -> Nat], \A t \in Tokens : seen'[t] <= clock,
           \A t \in Tokens : Lasts(t)'
    PROVE  AliveInv'
<1>1. ASSUME NEW q \in Requests PROVE (UnderWay(q) /\ NeverEarly(q))'
  <2>1. request'[q] = IF q = r THEN f ELSE request[q]
    BY DEF IInv, Typed
  <2> QED  BY <2>1 DEF AliveInv, UnderWay, NeverEarly
<1> QED  BY <1>1 DEF AliveInv

(* A session that is found expired has not been used for long enough. *)
LEMMA AliveVerify ==
    ASSUME Assumed, IInv, AliveInv, NEW r \in Requests, NEW t \in Tokens, NEW scope \in Scope,
           verifySessionToken(r, t, scope)
    PROVE  AliveInv'
<1> DEFINE late    == t \in gone
           early   == /\ Present(session[t]) /\ ~ session[t].revoked
                      /\ clock + SLIDE_THROTTLE + MaxTransit < seen[t] + SESSION_TTL
           pend    == [ pc |-> "slide", token |-> t, scope |-> scope, at |-> clock,
                        late |-> late ]
           asked   == [pend EXCEPT !.pc = "revoke"]
           granted == [ pc |-> "accepted", late |-> late, early |-> FALSE ]
           refused == [ pc |-> "refused", late |-> late, early |-> early ]
<1>1. /\ UNCHANGED << clock, challenge, session, signIn, gone >> /\ clock \in Nat
      /\ seen \in [Tokens -> Nat] /\ \A u \in Tokens : seen[u] <= clock /\ Lasts(u)
      /\ SLIDE_THROTTLE \in Nat /\ MaxTransit \in Nat /\ SESSION_TTL \in Nat
      /\ session[t] \in SessionRow \cup {None}
  BY DEF verifySessionToken, IInv, Typed, AliveInv, Assumed, AuthAssumption
<1>2. late \in BOOLEAN /\ early \in BOOLEAN
  OBVIOUS
<1>3. Present(session[t]) => session[t] \in SessionRow
  BY <1>1 DEF Present
<1>4. ASSUME NEW row \in SessionRow
      PROVE  row.expires \in Nat /\ row.lastUsed \in Nat
  BY DEF SessionRow
<1>5. ~ Live(session[t]) => ~ early
  <2> SUFFICES ASSUME ~ Live(session[t]), early PROVE FALSE
    OBVIOUS
  <2>1. /\ session[t] \in SessionRow /\ ~ (session[t].expires > clock)
        /\ clock + SLIDE_THROTTLE + MaxTransit < seen[t] + SESSION_TTL
    BY <1>3 DEF Live
  <2>2. /\ session[t].expires = session[t].lastUsed + SESSION_TTL
        /\ seen[t] <= session[t].lastUsed + SLIDE_THROTTLE + MaxTransit
        /\ session[t].lastUsed \in Nat /\ session[t].expires \in Nat /\ seen[t] \in Nat
    BY <1>1, <1>4, <2>1 DEF Lasts
  <2> QED  BY <1>1, <2>1, <2>2
<1>6. CASE ~ Live(session[t])
  <2>1. request' = [request EXCEPT ![r] = refused] /\ seen' = seen
    BY <1>6 DEF verifySessionToken
  <2> HIDE DEF late, early
  <2>2. refused \in Answered /\ ~ refused.early
    BY <1>2, <1>5, <1>6 DEF Answered
  <2>3. refused \notin Pending
    BY <2>2, Distinct
  <2> HIDE DEF refused
  <2> QED  BY <1>1, <2>1, <2>2, <2>3, OneRequest DEF Lasts
<1> HIDE DEF early
<1>7. CASE Live(session[t])
  <2>1. \/ request' = [request EXCEPT ![r] = pend] /\ seen' = seen
        \/ /\ request' = [request EXCEPT ![r] = IF scope = {} THEN granted ELSE asked]
           /\ seen' = Used(t, clock)
           /\ ~ (clock - session[t].lastUsed > SLIDE_THROTTLE)
    BY <1>7 DEF verifySessionToken
  <2> HIDE DEF late
  <2>2. /\ pend \in Pending /\ pend.at = clock
        /\ asked \in Pending /\ asked.at = clock
        /\ granted \in Answered /\ ~ granted.early
    BY <1>1, <1>2 DEF Pending, Answered
  <2>3. pend \notin Answered /\ asked \notin Answered /\ granted \notin Pending
    BY <2>2, Distinct
  <2> HIDE DEF pend, asked, granted
  <2>4. clock <= clock /\ clock <= clock + MaxTransit
    BY <1>1
  <2>5. CASE request' = [request EXCEPT ![r] = pend] /\ seen' = seen
    BY <1>1, <2>2, <2>3, <2>4, <2>5, OneRequest DEF Lasts
  <2>6. CASE /\ request' = [request EXCEPT ![r] = IF scope = {} THEN granted ELSE asked]
             /\ seen' = Used(t, clock)
             /\ ~ (clock - session[t].lastUsed > SLIDE_THROTTLE)
    <3> DEFINE f == IF scope = {} THEN granted ELSE asked
    <3>1. /\ f \in Pending \cup Answered /\ (f \in Pending => f.at = clock)
          /\ (f \in Answered => ~ f.early) /\ request' = [request EXCEPT ![r] = f]
      BY <2>2, <2>3, <2>6
    <3>2. seen' = [seen EXCEPT ![t] = clock]
      <4>1. seen[t] \in Nat /\ seen[t] <= clock
        BY <1>1
      <4>2. (IF seen[t] > clock THEN seen[t] ELSE clock) = clock
        BY <1>1, <4>1
      <4> QED  BY <2>6, <4>2 DEF Used
    <3>3. seen' \in [Tokens -> Nat] /\ \A u \in Tokens : seen'[u] <= clock
      BY <1>1, <2>4, <3>2
    <3>4. ASSUME NEW u \in Tokens PROVE Lasts(u)'
      <4>1. CASE u # t
        BY <1>1, <3>2, <4>1 DEF Lasts
      <4>2. CASE u = t
        <5>1. session[t] \in SessionRow /\ seen'[t] = clock
          BY <1>1, <1>3, <1>7, <3>2 DEF Live
        <5>2. session[t].lastUsed \in Nat
          BY <1>4, <5>1
        <5>3. clock <= session[t].lastUsed + SLIDE_THROTTLE + MaxTransit
          BY <1>1, <2>6, <5>2
        <5>4. session[t].expires = session[t].lastUsed + SESSION_TTL
          BY <1>1, <5>1 DEF Lasts
        <5> QED  BY <1>1, <4>2, <5>1, <5>3, <5>4 DEF Lasts
      <4> QED  BY <4>1, <4>2
    <3> HIDE DEF f
    <3> QED  BY <1>1, <2>4, <3>1, <3>3, <3>4, OneRequest
  <2> QED  BY <2>1, <2>5, <2>6
<1> QED  BY <1>6, <1>7

(* A slide writes the time at which the row was read, and that is not long ago. *)
LEMMA AliveSlide ==
    ASSUME Assumed, IInv, AliveInv, NEW r \in Requests, slideSession(r)
    PROVE  AliveInv'
<1> DEFINE t == request[r].token
           a == request[r].at
<1>1. /\ UNCHANGED << clock, challenge, signIn, gone >> /\ clock \in Nat
      /\ seen \in [Tokens -> Nat] /\ \A u \in Tokens : seen[u] <= clock /\ Lasts(u)
      /\ SLIDE_THROTTLE \in Nat /\ MaxTransit \in Nat /\ SESSION_TTL \in Nat
  BY DEF slideSession, IInv, Typed, AliveInv, Assumed, AuthAssumption
<1>2. request[r] \in Pending /\ a \in Nat
  BY DEF slideSession, Present, IInv, Typed, Answered, Pending
<1>3. session[t] \in SessionRow /\ t \in Tokens
  BY <1>2, Answers
<1>4. a <= clock /\ clock <= a + MaxTransit
  BY <1>2 DEF AliveInv, UnderWay
<1>5. PICK f \in Pending \cup Answered :
        /\ request' = [request EXCEPT ![r] = f]
        /\ (f \in Pending => f.at = a) /\ (f \in Answered => ~ f.early)
  <2>1. \/ Answer(r, "accepted") \/ Answer(r, "refused")
        \/ request' = [request EXCEPT ![r] = [request[r] EXCEPT !.pc = "revoke"]]
    BY DEF slideSession, Proceed
  <2>2. CASE \E pc \in {"accepted", "refused"} : Answer(r, pc)
    <3>1. PICK pc \in {"accepted", "refused"} :
            request' = [request EXCEPT ![r] = [ pc |-> pc, late |-> request[r].late,
                                                early |-> FALSE ]]
      BY <2>2 DEF Answer
    <3> DEFINE f == [ pc |-> pc, late |-> request[r].late, early |-> FALSE ]
    <3>2. f \in Answered /\ f \notin Pending /\ ~ f.early
      BY <1>2, Answers
    <3>3. request' = [request EXCEPT ![r] = f]
      BY <3>1
    <3> HIDE DEF f
    <3> QED  BY <3>2, <3>3
  <2>3. CASE request' = [request EXCEPT ![r] = [request[r] EXCEPT !.pc = "revoke"]]
    <3> DEFINE f == [request[r] EXCEPT !.pc = "revoke"]
    <3>1. f \in Pending /\ f \notin Answered
      BY <1>2, Answers
    <3>2. f.at = a
      BY <1>2 DEF Pending
    <3>3. request' = [request EXCEPT ![r] = f]
      BY <2>3
    <3> HIDE DEF f
    <3> QED  BY <3>1, <3>2, <3>3
  <2> QED  BY <2>1, <2>2, <2>3
<1>6. CASE UNCHANGED << session, seen >>
  BY <1>1, <1>4, <1>5, <1>6, OneRequest DEF Lasts
<1>7. CASE /\ session' = [session EXCEPT ![t].lastUsed = a, ![t].expires = a + SESSION_TTL]
           /\ seen' = Used(t, a)
  <2>1. session'[t].lastUsed = a /\ session'[t].expires = a + SESSION_TTL
    <3>1. session[t] \in [ wallet : Wallets, expires : Nat, lastUsed : Nat, revoked : BOOLEAN ]
      BY <1>3 DEF SessionRow
    <3>2. session'[t] = [session[t] EXCEPT !.lastUsed = a, !.expires = a + SESSION_TTL]
      BY <1>3, <1>7 DEF IInv, Typed
    <3> QED  BY <3>1, <3>2
  <2>2. \A u \in Tokens : u # t => session'[u] = session[u]
    BY <1>3, <1>7 DEF IInv, Typed
  <2>3. /\ seen' \in [Tokens -> Nat] /\ \A u \in Tokens : u # t => seen'[u] = seen[u]
        /\ seen'[t] \in {seen[t], a}
    BY <1>1, <1>2, <1>3, <1>7 DEF Used
  <2>4. \A u \in Tokens : seen'[u] <= clock
    BY <1>1, <1>4, <2>3
  <2>5. ASSUME NEW u \in Tokens PROVE Lasts(u)'
    <3>1. CASE u # t
      BY <1>1, <2>2, <2>3, <3>1 DEF Lasts
    <3>2. CASE u = t
      <4>1. seen'[t] <= clock /\ seen'[t] \in Nat
        BY <1>3, <2>3, <2>4
      <4>2. seen'[t] <= a + SLIDE_THROTTLE + MaxTransit
        BY <1>1, <1>2, <1>4, <4>1
      <4> QED  BY <2>1, <3>2, <4>2 DEF Lasts
    <3> QED  BY <3>1, <3>2
  <2> QED  BY <1>1, <1>4, <1>5, <2>3, <2>4, <2>5, OneRequest
<1> QED  BY <1>6, <1>7 DEF slideSession

(* Minting and revoking. *)
LEMMA AliveMint ==
    ASSUME Assumed, IInv, AliveInv, NEW c \in SignIns, NEW t \in Tokens, mintSession(c, t)
    PROVE  AliveInv'
<1>1. /\ UNCHANGED << clock, request >> /\ clock \in Nat /\ clock <= clock
      /\ seen \in [Tokens -> Nat] /\ \A u \in Tokens : seen[u] <= clock /\ Lasts(u)
      /\ SLIDE_THROTTLE \in Nat /\ MaxTransit \in Nat /\ SESSION_TTL \in Nat
  BY DEF mintSession, IInv, Typed, AliveInv, Assumed, AuthAssumption
<1> DEFINE row == [ wallet |-> signIn[c].wallet, expires |-> clock + SESSION_TTL,
                    lastUsed |-> clock, revoked |-> FALSE ]
<1>2. session' = [session EXCEPT ![t] = row] /\ seen' = [seen EXCEPT ![t] = clock]
  BY DEF mintSession
<1>3. row.expires = clock + SESSION_TTL /\ row.lastUsed = clock
  OBVIOUS
<1> HIDE DEF row
<1>4. seen' \in [Tokens -> Nat] /\ \A u \in Tokens : seen'[u] <= clock
  BY <1>1, <1>2
<1>5. ASSUME NEW u \in Tokens PROVE Lasts(u)'
  <2>1. CASE u # t
    BY <1>1, <1>2, <2>1 DEF Lasts, IInv, Typed
  <2>2. CASE u = t
    <3>1. session'[u] = row /\ seen'[u] = clock
      BY <1>1, <1>2, <2>2 DEF IInv, Typed
    <3>2. clock <= clock + SLIDE_THROTTLE + MaxTransit
      BY <1>1
    <3> QED  BY <1>3, <3>1, <3>2 DEF Lasts
  <2> QED  BY <2>1, <2>2
<1> QED  BY <1>1, <1>4, <1>5 DEF AliveInv, UnderWay, NeverEarly

LEMMA AliveRevoke ==
    ASSUME Assumed, IInv, AliveInv, NEW r \in Requests, revokeSessions(r)
    PROVE  AliveInv'
<1>1. request[r] \in Pending
  BY DEF revokeSessions, Present, IInv, Typed, Answered
<1> DEFINE f == [ pc |-> "accepted", late |-> request[r].late, early |-> FALSE ]
<1>2. request' = [request EXCEPT ![r] = f]
  BY DEF revokeSessions, Answer
<1>3. f \in Answered /\ f \notin Pending /\ ~ f.early
  BY <1>1, Answers
<1> HIDE DEF f
<1>4. UNCHANGED << clock, seen >>
  BY DEF revokeSessions
<1>5. ASSUME NEW t \in Tokens PROVE Lasts(t)'
  <2>1. \/ session'[t] = session[t]
        \/ /\ session[t] \in SessionRow
           /\ session'[t] = [session[t] EXCEPT !.revoked = TRUE]
    BY DEF revokeSessions, MayRevoke, Present, IInv, Typed
  <2>2. ASSUME NEW row \in SessionRow
        PROVE  /\ [row EXCEPT !.revoked = TRUE].expires = row.expires
               /\ [row EXCEPT !.revoked = TRUE].lastUsed = row.lastUsed
    BY DEF SessionRow
  <2>3. /\ session'[t] \in SessionRow => session[t] \in SessionRow
        /\ session[t] \in SessionRow => /\ session'[t].expires = session[t].expires
                                        /\ session'[t].lastUsed = session[t].lastUsed
    BY <2>1, <2>2
  <2> QED  BY <1>4, <2>3 DEF AliveInv, Lasts
<1>6. seen' \in [Tokens -> Nat] /\ \A t \in Tokens : seen'[t] <= clock
  BY <1>4 DEF AliveInv
<1> QED  BY <1>2, <1>3, <1>4, <1>5, <1>6, OneRequest

(* The clock does not outrun a statement that is under way. *)
LEMMA AliveOther ==
    ASSUME Assumed, IInv, AliveInv,
           \/ Tick \/ UNCHANGED vars
           \/ \E n \in Nonces, w \in Wallets : issue(n, w)
           \/ \E c \in SignIns, n \in Nonces, w, s \in Wallets : readChallenge(c, n, w, s)
           \/ \E c \in SignIns : verifySignature(c) \/ consumeChallenge(c)
           \/ \E r \in Requests : answered(r)
    PROVE  AliveInv'
<1>1. CASE Tick
  <2>1. /\ UNCHANGED << session, request, seen >> /\ clock' = clock + 1 /\ clock \in Nat
        /\ \A r \in Requests : request[r] \in Pending =>
             /\ clock < request[r].at + MaxTransit /\ request[r].at \in Nat
    BY <1>1 DEF Tick, own, IInv, Typed, Pending
  <2>2. \A t \in Tokens : seen[t] <= clock + 1
    <3>1. \A t \in Tokens : seen[t] \in Nat /\ seen[t] <= clock
      BY DEF AliveInv
    <3> QED  BY <2>1, <3>1
  <2>3. \A r \in Requests : request[r] \in Pending =>
           request[r].at <= clock + 1 /\ clock + 1 <= request[r].at + MaxTransit
    <3>1. MaxTransit \in Nat
      BY DEF Assumed, AuthAssumption
    <3> QED  BY <2>1, <3>1 DEF AliveInv, UnderWay
  <2> QED  BY <2>1, <2>2, <2>3 DEF AliveInv, UnderWay, Lasts, NeverEarly
<1>2. CASE \E r \in Requests : answered(r)
  <2>1. None \notin Pending /\ None \notin Answered
    BY Distinct DEF Present
  <2>2. PICK r \in Requests : answered(r)
    BY <1>2
  <2>3. /\ request' = [request EXCEPT ![r] = None] /\ UNCHANGED << clock, session, seen >>
        /\ seen \in [Tokens -> Nat] /\ \A t \in Tokens : seen[t] <= clock /\ Lasts(t)
    BY <2>2 DEF answered, AliveInv
  <2> QED  BY <2>1, <2>3, OneRequest DEF Lasts
<1>3. CASE UNCHANGED << clock, session, request, seen >>
  BY <1>3 DEF AliveInv, UnderWay, Lasts, NeverEarly
<1> QED  BY <1>1, <1>2, <1>3 DEF issue, readChallenge, verifySignature, consumeChallenge, vars, own

(***************************************************************************)
(* A session that is used more often than its lifetime less the throttle   *)
(* of lib/auth/session.ts is never found expired, however late its slides  *)
(* are written and in whatever order.                                      *)
(***************************************************************************)
THEOREM StaysAlive == ASSUME Assumed PROVE Spec => []UseKeepsAlive
<1>1. Init => AliveInv
  <2> SUFFICES ASSUME Init PROVE AliveInv
    OBVIOUS
  <2>1. None \notin SessionRow \cup Pending \cup Answered
    BY Distinct DEF Present
  <2> QED  BY <2>1 DEF Init, AliveInv, Lasts, UnderWay, NeverEarly
<1>2. IInv /\ AliveInv /\ [Next]_vars => AliveInv'
  BY AliveVerify, AliveSlide, AliveMint, AliveRevoke, AliveOther
     DEF Next, SignInStep, RequestStep
<1>3. AliveInv => UseKeepsAlive
  BY DEF AliveInv, NeverEarly, UseKeepsAlive
<1> QED  BY <1>1, <1>2, <1>3, Invariance, PTL DEF Spec
-----------------------------------------------------------------------------
(* The registry of protocol sessions: how far it can pass its cap.         *)
McpAssumed == Mcp!McpAssumption /\ IsFiniteSet(Ids) /\ IsFiniteSet(Opens)

McpInv == Mcp!TypeOK /\ Mcp!CapacityBounded

(* A request leaves at most the sessions there were. *)
Shrinks == sessions' \in [Ids -> Nat] /\ Mcp!Registered(sessions') \subseteq Mcp!Registered(sessions)

(* The registry counts as this module does. *)
LEMMA SameCardinality == \A s : Mcp!Cardinality(s) = Cardinality(s)
BY DEF Mcp!Cardinality, Cardinality

(* The sizes are numbers. *)
LEMMA Sizes ==
    ASSUME McpAssumed
    PROVE  /\ \A s : IsFiniteSet(Mcp!Registered(s)) /\ Cardinality(Mcp!Registered(s)) \in Nat
           /\ IsFiniteSet(Mcp!Opening) /\ Cardinality(Mcp!Opening) \in Nat
           /\ Cardinality(Opens) \in Nat /\ MAX_SESSIONS \in Nat
<1>1. ASSUME NEW s
      PROVE  IsFiniteSet(Mcp!Registered(s)) /\ Cardinality(Mcp!Registered(s)) \in Nat
  <2>1. Mcp!Registered(s) \in SUBSET Ids
    BY DEF Mcp!Registered
  <2>2. IsFiniteSet(Mcp!Registered(s))
    BY <2>1, FS_Subset DEF McpAssumed
  <2> QED  BY <2>2, FS_CardinalityType
<1>2. Mcp!Opening \in SUBSET Opens
  BY DEF Mcp!Opening
<1>3. IsFiniteSet(Mcp!Opening) /\ IsFiniteSet(Opens)
  BY <1>2, FS_Subset DEF McpAssumed
<1>4. Cardinality(Mcp!Opening) \in Nat /\ Cardinality(Opens) \in Nat
  BY <1>3, FS_CardinalityType
<1> QED  BY <1>1, <1>3, <1>4 DEF McpAssumed, Mcp!McpAssumption

(* The purge drops sessions and adds none. *)
LEMMA Purges ==
    ASSUME Mcp!TypeOK
    PROVE  /\ Mcp!purgeExpiredSessions \in [Ids -> Nat]
           /\ \A i \in Ids : Mcp!purgeExpiredSessions[i] \in {0, sessions[i]}
BY DEF Mcp!purgeExpiredSessions, Mcp!TypeOK

(* A registry that shrank, and as many calls under way or fewer. *)
LEMMA ShrinkInv ==
    ASSUME McpAssumed, McpInv, Shrinks, count' = Cardinality(Mcp!Registered(sessions')),
           closing' \subseteq Ids, open' \in [Opens -> {"idle", "verify", "connect", "handle"}],
           Mcp!Opening' \subseteq Mcp!Opening, UNCHANGED << used, health >>,
           clock' \in Nat
    PROVE  McpInv'
<1>1. /\ Cardinality(Mcp!Registered(sessions')) <= Cardinality(Mcp!Registered(sessions))
      /\ Cardinality(Mcp!Registered(sessions')) \in Nat
  BY Sizes, FS_Subset DEF Shrinks
<1>2. Cardinality(Mcp!Opening') <= Cardinality(Mcp!Opening) /\ Cardinality(Mcp!Opening') \in Nat
  BY Sizes, FS_Subset, FS_CardinalityType
<1>3. Mcp!TypeOK'
  BY <1>1 DEF McpInv, Mcp!TypeOK, Shrinks
<1>4. Mcp!CapacityBounded'
  BY <1>1, <1>2, Sizes, SameCardinality DEF McpInv, Mcp!CapacityBounded
<1> QED  BY <1>3, <1>4 DEF McpInv

(* Requests for a session. *)
LEMMA ExistingInv ==
    ASSUME McpAssumed, McpInv, NEW i \in Ids, Mcp!post(i) \/ Mcp!delete(i) \/ Mcp!sessionClosed(i)
    PROVE  McpInv'
<1>1. Mcp!TypeOK
  BY DEF McpInv
<1>2. Mcp!Opening' \subseteq Mcp!Opening /\ UNCHANGED << clock, open, used, health >>
  BY SameCardinality DEF Mcp!post, Mcp!delete, Mcp!sessionClosed, Mcp!existing, Mcp!Opening
<1>3. count' = Cardinality(Mcp!Registered(sessions'))
  BY SameCardinality DEF Mcp!post, Mcp!delete, Mcp!sessionClosed, Mcp!existing
<1>4. Shrinks
  <2>1. CASE Mcp!existing(i)
    <3>1. \/ sessions' = Mcp!purgeExpiredSessions
          \/ /\ Mcp!purgeExpiredSessions[i] > 0
             /\ sessions' = [Mcp!purgeExpiredSessions EXCEPT ![i] = 1 + clock]
      BY <2>1 DEF Mcp!existing
    <3>2. sessions' \in [Ids -> Nat]
      BY <1>1, <3>1, Purges DEF Mcp!TypeOK
    <3>3. \A j \in Ids : sessions'[j] > 0 => sessions[j] > 0
      BY <1>1, <3>1, Purges DEF Mcp!TypeOK
    <3> QED  BY <3>2, <3>3 DEF Shrinks, Mcp!Registered
  <2>2. CASE Mcp!sessionClosed(i)
    BY <1>1, <2>2 DEF Mcp!sessionClosed, Shrinks, Mcp!Registered, Mcp!TypeOK
  <2> QED  BY <2>1, <2>2 DEF Mcp!post, Mcp!delete
<1>5. closing' \subseteq Ids
  BY <1>1 DEF Mcp!post, Mcp!delete, Mcp!sessionClosed, Mcp!TypeOK
<1> QED  BY <1>1, <1>2, <1>3, <1>4, <1>5, ShrinkInv DEF Mcp!TypeOK

(* A call that begins is checked against the cap. *)
LEMMA InitializeInv ==
    ASSUME McpAssumed, McpInv, NEW c \in Opens, Mcp!initialize(c)
    PROVE  McpInv'
<1>1. Mcp!TypeOK
  BY DEF McpInv
<1>2. /\ open[c] = "idle" /\ sessions' = Mcp!purgeExpiredSessions
      /\ count' = Cardinality(Mcp!Registered(sessions'))
      /\ UNCHANGED << clock, closing, used, health >>
  BY SameCardinality DEF Mcp!initialize
<1>3. Shrinks
  BY <1>1, <1>2, Purges DEF Shrinks, Mcp!Registered, Mcp!TypeOK
<1>4. CASE UNCHANGED open
  <2>1. Mcp!Opening' \subseteq Mcp!Opening
    BY <1>4 DEF Mcp!Opening
  <2> QED  BY <1>1, <1>2, <1>3, <1>4, <2>1, ShrinkInv DEF Mcp!TypeOK
<1>5. CASE ~ (count' >= MAX_SESSIONS)
  <2>1. PICK next \in {"verify", "connect"} : open' = [open EXCEPT ![c] = next]
    BY <1>5 DEF Mcp!initialize
  <2>2. open' \in [Opens -> {"idle", "verify", "connect", "handle"}]
    BY <1>1, <2>1 DEF Mcp!TypeOK
  <2>3. Mcp!Opening' \in SUBSET Opens
    BY DEF Mcp!Opening
  <2>4. Cardinality(Mcp!Opening') <= Cardinality(Opens) /\ Cardinality(Mcp!Opening') \in Nat
    <3>1. IsFiniteSet(Opens) /\ IsFiniteSet(Mcp!Opening')
      BY <2>3, FS_Subset DEF McpAssumed
    <3> QED  BY <2>3, <3>1, FS_Subset, FS_CardinalityType
  <2>5. Cardinality(Mcp!Registered(sessions')) \in Nat
    BY Sizes
  <2>6. Mcp!CapacityBounded'
    BY <1>2, <1>5, <2>4, <2>5, Sizes, SameCardinality DEF Mcp!CapacityBounded, McpInv
  <2>7. Mcp!TypeOK'
    BY <1>1, <1>2, <1>3, <2>2, <2>5 DEF Mcp!TypeOK, Shrinks
  <2> QED  BY <2>6, <2>7 DEF McpInv
<1> QED  BY <1>4, <1>5 DEF Mcp!initialize

(* A call that is under way goes on, ends, or becomes a session. *)
LEMMA OpeningInv ==
    ASSUME McpAssumed, McpInv, NEW c \in Opens,
           Mcp!verified(c) \/ Mcp!connected(c) \/ \E i \in Ids : Mcp!sessionInitialized(c, i)
    PROVE  McpInv'
<1>1. Mcp!TypeOK
  BY DEF McpInv
<1>2. open[c] # "idle" /\ UNCHANGED << clock, closing, health >>
  BY DEF Mcp!verified, Mcp!connected, Mcp!sessionInitialized
<1>3. CASE Mcp!verified(c) \/ Mcp!connected(c)
  <2>1. PICK next \in {"connect", "handle", "idle"} : open' = [open EXCEPT ![c] = next]
    BY <1>3 DEF Mcp!verified, Mcp!connected
  <2>2. UNCHANGED << sessions, count, used >>
    BY <1>3 DEF Mcp!verified, Mcp!connected
  <2>3. /\ open' \in [Opens -> {"idle", "verify", "connect", "handle"}]
        /\ Mcp!Opening' \subseteq Mcp!Opening
    BY <1>1, <1>2, <2>1 DEF Mcp!TypeOK, Mcp!Opening
  <2>4. Shrinks /\ count' = Cardinality(Mcp!Registered(sessions'))
    BY <1>1, <2>2, SameCardinality DEF Shrinks, Mcp!TypeOK, McpInv, Mcp!CapacityBounded
  <2> QED  BY <1>1, <1>2, <2>2, <2>3, <2>4, ShrinkInv DEF Mcp!TypeOK
<1>4. ASSUME NEW i \in Ids, Mcp!sessionInitialized(c, i) PROVE McpInv'
  <2>1. open' = [open EXCEPT ![c] = "idle"]
    BY <1>4 DEF Mcp!sessionInitialized
  <2>2. /\ open' \in [Opens -> {"idle", "verify", "connect", "handle"}]
        /\ Mcp!Opening' = Mcp!Opening \ {c} /\ c \in Mcp!Opening
    BY <1>1, <1>2, <2>1 DEF Mcp!TypeOK, Mcp!Opening
  <2>3. CASE UNCHANGED << sessions, count, used >>
    <3>1. Shrinks /\ count' = Cardinality(Mcp!Registered(sessions'))
      BY <1>1, <2>3, SameCardinality DEF Shrinks, Mcp!TypeOK, McpInv, Mcp!CapacityBounded
    <3> QED  BY <1>1, <1>2, <2>2, <2>3, <3>1, ShrinkInv DEF Mcp!TypeOK
  <2>4. CASE /\ sessions' = [sessions EXCEPT ![i] = 1 + clock]
             /\ count' = Cardinality(Mcp!Registered(sessions'))
             /\ used' = used \cup {i}
    <3>1. sessions' \in [Ids -> Nat] /\ Mcp!Registered(sessions') = Mcp!Registered(sessions) \cup {i}
      BY <1>1, <2>4 DEF Mcp!TypeOK, Mcp!Registered
    <3>2. /\ Cardinality(Mcp!Registered(sessions')) <= Cardinality(Mcp!Registered(sessions)) + 1
          /\ Cardinality(Mcp!Registered(sessions')) \in Nat
      <4>1. Cardinality(Mcp!Registered(sessions) \cup {i}) =
              IF i \in Mcp!Registered(sessions) THEN Cardinality(Mcp!Registered(sessions))
              ELSE Cardinality(Mcp!Registered(sessions)) + 1
        BY Sizes, FS_AddElement
      <4> QED  BY <3>1, <4>1, Sizes
    <3>3. Cardinality(Mcp!Opening') = Cardinality(Mcp!Opening) - 1
      BY <2>2, Sizes, FS_RemoveElement
    <3>4. Mcp!CapacityBounded'
      BY <1>2, <2>4, <3>2, <3>3, Sizes, SameCardinality DEF McpInv, Mcp!CapacityBounded
    <3>5. Mcp!TypeOK'
      BY <1>1, <1>2, <2>2, <2>4, <3>1, <3>2 DEF Mcp!TypeOK
    <3> QED  BY <3>4, <3>5 DEF McpInv
  <2> QED  BY <1>4, <2>3, <2>4, SameCardinality DEF Mcp!sessionInitialized
<1> QED  BY <1>3, <1>4

(* The health check and the clock. *)
LEMMA OtherInv ==
    ASSUME McpAssumed, McpInv,
           (\E db, escrow \in BOOLEAN : Mcp!healthCheck(db, escrow)) \/ Mcp!Tick \/ UNCHANGED Mcp!vars
    PROVE  McpInv'
<1>1. UNCHANGED << sessions, count, open, closing, used >> /\ clock' \in Nat
  BY SameCardinality DEF Mcp!healthCheck, Mcp!Tick, Mcp!vars, Mcp!own, McpInv, Mcp!TypeOK
<1>2. Mcp!Opening' = Mcp!Opening
  BY <1>1 DEF Mcp!Opening
<1>3. \/ UNCHANGED health
      \/ \E ok \in BOOLEAN :
           health' = [ ok |-> ok, count |-> count, size |-> Cardinality(Mcp!Registered(sessions)) ]
  BY SameCardinality DEF Mcp!healthCheck, Mcp!Tick, Mcp!vars, Mcp!own
<1>4. Cardinality(Mcp!Registered(sessions)) \in Nat
  BY Sizes
<1>5. Mcp!TypeOK'
  BY <1>1, <1>3, <1>4 DEF McpInv, Mcp!TypeOK
<1>6. Mcp!CapacityBounded'
  BY <1>1, <1>2, <1>3, SameCardinality DEF McpInv, Mcp!CapacityBounded
<1> QED  BY <1>5, <1>6 DEF McpInv

(***************************************************************************)
(* The cap on sessions is checked several awaits before a session is       *)
(* entered, so it can be passed; but never by more than the calls that     *)
(* were under way together, less one, and every answer of /api/health      *)
(* reports the size the registry had.                                      *)
(***************************************************************************)
THEOREM CapacityTheorem ==
    ASSUME McpAssumed
    PROVE  Mcp!Spec => []Mcp!CapacityBounded
<1>1. Mcp!Init => McpInv
  <2> SUFFICES ASSUME Mcp!Init PROVE McpInv
    OBVIOUS
  <2>1. Mcp!Registered(sessions) = {} /\ Mcp!Opening = {}
    BY DEF Mcp!Init, Mcp!Registered, Mcp!Opening
  <2>2. Cardinality(Mcp!Registered(sessions)) = 0 /\ Cardinality(Mcp!Opening) = 0
    BY <2>1, FS_EmptySet
  <2>3. Mcp!TypeOK
    BY <2>1 DEF Mcp!Init, Mcp!TypeOK
  <2>4. Mcp!CapacityBounded
    BY <2>2, Sizes, SameCardinality DEF Mcp!Init, Mcp!CapacityBounded, McpAssumed, Mcp!McpAssumption
  <2> QED  BY <2>3, <2>4 DEF McpInv
<1>2. McpInv /\ [Mcp!Next]_Mcp!vars => McpInv'
  BY ExistingInv, InitializeInv, OpeningInv, OtherInv DEF Mcp!Next
<1>3. McpInv => Mcp!CapacityBounded
  BY DEF McpInv
<1> QED  BY <1>1, <1>2, <1>3, PTL DEF Mcp!Spec
-----------------------------------------------------------------------------
(***************************************************************************)
(* The limiter in memory.  A window starts at a request and lasts          *)
(* windowMs; what is let through in it is counted, and any span as long as *)
(* the window meets two windows at most.                                   *)
(***************************************************************************)
LimitAssumed == Limiter!LimitAssumption /\ Backend = "memory" /\ LimiterEnd \in Nat

Span(from, to) == { t \in 0 .. LimiterEnd : from <= t /\ t <= to }

(* The ticks f of requests let through, when the window that started at s  *)
(* has counted n.                                                          *)
Within(f, s, n) ==
    /\ \A t \in 0 .. LimiterEnd : f[t] # 0 => n > 0 /\ t <= s + windowMs
    /\ SumFunctionOnSet(f, Span(s, LimiterEnd)) <= n
    /\ SumFunctionOnSet(f, Span(s, LimiterEnd)) <= maxRequests
    /\ \A t \in 0 .. LimiterEnd :
         t + windowMs >= s => SumFunctionOnSet(f, Span(t, s - 1)) <= maxRequests
    /\ \A t \in 0 .. LimiterEnd : SumFunctionOnSet(f, Span(t, t + windowMs)) <= 2 * maxRequests

Limited(c) ==
    /\ entry[c].since <= clock
    /\ Within(passed[c], entry[c].since, entry[c].count)
    /\ ~ reply[c].success => /\ entry[c].count > 0
                             /\ reply[c].at + reply[c].retryAfterS = entry[c].since + windowMs

LimitTyped ==
    /\ clock \in 0 .. LimiterEnd
    /\ entry \in [Clients -> [ count : Nat, since : Nat ]]
    /\ reply \in [Clients -> [ success : BOOLEAN, retryAfterS : Int, at : Nat ]]
    /\ passed \in [Clients -> [0 .. LimiterEnd -> Nat]]

LimitInv == LimitTyped /\ \A c \in Clients : Limited(c)

LEMMA SpanFinite ==
    ASSUME LimitAssumed, NEW a, NEW b
    PROVE  IsFiniteSet(Span(a, b)) /\ Span(a, b) \subseteq 0 .. LimiterEnd
<1>1. 0 \in Int /\ LimiterEnd \in Int
  BY DEF LimitAssumed
<1>2. IsFiniteSet(0 .. LimiterEnd)
  BY <1>1, FS_Interval
<1>3. Span(a, b) \in SUBSET (0 .. LimiterEnd)
  BY DEF Span
<1> QED  BY <1>2, <1>3, FS_Subset

LEMMA SpanSums ==
    ASSUME LimitAssumed, NEW f \in [0 .. LimiterEnd -> Nat], NEW a, NEW b
    PROVE  SumFunctionOnSet(f, Span(a, b)) \in Nat
<1>1. \A x \in Span(a, b) : f[x] \in Nat
  BY SpanFinite
<1> QED  BY <1>1, SpanFinite, SumType

LEMMA SpanWithin ==
    ASSUME LimitAssumed, NEW f \in [0 .. LimiterEnd -> Nat], NEW a, NEW b, NEW c, NEW d,
           Span(a, b) \subseteq Span(c, d)
    PROVE  SumFunctionOnSet(f, Span(a, b)) <= SumFunctionOnSet(f, Span(c, d))
<1>1. Span(a, b) \in SUBSET Span(c, d)
  OBVIOUS
<1>2. IsFiniteSet(Span(c, d)) /\ \A x \in Span(c, d) : f[x] \in Nat
  BY SpanFinite
<1> QED  BY <1>1, <1>2, SumWithin

(* A span that reaches the current window meets it and one other at most.  *)
LEMMA TwoWindows ==
    ASSUME LimitAssumed, NEW f \in [0 .. LimiterEnd -> Nat], NEW s \in Nat,
           SumFunctionOnSet(f, Span(s, LimiterEnd)) <= maxRequests,
           NEW t \in 0 .. LimiterEnd, t + windowMs >= s,
           SumFunctionOnSet(f, Span(t, s - 1)) <= maxRequests
    PROVE  SumFunctionOnSet(f, Span(t, t + windowMs)) <= 2 * maxRequests
<1>0. maxRequests \in Nat /\ windowMs \in Nat /\ LimiterEnd \in Nat /\ t \in Nat
  BY DEF LimitAssumed, Limiter!LimitAssumption
<1> DEFINE before == SumFunctionOnSet(f, Span(t, s - 1))
           after  == SumFunctionOnSet(f, Span(s, t + windowMs))
           all    == SumFunctionOnSet(f, Span(t, t + windowMs))
           within == SumFunctionOnSet(f, Span(s, LimiterEnd))
<1>1. before \in Nat /\ after \in Nat /\ all \in Nat /\ within \in Nat
  BY SpanSums
<1>2. CASE t >= s
  <2>1. Span(t, t + windowMs) \subseteq Span(s, LimiterEnd)
    BY <1>0, <1>2 DEF Span
  <2>2. all <= within
    BY <2>1, SpanWithin
  <2> HIDE DEF all, within
  <2>3. within <= maxRequests
    BY DEF within
  <2>4. all <= 2 * maxRequests
    BY <1>0, <1>1, <2>2, <2>3
  <2> QED  BY <2>4 DEF all
<1>3. CASE t < s
  <2>1. /\ Span(t, s - 1) \cap Span(s, t + windowMs) = {}
        /\ Span(t, s - 1) \cup Span(s, t + windowMs) = Span(t, t + windowMs)
    BY <1>0, <1>3 DEF Span
  <2>2. Span(s, t + windowMs) \subseteq Span(s, LimiterEnd)
    BY DEF Span
  <2>3. after <= within
    BY <2>2, SpanWithin
  <2>4. \A x \in Span(t, s - 1) \cup Span(s, t + windowMs) : f[x] \in Int
    BY SpanFinite
  <2>5. all = before + after
    <3> DEFINE S == Span(t, s - 1)
               T == Span(s, t + windowMs)
    <3>1. IsFiniteSet(S) /\ IsFiniteSet(T)
      BY SpanFinite
    <3>2. S \cap T = {} /\ \A x \in S \cup T : f[x] \in Int
      BY <2>1, <2>4
    <3> HIDE DEF S, T
    <3>3. SumFunctionOnSet(f, S \cup T) = SumFunctionOnSet(f, S) + SumFunctionOnSet(f, T)
      BY <3>1, <3>2, SumParts
    <3> QED  BY <2>1, <3>3 DEF S, T
  <2>6. before <= maxRequests /\ within <= maxRequests
    OBVIOUS
  <2> HIDE DEF all, within, before, after
  <2>7. all <= 2 * maxRequests
    BY <1>0, <1>1, <2>3, <2>5, <2>6
  <2> QED  BY <2>7 DEF all
<1> QED  BY <1>0, <1>2, <1>3

(* One more request is let through at k. *)
Raised(f, k) == [f EXCEPT ![k] = @ + 1]

LEMMA RaisedType ==
    ASSUME NEW f \in [0 .. LimiterEnd -> Nat], NEW k \in 0 .. LimiterEnd
    PROVE  Raised(f, k) \in [0 .. LimiterEnd -> Nat]
BY DEF Raised

LEMMA OneMore ==
    ASSUME LimitAssumed, NEW f \in [0 .. LimiterEnd -> Nat], NEW k \in 0 .. LimiterEnd,
           NEW g, g = Raised(f, k), NEW a, NEW b
    PROVE  /\ a <= k /\ k <= b =>
                SumFunctionOnSet(g, Span(a, b)) = SumFunctionOnSet(f, Span(a, b)) + 1
           /\ ~ (a <= k /\ k <= b) =>
                SumFunctionOnSet(g, Span(a, b)) = SumFunctionOnSet(f, Span(a, b))
<1>1. g[k] = f[k] + 1 /\ \A x \in (0 .. LimiterEnd) \ {k} : g[x] = f[x]
  BY DEF Raised
<1>2. IsFiniteSet(Span(a, b)) /\ Span(a, b) \subseteq 0 .. LimiterEnd
  BY SpanFinite
<1>3. ASSUME a <= k /\ k <= b
      PROVE  SumFunctionOnSet(g, Span(a, b)) = SumFunctionOnSet(f, Span(a, b)) + 1
  <2>1. k \in Span(a, b)
    BY <1>3 DEF Span
  <2>2. \A x \in Span(a, b) : f[x] \in Nat
    BY <1>2
  <2>3. \A x \in Span(a, b) : x # k => g[x] = f[x]
    BY <1>1, <1>2
  <2> DEFINE S == Span(a, b)
  <2>4. IsFiniteSet(S) /\ k \in S /\ \A x \in S : f[x] \in Nat
    BY <1>2, <2>1, <2>2
  <2>5. \A x \in S : x # k => g[x] = f[x]
    BY <2>3
  <2> HIDE DEF S
  <2>6. SumFunctionOnSet(g, S) = SumFunctionOnSet(f, S) + 1
    <3>1. g[k] = f[k] + 1
      BY <1>1
    <3> QED  BY <2>4, <2>5, <3>1, SumRaised
  <2> QED  BY <2>6 DEF S
<1>4. ASSUME ~ (a <= k /\ k <= b)
      PROVE  SumFunctionOnSet(g, Span(a, b)) = SumFunctionOnSet(f, Span(a, b))
  <2>1. k \notin Span(a, b)
    BY <1>4 DEF Span
  <2>2. \A x \in Span(a, b) : g[x] = f[x]
    BY <1>1, <1>2, <2>1
  <2> QED  BY <1>2, <2>2, SumSame
<1> QED  BY <1>3, <1>4

(* A request starts a window. *)
LEMMA NewWindow ==
    ASSUME LimitAssumed, NEW f \in [0 .. LimiterEnd -> Nat], NEW s \in Nat, NEW n \in Nat,
           Within(f, s, n), NEW k \in 0 .. LimiterEnd, n = 0 \/ k - s > windowMs
    PROVE  Within(Raised(f, k), k, 1)
<1> DEFINE g == Raised(f, k)
<1>0. /\ maxRequests \in Nat /\ maxRequests >= 1 /\ windowMs \in Nat /\ LimiterEnd \in Nat
      /\ k \in Nat /\ k <= LimiterEnd
  BY DEF LimitAssumed, Limiter!LimitAssumption
<1>1. g \in [0 .. LimiterEnd -> Nat] /\ g = Raised(f, k) /\ \A x \in 0 .. LimiterEnd : x # k => g[x] = f[x]
  BY DEF Raised
<1> HIDE DEF g
<1>2. \A t \in 0 .. LimiterEnd : t >= k => f[t] = 0
  BY <1>0 DEF Within
<1>3. \A t \in 0 .. LimiterEnd : g[t] # 0 => 1 > 0 /\ t <= k + windowMs
  <2>1. \A t \in 0 .. LimiterEnd : g[t] # 0 => f[t] # 0 \/ t = k
    BY <1>1
  <2>2. \A t \in 0 .. LimiterEnd : f[t] # 0 => t < k
    BY <1>0, <1>2
  <2> QED  BY <1>0, <2>1, <2>2
<1>4. SumFunctionOnSet(g, Span(k, LimiterEnd)) = 1
  <2>1. \A t \in Span(k, LimiterEnd) : f[t] = 0
    BY <1>2 DEF Span
  <2>2. SumFunctionOnSet(f, Span(k, LimiterEnd)) = 0
    BY <2>1, SpanFinite, SumZero
  <2>3. k <= k /\ k <= LimiterEnd
    BY <1>0
  <2>4. SumFunctionOnSet(g, Span(k, LimiterEnd)) = SumFunctionOnSet(f, Span(k, LimiterEnd)) + 1
    BY <1>1, <2>3, OneMore
  <2> QED  BY <2>2, <2>4
<1>5. ASSUME NEW t \in 0 .. LimiterEnd, t + windowMs >= k
      PROVE  SumFunctionOnSet(g, Span(t, k - 1)) <= maxRequests
  <2>1. SumFunctionOnSet(g, Span(t, k - 1)) = SumFunctionOnSet(f, Span(t, k - 1))
    <3>1. ~ (t <= k /\ k <= k - 1)
      BY <1>0
    <3> QED  BY <1>1, <3>1, OneMore
  <2>2. CASE n = 0
    <3>1. \A x \in Span(t, k - 1) : f[x] = 0
      BY <2>2, SpanFinite DEF Within
    <3>2. SumFunctionOnSet(f, Span(t, k - 1)) = 0
      BY <3>1, SpanFinite, SumZero
    <3> QED  BY <1>0, <2>1, <3>2
  <2>3. CASE k - s > windowMs
    <3>1. Span(t, k - 1) \subseteq Span(s, LimiterEnd)
      BY <1>0, <1>5, <2>3 DEF Span
    <3>2. SumFunctionOnSet(f, Span(t, k - 1)) <= SumFunctionOnSet(f, Span(s, LimiterEnd))
      BY <3>1, SpanWithin
    <3>3. SumFunctionOnSet(f, Span(s, LimiterEnd)) <= maxRequests
      BY DEF Within
    <3>4. /\ SumFunctionOnSet(f, Span(t, k - 1)) \in Nat
          /\ SumFunctionOnSet(f, Span(s, LimiterEnd)) \in Nat
      BY SpanSums
    <3> QED  BY <1>0, <2>1, <3>2, <3>3, <3>4
  <2> QED  BY <2>2, <2>3
<1>6. ASSUME NEW t \in 0 .. LimiterEnd
      PROVE  SumFunctionOnSet(g, Span(t, t + windowMs)) <= 2 * maxRequests
  <2>1. CASE t + windowMs >= k
    <3> QED  BY <1>0, <1>1, <1>4, <1>5, <2>1, TwoWindows
  <2>2. CASE ~ (t + windowMs >= k)
    <3>1. ~ (t <= k /\ k <= t + windowMs)
      BY <1>0, <2>2
    <3>2. SumFunctionOnSet(g, Span(t, t + windowMs)) = SumFunctionOnSet(f, Span(t, t + windowMs))
      BY <1>1, <3>1, OneMore
    <3> QED  BY <3>2 DEF Within
  <2> QED  BY <2>1, <2>2
<1>7. Within(g, k, 1)
  BY <1>0, <1>3, <1>4, <1>5, <1>6 DEF Within
<1> QED  BY <1>7 DEF g

(* A request is counted in the window that is open. *)
LEMMA SameWindow ==
    ASSUME LimitAssumed, NEW f \in [0 .. LimiterEnd -> Nat], NEW s \in Nat, NEW n \in Nat,
           Within(f, s, n), NEW k \in 0 .. LimiterEnd, s <= k, k - s <= windowMs,
           n + 1 <= maxRequests
    PROVE  Within(Raised(f, k), s, n + 1)
<1> DEFINE g == Raised(f, k)
<1>0. /\ maxRequests \in Nat /\ windowMs \in Nat /\ LimiterEnd \in Nat
      /\ k \in Nat /\ k <= LimiterEnd
  BY DEF LimitAssumed, Limiter!LimitAssumption
<1>1. g \in [0 .. LimiterEnd -> Nat] /\ g = Raised(f, k) /\ \A x \in 0 .. LimiterEnd : x # k => g[x] = f[x]
  BY DEF Raised
<1> HIDE DEF g
<1>2. \A t \in 0 .. LimiterEnd : g[t] # 0 => n + 1 > 0 /\ t <= s + windowMs
  <2>1. \A t \in 0 .. LimiterEnd : g[t] # 0 => f[t] # 0 \/ t = k
    BY <1>1
  <2>2. \A t \in 0 .. LimiterEnd : f[t] # 0 => t <= s + windowMs
    BY Zenon DEF Within
  <2>3. k <= s + windowMs /\ n + 1 > 0
    BY <1>0
  <2> QED  BY <2>1, <2>2, <2>3, Zenon
<1>3. /\ SumFunctionOnSet(g, Span(s, LimiterEnd)) <= n + 1
      /\ SumFunctionOnSet(g, Span(s, LimiterEnd)) <= maxRequests
  <2>1. SumFunctionOnSet(g, Span(s, LimiterEnd)) = SumFunctionOnSet(f, Span(s, LimiterEnd)) + 1
    BY <1>0, <1>1, OneMore, SMTT(30)
  <2>2. SumFunctionOnSet(f, Span(s, LimiterEnd)) \in Nat
    BY SpanSums
  <2>3. SumFunctionOnSet(f, Span(s, LimiterEnd)) <= n
    BY DEF Within
  <2> QED  BY <1>0, <2>1, <2>2, <2>3
<1>4. ASSUME NEW t \in 0 .. LimiterEnd, t + windowMs >= s
      PROVE  SumFunctionOnSet(g, Span(t, s - 1)) <= maxRequests
  <2>1. SumFunctionOnSet(g, Span(t, s - 1)) = SumFunctionOnSet(f, Span(t, s - 1))
    <3>1. ~ (t <= k /\ k <= s - 1)
      BY <1>0
    <3> QED  BY <1>1, <3>1, OneMore
  <2> QED  BY <1>4, <2>1 DEF Within
<1>5. ASSUME NEW t \in 0 .. LimiterEnd
      PROVE  SumFunctionOnSet(g, Span(t, t + windowMs)) <= 2 * maxRequests
  <2>1. CASE t + windowMs >= s
    <3> QED  BY <1>0, <1>1, <1>3, <1>4, <2>1, TwoWindows
  <2>2. CASE ~ (t + windowMs >= s)
    <3>1. ~ (t <= k /\ k <= t + windowMs)
      BY <1>0, <2>2
    <3>2. SumFunctionOnSet(g, Span(t, t + windowMs)) = SumFunctionOnSet(f, Span(t, t + windowMs))
      BY <1>1, <3>1, OneMore
    <3> QED  BY <3>2 DEF Within
  <2> QED  BY <2>1, <2>2
<1>6. Within(g, s, n + 1)
  BY <1>2, <1>3, <1>4, <1>5 DEF Within
<1> QED  BY <1>6 DEF g

(* A request that is refused is counted too. *)
LEMMA RefusedCounts ==
    ASSUME LimitAssumed, NEW f \in [0 .. LimiterEnd -> Nat], NEW s \in Nat, NEW n \in Nat,
           Within(f, s, n)
    PROVE  Within(f, s, n + 1)
<1>1. SumFunctionOnSet(f, Span(s, LimiterEnd)) \in Nat
  BY SpanSums
<1>2. /\ \A t \in 0 .. LimiterEnd : f[t] # 0 => n + 1 > 0 /\ t <= s + windowMs
      /\ SumFunctionOnSet(f, Span(s, LimiterEnd)) <= n + 1
  BY <1>1 DEF Within
<1> QED  BY <1>2 DEF Within

(* One request. *)
LEMMA LimitStep ==
    ASSUME LimitAssumed, LimitInv, NEW c \in Clients, Limiter!limit(c)
    PROVE  LimitInv'
<1> DEFINE e == entry[c]
           raised == Raised(passed[c], clock)
           rejoin(success, retry) == [ success |-> success, retryAfterS |-> retry, at |-> clock ]
<1>1. /\ LimitTyped /\ Limited(c) /\ e \in [ count : Nat, since : Nat ]
      /\ e.count \in Nat /\ e.since \in Nat /\ passed[c] \in [0 .. LimiterEnd -> Nat]
      /\ clock \in 0 .. LimiterEnd /\ clock' = clock
      /\ windowMs \in Nat
  BY DEF LimitInv, LimitTyped, Limiter!limit, LimitAssumed, Limiter!LimitAssumption
<1>2. Limiter!limitInMemory(c)
  BY DEF Limiter!limit, LimitAssumed
<1>3. Within(passed[c], e.since, e.count) /\ e.since <= clock
  BY <1>1 DEF Limited
<1>4. ASSUME NEW e2 \in [ count : Nat, since : Nat ], NEW f \in [0 .. LimiterEnd -> Nat],
             NEW a \in [ success : BOOLEAN, retryAfterS : Int, at : Nat ],
             entry' = [entry EXCEPT ![c] = e2], reply' = [reply EXCEPT ![c] = a],
             passed' = [passed EXCEPT ![c] = f],
             e2.since <= clock, Within(f, e2.since, e2.count),
             ~ a.success => e2.count > 0 /\ a.at + a.retryAfterS = e2.since + windowMs
      PROVE  LimitInv'
  <2>1. LimitTyped'
    BY <1>1, <1>4 DEF LimitTyped
  <2>2. ASSUME NEW d \in Clients PROVE Limited(d)'
    <3>1. CASE d = c
      <4>1. entry'[d] = e2 /\ reply'[d] = a /\ passed'[d] = f
        BY <1>1, <1>4, <3>1 DEF LimitTyped
      <4>2. Within(f, e2.since, e2.count)'
        BY <1>4 DEF Within
      <4> QED  BY <1>1, <1>4, <4>1, <4>2 DEF Limited, Within
    <3>2. CASE d # c
      <4>1. entry'[d] = entry[d] /\ reply'[d] = reply[d] /\ passed'[d] = passed[d]
        BY <1>1, <1>4, <3>2 DEF LimitTyped
      <4> QED  BY <1>1, <4>1 DEF LimitInv, Limited, Within
    <3> QED  BY <3>1, <3>2
  <2> QED  BY <2>1, <2>2 DEF LimitInv
<1>5. /\ raised \in [0 .. LimiterEnd -> Nat]
      /\ [passed EXCEPT ![c][clock] = @ + 1] = [passed EXCEPT ![c] = raised]
  <2>1. raised \in [0 .. LimiterEnd -> Nat]
    BY <1>1, RaisedType
  <2>2. [passed EXCEPT ![c][clock] = @ + 1] = [passed EXCEPT ![c] = raised]
    BY DEF Raised
  <2> QED  BY <2>1, <2>2
<1>6. CASE e.count = 0 \/ clock - e.since > windowMs
  <2> DEFINE e2 == [ count |-> 1, since |-> clock ]
             a  == rejoin(TRUE, 0)
  <2>1. /\ entry' = [entry EXCEPT ![c] = e2] /\ reply' = [reply EXCEPT ![c] = a]
        /\ passed' = [passed EXCEPT ![c] = raised]
    BY <1>2, <1>5, <1>6 DEF Limiter!limitInMemory, Limiter!Admit
  <2>2. Within(raised, clock, 1)
    BY <1>1, <1>3, <1>6, NewWindow
  <2>3. /\ e2 \in [ count : Nat, since : Nat ] /\ e2.since = clock /\ e2.count = 1
        /\ a \in [ success : BOOLEAN, retryAfterS : Int, at : Nat ] /\ a.success
        /\ clock <= clock
    BY <1>1
  <2> HIDE DEF raised, e2, a
  <2> QED  BY <1>1, <1>4, <1>5, <2>1, <2>2, <2>3
<1>7. CASE ~ (e.count = 0 \/ clock - e.since > windowMs)
  <2> DEFINE e2 == [ count |-> e.count + 1, since |-> e.since ]
  <2>1. entry' = [entry EXCEPT ![c] = e2] /\ e2 \in [ count : Nat, since : Nat ]
    <3>1. entry' = [entry EXCEPT ![c].count = @ + 1]
      BY <1>2, <1>7 DEF Limiter!limitInMemory
    <3>2. [entry[c] EXCEPT !.count = @ + 1] = e2
      BY <1>1
    <3>3. [entry EXCEPT ![c].count = @ + 1] = [entry EXCEPT ![c] = [entry[c] EXCEPT !.count = @ + 1]]
      OBVIOUS
    <3>4. e2 \in [ count : Nat, since : Nat ]
      BY <1>1
    <3> HIDE DEF e2
    <3> QED  BY <3>1, <3>2, <3>3, <3>4
  <2>2. CASE e.count + 1 > maxRequests
    <3> DEFINE a == rejoin(FALSE, e.since + windowMs - clock)
    <3>1. reply' = [reply EXCEPT ![c] = a] /\ passed' = passed
      BY <1>2, <1>7, <2>2 DEF Limiter!limitInMemory, Limiter!Admit
    <3>2. passed' = [passed EXCEPT ![c] = passed[c]]
      BY <1>1, <3>1 DEF LimitTyped
    <3>3. a \in [ success : BOOLEAN, retryAfterS : Int, at : Nat ]
      BY <1>1
    <3>4. Within(passed[c], e.since, e.count + 1)
      BY <1>1, <1>3, RefusedCounts
    <3>5. /\ a.at + a.retryAfterS = e.since + windowMs
          /\ e2.since = e.since /\ e2.count = e.count + 1 /\ e2.count > 0
      BY <1>1
    <3> HIDE DEF a, e2
    <3> QED  BY <1>1, <1>3, <1>4, <2>1, <3>1, <3>2, <3>3, <3>4, <3>5
  <2>3. CASE ~ (e.count + 1 > maxRequests)
    <3> DEFINE a == rejoin(TRUE, 0)
    <3>1. reply' = [reply EXCEPT ![c] = a] /\ passed' = [passed EXCEPT ![c] = raised]
      BY <1>2, <1>5, <1>7, <2>3 DEF Limiter!limitInMemory, Limiter!Admit
    <3>2. /\ a \in [ success : BOOLEAN, retryAfterS : Int, at : Nat ] /\ a.success
          /\ e2.since = e.since /\ e2.count = e.count + 1
      BY <1>1
    <3>3. Within(raised, e.since, e.count + 1)
      <4>1. e.count + 1 <= maxRequests /\ clock - e.since <= windowMs
        BY <1>1, <1>7, <2>3 DEF LimitAssumed, Limiter!LimitAssumption
      <4> QED  BY <1>1, <1>3, <4>1, SameWindow
    <3> HIDE DEF raised, a, e2
    <3> QED  BY <1>1, <1>3, <1>4, <1>5, <2>1, <3>1, <3>2, <3>3
  <2> QED  BY <2>2, <2>3
<1> QED  BY <1>6, <1>7

(* The sums of the limiter are those of this module. *)
LEMMA SameSums == \A f, s : Limiter!SumFunctionOnSet(f, s) = SumFunctionOnSet(f, s)
BY DEF Limiter!SumFunctionOnSet, Limiter!FoldFunctionOnSet, Limiter!MapThenFoldSet,
       SumFunctionOnSet, FoldFunctionOnSet, MapThenFoldSet

(***************************************************************************)
(* limitInMemory of ratelimit.ts, for any number of clients, any window    *)
(* and any number of requests: a window sees no more than the limit, a     *)
(* span as long as one no more than twice the limit, and a refused client  *)
(* that stays away as long as it was told is let through again.            *)
(***************************************************************************)
THEOREM WindowsLimit ==
    ASSUME LimitAssumed
    PROVE  Limiter!Spec => []Limiter!MemoryWindow
<1>1. Limiter!Init => LimitInv
  <2> SUFFICES ASSUME Limiter!Init PROVE LimitInv
    OBVIOUS
  <2>1. /\ LimitTyped
        /\ \A c \in Clients : /\ entry[c] = [ count |-> 0, since |-> 0 ] /\ reply[c].success
                              /\ passed[c] = [t \in 0 .. LimiterEnd |-> 0]
    BY DEF Limiter!Init, Limiter!None, Limiter!Ticks, LimitTyped, LimitAssumed
  <2>2. Within([t \in 0 .. LimiterEnd |-> 0], 0, 0)
    <3> DEFINE zero == [t \in 0 .. LimiterEnd |-> 0]
    <3>1. ASSUME NEW a, NEW b PROVE SumFunctionOnSet(zero, Span(a, b)) = 0
      <4>1. \A x \in Span(a, b) : zero[x] = 0
        BY SpanFinite
      <4> HIDE DEF zero
      <4> QED  BY <4>1, SpanFinite, SumZero
    <3>2. \A t \in 0 .. LimiterEnd : zero[t] = 0
      OBVIOUS
    <3>3. maxRequests \in Nat
      BY DEF LimitAssumed, Limiter!LimitAssumption
    <3> HIDE DEF zero
    <3>4. Within(zero, 0, 0)
      BY <3>1, <3>2, <3>3 DEF Within
    <3> QED  BY <3>4 DEF zero
  <2>3. ASSUME NEW c \in Clients PROVE Limited(c)
    <3>1. entry[c].since = 0 /\ entry[c].count = 0 /\ clock \in Nat
      BY <2>1 DEF LimitTyped
    <3> QED  BY <2>1, <2>2, <3>1 DEF Limited
  <2> QED  BY <2>1, <2>3 DEF LimitInv
<1>2. LimitInv /\ [Limiter!Next]_Limiter!vars => LimitInv'
  <2> SUFFICES ASSUME LimitInv, [Limiter!Next]_Limiter!vars PROVE LimitInv'
    OBVIOUS
  <2>1. ~ \E c \in Clients : Limiter!fails(c)
    BY DEF Limiter!fails, LimitAssumed
  <2>2. CASE Limiter!Tick \/ UNCHANGED Limiter!vars
    <3>1. UNCHANGED << entry, reply, passed >> /\ clock' \in 0 .. LimiterEnd /\ clock <= clock'
      BY <2>2 DEF Limiter!Tick, Limiter!vars, Limiter!own, LimitInv, LimitTyped, LimitAssumed
    <3>2. LimitTyped'
      BY <3>1 DEF LimitInv, LimitTyped
    <3>3. ASSUME NEW c \in Clients PROVE Limited(c)'
      <4>1. entry[c].since \in Nat
        BY DEF LimitInv, LimitTyped
      <4>2. entry[c].since <= clock'
        BY <3>1, <4>1 DEF LimitInv, LimitTyped, Limited
      <4> QED  BY <3>1, <4>2 DEF LimitInv, Limited, Within
    <3> QED  BY <3>2, <3>3 DEF LimitInv
  <2> QED  BY <2>1, <2>2, LimitStep DEF Limiter!Next
<1>3. LimitInv => Limiter!MemoryWindow
  <2> SUFFICES ASSUME LimitInv PROVE Limiter!MemoryWindow
    OBVIOUS
  <2>1. ASSUME NEW c \in Clients, NEW t \in 0 .. LimiterEnd
        PROVE  Limiter!Passed(c, t, t + windowMs) <= 2 * maxRequests
    <3>1. Limiter!Passed(c, t, t + windowMs) = SumFunctionOnSet(passed[c], Span(t, t + windowMs))
      BY SameSums DEF Limiter!Passed, Limiter!Ticks, Span
    <3> QED  BY <3>1 DEF LimitInv, Limited, Within
  <2>2. ASSUME NEW c \in Clients, ~ reply[c].success, clock > reply[c].at + reply[c].retryAfterS
        PROVE  clock - entry[c].since > windowMs
    <3>1. /\ reply[c].at + reply[c].retryAfterS = entry[c].since + windowMs
          /\ entry[c].since \in Nat /\ clock \in Nat /\ windowMs \in Nat
      BY <2>2 DEF LimitInv, LimitTyped, Limited, LimitAssumed, Limiter!LimitAssumption
    <3> QED  BY <2>2, <3>1
  <2>3. ASSUME NEW c \in Clients
        PROVE  Limiter!Passed(c, entry[c].since, entry[c].since + windowMs) <= maxRequests
    <3> DEFINE s == entry[c].since
               here == SumFunctionOnSet(passed[c], Span(s, s + windowMs))
               on   == SumFunctionOnSet(passed[c], Span(s, LimiterEnd))
    <3>1. Limiter!Passed(c, s, s + windowMs) = here
      BY SameSums DEF Limiter!Passed, Limiter!Ticks, Span
    <3>2. passed[c] \in [0 .. LimiterEnd -> Nat]
      BY DEF LimitInv, LimitTyped
    <3>3. Span(s, s + windowMs) \subseteq Span(s, LimiterEnd)
      BY DEF Span
    <3>4. here <= on
      BY <3>2, <3>3, SpanWithin
    <3>5. on <= maxRequests
      BY DEF LimitInv, Limited, Within
    <3>6. here \in Nat /\ on \in Nat /\ maxRequests \in Nat
      BY <3>2, SpanSums DEF LimitAssumed, Limiter!LimitAssumption
    <3> HIDE DEF here, on
    <3>7. here <= maxRequests
      BY <3>4, <3>5, <3>6
    <3> QED  BY <3>1, <3>7
  <2> QED  BY <2>1, <2>2, <2>3 DEF Limiter!MemoryWindow, Limiter!Ticks
<1> QED  BY <1>1, <1>2, <1>3, PTL DEF Limiter!Spec
-----------------------------------------------------------------------------
(***************************************************************************)
(* Registration.  A nonce is kept for longer than the message that bears   *)
(* it can be sent: what is purged could not be used any more.  And what is *)
(* remembered of a wallet is never more than CACHE_TTL_MS older than its   *)
(* listing.                                                                *)
(***************************************************************************)
RegAssumed ==
    /\ MAX_MESSAGE_AGE_S \in Nat /\ PURGE_S \in Nat /\ CACHE_TTL_MS \in Nat
    /\ PostTransit \in Nat /\ RegisterEnd \in Nat
    /\ MAX_MESSAGE_AGE_S + PostTransit <= PURGE_S

Time   == 0 .. RegisterEnd
Signed == [ wallet : Registrants, rate_usdc : Rates, timestamp : Time ]
Asked  == [ pc : {"screen", "provider", "channel"}, message : Messages, began : Time ]
Passed == [ pc : {"purge", "nonce", "consume", "upsert"}, message : Messages, began : Time,
            timely : BOOLEAN ]
Human  == [ rate_usdc : Rates \cup {0}, availability : Availability \cup {"none", "available"} ]

RegTyped ==
    /\ clock \in Time /\ index \subseteq Registrants
    /\ message \in [Messages -> Signed \cup {Register!Unsigned}]
    /\ used_nonces \in [Messages -> Time \cup {Register!Never}]
    /\ humans \in [Registrants -> Human]
    /\ cache \in [Registrants -> [ sanctioned : BOOLEAN, expiresAt : Nat ]]
    /\ flagged \in [Registrants -> Time \cup {Register!Never}]
    /\ post \in [Posts -> Asked \cup Passed \cup {Register!NoPost}]
    /\ admitted \in [Messages -> Seq(BOOLEAN)]

(* What is remembered of a wallet. *)
Remembered(w) ==
    /\ cache[w].expiresAt <= clock + CACHE_TTL_MS
    /\ w \in index => cache[w].sanctioned \/ cache[w].expiresAt = 0
    /\ ~ cache[w].sanctioned => cache[w].expiresAt <= flagged[w] + CACHE_TTL_MS

(* What a request has been through. *)
Reviewed(f) ==
    f \in Asked \cup Passed =>
        /\ message[f.message] \in Signed
        /\ f.began <= clock /\ clock <= f.began + PostTransit
        /\ f.pc = "provider" \/ f \in Passed => message[f.message].wallet \notin index
        /\ f \in Passed => f.timely /\ f.began <= message[f.message].timestamp + MAX_MESSAGE_AGE_S

(* The nonce is consumed, or the message too old for any request to bring. *)
Spent(m) ==
    \/ used_nonces[m] \in Time
    \/ clock > message[m].timestamp + MAX_MESSAGE_AGE_S + PostTransit

Upserts(p, m) == post[p] \in Passed /\ post[p].pc = "upsert" /\ post[p].message = m

Once(m) ==
    /\ message[m] \in Signed => message[m].timestamp <= clock
    /\ used_nonces[m] \in Time => message[m] \in Signed /\ message[m].timestamp <= used_nonces[m]
    /\ admitted[m] # << >> => /\ message[m] \in Signed /\ Spent(m)
                              /\ Len(admitted[m]) = 1 /\ admitted[m][1]
    /\ \A p \in Posts : Upserts(p, m) => Spent(m) /\ admitted[m] = << >>
    /\ \A p, q \in Posts : Upserts(p, m) /\ Upserts(q, m) => p = q

Unlisted == \A w \in index : humans[w] = Register!NoRow

RegInv ==
    /\ RegTyped
    /\ \A w \in Registrants : Remembered(w)
    /\ \A p \in Posts : Reviewed(post[p])
    /\ \A m \in Messages : Once(m)
    /\ Unlisted

(* The states of a request, the times, and the messages are told apart. *)
LEMMA RegDistinct ==
    ASSUME RegAssumed
    PROVE  /\ \A f \in Asked : f \notin Passed
           /\ Register!NoPost \notin Asked \cup Passed /\ Register!NoPost.pc = "none"
           /\ \A f \in Asked \cup Passed : f.pc # "none" /\ f.message \in Messages /\ f.began \in Time
           /\ Register!Unsigned \notin Signed
           /\ Register!Never \notin Time /\ Register!Never \in Nat
           /\ \A t \in Time : t \in Nat /\ t < Register!Never
<1>1. \A f \in Asked : f \notin Passed
  <2> SUFFICES ASSUME NEW f \in Asked, f \in Passed PROVE FALSE
    OBVIOUS
  <2>1. f.pc \in {"screen", "provider", "channel"}
    BY DEF Asked
  <2>2. f.pc \in {"purge", "nonce", "consume", "upsert"}
    BY DEF Passed
  <2> QED  BY <2>1, <2>2
<1>2. Register!NoPost \notin Asked \cup Passed /\ Register!NoPost.pc = "none"
  <2>1. Register!NoPost.pc = "none"
    BY DEF Register!NoPost
  <2>2. \A f \in Asked \cup Passed : f.pc # "none"
    BY DEF Asked, Passed
  <2> QED  BY <2>1, <2>2
<1>3. \A f \in Asked \cup Passed : f.pc # "none" /\ f.message \in Messages /\ f.began \in Time
  BY DEF Asked, Passed
<1>4. Register!Never \notin Time /\ Register!Never \in Nat /\ \A t \in Time : t \in Nat /\ t < Register!Never
  BY DEF Register!Never, Time, RegAssumed
<1>5. Register!Unsigned \notin Signed
  <2>1. Register!Unsigned.timestamp = Register!Never
    BY DEF Register!Unsigned
  <2>2. \A s \in Signed : s.timestamp \in Time
    BY DEF Signed
  <2> QED  BY <1>4, <2>1, <2>2
<1> QED  BY <1>1, <1>2, <1>3, <1>4, <1>5

(* The numbers in it. *)
LEMMA RegNumbers ==
    ASSUME RegAssumed, RegTyped
    PROVE  /\ clock \in Nat /\ clock <= RegisterEnd
           /\ \A w \in Registrants : cache[w].expiresAt \in Nat /\ flagged[w] \in Nat
           /\ \A m \in Messages : message[m] \in Signed => message[m].timestamp \in Nat
           /\ \A p \in Posts : post[p] \in Asked \cup Passed => post[p].began \in Nat
<1>1. clock \in Nat /\ clock <= RegisterEnd
  BY DEF RegTyped, Time, RegAssumed
<1>2. \A w \in Registrants : cache[w].expiresAt \in Nat /\ flagged[w] \in Nat
  BY RegDistinct DEF RegTyped
<1>3. \A m \in Messages : message[m] \in Signed => message[m].timestamp \in Nat
  BY RegDistinct DEF Signed
<1>4. \A p \in Posts : post[p] \in Asked \cup Passed => post[p].began \in Nat
  BY RegDistinct
<1> QED  BY <1>1, <1>2, <1>3, <1>4

(* A request that moves on, without a nonce being taken. *)
LEMMA PostMoves ==
    ASSUME RegAssumed, RegInv, NEW p \in Posts, NEW f \in Asked \cup Passed \cup {Register!NoPost},
           post' = [post EXCEPT ![p] = f], Reviewed(f), ~ (f \in Passed /\ f.pc = "upsert"),
           UNCHANGED << clock, index, message, flagged, admitted, used_nonces, humans >>,
           cache' \in [Registrants -> [ sanctioned : BOOLEAN, expiresAt : Nat ]],
           \A w \in Registrants : Remembered(w)'
    PROVE  RegInv'
<1>1. RegTyped'
  BY DEF RegInv, RegTyped
<1>2. \A q \in Posts : post'[q] = IF q = p THEN f ELSE post[q]
  BY DEF RegInv, RegTyped
<1>3. \A q \in Posts : Reviewed(post[q])'
  BY <1>2 DEF RegInv, Reviewed
<1>4. ASSUME NEW m \in Messages PROVE Once(m)'
  <2>1. \A q \in Posts : Upserts(q, m)' => Upserts(q, m)
    BY <1>2 DEF Upserts
  <2>2. Once(m) /\ (Spent(m)' <=> Spent(m))
    BY DEF RegInv, Spent
  <2> QED  BY <2>1, <2>2 DEF Once
<1>5. Unlisted'
  BY DEF RegInv, Unlisted
<1> QED  BY <1>1, <1>3, <1>4, <1>5 DEF RegInv

(* A message is signed; a wallet is listed; a process starts anew. *)
LEMMA SignStep ==
    ASSUME RegAssumed, RegInv, NEW m \in Messages, NEW w \in Registrants, NEW rate \in Rates,
           Register!sign(m, w, rate)
    PROVE  RegInv'
<1> DEFINE s == [ wallet |-> w, rate_usdc |-> rate, timestamp |-> clock ]
<1>1. /\ message[m] = Register!Unsigned /\ message' = [message EXCEPT ![m] = s]
      /\ UNCHANGED << clock, index, used_nonces, humans, cache, flagged, post, admitted >>
  BY DEF Register!sign
<1>2. s \in Signed /\ s.timestamp = clock /\ clock <= clock
  BY RegNumbers DEF Signed, RegInv, RegTyped
<1> HIDE DEF s
<1>3. \A n \in Messages : message[n] \in Signed => message'[n] = message[n]
  BY <1>1, RegDistinct DEF RegInv, RegTyped
<1>4. RegTyped'
  BY <1>1, <1>2 DEF RegInv, RegTyped
<1>5. \A v \in Registrants : Remembered(v)'
  BY <1>1 DEF RegInv, Remembered
<1>6. ASSUME NEW p \in Posts PROVE Reviewed(post[p])'
  <2>1. post[p] \in Asked \cup Passed => post[p].message \in Messages
    BY RegDistinct
  <2>2. Reviewed(post[p])
    BY DEF RegInv
  <2> QED  BY <1>1, <1>3, <2>1, <2>2 DEF Reviewed
<1>7. ASSUME NEW n \in Messages PROVE Once(n)'
  <2>1. Once(n) /\ \A p \in Posts : Upserts(p, n)' <=> Upserts(p, n)
    BY <1>1 DEF RegInv, Upserts
  <2>2. \A p \in Posts : Upserts(p, n) => message[n] \in Signed
    BY DEF Upserts, RegInv, Reviewed
  <2>3. message[n] \in Signed => (Spent(n)' <=> Spent(n))
    BY <1>1, <1>3 DEF Spent
  <2>4. message'[n] \in Signed => message'[n].timestamp <= clock
    BY <1>1, <1>2, <2>1 DEF Once, RegInv, RegTyped
  <2> QED  BY <1>1, <1>3, <2>1, <2>2, <2>3, <2>4 DEF Once
<1>8. Unlisted'
  BY <1>1 DEF RegInv, Unlisted
<1> QED  BY <1>4, <1>5, <1>6, <1>7, <1>8 DEF RegInv

LEMMA OutsideStep ==
    ASSUME RegAssumed, RegInv,
           \/ \E w \in Registrants : Register!flag(w)
           \/ Register!restart \/ UNCHANGED Register!vars
    PROVE  RegInv'
<1>1. /\ UNCHANGED << clock, index, message, used_nonces, humans, post, admitted >>
      /\ \/ UNCHANGED cache
         \/ cache' = [w \in Registrants |-> Register!Unknown] /\ UNCHANGED flagged
      /\ \/ UNCHANGED flagged
         \/ \E w \in Registrants : /\ flagged[w] = Register!Never /\ UNCHANGED cache
                               /\ flagged' = [flagged EXCEPT ![w] = clock]
  BY DEF Register!flag, Register!restart, Register!vars, Register!own
<1>2. Register!Unknown \in [ sanctioned : BOOLEAN, expiresAt : Nat ] /\ Register!Unknown.expiresAt = 0
  BY DEF Register!Unknown
<1>3. RegTyped'
  <2>1. cache' \in [Registrants -> [ sanctioned : BOOLEAN, expiresAt : Nat ]]
    BY <1>1, <1>2 DEF RegInv, RegTyped
  <2>2. flagged' \in [Registrants -> Time \cup {Register!Never}]
    BY <1>1 DEF RegInv, RegTyped
  <2> QED  BY <1>1, <2>1, <2>2 DEF RegInv, RegTyped
<1>4. ASSUME NEW v \in Registrants PROVE Remembered(v)'
  <2>1. /\ cache[v].expiresAt \in Nat /\ flagged[v] \in Nat /\ flagged'[v] \in Nat /\ clock \in Nat
        /\ CACHE_TTL_MS \in Nat
    <3>1. RegTyped
      BY DEF RegInv
    <3>2. flagged'[v] \in Nat
      BY <1>3, RegDistinct DEF RegTyped
    <3> QED  BY <3>1, <3>2, RegNumbers DEF RegAssumed
  <2>2. cache'[v] = cache[v] \/ (cache'[v].expiresAt = 0 /\ flagged'[v] = flagged[v])
    BY <1>1, <1>2 DEF RegInv, RegTyped
  <2>3. flagged'[v] = flagged[v] \/ (flagged'[v] = clock /\ cache'[v] = cache[v])
    BY <1>1 DEF RegInv, RegTyped
  <2>4. Remembered(v)
    BY DEF RegInv
  <2> QED  BY <1>1, <2>1, <2>2, <2>3, <2>4 DEF Remembered
<1>5. \A p \in Posts : Reviewed(post[p])'
  BY <1>1 DEF RegInv, Reviewed
<1>6. \A m \in Messages : Once(m)'
  BY <1>1 DEF RegInv, Once, Spent, Upserts
<1>7. Unlisted'
  BY <1>1 DEF RegInv, Unlisted
<1> QED  BY <1>3, <1>4, <1>5, <1>6, <1>7 DEF RegInv

LEMMA TickStep ==
    ASSUME RegAssumed, RegInv, Register!Tick
    PROVE  RegInv'
<1>1. /\ clock < RegisterEnd /\ clock' = clock + 1
      /\ \A p \in Posts : post[p].pc # "none" => clock < post[p].began + PostTransit
      /\ UNCHANGED << index, message, used_nonces, humans, cache, flagged, post, admitted >>
  BY DEF Register!Tick, Register!own
<1>2. clock \in Nat /\ clock' \in Nat /\ clock' <= RegisterEnd /\ PostTransit \in Nat /\ CACHE_TTL_MS \in Nat
      /\ MAX_MESSAGE_AGE_S \in Nat /\ RegisterEnd \in Nat
  BY <1>1, RegNumbers DEF RegInv, RegAssumed
<1>3. RegTyped'
  <2>1. clock' \in Time
    BY <1>2 DEF Time
  <2> QED  BY <1>1, <2>1 DEF RegInv, RegTyped
<1>4. ASSUME NEW v \in Registrants PROVE Remembered(v)'
  <2>1. cache[v].expiresAt \in Nat
    BY RegNumbers DEF RegInv
  <2> QED  BY <1>1, <1>2, <2>1 DEF RegInv, Remembered
<1>5. ASSUME NEW p \in Posts PROVE Reviewed(post[p])'
  <2>1. post[p] \in Asked \cup Passed => /\ post[p].began \in Nat /\ post[p].began <= clock
                                         /\ clock < post[p].began + PostTransit
    BY <1>1, RegDistinct DEF RegInv, Reviewed
  <2>2. post[p] \in Asked \cup Passed => post[p].began <= clock' /\ clock' <= post[p].began + PostTransit
    BY <1>1, <1>2, <2>1
  <2> QED  BY <1>1, <2>2 DEF RegInv, Reviewed
<1>6. ASSUME NEW m \in Messages PROVE Once(m)'
  <2>1. message[m] \in Signed => message[m].timestamp \in Nat
    BY RegNumbers DEF RegInv
  <2>2. message[m] \in Signed /\ Spent(m) => Spent(m)'
    BY <1>1, <1>2, <2>1 DEF Spent
  <2>3. Once(m) /\ \A p \in Posts : Upserts(p, m)' <=> Upserts(p, m)
    BY <1>1 DEF RegInv, Upserts
  <2>4. \A p \in Posts : Upserts(p, m) => message[m] \in Signed
    BY DEF Upserts, RegInv, Reviewed
  <2>5. message[m] \in Signed => message[m].timestamp <= clock'
    BY <1>1, <1>2, <2>1, <2>3 DEF Once
  <2> QED  BY <1>1, <2>2, <2>3, <2>4, <2>5 DEF Once
<1>7. Unlisted'
  BY <1>1 DEF RegInv, Unlisted
<1> QED  BY <1>3, <1>4, <1>5, <1>6, <1>7 DEF RegInv

(* A request begins, and one fails or ends. *)
LEMMA BeginStep ==
    ASSUME RegAssumed, RegInv, NEW p \in Posts,
           (\E m \in Messages : Register!register(p, m)) \/ Register!registerFails(p)
           \/ Register!contactEmail(p)
    PROVE  RegInv'
<1>1. \A w \in Registrants : UNCHANGED << clock, index, cache, flagged >> => Remembered(w)'
  BY DEF RegInv, Remembered
<1>2. cache \in [Registrants -> [ sanctioned : BOOLEAN, expiresAt : Nat ]]
  BY DEF RegInv, RegTyped
<1>3. CASE Register!registerFails(p) \/ Register!contactEmail(p)
  <2>1. /\ post' = [post EXCEPT ![p] = Register!NoPost]
        /\ UNCHANGED << clock, index, message, flagged, admitted, used_nonces, humans, cache >>
    BY <1>3 DEF Register!registerFails, Register!contactEmail, Register!At
  <2>2. Reviewed(Register!NoPost) /\ Register!NoPost \notin Passed
    BY RegDistinct DEF Reviewed
  <2> QED  BY <1>1, <1>2, <2>1, <2>2, PostMoves
<1>4. ASSUME NEW m \in Messages, Register!register(p, m) PROVE RegInv'
  <2> DEFINE f == [ pc |-> "screen", message |-> m, began |-> clock ]
  <2>1. /\ post' = [post EXCEPT ![p] = f] /\ message[m] # Register!Unsigned
        /\ UNCHANGED << clock, index, message, flagged, admitted, used_nonces, humans, cache >>
    BY <1>4 DEF Register!register, Register!At
  <2>2. f \in Asked /\ f.pc = "screen" /\ f.message = m /\ f.began = clock
    BY DEF Asked, RegInv, RegTyped
  <2>3. message[m] \in Signed
    BY <2>1 DEF RegInv, RegTyped
  <2>4. f \notin Passed
    BY <2>2, RegDistinct
  <2>5. clock <= clock /\ clock <= clock + PostTransit
    BY RegNumbers DEF RegInv, RegAssumed
  <2> HIDE DEF f
  <2>6. Reviewed(f)
    BY <2>2, <2>3, <2>4, <2>5 DEF Reviewed
  <2> QED  BY <1>1, <1>2, <2>1, <2>2, <2>4, <2>6, PostMoves
<1> QED  BY <1>3, <1>4

(* What a screen lets pass. *)
LEMMA ScreenPasses ==
    ASSUME RegAssumed, RegInv, NEW p \in Posts, post[p] \in Asked,
           NEW sanctioned \in BOOLEAN, NEW failed \in BOOLEAN,
           Register!Screened(p, sanctioned, failed),
           ~ sanctioned => /\ Register!Sender(p) \notin index
                           /\ failed \/ clock < flagged[Register!Sender(p)] + CACHE_TTL_MS
    PROVE  \E f \in Passed \cup {Register!NoPost} :
             /\ post' = [post EXCEPT ![p] = f] /\ Reviewed(f)
             /\ f \in Passed => f.pc = "purge"
<1> DEFINE m == post[p].message
           timely == failed \/ clock < flagged[Register!Sender(p)] + CACHE_TTL_MS
           f == [ pc |-> "purge", message |-> m, began |-> post[p].began, timely |-> timely ]
<1>1. /\ m \in Messages /\ post[p].began \in Time /\ message[m] \in Signed
      /\ post[p].began <= clock /\ clock <= post[p].began + PostTransit
      /\ Register!Sender(p) = message[m].wallet
  BY RegDistinct DEF RegInv, Reviewed, Register!Sender
<1>2. CASE sanctioned \/ ~ Register!Fresh(p)
  <2>1. post' = [post EXCEPT ![p] = Register!NoPost]
    BY <1>2 DEF Register!Screened, Register!At
  <2>2. Reviewed(Register!NoPost) /\ Register!NoPost \notin Passed
    BY RegDistinct DEF Reviewed
  <2> QED  BY <2>1, <2>2
<1>3. CASE ~ (sanctioned \/ ~ Register!Fresh(p))
  <2>1. post' = [post EXCEPT ![p] = f]
    BY <1>3 DEF Register!Screened, Register!At
  <2>2. timely
    BY <1>3
  <2>3. timely \in BOOLEAN
    OBVIOUS
  <2> HIDE DEF timely
  <2>4. /\ f \in Passed /\ f.pc = "purge" /\ f.message = m /\ f.began = post[p].began
        /\ f.timely = timely
    BY <1>1, <2>3 DEF Passed
  <2> HIDE DEF f
  <2>5. clock <= message[m].timestamp + MAX_MESSAGE_AGE_S
    BY <1>3 DEF Register!Fresh
  <2>6. post[p].began <= message[m].timestamp + MAX_MESSAGE_AGE_S
    <3>1. post[p].began \in Nat /\ clock \in Nat /\ message[m].timestamp \in Nat
      BY <1>1, RegNumbers DEF RegInv
    <3> QED  BY <1>1, <2>5, <3>1 DEF RegAssumed
  <2>7. message[m].wallet \notin index
    BY <1>1, <1>3
  <2> HIDE DEF m
  <2>8. Reviewed(f)
    BY <1>1, <2>2, <2>4, <2>6, <2>7 DEF Reviewed
  <2> QED  BY <2>1, <2>4, <2>8
<1> QED  BY <1>2, <1>3

(* The answer that is remembered is of this moment. *)
LEMMA RememberNow ==
    ASSUME RegAssumed, RegInv, NEW w \in Registrants, NEW sanctioned \in BOOLEAN,
           Register!Remember(w, sanctioned), UNCHANGED << clock, index, flagged >>,
           w \in index => sanctioned, ~ sanctioned => clock < flagged[w]
    PROVE  /\ cache' \in [Registrants -> [ sanctioned : BOOLEAN, expiresAt : Nat ]]
           /\ \A v \in Registrants : Remembered(v)'
<1> DEFINE row == [ sanctioned |-> sanctioned, expiresAt |-> clock + CACHE_TTL_MS ]
<1>1. cache' = [cache EXCEPT ![w] = row]
  BY DEF Register!Remember
<1>2. clock \in Nat /\ CACHE_TTL_MS \in Nat /\ flagged[w] \in Nat
  BY RegNumbers DEF RegInv, RegAssumed
<1>3. /\ row \in [ sanctioned : BOOLEAN, expiresAt : Nat ]
      /\ row.sanctioned = sanctioned /\ row.expiresAt = clock + CACHE_TTL_MS
  BY <1>2
<1> HIDE DEF row
<1>4. cache' \in [Registrants -> [ sanctioned : BOOLEAN, expiresAt : Nat ]]
  BY <1>1, <1>3 DEF RegInv, RegTyped
<1>5. ASSUME NEW v \in Registrants PROVE Remembered(v)'
  <2>1. CASE v = w
    <3>1. cache'[v] = row
      BY <1>1, <2>1 DEF RegInv, RegTyped
    <3>2. /\ clock + CACHE_TTL_MS <= clock + CACHE_TTL_MS
          /\ ~ sanctioned => clock + CACHE_TTL_MS <= flagged[w] + CACHE_TTL_MS
      BY <1>2
    <3> QED  BY <1>3, <2>1, <3>1, <3>2 DEF Remembered
  <2>2. CASE v # w
    <3>1. cache'[v] = cache[v]
      BY <1>1, <2>2 DEF RegInv, RegTyped
    <3> QED  BY <3>1 DEF RegInv, Remembered
  <2> QED  BY <2>1, <2>2
<1> QED  BY <1>4, <1>5

LEMMA ScreenStep ==
    ASSUME RegAssumed, RegInv, NEW p \in Posts,
           Register!isWalletSanctioned(p) \/ Register!screenViaProvider(p)
    PROVE  RegInv'
<1> DEFINE w == Register!Sender(p)
<1>1. /\ UNCHANGED << clock, index, message, flagged, admitted, used_nonces, humans >>
      /\ post[p].pc \in {"screen", "provider"}
  BY DEF Register!isWalletSanctioned, Register!screenViaProvider
<1>2. post[p] \in Asked
  BY <1>1, RegDistinct DEF RegInv, RegTyped, Passed
<1>3. /\ w \in Registrants
      /\ post[p].pc = "provider" => w \notin index
      /\ w = message[post[p].message].wallet
  BY <1>2 DEF RegInv, Reviewed, Register!Sender, Signed
<1> HIDE DEF w
<1>4. /\ clock \in Nat /\ CACHE_TTL_MS \in Nat /\ flagged[w] \in Nat /\ cache[w].expiresAt \in Nat
      /\ cache \in [Registrants -> [ sanctioned : BOOLEAN, expiresAt : Nat ]]
      /\ cache[w].sanctioned \in BOOLEAN /\ Remembered(w)
  <2>1. /\ clock \in Nat /\ CACHE_TTL_MS \in Nat /\ flagged[w] \in Nat /\ cache[w].expiresAt \in Nat
    BY <1>3, RegNumbers DEF RegInv, RegAssumed
  <2>2. cache \in [Registrants -> [ sanctioned : BOOLEAN, expiresAt : Nat ]] /\ Remembered(w)
    BY <1>3 DEF RegInv, RegTyped
  <2>3. cache[w].sanctioned \in BOOLEAN
    BY <1>3, <2>2
  <2> QED  BY <2>1, <2>2, <2>3
<1>5. ASSUME UNCHANGED cache
      PROVE  /\ cache' \in [Registrants -> [ sanctioned : BOOLEAN, expiresAt : Nat ]]
             /\ \A v \in Registrants : Remembered(v)'
  BY <1>1, <1>4, <1>5 DEF RegInv, Remembered
<1>6. ASSUME NEW sanctioned \in BOOLEAN, NEW failed \in BOOLEAN,
             Register!Screened(p, sanctioned, failed),
             ~ sanctioned => w \notin index /\ (failed \/ clock < flagged[w] + CACHE_TTL_MS),
             cache' \in [Registrants -> [ sanctioned : BOOLEAN, expiresAt : Nat ]],
             \A v \in Registrants : Remembered(v)'
      PROVE  RegInv'
  <2>1. PICK f \in Passed \cup {Register!NoPost} :
          /\ post' = [post EXCEPT ![p] = f] /\ Reviewed(f)
          /\ f \in Passed => f.pc = "purge"
    BY <1>2, <1>6, ScreenPasses DEF w
  <2> QED  BY <1>1, <1>6, <2>1, PostMoves
<1>7. CASE Register!isWalletSanctioned(p)
  <2>1. CASE cache[w].expiresAt > clock
    <3>1. Register!Screened(p, cache[w].sanctioned, FALSE) /\ UNCHANGED cache
      BY <1>7, <2>1 DEF Register!isWalletSanctioned, w
    <3>2. ~ cache[w].sanctioned => w \notin index /\ clock < flagged[w] + CACHE_TTL_MS
      BY <1>4, <2>1 DEF Remembered
    <3> QED  BY <1>4, <1>5, <1>6, <3>1, <3>2
  <2>2. CASE ~ (cache[w].expiresAt > clock) /\ w \in index
    <3>1. Register!Screened(p, TRUE, FALSE) /\ Register!Remember(w, TRUE)
      BY <1>7, <2>2 DEF Register!isWalletSanctioned, w
    <3>2. /\ cache' \in [Registrants -> [ sanctioned : BOOLEAN, expiresAt : Nat ]]
          /\ \A v \in Registrants : Remembered(v)'
      BY <1>1, <1>3, <3>1, RememberNow
    <3> QED  BY <1>6, <3>1, <3>2
  <2>3. CASE ~ (cache[w].expiresAt > clock) /\ w \notin index
    <3> DEFINE f == [post[p] EXCEPT !.pc = "provider"]
    <3>1. post' = [post EXCEPT ![p] = f] /\ UNCHANGED cache
      BY <1>7, <2>3 DEF Register!isWalletSanctioned, Register!At, w
    <3>2. f \in Asked /\ f.message = post[p].message /\ f.began = post[p].began
      BY <1>2 DEF Asked
    <3>3. f \notin Passed
      BY <3>2, RegDistinct
    <3> HIDE DEF f
    <3>4. Reviewed(f)
      BY <1>2, <1>3, <2>3, <3>2, <3>3 DEF RegInv, Reviewed
    <3> QED  BY <1>1, <1>5, <3>1, <3>2, <3>3, <3>4, PostMoves
  <2> QED  BY <2>1, <2>2, <2>3
<1>8. CASE Register!screenViaProvider(p)
  <2>1. post[p].pc = "provider"
    BY <1>8 DEF Register!screenViaProvider
  <2>2. CASE Register!Screened(p, flagged[w] <= clock, FALSE) /\ Register!Remember(w, flagged[w] <= clock)
    <3> DEFINE onList == flagged[w] <= clock
    <3>1. onList \in BOOLEAN /\ (~ onList => clock < flagged[w] /\ clock < flagged[w] + CACHE_TTL_MS)
      BY <1>4
    <3>2. Register!Screened(p, onList, FALSE) /\ Register!Remember(w, onList)
      BY <2>2
    <3> HIDE DEF onList
    <3>3. /\ cache' \in [Registrants -> [ sanctioned : BOOLEAN, expiresAt : Nat ]]
          /\ \A v \in Registrants : Remembered(v)'
      BY <1>1, <1>3, <2>1, <3>1, <3>2, RememberNow
    <3>4. w \notin index
      BY <1>3, <2>1
    <3> QED  BY <1>6, <3>1, <3>2, <3>3, <3>4
  <2>3. CASE Register!Screened(p, FALSE, TRUE) /\ UNCHANGED cache
    <3>1. w \notin index
      BY <1>3, <2>1
    <3> QED  BY <1>5, <1>6, <2>3, <3>1
  <2> QED  BY <1>8, <2>2, <2>3 DEF Register!screenViaProvider, w
<1> QED  BY <1>7, <1>8

(* Nonces are purged only when no request can still bring their message. *)
LEMMA PurgeStep ==
    ASSUME RegAssumed, RegInv, NEW p \in Posts, Register!purgeNonces(p)
    PROVE  RegInv'
<1> DEFINE f == [post[p] EXCEPT !.pc = "nonce"]
<1>1. /\ UNCHANGED << clock, index, message, flagged, admitted, humans, cache >>
      /\ post[p].pc = "purge" /\ post' = [post EXCEPT ![p] = f]
      /\ used_nonces' = [m \in Messages |->
           IF used_nonces[m] + PURGE_S < clock THEN Register!Never ELSE used_nonces[m]]
  BY DEF Register!purgeNonces, Register!At
<1>2. post[p] \in Passed
  BY <1>1, RegDistinct DEF RegInv, RegTyped, Asked
<1>3. /\ f \in Passed /\ f.pc = "nonce" /\ f.message = post[p].message /\ f.began = post[p].began
      /\ f.timely = post[p].timely
  BY <1>2 DEF Passed
<1> HIDE DEF f
<1>4. RegTyped'
  <2>1. used_nonces' \in [Messages -> Time \cup {Register!Never}]
    BY <1>1 DEF RegInv, RegTyped
  <2> QED  BY <1>1, <1>3, <2>1 DEF RegInv, RegTyped
<1>5. \A q \in Posts : post'[q] = IF q = p THEN f ELSE post[q]
  BY <1>1 DEF RegInv, RegTyped
<1>6. \A q \in Posts : Reviewed(post[q])'
  BY <1>1, <1>2, <1>3, <1>5 DEF RegInv, Reviewed
<1>7. ASSUME NEW m \in Messages PROVE Once(m)'
  <2>1. \A q \in Posts : Upserts(q, m)' => Upserts(q, m)
    BY <1>3, <1>5 DEF Upserts
  <2>2. /\ used_nonces'[m] \in Time => used_nonces'[m] = used_nonces[m]
        /\ ~ (used_nonces[m] + PURGE_S < clock) => used_nonces'[m] = used_nonces[m]
    BY <1>1, RegDistinct
  <2>3. message[m] \in Signed /\ Spent(m) => Spent(m)'
    <3> SUFFICES ASSUME message[m] \in Signed, used_nonces[m] \in Time,
                        used_nonces[m] + PURGE_S < clock
                 PROVE  clock > message[m].timestamp + MAX_MESSAGE_AGE_S + PostTransit
      BY <1>1, <2>2 DEF Spent
    <3>1. message[m].timestamp <= used_nonces[m] /\ message[m].timestamp \in Nat
          /\ used_nonces[m] \in Nat /\ clock \in Nat
      BY RegDistinct, RegNumbers DEF RegInv, Once
    <3> QED  BY <3>1 DEF RegAssumed
  <2>4. Once(m)
    BY DEF RegInv
  <2>5. \A q \in Posts : Upserts(q, m) => message[m] \in Signed
    BY DEF Upserts, RegInv, Reviewed
  <2>6. used_nonces'[m] \in Time => message'[m] \in Signed /\ message'[m].timestamp <= used_nonces'[m]
    BY <1>1, <2>2, <2>4 DEF Once
  <2> QED  BY <1>1, <2>1, <2>3, <2>4, <2>5, <2>6 DEF Once
<1>8. /\ \A v \in Registrants : Remembered(v)'
      /\ Unlisted'
  BY <1>1 DEF RegInv, Remembered, Unlisted
<1> QED  BY <1>4, <1>6, <1>7, <1>8 DEF RegInv

(* The nonce is looked for, and then taken. *)
LEMMA NonceStep ==
    ASSUME RegAssumed, RegInv, NEW p \in Posts, Register!existingNonce(p)
    PROVE  RegInv'
<1> DEFINE g == [post[p] EXCEPT !.pc = "consume"]
<1>1. /\ UNCHANGED << clock, index, message, flagged, admitted, used_nonces, humans, cache >>
      /\ post[p].pc = "nonce"
      /\ post' = [post EXCEPT ![p] = Register!NoPost] \/ post' = [post EXCEPT ![p] = g]
  BY DEF Register!existingNonce, Register!At
<1>2. post[p] \in Passed
  BY <1>1, RegDistinct DEF RegInv, RegTyped, Asked
<1>3. /\ g \in Passed /\ g.pc = "consume" /\ g.message = post[p].message /\ g.began = post[p].began
      /\ g.timely = post[p].timely
  BY <1>2 DEF Passed
<1> HIDE DEF g
<1>4. Reviewed(g)
  BY <1>2, <1>3 DEF RegInv, Reviewed
<1>5. Reviewed(Register!NoPost) /\ Register!NoPost \notin Passed
  BY RegDistinct DEF Reviewed
<1>6. /\ cache' \in [Registrants -> [ sanctioned : BOOLEAN, expiresAt : Nat ]]
      /\ \A v \in Registrants : Remembered(v)'
  BY <1>1 DEF RegInv, RegTyped, Remembered
<1> QED  BY <1>1, <1>3, <1>4, <1>5, <1>6, PostMoves

LEMMA ConsumeStep ==
    ASSUME RegAssumed, RegInv, NEW p \in Posts, Register!consumeNonce(p)
    PROVE  RegInv'
<1> PICK m : m = post[p].message
  OBVIOUS
<1> DEFINE f == [post[p] EXCEPT !.pc = "upsert"]
<1>1. /\ UNCHANGED << clock, index, message, flagged, admitted, humans, cache >>
      /\ post[p].pc = "consume"
      /\ \/ post' = [post EXCEPT ![p] = Register!NoPost] /\ UNCHANGED used_nonces
         \/ /\ used_nonces[m] = Register!Never
            /\ used_nonces' = [used_nonces EXCEPT ![m] = clock] /\ post' = [post EXCEPT ![p] = f]
  BY DEF Register!consumeNonce, Register!At
<1>2. post[p] \in Passed /\ m \in Messages
  BY <1>1, RegDistinct DEF RegInv, RegTyped, Asked
<1>3. /\ f \in Passed /\ f.pc = "upsert" /\ f.message = m /\ f.began = post[p].began
      /\ f.timely = post[p].timely
  BY <1>2 DEF Passed
<1> HIDE DEF f
<1>4. /\ cache' \in [Registrants -> [ sanctioned : BOOLEAN, expiresAt : Nat ]]
      /\ \A v \in Registrants : Remembered(v)'
  BY <1>1 DEF RegInv, RegTyped, Remembered
<1>5. CASE post' = [post EXCEPT ![p] = Register!NoPost] /\ UNCHANGED used_nonces
  <2>1. Reviewed(Register!NoPost) /\ Register!NoPost \notin Passed
    BY RegDistinct DEF Reviewed
  <2> QED  BY <1>1, <1>4, <1>5, <2>1, PostMoves
<1>6. CASE /\ used_nonces[m] = Register!Never
           /\ used_nonces' = [used_nonces EXCEPT ![m] = clock] /\ post' = [post EXCEPT ![p] = f]
  <2>1. RegTyped'
    <3>1. used_nonces' \in [Messages -> Time \cup {Register!Never}]
      BY <1>6 DEF RegInv, RegTyped
    <3> QED  BY <1>1, <1>3, <1>6, <3>1 DEF RegInv, RegTyped
  <2>2. \A q \in Posts : post'[q] = IF q = p THEN f ELSE post[q]
    BY <1>6 DEF RegInv, RegTyped
  <2>3. \A q \in Posts : Reviewed(post[q])'
    BY <1>1, <1>2, <1>3, <2>2 DEF RegInv, Reviewed
  <2>4. /\ message[m] \in Signed /\ clock <= post[p].began + PostTransit
        /\ post[p].began <= message[m].timestamp + MAX_MESSAGE_AGE_S
    BY <1>2 DEF RegInv, Reviewed
  <2>5. /\ clock \in Nat /\ post[p].began \in Nat /\ message[m].timestamp \in Nat
        /\ MAX_MESSAGE_AGE_S \in Nat /\ PostTransit \in Nat
    BY <1>2, <2>4, RegNumbers DEF RegInv, RegAssumed
  <2>6. ~ Spent(m)
    <3>1. ~ (clock > message[m].timestamp + MAX_MESSAGE_AGE_S + PostTransit)
      BY <2>4, <2>5
    <3> QED  BY <1>6, <3>1, RegDistinct DEF Spent
  <2>7. admitted[m] = << >> /\ \A q \in Posts : ~ Upserts(q, m)
    BY <1>2, <2>6 DEF RegInv, Once
  <2>8. message[m].timestamp <= clock
    BY <1>2, <2>4 DEF RegInv, Once
  <2>9. ASSUME NEW n \in Messages PROVE Once(n)'
    <3>1. CASE n = m
      <4>1. used_nonces'[m] = clock /\ clock \in Time
        BY <1>2, <1>6 DEF RegInv, RegTyped
      <4>2. Spent(m)'
        BY <4>1 DEF Spent
      <4>3. \A q \in Posts : Upserts(q, m)' => q = p
        BY <2>2, <2>7 DEF Upserts
      <4> QED  BY <1>1, <2>4, <2>7, <2>8, <3>1, <4>1, <4>2, <4>3 DEF Once
    <3>2. CASE n # m
      <4>1. used_nonces'[n] = used_nonces[n]
        BY <1>2, <1>6, <3>2 DEF RegInv, RegTyped
      <4>2. Spent(n)' <=> Spent(n)
        BY <1>1, <4>1 DEF Spent
      <4>3. \A q \in Posts : Upserts(q, n)' => Upserts(q, n)
        BY <1>3, <2>2, <3>2 DEF Upserts
      <4>4. Once(n)
        BY DEF RegInv
      <4> QED  BY <1>1, <4>1, <4>2, <4>3, <4>4 DEF Once
    <3> QED  BY <3>1, <3>2
  <2>10. Unlisted'
    BY <1>1 DEF RegInv, Unlisted
  <2> QED  BY <1>4, <2>1, <2>3, <2>9, <2>10 DEF RegInv
<1> QED  BY <1>1, <1>5, <1>6

(* The registration is written, and a profile changed. *)
LEMMA UpsertStep ==
    ASSUME RegAssumed, RegInv, NEW p \in Posts, Register!upsertHuman(p)
    PROVE  RegInv'
<1> DEFINE m == post[p].message
           w == Register!Sender(p)
           f == [ pc |-> "channel", message |-> m, began |-> post[p].began ]
           h == [ rate_usdc |-> message[m].rate_usdc, availability |-> "available" ]
<1>1. /\ UNCHANGED << clock, index, message, used_nonces, flagged, cache >>
      /\ post[p].pc = "upsert" /\ humans' = [humans EXCEPT ![w] = h]
      /\ admitted' = [admitted EXCEPT ![m] = Append(@, post[p].timely)]
      /\ post' = [post EXCEPT ![p] = f] \/ post' = [post EXCEPT ![p] = Register!NoPost]
  BY DEF Register!upsertHuman, Register!At
<1>2. post[p] \in Passed /\ m \in Messages
  BY <1>1, RegDistinct DEF RegInv, RegTyped, Asked
<1>3. /\ message[m] \in Signed /\ w = message[m].wallet /\ w \notin index /\ post[p].timely
      /\ post[p].began <= clock /\ clock <= post[p].began + PostTransit /\ post[p].began \in Time
  BY <1>2, RegDistinct DEF RegInv, Reviewed, Register!Sender
<1>4. f \in Asked /\ f.pc = "channel" /\ f.message = m /\ f.began = post[p].began
  BY <1>2, <1>3 DEF Asked
<1>5. h \in Human
  BY <1>3 DEF Human, Signed
<1> HIDE DEF f, h
<1>6. PICK g \in {f, Register!NoPost} : post' = [post EXCEPT ![p] = g]
  BY <1>1
<1>7. /\ g \in Asked \cup {Register!NoPost} /\ g \notin Passed /\ Reviewed(g)
      /\ \A q \in Posts : post'[q] = IF q = p THEN g ELSE post[q]
  <2>1. g \in Asked \cup {Register!NoPost} /\ g \notin Passed
    BY <1>4, <1>6, RegDistinct
  <2>2. Reviewed(g)
    BY <1>3, <1>4, <1>6, <2>1, RegDistinct DEF Reviewed
  <2> QED  BY <1>6, <2>1, <2>2 DEF RegInv, RegTyped
<1>8. Upserts(p, m) /\ Spent(m) /\ admitted[m] = << >> /\ \A q \in Posts : Upserts(q, m) => q = p
  BY <1>1, <1>2 DEF RegInv, Once, Upserts
<1>9. admitted'[m] = << post[p].timely >> /\ \A n \in Messages : n # m => admitted'[n] = admitted[n]
  <2>1. admitted'[m] = Append(<< >>, post[p].timely)
    BY <1>1, <1>2, <1>8 DEF RegInv, RegTyped
  <2>2. Append(<< >>, post[p].timely) = << post[p].timely >>
    OBVIOUS
  <2> QED  BY <1>1, <1>2, <2>1, <2>2 DEF RegInv, RegTyped
<1>10. RegTyped'
  <2>1. admitted' \in [Messages -> Seq(BOOLEAN)]
    <3>1. post[p].timely \in BOOLEAN
      BY <1>2 DEF Passed
    <3>2. << post[p].timely >> \in Seq(BOOLEAN)
      BY <3>1
    <3>3. admitted' = [admitted EXCEPT ![m] = << post[p].timely >>]
      BY <1>1, <1>8, <1>9 DEF RegInv, RegTyped
    <3> QED  BY <3>2, <3>3 DEF RegInv, RegTyped
  <2>2. humans' \in [Registrants -> Human]
    BY <1>1, <1>5 DEF RegInv, RegTyped
  <2>3. post' \in [Posts -> Asked \cup Passed \cup {Register!NoPost}]
    BY <1>6, <1>7 DEF RegInv, RegTyped
  <2> QED  BY <1>1, <2>1, <2>2, <2>3 DEF RegInv, RegTyped
<1>11. \A q \in Posts : Reviewed(post[q])'
  BY <1>1, <1>7 DEF RegInv, Reviewed
<1>12. ASSUME NEW n \in Messages PROVE Once(n)'
  <2>1. \A q \in Posts : Upserts(q, n)' => Upserts(q, n) /\ q # p
    BY <1>7 DEF Upserts
  <2>2. Once(n) /\ (Spent(n)' <=> Spent(n))
    BY <1>1 DEF RegInv, Spent
  <2>3. CASE n = m
    <3>1. Len(admitted'[m]) = 1 /\ admitted'[m][1]
      BY <1>3, <1>9
    <3>2. \A q \in Posts : ~ Upserts(q, n)'
      BY <1>8, <2>1, <2>3
    <3> QED  BY <1>1, <1>3, <1>8, <2>2, <2>3, <3>1, <3>2 DEF Once
  <2>4. CASE n # m
    BY <1>1, <1>9, <2>1, <2>2, <2>4 DEF Once
  <2> QED  BY <2>3, <2>4
<1>13. \A v \in Registrants : Remembered(v)'
  BY <1>1 DEF RegInv, Remembered
<1>14. Unlisted'
  BY <1>1, <1>3 DEF RegInv, RegTyped, Unlisted
<1> QED  BY <1>10, <1>11, <1>12, <1>13, <1>14 DEF RegInv

LEMMA ProfileStep ==
    ASSUME RegAssumed, RegInv, NEW w \in Registrants, NEW rate, NEW availability,
           Register!PATCH(w, rate, availability)
    PROVE  RegInv'
<1> DEFINE h == [ rate_usdc |-> rate, availability |-> availability ]
<1>1. /\ UNCHANGED << clock, index, message, used_nonces, cache, flagged, post, admitted >>
      /\ humans[w] # Register!NoRow /\ humans' = [humans EXCEPT ![w] = h]
      /\ rate \in Rates \cup {humans[w].rate_usdc}
      /\ availability \in Availability \cup {humans[w].availability}
  BY DEF Register!PATCH
<1>2. h \in Human
  BY <1>1 DEF Human, RegInv, RegTyped
<1> HIDE DEF h
<1>3. RegTyped'
  BY <1>1, <1>2 DEF RegInv, RegTyped
<1>4. Unlisted'
  BY <1>1 DEF RegInv, RegTyped, Unlisted
<1>5. /\ \A v \in Registrants : Remembered(v)'
      /\ \A p \in Posts : Reviewed(post[p])'
      /\ \A m \in Messages : Once(m)'
  BY <1>1 DEF RegInv, Remembered, Reviewed, Once, Spent, Upserts
<1> QED  BY <1>3, <1>4, <1>5 DEF RegInv

(***************************************************************************)
(* register/route.ts admits a signed message once, for any number of       *)
(* copies of it sent at once or later, as long as nonces are kept (an      *)
(* hour) for longer than a message may be sent and its request last (five  *)
(* minutes, and PostTransit); the screen that let the wallet in was of its  *)
(* time or could not be made; and no wallet of the bundled list is in the  *)
(* whitepages.                                                             *)
(***************************************************************************)
THEOREM Admissions ==
    ASSUME RegAssumed
    PROVE  Register!Spec => []Register!AdmissionsAreEarned
<1>1. Register!Init => RegInv
  <2> SUFFICES ASSUME Register!Init PROVE RegInv
    OBVIOUS
  <2>1. /\ clock = 0 /\ index \in SUBSET Registrants
        /\ message = [m \in Messages |-> Register!Unsigned]
        /\ used_nonces = [m \in Messages |-> Register!Never]
        /\ humans = [w \in Registrants |-> Register!NoRow]
        /\ cache = [w \in Registrants |-> Register!Unknown]
        /\ flagged = [w \in Registrants |-> Register!Never]
        /\ post = [p \in Posts |-> Register!NoPost]
        /\ admitted = [m \in Messages |-> << >>]
    BY DEF Register!Init
  <2>2. /\ Register!NoRow \in Human /\ 0 \in Time
        /\ Register!Unknown \in [ sanctioned : BOOLEAN, expiresAt : Nat ]
        /\ Register!Unknown.expiresAt = 0
    BY DEF Register!NoRow, Human, Time, RegAssumed, Register!Unknown
  <2>3. RegTyped
    BY <2>1, <2>2 DEF RegTyped
  <2>4. \A w \in Registrants : Remembered(w)
    <3>1. Register!Never \in Nat /\ CACHE_TTL_MS \in Nat
      BY RegDistinct DEF RegAssumed
    <3> QED  BY <2>1, <2>2, <3>1 DEF Remembered
  <2>5. \A p \in Posts : Reviewed(post[p])
    BY <2>1, RegDistinct DEF Reviewed
  <2>6. \A m \in Messages : Once(m)
    BY <2>1, RegDistinct DEF Once, Upserts
  <2>7. Unlisted
    BY <2>1 DEF Unlisted
  <2> QED  BY <2>3, <2>4, <2>5, <2>6, <2>7 DEF RegInv
<1>2. RegInv /\ [Register!Next]_Register!vars => RegInv'
  BY SignStep, OutsideStep, TickStep, BeginStep, ScreenStep, PurgeStep, NonceStep, ConsumeStep,
     UpsertStep, ProfileStep DEF Register!Next
<1>3. RegInv => Register!AdmissionsAreEarned
  <2> SUFFICES ASSUME RegInv PROVE Register!AdmissionsAreEarned
    OBVIOUS
  <2>1. ASSUME NEW m \in Messages
        PROVE  Len(admitted[m]) <= 1 /\ \A i \in 1 .. Len(admitted[m]) : admitted[m][i]
    <3>1. CASE admitted[m] = << >>
      BY <3>1
    <3>2. CASE admitted[m] # << >>
      <4>1. Len(admitted[m]) = 1 /\ admitted[m][1]
        BY <3>2 DEF RegInv, Once
      <4>2. \A i \in 1 .. Len(admitted[m]) : i = 1
        BY <4>1
      <4> QED  BY <4>1, <4>2
    <3> QED  BY <3>1, <3>2
  <2> QED  BY <2>1 DEF RegInv, Unlisted, Register!AdmissionsAreEarned
<1> QED  BY <1>1, <1>2, <1>3, PTL DEF Register!Spec
-----------------------------------------------------------------------------
(* The dashboard. *)

PageAssumed == { DELIVERY, REVIEW, ARBITRATION, VERDICT_TTL, MaxSkew } \subseteq Nat

Drafts == Bundles \cup {Page!None}

TaskStates == { "None", "Funded", "Delivered", "Disputed", "Arbitrating", "Resolved", "Completed",
                "Expired" }
ChainTask == [ state : TaskStates, due : Nat, evidenceHash : Drafts ]
Doing == [ name : Page!Writes \cup Page!Answers, moved : BOOLEAN, expiry : Nat, bundle : Drafts,
           pc : {"request", "verdict", "wallet", "record"} ]
Sent  == [ name : Page!Writes, bundle : Drafts, expiry : Nat, moved : BOOLEAN ]

PageTyped ==
    /\ clock \in Nat
    /\ me \in {"worker", "agent"}
    /\ task \in ChainTask
    /\ action \in Doing \cup {Page!Idle}
    /\ mempool \subseteq Sent
    /\ draft \in [Page!Keys -> Drafts]

(* The row says "completed" only of a task that has left the contract.     *)
RowFollows == listed = "completed" => task.state \in {"Completed", "Resolved"}

(* What the page saw when it offered the button is still so, as long as the*)
(* task did not move: states stay, and a moment that had come by a clock as*)
(* fast as one may be has come by it still.                                *)
Stands(a, bound) ==
    ~ a.moved =>
        /\ a.name = "submitWork" => task.state = "Funded"
        /\ a.name = "expireTask" => task.state = "Funded" /\ clock + MaxSkew >= task.due
        /\ a.name = "releaseAfterReview" => task.state = "Delivered" /\ clock + MaxSkew >= task.due
        /\ a.name = "claimWithVerdict" => task.state = "Delivered" /\ a.bundle = task.evidenceHash
        /\ a.name = "disputeTask" =>
             task.state = "Delivered" /\ (bound => a.bundle = task.evidenceHash)
        /\ a.name = "releaseAfterArbitration" =>
             /\ task.state \in {"Disputed", "Arbitrating"} /\ arbitrationClock
             /\ clock + MaxSkew >= task.due

PageInv ==
    /\ PageTyped
    /\ RowFollows
    /\ action \in Doing => /\ Stands(action, action.pc # "verdict")
                           /\ action.pc # "request" => action.name \in Page!Writes
    /\ \A tx \in mempool : Stands(tx, TRUE)

LEMMA IdleIsNot ==
    /\ Page!Idle \notin Doing /\ Page!Idle.name = Page!None
    /\ \A a \in Doing : a.name # Page!None
BY DEF Page!Idle, Doing, Page!None, Page!Writes, Page!Worker, Page!Answers

(* Whoever moves the task marks what the page is about to send.            *)
LEMMA SetKeeps ==
  ASSUME PageInv, NEW t, NEW sent, Page!Set(t, sent), t \in ChainTask,
         listed = "completed" => t.state \in {"Completed", "Resolved"}, sent \subseteq mempool
  PROVE  PageInv'
<1>1. CASE t = task
  <2>1. /\ UNCHANGED << clock, me, task, arbitrationClock, listed, action, draft >>
        /\ mempool' \subseteq mempool
    BY <1>1 DEF Page!Set
  <2> QED  BY <2>1 DEF PageInv, PageTyped, RowFollows, Stands
<1>2. CASE t # task
  <2>1. /\ UNCHANGED << clock, me, arbitrationClock, listed, draft >>
        /\ task' = t /\ action' = Page!Moved(action) /\ mempool' = { Page!Moved(tx) : tx \in sent }
    BY <1>2 DEF Page!Set
  <2>2. \A a \in Doing : /\ Page!Moved(a) \in Doing
                         /\ Page!Moved(a).pc = a.pc /\ Page!Moved(a).name = a.name
                         /\ a.name \in Page!Writes => Page!Moved(a).moved
    BY DEF Doing, Page!Moved
  <2>3. \A a \in Sent : Page!Moved(a) \in Sent /\ Page!Moved(a).moved
    BY DEF Sent, Page!Moved
  <2>4. Page!Moved(Page!Idle) = Page!Idle
    BY DEF Page!Moved, Page!Idle, Page!Writes, Page!Worker, Page!None
  <2>5. PageTyped'
    BY <2>1, <2>2, <2>3, <2>4 DEF PageInv, PageTyped
  <2>6. RowFollows'
    BY <2>1 DEF RowFollows
  <2>7. ASSUME action' \in Doing
        PROVE  (/\ Stands(action, action.pc # "verdict")
                /\ action.pc # "request" => action.name \in Page!Writes)'
    <3>1. action \in Doing
      BY <2>7, <2>4, <2>1, IdleIsNot DEF PageInv, PageTyped
    <3>2. /\ action'.pc = action.pc /\ action'.name = action.name
          /\ action.name \in Page!Writes => action'.moved
      BY <2>1, <2>2, <3>1
    <3> QED  BY <3>1, <3>2 DEF PageInv, Stands, Page!Writes, Page!Worker
  <2>8. (\A tx \in mempool : Stands(tx, TRUE))'
    BY <2>1, <2>3 DEF Stands, PageInv, PageTyped
  <2> QED  BY <2>5, <2>6, <2>7, <2>8 DEF PageInv
<1> QED  BY <1>1, <1>2

LEMMA NoTaskFits == Page!NoTask \in ChainTask
BY DEF Page!NoTask, ChainTask, TaskStates, Drafts, Page!None

(* A transaction changes the state it is for, and sets clocks from now.    *)
LEMMA BecomesFits ==
  ASSUME PageAssumed, PageInv, NEW tx, tx.name \in Page!Writes, Page!Permits(tx),
         tx.name = "submitWork" => tx.bundle \in Drafts
  PROVE  /\ Page!Becomes(tx) \in ChainTask
         /\ listed = "completed" => Page!Becomes(tx).state \in {"Completed", "Resolved"}
<1>1. task \in ChainTask /\ clock \in Nat /\ clock + REVIEW \in Nat /\ clock + ARBITRATION \in Nat
  BY DEF PageInv, PageTyped, PageAssumed
<1>2. Page!Becomes(tx) \in ChainTask
  BY <1>1, NoTaskFits DEF Page!Becomes, ChainTask, TaskStates, Page!Writes, Page!Worker
<1>3. task.state \notin {"Completed", "Resolved"}
  BY DEF Page!Permits, Page!PermitsAt, Page!Writes, Page!Worker
<1> QED  BY <1>2, <1>3 DEF PageInv, RowFollows

LEMMA PageStarts == ASSUME PageAssumed PROVE Page!Init => PageInv
<1> SUFFICES ASSUME Page!Init PROVE PageInv
  OBVIOUS
<1>2. PageTyped
  BY NoTaskFits DEF Page!Init, PageTyped, Drafts, Page!None
<1>3. RowFollows
  BY DEF Page!Init, RowFollows
<1> QED  BY <1>2, <1>3, IdleIsNot DEF PageInv, Page!Init

(* A step that leaves the task alone and takes up nothing new.             *)
LEMMA PageRests ==
  ASSUME PageAssumed, PageInv, UNCHANGED << me, task, arbitrationClock, action, mempool >>,
         clock' \in Nat, clock <= clock',
         draft' \in [Page!Keys -> Drafts],
         listed' = "completed" => listed = "completed" \/ task.state \in {"Completed", "Resolved"}
  PROVE  PageInv'
<1>1. PageTyped'
  BY DEF PageInv, PageTyped
<1>2. RowFollows'
  BY DEF PageInv, RowFollows
<1>3. \A a, b : Stands(a, b) => Stands(a, b)'
  BY DEF Stands, PageInv, PageTyped, ChainTask, PageAssumed
<1> QED  BY <1>1, <1>2, <1>3 DEF PageInv

(* A step of the action the page is busy with.                             *)
LEMMA PageActs ==
  ASSUME PageInv, UNCHANGED << clock, me, task, arbitrationClock, draft >>,
         listed' = "completed" => listed = "completed",
         action' \in Doing \cup {Page!Idle}, mempool' \subseteq Sent,
         action' \in Doing => /\ Stands(action', action'.pc # "verdict")
                              /\ action'.pc # "request" => action'.name \in Page!Writes,
         \A tx \in mempool' : Stands(tx, TRUE)
  PROVE  PageInv'
<1>1. PageTyped'
  BY DEF PageInv, PageTyped
<1>2. RowFollows'
  BY DEF PageInv, RowFollows
<1> QED  BY <1>1, <1>2 DEF PageInv, Stands

LEMMA TaskMoves ==
  ASSUME PageAssumed, PageInv,
         \/ Page!createTask
         \/ \E name \in Page!Writes : \E b \in Page!Given(name) : Page!elsewhere(name, b)
         \/ \E to \in {"Completed", "Arbitrating", "Resolved"} : Page!ruled(to)
         \/ \E tx \in mempool : Page!mined(tx)
  PROVE  PageInv'
<1>0. task \in ChainTask /\ clock \in Nat /\ mempool \subseteq Sent
  BY DEF PageInv, PageTyped
<1>1. CASE Page!createTask
  <2>1. clock + DELIVERY \in Nat
    BY <1>0 DEF PageAssumed
  <2>2. [Page!NoTask EXCEPT !.state = "Funded", !.due = clock + DELIVERY] \in ChainTask
    BY <2>1, NoTaskFits DEF ChainTask, TaskStates
  <2>3. listed # "completed"
    BY <1>1 DEF Page!createTask
  <2> QED  BY <1>1, <2>2, <2>3, SetKeeps DEF Page!createTask
<1>2. ASSUME NEW name \in Page!Writes, NEW b \in Page!Given(name), Page!elsewhere(name, b)
      PROVE  PageInv'
  <2> DEFINE tx == [ name |-> name, bundle |-> b, expiry |-> clock ]
  <2>1. Page!Permits(tx) /\ Page!Set(Page!Becomes(tx), mempool)
    BY <1>2 DEF Page!elsewhere
  <2>2. tx.name \in Page!Writes /\ tx.bundle \in Drafts
    BY DEF Drafts, Page!Given
  <2> HIDE DEF tx
  <2>3. /\ Page!Becomes(tx) \in ChainTask
        /\ listed = "completed" => Page!Becomes(tx).state \in {"Completed", "Resolved"}
    BY <2>1, <2>2, BecomesFits
  <2> QED  BY <2>1, <2>3, SetKeeps
<1>3. ASSUME NEW to \in {"Completed", "Arbitrating", "Resolved"}, Page!ruled(to)
      PROVE  PageInv'
  <2>1. [task EXCEPT !.state = to] \in ChainTask /\ [Page!NoTask EXCEPT !.state = to] \in ChainTask
    BY <1>0, NoTaskFits DEF ChainTask, TaskStates
  <2>2. listed # "completed"
    BY <1>3 DEF Page!ruled, PageInv, RowFollows
  <2> QED  BY <1>3, <2>1, <2>2, SetKeeps DEF Page!ruled
<1>4. ASSUME NEW tx \in mempool, Page!mined(tx)
      PROVE  PageInv'
  <2>1. mempool \ {tx} \subseteq mempool /\ tx \in Sent
    BY <1>0
  <2>2. CASE Page!Permits(tx)
    <3>1. tx.name \in Page!Writes /\ tx.bundle \in Drafts
      BY <2>1 DEF Sent
    <3>2. /\ Page!Becomes(tx) \in ChainTask
          /\ listed = "completed" => Page!Becomes(tx).state \in {"Completed", "Resolved"}
      BY <2>2, <3>1, BecomesFits
    <3>3. Page!Set(Page!Becomes(tx), mempool \ {tx})
      BY <1>4, <2>2 DEF Page!mined
    <3> QED  BY <2>1, <3>2, <3>3, SetKeeps
  <2>3. CASE ~ Page!Permits(tx)
    <3>1. Page!Set(task, mempool \ {tx})
      BY <1>4, <2>3 DEF Page!mined
    <3> QED  BY <1>0, <2>1, <3>1, SetKeeps DEF PageInv, RowFollows
  <2> QED  BY <2>2, <2>3
<1> QED  BY <1>1, <1>2, <1>3, <1>4

RowStates == { "accepted", "declined", "lapsed", "active", "disputed", "completed", "expired" }

LEMMA ViewMoves ==
  ASSUME PageAssumed, PageInv,
         \/ Page!sessionEnds \/ Page!Tick \/ Page!probeSession \/ Page!handleRevokeAllSessions
         \/ \E signs \in BOOLEAN : Page!handleSignIn(signs)
         \/ \E to \in RowStates : Page!rowStep(to)
         \/ Page!fetchTasks \/ Page!fetchFails \/ \E b \in Bundles : Page!edit(b)
  PROVE  PageInv'
<1>0. clock \in Nat /\ draft \in [Page!Keys -> Drafts]
  BY DEF PageInv, PageTyped
<1>1. CASE Page!sessionEnds
  BY <1>0, <1>1, PageRests DEF Page!sessionEnds
<1>2. CASE Page!Tick
  BY <1>0, <1>2, PageRests DEF Page!Tick, Page!own
<1>3. CASE Page!probeSession
  BY <1>0, <1>3, PageRests DEF Page!probeSession
<1>4. CASE Page!handleRevokeAllSessions
  BY <1>0, <1>4, PageRests DEF Page!handleRevokeAllSessions
<1>5. ASSUME NEW signs \in BOOLEAN, Page!handleSignIn(signs)
      PROVE  PageInv'
  BY <1>0, <1>5, PageRests DEF Page!handleSignIn
<1>6. ASSUME NEW to \in RowStates, Page!rowStep(to)
      PROVE  PageInv'
  BY <1>0, <1>6, PageRests DEF Page!rowStep, RowStates
<1>7. CASE Page!fetchTasks
  <2>1. draft' \in [Page!Keys -> Drafts]
    BY <1>0, <1>7 DEF Page!fetchTasks, Drafts
  <2> QED  BY <1>0, <1>7, <2>1, PageRests DEF Page!fetchTasks
<1>8. CASE Page!fetchFails
  BY <1>0, <1>8, PageRests DEF Page!fetchFails
<1>9. ASSUME NEW b \in Bundles, Page!edit(b)
      PROVE  PageInv'
  <2>1. draft' \in [Page!Keys -> Drafts]
    BY <1>0, <1>9 DEF Page!edit, Drafts
  <2> QED  BY <1>0, <1>9, <2>1, PageRests DEF Page!edit
<1> QED  BY <1>1, <1>2, <1>3, <1>4, <1>5, <1>6, <1>7, <1>8, <1>9

LEMMA ActionMoves ==
  ASSUME PageAssumed, PageInv,
         \/ Page!reload \/ \E name \in Page!Writes \cup Page!Answers : Page!click(name)
         \/ Page!handleOfferResponse \/ Page!handleDownloadAttestation \/ Page!requestVerdict
         \/ Page!actionFails \/ Page!recordDispute \/ Page!writeContract
  PROVE  PageInv'
<1>0. /\ clock \in Nat /\ draft \in [Page!Keys -> Drafts]
      /\ task \in ChainTask /\ action \in Doing \cup {Page!Idle} /\ mempool \subseteq Sent
      /\ \A tx \in mempool : Stands(tx, TRUE)
      /\ action \in Doing => /\ Stands(action, action.pc # "verdict")
                             /\ action.pc # "request" => action.name \in Page!Writes
  BY DEF PageInv, PageTyped
<1>1. CASE Page!reload
  <2>1. action' = Page!Idle /\ UNCHANGED << clock, me, task, arbitrationClock, listed, mempool, draft >>
    BY <1>1 DEF Page!reload
  <2>2. PageTyped'
    BY <1>0, <2>1 DEF PageInv, PageTyped
  <2> QED  BY <2>1, <2>2, <1>0, IdleIsNot DEF PageInv, RowFollows, Stands
<1>2. ASSUME NEW name \in Page!Writes \cup Page!Answers, Page!click(name)
      PROVE  PageInv'
  <2>1. /\ UNCHANGED << clock, me, task, arbitrationClock, draft, listed, mempool >>
        /\ Page!Shows(name)
        /\ name = "claimWithVerdict" => draft["id"] = view.on_chain.evidenceHash
        /\ action' = [ name |-> name, moved |-> view.on_chain # task, expiry |-> 0,
              bundle |-> IF name \in Page!Evidence THEN draft["id"] ELSE Page!None,
              pc |-> IF name \in Page!Answers THEN "request"
                     ELSE IF name \in {"claimWithVerdict", "disputeTask"} THEN "verdict" ELSE "wallet" ]
    BY <1>2 DEF Page!click, Page!Acts
  <2>2. action' \in Doing
    BY <1>0, <2>1 DEF Doing, Page!Keys, Drafts
  <2>3. action'.pc # "request" => action'.name \in Page!Writes
    BY <2>1
  <2>4. Stands(action', action'.pc # "verdict")
    <3> SUFFICES ASSUME view.on_chain = task
                 PROVE  Stands(action', action'.pc # "verdict")
      BY <2>1 DEF Stands
    <3>1. PICK nowSec \in 0 .. (clock + MaxSkew) : Page!Offered(name, view, nowSec)
      BY <2>1 DEF Page!Shows
    <3>2. nowSec >= task.due => clock + MaxSkew >= task.due
      BY <1>0, <3>1 DEF ChainTask, PageAssumed
    <3> QED  BY <2>1, <3>1, <3>2
             DEF Stands, Page!Offered, Page!InReview, Page!Evidence, Page!Answers
  <2> QED  BY <1>0, <2>1, <2>2, <2>3, <2>4, PageActs
<1>3. CASE Page!handleOfferResponse
  <2>1. /\ UNCHANGED << clock, me, task, arbitrationClock, draft, mempool >>
        /\ action' = Page!Idle /\ (listed' = "completed" => listed = "completed")
    BY <1>3 DEF Page!handleOfferResponse, Page!Acts
  <2> QED  BY <1>0, <2>1, IdleIsNot, PageActs
<1>4. CASE Page!handleDownloadAttestation
  <2>1. /\ UNCHANGED << clock, me, task, arbitrationClock, draft, mempool, listed >>
        /\ action' = Page!Idle
    BY <1>4 DEF Page!handleDownloadAttestation, Page!Acts
  <2> QED  BY <1>0, <2>1, IdleIsNot, PageActs
<1>5. CASE Page!requestVerdict
  <2>1. /\ UNCHANGED << clock, me, task, arbitrationClock, draft, mempool, listed >>
        /\ action.name # Page!None /\ action.pc = "verdict"
        /\ \/ action' = Page!Idle
           \/ /\ task.state \in {"Delivered", "Disputed", "Arbitrating"}
              /\ action.bundle = task.evidenceHash
              /\ (action.bundle \in Passing) = (action.name = "claimWithVerdict")
              /\ action' = [action EXCEPT !.pc = "wallet", !.expiry = clock + VERDICT_TTL]
    BY <1>5 DEF Page!requestVerdict, Page!Acts
  <2>2. action \in Doing /\ clock + VERDICT_TTL \in Nat
    BY <1>0, <2>1, IdleIsNot DEF PageAssumed
  <2>3. CASE action' = Page!Idle
    BY <1>0, <2>1, <2>3, IdleIsNot, PageActs
  <2>4. CASE action' # Page!Idle
    <3>1. action' \in Doing /\ action'.name = action.name /\ action'.bundle = action.bundle
          /\ action'.moved = action.moved /\ action'.pc = "wallet" /\ action.bundle = task.evidenceHash
      BY <2>1, <2>2, <2>4 DEF Doing
    <3>2. Stands(action', action'.pc # "verdict")
      BY <1>0, <2>2, <3>1 DEF Stands
    <3>3. action'.name \in Page!Writes
      BY <1>0, <2>1, <2>2, <3>1 DEF PageInv
    <3> QED  BY <1>0, <2>1, <3>1, <3>2, <3>3, PageActs
  <2> QED  BY <2>3, <2>4
<1>6. CASE Page!actionFails
  <2>1. /\ UNCHANGED << clock, me, task, arbitrationClock, draft, mempool, listed >>
        /\ action' = Page!Idle
    BY <1>6 DEF Page!actionFails, Page!Acts
  <2> QED  BY <1>0, <2>1, IdleIsNot, PageActs
<1>7. CASE Page!recordDispute
  <2>1. /\ UNCHANGED << clock, me, task, arbitrationClock, draft, mempool >>
        /\ action' = Page!Idle /\ (listed' = "completed" => listed = "completed")
    BY <1>7 DEF Page!recordDispute, Page!Acts
  <2> QED  BY <1>0, <2>1, IdleIsNot, PageActs
<1>8. CASE Page!writeContract
  <2> DEFINE tx == [ name |-> action.name, bundle |-> action.bundle, expiry |-> action.expiry,
                     moved |-> action.moved ]
  <2>1. /\ UNCHANGED << clock, me, task, arbitrationClock, draft, listed >>
        /\ action.name # Page!None /\ action.pc = "wallet" /\ mempool' = mempool \cup {tx}
        /\ action' = IF action.name = "disputeTask" THEN [action EXCEPT !.pc = "record"] ELSE Page!Idle
    BY <1>8 DEF Page!writeContract
  <2>2. action \in Doing /\ action.name \in Page!Writes
    BY <1>0, <2>1, IdleIsNot
  <2>3. tx \in Sent
    BY <2>2 DEF Sent, Doing
  <2>4. Stands(tx, TRUE)
    BY <1>0, <2>1, <2>2 DEF Stands
  <2>5. action' \in Doing =>
          /\ action'.pc = "record" /\ action'.name = action.name /\ action'.bundle = action.bundle
          /\ action'.moved = action.moved
    BY <2>1, <2>2, IdleIsNot DEF Doing
  <2>6. action' \in Doing \cup {Page!Idle}
    BY <2>1, <2>2 DEF Doing
  <2>7. action' \in Doing => Stands(action', action'.pc # "verdict")
    BY <1>0, <2>1, <2>2, <2>5 DEF Stands
  <2> HIDE DEF tx
  <2>8. mempool' \subseteq Sent /\ \A x \in mempool' : Stands(x, TRUE)
    BY <1>0, <2>1, <2>3, <2>4
  <2> QED  BY <2>1, <2>2, <2>5, <2>6, <2>7, <2>8, PageActs
<1> QED  BY <1>1, <1>2, <1>3, <1>4, <1>5, <1>6, <1>7, <1>8

LEMMA PageStep == ASSUME PageAssumed PROVE PageInv /\ [Page!Next]_Page!vars => PageInv'
<1> SUFFICES ASSUME PageInv, [Page!Next]_Page!vars PROVE PageInv'
  OBVIOUS
<1>1. CASE UNCHANGED Page!vars
  BY <1>1 DEF Page!vars, Page!own, PageInv, PageTyped, RowFollows, Stands
<1>2. CASE Page!Next
  BY <1>2, TaskMoves, ViewMoves, ActionMoves DEF Page!Next, Page!Names, RowStates
<1> QED  BY <1>1, <1>2

(* On a page that shows the task as it is: the row never says more than the*)
(* chain, and the browser's time is within the skew of the chain's.        *)
LEMMA PageOffers == ASSUME PageAssumed PROVE PageInv => Page!ClaimsAreOffered
<1> SUFFICES ASSUME PageInv, view.on_chain = task, view.status = listed,
                    NEW name \in Page!Claims, NEW nowSec \in Page!Now
             PROVE  /\ Page!Offered(name, view, nowSec) => Page!MayAt(name, clock + MaxSkew)
                    /\ \A time \in 0 .. clock :
                         time + MaxSkew <= clock /\ Page!MayAt(name, time)
                           => Page!Offered(name, view, nowSec)
  BY DEF Page!ClaimsAreOffered
<1>1. /\ me \in {"worker", "agent"} /\ clock \in Nat /\ MaxSkew \in Nat /\ task.due \in Nat
      /\ nowSec \in Nat /\ nowSec <= clock + MaxSkew /\ clock <= nowSec + MaxSkew
  BY DEF PageInv, PageTyped, PageAssumed, ChainTask, Page!Now
<1>2. task.state = "Delivered" => listed # "completed"
  BY DEF PageInv, RowFollows
<1>3. nowSec >= task.due => clock + MaxSkew >= task.due
  BY <1>1
<1>4. ASSUME NEW time \in 0 .. clock, time + MaxSkew <= clock, time >= task.due
      PROVE  nowSec >= task.due
  BY <1>1, <1>4
<1>5. CASE name = "expireTask"
  BY <1>1, <1>3, <1>4, <1>5 DEF Page!Offered, Page!MayAt, Page!PermitsAt
<1>6. CASE name = "releaseAfterReview"
  BY <1>1, <1>2, <1>3, <1>4, <1>6 DEF Page!Offered, Page!MayAt, Page!PermitsAt, Page!InReview
<1>7. CASE name = "releaseAfterArbitration"
  BY <1>1, <1>3, <1>4, <1>7 DEF Page!Offered, Page!MayAt, Page!PermitsAt
<1> QED  BY <1>5, <1>6, <1>7 DEF Page!Claims

LEMMA PageSends == PageInv => Page!SentIsAccepted
<1> SUFFICES ASSUME PageInv, NEW tx \in mempool, ~ tx.moved, ~ Page!Late(tx), ~ Page!Early(tx)
             PROVE  Page!Permits(tx)
  BY DEF Page!SentIsAccepted
<1>1. tx \in Sent /\ clock \in Nat /\ task \in ChainTask /\ Stands(tx, TRUE)
  BY DEF PageInv, PageTyped
<1>2. /\ tx.name = "submitWork" => clock < task.due
      /\ tx.name = "disputeTask" => clock < task.due
      /\ tx.name \in {"claimWithVerdict", "disputeTask"} => clock <= tx.expiry
  BY <1>1 DEF Page!Late, Sent, ChainTask
<1>3. tx.name \notin Page!Claims
  BY <1>1 DEF Page!Early, Page!PermitsAt, Page!Claims, Stands
<1> QED  BY <1>1, <1>2, <1>3
         DEF Stands, Page!Permits, Page!PermitsAt, Page!Claims, Sent, Page!Writes, Page!Worker

(* The dashboard (dashboard/page.tsx): on a page that shows the task as it *)
(* is a claim is offered as the contract grants it, up to how far the      *)
(* browser's clock is off block.timestamp; what the page has had the wallet*)
(* send is refused only when the task moved, its last moment passed, or the*)
(* first of a claim is less than that away.                                *)
THEOREM PageAgreesTheorem ==
  ASSUME PageAssumed
  PROVE  Page!Spec => [](Page!ClaimsAreOffered /\ Page!SentIsAccepted)
<1>1. Page!Init => PageInv
  BY PageStarts
<1>2. PageInv /\ [Page!Next]_Page!vars => PageInv'
  BY PageStep
<1>3. PageInv => Page!ClaimsAreOffered /\ Page!SentIsAccepted
  BY PageOffers, PageSends
<1> QED  BY <1>1, <1>2, <1>3, PTL DEF Page!Spec
=============================================================================
