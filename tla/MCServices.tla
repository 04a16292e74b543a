------------------------------ MODULE MCServices ------------------------------
(***************************************************************************)
(* A small instance of every service in module Services.                   *)
(***************************************************************************)
EXTENDS Services, TLC

CONSTANTS w1, w2, c1, c2, c3, r1, r2, t1, t2, t3, u1, p1, p2, m1, b1, b2, alice, NoKey
-----------------------------------------------------------------------------
(* Who calls. *)

(* Two calls that carry one nonce; then the requests of one session.       *)
MCProve ==
    [ Wallets |-> {w1, w2}, Nonces |-> {1, 2}, Tokens |-> {1, 2}, SignIns |-> {c1, c2},
      Requests |-> {}, CHALLENGE_TTL |-> 1, SESSION_TTL |-> 3, SLIDE_THROTTLE |-> 1,
      MaxTransit |-> 1, MaxClock |-> 2 ]
MCAuth ==
    [ Wallets |-> {w1, w2}, Nonces |-> {1}, Tokens |-> {1}, SignIns |-> {c3},
      Requests |-> {r1, r2}, CHALLENGE_TTL |-> 1, SESSION_TTL |-> 4, SLIDE_THROTTLE |-> 1,
      MaxTransit |-> 1, MaxClock |-> 6 ]

MCRegister ==
    [ Wallets |-> {"w1"}, Messages |-> {1, 2}, Contacts |-> {1}, Posts |-> {p1, p2},
      Rates |-> {1}, Availability |-> {"offline"}, MAX_MESSAGE_AGE_S |-> 0, PURGE_S |-> 1,
      CACHE_TTL_MS |-> 1, MaxTransit |-> 1, MaxClock |-> 2 ]

MCMcp ==
    [ Ids |-> {1, 2, 3}, Opens |-> {c1, c2}, SESSION_TIMEOUT_MS |-> 1, MAX_SESSIONS |-> 1,
      MaxClock |-> 3 ]

MCLimiter ==
    [ Backend |-> "memory", Clients |-> {c3}, maxRequests |-> 2, windowMs |-> 2,
      MaxPerTick |-> 3, MaxCount |-> 4, MaxClock |-> 6 ]
-----------------------------------------------------------------------------
(* Evidence and what is signed about it. *)

Artefact(gps, taken, camera, ai, phash) ==
    [ gps |-> gps, taken |-> taken, camera |-> camera, ai |-> ai, phash |-> phash ]
Good == Artefact({1}, {3}, TRUE, FALSE, {<<1, 1>>})

(* Each kind of reading missing, wrong, and right; one artefact or two.    *)
NotHex    == << 2 >>
Artefacts ==
    { Artefact(g, t, TRUE, FALSE, {<<1, 1>>}) : g, t \in {{}, {1}, {2}} }
    \cup { Artefact({1}, {3}, camera, ai, {<<0, 1>>}) : camera, ai \in BOOLEAN }
    \cup { Artefact({1}, {3}, TRUE, FALSE, p) : p \in {{}, {<<0, 0>>}, {<<0, 1, 1>>}, {NotHex}} }
Missing  == Artefact({}, {}, FALSE, FALSE, {})
Wrong    == Artefact({2}, {1}, FALSE, TRUE, {<<0, 0>>})
MCBundles ==
    { << a >> : a \in Artefacts } \cup { << Good, a >> : a \in {Good, Missing, Wrong} }
    \cup { << Missing, Good >>, << >>, << Good, Good, Good >> }

(* Each criterion alone and with the others, and specs no intake accepts.  *)
Criteria(version, min, gps, after, provenance, phash) ==
    [ version |-> version, min_artefacts |-> min, gps |-> gps, captured_after |-> after,
      provenance |-> provenance, phash |-> phash ]
Cap(source, halves) == [ source |-> source, halves |-> halves ]
Both     == [ camera |-> {"yes"}, ai |-> {"yes"} ]
MCSpecs ==
    { Criteria(1, m, g, t, p, h) :
        m \in {{}, {2}}, g \in {{}, {1}}, t \in {{}, {0}}, p \in {{}, {Both}},
        h \in {{}, {Cap(<< <<0, 0>> >>, 0)}, {Cap(<< <<0, 0>>, <<0, 1>> >>, 1)}} }
    \cup { Criteria(1, {}, {}, {}, {[ camera |-> c, ai |-> a ]}, {}) : c, a \in {{}, {"no"}, {"yes"}} }
    \cup { Criteria(1, {}, {}, {}, {}, {Cap(s, 1)}) :
             s \in { << >>, << NotHex >>, << <<0, 0>>, <<0, 1, 0>> >> } }
    \cup { Criteria(2, {}, {}, {}, {}, {}), Criteria(1, {0}, {}, {}, {}, {}),
           Criteria(1, {3}, {}, {}, {}, {}), Criteria(1, {}, {}, {1}, {}, {}) }

MCAccept ==
    [ Specs |-> MCSpecs, Bundles |-> MCBundles, FundedAt |-> 2, ConfirmedAt |-> {2, 3},
      MAX_ARTIFACTS |-> 2 ]

(* The agent's cap is below the platform's, at it, or above it.            *)
MCUpload ==
    [ TaskIds |-> {t1}, Agents |-> {alice}, Workers |-> {w1, w2}, Keys |-> {}, NoKey |-> NoKey,
      WORKER_CONCURRENCY_CAP |-> 3, IDEMPOTENCY_KEY_TTL |-> 1, MaxClock |-> 1,
      Uploads |-> {u1}, PLATFORM_MAX_UPLOAD_BYTES |-> 2, Sizes |-> {1, 2, 3},
      UPLOAD_URL_TTL_SECONDS |-> 1 ]

(* A group of seven elements, digests 0 and 3, and bytes of base 4.        *)
MCKms ==
    [ SECP256K1_ORDER |-> 7, Digests |-> {0, 3}, Callers |-> {c1, c2}, BYTE |-> 4 ]

MCAttest ==
    [ Tasks |-> {t1}, Worker |-> [t \in {t1} |-> "w"], Callers |-> {"w", "x"},
      Calls |-> {c1, c2}, Structs |-> [s \in {"1.2.0", "1.0.1", "next"} |-> s = "1.2.0"],
      VERIFIED_ATTEST_ENVELOPES |-> {"1.2.0", "1.0.1"}, MaxNonce |-> 2, MaxUpgrades |-> 1 ]
-----------------------------------------------------------------------------
(* What is read, told, shown, kept and purged. *)

MCTools ==
    [ Calls |-> {r1}, DELIVERY |-> 1, MaxClock |-> 2 ]

MCClient ==
    [ Tasks |-> {t1, t2}, Reads |-> {r1}, Mine |-> {t1}, RPC_MAX_BLOCK_RANGE |-> 2,
      ESCROW_DEPLOY_BLOCK |-> 1, MaxBlock |-> 4, HEAD_LAG |-> 1,
      Routes |-> {"PassingVerdict"} ]

MCReputation ==
    [ Tasks |-> {t1, t2}, Readers |-> {r1} ]

MCDashboard ==
    [ Bundles |-> {b1, b2}, Passing |-> {b1}, DELIVERY |-> 2, REVIEW |-> 1,
      ARBITRATION |-> 1, VERDICT_TTL |-> 0, MaxSkew |-> 1, MaxPending |-> 1, MaxClock |-> 2 ]

MCRetention ==
    [ TaskIds |-> {t1, t2}, Agents |-> {alice}, Workers |-> {w1}, Keys |-> {},
      NoKey |-> NoKey, WORKER_CONCURRENCY_CAP |-> 3, IDEMPOTENCY_KEY_TTL |-> 1,
      MaxClock |-> 2, Prunes |-> {p1, p2}, DISPUTE_WINDOW_SECONDS |-> 1,
      PRUNE_BATCH_LIMIT |-> 1 ]

MCBackup ==
    [ TIER1_TABLES |-> << "humans", "tasks" >>, Deletable |-> {"tasks"}, Ids |-> {1, 2, 3},
      EXPORT_PAGE_SIZE |-> 2, Runs |-> {r1}, Minutes |-> {m1}, MaxChanges |-> 2 ]

-----------------------------------------------------------------------------
(* Bounds: of two registrations the one with an email address is signed    *)
(* first; the page starts nothing while a transaction of its wallet waits, *)
(* except the report of a dispute; and it is followed no further when the  *)
(* clock has ended with no deadline of the task open and nothing waiting.  *)
FewAtOnce ==
    /\ part = "register" =>
         (v2[2] # Register!Unsigned => v2[1] # Register!Unsigned)
    /\ part = "dashboard" =>
         /\ v11 # {} => v10 = Dash!Idle \/ v10.pc = "record"
         /\ v0 = dashboard.MaxClock => v2.due > 0 \/ v11 # {}

(* Two callers of a kind are interchangeable wherever there are two.       *)
CallerSymmetry == Permutations({c1, c2}) \cup Permutations({p1, p2})
=============================================================================
