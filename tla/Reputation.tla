----------------------------- MODULE Reputation -----------------------------
(***************************************************************************)
(* lib/reputation: a worker's score, from the states the chain gives the   *)
(* tasks the database proposes, or from the database's own statuses when   *)
(* the chain cannot be read.  Points are hundredths until they are rounded.*)
(***************************************************************************)
EXTENDS Naturals, FiniteSets

CONSTANTS
    Tasks,          \* the tasks of the table that name the worker
    Readers

VARIABLES
    chain,       \* [Tasks -> the state of the task on the chain]
    age,         \* [Tasks -> recent (30 days), mid (90), or old]
    answer       \* [Readers -> where a call is, and what the last one was answered]

own == << chain, age, answer >>

Ages    == { "recent", "mid", "old" }
Nothing == [ source |-> "none" ]

Init ==
    /\ chain = [t \in Tasks |-> "None"]
    /\ age = [t \in Tasks |-> "recent"]
    /\ answer = [r \in Readers |-> [ pc |-> "none", said |-> Nothing ]]
-----------------------------------------------------------------------------
(* The chain goes on; a row follows it later, or not.  A task is Foreign   *)
(* when the chain holds another worker's under its id.                     *)

Moves == { << "None", "Funded" >>, << "None", "Foreign" >>, << "Funded", "Delivered" >>,
           << "Funded", "Expired" >>, << "Funded", "Completed" >>, << "Delivered", "Completed" >>,
           << "Funded", "Disputed" >>, << "Delivered", "Disputed" >>, << "Disputed", "Completed" >>,
           << "Disputed", "Arbitrating" >>, << "Arbitrating", "Completed" >>,
           << "Disputed", "Resolved" >>, << "Arbitrating", "Resolved" >> }

escrowStep(t, to) ==
    /\ << chain[t], to >> \in Moves
    /\ chain' = [chain EXCEPT ![t] = to]
    /\ UNCHANGED << age, answer >>

getsOlder(t) ==
    /\ age[t] # "old"
    /\ age' = [age EXCEPT ![t] = IF @ = "recent" THEN "mid" ELSE "old"]
    /\ UNCHANGED << chain, answer >>

(* The status of a row, which may be that of an earlier state; all but two *)
(* count alike.  A ruling completes the task or expires it.                *)
Statuses(state) ==
    CASE state \in {"Completed", "Resolved"}   -> { "completed", "disputed", "other" }
      [] state \in {"Disputed", "Arbitrating"} -> { "disputed", "other" }
      [] OTHER -> { "other" }
-----------------------------------------------------------------------------
(* computeReputation *)

Clamp(n, top) == IF n > top THEN top ELSE n

(* Mutant: tasks that were paid leave the denominator. *)
completionPoints_OfOpen(s) ==
    LET open == s.total - s.completed
    IN  IF open = 0 \/ 2 * s.disputed >= s.completed THEN 0
        ELSE Clamp(((s.completed - 2 * s.disputed) * 5000) \div open, 5000)

(* The rate of completion less twice the rate of disputes, never negative. *)
completionPoints(s) ==
    IF s.total = 0 \/ 2 * s.disputed >= s.completed THEN 0
    ELSE Clamp(((s.completed - 2 * s.disputed) * 5000) \div s.total, 5000)

(* log2(completed + 1) * 5. *)
volumePoints(s) ==
    CASE s.completed = 0 -> 0    [] s.completed = 1 -> 500
      [] s.completed = 2 -> 792  [] s.completed = 3 -> 1000 [] OTHER -> 1160

recencyPoints(s) == Clamp(400 * s.recentCompletions + 100 * s.midCompletions, 2500)

computeReputation(s) ==
    (Clamp(completionPoints(s) + volumePoints(s) + recencyPoints(s), 10000) + 50) \div 100

(* What is counted, of it what was completed, and what is held against him.*)
Summary(known, done, held) ==
    LET Aged(a) == Cardinality({ t \in done : age[t] = a })
    IN  [ total |-> Cardinality(known), completed |-> Cardinality(done),
          disputed |-> Cardinality(held),
          recentCompletions |-> Aged("recent"), midCompletions |-> Aged("mid") ]

(* getOnChainReputationSummary, as getFullReputation counts it. *)
onChainSummary ==
    LET known == { t \in Tasks : chain[t] \notin {"None", "Foreign"} }
    IN  Summary(known, { t \in known : chain[t] = "Completed" },
                       { t \in known : chain[t] \in {"Disputed", "Resolved"} })

(* getReputationSummary: every row there is. *)
databaseSummary(status) ==
    Summary(Tasks, { t \in Tasks : status[t] = "completed" },
                   { t \in Tasks : status[t] = "disputed" })
-----------------------------------------------------------------------------
(* getFullReputation *)

Calls(r, f) == answer' = [answer EXCEPT ![r] = f] /\ UNCHANGED << chain, age >>

getTasksByWallet(r) ==
    /\ answer[r].pc = "none"
    /\ Calls(r, [answer[r] EXCEPT !.pc = "multicall"])

(* With what was read, for the record. *)
Answers(r, source, s, read) ==
    Calls(r, [ pc |-> "none", said |-> [ source |-> source, score |-> computeReputation(s),
                                         read |-> read, age |-> age ]])

multicall(r) ==
    /\ answer[r].pc = "multicall"
    /\ \/ Answers(r, "on-chain", onChainSummary, chain)
       \/ Calls(r, [answer[r] EXCEPT !.pc = "fallback"])

(* The second query fails too: the route answers an error. *)
fallback(r) ==
    /\ answer[r].pc = "fallback"
    /\ \/ \E status \in [Tasks -> {"completed", "disputed", "other"}] :
            /\ \A t \in Tasks : status[t] \in Statuses(chain[t])
            /\ Answers(r, "database", databaseSummary(status), status)
       \/ Calls(r, [answer[r] EXCEPT !.pc = "none"])

Next ==
    \/ \E t \in Tasks, m \in Moves : escrowStep(t, m[2])
    \/ \E t \in Tasks : getsOlder(t)
    \/ \E r \in Readers : getTasksByWallet(r) \/ multicall(r) \/ fallback(r)

Spec == Init /\ [][Next]_own
-----------------------------------------------------------------------------
(* What an answer counts, and what speaks for the worker and against him:  *)
(* on the chain a ruling does, whoever was paid by it.                     *)
Counted(a) == { t \in Tasks : a.read[t] \notin {"None", "Foreign"} }
For     == { "Completed", "completed" }
Against == { "Disputed", "Resolved", "disputed" }

(* What b was told of a task is no worse than what a was.                  *)
NoWorse(a, b, t) ==
    /\ a.read[t] \in For => b.read[t] \in For /\ b.age[t] = a.age[t]
    /\ b.read[t] \in Against => a.read[t] \in Against

(* Whichever source it is from, no answer gives a lower score than an      *)
(* earlier one did, to whomever, that counted the same tasks, unless one of*)
(* these is in between disputed or ruled on, by what the source says, or a *)
(* completion of an earlier month.  So a task that completes never lowers  *)
(* the score, and a dispute never raises it.                               *)
ScoreFollows ==
    \A r, s \in Readers :
        LET a == answer[s].said
            b == answer'[r].said
        IN  (/\ a # Nothing /\ b \notin {Nothing, answer[r].said}
             /\ Counted(a) = Counted(b)) =>
                /\ (\A t \in Counted(a) : NoWorse(a, b, t)) => a.score <= b.score
                /\ (\A t \in Counted(a) : NoWorse(b, a, t)) => b.score <= a.score
=============================================================================
