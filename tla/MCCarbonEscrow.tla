--------------------------- MODULE MCCarbonEscrow ---------------------------
(* Instances of CarbonEscrow for TLC.  Hours are scaled to ticks so that   *)
(* MIN < MAX, and each window is long enough to act inside and outside it. *)
EXTENDS CarbonEscrow, TLC

CONSTANTS t1, t2, platform, kms, alice, bob, spec1, spec2, work1, work2

(* Only alice has USDC to fund with, so she is the agent of every task.    *)
MCUsdc    == [a \in Accounts |-> IF a = alice THEN 1 ELSE 0]
MCUsdcTwo == [a \in Accounts |-> IF a = alice THEN 3 ELSE 0]

SignedVerdict(t, spec, work, passed, expiry, nonce, signer) ==
    [ verdict |-> [ taskId |-> t, specHash |-> spec, evidenceHash |-> work,
                    passed |-> passed, expiry |-> expiry, nonce |-> nonce ],
      signer |-> signer ]

(* One task: a passing and a failing verdict about the delivered work, a   *)
(* failing one about other work, and one that lapses early.                *)
SignedOne ==
    { SignedVerdict(t1, spec1, work1, TRUE, MaxTime, 1, kms),
      SignedVerdict(t1, spec1, work1, FALSE, MaxTime, 2, kms),
      SignedVerdict(t1, spec1, work2, FALSE, MaxTime, 1, kms),
      SignedVerdict(t1, spec1, work2, TRUE, 2, 2, kms) }

TaskSymmetry == Permutations(TaskIds)

(* Two tasks: the same nonce on verdicts about both, by two signers.       *)
SignedTwo ==
    { SignedVerdict(t, spec1, work1, FALSE, MaxTime, 1, kms) : t \in TaskIds }
    \cup
    { SignedVerdict(t, spec1, work1, TRUE, MaxTime, 1, s) :
        t \in TaskIds, s \in {kms, bob} }
=============================================================================
