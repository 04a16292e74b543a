---------------------------- MODULE MCOfferBooking ----------------------------
(* Instances of OfferBooking for TLC. *)
EXTENDS OfferBooking

CONSTANTS h1, h2, alice, bob, w1, w2, k1, a1, a2

(* Two answers, by two workers, to one offer that was made without a key.  *)
OneOffer ==
    /\ hire[h2].pc = "idle"
    /\ hire[h1].agent = NoRow.agent /\ hire[h1].key = NoKey
    /\ \A a \in Answers : answer[a].pc # "idle" => answer[a].task = h1

(* Two hires, by two agents, of one worker who answers nothing.            *)
TwoHires ==
    /\ \A a \in Answers : answer[a].pc = "idle"
    /\ \A h \in TaskIds : hire[h].pc # "idle" => hire[h].worker = w1
    /\ \A t \in TaskIds : Exists(t) => rows[t].expiry = rows[t].createdAt + 1

(* What is explored of the instance that has both. *)
OfferOrHires == OneOffer \/ TwoHires
===============================================================================
