---------------------------- MODULE PaymentPolicy ----------------------------
(***************************************************************************)
(* Settlement outcomes and the attempt policy of payments/domain.  An      *)
(* attempt is a record with an idempotency key and an outcome; the         *)
(* attempts of a payment intent are a sequence of them, oldest first.      *)
(***************************************************************************)
EXTENDS Naturals, Sequences

SettlementOutcomes == {"PENDING", "SUCCEEDED", "DECLINED", "FAILED", "UNKNOWN"}

MaxAttempts == 3

HasSucceeded(q) == \E i \in DOMAIN q : q[i].outcome = "SUCCEEDED"

\* Mutants of CanAttemptSettlement: without the rule against duplicates, or the limit.
CanAttemptAfterSuccess(q, ack) ==
    /\ Len(q) < MaxAttempts
    /\ q # <<>> /\ q[Len(q)].outcome = "DECLINED" => ack
CanAttemptForever(q, ack) ==
    /\ ~HasSucceeded(q)
    /\ q # <<>> /\ q[Len(q)].outcome = "DECLINED" => ack

\* May a settlement be attempted after the attempts q, given the rider's acknowledgment?
CanAttemptSettlement(q, ack) ==
    /\ ~HasSucceeded(q)
    /\ Len(q) < MaxAttempts
    /\ q # <<>> /\ q[Len(q)].outcome = "DECLINED" => ack
=============================================================================
