---------------------------- MODULE PaymentLedger ----------------------------
(***************************************************************************)
(* What the payments module promises for a ride: one intent that never     *)
(* changes, and a list of settlement attempts that only grows, one policy- *)
(* conforming attempt under an unused idempotency key at a time.  Once two *)
(* settlements of a ride have overlapped less is left of it: its rows may  *)
(* be replaced, at the most one more is there than before, and they still  *)
(* hold one success at most and keys of their own.                         *)
(***************************************************************************)
EXTENDS Sequences, PaymentPolicy

CONSTANTS Rides, Keys, Amounts, NoIntent

VARIABLES intent,      \* intent[r]: the amount to collect, or NoIntent
          attempts,    \* attempts[r]: the settlement attempts of ride r
          contested    \* rides whose settlements have overlapped

Init == /\ intent = [r \in Rides |-> NoIntent]
        /\ attempts = [r \in Rides |-> <<>>]
        /\ contested = {}

OpenIntent(r, m) == /\ intent[r] = NoIntent
                    /\ intent' = [intent EXCEPT ![r] = m]
                    /\ UNCHANGED <<attempts, contested>>

KeyIsUnused(k) == \A r \in Rides, i \in 1..MaxAttempts :
                     i \in DOMAIN attempts[r] => attempts[r][i].key # k

\* The policy is asked about the attempts the new one is appended to; the rider may
\* acknowledge a decline.
Settle(r, k, o) == /\ intent[r] # NoIntent
                   /\ KeyIsUnused(k)
                   /\ CanAttemptSettlement(attempts[r], TRUE)
                   /\ attempts' = [attempts EXCEPT ![r] = Append(@, [key |-> k, outcome |-> o])]
                   /\ UNCHANGED <<intent, contested>>

\* Two settlements of a ride overlap.
Contest(r) == /\ intent[r] # NoIntent
              /\ contested' = contested \cup {r}
              /\ UNCHANGED <<intent, attempts>>

\* The attempts q of one ride may be recorded beside those of the others.
Recordable(r, q) ==
    /\ \A i, j \in DOMAIN q : i # j => /\ q[i].key # q[j].key
                                       /\ ~(q[i].outcome = "SUCCEEDED" /\ q[j].outcome = "SUCCEEDED")
    /\ \A s \in Rides \ {r} : \A i \in DOMAIN q, j \in DOMAIN attempts[s] :
           q[i].key # attempts[s][j].key

\* One of the overlapping settlements writes all attempts as it knows them.
Overwrite(r) ==
    /\ r \in contested
    /\ attempts' \in [Rides -> Seq([key : Keys, outcome : SettlementOutcomes])]
    /\ Len(attempts'[r]) \in {Len(attempts[r]), Len(attempts[r]) + 1} \cap 0..MaxAttempts
    /\ Recordable(r, attempts'[r])
    /\ \A s \in Rides \ {r} : attempts'[s] = attempts[s]
    /\ UNCHANGED <<intent, contested>>

Next == \E r \in Rides : \/ \E m \in Amounts : OpenIntent(r, m)
                         \/ \E k \in Keys, o \in SettlementOutcomes : Settle(r, k, o)
                         \/ Contest(r)
                         \/ Overwrite(r)

Spec == Init /\ [][Next]_<<intent, attempts, contested>>
=============================================================================
