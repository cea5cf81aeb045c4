-------------------------- MODULE PaymentSettlement --------------------------
(***************************************************************************)
(* The payments module: CreatePaymentIntent and InitiateSettlement run     *)
(* concurrently over the tables payment_intents, settlement_attempts and   *)
(* outbox, and call the payment provider between two database phases.      *)
(*                                                                         *)
(*  Phase A  load the intent, check the policy, charge (no transaction)    *)
(*  Phase B  load the intent again, append the attempt, upsert every       *)
(*           attempt under its number, enqueue the event, commit           *)
(*                                                                         *)
(* The reload of phase B runs outside the transaction and takes no lock,   *)
(* so it is a step of its own.  The upsert of the intent row locks it, so  *)
(* the rest of the transaction is one step at its commit.                  *)
(***************************************************************************)
EXTENDS Integers, Sequences, FiniteSets, PaymentPolicy

CONSTANTS Rides,               \* completed rides to collect for
          Keys,                \* idempotency keys clients send
          Amounts,             \* fares an intent may be created with
          NoIntent,            \* no row in payment_intents
          Workers,             \* requests that overlap
          ProviderOutcomes,    \* outcomes the provider may report
          ProviderDedupes,     \* does the provider answer a known key from memory?
          MaxRequests,         \* bound: settlement requests in one behaviour
          MaxFaults            \* bound: crashes and lost provider answers

ASSUME RidesAssumption    == Rides # {}
ASSUME KeysAssumption     == Keys # {}
ASSUME AmountsAssumption  == NoIntent \notin Amounts
ASSUME ProviderAssumption == /\ ProviderOutcomes \subseteq SettlementOutcomes
                             /\ ProviderDedupes \in BOOLEAN
ASSUME BoundsAssumption   == MaxRequests \in Nat /\ MaxFaults \in Nat

VARIABLES intent,    \* intent[r]: amount_cop of the payment_intents row of ride r
          attempts,  \* attempts[r][n]: row <intent>-attempt-<n> of settlement_attempts
          outbox,    \* integration events in the outbox table
          results,   \* what the provider did: [ride, key, outcome] of every charge
          captured,  \* captured[r]: how often money was taken for ride r
          reported,  \* what phase A learnt: [ride, key, outcome] of every charge
          pc,        \* pc[w]: the await worker w is suspended at
          job,       \* job[w]: the request worker w serves
          outcome,   \* outcome[w]: providerOutcome
          copy,      \* copy[w]: the attempts of freshIntent
          requests,  \* settlement requests made so far
          faults,    \* crashes and lost answers so far
          contested, \* rides whose settlements have overlapped (history)
          disturbed  \* rides that lost an answer of the provider, or reused a key (history)

vars == <<intent, attempts, outbox, results, captured, reported,
          pc, job, outcome, copy, requests, faults, contested, disturbed>>
providerVars == <<results, captured, reported>>
history == <<contested, disturbed>>

Attempts == [key : Keys, outcome : SettlementOutcomes]
Charges == [ride : Rides, key : Keys, outcome : SettlementOutcomes]
Events == [ride : Rides, amount : Amounts]         \* payment.intent.created.v1
          \cup [ride : Rides, number : 1..MaxAttempts, outcome : SettlementOutcomes]
                                                   \* payment.settlement.completed.v1
NoJob == [type |-> "none"]
Jobs == [type : {"create"}, ride : Rides, amount : Amounts]
        \cup [type : {"settle"}, ride : Rides, key : Keys, ack : BOOLEAN]
        \cup {NoJob}

Init == /\ intent = [r \in Rides |-> NoIntent]
        /\ attempts = [r \in Rides |-> <<>>]
        /\ outbox = {}
        /\ results = {}
        /\ captured = [r \in Rides |-> 0]
        /\ reported = {}
        /\ pc = [w \in Workers |-> "idle"]
        /\ job = [w \in Workers |-> NoJob]
        /\ outcome = [w \in Workers |-> "PENDING"]
        /\ copy = [w \in Workers |-> <<>>]
        /\ requests = 0
        /\ faults = 0
        /\ contested = {} /\ disturbed = {}

\* Worker w has answered or died: its memory is gone.
Finish(w) == /\ pc' = [pc EXCEPT ![w] = "idle"]
             /\ job' = [job EXCEPT ![w] = NoJob]
             /\ outcome' = [outcome EXCEPT ![w] = "PENDING"]
             /\ copy' = [copy EXCEPT ![w] = <<>>]

-----------------------------------------------------------------------------
(* CreatePaymentIntent.                                                    *)

\* findByRideId finds no intent (an existing one is answered and nothing changes).
CreatePaymentIntent(w, r, m) ==
    /\ pc[w] = "idle"
    /\ intent[r] = NoIntent
    /\ pc' = [pc EXCEPT ![w] = "creating"]
    /\ job' = [job EXCEPT ![w] = [type |-> "create", ride |-> r, amount |-> m]]
    /\ UNCHANGED <<intent, attempts, outbox, providerVars, outcome, copy, requests, faults, history>>

\* Mutant of InsertIntent: without the unique index on ride_id.
InsertIntentAgain(w) ==
    LET j == job[w] IN
    /\ pc[w] = "creating"
    /\ intent' = [intent EXCEPT ![j.ride] = j.amount]
    /\ outbox' = outbox \cup {[ride |-> j.ride, amount |-> j.amount]}
    /\ Finish(w)
    /\ UNCHANGED <<attempts, providerVars, requests, faults, history>>

\* The insert and its event commit.
InsertIntent(w) ==
    LET j == job[w] IN
    /\ pc[w] = "creating"
    /\ intent[j.ride] = NoIntent
    /\ intent' = [intent EXCEPT ![j.ride] = j.amount]
    /\ outbox' = outbox \cup {[ride |-> j.ride, amount |-> j.amount]}
    /\ Finish(w)
    /\ UNCHANGED <<attempts, providerVars, requests, faults, history>>

\* The unique index on ride_id refuses the insert: roll back and answer with an error.
InsertRefused(w) ==
    /\ pc[w] = "creating"
    /\ intent[job[w].ride] # NoIntent
    /\ Finish(w)
    /\ UNCHANGED <<intent, attempts, outbox, providerVars, requests, faults, history>>

-----------------------------------------------------------------------------
(* InitiateSettlement, phase A.                                            *)

\* Worker w is at a settlement of ride r.
InFlight(w, r) == /\ pc[w] \in {"charging", "settling", "saving", "replaying"}
                  /\ job[w].ride = r

\* Key k was reported for ride r, or is about to be.
UsesKey(r, k) == \/ \E c \in reported : c.ride = r /\ c.key = k
                 \/ \E v \in Workers : InFlight(v, r) /\ job[v].key = k

\* The rides that a settlement of ride r under key k disturbs: all that share the key and,
\* where the provider has no memory for keys, r itself if it has used the key before.
Clashes(r, k) ==
    LET sharers == {s \in Rides \ {r} : UsesKey(s, k)}
    IN IF sharers # {} \/ (UsesKey(r, k) /\ ~ProviderDedupes) THEN sharers \cup {r} ELSE {}

\* The policy allows an attempt on the intent as loaded (otherwise the request is answered
\* with the attempt that has its key, or with a conflict, and nothing changes).
InitiateSettlement(w, r, k, ack) ==
    /\ pc[w] = "idle"
    /\ requests < MaxRequests
    /\ intent[r] # NoIntent
    /\ CanAttemptSettlement(attempts[r], ack)
    /\ requests' = requests + 1
    /\ pc' = [pc EXCEPT ![w] = "charging"]
    /\ job' = [job EXCEPT ![w] = [type |-> "settle", ride |-> r, key |-> k, ack |-> ack]]
    /\ contested' = IF \E v \in Workers : InFlight(v, r) THEN contested \cup {r} ELSE contested
    /\ disturbed' = disturbed \cup Clashes(r, k)
    /\ UNCHANGED <<intent, attempts, outbox, providerVars, outcome, copy, faults>>

\* What the provider may do with a charge: answer from memory, or charge now.
ProviderAnswers(r, k) ==
    LET known == {c \in results : c.key = k}
    IN IF ProviderDedupes /\ known # {}
       THEN {c.outcome : c \in known}
       ELSE ProviderOutcomes

\* The provider executes the charge.  Money moves if it succeeds and is not a repetition
\* the provider recognises.
ProviderCharges(r, k, o) ==
    /\ results' = results \cup {[ride |-> r, key |-> k, outcome |-> o]}
    /\ captured' = IF o = "SUCCEEDED" /\ ~(ProviderDedupes /\ \E c \in results : c.key = k)
                   THEN [captured EXCEPT ![r] = @ + 1]
                   ELSE captured

\* Mutant of Learn: any answer of the provider counts as a success.
LearnSuccess(w, o) ==
    LET answer == IF o = "FAILED" THEN "FAILED" ELSE "SUCCEEDED" IN
    /\ outcome' = [outcome EXCEPT ![w] = answer]
    /\ reported' = reported \cup {[ride |-> job[w].ride, key |-> job[w].key, outcome |-> answer]}
    /\ pc' = [pc EXCEPT ![w] = "settling"]

\* Worker w takes o for the outcome of its charge.
Learn(w, o) == /\ outcome' = [outcome EXCEPT ![w] = o]
               /\ reported' = reported \cup {[ride |-> job[w].ride, key |-> job[w].key,
                                              outcome |-> o]}
               /\ pc' = [pc EXCEPT ![w] = "settling"]

\* provider.charge answers.
Charge(w) ==
    /\ pc[w] = "charging"
    /\ \E o \in ProviderAnswers(job[w].ride, job[w].key) :
          /\ ProviderCharges(job[w].ride, job[w].key, o)
          /\ Learn(w, o)
    /\ UNCHANGED <<intent, attempts, outbox, job, copy, requests, faults, history>>

\* provider.charge reports an error: FAILED, whether or not the charge went through.
ChargeError(w) ==
    /\ pc[w] = "charging"
    /\ faults < MaxFaults
    /\ faults' = faults + 1
    /\ \/ \E o \in ProviderAnswers(job[w].ride, job[w].key) :
             ProviderCharges(job[w].ride, job[w].key, o)
       \/ UNCHANGED <<results, captured>>
    /\ Learn(w, "FAILED")
    /\ disturbed' = disturbed \cup {job[w].ride}
    /\ UNCHANGED <<intent, attempts, outbox, job, copy, requests, contested>>

-----------------------------------------------------------------------------
(* InitiateSettlement, phase B.                                            *)

\* Mutant of HasKey: keys are compared by something they all share.
HasAnyKey(q, k) == q # <<>>

HasKey(q, k) == \E i \in DOMAIN q : q[i].key = k

\* freshIntent has no attempt with this key: attemptSettlement appends one.
AppendAttempt(w) ==
    LET q == attempts[job[w].ride] IN
    /\ pc[w] = "settling"
    /\ ~HasKey(q, job[w].key)
    /\ CanAttemptSettlement(q, job[w].ack)
    /\ copy' = [copy EXCEPT ![w] = Append(q, [key |-> job[w].key, outcome |-> outcome[w]])]
    /\ pc' = [pc EXCEPT ![w] = "saving"]
    /\ UNCHANGED <<intent, attempts, outbox, providerVars, job, outcome, requests, faults, history>>

\* freshIntent already has the attempt: it is returned, and saved with no event.
ReplayAttempt(w) ==
    LET q == attempts[job[w].ride] IN
    /\ pc[w] = "settling"
    /\ HasKey(q, job[w].key)
    /\ copy' = [copy EXCEPT ![w] = q]
    /\ pc' = [pc EXCEPT ![w] = "replaying"]
    /\ UNCHANGED <<intent, attempts, outbox, providerVars, job, outcome, requests, faults, history>>

\* A concurrent attempt exhausted the policy: conflict, the outcome is dropped.
RejectAttempt(w) ==
    LET q == attempts[job[w].ride] IN
    /\ pc[w] = "settling"
    /\ ~HasKey(q, job[w].key)
    /\ ~CanAttemptSettlement(q, job[w].ack)
    /\ Finish(w)
    /\ UNCHANGED <<intent, attempts, outbox, providerVars, requests, faults, history>>

\* Mutants of Compatible: without the partial unique index on SUCCEEDED, or without the
\* unique index on the key.
CompatibleSuccesses(a, b) == a.key # b.key
CompatibleKeys(a, b) == ~(a.outcome = "SUCCEEDED" /\ b.outcome = "SUCCEEDED")

\* The unique indexes let two attempts of one intent stand side by side.
Compatible(a, b) == /\ a.key # b.key
                    /\ ~(a.outcome = "SUCCEEDED" /\ b.outcome = "SUCCEEDED")

\* Mutant of UpsertsAllowed: keys are unique per payment intent only.
UpsertsAllowedPerRide(r, c) ==
    \A i \in DOMAIN c :
        /\ \A j \in 1..(i-1) : Compatible(c[i], c[j])
        /\ \A j \in (i+1)..Len(attempts[r]) : Compatible(c[i], attempts[r][j])

\* Row by row, the upserts of the attempts c meet no row that an index puts in their way:
\* not a row upserted before, a row of the ride still to come or a row of another ride.
UpsertsAllowed(r, c) ==
    \A i \in DOMAIN c :
        /\ \A j \in 1..(i-1) : Compatible(c[i], c[j])
        /\ \A j \in (i+1)..Len(attempts[r]) : Compatible(c[i], attempts[r][j])
        /\ \A s \in Rides \ {r} : ~HasKey(attempts[s], c[i].key)

\* Mutant of Upserted: a conflicting row takes over the outcome alone.
UpsertedOutcomeOnly(r, c) ==
    [i \in 1..(IF Len(c) < Len(attempts[r]) THEN Len(attempts[r]) ELSE Len(c)) |->
        IF i \notin DOMAIN c THEN attempts[r][i]
        ELSE IF i \notin DOMAIN attempts[r] THEN c[i]
        ELSE [attempts[r][i] EXCEPT !.outcome = c[i].outcome]]

\* Rows 1..Len(c) of ride r become c; a row beyond them stays.
Upserted(r, c) == [i \in 1..(IF Len(c) < Len(attempts[r]) THEN Len(attempts[r]) ELSE Len(c)) |->
                      IF i \in DOMAIN c THEN c[i] ELSE attempts[r][i]]

\* Mutant of SaveAttempts: the event is not enqueued in the transaction.
SaveAttemptsSilently(w) ==
    LET r == job[w].ride IN
    /\ pc[w] \in {"saving", "replaying"}
    /\ UpsertsAllowed(r, copy[w])
    /\ attempts' = [attempts EXCEPT ![r] = Upserted(r, copy[w])]
    /\ Finish(w)
    /\ UNCHANGED <<intent, outbox, providerVars, requests, faults, history>>

\* save, enqueue and commit.
SaveAttempts(w) ==
    LET r == job[w].ride IN
    /\ pc[w] \in {"saving", "replaying"}
    /\ UpsertsAllowed(r, copy[w])
    /\ attempts' = [attempts EXCEPT ![r] = Upserted(r, copy[w])]
    /\ outbox' = IF pc[w] = "saving"
                 THEN outbox \cup {[ride |-> r, number |-> Len(copy[w]), outcome |-> outcome[w]]}
                 ELSE outbox
    /\ Finish(w)
    /\ UNCHANGED <<intent, providerVars, requests, faults, history>>

\* An index refuses a row: roll back and answer with an error.
SaveRefused(w) ==
    /\ pc[w] \in {"saving", "replaying"}
    /\ ~UpsertsAllowed(job[w].ride, copy[w])
    /\ Finish(w)
    /\ UNCHANGED <<intent, attempts, outbox, providerVars, requests, faults, history>>

\* The process dies, maybe with the answer to a charge that went through.
Crash(w) == /\ pc[w] # "idle"
            /\ faults < MaxFaults
            /\ faults' = faults + 1
            /\ Finish(w)
            /\ disturbed' = IF pc[w] \in {"settling", "saving"} /\ outcome[w] = "SUCCEEDED"
                            THEN disturbed \cup {job[w].ride} ELSE disturbed
            /\ UNCHANGED <<intent, attempts, outbox, providerVars, requests, contested>>

-----------------------------------------------------------------------------

Request(w) ==
    \E r \in Rides : \/ \E m \in Amounts : CreatePaymentIntent(w, r, m)
                     \/ \E k \in Keys, ack \in BOOLEAN : InitiateSettlement(w, r, k, ack)

Serve(w) == \/ InsertIntent(w) \/ InsertRefused(w)
            \/ Charge(w) \/ ChargeError(w)
            \/ AppendAttempt(w) \/ ReplayAttempt(w) \/ RejectAttempt(w)
            \/ SaveAttempts(w) \/ SaveRefused(w)

Next == \E w \in Workers : Request(w) \/ Serve(w) \/ Crash(w)

Spec == Init /\ [][Next]_vars

-----------------------------------------------------------------------------
(* Properties.                                                             *)

\* Every variable holds a value of the kind the code keeps in it.
TypeOK ==
    /\ intent \in [Rides -> Amounts \cup {NoIntent}]
    /\ attempts \in [Rides -> Seq(Attempts)]
    /\ \A r \in Rides : Len(attempts[r]) <= MaxAttempts
    /\ outbox \subseteq Events
    /\ results \subseteq Charges /\ reported \subseteq Charges
    /\ captured \in [Rides -> Nat]
    /\ pc \in [Workers -> {"idle", "creating", "charging", "settling", "saving", "replaying"}]
    /\ job \in [Workers -> Jobs]
    /\ outcome \in [Workers -> SettlementOutcomes]
    /\ copy \in [Workers -> Seq(Attempts)]
    /\ \A w \in Workers : Len(copy[w]) <= MaxAttempts
    /\ requests \in 0..MaxRequests /\ faults \in 0..MaxFaults
    /\ contested \subseteq Rides /\ disturbed \subseteq Rides

\* A ride has at most one recorded SUCCEEDED attempt, though stale writers overwrite rows.
AtMostOneSucceeded ==
    \A r \in Rides : \A i, j \in DOMAIN attempts[r] :
        attempts[r][i].outcome = "SUCCEEDED" /\ attempts[r][j].outcome = "SUCCEEDED" => i = j

\* An idempotency key names one recorded attempt of one ride.
KeyNamesOneAttempt ==
    \A r, s \in Rides : \A i \in DOMAIN attempts[r], j \in DOMAIN attempts[s] :
        attempts[r][i].key = attempts[s][j].key => r = s /\ i = j

\* Overlapping settlements and upserts that replace rows leave one success per ride and one
\* attempt per key.
AttemptsAreUnique == AtMostOneSucceeded /\ KeyNamesOneAttempt

\* A recorded attempt was made: a charge of this ride under this key was reported to a
\* request with this outcome, whichever writer recorded it and whoever overwrote it since.
RecordedOutcomesWereReported ==
    \A r \in Rides : \A i \in DOMAIN attempts[r] :
        [ride |-> r, key |-> attempts[r][i].key, outcome |-> attempts[r][i].outcome] \in reported

\* A ride is PAID only if money was taken for it.
PaidRidesWereCharged == \A r \in Rides : HasSucceeded(attempts[r]) => captured[r] > 0

\* What the tables say of a payment is what the provider did, though an answer may be lost
\* and rows are written from copies that are no longer current.
RecordsAreTrue == RecordedOutcomesWereReported /\ PaidRidesWereCharged

\* The outbox holds the event of every attempt the table holds: the two are committed
\* together and neither an overwrite nor a replay separates them.
RecordedAttemptsAreAnnounced ==
    \A r \in Rides : \A i \in DOMAIN attempts[r] :
        [ride |-> r, number |-> i, outcome |-> attempts[r][i].outcome] \in outbox

\* The outbox announces the intent of a ride once, with the amount the table holds: of
\* two creations that both found no intent only one is heard of, and the amount stays.
IntentIsAnnouncedOnce ==
    \A r \in Rides : {m \in Amounts : [ride |-> r, amount |-> m] \in outbox}
                         = {intent[r]} \ {NoIntent}

\* Whatever the tables hold has been announced, and an intent as the table holds it.
OutboxAnnouncesRecords == RecordedAttemptsAreAnnounced /\ IntentIsAnnouncedOnce

\* A ride is charged successfully at most once.
NoDoubleCharge == \A r \in Rides : captured[r] <= 1

\* Nothing has happened to ride r that its settlements do not survive.
Undisturbed(r) == r \notin contested \cup disturbed

\* Money is taken twice for a ride only if two of its settlements overlapped, an answer of
\* the provider was lost, or a key was used for two rides or, with a provider that forgets
\* keys, twice: whatever happens to other rides meanwhile.
UndisturbedRidesAreChargedOnce ==
    \A r \in Rides : Undisturbed(r) => captured[r] <= 1

\* Nor is money taken and not recorded for any other reason: what was taken for a ride shows
\* in its attempts as soon as no settlement of it is under way.
UndisturbedCapturesAreRecorded ==
    \A r \in Rides : Undisturbed(r) /\ captured[r] > 0 /\ (\A w \in Workers : ~InFlight(w, r))
        => HasSucceeded(attempts[r])

Ledger == INSTANCE PaymentLedger

\* The attempts of a ride are made one by one under the policy, until settlements of it
\* overlap; then rows are replaced, but none is lost, and keys and success stay unique.
ImplementsPaymentLedger == Ledger!Spec
=============================================================================
