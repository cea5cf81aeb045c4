----------------------- MODULE PaymentSettlementProofs -----------------------
(***************************************************************************)
(* Proofs about PaymentSettlement for every set of rides, keys, amounts    *)
(* and workers, every provider and any number of requests and faults.      *)
(*                                                                         *)
(* Phase B of a settlement writes a copy of the attempts that may be old.  *)
(* Nothing it writes is unheard of, though: what it copied was reported    *)
(* and announced when it was copied, both of these last, and the attempt   *)
(* it adds is reported before the copy and announced with it.  That rows   *)
(* are replaced by older ones is then harmless, and the unique indexes     *)
(* decide the rest.                                                        *)
(*                                                                         *)
(* The ledger and the money need more.  Until settlements of a ride        *)
(* overlap each is alone with it and its copy is current; while a ride is  *)
(* undisturbed as well, what was taken for it is recorded or in the hands  *)
(* of that one settlement.                                                 *)
(***************************************************************************)
EXTENDS PaymentSettlement, SequenceTheorems, TLAPS

CreateJobs == [type : {"create"}, ride : Rides, amount : Amounts]
SettleJobs == [type : {"settle"}, ride : Rides, key : Keys, ack : BOOLEAN]
Labels == {"idle", "creating", "charging", "settling", "saving", "replaying"}

\* Every attempt of q was reported for ride r.
Reported(r, q) == \A i \in DOMAIN q :
                     [ride |-> r, key |-> q[i].key, outcome |-> q[i].outcome] \in reported

\* The first n attempts of q are announced under their numbers.
Announced(r, q, n) == \A i \in 1..n :
                         [ride |-> r, number |-> i, outcome |-> q[i].outcome] \in outbox

\* What a worker has in hand: a job of the kind its program counter says, an outcome that
\* was reported, and a copy whose old attempts are announced.
WorkerInv(w) ==
    LET r == job[w].ride
        c == copy[w]
    IN /\ pc[w] = "creating" => job[w] \in CreateJobs
       /\ pc[w] \in {"charging", "settling", "saving", "replaying"} => job[w] \in SettleJobs
       /\ pc[w] = "settling" =>
              [ride |-> r, key |-> job[w].key, outcome |-> outcome[w]] \in reported
       /\ pc[w] \in {"saving", "replaying"} => Reported(r, c)
       /\ pc[w] = "replaying" => Announced(r, c, Len(c))
       /\ pc[w] = "saving" => /\ c # <<>> /\ c[Len(c)].outcome = outcome[w]
                              /\ Announced(r, c, Len(c) - 1)

\* The inductive invariant.
Inv == /\ TypeOK
       /\ \A w \in Workers : WorkerInv(w)
       /\ AttemptsAreUnique
       /\ RecordedOutcomesWereReported
       /\ OutboxAnnouncesRecords

-----------------------------------------------------------------------------
(* Types.                                                                  *)

\* The kinds of jobs, and what each carries.
LEMMA JobKinds ==
  /\ Jobs = CreateJobs \cup SettleJobs \cup {NoJob}
  /\ \A j \in CreateJobs : j.ride \in Rides /\ j.amount \in Amounts
  /\ \A j \in SettleJobs : j.ride \in Rides /\ j.key \in Keys /\ j.ack \in BOOLEAN
  BY DEF Jobs, CreateJobs, SettleJobs

\* A worker that finishes is well typed and idle.
LEMMA FinishType ==
  ASSUME TypeOK, NEW w \in Workers, Finish(w)
  PROVE  /\ pc' \in [Workers -> Labels] /\ job' \in [Workers -> Jobs]
         /\ outcome' \in [Workers -> SettlementOutcomes]
         /\ copy' \in [Workers -> Seq(Attempts)]
         /\ \A v \in Workers : Len(copy'[v]) <= MaxAttempts
         /\ pc'[w] = "idle"
  BY JobKinds DEF Finish, TypeOK, Labels, SettlementOutcomes, MaxAttempts

\* What upserts leave: the rows of the copy, and behind them the rows that were there.
LEMMA UpsertedRows ==
  ASSUME TypeOK, NEW r \in Rides, NEW c \in Seq(Attempts), Len(c) <= MaxAttempts
  PROVE  LET u == Upserted(r, c) IN
         /\ u \in Seq(Attempts) /\ Len(u) <= MaxAttempts
         /\ DOMAIN u = DOMAIN c \cup DOMAIN attempts[r]
         /\ \A i \in DOMAIN u : u[i] = IF i \in DOMAIN c THEN c[i] ELSE attempts[r][i]
<1> DEFINE q == attempts[r]
           n == IF Len(c) < Len(q) THEN Len(q) ELSE Len(c)
           row(i) == IF i \in DOMAIN c THEN c[i] ELSE q[i]
<1>1. /\ q \in Seq(Attempts) /\ Len(q) <= MaxAttempts /\ Len(q) \in Nat /\ Len(c) \in Nat
      /\ DOMAIN q = 1..Len(q) /\ DOMAIN c = 1..Len(c)
  BY DEF TypeOK
<1>2. n \in Nat /\ n <= MaxAttempts /\ 1..n = DOMAIN c \cup DOMAIN q
  BY <1>1
<1>3. \A i \in 1..n : row(i) \in Attempts
  BY <1>1
<1>4. Upserted(r, c) = [i \in 1..n |-> row(i)]
  BY DEF Upserted
<1> HIDE DEF n, row
<1>5. [i \in 1..n |-> row(i)] \in Seq(Attempts) /\ Len([i \in 1..n |-> row(i)]) = n
  BY <1>2, <1>3, IsASeq
<1>6. QED
  BY <1>2, <1>4, <1>5 DEF row

\* The provider answers with an outcome.
LEMMA AnswerType ==
  ASSUME TypeOK, NEW r \in Rides, NEW k \in Keys
  PROVE  ProviderAnswers(r, k) \subseteq SettlementOutcomes
  BY ProviderAssumption DEF ProviderAnswers, TypeOK, Charges

\* A charge keeps the provider's books well typed.
LEMMA ChargeType ==
  ASSUME TypeOK, NEW r \in Rides, NEW k \in Keys, NEW o \in SettlementOutcomes,
         ProviderCharges(r, k, o)
  PROVE  results' \subseteq Charges /\ captured' \in [Rides -> Nat]
  BY DEF ProviderCharges, TypeOK, Charges

\* What a worker learns is well typed.
LEMMA LearnType ==
  ASSUME TypeOK, NEW w \in Workers, job[w] \in SettleJobs, NEW o \in SettlementOutcomes,
         Learn(w, o)
  PROVE  /\ outcome' \in [Workers -> SettlementOutcomes] /\ reported' \subseteq Charges
         /\ pc' \in [Workers -> Labels]
<1>1. [ride |-> job[w].ride, key |-> job[w].key, outcome |-> o] \in Charges
  BY JobKinds DEF Charges
<1>2. QED
  BY <1>1 DEF Learn, TypeOK, Labels

\* The histories name rides, and forget none.
LEMMA HistoryType ==
  ASSUME Inv, [Next]_vars
  PROVE  /\ contested' \subseteq Rides /\ disturbed' \subseteq Rides
         /\ contested \subseteq contested' /\ disturbed \subseteq disturbed'
<1>1. contested \subseteq Rides /\ disturbed \subseteq Rides
  BY DEF Inv, TypeOK
<1>2. CASE UNCHANGED history
  BY <1>1, <1>2 DEF history
<1>3. ASSUME NEW w \in Workers, NEW r \in Rides, NEW k \in Keys, NEW ack \in BOOLEAN,
             InitiateSettlement(w, r, k, ack)
      PROVE  /\ contested' \in {contested, contested \cup {r}}
             /\ disturbed' = disturbed \cup Clashes(r, k)
  BY <1>3 DEF InitiateSettlement
<1>4. \A r \in Rides, k \in Keys : Clashes(r, k) \subseteq Rides
  BY DEF Clashes
<1>5. ASSUME NEW w \in Workers, ChargeError(w) \/ Crash(w)
      PROVE  /\ contested' = contested /\ disturbed' \in {disturbed, disturbed \cup {job[w].ride}}
             /\ disturbed' = disturbed \/ job[w].ride \in Rides
  BY <1>5, JobKinds DEF ChargeError, Crash, Inv, WorkerInv
<1>6. \/ UNCHANGED history
      \/ \E w \in Workers : ChargeError(w) \/ Crash(w)
      \/ \E w \in Workers, r \in Rides, k \in Keys, ack \in BOOLEAN : InitiateSettlement(w, r, k, ack)
  BY DEF Next, Request, Serve, CreatePaymentIntent, InsertIntent, InsertRefused, Charge,
         AppendAttempt, ReplayAttempt, RejectAttempt, SaveAttempts, SaveRefused, vars, history
<1>7. QED
  BY <1>1, <1>2, <1>3, <1>4, <1>5, <1>6

\* Every step keeps the type invariant.
LEMMA TypeStep ==
  ASSUME Inv, [Next]_vars
  PROVE  TypeOK'
<1>0. contested' \subseteq Rides /\ disturbed' \subseteq Rides
  BY HistoryType
<1> USE <1>0 DEF Inv
<1> Labels = {"idle", "creating", "charging", "settling", "saving", "replaying"}
  BY DEF Labels
<1>1. ASSUME NEW w \in Workers, NEW r \in Rides, NEW m \in Amounts, CreatePaymentIntent(w, r, m)
      PROVE  TypeOK'
  <2>1. [type |-> "create", ride |-> r, amount |-> m] \in Jobs
    BY DEF Jobs
  <2>2. QED
    BY <1>1, <2>1 DEF CreatePaymentIntent, TypeOK, providerVars
<1>2. ASSUME NEW w \in Workers, InsertIntent(w)
      PROVE  TypeOK'
  <2>1. job[w].ride \in Rides /\ job[w].amount \in Amounts
    BY <1>2, JobKinds DEF InsertIntent, WorkerInv
  <2>2. intent' \in [Rides -> Amounts \cup {NoIntent}] /\ outbox' \subseteq Events
    BY <1>2, <2>1 DEF InsertIntent, TypeOK, Events
  <2>3. QED
    BY <1>2, <2>2, FinishType DEF InsertIntent, TypeOK, providerVars
<1>3. ASSUME NEW w \in Workers, InsertRefused(w) \/ RejectAttempt(w) \/ SaveRefused(w) \/ Crash(w)
      PROVE  TypeOK'
  <2>1. Finish(w) /\ UNCHANGED <<intent, attempts, outbox, results, captured, reported, requests>>
    BY <1>3 DEF InsertRefused, RejectAttempt, SaveRefused, Crash, providerVars
  <2>2. faults' \in 0..MaxFaults
    BY <1>3, BoundsAssumption DEF InsertRefused, RejectAttempt, SaveRefused, Crash, TypeOK
  <2>3. QED
    BY <2>1, <2>2, FinishType DEF TypeOK
<1>4. ASSUME NEW w \in Workers, NEW r \in Rides, NEW k \in Keys, NEW ack \in BOOLEAN,
             InitiateSettlement(w, r, k, ack)
      PROVE  TypeOK'
  <2>1. [type |-> "settle", ride |-> r, key |-> k, ack |-> ack] \in Jobs
    BY DEF Jobs
  <2>2. requests' \in 0..MaxRequests
    BY <1>4, BoundsAssumption DEF InitiateSettlement, TypeOK
  <2>3. QED
    BY <1>4, <2>1, <2>2 DEF InitiateSettlement, TypeOK, providerVars
<1>5. ASSUME NEW w \in Workers, Charge(w) \/ ChargeError(w)
      PROVE  TypeOK'
  <2>1. job[w] \in SettleJobs /\ job[w].ride \in Rides /\ job[w].key \in Keys
    BY <1>5, JobKinds DEF Charge, ChargeError, WorkerInv
  <2>2. \E o \in SettlementOutcomes : Learn(w, o)
    BY <1>5, <2>1, AnswerType DEF Charge, ChargeError, SettlementOutcomes
  <2>3. results' \subseteq Charges /\ captured' \in [Rides -> Nat]
    <3>1. ASSUME NEW o \in ProviderAnswers(job[w].ride, job[w].key),
                 ProviderCharges(job[w].ride, job[w].key, o)
          PROVE  results' \subseteq Charges /\ captured' \in [Rides -> Nat]
      BY <2>1, <3>1, AnswerType, ChargeType
    <3>2. QED
      BY <1>5, <3>1 DEF Charge, ChargeError, TypeOK
  <2>4. faults' \in 0..MaxFaults /\ UNCHANGED <<intent, attempts, outbox, job, copy, requests>>
    BY <1>5, BoundsAssumption DEF Charge, ChargeError, TypeOK
  <2>5. QED
    BY <2>1, <2>2, <2>3, <2>4, LearnType DEF TypeOK
<1>6. ASSUME NEW w \in Workers, AppendAttempt(w) \/ ReplayAttempt(w)
      PROVE  TypeOK'
  <2> DEFINE q == attempts[job[w].ride]
             e == [key |-> job[w].key, outcome |-> outcome[w]]
  <2>1. job[w].ride \in Rides /\ job[w].key \in Keys
    BY <1>6, JobKinds DEF AppendAttempt, ReplayAttempt, WorkerInv
  <2>2. e \in Attempts /\ q \in Seq(Attempts) /\ Len(q) <= MaxAttempts
    BY <2>1 DEF TypeOK, Attempts
  <2>3. AppendAttempt(w) => Len(q) < MaxAttempts /\ copy' = [copy EXCEPT ![w] = Append(q, e)]
    BY DEF AppendAttempt, CanAttemptSettlement
  <2>4. ReplayAttempt(w) => copy' = [copy EXCEPT ![w] = q]
    BY DEF ReplayAttempt
  <2> HIDE DEF e, q
  <2>5. /\ Append(q, e) \in Seq(Attempts) /\ Len(Append(q, e)) = Len(q) + 1 /\ Len(q) \in Nat
    BY <2>2
  <2>6. /\ copy' \in [Workers -> Seq(Attempts)]
        /\ \A v \in Workers : Len(copy'[v]) <= MaxAttempts
    <3>1. Len(Append(q, e)) <= MaxAttempts \/ ~(Len(q) < MaxAttempts)
      BY <2>5 DEF MaxAttempts
    <3>2. \E c \in Seq(Attempts) : Len(c) <= MaxAttempts /\ copy' = [copy EXCEPT ![w] = c]
      BY <1>6, <2>2, <2>3, <2>4, <2>5, <3>1
    <3>3. QED
      BY <3>2 DEF TypeOK
  <2>7. QED
    BY <1>6, <2>6 DEF AppendAttempt, ReplayAttempt, TypeOK, providerVars
<1>7. ASSUME NEW w \in Workers, SaveAttempts(w)
      PROVE  TypeOK'
  <2> DEFINE r == job[w].ride
             c == copy[w]
  <2>1. /\ r \in Rides /\ c \in Seq(Attempts) /\ Len(c) <= MaxAttempts
        /\ outcome[w] \in SettlementOutcomes
        /\ pc[w] = "saving" => c # <<>>
    BY <1>7, JobKinds DEF SaveAttempts, WorkerInv, TypeOK
  <2> HIDE DEF r, c
  <2>2. pc[w] = "saving" => [ride |-> r, number |-> Len(c), outcome |-> outcome[w]] \in Events
    <3>1. Len(c) \in Nat /\ Len(c) <= MaxAttempts /\ (c # <<>> => Len(c) # 0)
      BY <2>1, EmptySeq
    <3>2. \A n \in Nat : n # 0 /\ n <= MaxAttempts => n \in 1..MaxAttempts
      BY DEF MaxAttempts
    <3>3. QED
      BY <2>1, <3>1, <3>2 DEF Events
  <2>3. outbox' \subseteq Events
    BY <1>7, <2>2 DEF SaveAttempts, TypeOK, r, c
  <2>4. /\ attempts' \in [Rides -> Seq(Attempts)]
        /\ \A x \in Rides : Len(attempts'[x]) <= MaxAttempts
    BY <1>7, <2>1, UpsertedRows DEF SaveAttempts, TypeOK, r, c
  <2>5. QED
    BY <1>7, <2>3, <2>4, FinishType DEF SaveAttempts, TypeOK, providerVars
<1>8. CASE UNCHANGED vars
  BY <1>8 DEF TypeOK, vars
<1>9. QED
  BY <1>1, <1>2, <1>3, <1>4, <1>5, <1>6, <1>7, <1>8 DEF Next, Request, Serve

-----------------------------------------------------------------------------
(* What the workers hold.                                                  *)

\* Reports and announcements are never taken back.
LEMMA HistoryGrows ==
  ASSUME [Next]_vars
  PROVE  reported \subseteq reported' /\ outbox \subseteq outbox'
<1>1. ASSUME NEW w \in Workers, Request(w)
      PROVE  UNCHANGED <<reported, outbox>>
  BY <1>1 DEF Request, CreatePaymentIntent, InitiateSettlement, providerVars
<1>2. ASSUME NEW w \in Workers, InsertIntent(w) \/ InsertRefused(w)
      PROVE  reported' = reported /\ outbox \subseteq outbox'
  BY <1>2 DEF InsertIntent, InsertRefused, providerVars
<1>3. ASSUME NEW w \in Workers, Charge(w) \/ ChargeError(w)
      PROVE  reported \subseteq reported' /\ outbox' = outbox
  <2>1. ASSUME NEW o, Learn(w, o)
        PROVE  reported \subseteq reported'
    BY <2>1 DEF Learn
  <2>2. QED
    BY <1>3, <2>1 DEF Charge, ChargeError
<1>4. ASSUME NEW w \in Workers, AppendAttempt(w) \/ ReplayAttempt(w) \/ RejectAttempt(w)
      PROVE  UNCHANGED <<reported, outbox>>
  BY <1>4 DEF AppendAttempt, ReplayAttempt, RejectAttempt, providerVars
<1>5. ASSUME NEW w \in Workers, SaveAttempts(w)
      PROVE  reported' = reported /\ outbox \subseteq outbox'
  BY <1>5 DEF SaveAttempts, providerVars
<1>6. ASSUME NEW w \in Workers, SaveRefused(w) \/ Crash(w)
      PROVE  UNCHANGED <<reported, outbox>>
  BY <1>6 DEF SaveRefused, Crash, providerVars
<1>7. CASE UNCHANGED vars
  BY <1>7 DEF vars
<1>8. QED
  BY <1>1, <1>2, <1>3, <1>4, <1>5, <1>6, <1>7 DEF Next, Serve

\* What a worker that does nothing holds stays true.
LEMMA WorkerKept ==
  ASSUME NEW v \in Workers, WorkerInv(v), [Next]_vars,
         pc'[v] = pc[v], job'[v] = job[v], outcome'[v] = outcome[v], copy'[v] = copy[v]
  PROVE  WorkerInv(v)'
  BY HistoryGrows DEF WorkerInv, Reported, Announced

\* A step changes what one worker holds.
LEMMA OthersWait ==
  ASSUME TypeOK, NEW w \in Workers, Request(w) \/ Serve(w) \/ Crash(w),
         NEW v \in Workers, v # w
  PROVE  pc'[v] = pc[v] /\ job'[v] = job[v] /\ outcome'[v] = outcome[v] /\ copy'[v] = copy[v]
  BY DEF TypeOK, Request, Serve, CreatePaymentIntent, InsertIntent, InsertRefused, Finish,
         InitiateSettlement, Charge, ChargeError, Learn, AppendAttempt, ReplayAttempt,
         RejectAttempt, SaveAttempts, SaveRefused, Crash

\* The attempts a worker copies were reported and announced; so is the one it adds.
LEMMA CopyHolds ==
  ASSUME Inv, [Next]_vars, NEW w \in Workers, AppendAttempt(w) \/ ReplayAttempt(w)
  PROVE  WorkerInv(w)'
<1> DEFINE r == job[w].ride
           q == attempts[r]
           e == [key |-> job[w].key, outcome |-> outcome[w]]
<1>1. /\ pc[w] = "settling" /\ job[w] \in SettleJobs /\ r \in Rides
      /\ [ride |-> r, key |-> e.key, outcome |-> e.outcome] \in reported
  BY JobKinds DEF Inv, AppendAttempt, ReplayAttempt, WorkerInv
<1>2. Reported(r, q) /\ Announced(r, q, Len(q)) /\ q \in Seq(Attempts)
  BY <1>1 DEF Inv, TypeOK, RecordedOutcomesWereReported, OutboxAnnouncesRecords,
              RecordedAttemptsAreAnnounced, Reported, Announced
<1>3. job'[w] = job[w] /\ outcome'[w] = outcome[w] /\ reported' = reported /\ outbox' = outbox
  BY DEF AppendAttempt, ReplayAttempt, providerVars
<1>4. CASE ReplayAttempt(w)
  <2>1. pc'[w] = "replaying" /\ copy'[w] = q
    BY <1>4 DEF ReplayAttempt, Inv, TypeOK
  <2>2. QED
    BY <1>1, <1>2, <1>3, <2>1 DEF WorkerInv, Reported, Announced
<1>5. CASE AppendAttempt(w)
  <2>1. pc'[w] = "saving" /\ copy'[w] = Append(q, e)
    BY <1>5 DEF AppendAttempt, Inv, TypeOK
  <2>2. e \in Attempts
    BY <1>1, JobKinds DEF Inv, TypeOK, Attempts
  <2> HIDE DEF q, e
  <2>3. /\ Len(Append(q, e)) = Len(q) + 1 /\ Len(q) \in Nat /\ Append(q, e) # <<>>
        /\ Append(q, e)[Len(q) + 1] = e
        /\ \A i \in 1..Len(q) : Append(q, e)[i] = q[i]
        /\ DOMAIN Append(q, e) = 1..(Len(q) + 1) /\ DOMAIN q = 1..Len(q)
    BY <1>2, <2>2
  <2>4. Reported(r, Append(q, e)) /\ Announced(r, Append(q, e), Len(q))
    BY <1>1, <1>2, <2>3 DEF Reported, Announced
  <2>5. e.outcome = outcome[w] /\ Len(Append(q, e)) - 1 = Len(q)
    BY <2>3 DEF e
  <2>6. QED
    BY <1>1, <1>3, <2>1, <2>3, <2>4, <2>5 DEF WorkerInv, Reported, Announced
<1>6. QED
  BY <1>4, <1>5

\* Every step keeps what is said of a worker's memory.
LEMMA WorkerStep ==
  ASSUME Inv, [Next]_vars, NEW v \in Workers
  PROVE  WorkerInv(v)'
<1>1. TypeOK /\ WorkerInv(v)
  BY DEF Inv
<1>2. CASE UNCHANGED vars
  BY <1>1, <1>2, WorkerKept DEF vars
<1>3. ASSUME NEW w \in Workers, v # w, Request(w) \/ Serve(w) \/ Crash(w)
      PROVE  WorkerInv(v)'
  BY <1>1, <1>3, OthersWait, WorkerKept
<1>4. ASSUME NEW r \in Rides, NEW m \in Amounts, CreatePaymentIntent(v, r, m)
      PROVE  WorkerInv(v)'
  BY <1>1, <1>4 DEF CreatePaymentIntent, TypeOK, WorkerInv, CreateJobs
<1>5. ASSUME NEW r \in Rides, NEW k \in Keys, NEW ack \in BOOLEAN, InitiateSettlement(v, r, k, ack)
      PROVE  WorkerInv(v)'
  BY <1>1, <1>5 DEF InitiateSettlement, TypeOK, WorkerInv, SettleJobs
<1>6. CASE Charge(v) \/ ChargeError(v)
  <2>1. /\ job[v] \in SettleJobs /\ job'[v] = job[v] /\ pc'[v] = "settling"
        /\ \E o : Learn(v, o)
    BY <1>1, <1>6 DEF Charge, ChargeError, Learn, TypeOK, WorkerInv
  <2>2. [ride |-> job[v].ride, key |-> job[v].key, outcome |-> outcome'[v]] \in reported'
    BY <1>1, <2>1 DEF Learn, TypeOK
  <2>3. QED
    BY <2>1, <2>2 DEF WorkerInv
<1>7. CASE AppendAttempt(v) \/ ReplayAttempt(v)
  BY <1>7, CopyHolds
<1>8. CASE \/ InsertIntent(v) \/ InsertRefused(v) \/ RejectAttempt(v) \/ SaveAttempts(v)
           \/ SaveRefused(v) \/ Crash(v)
  <2>1. pc'[v] = "idle"
    BY <1>1, <1>8, FinishType DEF InsertIntent, InsertRefused, RejectAttempt, SaveAttempts,
                                  SaveRefused, Crash
  <2>2. QED
    BY <2>1 DEF WorkerInv
<1>9. QED
  BY <1>2, <1>3, <1>4, <1>5, <1>6, <1>7, <1>8 DEF Next, Request, Serve

-----------------------------------------------------------------------------
(* The tables.                                                             *)

\* The attempts of q may stand side by side.
Apart(q) == \A i, j \in DOMAIN q : i # j => Compatible(q[i], q[j])

\* Two rides share no key.
KeysApart(q, p) == \A i \in DOMAIN q, j \in DOMAIN p : q[i].key # p[j].key

\* Uniqueness over all attempts is uniqueness within each ride and between any two.
LEMMA UniqueMeansApart ==
  AttemptsAreUnique <=>
      /\ \A r \in Rides : Apart(attempts[r])
      /\ \A r, s \in Rides : r # s => KeysApart(attempts[r], attempts[s])
  BY DEF AttemptsAreUnique, AtMostOneSucceeded, KeyNamesOneAttempt, Apart, KeysApart, Compatible

\* Upserts that no index refuses leave attempts that may stand side by side.
LEMMA UpsertedApart ==
  ASSUME Inv, NEW r \in Rides, NEW c \in Seq(Attempts), Len(c) <= MaxAttempts,
         UpsertsAllowed(r, c)
  PROVE  /\ Apart(Upserted(r, c))
         /\ \A s \in Rides \ {r} : KeysApart(Upserted(r, c), attempts[s])
<1> DEFINE q == attempts[r]
           u == Upserted(r, c)
<1>1. /\ DOMAIN u = DOMAIN c \cup DOMAIN q /\ DOMAIN c = 1..Len(c) /\ DOMAIN q = 1..Len(q)
      /\ Len(c) \in Nat /\ Len(q) \in Nat
      /\ \A i \in DOMAIN u : u[i] = IF i \in DOMAIN c THEN c[i] ELSE q[i]
  <2>1. TypeOK /\ q \in Seq(Attempts)
    BY DEF Inv, TypeOK
  <2>2. DOMAIN c = 1..Len(c) /\ DOMAIN q = 1..Len(q) /\ Len(c) \in Nat /\ Len(q) \in Nat
    BY <2>1
  <2>3. QED
    BY <2>1, <2>2, UpsertedRows
<1>2. /\ Apart(q)
      /\ \A s \in Rides \ {r} : KeysApart(q, attempts[s])
  BY UniqueMeansApart DEF Inv
<1>3. /\ \A i \in DOMAIN c : \A j \in 1..(i-1) : Compatible(c[i], c[j])
      /\ \A i \in DOMAIN c : \A j \in (i+1)..Len(q) : Compatible(c[i], q[j])
      /\ \A s \in Rides \ {r} : KeysApart(c, attempts[s])
  BY DEF UpsertsAllowed, HasKey, KeysApart
<1> HIDE DEF u, q
<1>4. ASSUME NEW i \in DOMAIN u, NEW j \in DOMAIN u, j < i
      PROVE  Compatible(u[i], u[j]) /\ Compatible(u[j], u[i])
  <2>1. CASE i \in DOMAIN c
    BY <1>1, <1>3, <1>4, <2>1 DEF Compatible
  <2>2. CASE i \notin DOMAIN c /\ j \in DOMAIN c
    BY <1>1, <1>3, <1>4, <2>2 DEF Compatible
  <2>3. CASE i \notin DOMAIN c /\ j \notin DOMAIN c
    BY <1>1, <1>2, <1>4, <2>3 DEF Apart
  <2>4. QED
    BY <2>1, <2>2, <2>3
<1>5. \A i, j \in DOMAIN u : i # j => i < j \/ j < i
  BY <1>1
<1>6. Apart(u)
  BY <1>4, <1>5 DEF Apart
<1>7. \A s \in Rides \ {r} : KeysApart(u, attempts[s])
  BY <1>1, <1>2, <1>3 DEF KeysApart
<1>8. QED
  BY <1>6, <1>7 DEF u

\* Only a save writes the attempts, and it writes what its copy and the indexes allow.
LEMMA SaveWrites ==
  ASSUME Inv, NEW w \in Workers, SaveAttempts(w)
  PROVE  LET r == job[w].ride
             c == copy[w]
             u == Upserted(r, c)
         IN /\ r \in Rides /\ c \in Seq(Attempts) /\ Len(c) <= MaxAttempts
            /\ attempts' = [attempts EXCEPT ![r] = u] /\ attempts'[r] = u
            /\ \A s \in Rides \ {r} : attempts'[s] = attempts[s]
            /\ UpsertsAllowed(r, c)
            /\ DOMAIN u = DOMAIN c \cup DOMAIN attempts[r]
            /\ \A i \in DOMAIN u : u[i] = IF i \in DOMAIN c THEN c[i] ELSE attempts[r][i]
            /\ Reported(r, c)
            /\ UNCHANGED <<intent, captured, reported>>
<1>1. /\ job[w].ride \in Rides /\ copy[w] \in Seq(Attempts) /\ Len(copy[w]) <= MaxAttempts
      /\ Reported(job[w].ride, copy[w])
  BY JobKinds DEF Inv, SaveAttempts, WorkerInv, TypeOK
<1>2. /\ attempts' = [attempts EXCEPT ![job[w].ride] = Upserted(job[w].ride, copy[w])]
      /\ UpsertsAllowed(job[w].ride, copy[w])
      /\ UNCHANGED <<intent, captured, reported>>
  BY DEF SaveAttempts, providerVars
<1>3. attempts \in [Rides -> Seq(Attempts)] /\ TypeOK
  BY DEF Inv, TypeOK
<1>4. QED
  BY <1>1, <1>2, <1>3, UpsertedRows

\* Only a save writes attempts.
LEMMA AttemptsKept ==
  ASSUME [Next]_vars
  PROVE  UNCHANGED attempts \/ \E w \in Workers : SaveAttempts(w)
  BY DEF Next, Request, Serve, CreatePaymentIntent, InsertIntent, InsertRefused,
         InitiateSettlement, Charge, ChargeError, AppendAttempt, ReplayAttempt,
         RejectAttempt, SaveRefused, Crash, vars

\* Every step keeps the unique indexes true.
LEMMA UniqueStep ==
  ASSUME Inv, [Next]_vars
  PROVE  AttemptsAreUnique'
<1>1. CASE UNCHANGED attempts
  BY <1>1 DEF Inv, AttemptsAreUnique, AtMostOneSucceeded, KeyNamesOneAttempt
<1>2. ASSUME NEW w \in Workers, SaveAttempts(w)
      PROVE  AttemptsAreUnique'
  <2> DEFINE r == job[w].ride
             u == Upserted(r, copy[w])
  <2>1. /\ r \in Rides /\ attempts'[r] = u /\ \A s \in Rides \ {r} : attempts'[s] = attempts[s]
        /\ Apart(u) /\ \A s \in Rides \ {r} : KeysApart(u, attempts[s])
    BY <1>2, SaveWrites, UpsertedApart
  <2>2. /\ \A s \in Rides : Apart(attempts[s])
        /\ \A s, t \in Rides : s # t => KeysApart(attempts[s], attempts[t])
    BY UniqueMeansApart DEF Inv
  <2> HIDE DEF u, r
  <2>3. /\ \A s \in Rides : Apart(attempts'[s])
        /\ \A s, t \in Rides : s # t => KeysApart(attempts'[s], attempts'[t])
    <3>1. \A s \in Rides : Apart(attempts'[s])
      BY <2>1, <2>2
    <3>2. \A s \in Rides \ {r} : KeysApart(attempts[s], u)
      BY <2>1 DEF KeysApart
    <3>3. QED
      BY <2>1, <2>2, <3>1, <3>2
  <2>4. QED
    BY <2>3 DEF AttemptsAreUnique, AtMostOneSucceeded, KeyNamesOneAttempt, Apart, KeysApart,
                Compatible
<1>3. QED
  BY <1>1, <1>2, AttemptsKept

\* Every step keeps recorded outcomes among those the provider reported.
LEMMA RecordedStep ==
  ASSUME Inv, [Next]_vars
  PROVE  RecordedOutcomesWereReported'
<1>1. \A r \in Rides : Reported(r, attempts[r])
  BY DEF Inv, RecordedOutcomesWereReported, Reported
<1>2. \A r \in Rides : Reported(r, attempts'[r])
  <2>1. ASSUME NEW w \in Workers, SaveAttempts(w)
        PROVE  \A r \in Rides : Reported(r, attempts'[r])
    <3> DEFINE x == job[w].ride
               u == Upserted(x, copy[w])
    <3>1. /\ x \in Rides /\ attempts'[x] = u
          /\ \A s \in Rides \ {x} : attempts'[s] = attempts[s]
          /\ DOMAIN u = DOMAIN copy[w] \cup DOMAIN attempts[x]
          /\ \A i \in DOMAIN u : u[i] = IF i \in DOMAIN copy[w] THEN copy[w][i] ELSE attempts[x][i]
          /\ Reported(x, copy[w])
      BY <2>1, SaveWrites
    <3> HIDE DEF u, x
    <3>2. Reported(x, u)
      BY <1>1, <3>1 DEF Reported
    <3>3. QED
      BY <1>1, <3>1, <3>2
  <2>2. QED
    BY <1>1, <2>1, AttemptsKept
<1>3. QED
  BY <1>2, HistoryGrows DEF RecordedOutcomesWereReported, Reported

\* The two kinds of events have different fields.
LEMMA EventKinds ==
  ASSUME NEW r, NEW m, NEW s, NEW n, NEW o
  PROVE  [ride |-> r, amount |-> m] # [ride |-> s, number |-> n, outcome |-> o]
<1>1. "amount" \in DOMAIN [ride |-> r, amount |-> m]
  OBVIOUS
<1>2. "amount" \notin DOMAIN [ride |-> s, number |-> n, outcome |-> o]
  OBVIOUS
<1>3. QED
  BY <1>1, <1>2

\* Every step keeps each recorded attempt announced in the outbox.
LEMMA AnnouncedStep ==
  ASSUME Inv, [Next]_vars
  PROVE  RecordedAttemptsAreAnnounced'
<1>1. \A r \in Rides : Announced(r, attempts[r], Len(attempts[r])) /\ attempts[r] \in Seq(Attempts)
  BY DEF Inv, TypeOK, OutboxAnnouncesRecords, RecordedAttemptsAreAnnounced, Announced
<1>2. CASE UNCHANGED attempts
  BY <1>2, HistoryGrows DEF Inv, OutboxAnnouncesRecords, RecordedAttemptsAreAnnounced
<1>3. ASSUME NEW w \in Workers, SaveAttempts(w)
      PROVE  RecordedAttemptsAreAnnounced'
  <2> DEFINE r == job[w].ride
             c == copy[w]
             u == Upserted(r, c)
             told(i) == [ride |-> r, number |-> i, outcome |-> u[i].outcome] \in outbox'
  <2>1. /\ r \in Rides /\ attempts'[r] = u /\ \A s \in Rides \ {r} : attempts'[s] = attempts[s]
        /\ DOMAIN u = DOMAIN c \cup DOMAIN attempts[r]
        /\ \A i \in DOMAIN u : u[i] = IF i \in DOMAIN c THEN c[i] ELSE attempts[r][i]
        /\ c \in Seq(Attempts)
    BY <1>3, SaveWrites
  <2>2. /\ pc[w] = "saving" \/ pc[w] = "replaying"
        /\ pc[w] = "replaying" => Announced(r, c, Len(c))
        /\ pc[w] = "saving" => Announced(r, c, Len(c) - 1) /\ c[Len(c)].outcome = outcome[w]
        /\ pc[w] = "saving" =>
              [ride |-> r, number |-> Len(c), outcome |-> outcome[w]] \in outbox'
    BY <1>3 DEF Inv, SaveAttempts, WorkerInv
  <2>3. DOMAIN c = 1..Len(c) /\ Len(c) \in Nat /\ outbox \subseteq outbox'
    BY <2>1, HistoryGrows
  <2> HIDE DEF c, u, r
  <2>4. \A i \in DOMAIN c : [ride |-> r, number |-> i, outcome |-> c[i].outcome] \in outbox'
    <3>1. CASE pc[w] = "replaying"
      BY <2>2, <2>3, <3>1 DEF Announced
    <3>2. CASE pc[w] = "saving"
      <4>1. \A i \in 1..(Len(c) - 1) : [ride |-> r, number |-> i, outcome |-> c[i].outcome] \in outbox'
        BY <2>2, <2>3, <3>2 DEF Announced
      <4>2. \A i \in DOMAIN c : i \in 1..(Len(c) - 1) \/ i = Len(c)
        BY <2>3
      <4>3. QED
        BY <2>2, <3>2, <4>1, <4>2
    <3>3. QED
      BY <2>2, <3>1, <3>2
  <2>5. \A i \in DOMAIN attempts[r] :
           [ride |-> r, number |-> i, outcome |-> attempts[r][i].outcome] \in outbox'
    BY <2>1, <2>3 DEF Inv, OutboxAnnouncesRecords, RecordedAttemptsAreAnnounced
  <2>6. \A i \in DOMAIN u : told(i)
    BY <2>1, <2>4, <2>5
  <2>7. \A s \in Rides \ {r} : \A i \in DOMAIN attempts[s] :
           [ride |-> s, number |-> i, outcome |-> attempts[s][i].outcome] \in outbox'
    BY <2>3 DEF Inv, OutboxAnnouncesRecords, RecordedAttemptsAreAnnounced
  <2>8. QED
    BY <2>1, <2>6, <2>7 DEF RecordedAttemptsAreAnnounced
<1>4. QED
  BY <1>2, <1>3, AttemptsKept

\* Every step keeps each intent announced once.
LEMMA IntentStep ==
  ASSUME Inv, [Next]_vars
  PROVE  IntentIsAnnouncedOnce'
<1> DEFINE told(r) == {m \in Amounts : [ride |-> r, amount |-> m] \in outbox}
<1>1. \A r \in Rides : told(r) = {intent[r]} \ {NoIntent}
  BY DEF Inv, OutboxAnnouncesRecords, IntentIsAnnouncedOnce
<1>2. CASE UNCHANGED <<intent, outbox>>
  BY <1>2 DEF Inv, OutboxAnnouncesRecords, IntentIsAnnouncedOnce
<1>3. ASSUME NEW w \in Workers, SaveAttempts(w)
      PROVE  IntentIsAnnouncedOnce'
  <2>1. UNCHANGED intent
    BY <1>3 DEF SaveAttempts
  <2>2. \A r \in Rides, m \in Amounts :
           [ride |-> r, amount |-> m] \in outbox' <=> [ride |-> r, amount |-> m] \in outbox
    BY <1>3, EventKinds DEF SaveAttempts
  <2>3. QED
    BY <2>1, <2>2 DEF Inv, OutboxAnnouncesRecords, IntentIsAnnouncedOnce
<1>4. ASSUME NEW w \in Workers, InsertIntent(w)
      PROVE  IntentIsAnnouncedOnce'
  <2> DEFINE r == job[w].ride
             a == job[w].amount
  <2>1. /\ r \in Rides /\ a \in Amounts /\ intent[r] = NoIntent /\ intent \in [Rides -> Amounts \cup {NoIntent}]
        /\ intent' = [intent EXCEPT ![r] = a]
        /\ outbox' = outbox \cup {[ride |-> r, amount |-> a]}
    BY <1>4, JobKinds DEF Inv, TypeOK, InsertIntent, WorkerInv
  <2> HIDE DEF r, a
  <2>2. \A s \in Rides, m \in Amounts :
           [ride |-> s, amount |-> m] = [ride |-> r, amount |-> a] <=> s = r /\ m = a
    OBVIOUS
  <2>3. ASSUME NEW s \in Rides
        PROVE  {m \in Amounts : [ride |-> s, amount |-> m] \in outbox'} = {intent'[s]} \ {NoIntent}
    <3>1. CASE s = r
      BY <1>1, <2>1, <2>2, <3>1, AmountsAssumption
    <3>2. CASE s # r
      BY <1>1, <2>1, <2>2, <3>2
    <3>3. QED
      BY <3>1, <3>2
  <2>4. QED
    BY <2>3 DEF IntentIsAnnouncedOnce
<1>5. UNCHANGED <<intent, outbox>> \/ \E w \in Workers : SaveAttempts(w) \/ InsertIntent(w)
  <2>1. \A w \in Workers : Request(w) \/ Crash(w) => UNCHANGED <<intent, outbox>>
    BY DEF Request, CreatePaymentIntent, InitiateSettlement, Crash
  <2>2. \A w \in Workers : Serve(w) => \/ UNCHANGED <<intent, outbox>>
                                       \/ SaveAttempts(w) \/ InsertIntent(w)
    BY DEF Serve, InsertRefused, Charge, ChargeError, AppendAttempt, ReplayAttempt,
           RejectAttempt, SaveRefused
  <2>3. QED
    BY <2>1, <2>2 DEF Next, vars
<1>6. QED
  BY <1>2, <1>3, <1>4, <1>5

-----------------------------------------------------------------------------

\* The invariant holds at first.
LEMMA InitInv == Init => Inv
<1> SUFFICES ASSUME Init PROVE Inv
  OBVIOUS
<1>1. TypeOK
  BY BoundsAssumption DEF Init, TypeOK, Jobs, SettlementOutcomes, MaxAttempts
<1>2. \A w \in Workers : WorkerInv(w)
  BY DEF Init, WorkerInv
<1>3. AttemptsAreUnique /\ RecordedOutcomesWereReported /\ RecordedAttemptsAreAnnounced
  BY DEF Init, AttemptsAreUnique, AtMostOneSucceeded, KeyNamesOneAttempt,
         RecordedOutcomesWereReported, RecordedAttemptsAreAnnounced
<1>4. IntentIsAnnouncedOnce
  BY DEF Init, IntentIsAnnouncedOnce
<1>5. QED
  BY <1>1, <1>2, <1>3, <1>4 DEF Inv, OutboxAnnouncesRecords

\* The invariant is kept by every step.
LEMMA StepInv == Inv /\ [Next]_vars => Inv'
  BY TypeStep, WorkerStep, UniqueStep, RecordedStep, AnnouncedStep, IntentStep
     DEF Inv, OutboxAnnouncesRecords

\* The inductive invariant holds in every reachable state of InitiateSettlement and
\* CreatePaymentIntent, however many of them overlap, fail and die.
THEOREM SpecInv == Spec => []Inv
  BY InitInv, StepInv, PTL DEF Spec

\* Every variable holds a value of its kind: at most three attempts a ride, each with an
\* outcome of the domain.
THEOREM TypeCorrect == Spec => []TypeOK
<1>1. Inv => TypeOK
  BY DEF Inv
<1>2. QED
  BY <1>1, SpecInv, PTL

\* However settlements overlap and whoever writes an old copy, a ride has one recorded success
\* at most, and a key names one attempt of one ride.
THEOREM UniquenessCorrect == Spec => []AttemptsAreUnique
<1>1. Inv => AttemptsAreUnique
  BY DEF Inv
<1>2. QED
  BY <1>1, SpecInv, PTL

\* Every recorded attempt was reported by the provider to a request with its key.
THEOREM ReportsCorrect == Spec => []RecordedOutcomesWereReported
<1>1. Inv => RecordedOutcomesWereReported
  BY DEF Inv
<1>2. QED
  BY <1>1, SpecInv, PTL

\* Whatever the tables hold was announced through the outbox, an intent once and as it is.
THEOREM OutboxCorrect == Spec => []OutboxAnnouncesRecords
<1>1. Inv => OutboxAnnouncesRecords
  BY DEF Inv
<1>2. QED
  BY <1>1, SpecInv, PTL

-----------------------------------------------------------------------------
(* Money: a provider that charges whenever it is asked to.                 *)

\* A reported success took money for its ride.
Money == \A c \in reported : c.outcome = "SUCCEEDED" => captured[c.ride] > 0

\* A provider that recognises no keys has taken the money of each success it reported.
LEMMA MoneyStep ==
  ASSUME ~ProviderDedupes, Inv, Money, [Next]_vars
  PROVE  Money'
<1>1. ASSUME NEW w \in Workers, NEW o \in SettlementOutcomes,
             ProviderCharges(job[w].ride, job[w].key, o), Learn(w, o), job[w] \in SettleJobs
      PROVE  Money'
  <2> DEFINE r == job[w].ride
  <2>1. r \in Rides /\ captured \in [Rides -> Nat]
    BY <1>1, JobKinds DEF Inv, TypeOK
  <2>2. captured' = IF o = "SUCCEEDED" THEN [captured EXCEPT ![r] = captured[r] + 1] ELSE captured
    BY <1>1 DEF ProviderCharges
  <2>3. reported' = reported \cup {[ride |-> r, key |-> job[w].key, outcome |-> o]}
    BY <1>1 DEF Learn
  <2>4. reported \subseteq Charges
    BY DEF Inv, TypeOK
  <2> HIDE DEF r
  <2>5. QED
    BY <2>1, <2>2, <2>3, <2>4 DEF Money, Charges
<1>2. ASSUME NEW w \in Workers, Charge(w)
      PROVE  Money'
  <2>1. job[w] \in SettleJobs /\ job[w].ride \in Rides /\ job[w].key \in Keys
    BY <1>2, JobKinds DEF Inv, Charge, WorkerInv
  <2>2. PICK o \in ProviderAnswers(job[w].ride, job[w].key) :
           ProviderCharges(job[w].ride, job[w].key, o) /\ Learn(w, o)
    BY <1>2 DEF Charge
  <2>3. o \in SettlementOutcomes
    BY <2>1, AnswerType DEF Inv
  <2>4. QED
    BY <1>1, <2>1, <2>2, <2>3
<1>3. ASSUME NEW w \in Workers, ChargeError(w)
      PROVE  Money'
  <2>1. job[w] \in SettleJobs /\ job[w].ride \in Rides
    BY <1>3, JobKinds DEF Inv, ChargeError, WorkerInv
  <2>2. captured \in [Rides -> Nat] /\ reported \subseteq Charges
    BY DEF Inv, TypeOK
  <2>3. \A r \in Rides : captured'[r] >= captured[r]
    BY <1>3, <2>1, <2>2 DEF ChargeError, ProviderCharges
  <2>4. captured' \in [Rides -> Nat]
    BY TypeStep DEF TypeOK
  <2>5. reported' = reported \cup {[ride |-> job[w].ride, key |-> job[w].key, outcome |-> "FAILED"]}
    BY <1>3 DEF ChargeError, Learn
  <2>6. QED
    BY <2>2, <2>3, <2>4, <2>5 DEF Money, Charges
<1>4. ASSUME UNCHANGED <<captured, reported>> PROVE Money'
  BY <1>4 DEF Money
<1>5. QED
  BY <1>2, <1>3, <1>4 DEF Next, Request, Serve, CreatePaymentIntent, InsertIntent, InsertRefused,
         InitiateSettlement, AppendAttempt, ReplayAttempt, RejectAttempt, SaveAttempts,
         SaveRefused, Crash, providerVars, vars

\* With a provider that has no memory for keys, as the one of the repository, a recorded
\* attempt was reported and a paid ride was charged.  (A provider that recognises keys may
\* answer a charge for one ride with the success of another.)
THEOREM RecordsCorrect ==
  ASSUME ~ProviderDedupes
  PROVE  Spec => []RecordsAreTrue
<1>1. Init => Money
  BY DEF Init, Money
<1>2. Inv /\ Money /\ [Next]_vars => Money'
  BY MoneyStep
<1>3. Inv /\ Money => RecordsAreTrue
  <2> SUFFICES ASSUME Inv, Money, NEW r \in Rides, HasSucceeded(attempts[r])
               PROVE  captured[r] > 0
    BY DEF RecordsAreTrue, PaidRidesWereCharged, Inv
  <2>1. PICK i \in DOMAIN attempts[r] : attempts[r][i].outcome = "SUCCEEDED"
    BY DEF HasSucceeded
  <2>2. [ride |-> r, key |-> attempts[r][i].key, outcome |-> "SUCCEEDED"] \in reported
    BY <2>1 DEF Inv, RecordedOutcomesWereReported
  <2>3. QED
    BY <2>2 DEF Money
<1>4. QED
  BY <1>1, <1>2, <1>3, SpecInv, PTL DEF Spec

-----------------------------------------------------------------------------
(* A ride whose settlements have not overlapped.                           *)

\* Worker w is at a settlement.
Settles(w) == pc[w] \in {"charging", "settling", "saving", "replaying"}

\* No other worker is at a settlement of the same ride.
Alone(w) == \A v \in Workers : InFlight(v, job[w].ride) => v = w

\* A worker whose request nobody overlaps holds the attempts as they are, and what the
\* policy allowed when it was asked the policy still allows.
CurrentInv(w) ==
    LET r == job[w].ride
        q == attempts[r]
    IN /\ Settles(w) => intent[r] # NoIntent /\ CanAttemptSettlement(q, job[w].ack)
       /\ pc[w] = "saving" =>
              /\ copy[w] = Append(q, [key |-> job[w].key, outcome |-> outcome[w]])
              /\ ~HasKey(q, job[w].key)
       /\ pc[w] = "replaying" => copy[w] = q

\* No copy is longer than the attempts, but for the one attempt it adds.
CopyBound(w) ==
    LET n == Len(attempts[job[w].ride])
    IN /\ pc[w] = "saving" => Len(copy[w]) <= n + 1
       /\ pc[w] = "replaying" => Len(copy[w]) <= n

\* What holds of the settlements of every ride, and what of those nobody overlaps.
OrderInv == \A w \in Workers :
                /\ Settles(w) => intent[job[w].ride] # NoIntent
                /\ CopyBound(w)
                /\ Settles(w) /\ job[w].ride \notin contested => Alone(w) /\ CurrentInv(w)

\* The upserts of a worker whose copy is current add its attempt or change nothing.
LEMMA CurrentSave ==
  ASSUME Inv, NEW w \in Workers, CurrentInv(w), SaveAttempts(w)
  PROVE  LET r == job[w].ride
             e == [key |-> job[w].key, outcome |-> outcome[w]]
         IN /\ e \in Attempts /\ r \in Rides /\ attempts[r] \in Seq(Attempts)
            /\ pc[w] = "saving" => /\ attempts' = [attempts EXCEPT ![r] = Append(attempts[r], e)]
                                   /\ \A s \in Rides : ~HasKey(attempts[s], job[w].key)
            /\ pc[w] = "replaying" => attempts' = attempts
<1> DEFINE r == job[w].ride
           q == attempts[r]
           e == [key |-> job[w].key, outcome |-> outcome[w]]
           c == copy[w]
<1>1. /\ r \in Rides /\ e \in Attempts /\ q \in Seq(Attempts) /\ c \in Seq(Attempts)
      /\ Len(c) <= MaxAttempts /\ attempts \in [Rides -> Seq(Attempts)]
  BY JobKinds DEF Inv, SaveAttempts, WorkerInv, TypeOK, Attempts
<1>2. /\ pc[w] \in {"saving", "replaying"} /\ UpsertsAllowed(r, c)
      /\ attempts' = [attempts EXCEPT ![r] = Upserted(r, c)]
  BY DEF SaveAttempts
<1>3. pc[w] = "saving" => c = Append(q, e) /\ ~HasKey(q, job[w].key)
  BY DEF CurrentInv
<1>4. pc[w] = "replaying" => c = q
  BY DEF CurrentInv
<1>5. /\ Upserted(r, c) \in Seq(Attempts)
      /\ DOMAIN Upserted(r, c) = DOMAIN c \cup DOMAIN q
      /\ \A i \in DOMAIN Upserted(r, c) : Upserted(r, c)[i] = IF i \in DOMAIN c THEN c[i] ELSE q[i]
  <2>1. TypeOK
    BY DEF Inv
  <2> HIDE DEF r, c, e
  <2>2. QED
    BY <1>1, <2>1, UpsertedRows
<1>6. /\ Append(q, e) \in Seq(Attempts) /\ DOMAIN Append(q, e) = 1..(Len(q) + 1)
      /\ DOMAIN q = 1..Len(q) /\ Len(q) \in Nat /\ Append(q, e)[Len(q) + 1] = e
      /\ Len(q) + 1 \in DOMAIN Append(q, e)
  <2> HIDE DEF q, e
  <2>1. q \in Seq(Attempts) /\ e \in Attempts
    BY <1>1
  <2>2. /\ Append(q, e) \in Seq(Attempts) /\ Len(Append(q, e)) = Len(q) + 1
        /\ Append(q, e)[Len(q) + 1] = e
    BY <2>1, AppendProperties
  <2>3. Len(q) \in Nat /\ DOMAIN q = 1..Len(q)
    BY <2>1, LenProperties
  <2>4. DOMAIN Append(q, e) = 1..(Len(q) + 1)
    BY <2>2, LenProperties
  <2>5. QED
    BY <2>2, <2>3, <2>4
<1>7. e.key = job[w].key
  OBVIOUS
<1> HIDE DEF q, e, c, r
<1>8. DOMAIN q \subseteq DOMAIN c
  BY <1>2, <1>3, <1>4, <1>6
<1>9. Upserted(r, c) = c
  <2>1. DOMAIN Upserted(r, c) = DOMAIN c /\ \A i \in DOMAIN c : Upserted(r, c)[i] = c[i]
    BY <1>5, <1>8
  <2>2. \A f, g \in Seq(Attempts) : DOMAIN f = DOMAIN g /\ (\A i \in DOMAIN g : f[i] = g[i]) => f = g
    OBVIOUS
  <2>3. QED
    BY <1>1, <1>5, <2>1, <2>2
<1>10. pc[w] = "saving" => \A s \in Rides : ~HasKey(attempts[s], job[w].key)
  BY <1>2, <1>3, <1>6, <1>7 DEF UpsertsAllowed, q
<1>11. pc[w] = "replaying" => attempts' = attempts
  BY <1>1, <1>2, <1>4, <1>9 DEF q
<1>12. QED
  BY <1>1, <1>2, <1>3, <1>9, <1>10, <1>11 DEF q, e, r

\* Who is at a settlement of ride r after a step was there before, unless the step is its
\* InitiateSettlement, which contests the ride if another is there.
LEMMA Joining ==
  ASSUME TypeOK, NEW w \in Workers, Request(w) \/ Serve(w) \/ Crash(w), NEW r \in Rides,
         r \notin contested', NEW v \in Workers, InFlight(v, r)'
  PROVE  InFlight(v, r) \/ (v = w /\ \A u \in Workers : ~InFlight(u, r))
<1>1. CASE v # w
  BY <1>1, OthersWait DEF InFlight
<1>2. ASSUME v = w, NEW s \in Rides, NEW k \in Keys, NEW ack \in BOOLEAN,
             InitiateSettlement(w, s, k, ack)
      PROVE  \A u \in Workers : ~InFlight(u, r)
  <2>1. job'[w].ride = s
    BY <1>2 DEF InitiateSettlement, TypeOK
  <2>2. s = r
    BY <1>2, <2>1 DEF InFlight
  <2>3. QED
    BY <1>2, <2>2 DEF InitiateSettlement
<1>3. ASSUME v = w, NEW s \in Rides, NEW m \in Amounts, CreatePaymentIntent(w, s, m)
      PROVE  FALSE
  BY <1>3 DEF CreatePaymentIntent, TypeOK, InFlight
<1>4. CASE v = w /\ (Charge(w) \/ ChargeError(w) \/ AppendAttempt(w) \/ ReplayAttempt(w))
  BY <1>4 DEF Charge, ChargeError, AppendAttempt, ReplayAttempt, InFlight
<1>5. CASE /\ v = w
           /\ \/ InsertIntent(w) \/ InsertRefused(w) \/ RejectAttempt(w) \/ SaveAttempts(w)
              \/ SaveRefused(w) \/ Crash(w)
  <2>1. pc'[w] = "idle"
    BY <1>5, FinishType DEF InsertIntent, InsertRefused, RejectAttempt, SaveAttempts,
                            SaveRefused, Crash
  <2>2. QED
    BY <1>5, <2>1 DEF InFlight
<1>6. QED
  BY <1>1, <1>2, <1>3, <1>4, <1>5 DEF Request, Serve

\* Intents stay, and attempts get no fewer.
LEMMA RecordsGrow ==
  ASSUME Inv, [Next]_vars, NEW r \in Rides
  PROVE  /\ intent[r] # NoIntent => intent'[r] = intent[r]
         /\ Len(attempts[r]) \in Nat /\ Len(attempts'[r]) \in Nat
         /\ Len(attempts[r]) <= Len(attempts'[r])
<1>1. intent[r] # NoIntent => intent'[r] = intent[r]
  <2>1. \A w \in Workers : InsertIntent(w) => (intent[r] # NoIntent => intent'[r] = intent[r])
    BY DEF InsertIntent, Inv, TypeOK
  <2>2. \A w \in Workers : Request(w) \/ Crash(w) => UNCHANGED intent
    BY DEF Request, CreatePaymentIntent, InitiateSettlement, Crash
  <2>3. \A w \in Workers : Serve(w) => UNCHANGED intent \/ InsertIntent(w)
    BY DEF Serve, InsertRefused, Charge, ChargeError, AppendAttempt, ReplayAttempt, RejectAttempt,
           SaveAttempts, SaveRefused
  <2>4. QED
    BY <2>1, <2>2, <2>3 DEF Next, vars
<1>2. attempts[r] \in Seq(Attempts) /\ attempts'[r] \in Seq(Attempts)
  BY TypeStep DEF Inv, TypeOK
<1>3. DOMAIN attempts[r] \subseteq DOMAIN attempts'[r]
  <2>1. ASSUME NEW w \in Workers, SaveAttempts(w)
        PROVE  DOMAIN attempts[r] \subseteq DOMAIN attempts'[r]
    BY <2>1, SaveWrites
  <2>2. QED
    BY <2>1, AttemptsKept
<1>4. QED
  BY <1>1, <1>2, <1>3

\* A step of another worker leaves what a worker knows to be current.
LEMMA OthersKeepCurrent ==
  ASSUME Inv, OrderInv, NEW w \in Workers, NEW v \in Workers, v # w, [Next]_vars,
         Request(v) \/ Serve(v) \/ Crash(v), Settles(w), job[w].ride \notin contested'
  PROVE  Alone(w)' /\ CurrentInv(w)'
<1>0. PICK r \in Rides : r = job[w].ride
  BY JobKinds DEF Inv, WorkerInv, Settles
<1>1. /\ r \notin contested' /\ InFlight(w, r) /\ TypeOK
      /\ Alone(w) /\ CurrentInv(w) /\ intent[r] # NoIntent
  BY <1>0, HistoryType DEF Inv, Settles, InFlight, OrderInv
<1>2. pc'[w] = pc[w] /\ job'[w] = job[w] /\ outcome'[w] = outcome[w] /\ copy'[w] = copy[w]
  BY <1>1, OthersWait
<1>3. intent'[r] = intent[r]
  BY <1>1, RecordsGrow
<1>4. attempts'[r] = attempts[r]
  <2>1. CASE UNCHANGED attempts
    BY <2>1
  <2>2. ASSUME NEW u \in Workers, SaveAttempts(u), attempts'[r] # attempts[r]
        PROVE  FALSE
    <3>1. job[u].ride = r
      BY <1>1, <2>2, SaveWrites
    <3>2. InFlight(u, r) /\ pc'[u] = "idle"
      BY <1>1, <2>2, <3>1, FinishType DEF InFlight, SaveAttempts
    <3>3. u = w
      BY <1>0, <1>1, <3>2 DEF Alone
    <3>4. QED
      BY <1>1, <1>2, <3>2, <3>3 DEF InFlight
  <2>3. QED
    BY <2>1, <2>2, AttemptsKept
<1>5. Alone(w)'
  <2>1. ASSUME NEW u \in Workers, InFlight(u, r)'
        PROVE  u = w
    <3>1. InFlight(u, r)
      BY <1>1, <2>1, Joining
    <3>2. QED
      BY <1>0, <1>1, <3>1 DEF Alone
  <2>2. QED
    BY <1>0, <1>2, <2>1 DEF Alone, InFlight
<1>6. QED
  BY <1>0, <1>1, <1>2, <1>3, <1>4, <1>5 DEF CurrentInv, Settles, HasKey

\* A step of the worker itself leaves it current.
LEMMA OwnStepKeepsCurrent ==
  ASSUME Inv, OrderInv, NEW w \in Workers, [Next]_vars,
         Request(w) \/ Serve(w) \/ Crash(w), Settles(w)', job'[w].ride \notin contested'
  PROVE  Alone(w)' /\ CurrentInv(w)'
<1>1. TypeOK /\ WorkerInv(w)
  BY DEF Inv
<1>2. ASSUME NEW r \in Rides, NEW k \in Keys, NEW ack \in BOOLEAN, InitiateSettlement(w, r, k, ack)
      PROVE  Alone(w)' /\ CurrentInv(w)'
  <2>1. /\ pc'[w] = "charging" /\ UNCHANGED <<intent, attempts>>
        /\ job'[w].ride = r /\ job'[w].ack = ack
        /\ intent[r] # NoIntent /\ CanAttemptSettlement(attempts[r], ack)
    BY <1>1, <1>2 DEF InitiateSettlement, TypeOK
  <2>2. CurrentInv(w)'
    BY <2>1 DEF CurrentInv
  <2>3. \A v \in Workers : ~InFlight(v, r)
    BY <1>2, <2>1 DEF InitiateSettlement
  <2>4. \A v \in Workers : InFlight(v, r)' => v = w
    BY <1>1, <2>1, <2>3, Joining
  <2>5. QED
    BY <2>1, <2>2, <2>4 DEF Alone, InFlight
<1>3. ASSUME Charge(w) \/ ChargeError(w) \/ AppendAttempt(w) \/ ReplayAttempt(w)
      PROVE  Alone(w)' /\ CurrentInv(w)'
  <2> DEFINE r == job[w].ride
             q == attempts[r]
  <2>1. /\ pc[w] \in {"charging", "settling"} /\ UNCHANGED <<intent, attempts, job>>
        /\ contested' = contested
        /\ pc'[w] \in {"settling", "saving", "replaying"}
        /\ pc'[w] = "saving" => /\ ~HasKey(q, job[w].key) /\ outcome' = outcome
                                /\ copy'[w] = Append(q, [key |-> job[w].key, outcome |-> outcome[w]])
        /\ pc'[w] = "replaying" => copy'[w] = q
    <3>1. CASE Charge(w) \/ ChargeError(w)
      BY <1>1, <3>1 DEF Charge, ChargeError, Learn, TypeOK, history
    <3>2. CASE AppendAttempt(w)
      BY <1>1, <3>2 DEF AppendAttempt, TypeOK, history
    <3>3. CASE ReplayAttempt(w)
      BY <1>1, <3>3 DEF ReplayAttempt, TypeOK, history
    <3>4. QED
      BY <1>3, <3>1, <3>2, <3>3
  <2>2. Settles(w) /\ Alone(w) /\ CurrentInv(w) /\ r \in Rides /\ r \notin contested'
    BY <1>1, <2>1, JobKinds DEF Settles, OrderInv, WorkerInv
  <2>3. CurrentInv(w)'
    <3>1. intent[r] # NoIntent /\ CanAttemptSettlement(q, job[w].ack)
      BY <2>2 DEF CurrentInv
    <3>2. QED
      BY <2>1, <3>1 DEF CurrentInv, HasKey
  <2>4. PICK x \in Rides : x = r /\ x = job'[w].ride
    BY <2>1, <2>2
  <2>5. \A v \in Workers : InFlight(v, x)' => v = w
    BY <1>1, <2>2, <2>4, Joining DEF Alone
  <2>6. QED
    BY <2>3, <2>4, <2>5 DEF Alone, InFlight
<1>4. CASE \/ InsertIntent(w) \/ InsertRefused(w) \/ RejectAttempt(w) \/ SaveAttempts(w)
           \/ SaveRefused(w) \/ Crash(w)
  <2>1. pc'[w] = "idle"
    BY <1>1, <1>4, FinishType DEF InsertIntent, InsertRefused, RejectAttempt, SaveAttempts,
                                  SaveRefused, Crash
  <2>2. QED
    BY <2>1 DEF Settles
<1>5. ASSUME NEW r \in Rides, NEW m \in Amounts, CreatePaymentIntent(w, r, m)
      PROVE  FALSE
  BY <1>1, <1>5 DEF CreatePaymentIntent, TypeOK, Settles
<1>6. QED
  BY <1>2, <1>3, <1>4, <1>5 DEF Request, Serve

\* No step makes a copy longer than the attempts and the one it adds.
LEMMA BoundStep ==
  ASSUME Inv, OrderInv, [Next]_vars, NEW v \in Workers
  PROVE  CopyBound(v)'
<1>1. TypeOK /\ CopyBound(v) /\ WorkerInv(v)
  BY DEF Inv, OrderInv
<1>2. ASSUME pc'[v] = pc[v], job'[v] = job[v], copy'[v] = copy[v]
      PROVE  CopyBound(v)'
  <2>1. CASE pc[v] \in {"saving", "replaying"}
    <3>1. job[v].ride \in Rides
      BY <1>1, <2>1, JobKinds DEF WorkerInv
    <3>2. PICK r \in Rides : r = job[v].ride
      BY <3>1
    <3>3. Len(attempts[r]) <= Len(attempts'[r]) /\ Len(attempts[r]) \in Nat
             /\ Len(attempts'[r]) \in Nat /\ Len(copy[v]) \in Nat
      BY <1>1, RecordsGrow DEF TypeOK
    <3>4. QED
      BY <1>1, <1>2, <3>2, <3>3 DEF CopyBound
  <2>2. CASE pc[v] \notin {"saving", "replaying"}
    BY <1>2, <2>2 DEF CopyBound
  <2>3. QED
    BY <2>1, <2>2
<1>3. ASSUME NEW w \in Workers, v # w, Request(w) \/ Serve(w) \/ Crash(w)
      PROVE  CopyBound(v)'
  BY <1>1, <1>2, <1>3, OthersWait
<1>4. CASE AppendAttempt(v) \/ ReplayAttempt(v)
  <2> DEFINE q == attempts[job[v].ride]
             e == [key |-> job[v].key, outcome |-> outcome[v]]
  <2>1. /\ UNCHANGED <<attempts, job>> /\ pc'[v] \in {"saving", "replaying"}
        /\ AppendAttempt(v) => pc'[v] = "saving" /\ copy'[v] = Append(q, e)
        /\ ReplayAttempt(v) => pc'[v] = "replaying" /\ copy'[v] = q
    BY <1>1, <1>4 DEF AppendAttempt, ReplayAttempt, TypeOK
  <2>2. q \in Seq(Attempts) /\ e \in Attempts
    BY <1>1, <1>4, JobKinds DEF AppendAttempt, ReplayAttempt, WorkerInv, TypeOK, Attempts
  <2> HIDE DEF e
  <2>3. Len(Append(q, e)) = Len(q) + 1 /\ Len(q) \in Nat
    BY <2>2
  <2>4. QED
    BY <1>4, <2>1, <2>3 DEF CopyBound
<1>5. ASSUME pc'[v] \notin {"saving", "replaying"}
      PROVE  CopyBound(v)'
  BY <1>5 DEF CopyBound
<1>6. ASSUME Request(v) \/ Serve(v) \/ Crash(v), ~(AppendAttempt(v) \/ ReplayAttempt(v))
      PROVE  pc'[v] \notin {"saving", "replaying"}
  <2>1. Request(v) \/ Charge(v) \/ ChargeError(v) => pc'[v] \in {"creating", "charging", "settling"}
    BY <1>1 DEF Request, CreatePaymentIntent, InitiateSettlement, Charge, ChargeError, Learn, TypeOK
  <2>2. \/ InsertIntent(v) \/ InsertRefused(v) \/ RejectAttempt(v) \/ SaveAttempts(v)
        \/ SaveRefused(v) \/ Crash(v)
        => pc'[v] = "idle"
    BY <1>1, FinishType DEF InsertIntent, InsertRefused, RejectAttempt, SaveAttempts,
                            SaveRefused, Crash
  <2>3. QED
    BY <1>6, <2>1, <2>2 DEF Serve
<1>7. CASE UNCHANGED vars
  BY <1>2, <1>7 DEF vars
<1>8. QED
  BY <1>3, <1>4, <1>5, <1>6, <1>7 DEF Next

\* A settlement is of a ride that has its intent.
LEMMA IntentKept ==
  ASSUME Inv, OrderInv, [Next]_vars, NEW v \in Workers, Settles(v)'
  PROVE  intent'[job'[v].ride] # NoIntent
<1>1. TypeOK /\ WorkerInv(v)
  BY DEF Inv
<1>2. ASSUME pc'[v] = pc[v], job'[v] = job[v]
      PROVE  intent'[job'[v].ride] # NoIntent
  <2>1. Settles(v) /\ job[v].ride \in Rides
    BY <1>1, <1>2, JobKinds DEF Settles, WorkerInv
  <2>2. QED
    BY <1>2, <2>1, RecordsGrow DEF OrderInv
<1>3. ASSUME NEW w \in Workers, v # w, Request(w) \/ Serve(w) \/ Crash(w)
      PROVE  intent'[job'[v].ride] # NoIntent
  BY <1>1, <1>2, <1>3, OthersWait
<1>4. ASSUME NEW r \in Rides, NEW k \in Keys, NEW ack \in BOOLEAN, InitiateSettlement(v, r, k, ack)
      PROVE  intent'[job'[v].ride] # NoIntent
  BY <1>1, <1>4 DEF InitiateSettlement, TypeOK
<1>5. CASE Charge(v) \/ ChargeError(v) \/ AppendAttempt(v) \/ ReplayAttempt(v)
  <2>1. Settles(v) /\ UNCHANGED <<intent, job>>
    BY <1>5 DEF Charge, ChargeError, AppendAttempt, ReplayAttempt, Settles
  <2>2. QED
    BY <2>1 DEF OrderInv
<1>6. CASE \/ InsertIntent(v) \/ InsertRefused(v) \/ RejectAttempt(v) \/ SaveAttempts(v)
           \/ SaveRefused(v) \/ Crash(v)
  <2>1. pc'[v] = "idle"
    BY <1>1, <1>6, FinishType DEF InsertIntent, InsertRefused, RejectAttempt, SaveAttempts,
                                  SaveRefused, Crash
  <2>2. QED
    BY <2>1 DEF Settles
<1>7. ASSUME NEW r \in Rides, NEW m \in Amounts, CreatePaymentIntent(v, r, m)
      PROVE  FALSE
  BY <1>1, <1>7 DEF CreatePaymentIntent, TypeOK, Settles
<1>8. CASE UNCHANGED vars
  BY <1>2, <1>8 DEF vars
<1>9. QED
  BY <1>3, <1>4, <1>5, <1>6, <1>7, <1>8 DEF Next, Request, Serve

\* Every step keeps settlements that nobody overlaps current.
LEMMA OrderStep ==
  ASSUME Inv, OrderInv, [Next]_vars
  PROVE  OrderInv'
<1>1. ASSUME NEW w \in Workers, Settles(w)', job'[w].ride \notin contested'
      PROVE  Alone(w)' /\ CurrentInv(w)'
  <2>1. CASE Request(w) \/ Serve(w) \/ Crash(w)
    BY <1>1, <2>1, OwnStepKeepsCurrent
  <2>2. ASSUME NEW v \in Workers, v # w, Request(v) \/ Serve(v) \/ Crash(v)
        PROVE  Alone(w)' /\ CurrentInv(w)'
    <3>1. pc'[w] = pc[w] /\ job'[w] = job[w]
      BY <2>2, OthersWait DEF Inv
    <3>2. Settles(w) /\ job[w].ride \notin contested'
      BY <1>1, <3>1 DEF Settles
    <3>3. QED
      BY <2>2, <3>2, OthersKeepCurrent
  <2>3. CASE UNCHANGED vars
    BY <1>1, <2>3 DEF OrderInv, Settles, Alone, InFlight, CurrentInv, HasKey, vars
  <2>4. QED
    BY <2>1, <2>2, <2>3 DEF Next
<1>2. QED
  BY <1>1, BoundStep, IntentKept DEF OrderInv

\* No worker holds anything at first.
LEMMA InitOrder == Init => OrderInv
  BY DEF Init, OrderInv, CopyBound, Settles

\* The save of a settlement that another has overlapped: at most one attempt more, and
\* whatever replaces the old ones is unique.
LEMMA OverwriteStep ==
  ASSUME Inv, OrderInv, [Next]_vars, NEW w \in Workers, SaveAttempts(w),
         job[w].ride \in contested
  PROVE  Ledger!Overwrite(job[w].ride)
<1>0. PICK r \in Rides : r = job[w].ride
  BY SaveWrites
<1> DEFINE q == attempts[r]
           c == copy[w]
           u == Upserted(r, c)
<1>1. /\ c \in Seq(Attempts) /\ attempts'[r] = u
      /\ \A s \in Rides \ {r} : attempts'[s] = attempts[s]
      /\ DOMAIN u = DOMAIN c \cup DOMAIN q
      /\ Apart(u) /\ \A s \in Rides \ {r} : KeysApart(u, attempts[s])
  BY <1>0, SaveWrites, UpsertedApart
<1>2. /\ q \in Seq(Attempts) /\ attempts' \in [Rides -> Seq(Attempts)]
      /\ u \in Seq(Attempts) /\ Len(u) <= MaxAttempts
  BY <1>1, TypeStep DEF Inv, TypeOK
<1>3. Len(c) <= Len(q) + 1
  <2>1. Len(c) \in Nat /\ Len(q) \in Nat
    BY <1>1, <1>2
  <2>2. CASE pc[w] = "saving"
    BY <1>0, <2>2 DEF OrderInv, CopyBound
  <2>3. CASE pc[w] = "replaying"
    BY <1>0, <2>1, <2>3 DEF OrderInv, CopyBound
  <2>4. QED
    BY <2>2, <2>3 DEF SaveAttempts
<1>4. /\ UNCHANGED <<intent, contested>> /\ r \in contested
  BY <1>0 DEF SaveAttempts, history
<1> HIDE DEF u, c, q
<1>5. Len(u) \in {Len(q), Len(q) + 1} \cap 0..MaxAttempts
  <2>1. /\ DOMAIN u = 1..Len(u) /\ DOMAIN c = 1..Len(c) /\ DOMAIN q = 1..Len(q)
        /\ Len(u) \in Nat /\ Len(c) \in Nat /\ Len(q) \in Nat
    BY <1>1, <1>2
  <2> DEFINE n == Len(u)
             l == Len(c)
             m == Len(q)
  <2>2. n \in Nat /\ l \in Nat /\ m \in Nat /\ 1..n = (1..l) \cup (1..m) /\ l <= m + 1
    BY <1>1, <1>3, <2>1
  <2>3. n <= MaxAttempts
    BY <1>2
  <2> HIDE DEF n, l, m
  <2>4. (n # 0 => n \in 1..l \/ n \in 1..m) /\ (m # 0 => m \in 1..n)
    BY <2>2
  <2>5. n >= m /\ n <= m + 1
    BY <2>2, <2>4
  <2>6. n \in {m, m + 1} \cap 0..MaxAttempts
    <3>1. n = m \/ n = m + 1
      BY <2>2, <2>5
    <3>2. n \in 0..MaxAttempts
      BY <2>2, <2>3 DEF MaxAttempts
    <3>3. QED
      BY <3>1, <3>2
  <2>7. QED
    BY <2>6 DEF n, m
<1>6. Ledger!Recordable(r, u)
  BY <1>1 DEF Ledger!Recordable, Apart, KeysApart, Compatible
<1>7. Ledger!MaxAttempts = MaxAttempts /\ Ledger!SettlementOutcomes = SettlementOutcomes
  BY DEF Ledger!MaxAttempts, MaxAttempts, Ledger!SettlementOutcomes, SettlementOutcomes
<1>8. Ledger!Overwrite(r)
  BY <1>1, <1>2, <1>4, <1>5, <1>6, <1>7 DEF Ledger!Overwrite, Attempts, q
<1>9. QED
  BY <1>0, <1>8

\* The save of a settlement that nobody has overlapped: an attempt more, or none.
LEMMA SettleStep ==
  ASSUME Inv, OrderInv, NEW w \in Workers, SaveAttempts(w), job[w].ride \notin contested
  PROVE  [Ledger!Next]_<<intent, attempts, contested>>
<1> DEFINE r == job[w].ride
           k == job[w].key
           o == outcome[w]
           e == [key |-> k, outcome |-> o]
<1>1. /\ CurrentInv(w) /\ pc[w] \in {"saving", "replaying"} /\ Settles(w)
      /\ UNCHANGED <<intent, contested>>
  BY DEF OrderInv, Settles, SaveAttempts, history
<1>2. /\ r \in Rides /\ k \in Keys /\ o \in SettlementOutcomes
      /\ intent[r] # NoIntent /\ CanAttemptSettlement(attempts[r], job[w].ack)
  BY <1>1, JobKinds DEF Inv, WorkerInv, TypeOK, CurrentInv
<1>3. CASE pc[w] = "replaying"
  BY <1>1, <1>3, CurrentSave
<1>4. CASE pc[w] = "saving"
  <2>1. /\ attempts' = [attempts EXCEPT ![r] = Append(attempts[r], e)]
        /\ \A s \in Rides : ~HasKey(attempts[s], k)
    BY <1>1, <1>4, CurrentSave
  <2>2. Ledger!KeyIsUnused(k)
    BY <2>1 DEF Ledger!KeyIsUnused, HasKey
  <2>3. Ledger!CanAttemptSettlement(attempts[r], TRUE)
    BY <1>2 DEF Ledger!CanAttemptSettlement, Ledger!HasSucceeded, Ledger!MaxAttempts,
                CanAttemptSettlement, HasSucceeded, MaxAttempts
  <2>4. Ledger!Settle(r, k, o)
    BY <1>1, <1>2, <2>1, <2>2, <2>3 DEF Ledger!Settle
  <2>5. QED
    BY <1>2, <2>4 DEF Ledger!Next, Ledger!SettlementOutcomes, SettlementOutcomes
<1>5. QED
  BY <1>1, <1>3, <1>4

\* The refinement, step by step.
LEMMA LedgerStep ==
  ASSUME Inv, OrderInv, [Next]_vars
  PROVE  [Ledger!Next]_<<intent, attempts, contested>>
<1>1. ASSUME NEW w \in Workers, InsertIntent(w)
      PROVE  Ledger!Next
  <2>1. job[w].ride \in Rides /\ job[w].amount \in Amounts
    BY <1>1, JobKinds DEF Inv, InsertIntent, WorkerInv
  <2>2. Ledger!OpenIntent(job[w].ride, job[w].amount)
    BY <1>1 DEF InsertIntent, Ledger!OpenIntent, history
  <2>3. QED
    BY <2>1, <2>2 DEF Ledger!Next
<1>2. ASSUME NEW w \in Workers, NEW r \in Rides, NEW k \in Keys, NEW ack \in BOOLEAN,
             InitiateSettlement(w, r, k, ack)
      PROVE  [Ledger!Next]_<<intent, attempts, contested>>
  <2>1. /\ intent[r] # NoIntent /\ UNCHANGED <<intent, attempts>>
        /\ contested' = contested \/ contested' = contested \cup {r}
    BY <1>2 DEF InitiateSettlement
  <2>2. QED
    BY <2>1 DEF Ledger!Next, Ledger!Contest
<1>3. ASSUME NEW w \in Workers, SaveAttempts(w)
      PROVE  [Ledger!Next]_<<intent, attempts, contested>>
  <2>1. CASE job[w].ride \in contested
    BY <1>3, <2>1, OverwriteStep, SaveWrites DEF Ledger!Next
  <2>2. CASE job[w].ride \notin contested
    BY <1>3, <2>2, SettleStep
  <2>3. QED
    BY <2>1, <2>2
<1>4. \/ UNCHANGED <<intent, attempts, contested>>
      \/ \E w \in Workers : InsertIntent(w) \/ SaveAttempts(w)
      \/ \E w \in Workers, r \in Rides, k \in Keys, ack \in BOOLEAN : InitiateSettlement(w, r, k, ack)
  <2>1. \A w \in Workers : Crash(w) => UNCHANGED <<intent, attempts, contested>>
    BY DEF Crash
  <2>2. \A w \in Workers : Serve(w) => \/ UNCHANGED <<intent, attempts, contested>>
                                       \/ SaveAttempts(w) \/ InsertIntent(w)
    BY DEF Serve, InsertRefused, Charge, ChargeError, AppendAttempt, ReplayAttempt,
           RejectAttempt, SaveRefused, history
  <2>3. \A w \in Workers, r \in Rides, m \in Amounts :
           CreatePaymentIntent(w, r, m) => UNCHANGED <<intent, attempts, contested>>
    BY DEF CreatePaymentIntent, history
  <2>4. QED
    BY <2>1, <2>2, <2>3 DEF Next, Request, vars
<1>5. QED
  BY <1>1, <1>2, <1>3, <1>4

\* However requests overlap, whatever the provider does and however often a process dies,
\* InitiateSettlement and CreatePaymentIntent implement the ledger: intents never change, and
\* the attempts of a ride are only appended, each under an unused key and allowed by the
\* policy, until two settlements of it overlap; from then on rows may be replaced, but the
\* list gets no shorter, grows by one at a time, and keeps one success and distinct keys.
THEOREM Implementation == Spec => ImplementsPaymentLedger
<1>1. Init => Ledger!Init
  BY DEF Init, Ledger!Init
<1>2. Inv /\ OrderInv /\ [Next]_vars => OrderInv'
  BY OrderStep
<1>3. Inv /\ OrderInv /\ [Next]_vars => [Ledger!Next]_<<intent, attempts, contested>>
  BY LedgerStep
<1>4. QED
  BY <1>1, <1>2, <1>3, InitOrder, SpecInv, PTL DEF Spec, ImplementsPaymentLedger, Ledger!Spec

-----------------------------------------------------------------------------
(* The money of an undisturbed ride.                                       *)

\* An undisturbed ride shares no key.
KeysInv == \A r, s \in Rides, k \in Keys :
              r \notin disturbed /\ r # s => ~(UsesKey(r, k) /\ UsesKey(s, k))

\* The provider has seen every key that was reported for ride r.
ReportsKnown(r) == \A c \in reported : c.ride = r => \E d \in results : d.key = c.key

\* A provider without a memory is asked once under each key of ride r.
FirstUse(r) == ~ProviderDedupes =>
                  \A w \in Workers : pc[w] = "charging" /\ job[w].ride = r =>
                      \A c \in reported : c.ride = r => c.key # job[w].key

\* Worker w brings a success into the table of ride r, under a key it has not recorded.
FreshAt(w, r) == /\ pc[w] \in {"settling", "saving"} /\ job[w].ride = r
                 /\ outcome[w] = "SUCCEEDED" /\ ~HasKey(attempts[r], job[w].key)

\* What was taken for ride r is recorded, or a worker is about to record it.
Accounted(r) == captured[r] > 0 =>
                   HasSucceeded(attempts[r]) \/ \E w \in Workers : FreshAt(w, r)

\* What holds of an undisturbed ride.
CleanInv == \A r \in Rides : Undisturbed(r) => /\ ReportsKnown(r) /\ FirstUse(r)
                                               /\ captured[r] <= 1 /\ Accounted(r)

\* A ride that is undisturbed after a step was undisturbed before.
LEMMA StillUndisturbed ==
  ASSUME Inv, [Next]_vars, NEW r \in Rides, Undisturbed(r)'
  PROVE  Undisturbed(r) /\ r \notin contested' /\ r \notin disturbed'
  BY HistoryType DEF Undisturbed

\* A key comes to a ride with InitiateSettlement.
LEMMA UsesKeyStep ==
  ASSUME Inv, NEW w \in Workers, Request(w) \/ Serve(w) \/ Crash(w), NEW r \in Rides,
         NEW k \in Keys, UsesKey(r, k)'
  PROVE  UsesKey(r, k) \/ \E ack \in BOOLEAN : InitiateSettlement(w, r, k, ack)
<1>0. TypeOK
  BY DEF Inv
<1>1. ASSUME NEW c \in reported', c.ride = r, c.key = k, c \notin reported
      PROVE  UsesKey(r, k)
  <2>1. \/ Charge(w) \/ ChargeError(w)
        \/ UNCHANGED reported
    BY DEF Request, Serve, CreatePaymentIntent, InsertIntent, InsertRefused, InitiateSettlement,
           AppendAttempt, ReplayAttempt, RejectAttempt, SaveAttempts, SaveRefused, Crash, providerVars
  <2>2. pc[w] = "charging" /\ \E o : Learn(w, o)
    BY <1>1, <2>1 DEF Charge, ChargeError
  <2>3. c.ride = job[w].ride /\ c.key = job[w].key
    BY <1>1, <2>2 DEF Learn
  <2>4. QED
    BY <1>1, <2>2, <2>3 DEF UsesKey, InFlight
<1>2. ASSUME NEW v \in Workers, v # w, InFlight(v, r)', job'[v].key = k
      PROVE  UsesKey(r, k)
  BY <1>0, <1>2, OthersWait DEF UsesKey, InFlight
<1>3. ASSUME InFlight(w, r)', job'[w].key = k
      PROVE  UsesKey(r, k) \/ \E ack \in BOOLEAN : InitiateSettlement(w, r, k, ack)
  <2>1. ASSUME NEW s \in Rides, NEW l \in Keys, NEW ack \in BOOLEAN, InitiateSettlement(w, s, l, ack)
        PROVE  s = r /\ l = k
    BY <1>0, <1>3, <2>1 DEF InitiateSettlement, InFlight, TypeOK
  <2>2. CASE Charge(w) \/ ChargeError(w) \/ AppendAttempt(w) \/ ReplayAttempt(w)
    BY <1>3, <2>2 DEF Charge, ChargeError, AppendAttempt, ReplayAttempt, UsesKey, InFlight
  <2>3. ASSUME \/ InsertIntent(w) \/ InsertRefused(w) \/ RejectAttempt(w) \/ SaveAttempts(w)
               \/ SaveRefused(w) \/ Crash(w)
        PROVE  FALSE
    <3>1. pc'[w] = "idle"
      BY <1>0, <2>3, FinishType DEF InsertIntent, InsertRefused, RejectAttempt, SaveAttempts,
                                    SaveRefused, Crash
    <3>2. QED
      BY <1>3, <3>1 DEF InFlight
  <2>4. ASSUME NEW s \in Rides, NEW m \in Amounts, CreatePaymentIntent(w, s, m)
        PROVE  FALSE
    BY <1>0, <1>3, <2>4 DEF CreatePaymentIntent, InFlight, TypeOK
  <2>5. QED
    BY <2>1, <2>2, <2>3, <2>4 DEF Request, Serve
<1>4. QED
  BY <1>1, <1>2, <1>3 DEF UsesKey

\* Every step keeps the keys of undisturbed rides their own.
LEMMA KeysStep ==
  ASSUME Inv, KeysInv, [Next]_vars
  PROVE  KeysInv'
<1> SUFFICES ASSUME NEW r \in Rides, NEW s \in Rides, NEW k \in Keys,
                    r \notin disturbed', r # s, UsesKey(r, k)', UsesKey(s, k)'
             PROVE  FALSE
  BY DEF KeysInv
<1>0. r \notin disturbed /\ TypeOK
  BY HistoryType DEF Inv
<1>1. CASE UNCHANGED vars
  BY <1>0, <1>1 DEF KeysInv, UsesKey, InFlight, vars
<1>2. ASSUME NEW w \in Workers, Request(w) \/ Serve(w) \/ Crash(w)
      PROVE  FALSE
  <2>1. CASE UsesKey(r, k) /\ UsesKey(s, k)
    BY <1>0, <2>1 DEF KeysInv
  <2>2. ASSUME NEW ack \in BOOLEAN, InitiateSettlement(w, r, k, ack), UsesKey(s, k)
        PROVE  FALSE
    BY <2>2 DEF InitiateSettlement, Clashes
  <2>3. ASSUME NEW ack \in BOOLEAN, InitiateSettlement(w, s, k, ack), UsesKey(r, k)
        PROVE  FALSE
    BY <2>3 DEF InitiateSettlement, Clashes
  <2>4. ASSUME NEW a \in BOOLEAN, NEW b \in BOOLEAN,
               InitiateSettlement(w, s, k, a), InitiateSettlement(w, r, k, b)
        PROVE  FALSE
    <3>1. job'[w].ride = s /\ job'[w].ride = r
      BY <1>0, <2>4 DEF InitiateSettlement, TypeOK
    <3>2. QED
      BY <3>1
  <2>5. QED
    BY <1>2, <2>1, <2>2, <2>3, <2>4, UsesKeyStep
<1>3. QED
  BY <1>1, <1>2 DEF Next

\* What is recorded for a ride under a key was reported for it.
LEMMA RecordedKeyIsUsed ==
  ASSUME Inv, NEW r \in Rides, NEW k \in Keys, HasKey(attempts[r], k)
  PROVE  \E c \in reported : c.ride = r /\ c.key = k
<1>1. PICK i \in DOMAIN attempts[r] : attempts[r][i].key = k
  BY DEF HasKey
<1>2. [ride |-> r, key |-> attempts[r][i].key, outcome |-> attempts[r][i].outcome] \in reported
  BY <1>1 DEF Inv, RecordedOutcomesWereReported
<1>3. QED
  BY <1>1, <1>2

\* The saved attempts of a worker nobody overlaps meet no index.
LEMMA FreshIsSaved ==
  ASSUME Inv, KeysInv, NEW w \in Workers, CurrentInv(w), pc[w] = "saving",
         job[w].ride \notin disturbed
  PROVE  UpsertsAllowed(job[w].ride, copy[w])
<1> DEFINE r == job[w].ride
           q == attempts[r]
           e == [key |-> job[w].key, outcome |-> outcome[w]]
           c == copy[w]
<1>1. /\ r \in Rides /\ e \in Attempts /\ q \in Seq(Attempts) /\ e.key = job[w].key
      /\ c = Append(q, e) /\ ~HasSucceeded(q) /\ ~HasKey(q, e.key) /\ e.key \in Keys
  BY JobKinds DEF Inv, WorkerInv, TypeOK, Attempts, CurrentInv, Settles, CanAttemptSettlement
<1>2. /\ Apart(q) /\ \A s \in Rides \ {r} : KeysApart(q, attempts[s])
  BY <1>1, UniqueMeansApart DEF Inv
<1>3. \A i \in DOMAIN q : q[i].key # e.key /\ q[i].outcome # "SUCCEEDED"
  BY <1>1 DEF HasKey, HasSucceeded
<1>4. \A s \in Rides \ {r} : ~HasKey(attempts[s], e.key)
  <2>1. UsesKey(r, e.key)
    BY <1>1 DEF UsesKey, InFlight
  <2>2. \A s \in Rides \ {r} : ~UsesKey(s, e.key)
    BY <1>1, <2>1 DEF KeysInv
  <2>3. QED
    BY <1>1, <2>2, RecordedKeyIsUsed DEF UsesKey
<1> HIDE DEF q, e, c, r
<1>5. /\ DOMAIN c = 1..(Len(q) + 1) /\ DOMAIN q = 1..Len(q) /\ Len(q) \in Nat
      /\ c[Len(q) + 1] = e /\ \A i \in DOMAIN q : c[i] = q[i]
  BY <1>1
<1>6. ASSUME NEW i \in DOMAIN c, NEW j \in 1..(i-1)
      PROVE  Compatible(c[i], c[j])
  <2>1. j \in DOMAIN q /\ j # i /\ c[j] = q[j]
    BY <1>5
  <2>2. CASE i \in DOMAIN q
    BY <1>2, <1>5, <2>1, <2>2 DEF Apart
  <2>3. CASE i \notin DOMAIN q
    <3>1. c[i] = e
      BY <1>5, <2>3
    <3>2. QED
      BY <1>3, <2>1, <3>1 DEF Compatible
  <2>4. QED
    BY <2>2, <2>3
<1>7. ASSUME NEW i \in DOMAIN c, NEW j \in (i+1)..Len(q)
      PROVE  Compatible(c[i], q[j])
  <2>1. i \in DOMAIN q /\ j \in DOMAIN q /\ i # j /\ c[i] = q[i]
    BY <1>5
  <2>2. QED
    BY <1>2, <2>1 DEF Apart
<1>8. ASSUME NEW i \in DOMAIN c, NEW s \in Rides \ {r}
      PROVE  ~HasKey(attempts[s], c[i].key)
  <2>1. CASE i \in DOMAIN q
    BY <1>2, <1>5, <2>1 DEF KeysApart, HasKey
  <2>2. CASE i \notin DOMAIN q
    <3>1. c[i] = e
      BY <1>5, <2>2
    <3>2. QED
      BY <1>4, <3>1
  <2>3. QED
    BY <2>1, <2>2
<1>9. QED
  BY <1>6, <1>7, <1>8 DEF UpsertsAllowed, q, c, r

\* Only a charge changes what the provider did and what was learnt of it.
LEMMA ProviderWaits ==
  ASSUME NEW w \in Workers, Request(w) \/ Serve(w) \/ Crash(w), ~Charge(w), ~ChargeError(w)
  PROVE  UNCHANGED <<results, captured, reported>>
  BY DEF Request, Serve, CreatePaymentIntent, InsertIntent, InsertRefused, InitiateSettlement,
         AppendAttempt, ReplayAttempt, RejectAttempt, SaveAttempts, SaveRefused, Crash, providerVars

\* A charge that is answered adds one charge to what the provider did, and to what was learnt.
LEMMA ChargeAdds ==
  ASSUME Inv, NEW w \in Workers, Charge(w)
  PROVE  /\ job[w].ride \in Rides /\ job[w].key \in Keys /\ pc[w] = "charging"
         /\ captured \in [Rides -> Nat] /\ UNCHANGED <<attempts, job>>
         /\ \E o \in SettlementOutcomes :
               LET c == [ride |-> job[w].ride, key |-> job[w].key, outcome |-> o]
               IN /\ results' = results \cup {c} /\ reported' = reported \cup {c}
                  /\ outcome'[w] = o /\ pc'[w] = "settling"
                  /\ captured' = IF o = "SUCCEEDED" /\ ~(ProviderDedupes /\ \E d \in results : d.key = job[w].key)
                                 THEN [captured EXCEPT ![job[w].ride] = captured[job[w].ride] + 1]
                                 ELSE captured
<1>1. /\ job[w].ride \in Rides /\ job[w].key \in Keys /\ pc[w] = "charging" /\ TypeOK
      /\ UNCHANGED <<attempts, job>>
  BY JobKinds DEF Inv, Charge, WorkerInv
<1>2. PICK o \in ProviderAnswers(job[w].ride, job[w].key) :
         ProviderCharges(job[w].ride, job[w].key, o) /\ Learn(w, o)
  BY DEF Charge
<1>3. o \in SettlementOutcomes
  BY <1>1, AnswerType
<1>4. outcome'[w] = o /\ pc'[w] = "settling"
  BY <1>1, <1>2 DEF Learn, TypeOK
<1>5. QED
  BY <1>1, <1>2, <1>3, <1>4 DEF ProviderCharges, Learn, TypeOK

\* A charge that is not answered disturbs its ride, and forgets nothing.
LEMMA ErrorAdds ==
  ASSUME Inv, NEW w \in Workers, ChargeError(w)
  PROVE  /\ job[w].ride \in disturbed' /\ results \subseteq results'
         /\ reported' = reported \cup {[ride |-> job[w].ride, key |-> job[w].key, outcome |-> "FAILED"]}
         /\ \A r \in Rides : r # job[w].ride => captured'[r] = captured[r]
  BY DEF ChargeError, ProviderCharges, Learn, Inv, TypeOK

\* Every step keeps the provider acquainted with the keys of an undisturbed ride.
LEMMA ReportsStep ==
  ASSUME Inv, CleanInv, [Next]_vars, NEW r \in Rides, Undisturbed(r)'
  PROVE  ReportsKnown(r)'
<1>1. ReportsKnown(r) /\ r \notin disturbed'
  BY StillUndisturbed DEF CleanInv
<1>2. ASSUME UNCHANGED <<results, captured, reported>>
      PROVE  ReportsKnown(r)'
  BY <1>1, <1>2 DEF ReportsKnown
<1>3. ASSUME NEW w \in Workers, Charge(w)
      PROVE  ReportsKnown(r)'
  BY <1>1, <1>3, ChargeAdds DEF ReportsKnown
<1>4. ASSUME NEW w \in Workers, ChargeError(w)
      PROVE  ReportsKnown(r)'
  BY <1>1, <1>4, ErrorAdds DEF ReportsKnown
<1>5. QED
  BY <1>2, <1>3, <1>4, ProviderWaits DEF Next, vars

\* Every step keeps the keys of an undisturbed ride fresh for a provider without a memory.
LEMMA FirstUseStep ==
  ASSUME Inv, OrderInv, CleanInv, [Next]_vars, NEW r \in Rides, Undisturbed(r)'
  PROVE  FirstUse(r)'
<1>1. /\ FirstUse(r) /\ r \notin disturbed' /\ r \notin contested' /\ r \notin contested /\ TypeOK
  BY StillUndisturbed DEF CleanInv, Undisturbed, Inv
<1>2. CASE UNCHANGED vars
  BY <1>1, <1>2 DEF FirstUse, vars
<1> SUFFICES ASSUME ~ProviderDedupes, NEW w \in Workers, pc'[w] = "charging", job'[w].ride = r,
                    NEW c \in reported', c.ride = r,
                    NEW v \in Workers, Request(v) \/ Serve(v) \/ Crash(v)
             PROVE  c.key # job'[w].key
  BY <1>2 DEF FirstUse, Next
<1>3. CASE v # w
  <2>1. pc[w] = "charging" /\ job'[w] = job[w] /\ InFlight(w, r)
    BY <1>1, <1>3, OthersWait DEF InFlight
  <2>2. Alone(w)
    BY <1>1, <2>1 DEF OrderInv, Settles, InFlight
  <2>3. CASE c \in reported
    BY <1>1, <2>1, <2>3 DEF FirstUse, InFlight
  <2>4. CASE c \notin reported
    <3>1. /\ Charge(v) \/ ChargeError(v)
          /\ c.ride = job[v].ride
      BY <2>4, ProviderWaits, ChargeAdds, ErrorAdds
    <3>2. InFlight(v, r)
      BY <3>1 DEF Charge, ChargeError, InFlight
    <3>3. QED
      BY <1>3, <2>1, <2>2, <3>2 DEF Alone, InFlight
  <2>5. QED
    BY <2>3, <2>4
<1>4. CASE v = w
  <2>1. ASSUME NEW s \in Rides, NEW k \in Keys, NEW ack \in BOOLEAN, InitiateSettlement(w, s, k, ack)
        PROVE  c.key # job'[w].key
    <3>1. s = r /\ job'[w].key = k /\ c \in reported
      BY <1>1, <2>1 DEF InitiateSettlement, TypeOK, providerVars
    <3>2. r \notin Clashes(r, k)
      BY <1>1, <2>1, <3>1 DEF InitiateSettlement
    <3>3. ~UsesKey(r, k)
      BY <3>2 DEF Clashes
    <3>4. QED
      BY <3>1, <3>3 DEF UsesKey
  <2>2. ASSUME NEW s \in Rides, NEW m \in Amounts, CreatePaymentIntent(w, s, m)
        PROVE  FALSE
    BY <1>1, <2>2 DEF CreatePaymentIntent, TypeOK
  <2>3. ASSUME Serve(w) \/ Crash(w)
        PROVE  FALSE
    <3>1. Charge(w) \/ ChargeError(w) \/ AppendAttempt(w) \/ ReplayAttempt(w) => pc'[w] # "charging"
      BY <1>1 DEF Charge, ChargeError, AppendAttempt, ReplayAttempt, Learn, TypeOK
    <3>2. \/ InsertIntent(w) \/ InsertRefused(w) \/ RejectAttempt(w) \/ SaveAttempts(w)
          \/ SaveRefused(w) \/ Crash(w)
          => pc'[w] = "idle"
      BY <1>1, FinishType DEF InsertIntent, InsertRefused, RejectAttempt, SaveAttempts,
                              SaveRefused, Crash
    <3>3. QED
      BY <2>3, <3>1, <3>2 DEF Serve
  <2>4. QED
    BY <1>4, <2>1, <2>2, <2>3 DEF Request
<1>5. QED
  BY <1>3, <1>4

\* The charge of an undisturbed ride: no money was taken for it yet, and what is taken now
\* its worker will record.
LEMMA CleanCharge ==
  ASSUME Inv, OrderInv, CleanInv, NEW w \in Workers, Charge(w), NEW r \in Rides,
         job[w].ride = r, Undisturbed(r)
  PROVE  captured'[r] <= 1 /\ Accounted(r)'
<1> DEFINE k == job[w].key
<1>1. /\ k \in Keys /\ pc[w] = "charging" /\ captured \in [Rides -> Nat]
      /\ UNCHANGED <<attempts, job>>
  BY ChargeAdds
<1>2. ReportsKnown(r) /\ FirstUse(r) /\ Accounted(r)
  BY DEF CleanInv
<1>3. Alone(w) /\ CurrentInv(w)
  BY <1>1 DEF OrderInv, Settles, Undisturbed
<1>4. ~HasSucceeded(attempts[r])
  BY <1>1, <1>3 DEF CurrentInv, Settles, CanAttemptSettlement
<1>5. \A v \in Workers : ~FreshAt(v, r)
  BY <1>1, <1>3 DEF FreshAt, Alone, InFlight
<1>6. captured[r] = 0
  BY <1>1, <1>2, <1>4, <1>5 DEF Accounted
<1>7. PICK o \in SettlementOutcomes :
         /\ outcome'[w] = o /\ pc'[w] = "settling"
         /\ captured' = IF o = "SUCCEEDED" /\ ~(ProviderDedupes /\ \E d \in results : d.key = k)
                        THEN [captured EXCEPT ![r] = captured[r] + 1] ELSE captured
  BY ChargeAdds
<1>8. captured'[r] <= 1
  BY <1>1, <1>6, <1>7
<1>9. ASSUME captured'[r] > 0
      PROVE  FreshAt(w, r)'
  <2>1. o = "SUCCEEDED" /\ ~(ProviderDedupes /\ \E d \in results : d.key = k)
    BY <1>6, <1>7, <1>9
  <2>2. \A c \in reported : c.ride = r => c.key # k
    BY <1>1, <1>2, <2>1 DEF ReportsKnown, FirstUse
  <2>3. ~HasKey(attempts[r], k)
    BY <1>1, <2>2, RecordedKeyIsUsed
  <2>4. QED
    BY <1>1, <1>7, <2>1, <2>3 DEF FreshAt, HasKey
<1>10. QED
  BY <1>8, <1>9 DEF Accounted

\* A save writes the attempts of an undisturbed ride for its own worker only.
LEMMA AttemptsOfRide ==
  ASSUME Inv, [Next]_vars, NEW r \in Rides, attempts'[r] # attempts[r]
  PROVE  \E w \in Workers : SaveAttempts(w) /\ InFlight(w, r)
<1>1. PICK w \in Workers : SaveAttempts(w)
  BY AttemptsKept
<1>2. job[w].ride = r
  BY <1>1, SaveWrites
<1>3. QED
  BY <1>1, <1>2 DEF SaveAttempts, InFlight

\* A recorded success of a ride nobody contests stays.
LEMMA SuccessKept ==
  ASSUME Inv, OrderInv, [Next]_vars, NEW r \in Rides, r \notin contested,
         HasSucceeded(attempts[r])
  PROVE  HasSucceeded(attempts'[r])
<1>1. CASE attempts'[r] = attempts[r]
  BY <1>1
<1>2. ASSUME NEW w \in Workers, SaveAttempts(w), InFlight(w, r)
      PROVE  FALSE
  <2>1. Settles(w) /\ CurrentInv(w) /\ job[w].ride = r
    BY <1>2 DEF InFlight, Settles, OrderInv
  <2>2. QED
    BY <2>1 DEF CurrentInv, CanAttemptSettlement
<1>3. QED
  BY <1>1, <1>2, AttemptsOfRide

\* A success on its way stays so while other workers take steps.
LEMMA FreshWaits ==
  ASSUME Inv, OrderInv, [Next]_vars, NEW r \in Rides, r \notin contested,
         NEW v \in Workers, FreshAt(v, r),
         NEW w \in Workers, w # v, Request(w) \/ Serve(w) \/ Crash(w)
  PROVE  FreshAt(v, r)'
<1>1. /\ pc'[v] = pc[v] /\ job'[v] = job[v] /\ outcome'[v] = outcome[v] /\ TypeOK
  BY OthersWait DEF Inv
<1>2. InFlight(v, r) /\ Alone(v) /\ job[v].ride = r
  BY DEF FreshAt, InFlight, OrderInv, Settles
<1>3. attempts'[r] = attempts[r]
  <2>1. ASSUME NEW u \in Workers, SaveAttempts(u), InFlight(u, r)
        PROVE  FALSE
    <3>1. u = v /\ pc'[u] = "idle"
      BY <1>1, <1>2, <2>1, FinishType DEF Alone, SaveAttempts
    <3>2. QED
      BY <1>1, <1>2, <3>1 DEF InFlight
  <2>2. QED
    BY <2>1, AttemptsOfRide
<1>4. QED
  BY <1>1, <1>3 DEF FreshAt, HasKey

\* Its worker brings it into the table, unless it dies.
LEMMA FreshArrives ==
  ASSUME Inv, OrderInv, KeysInv, [Next]_vars, NEW r \in Rides, Undisturbed(r),
         r \notin disturbed', NEW w \in Workers, FreshAt(w, r),
         Request(w) \/ Serve(w) \/ Crash(w)
  PROVE  HasSucceeded(attempts'[r]) \/ FreshAt(w, r)'
<1>1. /\ pc[w] \in {"settling", "saving"} /\ job[w].ride = r /\ outcome[w] = "SUCCEEDED"
      /\ ~HasKey(attempts[r], job[w].key) /\ TypeOK
      /\ r \notin disturbed /\ CurrentInv(w) /\ CanAttemptSettlement(attempts[r], job[w].ack)
  BY DEF FreshAt, Undisturbed, OrderInv, Settles, CurrentInv, Inv
<1>2. ~Request(w) /\ ~InsertIntent(w) /\ ~InsertRefused(w) /\ ~Charge(w) /\ ~ChargeError(w)
  BY <1>1 DEF Request, CreatePaymentIntent, InitiateSettlement, InsertIntent, InsertRefused,
              Charge, ChargeError
<1>3. ~ReplayAttempt(w) /\ ~RejectAttempt(w)
  BY <1>1 DEF ReplayAttempt, RejectAttempt
<1>4. ~Crash(w)
  BY <1>1 DEF Crash
<1>5. ~SaveRefused(w)
  BY <1>1, FreshIsSaved DEF SaveRefused
<1>6. CASE AppendAttempt(w)
  <2>1. pc'[w] = "saving" /\ UNCHANGED <<attempts, job, outcome>>
    BY <1>1, <1>6 DEF AppendAttempt, TypeOK
  <2>2. QED
    BY <1>1, <2>1 DEF FreshAt, HasKey
<1>7. CASE SaveAttempts(w)
  <2> DEFINE q == attempts[r]
             e == [key |-> job[w].key, outcome |-> outcome[w]]
  <2>1. pc[w] = "saving"
    BY <1>1, <1>7 DEF SaveAttempts
  <2>2. /\ e \in Attempts /\ q \in Seq(Attempts) /\ attempts' = [attempts EXCEPT ![r] = Append(q, e)]
        /\ attempts \in [Rides -> Seq(Attempts)] /\ e.outcome = "SUCCEEDED"
    BY <1>1, <1>7, <2>1, CurrentSave DEF TypeOK
  <2> HIDE DEF q, e
  <2>3. /\ Len(q) + 1 \in DOMAIN Append(q, e) /\ Append(q, e)[Len(q) + 1] = e
    BY <2>2
  <2>4. HasSucceeded(Append(q, e))
    BY <2>2, <2>3 DEF HasSucceeded
  <2>5. QED
    BY <2>2, <2>4
<1>8. QED
  BY <1>2, <1>3, <1>4, <1>5, <1>6, <1>7 DEF Serve

\* Every step keeps the money of an undisturbed ride taken once and accounted for.
LEMMA MoneyOfRide ==
  ASSUME Inv, OrderInv, KeysInv, CleanInv, [Next]_vars, NEW r \in Rides, Undisturbed(r)'
  PROVE  captured'[r] <= 1 /\ Accounted(r)'
<1>1. /\ Undisturbed(r) /\ r \notin contested /\ r \notin disturbed'
      /\ captured[r] <= 1 /\ Accounted(r)
  BY StillUndisturbed DEF CleanInv, Undisturbed
<1>2. CASE UNCHANGED vars
  BY <1>1, <1>2 DEF Accounted, FreshAt, HasKey, HasSucceeded, vars
<1>3. ASSUME NEW w \in Workers, Request(w) \/ Serve(w) \/ Crash(w)
      PROVE  captured'[r] <= 1 /\ Accounted(r)'
  <2>1. CASE Charge(w) /\ job[w].ride = r
    BY <1>1, <2>1, CleanCharge
  <2>2. CASE ~(Charge(w) /\ job[w].ride = r)
    <3>1. captured'[r] = captured[r]
      <4>1. CASE Charge(w)
        BY <2>2, <4>1, ChargeAdds
      <4>2. CASE ChargeError(w)
        BY <1>1, <4>2, ErrorAdds
      <4>3. QED
        BY <1>3, <4>1, <4>2, ProviderWaits
    <3>2. ASSUME NEW v \in Workers, FreshAt(v, r)
          PROVE  HasSucceeded(attempts'[r]) \/ FreshAt(v, r)'
      <4>1. CASE v = w
        BY <1>1, <1>3, <3>2, <4>1, FreshArrives
      <4>2. CASE v # w
        BY <1>1, <1>3, <3>2, <4>2, FreshWaits
      <4>3. QED
        BY <4>1, <4>2
    <3>3. HasSucceeded(attempts[r]) => HasSucceeded(attempts'[r])
      BY <1>1, SuccessKept
    <3>4. Accounted(r)'
      BY <1>1, <3>1, <3>2, <3>3 DEF Accounted, HasSucceeded
    <3>5. QED
      BY <1>1, <3>1, <3>4
  <2>3. QED
    BY <2>1, <2>2
<1>4. QED
  BY <1>2, <1>3 DEF Next

\* Every step keeps what holds of undisturbed rides.
LEMMA CleanStep ==
  ASSUME Inv, OrderInv, KeysInv, CleanInv, [Next]_vars
  PROVE  CleanInv'
<1> SUFFICES ASSUME NEW r \in Rides, Undisturbed(r)'
             PROVE  (/\ ReportsKnown(r) /\ FirstUse(r) /\ captured[r] <= 1 /\ Accounted(r))'
  BY DEF CleanInv
<1>1. QED
  BY ReportsStep, FirstUseStep, MoneyOfRide

\* Nothing was reported, taken or asked for at first.
LEMMA InitClean == Init => KeysInv /\ CleanInv
  BY DEF Init, KeysInv, UsesKey, InFlight, CleanInv, ReportsKnown, FirstUse, Accounted

\* What holds of undisturbed rides holds in every reachable state.
LEMMA CleanCorrect == Spec => [](OrderInv /\ CleanInv)
<1>1. Inv /\ OrderInv /\ KeysInv /\ CleanInv /\ [Next]_vars => OrderInv' /\ KeysInv' /\ CleanInv'
  BY OrderStep, KeysStep, CleanStep
<1>2. QED
  BY <1>1, InitOrder, InitClean, SpecInv, PTL DEF Spec

\* Whatever the provider does, whoever dies and whatever befalls other rides: InitiateSettlement
\* takes money twice for a ride only if two settlements of it overlapped, an answer of the
\* provider for it was lost, or it shared a key with another ride or, where the provider does
\* not know keys again, with an attempt of its own.
THEOREM ChargesCorrect == Spec => []UndisturbedRidesAreChargedOnce
<1>1. CleanInv => UndisturbedRidesAreChargedOnce
  BY DEF CleanInv, UndisturbedRidesAreChargedOnce
<1>2. QED
  BY <1>1, CleanCorrect, PTL

\* For every other ride what was taken shows in its attempts once its requests are answered.
THEOREM CapturesCorrect == Spec => []UndisturbedCapturesAreRecorded
<1>1. CleanInv => UndisturbedCapturesAreRecorded
  BY DEF CleanInv, UndisturbedCapturesAreRecorded, Accounted, FreshAt, InFlight
<1>2. QED
  BY <1>1, CleanCorrect, PTL
=============================================================================
