------------------------- MODULE RideLifecycleProofs -------------------------
(***************************************************************************)
(* Proofs about RideLifecycle for every set of rides, drivers and workers, *)
(* every policy and every bound.                                           *)
(*                                                                         *)
(* The argument is the one behind optimistic locking.  A version names one *)
(* state of a ride: whoever holds a copy of the row with the version the   *)
(* row still has, holds the row.  So a save whose WHERE clause matches     *)
(* leaves the state the copy was in, by an edge that was checked on the    *)
(* copy.  Copy says this of every copy in a worker or a sweep.             *)
(***************************************************************************)
EXTENDS RideLifecycle, FiniteSetTheorems, TLAPS

\* A copy (version v, state s) of the row of ride r is not newer than the row, and is
\* the row if it is as new.
Copy(r, v, s) == /\ row[r].state # "NONE"
                 /\ v <= row[r].version
                 /\ v = row[r].version => s = row[r].state

\* The audit trail of ride r is a legal path to the state of its row, one entry a version.
TrailInv(r) == /\ LegalPath(log[r])
               /\ row[r].state = "NONE" <=> log[r] = <<>>
               /\ log[r] # <<>> => /\ row[r].version = Len(log[r]) - 1
                                   /\ log[r][Len(log[r])].to = row[r].state

WorkerInv(w) ==
    LET r == job[w].ride IN
    /\ pc[w] = "loaded" => /\ Copy(r, agg[w].version, agg[w].state)
                           /\ agg[w].state \in RideStates
                           /\ CanTransition(agg[w].state, job[w].to)
    /\ pc[w] = "saving" => /\ Copy(r, agg[w].version - 1, prev[w])
                           /\ agg[w].state \in RideStates
                           /\ prev[w] \in RideStates
                           /\ CanTransition(prev[w], agg[w].state)
    /\ pc[w] = "publishing" => /\ agg[w].state \in RideStates
                               /\ agg[w].version < Len(log[r])
                               /\ log[r][agg[w].version + 1].from = prev[w]
                               /\ log[r][agg[w].version + 1].to = agg[w].state

SweepInv == \A i \in 1..Len(sweep.batch) :
               LET c == sweep.batch[i] IN /\ Copy(c.ride, c.agg.version, c.agg.state)
                                          /\ c.agg.state \in RideStates

\* The inductive invariant.
Inv == /\ TypeOK
       /\ \A r \in Rides : TrailInv(r)
       /\ \A w \in Workers : WorkerInv(w)
       /\ SweepInv
       /\ PublishedEventsWereCommitted

-----------------------------------------------------------------------------
(* Types.                                                                  *)

\* Every terminal state, and every state with a deadline, is a ride state.
LEMMA TableTypes == /\ TerminalStates \subseteq RideStates
                    /\ \A s \in RideStates : RideTransitions[s] \subseteq RideStates
                    /\ {"DISPATCHING", "ASSIGNED"} \subseteq RideStates
                    /\ \A s \in RideStates : s # "NONE"
  BY DEF TerminalStates, RideStates, RideTransitions

\* A transition turns an aggregate into an aggregate one version on.
LEMMA TransitionedType ==
  ASSUME NEW a \in Aggregates, NEW to \in RideStates,
         NEW d \in Drivers \cup {NoDriver}, NEW t \in Nat
  PROVE  /\ Transitioned(a, to, d, t) \in Aggregates
         /\ Transitioned(a, to, d, t).state = to
         /\ Transitioned(a, to, d, t).version = a.version + 1
<1>1. Deadline(to, t) \in Timestamps
  BY PolicyAssumption DEF Deadline, Timestamps, NoTime
<1>2. /\ a.driver \in Drivers \cup {NoDriver} /\ a.startedAt \in Timestamps
      /\ a.completedAt \in Timestamps /\ t \in Timestamps /\ to \in States
      /\ a.version + 1 \in Nat
  BY DEF Aggregates, Timestamps, States
<1>3. Transitioned(a, to, d, t) \in Aggregates
  <2> DEFINE driver == IF to = "ASSIGNED" THEN d ELSE a.driver
             startedAt == IF to = "STARTED" THEN t ELSE a.startedAt
             completedAt == IF to \in TerminalStates THEN t ELSE a.completedAt
  <2>1. driver \in Drivers \cup {NoDriver} /\ startedAt \in Timestamps /\ completedAt \in Timestamps
    BY <1>2
  <2>2. Transitioned(a, to, d, t) =
          [a EXCEPT !.state = to, !.version = a.version + 1, !.driver = driver,
                    !.startedAt = startedAt, !.completedAt = completedAt,
                    !.expiresAt = Deadline(to, t)]
    BY DEF Transitioned
  <2> HIDE DEF driver, startedAt, completedAt
  <2>3. QED
    BY <1>1, <1>2, <2>1, <2>2 DEF Aggregates
<1>4. QED
  BY <1>3 DEF Transitioned, Aggregates

\* The row of a ride request.
LEMMA NewRideType ==
  ASSUME NEW t \in Nat
  PROVE  NewRide(t) \in Aggregates /\ NewRide(t).state = "CREATED" /\ NewRide(t).version = 0
  BY DEF NewRide, AbsentRow, Aggregates, Timestamps, NoTime, States, RideStates

\* The idle values have the types of the variables that hold them.
LEMMA IdleTypes == /\ AbsentRow \in Aggregates
                   /\ IdleJob \in Jobs
                   /\ IdleSweep \in [pc : {"idle", "finding", "sweeping"}, at : Nat,
                                     batch : Seq(Candidates)]
<1>1. (CHOOSE r \in Rides : TRUE) \in Rides
  BY RidesAssumption
<1>2. QED
  BY <1>1 DEF AbsentRow, Aggregates, Timestamps, NoTime, States, RideStates, IdleJob, Jobs,
              IdleSweep

\* A batch is a sequence of overdue rides.
LEMMA BatchType ==
  ASSUME NEW t \in Nat, NEW q \in Batches(t)
  PROVE  /\ DOMAIN q \in {1..n : n \in Nat}
         /\ \A i \in DOMAIN q : q[i] \in Rides /\ Overdue(q[i], t)
<1> DEFINE S == {r \in Rides : Overdue(r, t)}
           n == IF Cardinality(S) < BatchSize THEN Cardinality(S) ELSE BatchSize
<1>1. Cardinality(S) \in Nat
  BY RidesAssumption, FS_Subset, FS_CardinalityType
<1>2. n \in Nat
  BY <1>1, BatchAssumption
<1>3. q \in [1..n -> S]
  BY DEF Batches
<1>4. QED
  BY <1>2, <1>3

\* A commit keeps the two tables well typed.
LEMMA CommitType ==
  ASSUME TypeOK, NEW r \in Rides, NEW from \in States, NEW a \in Aggregates,
         a.state \in RideStates, NEW by \in {"caller", "sweep"}, Commit(r, from, a, by)
  PROVE  /\ row' \in [Rides -> Aggregates]
         /\ log' \in [Rides -> Seq(Entries)]
<1> DEFINE entry == [from |-> from, to |-> a.state, by |-> by]
<1>1. entry \in Entries
  BY DEF Entries
<1>2. row' = [row EXCEPT ![r] = a] /\ log' = [log EXCEPT ![r] = Append(log[r], entry)]
  BY DEF Commit
<1>3. Append(log[r], entry) \in Seq(Entries)
  BY <1>1 DEF TypeOK
<1> HIDE DEF entry
<1>4. QED
  BY <1>2, <1>3 DEF TypeOK

\* A worker that finishes is well typed.
LEMMA FinishType ==
  ASSUME TypeOK, NEW w \in Workers, Finish(w)
  PROVE  /\ pc' \in [Workers -> {"idle", "loaded", "saving", "publishing"}]
         /\ job' \in [Workers -> Jobs]
         /\ agg' \in [Workers -> Aggregates]
         /\ prev' \in [Workers -> States]
         /\ seen' \in [Workers -> States]
  BY IdleTypes DEF Finish, TypeOK, States

\* Every step keeps the types.
LEMMA TypeStep == Inv /\ [Next]_vars => TypeOK'
<1> SUFFICES ASSUME Inv, [Next]_vars PROVE TypeOK'
  OBVIOUS
<1> USE DEF Inv
<1>1. ASSUME NEW r \in Rides, CreateRide(r) PROVE TypeOK'
  <2>1. NewRide(now) \in Aggregates /\ NewRide(now).state \in RideStates
    BY NewRideType DEF TypeOK, RideStates
  <2>2. row' \in [Rides -> Aggregates] /\ log' \in [Rides -> Seq(Entries)]
    BY <1>1, <2>1, CommitType DEF CreateRide, States
  <2>3. QED
    BY <1>1, <2>2 DEF CreateRide, TypeOK, workerVars
<1>2. ASSUME NEW w \in Workers, Request(w) PROVE TypeOK'
  <2>1. PICK r \in Rides, to \in RideStates, d \in Drivers \cup {NoDriver} :
             FindRide(w, r, to, d)
    BY <1>2 DEF Request
  <2>2. [ride |-> r, to |-> to, driver |-> d] \in Jobs
    BY DEF Jobs
  <2>3. QED
    BY <2>1, <2>2 DEF FindRide, TypeOK
<1>3. ASSUME NEW w \in Workers, ApplyTransition(w) PROVE TypeOK'
  <2>1. /\ job[w].to \in RideStates /\ job[w].driver \in Drivers \cup {NoDriver}
        /\ job[w].ride \in Rides /\ agg[w] \in Aggregates /\ now \in Nat
    BY DEF TypeOK, Jobs
  <2>2. Transitioned(agg[w], job[w].to, job[w].driver, now) \in Aggregates
    BY <2>1, TransitionedType
  <2>3. agg[w].state \in States /\ row[job[w].ride].state \in States
    BY <2>1 DEF TypeOK, Aggregates
  <2>4. QED
    BY <1>3, <2>2, <2>3 DEF ApplyTransition, TypeOK
<1>4. ASSUME NEW w \in Workers, SaveRide(w) PROVE TypeOK'
  <2>1. /\ job[w].ride \in Rides /\ agg[w] \in Aggregates /\ prev[w] \in States
        /\ agg[w].state \in RideStates
    BY <1>4 DEF TypeOK, Jobs, WorkerInv, SaveRide
  <2>2. row' \in [Rides -> Aggregates] /\ log' \in [Rides -> Seq(Entries)]
    BY <1>4, <2>1, CommitType DEF SaveRide
  <2>3. QED
    BY <1>4, <2>2 DEF SaveRide, TypeOK
<1>5. ASSUME NEW w \in Workers, SaveConflict(w) \/ CrashWorker(w) PROVE TypeOK'
  BY <1>5, FinishType DEF SaveConflict, CrashWorker, TypeOK
<1>6. ASSUME NEW w \in Workers, PublishTransition(w) PROVE TypeOK'
  <2>1. [ride |-> job[w].ride, version |-> agg[w].version, from |-> prev[w],
         to |-> agg[w].state] \in Events
    BY <1>6 DEF PublishTransition, WorkerInv, TypeOK, Jobs, Aggregates, Events
  <2>2. QED
    BY <1>6, <2>1, FinishType DEF PublishTransition, TypeOK
<1>7. CASE StartSweep
  BY <1>7 DEF StartSweep, TypeOK, workerVars
<1>8. CASE FindExpired
  <2>1. PICK q \in Batches(sweep.at) : sweep' = [sweep EXCEPT !.pc = "sweeping",
                  !.batch = [i \in DOMAIN q |-> [ride |-> q[i], agg |-> row[q[i]]]]]
    BY <1>8 DEF FindExpired
  <2>2. PICK n \in Nat : DOMAIN q = 1..n
    BY BatchType DEF TypeOK
  <2>3. \A i \in 1..n : [ride |-> q[i], agg |-> row[q[i]]] \in Candidates
    BY <2>2, BatchType DEF TypeOK, Candidates
  <2>4. [i \in DOMAIN q |-> [ride |-> q[i], agg |-> row[q[i]]]] \in Seq(Candidates)
    BY <2>2, <2>3
  <2>5. QED
    BY <1>8, <2>1, <2>4 DEF FindExpired, TypeOK, workerVars
<1>9. CASE ExpireNext
  <2> DEFINE c == Head(sweep.batch)
             a == Transitioned(c.agg, "EXPIRED", NoDriver, sweep.at)
  <2>1. c \in Candidates /\ Tail(sweep.batch) \in Seq(Candidates)
    BY <1>9 DEF ExpireNext, TypeOK
  <2>2. c.ride \in Rides /\ c.agg \in Aggregates /\ c.agg.state \in States
    BY <2>1 DEF Candidates, Aggregates
  <2>3. a \in Aggregates /\ a.state \in RideStates
    <3>1. "EXPIRED" \in RideStates /\ NoDriver \in Drivers \cup {NoDriver} /\ sweep.at \in Nat
      BY DEF TypeOK, RideStates
    <3> HIDE DEF c
    <3>2. QED
      BY <2>2, <3>1, TransitionedType
  <2>4. Commit(c.ride, c.agg.state, a, "sweep") \/ UNCHANGED <<row, log>>
    BY <1>9 DEF ExpireNext
  <2> HIDE DEF c, a
  <2>5. row' \in [Rides -> Aggregates] /\ log' \in [Rides -> Seq(Entries)]
    BY <2>2, <2>3, <2>4, CommitType DEF TypeOK
  <2>6. QED
    BY <1>9, <2>1, <2>5 DEF ExpireNext, TypeOK, workerVars
<1>10. CASE EndSweep \/ CrashSweep
  BY <1>10, IdleTypes DEF EndSweep, CrashSweep, TypeOK, workerVars
<1>11. CASE Tick
  BY <1>11 DEF Tick, TypeOK, workerVars
<1>12. CASE UNCHANGED vars
  BY <1>12 DEF vars, TypeOK
<1>13. QED
  BY <1>1, <1>2, <1>3, <1>4, <1>5, <1>6, <1>7, <1>8, <1>9, <1>10, <1>11, <1>12
     DEF Next, Serve, Sweep
-----------------------------------------------------------------------------
(* Audit trails and copies.                                                *)

\* What another step may do to the row and the trail of ride r: nothing, or a new version;
\* entries of the trail stay.
Grows(r) == /\ \A v \in Int, s \in States : Copy(r, v, s) => Copy(r, v, s)'
            /\ Len(log[r]) <= Len(log'[r])
            /\ \A i \in 1..Len(log[r]) : log'[r][i] = log[r][i]

\* A legal commit of the next version: the trail stays a legal path, copies stay honest,
\* and the new entry stands where its version says.
LEMMA CommitGrows ==
  ASSUME TypeOK, \A x \in Rides : TrailInv(x),
         NEW r \in Rides, NEW a \in Aggregates, NEW from \in RideStates,
         NEW by \in {"caller", "sweep"},
         Copy(r, a.version - 1, from), VersionMatches(r, a.version),
         a.state \in RideStates, CanTransition(from, a.state), Commit(r, from, a, by)
  PROVE  /\ \A x \in Rides : TrailInv(x)' /\ Grows(x)
         /\ a.version < Len(log'[r])
         /\ log'[r][a.version + 1].from = from
         /\ log'[r][a.version + 1].to = a.state
<1> DEFINE entry == [from |-> from, to |-> a.state, by |-> by]
<1>1. row'[r] = a /\ log'[r] = Append(log[r], entry)
  BY DEF Commit, TypeOK
<1>2. \A x \in Rides : x # r => row'[x] = row[x] /\ log'[x] = log[x]
  BY DEF Commit, TypeOK
<1>3. entry \in Entries /\ entry.from = from /\ entry.to = a.state
  BY DEF Entries, States
<1>4. log[r] \in Seq(Entries) /\ row[r] \in Aggregates /\ row[r].version \in Nat /\ a.version \in Nat
  BY DEF TypeOK, Aggregates
<1>5. /\ row[r].version = a.version - 1 /\ from = row[r].state /\ row[r].state # "NONE"
      /\ a.state # "NONE"
  BY TableTypes, <1>4 DEF Copy, VersionMatches
<1>6. /\ log[r] # <<>> /\ Len(log[r]) = a.version /\ log[r][Len(log[r])].to = from
      /\ LegalPath(log[r])
  BY <1>4, <1>5 DEF TrailInv
<1> HIDE DEF entry
<1>7. /\ Len(log'[r]) = a.version + 1
      /\ log'[r][a.version + 1] = entry
      /\ \A i \in 1..Len(log[r]) : log'[r][i] = log[r][i]
      /\ log'[r] # <<>>
  BY <1>1, <1>3, <1>4, <1>6
<1>8. LegalPath(log'[r])
  <2>1. log'[r][1].from = "NONE" /\ log'[r][1].to = "CREATED"
    <3>1. 1 \in 1..Len(log[r])
      BY <1>4, <1>6
    <3>2. log[r][1].from = "NONE" /\ log[r][1].to = "CREATED"
      BY <1>6 DEF LegalPath
    <3>3. QED
      BY <1>7, <3>1, <3>2
  <2>2. ASSUME NEW i \in 2..Len(log'[r])
        PROVE  /\ log'[r][i].from = log'[r][i-1].to
               /\ CanTransition(log'[r][i].from, log'[r][i].to)
    <3>1. CASE i = a.version + 1
      <4>1. i - 1 = Len(log[r]) /\ i - 1 \in 1..Len(log[r])
        BY <3>1, <1>4, <1>6
      <4>2. log'[r][i-1] = log[r][Len(log[r])] /\ log'[r][i] = entry
        BY <3>1, <4>1, <1>7
      <4>3. QED
        BY <4>2, <1>3, <1>6
    <3>2. CASE i # a.version + 1
      <4>1. i \in 2..Len(log[r]) /\ i \in 1..Len(log[r]) /\ i - 1 \in 1..Len(log[r])
        BY <3>2, <1>4, <1>6, <1>7
      <4>2. log'[r][i-1] = log[r][i-1] /\ log'[r][i] = log[r][i]
        BY <4>1, <1>7
      <4>3. log[r][i].from = log[r][i-1].to /\ CanTransition(log[r][i].from, log[r][i].to)
        BY <4>1, <1>6 DEF LegalPath
      <4>4. QED
        BY <4>2, <4>3
    <3>3. QED
      BY <3>1, <3>2
  <2>3. QED
    BY <2>1, <2>2 DEF LegalPath
<1>9. TrailInv(r)'
  BY <1>1, <1>3, <1>4, <1>5, <1>7, <1>8 DEF TrailInv
<1>10. Grows(r)
  BY <1>1, <1>4, <1>5, <1>6, <1>7 DEF Grows, Copy
<1>11. ASSUME NEW x \in Rides, x # r PROVE TrailInv(x)' /\ Grows(x)
  <2>1. row'[x] = row[x] /\ log'[x] = log[x]
    BY <1>2, <1>11
  <2>2. Len(log[x]) \in Nat
    BY DEF TypeOK
  <2>3. TrailInv(x)'
    BY <2>1 DEF TrailInv, LegalPath
  <2>4. Grows(x)
    BY <2>1, <2>2 DEF Grows, Copy
  <2>5. QED
    BY <2>3, <2>4
<1>12. QED
  BY <1>3, <1>7, <1>9, <1>10, <1>11, <1>4

\* A ride request starts a trail; nobody held a copy of the row before.
LEMMA CreateGrows ==
  ASSUME TypeOK, \A x \in Rides : TrailInv(x), NEW r \in Rides, CreateRide(r)
  PROVE  \A x \in Rides : TrailInv(x)' /\ Grows(x)
<1> DEFINE entry == [from |-> "NONE", to |-> "CREATED", by |-> "caller"]
<1>1. /\ NewRide(now) \in Aggregates /\ NewRide(now).state = "CREATED" /\ NewRide(now).version = 0
  BY NewRideType DEF TypeOK
<1>2. row'[r] = NewRide(now) /\ log'[r] = Append(log[r], entry) /\ row[r].state = "NONE"
  BY <1>1 DEF CreateRide, Commit, TypeOK
<1>3. log[r] = <<>>
  BY <1>2 DEF TrailInv
<1>4. log'[r] = <<entry>>
  BY <1>2, <1>3
<1>5. TrailInv(r)'
  <2>1. Len(log'[r]) = 1 /\ log'[r][1].from = "NONE" /\ log'[r][1].to = "CREATED" /\ log'[r] # <<>>
    BY <1>4
  <2>2. LegalPath(log'[r])
    BY <2>1 DEF LegalPath
  <2>3. QED
    BY <1>1, <1>2, <2>1, <2>2 DEF TrailInv
<1>6. Grows(r)
  <2>1. Len(log[r]) = 0 /\ Len(log'[r]) = 1
    BY <1>3, <1>4
  <2>2. QED
    BY <1>2, <2>1 DEF Grows, Copy
<1>7. ASSUME NEW x \in Rides, x # r PROVE TrailInv(x)' /\ Grows(x)
  <2>1. row'[x] = row[x] /\ log'[x] = log[x]
    BY <1>7 DEF CreateRide, Commit, TypeOK
  <2>2. Len(log[x]) \in Nat
    BY DEF TypeOK
  <2>3. TrailInv(x)'
    BY <2>1 DEF TrailInv, LegalPath
  <2>4. Grows(x)
    BY <2>1, <2>2 DEF Grows, Copy
  <2>5. QED
    BY <2>3, <2>4
<1>8. QED
  BY <1>5, <1>6, <1>7

\* A step that leaves the two tables alone.
LEMMA KeepGrows ==
  ASSUME TypeOK, \A x \in Rides : TrailInv(x), UNCHANGED <<row, log>>
  PROVE  \A x \in Rides : TrailInv(x)' /\ Grows(x)
<1> SUFFICES ASSUME NEW x \in Rides PROVE TrailInv(x)' /\ Grows(x)
  OBVIOUS
<1>1. Len(log[x]) \in Nat
  BY DEF TypeOK
<1>2. TrailInv(x)'
  BY DEF TrailInv, LegalPath
<1>3. Grows(x)
  BY <1>1 DEF Grows, Copy
<1>4. QED
  BY <1>2, <1>3

\* A worker that another step does not touch keeps its invariant.
LEMMA WorkerKept ==
  ASSUME TypeOK, \A x \in Rides : Grows(x), NEW w \in Workers, WorkerInv(w),
         pc'[w] = pc[w], job'[w] = job[w], agg'[w] = agg[w], prev'[w] = prev[w]
  PROVE  WorkerInv(w)'
<1> DEFINE r == job[w].ride
<1>1. /\ r \in Rides /\ agg[w].version \in Int /\ agg[w].version - 1 \in Int
      /\ agg[w].version \in Nat /\ agg[w].state \in States /\ prev[w] \in States
      /\ Len(log[r]) \in Nat
  BY DEF TypeOK, Jobs, Aggregates
<1>2. pc[w] = "loaded" => Copy(r, agg[w].version, agg[w].state)'
  BY <1>1 DEF WorkerInv, Grows, Copy
<1>3. pc[w] = "saving" => Copy(r, agg[w].version - 1, prev[w])'
  BY <1>1 DEF WorkerInv, Grows, Copy
<1>4. pc[w] = "publishing" => /\ agg[w].version < Len(log'[r])
                              /\ log'[r][agg[w].version + 1] = log[r][agg[w].version + 1]
  <2> SUFFICES ASSUME pc[w] = "publishing"
               PROVE  /\ agg[w].version < Len(log'[r])
                      /\ log'[r][agg[w].version + 1] = log[r][agg[w].version + 1]
    OBVIOUS
  <2>1. agg[w].version + 1 \in 1..Len(log[r])
    BY <1>1 DEF WorkerInv
  <2>2. Len(log[r]) <= Len(log'[r]) /\ \A i \in 1..Len(log[r]) : log'[r][i] = log[r][i]
    BY <1>1 DEF Grows
  <2>3. Len(log'[r]) > agg[w].version
    BY <2>1, <2>2, <1>1
  <2>4. QED
    BY <2>1, <2>2, <2>3
<1>5. QED
  BY <1>2, <1>3, <1>4 DEF WorkerInv

\* An idle worker holds nothing.
LEMMA WorkerIdle ==
  ASSUME TypeOK, NEW w \in Workers, Finish(w)
  PROVE  WorkerInv(w)' /\ \A x \in Workers \ {w} : /\ pc'[x] = pc[x] /\ job'[x] = job[x]
                                                  /\ agg'[x] = agg[x] /\ prev'[x] = prev[x]
  BY DEF Finish, TypeOK, WorkerInv

\* The copies a sweep holds stay honest as its batch shrinks.
LEMMA SweepKept ==
  ASSUME TypeOK, \A x \in Rides : Grows(x), SweepInv,
         sweep'.batch = sweep.batch \/ (sweep.batch # <<>> /\ sweep'.batch = Tail(sweep.batch))
                                    \/ sweep'.batch = <<>>
  PROVE  SweepInv'
<1>1. sweep.batch \in Seq(Candidates)
  BY DEF TypeOK
<1>2. ASSUME NEW i \in 1..Len(sweep'.batch)
      PROVE  \E k \in 1..Len(sweep.batch) : sweep'.batch[i] = sweep.batch[k]
  <2>1. CASE sweep'.batch = sweep.batch
    BY <1>2, <2>1
  <2>2. CASE sweep.batch # <<>> /\ sweep'.batch = Tail(sweep.batch)
    <3>1. i + 1 \in 1..Len(sweep.batch) /\ Tail(sweep.batch)[i] = sweep.batch[i + 1]
      BY <1>1, <1>2, <2>2
    <3>2. QED
      BY <2>2, <3>1
  <2>3. CASE sweep'.batch = <<>>
    BY <1>2, <2>3
  <2>4. QED
    BY <2>1, <2>2, <2>3
<1>3. ASSUME NEW k \in 1..Len(sweep.batch), NEW c, c = sweep.batch[k]
      PROVE  /\ c.agg.state \in RideStates
             /\ row'[c.ride].state # "NONE" /\ c.agg.version <= row'[c.ride].version
             /\ c.agg.version = row'[c.ride].version => c.agg.state = row'[c.ride].state
  <2>0. c \in Candidates
    BY <1>1, <1>3
  <2>1. c.ride \in Rides /\ c.agg.version \in Int /\ c.agg.state \in States
    BY <2>0 DEF Candidates, Aggregates
  <2>2. Copy(c.ride, c.agg.version, c.agg.state) /\ c.agg.state \in RideStates
    BY <1>3 DEF SweepInv
  <2>3. QED
    BY <2>1, <2>2 DEF Grows, Copy
<1>4. QED
  BY <1>2, <1>3 DEF SweepInv, Copy

\* A published event stays true as trails grow.
LEMMA BusKept ==
  ASSUME TypeOK, \A x \in Rides : Grows(x), PublishedEventsWereCommitted, bus' = bus
  PROVE  PublishedEventsWereCommitted'
<1> SUFFICES ASSUME NEW e \in bus
             PROVE  /\ e.version < Len(log'[e.ride])
                    /\ log'[e.ride][e.version + 1].from = e.from
                    /\ log'[e.ride][e.version + 1].to = e.to
  BY DEF PublishedEventsWereCommitted
<1>1. e.ride \in Rides /\ e.version \in Nat /\ Len(log[e.ride]) \in Nat
  BY DEF TypeOK, Events
<1>2. /\ e.version < Len(log[e.ride]) /\ log[e.ride][e.version + 1].from = e.from
      /\ log[e.ride][e.version + 1].to = e.to
  BY DEF PublishedEventsWereCommitted
<1>3. e.version + 1 \in 1..Len(log[e.ride])
  BY <1>1, <1>2
<1>4. log'[e.ride][e.version + 1] = log[e.ride][e.version + 1] /\ Len(log[e.ride]) <= Len(log'[e.ride])
  BY <1>1, <1>3 DEF Grows
<1>5. QED
  BY <1>2, <1>4, <1>1, <1>3

-----------------------------------------------------------------------------
(* The inductive invariant.                                                *)

\* With no rides and no copies the invariant holds.
LEMMA InitInv == Init => Inv
<1> SUFFICES ASSUME Init PROVE Inv
  OBVIOUS
<1>1. TypeOK
  BY IdleTypes, BoundsAssumption DEF Init, TypeOK, States, Entries
<1>2. \A r \in Rides : TrailInv(r)
  BY DEF Init, TrailInv, LegalPath, AbsentRow
<1>3. (\A w \in Workers : WorkerInv(w)) /\ PublishedEventsWereCommitted
  BY DEF Init, WorkerInv, PublishedEventsWereCommitted
<1>4. SweepInv
  BY DEF Init, SweepInv, IdleSweep
<1>5. QED
  BY <1>1, <1>2, <1>3, <1>4 DEF Inv

\* What is left to show of a step that moves no worker and publishes nothing.
LEMMA QuietStep ==
  ASSUME Inv, TypeOK', UNCHANGED <<bus, workerVars>>,
         \A x \in Rides : TrailInv(x)' /\ Grows(x), SweepInv'
  PROVE  Inv'
<1>1. \A w \in Workers : WorkerInv(w)'
  BY WorkerKept DEF Inv, workerVars
<1>2. PublishedEventsWereCommitted'
  BY BusKept DEF Inv
<1>3. QED
  BY <1>1, <1>2 DEF Inv

\* What is left to show of a step of worker w that publishes nothing.
LEMMA WorkerStep ==
  ASSUME Inv, TypeOK', UNCHANGED <<bus, sweep>>, NEW w \in Workers, WorkerInv(w)',
         \A x \in Workers \ {w} : /\ pc'[x] = pc[x] /\ job'[x] = job[x]
                                  /\ agg'[x] = agg[x] /\ prev'[x] = prev[x],
         \A x \in Rides : TrailInv(x)' /\ Grows(x)
  PROVE  Inv'
<1>1. \A x \in Workers : WorkerInv(x)'
  BY WorkerKept DEF Inv
<1>2. PublishedEventsWereCommitted'
  BY BusKept DEF Inv
<1>3. SweepInv'
  BY SweepKept DEF Inv
<1>4. QED
  BY <1>1, <1>2, <1>3 DEF Inv

\* Every action of a worker, of the sweep, of the clock or of a crash keeps the invariant.
LEMMA StepInv == Inv /\ [Next]_vars => Inv'
<1> SUFFICES ASSUME Inv, [Next]_vars PROVE Inv'
  OBVIOUS
<1> TypeOK'
  BY TypeStep
<1>0. TypeOK /\ \A x \in Rides : TrailInv(x)
  BY DEF Inv
<1>1. ASSUME NEW r \in Rides, CreateRide(r) PROVE Inv'
  <2>1. \A x \in Rides : TrailInv(x)' /\ Grows(x)
    BY <1>0, <1>1, CreateGrows
  <2>2. SweepInv'
    BY <1>1, <2>1, SweepKept DEF Inv, CreateRide
  <2>3. QED
    BY <1>1, <2>1, <2>2, QuietStep DEF CreateRide
<1>2. ASSUME NEW w \in Workers, Request(w) PROVE Inv'
  <2>1. PICK r \in Rides, to \in RideStates, d \in Drivers \cup {NoDriver} :
             FindRide(w, r, to, d)
    BY <1>2 DEF Request
  <2>2. row[r].state \in RideStates /\ row[r].version \in Nat
    BY <1>0, <2>1 DEF FindRide, TypeOK, Aggregates, States
  <2>3. WorkerInv(w)'
    BY <1>0, <2>1, <2>2 DEF FindRide, TypeOK, WorkerInv, MayTransition, Copy
  <2>4. \A x \in Workers \ {w} : /\ pc'[x] = pc[x] /\ job'[x] = job[x]
                                 /\ agg'[x] = agg[x] /\ prev'[x] = prev[x]
    BY <1>0, <2>1 DEF FindRide, TypeOK
  <2>5. QED
    BY <1>0, <2>1, <2>3, <2>4, KeepGrows, WorkerStep DEF FindRide
<1>3. ASSUME NEW w \in Workers, ApplyTransition(w) PROVE Inv'
  <2> DEFINE a == Transitioned(agg[w], job[w].to, job[w].driver, now)
  <2>1. /\ job[w].to \in RideStates /\ job[w].driver \in Drivers \cup {NoDriver}
        /\ agg[w] \in Aggregates /\ now \in Nat /\ agg[w].version \in Nat
    BY <1>0 DEF TypeOK, Jobs, Aggregates
  <2>2. a.state = job[w].to /\ a.version = agg[w].version + 1
    BY <2>1, TransitionedType
  <2> HIDE DEF a
  <2>3. /\ pc'[w] = "saving" /\ agg'[w] = a /\ prev'[w] = agg[w].state
        /\ job' = job /\ row' = row /\ log' = log
    BY <1>0, <1>3 DEF ApplyTransition, TypeOK, a
  <2>4. /\ Copy(job[w].ride, agg[w].version, agg[w].state) /\ agg[w].state \in RideStates
        /\ CanTransition(agg[w].state, job[w].to)
    BY <1>3 DEF Inv, WorkerInv, ApplyTransition
  <2>5. WorkerInv(w)'
    BY <2>1, <2>2, <2>3, <2>4 DEF WorkerInv, Copy
  <2>6. \A x \in Workers \ {w} : /\ pc'[x] = pc[x] /\ job'[x] = job[x]
                                 /\ agg'[x] = agg[x] /\ prev'[x] = prev[x]
    BY <1>0, <1>3 DEF ApplyTransition, TypeOK
  <2>7. QED
    BY <1>0, <1>3, <2>5, <2>6, KeepGrows, WorkerStep DEF ApplyTransition
<1>4. ASSUME NEW w \in Workers, SaveRide(w) PROVE Inv'
  <2> DEFINE r == job[w].ride
             a == agg[w]
             from == prev[w]
  <2>1. /\ r \in Rides /\ a \in Aggregates /\ a.state \in RideStates /\ from \in RideStates
        /\ Copy(r, a.version - 1, from) /\ CanTransition(from, a.state)
    BY <1>0, <1>4 DEF Inv, SaveRide, WorkerInv, TypeOK, Jobs
  <2>2. VersionMatches(r, a.version) /\ Commit(r, from, a, "caller")
    BY <1>4 DEF SaveRide
  <2>3. /\ pc'[w] = "publishing" /\ job' = job /\ agg' = agg /\ prev' = prev
        /\ \A x \in Workers \ {w} : pc'[x] = pc[x]
    BY <1>0, <1>4 DEF SaveRide, TypeOK
  <2> HIDE DEF r, a, from
  <2>4. /\ \A x \in Rides : TrailInv(x)' /\ Grows(x)
        /\ a.version < Len(log'[r])
        /\ log'[r][a.version + 1].from = from
        /\ log'[r][a.version + 1].to = a.state
    BY <1>0, <2>1, <2>2, CommitGrows
  <2>5. WorkerInv(w)'
    BY <2>1, <2>3, <2>4 DEF WorkerInv, r, a, from
  <2>6. QED
    BY <1>4, <2>3, <2>4, <2>5, WorkerStep DEF SaveRide
<1>5. ASSUME NEW w \in Workers, SaveConflict(w) \/ CrashWorker(w) PROVE Inv'
  <2>1. Finish(w) /\ UNCHANGED <<row, log, bus, sweep>>
    BY <1>5 DEF SaveConflict, CrashWorker
  <2>2. QED
    BY <1>0, <2>1, WorkerIdle, KeepGrows, WorkerStep
<1>6. ASSUME NEW w \in Workers, PublishTransition(w) PROVE Inv'
  <2> DEFINE e == [ride |-> job[w].ride, version |-> agg[w].version,
                   from |-> prev[w], to |-> agg[w].state]
  <2>1. Finish(w) /\ UNCHANGED <<row, log, sweep>> /\ bus' = bus \cup {e}
    BY <1>6 DEF PublishTransition
  <2>2. /\ e.version < Len(log[e.ride])
        /\ log[e.ride][e.version + 1].from = e.from
        /\ log[e.ride][e.version + 1].to = e.to
    BY <1>6 DEF PublishTransition, Inv, WorkerInv
  <2> HIDE DEF e
  <2>3. PublishedEventsWereCommitted'
    BY <2>1, <2>2 DEF Inv, PublishedEventsWereCommitted
  <2>4. \A x \in Rides : TrailInv(x)' /\ Grows(x)
    BY <1>0, <2>1, KeepGrows
  <2>5. \A x \in Workers : WorkerInv(x)'
    BY <1>0, <2>1, <2>4, WorkerIdle, WorkerKept DEF Inv
  <2>6. SweepInv'
    BY <1>0, <2>1, <2>4, SweepKept DEF Inv
  <2>7. QED
    BY <2>3, <2>4, <2>5, <2>6 DEF Inv
<1>7. CASE StartSweep \/ EndSweep \/ CrashSweep \/ Tick \/ UNCHANGED vars
  <2>1. UNCHANGED <<row, log, bus, workerVars>>
    BY <1>7 DEF StartSweep, EndSweep, CrashSweep, Tick, vars, workerVars
  <2>2. sweep'.batch = sweep.batch \/ sweep'.batch = <<>>
    <3>1. CASE StartSweep
      BY <1>0, <3>1 DEF StartSweep, TypeOK
    <3>2. CASE EndSweep \/ CrashSweep
      BY <3>2 DEF EndSweep, CrashSweep, IdleSweep
    <3>3. CASE Tick \/ UNCHANGED vars
      BY <3>3 DEF Tick, vars
    <3>4. QED
      BY <1>7, <3>1, <3>2, <3>3
  <2>3. SweepInv'
    BY <1>0, <2>1, <2>2, KeepGrows, SweepKept DEF Inv
  <2>4. QED
    BY <1>0, <2>1, <2>3, KeepGrows, QuietStep
<1>8. CASE FindExpired
  <2>1. PICK q \in Batches(sweep.at) : sweep' = [sweep EXCEPT !.pc = "sweeping",
                  !.batch = [i \in DOMAIN q |-> [ride |-> q[i], agg |-> row[q[i]]]]]
    BY <1>8 DEF FindExpired
  <2>2. PICK n \in Nat : DOMAIN q = 1..n
    BY <1>0, BatchType DEF TypeOK
  <2>3. sweep'.batch = [i \in 1..n |-> [ride |-> q[i], agg |-> row[q[i]]]]
    BY <1>0, <2>1, <2>2 DEF TypeOK
  <2>4. /\ Len(sweep'.batch) = n
        /\ \A i \in 1..n : sweep'.batch[i].ride = q[i] /\ sweep'.batch[i].agg = row[q[i]]
    BY <2>3
  <2>5. UNCHANGED <<row, log, bus, workerVars>>
    BY <1>8 DEF FindExpired
  <2>6. ASSUME NEW i \in 1..n
        PROVE  /\ row[q[i]].state # "NONE" /\ row[q[i]].state \in RideStates
               /\ row[q[i]].version <= row[q[i]].version
    <3>1. q[i] \in Rides /\ Overdue(q[i], sweep.at)
      BY <1>0, <2>2, BatchType DEF TypeOK
    <3>2. row[q[i]].state \in RideStates
      BY <3>1, TableTypes DEF Overdue
    <3>3. row[q[i]].version \in Nat
      BY <1>0, <3>1 DEF TypeOK, Aggregates
    <3>4. QED
      BY <3>2, <3>3, TableTypes
  <2>7. SweepInv'
    BY <2>4, <2>5, <2>6 DEF SweepInv, Copy
  <2>8. QED
    BY <1>0, <2>5, <2>7, KeepGrows, QuietStep
<1>9. CASE ExpireNext
  <2> DEFINE c == Head(sweep.batch)
             a == Transitioned(c.agg, "EXPIRED", NoDriver, sweep.at)
  <2>1. sweep.batch # <<>> /\ sweep'.batch = Tail(sweep.batch) /\ UNCHANGED <<bus, workerVars>>
    BY <1>0, <1>9 DEF ExpireNext, TypeOK
  <2>2. /\ c \in Candidates /\ Copy(c.ride, c.agg.version, c.agg.state)
        /\ c.agg.state \in RideStates
    <3>1. sweep.batch \in Seq(Candidates)
      BY <1>0 DEF TypeOK
    <3>2. 1 \in 1..Len(sweep.batch) /\ c = sweep.batch[1] /\ c \in Candidates
      BY <2>1, <3>1
    <3>3. QED
      BY <3>2 DEF Inv, SweepInv
  <2>3. c.ride \in Rides /\ c.agg \in Aggregates /\ c.agg.version \in Nat
    BY <2>2 DEF Candidates, Aggregates
  <2>4. /\ \/ UNCHANGED <<row, log>>
           \/ /\ MayTransition(c.agg, "EXPIRED", NoDriver)
              /\ VersionMatches(c.ride, a.version)
              /\ Commit(c.ride, c.agg.state, a, "sweep")
    BY <1>9 DEF ExpireNext
  <2> HIDE DEF c
  <2>5. a \in Aggregates /\ a.state = "EXPIRED" /\ a.version = c.agg.version + 1
    <3>1. "EXPIRED" \in RideStates /\ NoDriver \in Drivers \cup {NoDriver} /\ sweep.at \in Nat
      BY <1>0 DEF TypeOK, RideStates
    <3>2. a \in Aggregates
      BY <2>3, <3>1, TransitionedType
    <3>3. a.state = "EXPIRED"
      BY <2>3, <3>1, TransitionedType
    <3>4. a.version = c.agg.version + 1
      BY <2>3 DEF Transitioned, Aggregates
    <3>5. QED
      BY <3>2, <3>3, <3>4
  <2> HIDE DEF a
  <2>6. \A x \in Rides : TrailInv(x)' /\ Grows(x)
    <3>1. CASE UNCHANGED <<row, log>>
      BY <1>0, <3>1, KeepGrows
    <3>2. CASE /\ MayTransition(c.agg, "EXPIRED", NoDriver)
               /\ VersionMatches(c.ride, a.version)
               /\ Commit(c.ride, c.agg.state, a, "sweep")
      <4>1. a.state \in RideStates /\ CanTransition(c.agg.state, a.state)
        BY <2>5, <3>2 DEF MayTransition, RideStates
      <4>2. Copy(c.ride, a.version - 1, c.agg.state)
        BY <2>2, <2>3, <2>5
      <4>3. QED
        BY <1>0, <2>2, <2>3, <2>5, <3>2, <4>1, <4>2, CommitGrows
    <3>3. QED
      BY <2>4, <3>1, <3>2
  <2>7. SweepInv'
    BY <1>0, <2>1, <2>6, SweepKept DEF Inv
  <2>8. QED
    BY <2>1, <2>6, <2>7, QuietStep
<1>10. QED
  BY <1>1, <1>2, <1>3, <1>4, <1>5, <1>6, <1>7, <1>8, <1>9 DEF Next, Serve, Sweep

-----------------------------------------------------------------------------
(* The theorems.                                                           *)

\* The invariant holds in every reachable state: optimistic locking by rides.version keeps
\* row, audit trail, copies and published events consistent.
THEOREM SpecInv == Spec => []Inv
  BY InitInv, StepInv, PTL DEF Spec

\* Every variable keeps its type.
THEOREM TypeCorrect == Spec => []TypeOK
<1>1. Inv => TypeOK
  BY DEF Inv
<1>2. QED
  BY SpecInv, <1>1, PTL

\* The audit trail of a ride is a legal path to its state with as many transitions as the
\* version of the row counts, for any number of rides, workers and crashes and whatever the
\* sweep finds.
THEOREM AuditTrailCorrect == Spec => []AuditTrailAccountsForRow
<1>1. Inv => AuditTrailIsLegalPath
  BY DEF Inv, TrailInv, AuditTrailIsLegalPath
<1>2. Inv => VersionCountsTransitions
  BY DEF Inv, TrailInv, VersionCountsTransitions
<1>3. QED
  BY SpecInv, <1>1, <1>2, PTL DEF AuditTrailAccountsForRow

\* What is published was committed.
THEOREM PublicationCorrect == Spec => []PublishedEventsWereCommitted
<1>1. Inv => PublishedEventsWereCommitted
  BY DEF Inv
<1>2. QED
  BY SpecInv, <1>1, PTL

=============================================================================
