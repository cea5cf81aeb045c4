-------------------------- MODULE RideExpiryProofs --------------------------
(***************************************************************************)
(* The proofs that the sweep expires overdue rides only, that a row tells  *)
(* the history its trail records, and that a lost race is answered with a  *)
(* state the ride was in.                                                  *)
(*                                                                         *)
(* The sweep judges a ride by a snapshot it took earlier, with a clock it  *)
(* read before that.  The judgement is still right when it commits: a      *)
(* deadline that was past stays past, and a row that has the version of    *)
(* the snapshot is the snapshot, deadline included.  The same holds of the *)
(* copy a request changes: if its save finds the version it expects, what  *)
(* it writes is one transition of the row as it is, at a time that comes   *)
(* after every time the row carries.                                       *)
(***************************************************************************)
EXTENDS RideLifecycleProofs

\* Every ride the sweep still holds was overdue, and is the row if its version is.
SnapshotInv ==
    /\ sweep.at <= now
    /\ \A i \in 1..Len(sweep.batch) :
          LET c == sweep.batch[i] IN
          /\ c.agg.state \in {"DISPATCHING", "ASSIGNED"}
          /\ c.agg.expiresAt <= now
          /\ c.agg.version = row[c.ride].version => c.agg = row[c.ride]

\* A commit raises the version of the row it writes.
LEMMA CommitRaises ==
  ASSUME TypeOK, NEW r \in Rides, NEW from \in States, NEW a \in Aggregates,
         NEW by \in {"caller", "sweep"}, VersionMatches(r, a.version), Commit(r, from, a, by)
  PROVE  \A x \in Rides : row'[x] = row[x] \/ row'[x].version > row[x].version
<1>1. row' = [row EXCEPT ![r] = a]
  BY DEF Commit
<1>2. row[r].version = a.version - 1 /\ row[r].version \in Nat /\ a.version \in Nat
  BY DEF VersionMatches, TypeOK, Aggregates
<1>3. QED
  BY <1>1, <1>2 DEF TypeOK

\* The snapshot the sweep takes next has the types of a ride and its copy.
LEMMA HeadType ==
  ASSUME Inv, sweep.batch # <<>>
  PROVE  /\ Head(sweep.batch) = sweep.batch[1] /\ 1 \in 1..Len(sweep.batch)
         /\ Head(sweep.batch).ride \in Rides /\ Head(sweep.batch).agg \in Aggregates
<1>1. sweep.batch \in Seq(Candidates)
  BY DEF Inv, TypeOK
<1>2. /\ Head(sweep.batch) = sweep.batch[1] /\ 1 \in 1..Len(sweep.batch)
      /\ Head(sweep.batch) \in Candidates
  BY <1>1
<1>3. QED
  BY <1>2 DEF Candidates

\* What the sweep may do with the next snapshot.
LEMMA ExpireStep ==
  ASSUME Inv, ExpireNext
  PROVE  LET c == Head(sweep.batch)
             a == Transitioned(c.agg, "EXPIRED", NoDriver, sweep.at)
         IN  \/ UNCHANGED <<row, log>>
             \/ /\ a \in Aggregates /\ a.version = c.agg.version + 1 /\ c.agg.version \in Nat
                /\ VersionMatches(c.ride, a.version)
                /\ Commit(c.ride, c.agg.state, a, "sweep")
<1> DEFINE c == Head(sweep.batch)
           a == Transitioned(c.agg, "EXPIRED", NoDriver, sweep.at)
<1>1. c.agg \in Aggregates /\ sweep.at \in Nat /\ "EXPIRED" \in RideStates
  BY HeadType DEF ExpireNext, Inv, TypeOK, RideStates
<1>2. c.agg.version \in Nat
  BY <1>1 DEF Aggregates
<1>3. \/ UNCHANGED <<row, log>>
      \/ VersionMatches(c.ride, a.version) /\ Commit(c.ride, c.agg.state, a, "sweep")
  BY DEF ExpireNext
<1> HIDE DEF c
<1>4. a \in Aggregates
  BY <1>1, TransitionedType
<1>5. a.version = c.agg.version + 1
  BY <1>1 DEF Transitioned, Aggregates
<1>6. QED
  BY <1>2, <1>3, <1>4, <1>5 DEF c

\* A row that exists stays as it is or gets a higher version.
LEMMA RowsRise ==
  ASSUME Inv, [Next]_vars
  PROVE  \A x \in Rides : \/ row[x].state = "NONE" \/ row'[x] = row[x]
                          \/ row'[x].version > row[x].version
<1> TypeOK
  BY DEF Inv
<1>1. ASSUME NEW r \in Rides, CreateRide(r)
      PROVE  \A x \in Rides : row[x].state = "NONE" \/ row'[x] = row[x]
  BY <1>1 DEF CreateRide, Commit, TypeOK
<1>2. ASSUME NEW w \in Workers, SaveRide(w)
      PROVE  \A x \in Rides : row'[x] = row[x] \/ row'[x].version > row[x].version
  <2>1. /\ job[w].ride \in Rides /\ agg[w] \in Aggregates /\ prev[w] \in States
    BY DEF TypeOK, Jobs
  <2>2. VersionMatches(job[w].ride, agg[w].version) /\ Commit(job[w].ride, prev[w], agg[w], "caller")
    BY <1>2 DEF SaveRide
  <2>3. QED
    BY <2>1, <2>2, CommitRaises
<1>3. CASE ExpireNext
  <2> DEFINE c == Head(sweep.batch)
             a == Transitioned(c.agg, "EXPIRED", NoDriver, sweep.at)
  <2>1. c.ride \in Rides /\ c.agg.state \in States
    BY <1>3, HeadType DEF ExpireNext, Aggregates
  <2>2. \/ UNCHANGED <<row, log>>
        \/ /\ a \in Aggregates /\ VersionMatches(c.ride, a.version)
           /\ Commit(c.ride, c.agg.state, a, "sweep")
    BY <1>3, ExpireStep
  <2> HIDE DEF c, a
  <2>3. QED
    BY <2>1, <2>2, CommitRaises
<1>4. ASSUME NEW w \in Workers,
             \/ Request(w) \/ ApplyTransition(w) \/ SaveConflict(w)
             \/ PublishTransition(w) \/ CrashWorker(w)
      PROVE  row' = row
  BY <1>4 DEF Request, FindRide, ApplyTransition, SaveConflict, PublishTransition, CrashWorker
<1>5. CASE StartSweep \/ FindExpired \/ EndSweep \/ CrashSweep \/ Tick \/ UNCHANGED vars
  BY <1>5 DEF StartSweep, FindExpired, EndSweep, CrashSweep, Tick, vars
<1>6. QED
  BY <1>1, <1>2, <1>3, <1>4, <1>5 DEF Next, Serve, Sweep

\* Snapshots the sweep still holds stay right.
LEMMA SnapshotsKept ==
  ASSUME Inv, Inv', SnapshotInv, [Next]_vars, now <= now', sweep'.at <= now',
         \A i \in 1..Len(sweep'.batch) : \E j \in 1..Len(sweep.batch) :
             sweep'.batch[i] = sweep.batch[j]
  PROVE  SnapshotInv'
<1> SUFFICES ASSUME NEW i \in 1..Len(sweep'.batch)
             PROVE  LET c == sweep'.batch[i] IN
                    /\ c.agg.state \in {"DISPATCHING", "ASSIGNED"}
                    /\ c.agg.expiresAt <= now'
                    /\ c.agg.version = row'[c.ride].version => c.agg = row'[c.ride]
  BY DEF SnapshotInv
<1>1. PICK j \in 1..Len(sweep.batch) : sweep'.batch[i] = sweep.batch[j]
  OBVIOUS
<1> DEFINE c == sweep.batch[j]
<1>2. sweep.batch \in Seq(Candidates) /\ now \in Nat /\ now' \in Nat
      /\ row \in [Rides -> Aggregates] /\ row' \in [Rides -> Aggregates]
  BY DEF Inv, TypeOK
<1>3. c \in Candidates
  BY <1>2
<1>4. c.ride \in Rides /\ c.agg.version \in Nat /\ c.agg.expiresAt \in Int
  BY <1>3 DEF Candidates, Aggregates, Timestamps, NoTime
<1>5. /\ row[c.ride].state # "NONE" /\ c.agg.version <= row[c.ride].version
  BY DEF Inv, SweepInv, Copy
<1>6. /\ c.agg.state \in {"DISPATCHING", "ASSIGNED"} /\ c.agg.expiresAt <= now
      /\ c.agg.version = row[c.ride].version => c.agg = row[c.ride]
  BY DEF SnapshotInv
<1> HIDE DEF c
<1>7. row'[c.ride] = row[c.ride] \/ row'[c.ride].version > row[c.ride].version
  BY <1>4, <1>5, RowsRise
<1>8. row[c.ride].version \in Nat /\ row'[c.ride].version \in Nat
  BY <1>2, <1>4 DEF Aggregates
<1>9. c.agg.expiresAt <= now'
  BY <1>2, <1>4, <1>6
<1>10. c.agg.version = row'[c.ride].version => c.agg = row'[c.ride]
  BY <1>4, <1>5, <1>6, <1>7, <1>8
<1>11. QED
  BY <1>1, <1>6, <1>9, <1>10 DEF c

\* Every step keeps what the sweep holds right.
LEMMA SnapshotStep ==
  ASSUME Inv, Inv', SnapshotInv, [Next]_vars
  PROVE  SnapshotInv'
<1>0. /\ now \in Nat /\ sweep.at \in Nat /\ sweep.batch \in Seq(Candidates)
      /\ sweep \in [pc : {"idle", "finding", "sweeping"}, at : Nat, batch : Seq(Candidates)]
      /\ sweep.at <= now
  BY DEF Inv, TypeOK, SnapshotInv
<1>1. CASE FindExpired
  <2>1. PICK q \in Batches(sweep.at) : sweep' = [sweep EXCEPT !.pc = "sweeping",
                  !.batch = [i \in DOMAIN q |-> [ride |-> q[i], agg |-> row[q[i]]]]]
    BY <1>1 DEF FindExpired
  <2>2. PICK n \in Nat : DOMAIN q = 1..n
    BY <1>0, BatchType
  <2>3. /\ sweep'.batch = [i \in 1..n |-> [ride |-> q[i], agg |-> row[q[i]]]]
        /\ sweep'.at = sweep.at
    BY <1>0, <2>1, <2>2
  <2>4. /\ Len(sweep'.batch) = n
        /\ \A i \in 1..n : sweep'.batch[i].ride = q[i] /\ sweep'.batch[i].agg = row[q[i]]
    BY <2>3
  <2>5. row' = row /\ now' = now
    BY <1>1 DEF FindExpired
  <2>6. ASSUME NEW i \in 1..n
        PROVE  /\ row[q[i]].state \in {"DISPATCHING", "ASSIGNED"}
               /\ row[q[i]].expiresAt <= now
    <3>1. q[i] \in Rides /\ Overdue(q[i], sweep.at)
      BY <1>0, <2>2, BatchType
    <3>2. row[q[i]].expiresAt \in Int
      BY <3>1 DEF Inv, TypeOK, Aggregates, Timestamps, NoTime
    <3>3. QED
      BY <1>0, <3>1, <3>2 DEF Overdue
  <2>7. QED
    BY <1>0, <2>3, <2>4, <2>5, <2>6 DEF SnapshotInv
<1>2. CASE ExpireNext
  <2>1. /\ sweep.batch # <<>> /\ sweep'.batch = Tail(sweep.batch)
        /\ sweep'.at = sweep.at /\ now' = now
    BY <1>0, <1>2 DEF ExpireNext
  <2>2. \A i \in 1..Len(sweep'.batch) : /\ i + 1 \in 1..Len(sweep.batch)
                                        /\ sweep'.batch[i] = sweep.batch[i + 1]
    BY <1>0, <2>1
  <2>3. QED
    BY <1>0, <2>1, <2>2, SnapshotsKept
<1>3. CASE StartSweep \/ EndSweep \/ CrashSweep
  <2>1. /\ now' = now /\ sweep'.at <= now
        /\ sweep'.batch = sweep.batch \/ sweep'.batch = <<>>
    <3>1. CASE StartSweep
      BY <1>0, <3>1 DEF StartSweep
    <3>2. CASE EndSweep \/ CrashSweep
      BY <1>0, <3>2 DEF EndSweep, CrashSweep, IdleSweep
    <3>3. QED
      BY <1>3, <3>1, <3>2
  <2>2. QED
    BY <1>0, <2>1, SnapshotsKept
<1>4. CASE Tick
  <2>1. sweep' = sweep /\ now' = now + 1
    BY <1>4 DEF Tick
  <2>2. QED
    BY <1>0, <2>1, SnapshotsKept
<1>5. CASE \/ \E r \in Rides : CreateRide(r)
           \/ \E w \in Workers : Request(w) \/ Serve(w) \/ CrashWorker(w)
           \/ UNCHANGED vars
  <2>1. sweep' = sweep /\ now' = now
    BY <1>5 DEF CreateRide, Request, FindRide, Serve, ApplyTransition, SaveRide, SaveConflict,
                PublishTransition, CrashWorker, vars
  <2>2. QED
    BY <1>0, <2>1, SnapshotsKept
<1>6. QED
  BY <1>1, <1>2, <1>3, <1>4, <1>5 DEF Next, Sweep

\* Snapshots are right in every reachable state.
THEOREM SnapshotsRight == Spec => [](Inv /\ SnapshotInv)
<1>1. Init => Inv /\ SnapshotInv
  BY InitInv DEF Init, IdleSweep, SnapshotInv
<1>2. Inv /\ SnapshotInv /\ [Next]_vars => (Inv /\ SnapshotInv)'
  BY StepInv, SnapshotStep
<1>3. QED
  BY <1>1, <1>2, PTL DEF Spec

\* The entry a commit appends is the last of its trail, and names its writer.
LEMMA CommitSigned ==
  ASSUME TypeOK, NEW r \in Rides, NEW from \in States, NEW a \in Aggregates,
         a.state \in RideStates, NEW by \in {"caller", "sweep"}, Commit(r, from, a, by)
  PROVE  \A x \in Rides : log'[x] # log[x] => x = r /\ log'[x][Len(log'[x])].by = by
<1> DEFINE entry == [from |-> from, to |-> a.state, by |-> by]
<1>1. entry \in Entries /\ entry.by = by
  BY DEF Entries
<1>2. log' = [log EXCEPT ![r] = Append(log[r], entry)]
  BY DEF Commit
<1>3. log[r] \in Seq(Entries) /\ Len(log[r]) \in Nat
  BY DEF TypeOK
<1> HIDE DEF entry
<1>4. log'[r] = Append(log[r], entry) /\ \A x \in Rides : x # r => log'[x] = log[x]
  BY <1>2 DEF TypeOK
<1>5. Len(log'[r]) = Len(log[r]) + 1 /\ log'[r][Len(log[r]) + 1] = entry
  BY <1>1, <1>3, <1>4
<1>6. QED
  BY <1>1, <1>4, <1>5

\* No step writes EXPIRED on the sweep's behalf over a row that is not past its deadline.
LEMMA SweepStep ==
  ASSUME Inv, SnapshotInv, [Next]_vars, NEW r \in Rides,
         log'[r] # log[r], log'[r][Len(log'[r])].by = "sweep"
  PROVE  PastDeadline(r)
<1> TypeOK
  BY DEF Inv
<1>1. ASSUME NEW x \in Rides, CreateRide(x) PROVE FALSE
  <2>1. /\ NewRide(now) \in Aggregates /\ NewRide(now).state \in RideStates /\ "NONE" \in States
    BY NewRideType DEF TypeOK, RideStates, States
  <2>2. Commit(x, "NONE", NewRide(now), "caller")
    BY <1>1 DEF CreateRide
  <2>3. log'[r][Len(log'[r])].by = "caller"
    BY <2>1, <2>2, CommitSigned
  <2>4. QED
    BY <2>3
<1>2. ASSUME NEW w \in Workers, SaveRide(w) PROVE FALSE
  <2>1. /\ job[w].ride \in Rides /\ agg[w] \in Aggregates /\ prev[w] \in States
        /\ agg[w].state \in RideStates
    BY <1>2 DEF TypeOK, Jobs, Inv, WorkerInv, SaveRide
  <2>2. Commit(job[w].ride, prev[w], agg[w], "caller")
    BY <1>2 DEF SaveRide
  <2>3. log'[r][Len(log'[r])].by = "caller"
    BY <2>1, <2>2, CommitSigned
  <2>4. QED
    BY <2>3
<1>3. CASE ExpireNext
  <2> DEFINE c == Head(sweep.batch)
             a == Transitioned(c.agg, "EXPIRED", NoDriver, sweep.at)
  <2>1. /\ c = sweep.batch[1] /\ 1 \in 1..Len(sweep.batch)
        /\ c.ride \in Rides /\ c.agg \in Aggregates
    BY <1>3, HeadType DEF ExpireNext
  <2>2. /\ a \in Aggregates /\ a.version = c.agg.version + 1 /\ c.agg.version \in Nat
        /\ VersionMatches(c.ride, a.version) /\ Commit(c.ride, c.agg.state, a, "sweep")
    BY <1>3, ExpireStep
  <2>3. a.state = "EXPIRED" /\ a.state \in RideStates /\ c.agg.state \in States
    BY <2>1 DEF Transitioned, Aggregates, RideStates
  <2>4. /\ c.agg.state \in {"DISPATCHING", "ASSIGNED"} /\ c.agg.expiresAt <= now
        /\ c.agg.version = row[c.ride].version => c.agg = row[c.ride]
    BY <2>1 DEF SnapshotInv
  <2> HIDE DEF c, a
  <2>5. r = c.ride
    BY <2>1, <2>2, <2>3, CommitSigned
  <2>6. row[r].version \in Nat
    BY DEF TypeOK, Aggregates
  <2>7. c.agg = row[r]
    BY <2>2, <2>4, <2>5, <2>6 DEF VersionMatches
  <2>8. QED
    BY <2>4, <2>7 DEF PastDeadline
<1>4. ASSUME NEW w \in Workers,
             \/ Request(w) \/ ApplyTransition(w) \/ SaveConflict(w)
             \/ PublishTransition(w) \/ CrashWorker(w)
      PROVE  FALSE
  BY <1>4 DEF Request, FindRide, ApplyTransition, SaveConflict, PublishTransition, CrashWorker
<1>5. CASE StartSweep \/ FindExpired \/ EndSweep \/ CrashSweep \/ Tick \/ UNCHANGED vars
  BY <1>5 DEF StartSweep, FindExpired, EndSweep, CrashSweep, Tick, vars
<1>6. QED
  BY <1>1, <1>2, <1>3, <1>4, <1>5 DEF Next, Serve, Sweep

\* The sweep expires a ride only if the row it overwrites is past its deadline, although it
\* judged an old snapshot by an old clock and anything may have happened since.
THEOREM ExpiryCorrect == Spec => SweepExpiresOnlyOverdueRides
<1>1. Inv /\ SnapshotInv /\ [Next]_vars =>
          [\A r \in Rides : log'[r] # log[r] /\ log'[r][Len(log'[r])].by = "sweep"
                                => PastDeadline(r)]_vars
  BY SweepStep
<1>2. QED
  BY SnapshotsRight, <1>1, PTL DEF Spec, SweepExpiresOnlyOverdueRides

-----------------------------------------------------------------------------
(* The row and the history it tells.                                       *)

\* The columns of row a agree with trail q; RowTellsItsHistory says so of every row.
Tells(a, q) ==
    /\ a.driver # NoDriver <=> \E i \in DOMAIN q : q[i].to = "ASSIGNED"
    /\ a.startedAt # NoTime <=> \E i \in DOMAIN q : q[i].to = "STARTED"
    /\ a.completedAt # NoTime <=> a.state \in TerminalStates
    /\ a.expiresAt # NoTime <=> a.state \in {"DISPATCHING", "ASSIGNED"}
    /\ a.startedAt # NoTime => a.requestedAt <= a.startedAt
    /\ a.completedAt # NoTime => a.requestedAt <= a.completedAt /\ a.startedAt <= a.completedAt

\* A ride that did not start has no start, no timestamp is in the future, and a deadline comes
\* after the request.
Dated(a) ==
    /\ a.state \in {"NONE", "CREATED", "DISPATCHING", "ASSIGNED"} => a.startedAt = NoTime
    /\ a.requestedAt <= now /\ a.startedAt <= now
    /\ a.expiresAt # NoTime => a.requestedAt <= a.expiresAt

RowInv(r) == Tells(row[r], log[r]) /\ Dated(row[r])

\* A time at which row a may change.
Later(a, t) == a.requestedAt <= t /\ a.startedAt <= t

\* What worker w holds is the row, or the row after the transition, if its version matches; and
\* the conflict it may have to report names a state that is in the trail.
HeldInv(w) ==
    LET r == job[w].ride
        a == agg[w]
    IN  /\ pc[w] \in {"loaded", "saving"} /\ job[w].to = "ASSIGNED" => job[w].driver # NoDriver
        /\ pc[w] = "loaded" /\ a.version = row[r].version => a = row[r]
        /\ pc[w] = "saving" /\ a.version = row[r].version + 1 =>
               \E t \in 0..now : /\ Later(row[r], t)
                                  /\ a = Transitioned(row[r], job[w].to, job[w].driver, t)
        /\ pc[w] = "saving" => \E i \in DOMAIN log[r] : i >= a.version /\ log[r][i].to = seen[w]

\* The sweep judges by its own clock.
JudgedInv == \A i \in 1..Len(sweep.batch) : sweep.batch[i].agg.expiresAt <= sweep.at

HistoryInv == /\ \A r \in Rides : RowInv(r)
              /\ \A w \in Workers : HeldInv(w)
              /\ JudgedInv

\* The edges of the table, as far as they decide what a column holds.
LEMMA TableEdges ==
  /\ TerminalStates = {"COMPLETED", "CANCELED", "EXPIRED", "FAILED"}
  /\ \A from, to \in RideStates : CanTransition(from, to) =>
        /\ from \in {"CREATED", "DISPATCHING", "ASSIGNED", "STARTED"}
        /\ to # "CREATED"
        /\ to \in {"DISPATCHING", "ASSIGNED"} => from \in {"CREATED", "DISPATCHING"}
<1>1. /\ RideTransitions["CREATED"] = {"DISPATCHING", "CANCELED", "EXPIRED", "FAILED"}
      /\ RideTransitions["DISPATCHING"] = {"ASSIGNED", "CANCELED", "EXPIRED", "FAILED"}
      /\ RideTransitions["ASSIGNED"] = {"STARTED", "CANCELED", "EXPIRED", "FAILED"}
      /\ RideTransitions["STARTED"] = {"COMPLETED", "FAILED"}
      /\ RideTransitions["COMPLETED"] = {} /\ RideTransitions["CANCELED"] = {}
      /\ RideTransitions["EXPIRED"] = {} /\ RideTransitions["FAILED"] = {}
  BY DEF RideTransitions, RideStates
<1>2. ASSUME NEW s \in RideStates
      PROVE  RideTransitions[s] = {} <=> s \in {"COMPLETED", "CANCELED", "EXPIRED", "FAILED"}
  BY <1>1 DEF RideStates
<1>3. TerminalStates = {"COMPLETED", "CANCELED", "EXPIRED", "FAILED"}
  BY <1>2 DEF TerminalStates, IsTerminalState, RideStates
<1>4. ASSUME NEW from \in RideStates, NEW to \in RideStates, CanTransition(from, to)
      PROVE  /\ from \in {"CREATED", "DISPATCHING", "ASSIGNED", "STARTED"}
             /\ to # "CREATED"
             /\ to \in {"DISPATCHING", "ASSIGNED"} => from \in {"CREATED", "DISPATCHING"}
  BY <1>1, <1>4 DEF CanTransition, RideStates
<1>5. QED
  BY <1>3, <1>4

\* The columns of an aggregate after a transition.
LEMMA TransitionedFields ==
  ASSUME NEW a \in Aggregates, NEW to, NEW d, NEW t
  PROVE  LET b == Transitioned(a, to, d, t) IN
         /\ b.state = to /\ b.requestedAt = a.requestedAt /\ b.expiresAt = Deadline(to, t)
         /\ b.driver = IF to = "ASSIGNED" THEN d ELSE a.driver
         /\ b.startedAt = IF to = "STARTED" THEN t ELSE a.startedAt
         /\ b.completedAt = IF to \in TerminalStates THEN t ELSE a.completedAt
  BY DEF Transitioned, Aggregates

\* A deadline is there exactly in the states that wait, and comes later.
LEMMA Deadlines ==
  ASSUME NEW to, NEW t \in Nat
  PROVE  /\ Deadline(to, t) # NoTime <=> to \in {"DISPATCHING", "ASSIGNED"}
         /\ Deadline(to, t) # NoTime => t <= Deadline(to, t)
  BY PolicyAssumption DEF Deadline, NoTime

\* A transition of the row, with its entry, leaves the row telling the longer trail.
LEMMA TransitionTells ==
  ASSUME TypeOK, NEW r \in Rides, RowInv(r), NEW to \in RideStates, NEW d, NEW t \in Nat,
         row[r].state \in RideStates, CanTransition(row[r].state, to),
         to = "ASSIGNED" => d # NoDriver, Later(row[r], t), t <= now, now' = now,
         NEW from \in States, NEW by \in {"caller", "sweep"}, NEW b,
         b = Transitioned(row[r], to, d, t), Commit(r, from, b, by)
  PROVE  RowInv(r)'
<1> DEFINE a == row[r]
           q == log[r]
           entry == [from |-> from, to |-> to, by |-> by]
<1>1. a \in Aggregates /\ q \in Seq(Entries) /\ now \in Nat
  BY DEF TypeOK
<1>2. /\ a.requestedAt \in Int /\ a.startedAt \in Int /\ a.completedAt \in Int
  BY <1>1 DEF Aggregates, Timestamps, NoTime
<1>3. /\ b.state = to /\ b.requestedAt = a.requestedAt /\ b.expiresAt = Deadline(to, t)
      /\ b.driver = IF to = "ASSIGNED" THEN d ELSE a.driver
      /\ b.startedAt = IF to = "STARTED" THEN t ELSE a.startedAt
      /\ b.completedAt = IF to \in TerminalStates THEN t ELSE a.completedAt
  BY <1>1, TransitionedFields
<1>4. row'[r] = b /\ log'[r] = Append(q, entry)
  BY <1>3 DEF Commit, TypeOK
<1>5. /\ a.state \in {"CREATED", "DISPATCHING", "ASSIGNED", "STARTED"} /\ to # "CREATED"
      /\ to \in {"DISPATCHING", "ASSIGNED"} => a.state \in {"CREATED", "DISPATCHING"}
      /\ TerminalStates = {"COMPLETED", "CANCELED", "EXPIRED", "FAILED"}
  BY TableEdges
<1>6. entry \in Entries /\ entry.to = to
  BY DEF Entries
<1> HIDE DEF entry
<1>7. \A s : (\E i \in DOMAIN log'[r] : log'[r][i].to = s)
                <=> s = to \/ \E i \in DOMAIN q : q[i].to = s
  <2>1. /\ DOMAIN log'[r] = 1..(Len(q) + 1) /\ DOMAIN q = 1..Len(q) /\ Len(q) \in Nat
        /\ log'[r][Len(q) + 1] = entry /\ \A i \in 1..Len(q) : log'[r][i] = q[i]
    BY <1>1, <1>4, <1>6
  <2>2. QED
    BY <1>6, <2>1
<1>8. Tells(a, q) /\ Dated(a)
  BY DEF RowInv
<1> HIDE DEF a, q
<1>9. a.completedAt = NoTime
  BY <1>5, <1>8 DEF Tells
<1>10. t # NoTime /\ a.requestedAt <= t /\ a.startedAt <= t
  BY DEF NoTime, Later, a
<1>11. Tells(b, log'[r])
  <2>1. b.driver # NoDriver <=> \E i \in DOMAIN log'[r] : log'[r][i].to = "ASSIGNED"
    BY <1>3, <1>7, <1>8 DEF Tells
  <2>2. b.startedAt # NoTime <=> \E i \in DOMAIN log'[r] : log'[r][i].to = "STARTED"
    BY <1>3, <1>7, <1>8, <1>10 DEF Tells
  <2>3. b.completedAt # NoTime <=> b.state \in TerminalStates
    BY <1>3, <1>9, <1>10
  <2>4. b.expiresAt # NoTime <=> b.state \in {"DISPATCHING", "ASSIGNED"}
    BY <1>3, Deadlines
  <2>5. b.startedAt # NoTime => b.requestedAt <= b.startedAt
    BY <1>3, <1>8, <1>10 DEF Tells
  <2>6. b.completedAt # NoTime => b.requestedAt <= b.completedAt /\ b.startedAt <= b.completedAt
    <3>1. SUFFICES ASSUME b.completedAt # NoTime PROVE b.completedAt = t /\ b.startedAt = a.startedAt
      BY <1>3, <1>10
    <3>2. to \in TerminalStates
      BY <1>3, <1>9, <3>1
    <3>3. QED
      BY <1>3, <1>5, <3>2
  <2>7. QED
    BY <2>1, <2>2, <2>3, <2>4, <2>5, <2>6 DEF Tells
<1>12. Dated(b)
  <2>1. b.state \in {"NONE", "CREATED", "DISPATCHING", "ASSIGNED"} => b.startedAt = NoTime
    <3>1. "NONE" \notin RideStates
      BY TableTypes
    <3>2. SUFFICES ASSUME to \in {"DISPATCHING", "ASSIGNED"} PROVE a.startedAt = NoTime /\ to # "STARTED"
      BY <1>3, <1>5, <3>1
    <3>3. QED
      BY <1>5, <1>8, <3>2 DEF Dated
  <2>2. b.requestedAt <= now /\ b.startedAt <= now
    BY <1>3, <1>8 DEF Dated
  <2>3. b.expiresAt # NoTime => b.requestedAt <= b.expiresAt
    <3>1. SUFFICES ASSUME Deadline(to, t) # NoTime PROVE a.requestedAt <= Deadline(to, t)
      BY <1>3
    <3>2. t <= Deadline(to, t) /\ Deadline(to, t) \in Int
      BY <3>1, Deadlines, PolicyAssumption DEF Deadline, NoTime
    <3>3. QED
      BY <1>2, <1>10, <3>2 DEF a
  <2>4. QED
    BY <2>1, <2>2, <2>3 DEF Dated
<1>13. QED
  BY <1>4, <1>11, <1>12 DEF RowInv, Tells, Dated

\* The row and the trail of a ride request.
LEMMA CreateTells ==
  ASSUME TypeOK, NEW r \in Rides, log[r] = <<>>, CreateRide(r)
  PROVE  RowInv(r)'
<1> DEFINE a == NewRide(now)
           entry == [from |-> "NONE", to |-> "CREATED", by |-> "caller"]
<1>1. now \in Nat /\ now' = now
  BY DEF TypeOK, CreateRide
<1>2. /\ a.state = "CREATED" /\ a.driver = NoDriver /\ a.requestedAt = now
      /\ a.startedAt = NoTime /\ a.completedAt = NoTime /\ a.expiresAt = NoTime
  BY DEF NewRide, AbsentRow
<1>3. row'[r] = a /\ log'[r] = Append(log[r], entry)
  BY <1>2 DEF CreateRide, Commit, TypeOK
<1>4. log'[r] = <<entry>> /\ entry.to = "CREATED"
  BY <1>3
<1> HIDE DEF a, entry
<1>5. DOMAIN log'[r] = {1} /\ log'[r][1].to = "CREATED"
  BY <1>4
<1>6. Tells(a, log'[r])
  <2>1. "CREATED" \notin TerminalStates
    BY TableEdges
  <2>2. QED
    BY <1>2, <1>5, <2>1 DEF Tells
<1>7. a.requestedAt <= now' /\ a.startedAt <= now'
  BY <1>1, <1>2 DEF NoTime
<1>8. QED
  BY <1>2, <1>3, <1>6, <1>7 DEF RowInv, Dated, Tells

\* A row that is left alone keeps telling its trail while the clock runs.
LEMMA RowKept ==
  ASSUME TypeOK, NEW r \in Rides, RowInv(r), row'[r] = row[r], log'[r] = log[r],
         now' \in Nat, now <= now'
  PROVE  RowInv(r)'
<1>1. now \in Int /\ now' \in Int /\ row[r].requestedAt \in Int /\ row[r].startedAt \in Int
  BY DEF TypeOK, Aggregates, Timestamps, NoTime
<1>2. Tells(row[r], log[r])'
  BY DEF RowInv, Tells
<1>3. Dated(row[r])'
  BY <1>1 DEF RowInv, Dated
<1>4. QED
  BY <1>2, <1>3 DEF RowInv

\* Trails only grow.
LEMMA TrailsRise ==
  ASSUME Inv, [Next]_vars, NEW x \in Rides
  PROVE  \A i \in DOMAIN log[x] : i \in DOMAIN log'[x] /\ log'[x][i] = log[x][i]
<1> DEFINE Kept == \A i \in DOMAIN log[x] : i \in DOMAIN log'[x] /\ log'[x][i] = log[x][i]
<1> SUFFICES Kept
  OBVIOUS
<1>0. TypeOK /\ log[x] \in Seq(Entries)
  BY DEF Inv, TypeOK
<1>1. ASSUME NEW r \in Rides, NEW from \in States, NEW a \in Aggregates,
             a.state \in RideStates, NEW by \in {"caller", "sweep"}, Commit(r, from, a, by)
      PROVE  Kept
  <2> DEFINE entry == [from |-> from, to |-> a.state, by |-> by]
  <2>1. entry \in Entries
    BY <1>1 DEF Entries
  <2>2. log'[x] = IF x = r THEN Append(log[x], entry) ELSE log[x]
    BY <1>0, <1>1 DEF Commit, TypeOK
  <2> HIDE DEF entry
  <2>3. QED
    BY <1>0, <2>1, <2>2
<1> HIDE DEF Kept
<1>2. ASSUME log' = log PROVE Kept
  BY <1>2 DEF Kept
<1>3. ASSUME NEW r \in Rides, CreateRide(r) PROVE Kept
  <2>1. /\ NewRide(now) \in Aggregates /\ NewRide(now).state \in RideStates /\ "NONE" \in States
    BY <1>0, NewRideType DEF TypeOK, RideStates, States
  <2>2. Commit(r, "NONE", NewRide(now), "caller")
    BY <1>3 DEF CreateRide
  <2>3. QED
    BY <1>1, <2>1, <2>2
<1>4. ASSUME NEW w \in Workers, SaveRide(w) PROVE Kept
  <2>1. /\ job[w].ride \in Rides /\ agg[w] \in Aggregates /\ prev[w] \in States
        /\ agg[w].state \in RideStates
    BY <1>0, <1>4 DEF TypeOK, Jobs, Inv, WorkerInv, SaveRide
  <2>2. Commit(job[w].ride, prev[w], agg[w], "caller")
    BY <1>4 DEF SaveRide
  <2>3. QED
    BY <1>1, <2>1, <2>2
<1>5. CASE ExpireNext
  <2> DEFINE c == Head(sweep.batch)
             a == Transitioned(c.agg, "EXPIRED", NoDriver, sweep.at)
  <2>1. c.ride \in Rides /\ c.agg.state \in States /\ c.agg \in Aggregates
    BY <1>5, HeadType DEF ExpireNext, Aggregates
  <2>2. a.state \in RideStates
    BY <2>1 DEF Transitioned, Aggregates, RideStates
  <2>3. \/ UNCHANGED <<row, log>>
        \/ a \in Aggregates /\ Commit(c.ride, c.agg.state, a, "sweep")
    BY <1>5, ExpireStep
  <2> HIDE DEF c, a
  <2>4. QED
    BY <1>1, <1>2, <2>1, <2>2, <2>3
<1>6. ASSUME NEW w \in Workers,
             \/ Request(w) \/ ApplyTransition(w) \/ SaveConflict(w)
             \/ PublishTransition(w) \/ CrashWorker(w)
      PROVE  Kept
  BY <1>2, <1>6 DEF Request, FindRide, ApplyTransition, SaveConflict, PublishTransition, CrashWorker
<1>7. CASE StartSweep \/ FindExpired \/ EndSweep \/ CrashSweep \/ Tick \/ UNCHANGED vars
  BY <1>2, <1>7 DEF StartSweep, FindExpired, EndSweep, CrashSweep, Tick, vars
<1>8. QED
  BY <1>3, <1>4, <1>5, <1>6, <1>7 DEF Next, Serve, Sweep

\* What a worker holds stays right while others move.
LEMMA HeldKept ==
  ASSUME Inv, [Next]_vars, NEW w \in Workers, HeldInv(w), now' \in Nat, now <= now',
         pc'[w] = pc[w], job'[w] = job[w], agg'[w] = agg[w], seen'[w] = seen[w]
  PROVE  HeldInv(w)'
<1> DEFINE r == job[w].ride
           a == agg[w]
<1>1. /\ r \in Rides /\ a \in Aggregates /\ row \in [Rides -> Aggregates] /\ now \in Nat
      /\ a.version \in Nat /\ row[r].version \in Nat
  BY DEF Inv, TypeOK, Jobs, Aggregates
<1>2. WorkerInv(w)
  BY DEF Inv
<1>3. \/ row[r].state = "NONE" \/ row'[r] = row[r] \/ row'[r].version > row[r].version
  BY <1>1, RowsRise
<1>4. row'[r] = row[r] \/ row'[r].version \in Int
  <2>1. TypeOK'
    BY TypeStep
  <2>2. QED
    BY <1>1, <2>1 DEF TypeOK, Aggregates
<1>5. pc[w] \in {"loaded", "saving"} /\ job[w].to = "ASSIGNED" => job[w].driver # NoDriver
  BY DEF HeldInv
<1>6. pc[w] = "loaded" /\ a.version = row'[r].version => a = row'[r]
  <2>1. SUFFICES ASSUME pc[w] = "loaded", a.version = row'[r].version PROVE a = row'[r]
    OBVIOUS
  <2>2. row[r].state # "NONE" /\ a.version <= row[r].version
    BY <1>2, <2>1 DEF WorkerInv, Copy
  <2>3. row'[r] = row[r]
    BY <1>1, <1>3, <1>4, <2>1, <2>2
  <2>4. QED
    BY <2>1, <2>3 DEF HeldInv
<1>7. pc[w] = "saving" /\ a.version = row'[r].version + 1 =>
          \E t \in 0..now' : /\ Later(row'[r], t)
                             /\ a = Transitioned(row'[r], job[w].to, job[w].driver, t)
  <2>1. SUFFICES ASSUME pc[w] = "saving", a.version = row'[r].version + 1
                 PROVE  \E t \in 0..now' :
                            /\ Later(row'[r], t)
                            /\ a = Transitioned(row'[r], job[w].to, job[w].driver, t)
    OBVIOUS
  <2>2. row[r].state # "NONE" /\ a.version - 1 <= row[r].version
    BY <1>2, <2>1 DEF WorkerInv, Copy
  <2>3. row'[r] = row[r]
    BY <1>1, <1>3, <1>4, <2>1, <2>2
  <2>4. PICK t \in 0..now : /\ Later(row[r], t)
                            /\ a = Transitioned(row[r], job[w].to, job[w].driver, t)
    BY <2>1, <2>3 DEF HeldInv
  <2>5. t \in 0..now'
    BY <1>1
  <2>6. QED
    BY <2>3, <2>4, <2>5
<1>8. pc[w] = "saving" => \E i \in DOMAIN log'[r] : i >= a.version /\ log'[r][i].to = seen[w]
  BY <1>1, TrailsRise DEF HeldInv
<1>9. QED
  BY <1>5, <1>6, <1>7, <1>8 DEF HeldInv, Later

\* What is left to show of a step of the history.
LEMMA HistoryStep ==
  ASSUME Inv, HistoryInv, [Next]_vars, now' \in Nat, now <= now',
         \A r \in Rides : RowInv(r)' \/ (row'[r] = row[r] /\ log'[r] = log[r]),
         \A w \in Workers : \/ HeldInv(w)'
                            \/ /\ pc'[w] = pc[w] /\ job'[w] = job[w]
                               /\ agg'[w] = agg[w] /\ seen'[w] = seen[w],
         JudgedInv'
  PROVE  HistoryInv'
<1>1. \A r \in Rides : RowInv(r)'
  BY RowKept DEF Inv, HistoryInv
<1>2. \A w \in Workers : HeldInv(w)'
  BY HeldKept DEF HistoryInv
<1>3. QED
  BY <1>1, <1>2 DEF HistoryInv

\* The next snapshot of the sweep, if it is committed, is the row, and due by the sweep's clock.
LEMMA ExpireTells ==
  ASSUME Inv, HistoryInv, SnapshotInv, ExpireNext
  PROVE  \A r \in Rides : RowInv(r)' \/ (row'[r] = row[r] /\ log'[r] = log[r])
<1> DEFINE c == Head(sweep.batch)
           a == Transitioned(c.agg, "EXPIRED", NoDriver, sweep.at)
           t == sweep.at
<1>1. /\ TypeOK /\ c = sweep.batch[1] /\ 1 \in 1..Len(sweep.batch)
      /\ c.ride \in Rides /\ c.agg \in Aggregates /\ now' = now
      /\ t \in Nat /\ now \in Nat
  BY HeadType DEF ExpireNext, Inv, TypeOK
<1>2. CASE UNCHANGED <<row, log>>
  BY <1>2
<1>3. CASE /\ a.version = c.agg.version + 1 /\ c.agg.version \in Nat
           /\ VersionMatches(c.ride, a.version)
           /\ Commit(c.ride, c.agg.state, a, "sweep")
  <2>1. /\ c.agg.state \in {"DISPATCHING", "ASSIGNED"}
        /\ c.agg.version = row[c.ride].version => c.agg = row[c.ride]
        /\ c.agg.expiresAt <= t /\ t <= now
    BY <1>1 DEF SnapshotInv, HistoryInv, JudgedInv
  <2> HIDE DEF c, a, t
  <2>0. PICK r \in Rides : r = c.ride
    BY <1>1
  <2>2. row[r].version \in Nat /\ row[r] \in Aggregates
    BY <1>1 DEF TypeOK, Aggregates
  <2>3. c.agg = row[r]
    BY <1>3, <2>0, <2>1, <2>2 DEF VersionMatches
  <2>4. RowInv(r)
    BY <1>1 DEF HistoryInv
  <2>5. Later(row[r], t)
    <3>1. /\ row[r].requestedAt \in Int /\ row[r].expiresAt \in Int
      BY <2>2 DEF Aggregates, Timestamps, NoTime
    <3>2. row[r].expiresAt # NoTime /\ row[r].startedAt = NoTime
      BY <2>1, <2>3, <2>4 DEF RowInv, Tells, Dated
    <3>3. row[r].requestedAt <= row[r].expiresAt /\ row[r].expiresAt <= t
      BY <2>1, <2>3, <2>4, <3>2 DEF RowInv, Dated
    <3>4. QED
      BY <1>1, <3>1, <3>2, <3>3 DEF Later, NoTime
  <2>6. /\ "EXPIRED" \in RideStates /\ row[r].state \in RideStates
        /\ CanTransition(row[r].state, "EXPIRED") /\ c.agg.state \in States
    BY <2>1, <2>3 DEF CanTransition, RideTransitions, RideStates, States
  <2>7. a = Transitioned(row[r], "EXPIRED", NoDriver, t)
    BY <2>3 DEF a, t
  <2>8. RowInv(r)'
    <3>1. t \in Nat /\ t <= now /\ now' = now /\ TypeOK /\ Commit(r, c.agg.state, a, "sweep")
      BY <1>1, <1>3, <2>0, <2>1 DEF t
    <3>2. "EXPIRED" = "ASSIGNED" => NoDriver # NoDriver
      OBVIOUS
    <3>3. "sweep" \in {"caller", "sweep"}
      OBVIOUS
    <3>4. QED
      BY <2>4, <2>5, <2>6, <2>7, <3>1, <3>2, <3>3, TransitionTells
  <2>9. \A x \in Rides : x # r => row'[x] = row[x] /\ log'[x] = log[x]
    BY <1>1, <1>3, <2>0 DEF Commit, TypeOK
  <2>10. QED
    BY <2>8, <2>9
<1>4. QED
  BY <1>2, <1>3, ExpireStep

\* A request whose save finds its version commits one transition of the row as it is.
LEMMA SaveTells ==
  ASSUME Inv, HistoryInv, NEW w \in Workers, SaveRide(w)
  PROVE  \A r \in Rides : RowInv(r)' \/ (row'[r] = row[r] /\ log'[r] = log[r])
<1> DEFINE a == agg[w]
<1>0. PICK r \in Rides : r = job[w].ride
  BY DEF Inv, TypeOK, Jobs
<1>1. /\ TypeOK /\ a.version \in Nat /\ row[r].version \in Nat /\ now \in Nat
      /\ row[r] \in Aggregates /\ job[w].to \in RideStates /\ prev[w] \in States
  BY DEF Inv, TypeOK, Jobs, Aggregates
<1>2. /\ pc[w] = "saving" /\ VersionMatches(r, a.version) /\ Commit(r, prev[w], a, "caller")
      /\ now' = now
  BY <1>0 DEF SaveRide
<1>3. a.version = row[r].version + 1
  BY <1>1, <1>2 DEF VersionMatches
<1>4. /\ job[w].to = "ASSIGNED" => job[w].driver # NoDriver
      /\ \E t \in 0..now : /\ Later(row[r], t)
                           /\ a = Transitioned(row[r], job[w].to, job[w].driver, t)
  BY <1>0, <1>2, <1>3 DEF HistoryInv, HeldInv
<1>5. PICK t \in 0..now : /\ Later(row[r], t)
                          /\ a = Transitioned(row[r], job[w].to, job[w].driver, t)
  BY <1>4
<1>6. t \in Nat /\ t <= now
  BY <1>1
<1>7. /\ Copy(r, a.version - 1, prev[w]) /\ prev[w] \in RideStates
      /\ CanTransition(prev[w], a.state)
  BY <1>0, <1>2 DEF Inv, WorkerInv
<1>8. prev[w] = row[r].state
  BY <1>1, <1>3, <1>7 DEF Copy
<1>9. a.state = job[w].to
  BY <1>1, <1>5, TransitionedFields
<1>10. RowInv(r)
  BY <1>1 DEF HistoryInv
<1> HIDE DEF a
<1>11. RowInv(r)'
  <2>1. row[r].state \in RideStates /\ CanTransition(row[r].state, job[w].to)
    BY <1>7, <1>8, <1>9
  <2>2. "caller" \in {"caller", "sweep"}
    OBVIOUS
  <2>3. QED
    BY <1>1, <1>2, <1>4, <1>5, <1>6, <1>10, <2>1, <2>2, TransitionTells
<1>12. \A x \in Rides : x # r => row'[x] = row[x] /\ log'[x] = log[x]
  BY <1>1, <1>2 DEF Commit, TypeOK
<1>13. QED
  BY <1>11, <1>12

\* A worker that asks, or applies its transition, holds the row as it is.
LEMMA RequestHolds ==
  ASSUME Inv, NEW w \in Workers, Request(w)
  PROVE  HeldInv(w)'
<1>1. PICK r \in Rides, to \in RideStates, d \in Drivers \cup {NoDriver} : FindRide(w, r, to, d)
  BY DEF Request
<1>2. /\ pc'[w] = "loaded" /\ job'[w] = [ride |-> r, to |-> to, driver |-> d]
      /\ agg'[w] = row[r] /\ row' = row
  BY <1>1 DEF FindRide, Inv, TypeOK
<1>3. to = "ASSIGNED" => d # NoDriver
  BY <1>1 DEF FindRide, MayTransition
<1>4. job'[w].ride = r /\ job'[w].to = to /\ job'[w].driver = d
  BY <1>2
<1>5. QED
  BY <1>2, <1>3, <1>4 DEF HeldInv

\* A worker that applies its transition holds the row after it, or a version that has lost.
LEMMA ApplyHolds ==
  ASSUME Inv, HistoryInv, NEW w \in Workers, ApplyTransition(w)
  PROVE  HeldInv(w)'
<1> DEFINE r == job[w].ride
           a == Transitioned(agg[w], job[w].to, job[w].driver, now)
<1>1. /\ TypeOK /\ pc[w] = "loaded" /\ r \in Rides /\ agg[w] \in Aggregates /\ now \in Nat
      /\ row[r] \in Aggregates /\ agg[w].version \in Nat /\ row[r].version \in Nat
      /\ job[w].to \in RideStates /\ job[w].driver \in Drivers \cup {NoDriver}
      /\ log[r] \in Seq(Entries)
  BY DEF ApplyTransition, Inv, TypeOK, Jobs, Aggregates
<1>2. /\ pc'[w] = "saving" /\ job' = job /\ agg'[w] = a /\ seen'[w] = row[r].state
      /\ row' = row /\ log' = log /\ now' = now
  BY <1>1 DEF ApplyTransition, TypeOK
<1>3. a.version = agg[w].version + 1
  BY <1>1 DEF Transitioned, Aggregates
<1>4. HeldInv(w) /\ RowInv(r) /\ WorkerInv(w) /\ TrailInv(r)
  BY <1>1 DEF Inv, HistoryInv
<1>5. job[w].to = "ASSIGNED" => job[w].driver # NoDriver
  BY <1>1, <1>4 DEF HeldInv
<1>6. a.version = row[r].version + 1 =>
          \E t \in 0..now : /\ Later(row[r], t)
                            /\ a = Transitioned(row[r], job[w].to, job[w].driver, t)
  <2>1. SUFFICES ASSUME a.version = row[r].version + 1
                 PROVE  /\ now \in 0..now /\ Later(row[r], now)
                        /\ a = Transitioned(row[r], job[w].to, job[w].driver, now)
    OBVIOUS
  <2>2. agg[w].version = row[r].version
    BY <1>1, <1>3, <2>1
  <2>3. agg[w] = row[r]
    BY <1>1, <1>4, <2>2 DEF HeldInv
  <2>4. Later(row[r], now)
    BY <1>4 DEF RowInv, Dated, Later
  <2>5. QED
    BY <1>1, <2>3, <2>4
<1>7. \E i \in DOMAIN log[r] : i >= a.version /\ log[r][i].to = row[r].state
  <2>1. row[r].state # "NONE" /\ agg[w].version <= row[r].version
    BY <1>1, <1>4 DEF WorkerInv, Copy
  <2>2. log[r] # <<>> /\ row[r].version = Len(log[r]) - 1 /\ log[r][Len(log[r])].to = row[r].state
    BY <1>4, <2>1 DEF TrailInv
  <2>3. Len(log[r]) \in DOMAIN log[r] /\ Len(log[r]) \in Nat
    BY <1>1, <2>2
  <2>4. Len(log[r]) >= a.version
    BY <1>1, <1>3, <2>1, <2>2, <2>3
  <2>5. QED
    BY <2>2, <2>3, <2>4
<1> HIDE DEF a
<1>8. QED
  BY <1>2, <1>5, <1>6, <1>7 DEF HeldInv, Later

\* A worker that is done holds nothing; the others are left alone.
LEMMA FinishHolds ==
  ASSUME TypeOK, NEW w \in Workers, Finish(w)
  PROVE  /\ HeldInv(w)'
         /\ \A x \in Workers \ {w} : /\ pc'[x] = pc[x] /\ job'[x] = job[x]
                                     /\ agg'[x] = agg[x] /\ seen'[x] = seen[x]
<1>1. pc'[w] = "idle"
  BY DEF Finish, TypeOK
<1>2. HeldInv(w)'
  BY <1>1 DEF HeldInv
<1>3. QED
  BY <1>2 DEF Finish, TypeOK

\* Every step keeps the rows telling their history.
LEMMA HistoryNext ==
  ASSUME Inv, SnapshotInv, HistoryInv, [Next]_vars
  PROVE  HistoryInv'
<1> DEFINE RowsTell == \A r \in Rides : RowInv(r)' \/ (row'[r] = row[r] /\ log'[r] = log[r])
           Kept(w) == /\ pc'[w] = pc[w] /\ job'[w] = job[w]
                      /\ agg'[w] = agg[w] /\ seen'[w] = seen[w]
           WorkersHold == \A w \in Workers : HeldInv(w)' \/ Kept(w)
           Moves == RowsTell /\ WorkersHold /\ JudgedInv' /\ now' \in Nat /\ now <= now'
<1>0. TypeOK /\ now \in Nat /\ JudgedInv
  BY DEF Inv, TypeOK, HistoryInv
<1> SUFFICES Moves
  BY HistoryStep
<1>1. ASSUME sweep' = sweep PROVE JudgedInv'
  BY <1>0, <1>1 DEF JudgedInv
<1>2. ASSUME row' = row, log' = log PROVE RowsTell
  BY <1>2
<1>3. ASSUME UNCHANGED workerVars PROVE WorkersHold
  BY <1>3 DEF workerVars
<1> HIDE DEF RowsTell, WorkersHold
<1>4. ASSUME NEW r \in Rides, CreateRide(r) PROVE Moves
  <2>1. row[r].state = "NONE" /\ Commit(r, "NONE", NewRide(now), "caller")
        /\ now' = now /\ sweep' = sweep /\ UNCHANGED workerVars
    BY <1>4 DEF CreateRide
  <2>2. log[r] = <<>>
    BY <2>1, TableTypes DEF Inv, TrailInv, TypeOK
  <2>3. RowInv(r)'
    BY <1>0, <1>4, <2>2, CreateTells
  <2>4. RowsTell
    BY <1>0, <2>1, <2>3 DEF RowsTell, Commit, TypeOK
  <2>5. QED
    BY <1>0, <1>1, <1>3, <2>1, <2>4
<1>5. ASSUME NEW w \in Workers, Request(w) PROVE Moves
  <2>1. PICK r \in Rides, to \in RideStates, d \in Drivers \cup {NoDriver} : FindRide(w, r, to, d)
    BY <1>5 DEF Request
  <2>2. /\ row' = row /\ log' = log /\ sweep' = sweep /\ now' = now
        /\ \A x \in Workers \ {w} : Kept(x)
    BY <1>0, <2>1 DEF FindRide, TypeOK
  <2>3. HeldInv(w)'
    BY <1>5, RequestHolds
  <2>4. WorkersHold
    BY <2>2, <2>3 DEF WorkersHold
  <2>5. QED
    BY <1>0, <1>1, <1>2, <2>2, <2>4
<1>6. ASSUME NEW w \in Workers, ApplyTransition(w) PROVE Moves
  <2>1. /\ row' = row /\ log' = log /\ sweep' = sweep /\ now' = now
        /\ \A x \in Workers \ {w} : Kept(x)
    BY <1>0, <1>6 DEF ApplyTransition, TypeOK
  <2>2. HeldInv(w)'
    BY <1>6, ApplyHolds
  <2>3. WorkersHold
    BY <2>1, <2>2 DEF WorkersHold
  <2>4. QED
    BY <1>0, <1>1, <1>2, <2>1, <2>3
<1>7. ASSUME NEW w \in Workers, SaveRide(w) PROVE Moves
  <2>1. /\ sweep' = sweep /\ now' = now /\ pc'[w] = "publishing"
        /\ \A x \in Workers \ {w} : Kept(x)
    BY <1>0, <1>7 DEF SaveRide, TypeOK
  <2>2. RowsTell
    BY <1>7, SaveTells DEF RowsTell
  <2>3. HeldInv(w)'
    BY <2>1 DEF HeldInv
  <2>4. WorkersHold
    BY <2>1, <2>3 DEF WorkersHold
  <2>5. QED
    BY <1>0, <1>1, <2>1, <2>2, <2>4
<1>8. ASSUME NEW w \in Workers, SaveConflict(w) \/ PublishTransition(w) \/ CrashWorker(w)
      PROVE  Moves
  <2>1. /\ Finish(w) /\ row' = row /\ log' = log /\ sweep' = sweep /\ now' = now
    BY <1>8 DEF SaveConflict, PublishTransition, CrashWorker
  <2>2. WorkersHold
    BY <1>0, <2>1, FinishHolds DEF WorkersHold
  <2>3. QED
    BY <1>0, <1>1, <1>2, <2>1, <2>2
<1>9. CASE FindExpired
  <2>1. PICK q \in Batches(sweep.at) : sweep' = [sweep EXCEPT !.pc = "sweeping",
                  !.batch = [i \in DOMAIN q |-> [ride |-> q[i], agg |-> row[q[i]]]]]
    BY <1>9 DEF FindExpired
  <2>2. /\ sweep.at \in Nat
        /\ sweep \in [pc : {"idle", "finding", "sweeping"}, at : Nat, batch : Seq(Candidates)]
    BY <1>0 DEF TypeOK
  <2>3. PICK n \in Nat : DOMAIN q = 1..n
    BY <2>2, BatchType
  <2>4. /\ sweep'.batch = [i \in 1..n |-> [ride |-> q[i], agg |-> row[q[i]]]]
        /\ sweep'.at = sweep.at
    BY <2>1, <2>2, <2>3
  <2>5. Len(sweep'.batch) = n /\ \A i \in 1..n : sweep'.batch[i].agg = row[q[i]]
    BY <2>4
  <2>6. \A i \in 1..n : row[q[i]].expiresAt <= sweep.at
    BY <2>2, <2>3, BatchType DEF Overdue
  <2>7. JudgedInv'
    BY <2>4, <2>5, <2>6 DEF JudgedInv
  <2>8. row' = row /\ log' = log /\ now' = now /\ UNCHANGED workerVars
    BY <1>9 DEF FindExpired
  <2>9. QED
    BY <1>0, <1>2, <1>3, <2>7, <2>8
<1>10. CASE ExpireNext
  <2>1. /\ sweep.batch # <<>> /\ sweep' = [sweep EXCEPT !.batch = Tail(@)]
        /\ now' = now /\ UNCHANGED workerVars
    BY <1>10 DEF ExpireNext
  <2>2. sweep'.batch = Tail(sweep.batch) /\ sweep'.at = sweep.at /\ sweep.batch \in Seq(Candidates)
    BY <1>0, <2>1 DEF TypeOK
  <2>3. \A i \in 1..Len(sweep'.batch) : /\ i + 1 \in 1..Len(sweep.batch)
                                        /\ sweep'.batch[i] = sweep.batch[i + 1]
    BY <2>1, <2>2
  <2>4. JudgedInv'
    BY <1>0, <2>2, <2>3 DEF JudgedInv
  <2>5. RowsTell
    BY <1>10, ExpireTells DEF RowsTell
  <2>6. QED
    BY <1>0, <1>3, <2>1, <2>4, <2>5
<1>11. CASE StartSweep
  <2>1. /\ sweep.pc = "idle" /\ sweep' = [sweep EXCEPT !.pc = "finding", !.at = now]
        /\ row' = row /\ log' = log /\ now' = now /\ UNCHANGED workerVars
    BY <1>11 DEF StartSweep
  <2>2. sweep'.at = now /\ sweep'.batch = sweep.batch
    BY <1>0, <2>1 DEF TypeOK
  <2>3. \A i \in 1..Len(sweep.batch) : sweep.batch[i].agg.expiresAt <= now
    BY DEF SnapshotInv
  <2>4. JudgedInv'
    BY <2>2, <2>3 DEF JudgedInv
  <2>5. QED
    BY <1>0, <1>2, <1>3, <2>1, <2>4
<1>12. CASE EndSweep \/ CrashSweep
  <2>1. /\ sweep'.batch = <<>> /\ row' = row /\ log' = log /\ now' = now /\ UNCHANGED workerVars
    BY <1>12 DEF EndSweep, CrashSweep, IdleSweep
  <2>2. JudgedInv'
    BY <2>1 DEF JudgedInv
  <2>3. QED
    BY <1>0, <1>2, <1>3, <2>1, <2>2
<1>13. CASE Tick \/ UNCHANGED vars
  <2>1. /\ now' = now + 1 \/ now' = now
        /\ row' = row /\ log' = log /\ sweep' = sweep /\ UNCHANGED workerVars
    BY <1>13 DEF Tick, vars, workerVars
  <2>2. QED
    BY <1>0, <1>1, <1>2, <1>3, <2>1
<1>14. QED
  BY <1>4, <1>5, <1>6, <1>7, <1>8, <1>9, <1>10, <1>11, <1>12, <1>13 DEF Next, Serve, Sweep

\* In every reachable state the rows tell their history and workers hold what they may save.
THEOREM HistoryKept == Spec => [](Inv /\ HistoryInv)
<1>1. Init => HistoryInv
  <2> SUFFICES ASSUME Init PROVE HistoryInv
    OBVIOUS
  <2>1. \A r \in Rides : RowInv(r)
    <3>1. "NONE" \notin TerminalStates
      BY TableEdges
    <3>2. QED
      BY <3>1 DEF Init, RowInv, Tells, Dated, AbsentRow, NoTime
  <2>2. \A w \in Workers : HeldInv(w)
    BY DEF Init, HeldInv
  <2>3. JudgedInv
    BY DEF Init, IdleSweep, JudgedInv
  <2>4. QED
    BY <2>1, <2>2, <2>3 DEF HistoryInv
<1>2. Inv /\ SnapshotInv /\ HistoryInv /\ [Next]_vars => HistoryInv'
  BY HistoryNext
<1>3. QED
  BY <1>1, <1>2, SnapshotsRight, PTL DEF Spec

\* The columns of a row, set by different branches on different copies of it by writers with
\* clocks of their own, agree with the whole audit trail of the ride.
THEOREM HistoryCorrect == Spec => []RowTellsItsHistory
<1>1. HistoryInv => RowTellsItsHistory
  BY DEF HistoryInv, RowInv, Tells, RowTellsItsHistory, WasIn
<1>2. QED
  BY <1>1, HistoryKept, PTL

\* A request that lost its race is answered with a state the ride was in since its read, though
\* the state it names was read in one transaction and the race was lost in a later step.
THEOREM ConflictCorrect == Spec => ConflictNamesAStateSinceItsRead
<1>1. HistoryInv /\ [Next]_vars =>
          [\A w \in Workers : SaveConflict(w) =>
              \E i \in DOMAIN log[job[w].ride] : /\ i >= agg[w].version
                                                 /\ log[job[w].ride][i].to = seen[w]]_vars
  BY DEF HistoryInv, HeldInv, SaveConflict
<1>2. QED
  BY <1>1, HistoryKept, PTL DEF Spec, ConflictNamesAStateSinceItsRead
=============================================================================
