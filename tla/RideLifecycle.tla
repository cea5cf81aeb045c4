---------------------------- MODULE RideLifecycle ----------------------------
(***************************************************************************)
(* The rides module: the Ride aggregate, its optimistic-locking            *)
(* repository and the two use cases that move a ride, run concurrently.    *)
(*                                                                         *)
(*  - A worker is one TransitionRide request in flight (the transitions    *)
(*    route, or dispatch through rideAssignmentPort).  It awaits the       *)
(*    database three times: it loads the row, re-reads it inside the save  *)
(*    transaction, and updates it if the version has not moved.  Anything  *)
(*    may happen between two awaits.                                       *)
(*  - The sweep is one ExpireStaleRides run: it fixes its clock, reads a   *)
(*    batch of overdue rows and expires them one at a time.                *)
(*                                                                         *)
(* row is the rides table, log the ride_transitions table, bus what was    *)
(* published on the in-process event bus.  A database transaction is one   *)
(* step at its UPDATE: the row lock makes the rest of it invisible.        *)
(***************************************************************************)
EXTENDS Integers, Sequences, FiniteSets, RideStateTable

CONSTANTS Rides,                    \* ride ids the creation route may generate
          Drivers,                  \* drivers a caller may name
          Workers,                  \* TransitionRide requests that overlap
          NoDriver,                 \* rides.driver_id IS NULL
          ExpirationPolicySeconds,  \* seconds a ride may stay DISPATCHING or ASSIGNED
          BatchSize,                \* rides one sweep takes
          MaxTime,                  \* bound: the clock stops here
          MaxCrashes                \* bound: processes lost in one behaviour

ASSUME RidesAssumption   == Rides # {} /\ IsFiniteSet(Rides)
ASSUME DriverAssumption  == NoDriver \notin Drivers
ASSUME PolicyAssumption  == ExpirationPolicySeconds \in [{"DISPATCHING", "ASSIGNED"} -> Nat \ {0}]
ASSUME BatchAssumption   == BatchSize \in Nat \ {0}
ASSUME BoundsAssumption  == MaxTime \in Nat /\ MaxCrashes \in Nat

NoTime == -1                        \* a timestamp column that IS NULL

VARIABLES row,      \* row[r]: the row of ride r in table rides
          log,      \* log[r]: the rows of ride r in table ride_transitions, in order
          bus,      \* RideStateChanged events handed to the event bus
          pc,       \* pc[w]: the await worker w is suspended at
          job,      \* job[w]: the request worker w serves
          agg,      \* agg[w]: the Ride aggregate in worker w's memory
          prev,     \* prev[w]: previousState in the event that aggregate recorded
          seen,     \* seen[w]: state of the row re-read by the save transaction
          sweep,    \* the ExpireStaleRides run in flight
          now,      \* the clock
          crashes   \* processes lost so far

vars == <<row, log, bus, pc, job, agg, prev, seen, sweep, now, crashes>>
workerVars == <<pc, job, agg, prev, seen>>

Timestamps == Nat \cup {NoTime}
States == RideStates \cup {"NONE"}      \* "NONE": no row yet

Aggregates == [state : States, version : Nat, driver : Drivers \cup {NoDriver},
               requestedAt : Timestamps, startedAt : Timestamps,
               completedAt : Timestamps, expiresAt : Timestamps]

AbsentRow == [state |-> "NONE", version |-> 0, driver |-> NoDriver, requestedAt |-> NoTime,
              startedAt |-> NoTime, completedAt |-> NoTime, expiresAt |-> NoTime]

Jobs == [ride : Rides, to : RideStates, driver : Drivers \cup {NoDriver}]
IdleJob == [ride |-> CHOOSE r \in Rides : TRUE, to |-> "CREATED", driver |-> NoDriver]

Entries == [from : States, to : RideStates, by : {"caller", "sweep"}]
Events == [ride : Rides, version : Nat, from : States, to : RideStates]
Candidates == [ride : Rides, agg : Aggregates]
IdleSweep == [pc |-> "idle", at |-> 0, batch |-> <<>>]

Init == /\ row = [r \in Rides |-> AbsentRow]
        /\ log = [r \in Rides |-> <<>>]
        /\ bus = {}
        /\ pc = [w \in Workers |-> "idle"]
        /\ job = [w \in Workers |-> IdleJob]
        /\ agg = [w \in Workers |-> AbsentRow]
        /\ prev = [w \in Workers |-> "NONE"]
        /\ seen = [w \in Workers |-> "NONE"]
        /\ sweep = IdleSweep
        /\ now = 0
        /\ crashes = 0

-----------------------------------------------------------------------------
(* The aggregate.                                                          *)

\* The aggregate a ride request creates.
NewRide(t) == [AbsentRow EXCEPT !.state = "CREATED", !.requestedAt = t]

\* Mutant of MayTransition: only the terminal check is left.
MayTransitionAnywhere(a, to, d) == /\ ~IsTerminalState(a.state)
                                   /\ to = "ASSIGNED" => d # NoDriver

\* May aggregate a make the requested transition?
MayTransition(a, to, d) == /\ ~IsTerminalState(a.state)
                           /\ CanTransition(a.state, to)
                           /\ to = "ASSIGNED" => d # NoDriver

\* Mutant of Deadline: the wait is subtracted.
DeadlineBackwards(to, t) == IF to \in {"DISPATCHING", "ASSIGNED"}
                            THEN t - ExpirationPolicySeconds[to]
                            ELSE NoTime

\* Deadline of a ride that enters state `to` at time t.
Deadline(to, t) == IF to \in {"DISPATCHING", "ASSIGNED"}
                   THEN t + ExpirationPolicySeconds[to]
                   ELSE NoTime

\* Mutants of Transitioned: driverId of the request is always taken over, or a deadline
\* is replaced but never cleared.
TransitionedAnyDriver(a, to, d, t) ==
    [a EXCEPT !.state       = to,
              !.version     = @ + 1,
              !.driver      = d,
              !.startedAt   = IF to = "STARTED" THEN t ELSE @,
              !.completedAt = IF to \in TerminalStates THEN t ELSE @,
              !.expiresAt   = Deadline(to, t)]
TransitionedStaleDeadline(a, to, d, t) ==
    [a EXCEPT !.state       = to,
              !.version     = @ + 1,
              !.driver      = IF to = "ASSIGNED" THEN d ELSE @,
              !.startedAt   = IF to = "STARTED" THEN t ELSE @,
              !.completedAt = IF to \in TerminalStates THEN t ELSE @,
              !.expiresAt   = IF Deadline(to, t) = NoTime THEN @ ELSE Deadline(to, t)]

\* Aggregate a after its transition to state `to` at time t.
Transitioned(a, to, d, t) ==
    [a EXCEPT !.state       = to,
              !.version     = @ + 1,
              !.driver      = IF to = "ASSIGNED" THEN d ELSE @,
              !.startedAt   = IF to = "STARTED" THEN t ELSE @,
              !.completedAt = IF to \in TerminalStates THEN t ELSE @,
              !.expiresAt   = Deadline(to, t)]

-----------------------------------------------------------------------------
(* The repository.                                                         *)

\* Mutant of VersionMatches: UPDATE ... WHERE id = r.
AnyVersion(r, v) == TRUE

\* UPDATE ... WHERE id = r AND version = v - 1 finds the row.
VersionMatches(r, v) == row[r].version = v - 1

\* Mutant of Commit: the sweep updates the row and leaves no audit row.
CommitUnaudited(r, from, a, by) ==
    /\ row' = [row EXCEPT ![r] = a]
    /\ log' = IF by = "sweep"
              THEN log
              ELSE [log EXCEPT ![r] = Append(@, [from |-> from, to |-> a.state, by |-> by])]

\* The UPDATE to aggregate a and the audit row of the change, in one transaction.
Commit(r, from, a, by) ==
    /\ row' = [row EXCEPT ![r] = a]
    /\ log' = [log EXCEPT ![r] = Append(@, [from |-> from, to |-> a.state, by |-> by])]

\* Mutant of Overdue: rides that wait for a driver are forgotten.
OverdueAssigned(r, t) == /\ row[r].state = "ASSIGNED"
                         /\ row[r].expiresAt # NoTime
                         /\ row[r].expiresAt <= t

\* The WHERE clause of findExpired.
Overdue(r, t) == /\ row[r].state \in {"DISPATCHING", "ASSIGNED"}
                 /\ row[r].expiresAt # NoTime
                 /\ row[r].expiresAt <= t

\* The batches findExpired may return: at most BatchSize rows, oldest deadline first.
Batches(t) ==
    LET S == {r \in Rides : Overdue(r, t)}
        n == IF Cardinality(S) < BatchSize THEN Cardinality(S) ELSE BatchSize
        Taken(q) == {q[i] : i \in 1..n}
    IN {q \in [1..n -> S] :
          /\ \A i, j \in 1..n : i < j => /\ q[i] # q[j]
                                         /\ row[q[i]].expiresAt <= row[q[j]].expiresAt
          /\ \A r \in S \ Taken(q), i \in 1..n : row[q[i]].expiresAt <= row[r].expiresAt}

-----------------------------------------------------------------------------
(* Requests.                                                               *)

\* CreateRide: the id is fresh, so the row and its first audit entry are inserted.
CreateRide(r) == /\ row[r].state = "NONE"
                 /\ Commit(r, "NONE", NewRide(now), "caller")
                 /\ UNCHANGED <<bus, workerVars, sweep, now, crashes>>

\* Worker w has answered its caller, or died: its memory is gone.
Finish(w) == /\ pc' = [pc EXCEPT ![w] = "idle"]
             /\ job' = [job EXCEPT ![w] = IdleJob]
             /\ agg' = [agg EXCEPT ![w] = AbsentRow]
             /\ prev' = [prev EXCEPT ![w] = "NONE"]
             /\ seen' = [seen EXCEPT ![w] = "NONE"]

\* findById returns the row of ride r.  The guards of Ride.transition depend on this row
\* alone: a request they refuse, or one for an unknown ride, is answered and changes nothing.
FindRide(w, r, to, d) ==
    /\ pc[w] = "idle"
    /\ row[r].state # "NONE"
    /\ MayTransition(row[r], to, d)
    /\ pc' = [pc EXCEPT ![w] = "loaded"]
    /\ job' = [job EXCEPT ![w] = [ride |-> r, to |-> to, driver |-> d]]
    /\ agg' = [agg EXCEPT ![w] = row[r]]
    /\ UNCHANGED <<row, log, bus, prev, seen, sweep, now, crashes>>

\* Mutant of ApplyTransition: the conflict will name the state that was asked for.
ApplyTransitionNamingTarget(w) ==
    LET j == job[w] IN
    /\ pc[w] = "loaded"
    /\ pc' = [pc EXCEPT ![w] = "saving"]
    /\ agg' = [agg EXCEPT ![w] = Transitioned(@, j.to, j.driver, now)]
    /\ prev' = [prev EXCEPT ![w] = agg[w].state]
    /\ seen' = [seen EXCEPT ![w] = j.to]
    /\ UNCHANGED <<row, log, bus, job, sweep, now, crashes>>

\* The aggregate makes the transition in memory and save re-reads the row.
ApplyTransition(w) ==
    LET j == job[w] IN
    /\ pc[w] = "loaded"
    /\ pc' = [pc EXCEPT ![w] = "saving"]
    /\ agg' = [agg EXCEPT ![w] = Transitioned(@, j.to, j.driver, now)]
    /\ prev' = [prev EXCEPT ![w] = agg[w].state]
    /\ seen' = [seen EXCEPT ![w] = row[j.ride].state]
    /\ UNCHANGED <<row, log, bus, job, sweep, now, crashes>>

\* The version still matches: the row and the audit entry are committed.
SaveRide(w) ==
    LET r == job[w].ride IN
    /\ pc[w] = "saving"
    /\ VersionMatches(r, agg[w].version)
    /\ Commit(r, prev[w], agg[w], "caller")
    /\ pc' = [pc EXCEPT ![w] = "publishing"]
    /\ UNCHANGED <<bus, job, agg, prev, seen, sweep, now, crashes>>

\* Another writer was faster: roll back and answer with a conflict that carries seen[w].
SaveConflict(w) ==
    /\ pc[w] = "saving"
    /\ ~VersionMatches(job[w].ride, agg[w].version)
    /\ Finish(w)
    /\ UNCHANGED <<row, log, bus, sweep, now, crashes>>

\* Mutant of PublishTransition: the event is published before the save.
PublishBeforeSave(w) ==
    /\ pc[w] = "saving"
    /\ bus' = bus \cup {[ride |-> job[w].ride, version |-> agg[w].version,
                         from |-> prev[w], to |-> agg[w].state]}
    /\ UNCHANGED <<row, log, workerVars, sweep, now, crashes>>

\* After the commit the event goes to the bus and the caller is answered.
PublishTransition(w) ==
    /\ pc[w] = "publishing"
    /\ bus' = bus \cup {[ride |-> job[w].ride, version |-> agg[w].version,
                         from |-> prev[w], to |-> agg[w].state]}
    /\ Finish(w)
    /\ UNCHANGED <<row, log, sweep, now, crashes>>

\* The process dies, or the database fails and the open transaction rolls back.
CrashWorker(w) == /\ pc[w] # "idle"
                  /\ crashes < MaxCrashes
                  /\ crashes' = crashes + 1
                  /\ Finish(w)
                  /\ UNCHANGED <<row, log, bus, sweep, now>>

-----------------------------------------------------------------------------
(* The expiry sweep.                                                       *)

\* execute: the sweep reads its clock once.
StartSweep == /\ sweep.pc = "idle"
              /\ sweep' = [sweep EXCEPT !.pc = "finding", !.at = now]
              /\ UNCHANGED <<row, log, bus, workerVars, now, crashes>>

\* findExpired returns a batch of snapshots.
FindExpired == /\ sweep.pc = "finding"
               /\ \E q \in Batches(sweep.at) :
                     sweep' = [sweep EXCEPT !.pc = "sweeping",
                                 !.batch = [i \in DOMAIN q |-> [ride |-> q[i], agg |-> row[q[i]]]]]
               /\ UNCHANGED <<row, log, bus, workerVars, now, crashes>>

\* The next snapshot of the batch expires, unless its row has moved on.
ExpireNext == /\ sweep.pc = "sweeping"
              /\ sweep.batch # <<>>
              /\ LET c == Head(sweep.batch)
                     a == Transitioned(c.agg, "EXPIRED", NoDriver, sweep.at)
                 IN IF /\ MayTransition(c.agg, "EXPIRED", NoDriver)
                       /\ VersionMatches(c.ride, a.version)
                    THEN Commit(c.ride, c.agg.state, a, "sweep")
                    ELSE UNCHANGED <<row, log>>
              /\ sweep' = [sweep EXCEPT !.batch = Tail(@)]
              /\ UNCHANGED <<bus, workerVars, now, crashes>>

EndSweep == /\ sweep.pc = "sweeping"
            /\ sweep.batch = <<>>
            /\ sweep' = IdleSweep
            /\ UNCHANGED <<row, log, bus, workerVars, now, crashes>>

CrashSweep == /\ sweep.pc # "idle"
              /\ crashes < MaxCrashes
              /\ crashes' = crashes + 1
              /\ sweep' = IdleSweep
              /\ UNCHANGED <<row, log, bus, workerVars, now>>

Tick == /\ now < MaxTime
        /\ now' = now + 1
        /\ UNCHANGED <<row, log, bus, workerVars, sweep, crashes>>

-----------------------------------------------------------------------------

\* driverId is read only by a transition to ASSIGNED.
Request(w) == \E r \in Rides, to \in RideStates :
                 \E d \in IF to = "ASSIGNED" THEN Drivers \cup {NoDriver} ELSE {NoDriver} :
                    FindRide(w, r, to, d)

Serve(w) == \/ ApplyTransition(w) \/ SaveRide(w)
            \/ SaveConflict(w) \/ PublishTransition(w)

Sweep == StartSweep \/ FindExpired \/ ExpireNext \/ EndSweep

Next == \/ \E r \in Rides : CreateRide(r)
        \/ \E w \in Workers : Request(w) \/ Serve(w) \/ CrashWorker(w)
        \/ Sweep \/ CrashSweep \/ Tick

Spec == Init /\ [][Next]_vars

\* Requests in flight are served, the clock runs and a scheduler keeps starting sweeps.
ScheduledSpec == /\ Spec
                 /\ \A w \in Workers : WF_vars(Serve(w))
                 /\ WF_vars(Sweep)
                 /\ WF_vars(Tick)

-----------------------------------------------------------------------------
(* Properties.                                                             *)

\* Every variable holds a value of the kind the code keeps in it.
TypeOK ==
    /\ row \in [Rides -> Aggregates]
    /\ log \in [Rides -> Seq(Entries)]
    /\ bus \subseteq Events
    /\ pc \in [Workers -> {"idle", "loaded", "saving", "publishing"}]
    /\ job \in [Workers -> Jobs]
    /\ agg \in [Workers -> Aggregates]
    /\ prev \in [Workers -> States]
    /\ seen \in [Workers -> States]
    /\ sweep \in [pc : {"idle", "finding", "sweeping"}, at : Nat, batch : Seq(Candidates)]
    /\ now \in Nat
    /\ crashes \in Nat

\* The entries of an audit trail q form a legal path: it starts at the request, each
\* entry leaves the state the one before it entered, along an edge of the table.
LegalPath(q) == /\ q # <<>> => q[1].from = "NONE" /\ q[1].to = "CREATED"
                /\ \A i \in 2..Len(q) : /\ q[i].from = q[i-1].to
                                        /\ CanTransition(q[i].from, q[i].to)

\* The audit trail of a ride is a legal path to the state its row is in, however the
\* requests and sweeps that wrote them overlapped: no lost update, no invented step.
AuditTrailIsLegalPath ==
    \A r \in Rides : /\ LegalPath(log[r])
                     /\ row[r].state = IF log[r] = <<>> THEN "NONE" ELSE log[r][Len(log[r])].to

\* rides.version counts the transitions of the audit trail: each committed change, by
\* whichever writer, moved the version by one and left one audit row.
VersionCountsTransitions ==
    \A r \in Rides : log[r] # <<>> => row[r].version = Len(log[r]) - 1

\* The audit trail accounts for the row: the path it tells and the number of its steps are the
\* state and the version that overlapping writers have brought the row to.
AuditTrailAccountsForRow == AuditTrailIsLegalPath /\ VersionCountsTransitions

\* An event on the bus tells of a change that was committed: the audit row of that
\* version says the same, so no subscriber acts on a transition that was rolled back.
PublishedEventsWereCommitted ==
    \A e \in bus : /\ e.version < Len(log[e.ride])
                   /\ log[e.ride][e.version + 1].from = e.from
                   /\ log[e.ride][e.version + 1].to = e.to

\* The audit trail of ride r has a transition into state s.
WasIn(r, s) == \E i \in DOMAIN log[r] : log[r][i].to = s

\* The columns that different branches of transition set on different copies of the row agree
\* with the whole trail: a ride has a driver exactly when it was ASSIGNED at some time, a start
\* exactly when it was STARTED, an end exactly when it is over, a deadline exactly while it
\* waits, and the timestamps are in order though two writers read the clock.
RowTellsItsHistory ==
    \A r \in Rides : LET a == row[r] IN
        /\ a.driver # NoDriver <=> WasIn(r, "ASSIGNED")
        /\ a.startedAt # NoTime <=> WasIn(r, "STARTED")
        /\ a.completedAt # NoTime <=> a.state \in TerminalStates
        /\ a.expiresAt # NoTime <=> a.state \in {"DISPATCHING", "ASSIGNED"}
        /\ a.startedAt # NoTime => a.requestedAt <= a.startedAt
        /\ a.completedAt # NoTime => a.requestedAt <= a.completedAt /\ a.startedAt <= a.completedAt

\* The row of ride r is past the deadline it carries.
PastDeadline(r) == /\ row[r].state \in {"DISPATCHING", "ASSIGNED"}
                   /\ row[r].expiresAt <= now

\* The sweep expires a ride only if the row it overwrites is past its deadline: a ride that
\* was assigned or started after the sweep read it is left alone.
SweepExpiresOnlyOverdueRides ==
    [][\A r \in Rides :
          log'[r] # log[r] /\ log'[r][Len(log'[r])].by = "sweep" => PastDeadline(r)]_vars

\* A ride past its deadline does not stay in the state that has it.
OverdueRidesLeave ==
    \A r \in Rides : PastDeadline(r) ~> ~PastDeadline(r)

\* A request that lost its race is told a state the ride has really been in since the request
\* read it: maybe not the present one, but never an older one or the one it asked for.
ConflictNamesAStateSinceItsRead ==
    [][\A w \in Workers : SaveConflict(w) =>
          \E i \in DOMAIN log[job[w].ride] : /\ i >= agg[w].version
                                             /\ log[job[w].ride][i].to = seen[w]]_vars

\* The ride state machine of the PRD, with the audit trail as its history.
Abstract == INSTANCE RideStateMachine
                WITH state <- [r \in Rides |-> row[r].state],
                     trail <- [r \in Rides |-> [i \in DOMAIN log[r] |-> log[r][i].to]]

\* Every run of workers, sweeps and crashes is a run of the ride state machine.
ImplementsStateMachine == Abstract!Spec
=============================================================================
