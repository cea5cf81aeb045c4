--------------------------- MODULE DriverDispatch ---------------------------
(***************************************************************************)
(* The dispatch saga over the driver table: concurrent dispatch requests,  *)
(* the requests of the drivers' own apps and restarts of the process.      *)
(*                                                                         *)
(* A saga checks candidates of the geo index, reserves the nearest         *)
(* eligible one by compare-and-swap on drivers.version, moves the ride to  *)
(* ASSIGNED, and releases the driver again if the ride refuses.  Driver    *)
(* rows survive a restart; the geo index, the saga store and the requests  *)
(* in flight do not.                                                       *)
(*                                                                         *)
(* Abstracted: where drivers are.  A search may find any of the indexed    *)
(* drivers in any order, and misses those out of the radius or with an     *)
(* old location.  Of a ride the saga sees whether it waits for a driver,   *)
(* has one or is over: RideLifecycle shows that a transition is one step.  *)
(***************************************************************************)
EXTENDS Integers, FiniteSets

CONSTANTS Drivers,          \* driver ids
          Rides,            \* rides to dispatch
          Corrs,            \* correlation ids of dispatch requests
          RideOf,           \* RideOf[c]: the ride the requests with id c are for
          Workers,          \* dispatch requests that overlap
          OnlineDrivers,    \* drivers online, located and indexed at the start
          AppsLetGo,        \* may an app change the availability of a driver at work?
          NoDriver, NoRide, NoCorr,   \* absent values
          MaxUpdates,       \* bound: requests of the drivers' apps
          MaxDispatches,    \* bound: dispatch requests
          MaxFaults         \* bound: restarts of the process and failing statements

ASSUME RideOfAssumption    == RideOf \in [Corrs -> Rides]
ASSUME WorkersAssumption   == Workers # {}
ASSUME OnlineAssumption    == OnlineDrivers \subseteq Drivers /\ AppsLetGo \in BOOLEAN
ASSUME AbsentAssumption    == NoDriver \notin Drivers /\ NoRide \notin Rides /\ NoCorr \notin Corrs
ASSUME BoundsAssumption    == /\ MaxUpdates \in Nat /\ MaxDispatches \in Nat
                              /\ MaxFaults \in Nat

VARIABLES row,          \* row[d]: the drivers row of d
          index,        \* the drivers in the geo index
          rideState,    \* rideState[r]: "DISPATCHING", "ASSIGNED" or "OVER"
          rideDriver,   \* rideDriver[r]: rides.driver_id
          store,        \* store[c]: the DispatchProcessState of correlation id c
          pc,           \* pc[w]: the await saga w is suspended at
          saga,         \* saga[w]: what saga w remembers
          appPc,        \* appPc[d]: the await the request of d's app is suspended at
          appRow,       \* appRow[d]: the aggregate that request loaded and changed
          answers,      \* successful answers to dispatch requests
          reservedFor,  \* reservedFor[d]: the ride d was last reserved for and not released
          lost,         \* drivers whose release by a compensation failed
          updates, dispatches, faults,
          restarted     \* has the process been restarted?

rideVars   == <<rideState, rideDriver>>
memoryVars == <<index, store, pc, saga, appPc, appRow>>
historyVars == <<answers, reservedFor, lost>>
counters   == <<updates, dispatches, faults, restarted>>
vars == <<row, rideVars, memoryVars, historyVars, counters>>

DriverStates == {"OFFLINE", "AVAILABLE", "BUSY"}
DriverTransitions == [s \in DriverStates |->
    CASE s = "OFFLINE"   -> {"AVAILABLE"}
      [] s = "AVAILABLE" -> {"BUSY", "OFFLINE"}
      [] s = "BUSY"      -> {"AVAILABLE", "OFFLINE"}]

Rows == [state : DriverStates \cup {"NONE"}, located : BOOLEAN, version : Nat]
AbsentRow == [state |-> "NONE", located |-> FALSE, version |-> 0]
\* register, go online, report a location: three writes.
OnlineRow == [state |-> "AVAILABLE", located |-> TRUE, version |-> 3]

Records == [status : {"NONE", "IN_PROGRESS", "SUCCEEDED", "FAILED"},
            driver : Drivers \cup {NoDriver}]
NoRecord == [status |-> "NONE", driver |-> NoDriver]

MaxReservationAttempts == 3
Sagas == [corr : Corrs \cup {NoCorr}, near : SUBSET Drivers, winner : Drivers \cup {NoDriver},
          tries : 0..(MaxReservationAttempts - 1), copy : Rows]
IdleSaga == [corr |-> NoCorr, near |-> {}, winner |-> NoDriver,
             tries |-> 0, copy |-> AbsentRow]

Init == /\ row = [d \in Drivers |-> IF d \in OnlineDrivers THEN OnlineRow ELSE AbsentRow]
        /\ index = OnlineDrivers
        /\ rideState = [r \in Rides |-> "DISPATCHING"]
        /\ rideDriver = [r \in Rides |-> NoDriver]
        /\ store = [c \in Corrs |-> NoRecord]
        /\ pc = [w \in Workers |-> "idle"]
        /\ saga = [w \in Workers |-> IdleSaga]
        /\ appPc = [d \in Drivers |-> "idle"]
        /\ appRow = [d \in Drivers |-> AbsentRow]
        /\ answers = {}
        /\ reservedFor = [d \in Drivers |-> NoRide]
        /\ lost = {}
        /\ updates = 0 /\ dispatches = 0 /\ restarted = FALSE /\ faults = 0

-----------------------------------------------------------------------------
(* The driver table.                                                       *)

\* Mutant of VersionMatches: the update is not conditional.
AnyVersion(d, copy) == TRUE

\* UPDATE drivers ... WHERE version = :version - 1 affects a row.
VersionMatches(d, copy) == row[d].version = copy.version - 1

\* Mutant of Reservable: only a reservation remembered by the aggregate is respected, and
\* the repository does not load one.
ReservableAnyState(d) == TRUE

\* reserveForRide accepts the driver as loaded: a reservation is not persisted, so the
\* loaded currentRideId is always null and the state decides alone.
Reservable(d) == row[d].state = "AVAILABLE"

Changed(d, s) == [row[d] EXCEPT !.state = s, !.version = @ + 1]

\* releaseFromRide and updateLocation on the row as loaded.
Released(d) == Changed(d, "AVAILABLE")
Relocated(d) == [Changed(d, row[d].state) EXCEPT !.located = TRUE]

\* isEligibleForDispatch; a location that is no longer fresh is a driver who was not found.
Eligible(d) == row[d].state = "AVAILABLE" /\ row[d].located

\* findNearby: who is near, and whose location is fresh, is up to pickup point and clock.
Nearby == SUBSET index

-----------------------------------------------------------------------------
(* The saga.                                                               *)

Driver(w) == saga[w].winner
Ride(w) == RideOf[saga[w].corr]
To(w, label) == pc' = [pc EXCEPT ![w] = label]
Finish(w) == /\ To(w, "idle")
             /\ saga' = [saga EXCEPT ![w] = IdleSaga]

\* A record that succeeded is answered again (one that failed is refused again, which
\* changes nothing).
Replay(c) ==
    /\ store[c].status = "SUCCEEDED"
    /\ answers' = answers \cup {[ride |-> RideOf[c], driver |-> store[c].driver]}
    /\ UNCHANGED <<row, rideVars, memoryVars, reservedFor, lost, counters>>

\* No record, or one in progress: create it, search the index.
Begin(w, c) ==
    /\ pc[w] = "idle"
    /\ dispatches < MaxDispatches
    /\ store[c].status \in {"NONE", "IN_PROGRESS"}
    /\ store' = [store EXCEPT ![c].status = "IN_PROGRESS"]
    /\ \E near \in Nearby :
          saga' = [saga EXCEPT ![w] = [IdleSaga EXCEPT !.corr = c, !.near = near]]
    /\ dispatches' = dispatches + 1
    /\ To(w, "checking")
    /\ UNCHANGED <<row, rideVars, index, appPc, appRow, historyVars,
                   updates, faults, restarted>>

\* The next candidate is loaded.  The first that is eligible wins, being the nearest (those
\* behind him are loaded too, which changes nothing).
CheckCandidate(w, d) ==
    /\ pc[w] = "checking"
    /\ d \in saga[w].near
    /\ IF Eligible(d)
       THEN /\ saga' = [saga EXCEPT ![w].near = {}, ![w].winner = d]
            /\ To(w, "reserving")
       ELSE /\ saga' = [saga EXCEPT ![w].near = @ \ {d}]
            /\ UNCHANGED pc
    /\ UNCHANGED <<row, rideVars, index, store, appPc, appRow, historyVars, counters>>

NoEligibleDrivers(w) ==
    /\ pc[w] = "checking"
    /\ saga[w].near = {}
    /\ To(w, "failing")
    /\ UNCHANGED <<row, rideVars, index, store, saga, appPc, appRow, historyVars, counters>>

\* Load the winner afresh and reserve him in memory.
ReserveLoad(w) ==
    /\ pc[w] = "reserving"
    /\ Reservable(Driver(w))
    /\ saga' = [saga EXCEPT ![w].copy = Changed(Driver(w), "BUSY")]
    /\ To(w, "saving")
    /\ UNCHANGED <<row, rideVars, index, store, appPc, appRow, historyVars, counters>>

\* The winner's state changed: give up.
ReserveRefused(w) ==
    /\ pc[w] = "reserving"
    /\ ~Reservable(Driver(w))
    /\ To(w, "failing")
    /\ UNCHANGED <<row, rideVars, index, store, saga, appPc, appRow, historyVars, counters>>

ReserveSave(w) ==
    /\ pc[w] = "saving"
    /\ VersionMatches(Driver(w), saga[w].copy)
    /\ row' = [row EXCEPT ![Driver(w)] = saga[w].copy]
    /\ reservedFor' = [reservedFor EXCEPT ![Driver(w)] = Ride(w)]
    /\ saga' = [saga EXCEPT ![w].copy = AbsentRow]
    /\ To(w, "assigning")
    /\ UNCHANGED <<rideVars, index, store, appPc, appRow, answers, lost, counters>>

\* Mutant of Retry: the attempts are not counted against the limit.
RetryForever(w) ==
    /\ saga' = [saga EXCEPT ![w].tries = @ + 1, ![w].copy = AbsentRow]
    /\ To(w, "reserving")

\* One attempt to reserve is spent.
Retry(w) ==
    IF saga[w].tries + 1 < MaxReservationAttempts
    THEN /\ saga' = [saga EXCEPT ![w].tries = @ + 1, ![w].copy = AbsentRow]
         /\ To(w, "reserving")
    ELSE /\ To(w, "failing")
         /\ UNCHANGED saga

ReserveConflict(w) ==
    /\ pc[w] = "saving"
    /\ ~VersionMatches(Driver(w), saga[w].copy)
    /\ Retry(w)
    /\ UNCHANGED <<row, rideVars, index, store, appPc, appRow, historyVars, counters>>

\* Mutant of Assign: the state of the ride is not looked at.
AssignAnyRide(w) ==
    /\ pc[w] = "assigning"
    /\ rideState' = [rideState EXCEPT ![Ride(w)] = "ASSIGNED"]
    /\ rideDriver' = [rideDriver EXCEPT ![Ride(w)] = Driver(w)]
    /\ To(w, "succeeding")
    /\ UNCHANGED <<row, index, store, saga, appPc, appRow, historyVars, counters>>

\* The ride waits for a driver: transitionRideToAssigned gives it this one.
Assign(w) ==
    /\ pc[w] = "assigning"
    /\ rideState[Ride(w)] = "DISPATCHING"
    /\ rideState' = [rideState EXCEPT ![Ride(w)] = "ASSIGNED"]
    /\ rideDriver' = [rideDriver EXCEPT ![Ride(w)] = Driver(w)]
    /\ To(w, "succeeding")
    /\ UNCHANGED <<row, index, store, saga, appPc, appRow, historyVars, counters>>

\* Mutants of AssignRefused: the result is not looked at, or nothing is compensated.
AssignUnchecked(w) ==
    /\ pc[w] = "assigning"
    /\ To(w, "succeeding")
    /\ UNCHANGED <<row, rideVars, index, store, saga, appPc, appRow, historyVars, counters>>
AssignUncompensated(w) ==
    /\ pc[w] = "assigning"
    /\ To(w, "failing")
    /\ UNCHANGED <<row, rideVars, index, store, saga, appPc, appRow, historyVars, counters>>

\* transitionRideToAssigned fails: the ride does not wait for a driver, a concurrent
\* change of it won, or the database failed.
AssignRefused(w) ==
    /\ pc[w] = "assigning"
    /\ To(w, "compensating")
    /\ UNCHANGED <<row, rideVars, index, store, saga, appPc, appRow, historyVars, counters>>

\* compensateDriverReservation: load the driver and, if he still is BUSY, release him in
\* memory.
CompensateLoad(w) ==
    /\ pc[w] = "compensating"
    /\ IF row[Driver(w)].state = "BUSY"
       THEN /\ saga' = [saga EXCEPT ![w].copy = Released(Driver(w))]
            /\ To(w, "releasing")
       ELSE /\ To(w, "failing")
            /\ UNCHANGED saga
    /\ UNCHANGED <<row, rideVars, index, store, appPc, appRow, historyVars, counters>>

CompensateSave(w) ==
    /\ pc[w] = "releasing"
    /\ VersionMatches(Driver(w), saga[w].copy)
    /\ row' = [row EXCEPT ![Driver(w)] = saga[w].copy]
    /\ reservedFor' = [reservedFor EXCEPT ![Driver(w)] = NoRide]
    /\ To(w, "failing")
    /\ UNCHANGED <<rideVars, index, store, saga, appPc, appRow, answers, lost, counters>>

\* The release lost a race, and nobody tries again.
CompensateConflict(w) ==
    /\ pc[w] = "releasing"
    /\ ~VersionMatches(Driver(w), saga[w].copy)
    /\ lost' = lost \cup {Driver(w)}
    /\ To(w, "failing")
    /\ UNCHANGED <<row, rideVars, index, store, saga, appPc, appRow, answers, reservedFor,
                   counters>>

\* A statement of the reservation or of the compensation fails.
StatementFails(w) ==
    /\ faults < MaxFaults
    /\ faults' = faults + 1
    /\ \/ /\ pc[w] \in {"reserving", "saving"}
          /\ Retry(w)
          /\ UNCHANGED lost
       \/ /\ pc[w] \in {"compensating", "releasing"}
          /\ lost' = lost \cup {Driver(w)}
          /\ To(w, "failing")
          /\ UNCHANGED saga
    /\ UNCHANGED <<row, rideVars, index, store, appPc, appRow, answers, reservedFor,
                   updates, dispatches, restarted>>

MarkSucceeded(w) ==
    /\ pc[w] = "succeeding"
    /\ store' = [store EXCEPT ![saga[w].corr] = [status |-> "SUCCEEDED", driver |-> Driver(w)]]
    /\ answers' = answers \cup {[ride |-> Ride(w), driver |-> Driver(w)]}
    /\ Finish(w)
    /\ UNCHANGED <<row, rideVars, index, appPc, appRow, reservedFor, lost, counters>>

\* markFailed overwrites the status, whatever it is.
MarkFailed(w) ==
    /\ pc[w] = "failing"
    /\ store' = [store EXCEPT ![saga[w].corr].status = "FAILED"]
    /\ Finish(w)
    /\ UNCHANGED <<row, rideVars, index, appPc, appRow, historyVars, counters>>

-----------------------------------------------------------------------------
(* The driver API.  A driver's app sends one request at a time.            *)

RegisterDriver(d) ==
    /\ row[d].state = "NONE"
    /\ updates < MaxUpdates
    /\ updates' = updates + 1
    /\ row' = [row EXCEPT ![d] = [state |-> "OFFLINE", located |-> FALSE, version |-> 1]]
    /\ UNCHANGED <<rideVars, memoryVars, historyVars, dispatches, faults, restarted>>

\* Driver d is reserved by a saga under way, or has a ride.
AtWork(d) == /\ row[d].state = "BUSY"
             /\ \/ \E w \in Workers : pc[w] \in {"assigning", "succeeding", "compensating",
                                                 "releasing"} /\ Driver(w) = d
                \/ \E r \in Rides : rideState[r] = "ASSIGNED" /\ rideDriver[r] = d

\* The request of d's app loads his row and makes it a.
AppLoads(d, a) ==
    /\ appPc[d] = "idle"
    /\ updates < MaxUpdates
    /\ updates' = updates + 1
    /\ appPc' = [appPc EXCEPT ![d] = "saving"]
    /\ appRow' = [appRow EXCEPT ![d] = a]
    /\ UNCHANGED <<row, rideVars, index, store, pc, saga, historyVars,
                   dispatches, faults, restarted>>

UpdateAvailability(d, s) ==
    /\ row[d].state # "NONE"
    /\ s \in DriverTransitions[row[d].state]
    /\ AppsLetGo \/ ~AtWork(d)
    /\ AppLoads(d, Changed(d, s))

UpdateLocation(d) ==
    /\ row[d].state \in {"AVAILABLE", "BUSY"}
    /\ AppLoads(d, Relocated(d))

AppSave(d) ==
    /\ appPc[d] = "saving"
    /\ VersionMatches(d, appRow[d])
    /\ row' = [row EXCEPT ![d] = appRow[d]]
    /\ reservedFor' = [reservedFor EXCEPT ![d] =
                          IF appRow[d].state = row[d].state THEN @ ELSE NoRide]
    /\ appPc' = [appPc EXCEPT ![d] = "indexing"]
    /\ UNCHANGED <<rideVars, index, store, pc, saga, appRow, answers, lost, counters>>

AppConflict(d) ==
    /\ appPc[d] = "saving"
    /\ ~VersionMatches(d, appRow[d])
    /\ appPc' = [appPc EXCEPT ![d] = "idle"]
    /\ appRow' = [appRow EXCEPT ![d] = AbsentRow]
    /\ UNCHANGED <<row, rideVars, index, store, pc, saga, historyVars, counters>>

\* Mutant of Indexed: whoever is not AVAILABLE leaves the index.
IndexedAvailable(d, a) ==
    IF a.state = "AVAILABLE" /\ a.located THEN index \cup {d} ELSE index \ {d}

\* The index after the row a of driver d was saved.
Indexed(d, a) == CASE a.state = "OFFLINE"                -> index \ {d}
                   [] a.state = "AVAILABLE" /\ a.located -> index \cup {d}
                   [] OTHER                              -> index

AppIndex(d) ==
    /\ appPc[d] = "indexing"
    /\ index' = Indexed(d, appRow[d])
    /\ appPc' = [appPc EXCEPT ![d] = "idle"]
    /\ appRow' = [appRow EXCEPT ![d] = AbsentRow]
    /\ UNCHANGED <<row, rideVars, store, pc, saga, historyVars, counters>>

-----------------------------------------------------------------------------
(* The environment.                                                        *)

\* The ride is canceled, expires, fails or is completed.
RideEnds(r) ==
    /\ rideState[r] # "OVER"
    /\ rideState' = [rideState EXCEPT ![r] = "OVER"]
    /\ UNCHANGED <<row, rideDriver, memoryVars, historyVars, counters>>

\* The process is killed and started again: what is in memory is gone.
Restart ==
    /\ faults < MaxFaults
    /\ faults' = faults + 1
    /\ restarted' = TRUE
    /\ index' = {}
    /\ store' = [c \in Corrs |-> NoRecord]
    /\ pc' = [w \in Workers |-> "idle"]
    /\ saga' = [w \in Workers |-> IdleSaga]
    /\ appPc' = [d \in Drivers |-> "idle"]
    /\ appRow' = [d \in Drivers |-> AbsentRow]
    /\ UNCHANGED <<row, rideVars, historyVars, updates, dispatches>>

-----------------------------------------------------------------------------

Dispatch(w) ==
    \/ \E c \in Corrs : Begin(w, c)
    \/ \E d \in Drivers : CheckCandidate(w, d)
    \/ NoEligibleDrivers(w)
    \/ ReserveLoad(w) \/ ReserveRefused(w) \/ ReserveSave(w) \/ ReserveConflict(w)
    \/ Assign(w) \/ AssignRefused(w)
    \/ CompensateLoad(w) \/ CompensateSave(w) \/ CompensateConflict(w)
    \/ StatementFails(w)
    \/ MarkSucceeded(w) \/ MarkFailed(w)

App(d) == \/ RegisterDriver(d)
          \/ \E s \in DriverStates : UpdateAvailability(d, s)
          \/ UpdateLocation(d)
          \/ AppSave(d) \/ AppConflict(d) \/ AppIndex(d)

Next == \/ \E w \in Workers : Dispatch(w)
        \/ \E c \in Corrs : Replay(c)
        \/ \E d \in Drivers : App(d)
        \/ \E r \in Rides : RideEnds(r)
        \/ Restart

Spec == Init /\ [][Next]_vars

-----------------------------------------------------------------------------
(* Properties.                                                             *)

\* Every variable holds a value of the kind the code keeps in it, and a saga is within its
\* three attempts to reserve.
TypeOK ==
    /\ row \in [Drivers -> Rows]
    /\ index \subseteq Drivers
    /\ rideState \in [Rides -> {"DISPATCHING", "ASSIGNED", "OVER"}]
    /\ rideDriver \in [Rides -> Drivers \cup {NoDriver}]
    /\ store \in [Corrs -> Records]
    /\ pc \in [Workers -> {"idle", "checking", "reserving", "saving", "assigning",
                           "compensating", "releasing", "succeeding", "failing"}]
    /\ saga \in [Workers -> Sagas]
    /\ appPc \in [Drivers -> {"idle", "saving", "indexing"}]
    /\ appRow \in [Drivers -> Rows]
    /\ answers \subseteq [ride : Rides, driver : Drivers]
    /\ reservedFor \in [Drivers -> Rides \cup {NoRide}]
    /\ lost \subseteq Drivers
    /\ updates \in 0..MaxUpdates /\ dispatches \in 0..MaxDispatches
    /\ restarted \in BOOLEAN /\ faults \in 0..MaxFaults

\* No driver serves two rides: of the sagas and app requests that wrote his row only one
\* reservation is in force.
NoDriverServesTwoRides ==
    \A r, s \in {q \in Rides : rideState[q] = "ASSIGNED"} :
        rideDriver[r] = rideDriver[s] => r = s

\* The driver of an assigned ride is BUSY, so that no search offers him to another ride:
\* neither a stale write of his app nor the compensation of another saga frees him.
AssignedDriverIsBusy ==
    \A r \in Rides : rideState[r] = "ASSIGNED" => row[rideDriver[r]].state = "BUSY"

\* A dispatch request that was told a driver, first hand or in a replay, was told the
\* driver the ride got.
AnswersAreTrue == \A a \in answers : rideDriver[a.ride] = a.driver

\* Saga w still answers for the reservation of driver d.
Holds(w, d) == /\ pc[w] \in {"assigning", "succeeding", "compensating", "releasing"}
               /\ Driver(w) = d

\* While the process lives, a reservation in force belongs to a saga under way or to the
\* ride that got the driver; only a release that failed leaves a driver BUSY for nobody.
ReservationsHaveAnOwner ==
    ~restarted =>
        \A d \in Drivers \ lost : reservedFor[d] # NoRide =>
            \/ \E w \in Workers : Holds(w, d)
            \/ rideDriver[reservedFor[d]] = d

\* While the process lives and no request of a driver's app is under way, the geo index
\* lists him if he can be dispatched and does not if he is offline, though the index is
\* written after the row and a compensation writes the row alone.
IndexListsAvailableDrivers ==
    ~restarted =>
        \A d \in Drivers : appPc[d] = "idle" =>
            /\ row[d].state = "AVAILABLE" /\ row[d].located => d \in index
            /\ row[d].state = "OFFLINE" => d \notin index

\* Saga w holds a driver whose ride it has not got yet.
Holding(w) == pc[w] \in {"assigning", "compensating", "releasing"}

\* The promise of dispatch, with the reservations of the sagas under way as the drivers held.
Abstract == INSTANCE DriverAssignment
                WITH held <- {[ride |-> Ride(w), driver |-> Driver(w)] :
                                  w \in {v \in Workers : Holding(v)}}

\* Sagas that overlap, conflict, compensate and fail, with the apps of the drivers and restarts
\* between their steps, do what one would who held, assigned and let go in single steps.
ImplementsDriverAssignment == Abstract!Spec
=============================================================================
