------------------------ MODULE DriverDispatchProofs ------------------------
(***************************************************************************)
(* Proofs about DriverDispatch for every set of drivers, rides, requests   *)
(* and sagas, and any number of updates, dispatches and faults.            *)
(*                                                                         *)
(* What a saga or an app saves was computed from a row read earlier.  The  *)
(* save compares versions, so the bridge is: a copy in hand is not ahead   *)
(* of its row, and if it fits the row's version, then the row still is     *)
(* what the copy was made from.                                            *)
(***************************************************************************)
EXTENDS DriverDispatch, TLAPS

\* The copy a of driver d is of a version the row has reached.
Behind(d, a) == a.version # 0 /\ a.version - 1 <= row[d].version

\* What saga w holds: a driver with a location, a reservation or release that still is
\* right if it fits the row, and the ride it got for its driver.
SagaInv(w) ==
    LET d == Driver(w)
        a == saga[w].copy
    IN /\ pc[w] # "idle" => saga[w].corr \in Corrs
       /\ pc[w] \in {"reserving", "saving", "assigning", "compensating", "releasing", "succeeding"}
              => d \in Drivers
       /\ d \in Drivers => row[d].located /\ row[d].state # "NONE"
       /\ pc[w] = "saving" =>
              /\ Behind(d, a)
              /\ VersionMatches(d, a) => row[d].state = "AVAILABLE" /\ a = Changed(d, "BUSY")
       /\ pc[w] = "releasing" =>
              /\ Behind(d, a)
              /\ VersionMatches(d, a) => row[d].state = "BUSY" /\ a = Released(d)
       /\ pc[w] = "succeeding" => rideDriver[Ride(w)] = d

\* The app of driver d changes its availability or its location.
AppChange(d, a) == \/ /\ row[d].state # "NONE"
                      /\ \E s \in DriverTransitions[row[d].state] : a = Changed(d, s)
                   \/ row[d].state \in {"AVAILABLE", "BUSY"} /\ a = Relocated(d)

\* What the app of driver d holds is right if it fits the row.
AppInv(d) == /\ row[d].state = "NONE" => row[d] = AbsentRow
             /\ appPc[d] = "saving" =>
                    /\ Behind(d, appRow[d])
                    /\ VersionMatches(d, appRow[d]) => AppChange(d, appRow[d])

\* A ride gets one driver.
RideInv(r) == /\ rideState[r] = "DISPATCHING" => rideDriver[r] = NoDriver
              /\ rideState[r] = "ASSIGNED" => rideDriver[r] \in Drivers

\* A success in the process store is of the ride's driver.
StoreInv(c) == store[c].status = "SUCCEEDED" =>
                   store[c].driver \in Drivers /\ rideDriver[RideOf[c]] = store[c].driver

\* A reservation keeps its driver BUSY and has an owner.
ReservedInv(d) ==
    reservedFor[d] # NoRide =>
        /\ row[d].state = "BUSY"
        /\ ~restarted => \/ d \in lost
                         \/ rideDriver[reservedFor[d]] = d
                         \/ \E w \in Workers : Holds(w, d) /\ Ride(w) = reservedFor[d]

\* Driver d is in the index once the request of his app is through.
WillBeListed(d) == IF appPc[d] = "indexing" THEN d \in Indexed(d, appRow[d]) ELSE d \in index

\* A driver is listed if a search may offer him, or a release makes that true again.
IndexInv(d) ==
    ~restarted =>
        /\ row[d].state = "AVAILABLE" /\ row[d].located => WillBeListed(d)
        /\ row[d].state = "BUSY" /\ (\E w \in Workers : Driver(w) = d) => WillBeListed(d)
        /\ row[d].state \in {"OFFLINE", "NONE"} => ~WillBeListed(d)

\* The inductive invariant.
Inv == /\ TypeOK
       /\ \A w \in Workers : SagaInv(w)
       /\ \A d \in Drivers : AppInv(d) /\ ReservedInv(d) /\ IndexInv(d)
       /\ \A r \in Rides : RideInv(r)
       /\ \A c \in Corrs : StoreInv(c)
       /\ AnswersAreTrue

\* Driver d is reserved by a saga, or has a ride.
Engaged(d) == \/ \E w \in Workers : Holds(w, d)
              \/ \E r \in Rides : rideState[r] = "ASSIGNED" /\ rideDriver[r] = d

\* Where apps leave drivers at work alone: a driver engaged is BUSY, by one saga and for one
\* ride, and an app whose save would go through does not change his availability.
WorkInv(d) ==
    /\ Engaged(d) => row[d].state = "BUSY"
    /\ \A v, w \in Workers : Holds(v, d) /\ Holds(w, d) => v = w
    /\ \A r \in Rides : rideState[r] = "ASSIGNED" /\ rideDriver[r] = d =>
           /\ \A w \in Workers : Holds(w, d) => pc[w] = "succeeding" /\ Ride(w) = r
           /\ \A s \in Rides : rideState[s] = "ASSIGNED" /\ rideDriver[s] = d => r = s
    /\ appPc[d] = "saving" /\ VersionMatches(d, appRow[d]) /\ Engaged(d)
           => appRow[d].state = row[d].state

AllWork == \A d \in Drivers : WorkInv(d)

-----------------------------------------------------------------------------
(* Rows and types.                                                         *)

Labels == {"idle", "checking", "reserving", "saving", "assigning",
           "compensating", "releasing", "succeeding", "failing"}

\* A row, field by field.
LEMMA RowFields ==
  ASSUME TypeOK, NEW d \in Drivers
  PROVE  /\ row[d] \in Rows /\ row[d].version \in Nat /\ row[d].located \in BOOLEAN
         /\ row[d].state \in DriverStates \cup {"NONE"}
  BY DEF TypeOK, Rows

\* The row of a driver whose state changes.
LEMMA ChangedRow ==
  ASSUME TypeOK, NEW d \in Drivers, NEW s \in DriverStates
  PROVE  /\ Changed(d, s) \in Rows
         /\ Changed(d, s).state = s /\ Changed(d, s).version = row[d].version + 1
         /\ Changed(d, s).located = row[d].located
<1> DEFINE n == row[d].version + 1
<1>1. row[d] \in Rows /\ n \in Nat
  BY RowFields
<1>2. Changed(d, s) = [row[d] EXCEPT !.state = s, !.version = n]
  BY DEF Changed
<1>3. n = row[d].version + 1
  OBVIOUS
<1> HIDE DEF n
<1>4. QED
  BY <1>1, <1>2, <1>3 DEF Rows

\* The row of a driver who reports a location.
LEMMA RelocatedRow ==
  ASSUME TypeOK, NEW d \in Drivers, row[d].state \in DriverStates
  PROVE  /\ Relocated(d) \in Rows
         /\ Relocated(d).state = row[d].state /\ Relocated(d).version = row[d].version + 1
         /\ Relocated(d).located = TRUE
<1> DEFINE c == Changed(d, row[d].state)
<1>1. c \in Rows /\ c.state = row[d].state /\ c.version = row[d].version + 1
  BY ChangedRow
<1>2. Relocated(d) = [c EXCEPT !.located = TRUE]
  BY DEF Relocated
<1> HIDE DEF c
<1>3. QED
  BY <1>1, <1>2 DEF Rows

\* The transition table of drivers leads to states of drivers.
LEMMA DriverStateTable ==
  \A s \in DriverStates : DriverTransitions[s] \subseteq DriverStates
  BY DEF DriverTransitions, DriverStates

\* The fields of what a saga remembers.
LEMMA SagaType ==
  ASSUME TypeOK, NEW w \in Workers
  PROVE  /\ saga[w] \in Sagas
         /\ saga[w].corr \in Corrs \cup {NoCorr} /\ saga[w].near \subseteq Drivers
         /\ saga[w].winner \in Drivers \cup {NoDriver} /\ saga[w].copy \in Rows
         /\ saga[w].tries \in 0..(MaxReservationAttempts - 1)
         /\ saga[w] = [corr |-> saga[w].corr, near |-> saga[w].near, winner |-> saga[w].winner,
                       tries |-> saga[w].tries, copy |-> saga[w].copy]
  BY DEF TypeOK, Sagas

\* The values of a row, a saga and a record that are not there.
LEMMA AbsentTypes ==
  /\ AbsentRow \in Rows /\ IdleSaga \in Sagas /\ NoRecord \in Records
  /\ AbsentRow.state = "NONE" /\ AbsentRow.version = 0
  /\ IdleSaga.winner = NoDriver /\ IdleSaga.corr = NoCorr
  BY DEF AbsentRow, Rows, IdleSaga, Sagas, MaxReservationAttempts, NoRecord, Records

\* A spent attempt keeps the saga within its limit.
LEMMA RetryType ==
  ASSUME TypeOK, NEW w \in Workers, Retry(w)
  PROVE  saga' \in [Workers -> Sagas] /\ pc' \in [Workers -> Labels]
<1> DEFINE n == saga[w].tries + 1
<1>1. CASE n < MaxReservationAttempts
  <2>1. saga[w].tries \in 0..(MaxReservationAttempts - 1)
    BY SagaType
  <2>2. n \in 0..(MaxReservationAttempts - 1)
    BY <1>1, <2>1 DEF MaxReservationAttempts
  <2>3. saga[w] \in Sagas /\ AbsentRow \in Rows
    BY SagaType, AbsentTypes
  <2>4. /\ saga' = [saga EXCEPT ![w] = [saga[w] EXCEPT !.tries = n, !.copy = AbsentRow]]
        /\ pc' = [pc EXCEPT ![w] = "reserving"]
    BY <1>1 DEF Retry, To
  <2> HIDE DEF n
  <2>5. [saga[w] EXCEPT !.tries = n, !.copy = AbsentRow] \in Sagas
    BY <2>2, <2>3 DEF Sagas
  <2>6. QED
    BY <2>4, <2>5 DEF TypeOK, Labels
<1>2. CASE ~(n < MaxReservationAttempts)
  BY <1>2 DEF Retry, To, TypeOK, Labels
<1>3. QED
  BY <1>1, <1>2

\* What an app computes is a row.
LEMMA AppChangeType ==
  ASSUME TypeOK, NEW d \in Drivers, NEW a, AppChange(d, a)
  PROVE  a \in Rows /\ a.version = row[d].version + 1 /\ (row[d].located => a.located)
         /\ a.state \in DriverStates
<1>1. CASE row[d].state \in {"AVAILABLE", "BUSY"} /\ a = Relocated(d)
  <2>1. row[d].state \in DriverStates
    BY <1>1 DEF DriverStates
  <2>2. QED
    BY <1>1, <2>1, RelocatedRow
<1>2. ASSUME row[d].state # "NONE", NEW s \in DriverTransitions[row[d].state], a = Changed(d, s)
      PROVE  /\ a \in Rows /\ a.version = row[d].version + 1 /\ a.state \in DriverStates
             /\ row[d].located => a.located
  <2>1. s \in DriverStates
    BY <1>2, RowFields, DriverStateTable
  <2>2. QED
    BY <1>2, <2>1, ChangedRow
<1>3. QED
  BY <1>1, <1>2 DEF AppChange

\* Every step keeps the type invariant.
LEMMA TypeStep ==
  ASSUME Inv, [Next]_vars
  PROVE  TypeOK'
<1> USE DEF Inv
<1>0. TypeOK
  OBVIOUS
<1>1. ASSUME NEW w \in Workers, NEW c \in Corrs, Begin(w, c)
      PROVE  TypeOK'
  <2>1. PICK near \in SUBSET index :
           saga' = [saga EXCEPT ![w] = [IdleSaga EXCEPT !.corr = c, !.near = near]]
    BY <1>1 DEF Begin, Nearby
  <2>2. [IdleSaga EXCEPT !.corr = c, !.near = near] \in Sagas
    BY AbsentTypes DEF Sagas, TypeOK
  <2>3. saga' \in [Workers -> Sagas] /\ pc' \in [Workers -> Labels]
    BY <1>1, <2>1, <2>2 DEF Begin, To, TypeOK, Labels
  <2>4. store' \in [Corrs -> Records] /\ dispatches' \in 0..MaxDispatches
    <3>1. store[c] \in Records
      BY DEF TypeOK
    <3>2. [store[c] EXCEPT !.status = "IN_PROGRESS"] \in Records
      BY <3>1 DEF Records
    <3>3. store' = [store EXCEPT ![c] = [store[c] EXCEPT !.status = "IN_PROGRESS"]]
      BY <1>1 DEF Begin
    <3>4. dispatches' \in 0..MaxDispatches
      BY <1>1, BoundsAssumption DEF Begin, TypeOK
    <3>5. QED
      BY <3>2, <3>3, <3>4 DEF TypeOK
  <2>5. QED
    BY <1>1, <2>3, <2>4 DEF Begin, TypeOK, Labels, rideVars, historyVars
<1>2. ASSUME NEW w \in Workers, NEW d \in Drivers, CheckCandidate(w, d)
      PROVE  TypeOK'
  <2>1. saga[w] \in Sagas
    BY SagaType
  <2>2. /\ [[saga[w] EXCEPT !.near = {}] EXCEPT !.winner = d] \in Sagas
        /\ [saga[w] EXCEPT !.near = saga[w].near \ {d}] \in Sagas
    BY <2>1 DEF Sagas
  <2>3. saga' \in [Workers -> Sagas] /\ pc' \in [Workers -> Labels]
    BY <1>2, <2>2 DEF CheckCandidate, To, TypeOK, Labels
  <2>4. QED
    BY <1>2, <2>3 DEF CheckCandidate, TypeOK, Labels, rideVars, historyVars, counters
<1>3. ASSUME NEW w \in Workers, NoEligibleDrivers(w) \/ ReserveRefused(w) \/ AssignRefused(w)
      PROVE  TypeOK'
  BY <1>3 DEF NoEligibleDrivers, ReserveRefused, AssignRefused, To, TypeOK, rideVars,
              historyVars, counters
<1>4. ASSUME NEW w \in Workers, NEW a \in Rows, saga' = [saga EXCEPT ![w].copy = a]
      PROVE  saga' \in [Workers -> Sagas]
  <2>1. [saga[w] EXCEPT !.copy = a] \in Sagas
    BY SagaType DEF Sagas
  <2>2. QED
    BY <1>4, <2>1 DEF TypeOK
<1>5. ASSUME NEW w \in Workers, ReserveLoad(w)
      PROVE  TypeOK'
  <2>1. Driver(w) \in Drivers
    BY <1>5 DEF ReserveLoad, SagaInv
  <2>2. Changed(Driver(w), "BUSY") \in Rows
    BY <2>1, ChangedRow DEF DriverStates
  <2>3. saga' \in [Workers -> Sagas]
    BY <1>4, <1>5, <2>2 DEF ReserveLoad
  <2>4. QED
    BY <1>5, <2>3 DEF ReserveLoad, To, TypeOK, rideVars, historyVars, counters
<1>6. ASSUME NEW w \in Workers, ReserveSave(w)
      PROVE  TypeOK'
  <2>1. Driver(w) \in Drivers /\ Ride(w) \in Rides /\ saga[w].copy \in Rows
    BY <1>6, SagaType, RideOfAssumption DEF ReserveSave, SagaInv, Ride
  <2>2. saga' \in [Workers -> Sagas]
    BY <1>4, <1>6, AbsentTypes DEF ReserveSave
  <2>3. QED
    BY <1>6, <2>1, <2>2 DEF ReserveSave, To, TypeOK, rideVars, counters
<1>7. ASSUME NEW w \in Workers, ReserveConflict(w)
      PROVE  TypeOK'
  BY <1>7, RetryType DEF ReserveConflict, TypeOK, Labels, rideVars, historyVars, counters
<1>8. ASSUME NEW w \in Workers, Assign(w)
      PROVE  TypeOK'
  <2>1. Driver(w) \in Drivers /\ Ride(w) \in Rides
    BY <1>8, RideOfAssumption DEF Assign, SagaInv, Ride
  <2>2. QED
    BY <1>8, <2>1 DEF Assign, To, TypeOK, historyVars, counters
<1>9. ASSUME NEW w \in Workers, CompensateLoad(w)
      PROVE  TypeOK'
  <2>1. Driver(w) \in Drivers
    BY <1>9 DEF CompensateLoad, SagaInv
  <2>2. Released(Driver(w)) \in Rows
    BY <2>1, ChangedRow DEF DriverStates, Released
  <2>3. saga' \in [Workers -> Sagas]
    BY <1>4, <1>9, <2>2 DEF CompensateLoad, TypeOK
  <2>4. QED
    BY <1>9, <2>3 DEF CompensateLoad, To, TypeOK, rideVars, historyVars, counters
<1>10. ASSUME NEW w \in Workers, CompensateSave(w) \/ CompensateConflict(w)
       PROVE  TypeOK'
  <2>1. Driver(w) \in Drivers /\ saga[w].copy \in Rows
    BY <1>10, SagaType DEF CompensateSave, CompensateConflict, SagaInv
  <2>2. QED
    BY <1>10, <2>1 DEF CompensateSave, CompensateConflict, To, TypeOK, rideVars, historyVars, counters
<1>11. ASSUME NEW w \in Workers, StatementFails(w)
       PROVE  TypeOK'
  <2>1. faults' \in 0..MaxFaults
    BY <1>11, BoundsAssumption DEF StatementFails, TypeOK
  <2>2. CASE pc[w] \in {"reserving", "saving"} /\ Retry(w) /\ UNCHANGED lost
    BY <1>11, <2>1, <2>2, RetryType DEF StatementFails, TypeOK, Labels, rideVars
  <2>3. CASE /\ pc[w] \in {"compensating", "releasing"} /\ lost' = lost \cup {Driver(w)}
             /\ To(w, "failing") /\ UNCHANGED saga
    <3>1. Driver(w) \in Drivers
      BY <2>3 DEF SagaInv
    <3>2. QED
      BY <1>11, <2>1, <2>3, <3>1 DEF StatementFails, To, TypeOK, rideVars
  <2>4. QED
    BY <1>11, <2>2, <2>3 DEF StatementFails
<1>12. ASSUME NEW w \in Workers, MarkSucceeded(w) \/ MarkFailed(w)
       PROVE  TypeOK'
  <2>1. saga[w].corr \in Corrs /\ Ride(w) \in Rides
    BY <1>12, RideOfAssumption DEF MarkSucceeded, MarkFailed, SagaInv, Ride
  <2>2. MarkSucceeded(w) => Driver(w) \in Drivers
    BY <1>12 DEF MarkSucceeded, SagaInv
  <2>3. saga' \in [Workers -> Sagas] /\ pc' \in [Workers -> Labels]
    BY <1>12, AbsentTypes DEF MarkSucceeded, MarkFailed, Finish, To, TypeOK, Labels
  <2>4. store' \in [Corrs -> Records]
    <3>1. store[saga[w].corr] \in Records
      BY <2>1 DEF TypeOK
    <3>2. [store[saga[w].corr] EXCEPT !.status = "FAILED"] \in Records
      BY <3>1 DEF Records
    <3>3. MarkSucceeded(w) => [status |-> "SUCCEEDED", driver |-> Driver(w)] \in Records
      BY <2>2 DEF Records
    <3>4. QED
      BY <1>12, <2>1, <3>2, <3>3 DEF MarkSucceeded, MarkFailed, TypeOK
  <2>5. answers' \subseteq [ride : Rides, driver : Drivers]
    BY <1>12, <2>1, <2>2 DEF MarkSucceeded, MarkFailed, TypeOK, historyVars
  <2>6. QED
    BY <1>12, <2>3, <2>4, <2>5 DEF MarkSucceeded, MarkFailed, TypeOK, Labels, rideVars,
                                   historyVars, counters
<1>13. ASSUME NEW c \in Corrs, Replay(c)
       PROVE  TypeOK'
  <2>1. RideOf[c] \in Rides /\ store[c].driver \in Drivers
    BY <1>13, RideOfAssumption DEF Replay, StoreInv
  <2>2. QED
    BY <1>13, <2>1 DEF Replay, TypeOK, rideVars, memoryVars, counters
<1>14. ASSUME NEW d \in Drivers, RegisterDriver(d)
       PROVE  TypeOK'
  <2>1. [state |-> "OFFLINE", located |-> FALSE, version |-> 1] \in Rows
    BY DEF Rows, DriverStates
  <2>2. updates' \in 0..MaxUpdates
    BY <1>14, BoundsAssumption DEF RegisterDriver, TypeOK
  <2>3. QED
    BY <1>14, <2>1, <2>2 DEF RegisterDriver, TypeOK, rideVars, memoryVars, historyVars
<1>15. ASSUME NEW d \in Drivers, NEW a, AppChange(d, a), AppLoads(d, a)
       PROVE  TypeOK'
  <2>1. a \in Rows
    BY <1>15, AppChangeType
  <2>2. updates' \in 0..MaxUpdates
    BY <1>15, BoundsAssumption DEF AppLoads, TypeOK
  <2>3. QED
    BY <1>15, <2>1, <2>2 DEF AppLoads, TypeOK, rideVars, historyVars
<1>16. ASSUME NEW d \in Drivers, AppSave(d) \/ AppConflict(d)
       PROVE  TypeOK'
  BY <1>16, AbsentTypes DEF AppSave, AppConflict, TypeOK, rideVars, historyVars, counters
<1>17. ASSUME NEW d \in Drivers, AppIndex(d)
       PROVE  TypeOK'
  <2>1. index' \subseteq Drivers
    BY <1>17 DEF AppIndex, Indexed, TypeOK
  <2>2. QED
    BY <1>17, <2>1, AbsentTypes DEF AppIndex, TypeOK, rideVars, historyVars, counters
<1>18. ASSUME NEW r \in Rides, RideEnds(r)
       PROVE  TypeOK'
  BY <1>18 DEF RideEnds, TypeOK, memoryVars, historyVars, counters
<1>19. CASE Restart
  <2>1. faults' \in 0..MaxFaults
    BY <1>19, BoundsAssumption DEF Restart, TypeOK
  <2>2. QED
    BY <1>19, <2>1, AbsentTypes DEF Restart, TypeOK, rideVars, historyVars
<1>20. CASE UNCHANGED vars
  BY <1>20 DEF vars, rideVars, memoryVars, historyVars, counters, TypeOK
<1>21. ASSUME NEW d \in Drivers, App(d)
       PROVE  TypeOK'
  <2>1. \A s \in DriverStates : UpdateAvailability(d, s) => AppChange(d, Changed(d, s)) /\ AppLoads(d, Changed(d, s))
    BY DEF UpdateAvailability, AppChange
  <2>2. UpdateLocation(d) => AppChange(d, Relocated(d)) /\ AppLoads(d, Relocated(d))
    BY DEF UpdateLocation, AppChange
  <2>3. QED
    BY <1>14, <1>15, <1>16, <1>17, <1>21, <2>1, <2>2 DEF App
<1>22. QED
  BY <1>1, <1>2, <1>3, <1>5, <1>6, <1>7, <1>8, <1>9, <1>10, <1>11, <1>12, <1>13, <1>18, <1>19,
     <1>20, <1>21 DEF Next, Dispatch

-----------------------------------------------------------------------------
(* The driver rows.                                                        *)

\* Only these four write a row, and each writes that of one driver.
LEMMA RowWriters ==
  ASSUME [Next]_vars
  PROVE  \/ UNCHANGED row
         \/ \E w \in Workers : ReserveSave(w) \/ CompensateSave(w)
         \/ \E d \in Drivers : RegisterDriver(d) \/ AppSave(d)
  BY DEF Next, Dispatch, App, Begin, CheckCandidate, NoEligibleDrivers, ReserveLoad,
         ReserveRefused, ReserveConflict, Assign, AssignRefused, CompensateLoad,
         CompensateConflict, StatementFails, MarkSucceeded, MarkFailed, Replay,
         UpdateAvailability, UpdateLocation, AppLoads, AppConflict, AppIndex, RideEnds,
         Restart, vars

\* A reservation that goes through takes an AVAILABLE driver.
LEMMA ReserveWrites ==
  ASSUME Inv, NEW w \in Workers, ReserveSave(w)
  PROVE  LET d == Driver(w) IN
         /\ d \in Drivers /\ Ride(w) \in Rides /\ row[d].state = "AVAILABLE" /\ row[d].located
         /\ row'[d].state = "BUSY" /\ row'[d].located /\ row'[d].version = row[d].version + 1
         /\ \A e \in Drivers \ {d} : row'[e] = row[e]
<1>1. /\ Driver(w) \in Drivers /\ Ride(w) \in Rides /\ row[Driver(w)].state = "AVAILABLE"
      /\ saga[w].copy = Changed(Driver(w), "BUSY") /\ row[Driver(w)].located /\ TypeOK
  BY RideOfAssumption DEF Inv, ReserveSave, SagaInv, Ride
<1>2. row' = [row EXCEPT ![Driver(w)] = saga[w].copy] /\ row \in [Drivers -> Rows]
  BY <1>1 DEF ReserveSave, TypeOK
<1>3. /\ Changed(Driver(w), "BUSY").state = "BUSY"
      /\ Changed(Driver(w), "BUSY").version = row[Driver(w)].version + 1
      /\ Changed(Driver(w), "BUSY").located = row[Driver(w)].located
  BY <1>1, ChangedRow DEF DriverStates
<1>4. QED
  BY <1>1, <1>2, <1>3

\* A release that goes through frees a BUSY driver.
LEMMA CompensateWrites ==
  ASSUME Inv, NEW w \in Workers, CompensateSave(w)
  PROVE  LET d == Driver(w) IN
         /\ d \in Drivers /\ row[d].state = "BUSY" /\ row[d].located
         /\ row'[d].state = "AVAILABLE" /\ row'[d].located /\ row'[d].version = row[d].version + 1
         /\ \A e \in Drivers \ {d} : row'[e] = row[e]
<1>1. /\ Driver(w) \in Drivers /\ row[Driver(w)].state = "BUSY"
      /\ saga[w].copy = Changed(Driver(w), "AVAILABLE") /\ row[Driver(w)].located /\ TypeOK
  BY DEF Inv, CompensateSave, SagaInv, Released
<1>2. row' = [row EXCEPT ![Driver(w)] = saga[w].copy] /\ row \in [Drivers -> Rows]
  BY <1>1 DEF CompensateSave, TypeOK
<1>3. /\ Changed(Driver(w), "AVAILABLE").state = "AVAILABLE"
      /\ Changed(Driver(w), "AVAILABLE").version = row[Driver(w)].version + 1
      /\ Changed(Driver(w), "AVAILABLE").located = row[Driver(w)].located
  BY <1>1, ChangedRow DEF DriverStates
<1>4. QED
  BY <1>1, <1>2, <1>3

\* The save of an app that goes through is a change its aggregate allows.
LEMMA AppWrites ==
  ASSUME Inv, NEW d \in Drivers, AppSave(d)
  PROVE  /\ row[d].state # "NONE" /\ row'[d] = appRow[d]
         /\ row'[d].version = row[d].version + 1 /\ (row[d].located => row'[d].located)
         /\ \/ row'[d].state = row[d].state
            \/ row'[d].state \in DriverTransitions[row[d].state]
         /\ row'[d].state \in DriverStates
         /\ \A e \in Drivers \ {d} : row'[e] = row[e]
<1>1. TypeOK /\ row \in [Drivers -> Rows] /\ AppChange(d, appRow[d])
  BY DEF Inv, AppInv, AppSave, TypeOK
<1>2. row' = [row EXCEPT ![d] = appRow[d]]
  BY DEF AppSave
<1>3. \/ appRow[d].state = row[d].state
      \/ appRow[d].state \in DriverTransitions[row[d].state]
  <2>1. CASE row[d].state \in {"AVAILABLE", "BUSY"} /\ appRow[d] = Relocated(d)
    BY <1>1, <2>1, RelocatedRow DEF DriverStates
  <2>2. ASSUME row[d].state # "NONE", NEW s \in DriverTransitions[row[d].state],
               appRow[d] = Changed(d, s)
        PROVE  appRow[d].state \in DriverTransitions[row[d].state]
    <3>1. s \in DriverStates
      BY <1>1, <2>2, RowFields, DriverStateTable
    <3>2. QED
      BY <1>1, <2>2, <3>1, ChangedRow
  <2>3. QED
    BY <1>1, <2>1, <2>2 DEF AppChange
<1>4. row[d].state # "NONE"
  BY <1>1 DEF AppChange
<1>5. QED
  BY <1>1, <1>2, <1>3, <1>4, AppChangeType

\* Registration makes the first version of a row and touches no other.
LEMMA RegisterWrites ==
  ASSUME Inv, NEW d \in Drivers, RegisterDriver(d)
  PROVE  /\ row[d].state = "NONE" /\ ~row[d].located /\ row[d].version = 0
         /\ row'[d].state = "OFFLINE" /\ row'[d].version = 1
         /\ \A e \in Drivers \ {d} : row'[e] = row[e]
  BY DEF RegisterDriver, Inv, TypeOK, AppInv, AbsentRow

\* A row that changes gets a higher version; what a search relied on stays.
LEMMA RowsRise ==
  ASSUME Inv, [Next]_vars, NEW d \in Drivers
  PROVE  \/ row'[d] = row[d]
         \/ /\ row'[d].version = row[d].version + 1
            /\ row'[d].state # "NONE"
            /\ row[d].located => row'[d].located
<1>1. ASSUME NEW w \in Workers, ReserveSave(w) \/ CompensateSave(w)
      PROVE  \/ row'[d] = row[d]
             \/ /\ row'[d].version = row[d].version + 1 /\ row'[d].state # "NONE"
                /\ row[d].located => row'[d].located
  BY <1>1, ReserveWrites, CompensateWrites
<1>2. ASSUME NEW e \in Drivers, AppSave(e)
      PROVE  \/ row'[d] = row[d]
             \/ /\ row'[d].version = row[d].version + 1 /\ row'[d].state # "NONE"
                /\ row[d].located => row'[d].located
  BY <1>2, AppWrites DEF DriverStates
<1>3. ASSUME NEW e \in Drivers, RegisterDriver(e)
      PROVE  \/ row'[d] = row[d]
             \/ /\ row'[d].version = row[d].version + 1 /\ row'[d].state # "NONE"
                /\ row[d].located => row'[d].located
  BY <1>3, RegisterWrites
<1>4. QED
  BY <1>1, <1>2, <1>3, RowWriters

\* A copy that was not ahead of its row is not ahead of it later, and fits only a row that
\* has not changed.
LEMMA BehindKept ==
  ASSUME Inv, [Next]_vars, NEW d \in Drivers, NEW a \in Rows, Behind(d, a)
  PROVE  Behind(d, a)' /\ (VersionMatches(d, a)' => row'[d] = row[d] /\ VersionMatches(d, a))
<1>1. row[d].version \in Nat /\ row'[d].version \in Nat /\ a.version \in Nat
  BY TypeStep DEF Inv, TypeOK, Rows
<1>2. CASE row'[d] = row[d]
  BY <1>2 DEF Behind, VersionMatches
<1>3. CASE row'[d].version = row[d].version + 1
  BY <1>1, <1>3 DEF Behind, VersionMatches
<1>4. QED
  BY <1>2, <1>3, RowsRise

\* What was computed from a row that has not changed is still computed from it.
LEMMA SameRow ==
  ASSUME NEW d, row'[d] = row[d]
  PROVE  /\ \A s : Changed(d, s)' = Changed(d, s)
         /\ Released(d)' = Released(d) /\ Relocated(d)' = Relocated(d)
         /\ \A a : AppChange(d, a) => AppChange(d, a)'
  BY DEF Changed, Released, Relocated, AppChange

\* The driver of a ride is set once.
LEMMA RideDriverStays ==
  ASSUME Inv, [Next]_vars, NEW r \in Rides
  PROVE  /\ rideDriver[r] \in Drivers => rideDriver'[r] = rideDriver[r]
         /\ RideInv(r)'
<1>1. RideInv(r) /\ TypeOK
  BY DEF Inv
<1>2. CASE UNCHANGED rideVars
  BY <1>1, <1>2 DEF RideInv, rideVars
<1>3. ASSUME NEW w \in Workers, Assign(w)
      PROVE  (rideDriver[r] \in Drivers => rideDriver'[r] = rideDriver[r]) /\ RideInv(r)'
  <2>1. Ride(w) \in Rides /\ Driver(w) \in Drivers
    BY <1>3, RideOfAssumption DEF Inv, Assign, SagaInv, Ride
  <2>2. /\ rideState[Ride(w)] = "DISPATCHING"
        /\ rideState' = [rideState EXCEPT ![Ride(w)] = "ASSIGNED"]
        /\ rideDriver' = [rideDriver EXCEPT ![Ride(w)] = Driver(w)]
    BY <1>3 DEF Assign
  <2>3. QED
    BY <1>1, <2>1, <2>2, AbsentAssumption DEF RideInv, TypeOK
<1>4. ASSUME NEW s \in Rides, RideEnds(s)
      PROVE  (rideDriver[r] \in Drivers => rideDriver'[r] = rideDriver[r]) /\ RideInv(r)'
  BY <1>1, <1>4 DEF RideEnds, RideInv, TypeOK
<1>5. QED
  BY <1>2, <1>3, <1>4
  DEF Next, Dispatch, App, Begin, CheckCandidate, NoEligibleDrivers, ReserveLoad, ReserveSave,
      ReserveRefused, ReserveConflict, AssignRefused, CompensateLoad, CompensateSave,
      CompensateConflict, StatementFails, MarkSucceeded, MarkFailed, Replay, RegisterDriver,
      UpdateAvailability, UpdateLocation, AppLoads, AppSave, AppConflict, AppIndex,
      Restart, vars

-----------------------------------------------------------------------------
(* What sagas and apps hold.                                               *)

\* A driver that a saga chose stays located and registered.
LEMMA WinnerStays ==
  ASSUME Inv, [Next]_vars, NEW d \in Drivers, row[d].located, row[d].state # "NONE"
  PROVE  row'[d].located /\ row'[d].state # "NONE"
  BY RowsRise

\* The ride of a saga under way.
LEMMA SagaRide ==
  ASSUME Inv, NEW w \in Workers, pc[w] # "idle"
  PROVE  saga[w].corr \in Corrs /\ Ride(w) \in Rides
  BY RideOfAssumption DEF Inv, SagaInv, Ride

\* What a saga that does nothing holds stays true.
LEMMA SagaKept ==
  ASSUME Inv, [Next]_vars, NEW w \in Workers, pc'[w] = pc[w], saga'[w] = saga[w]
  PROVE  SagaInv(w)'
<1> DEFINE d == Driver(w)
           a == saga[w].copy
<1>1. SagaInv(w) /\ a \in Rows /\ d \in Drivers \cup {NoDriver}
  BY SagaType DEF Inv, Driver
<1>2. d' = d /\ a' = a /\ Ride(w)' = Ride(w)
  BY DEF Driver, Ride
<1>3. d \in Drivers => row'[d].located /\ row'[d].state # "NONE"
  BY <1>1, WinnerStays DEF SagaInv
<1>4. ASSUME d \in Drivers, Behind(d, a)
      PROVE  /\ Behind(d, a)'
             /\ VersionMatches(d, a)' => row'[d] = row[d] /\ VersionMatches(d, a)
  BY <1>1, <1>2, <1>4, BehindKept DEF Behind, VersionMatches
<1>5. pc[w] = "saving" => /\ Behind(d, a)'
                          /\ VersionMatches(d, a)' => /\ row'[d].state = "AVAILABLE"
                                                      /\ a = Changed(d, "BUSY")'
  <2>1. row'[d] = row[d] => Changed(d, "BUSY")' = Changed(d, "BUSY")
    BY <1>2 DEF Changed
  <2>2. QED
    BY <1>1, <1>4, <2>1 DEF SagaInv
<1>6. pc[w] = "releasing" => /\ Behind(d, a)'
                             /\ VersionMatches(d, a)' => row'[d].state = "BUSY" /\ a = Released(d)'
  <2>1. row'[d] = row[d] => Released(d)' = Released(d)
    BY <1>2 DEF Released, Changed
  <2>2. QED
    BY <1>1, <1>4, <2>1 DEF SagaInv
<1>7. pc[w] = "succeeding" => rideDriver'[Ride(w)] = d
  BY <1>1, SagaRide, RideDriverStays DEF SagaInv
<1>8. QED
  BY <1>1, <1>2, <1>3, <1>5, <1>6, <1>7 DEF SagaInv

\* A step of one saga leaves the others where they are.
LEMMA OthersWait ==
  ASSUME Inv, NEW w \in Workers, Dispatch(w), NEW v \in Workers, v # w
  PROVE  pc'[v] = pc[v] /\ saga'[v] = saga[v]
  BY DEF Inv, TypeOK, Dispatch, Begin, CheckCandidate, NoEligibleDrivers, ReserveLoad,
         ReserveRefused, ReserveSave, ReserveConflict, Assign, AssignRefused, CompensateLoad,
         CompensateSave, CompensateConflict, StatementFails, MarkSucceeded, MarkFailed,
         Retry, Finish, To

\* A saga that is in none of the states in which it holds more than a driver.
LEMMA LightSaga ==
  ASSUME Inv, [Next]_vars, NEW w \in Workers, pc'[w] \in {"checking", "reserving", "failing",
             "assigning", "compensating"},
         saga'[w].corr = saga[w].corr, saga'[w].winner = saga[w].winner, pc[w] # "idle",
         pc'[w] \in {"reserving", "assigning", "compensating"} => Driver(w) \in Drivers
  PROVE  SagaInv(w)'
  BY WinnerStays DEF SagaInv, Inv, Driver

\* Every step keeps what is said of a saga's memory.
LEMMA SagaStep ==
  ASSUME Inv, [Next]_vars, NEW w \in Workers
  PROVE  SagaInv(w)'
<1>0. /\ TypeOK /\ SagaInv(w) /\ pc \in [Workers -> Labels] /\ saga \in [Workers -> Sagas]
      /\ saga[w] \in Sagas
  BY SagaType DEF Inv, TypeOK, Labels
<1>1. CASE pc'[w] = pc[w] /\ saga'[w] = saga[w]
  BY <1>1, SagaKept
<1>2. CASE pc'[w] = "idle" /\ saga'[w] = IdleSaga
  BY <1>2, AbsentTypes, AbsentAssumption DEF SagaInv, Driver
<1>3. ASSUME NEW c \in Corrs, Begin(w, c)
      PROVE  SagaInv(w)'
  <2>1. pc'[w] = "checking" /\ saga'[w].corr = c /\ saga'[w].winner = NoDriver
    BY <1>0, <1>3 DEF Begin, To, IdleSaga
  <2>2. QED
    BY <2>1, AbsentAssumption DEF SagaInv, Driver
<1>4. ASSUME NEW d \in Drivers, CheckCandidate(w, d)
      PROVE  SagaInv(w)'
  <2>1. CASE Eligible(d)
    <3>1. pc'[w] = "reserving" /\ pc[w] # "idle" /\ row' = row
      BY <1>0, <1>4, <2>1 DEF CheckCandidate, To
    <3>2. saga' = [saga EXCEPT ![w] = [[saga[w] EXCEPT !.near = {}] EXCEPT !.winner = d]]
      BY <1>4, <2>1 DEF CheckCandidate
    <3>3. saga'[w].corr = saga[w].corr /\ saga'[w].winner = d
      BY <1>0, <3>2 DEF Sagas
    <3>4. QED
      BY <1>0, <2>1, <3>1, <3>3 DEF SagaInv, Driver, Eligible
  <2>2. CASE ~Eligible(d)
    <3>1. /\ pc' = pc /\ pc[w] = "checking"
          /\ saga' = [saga EXCEPT ![w] = [saga[w] EXCEPT !.near = @ \ {d}]]
      BY <1>4, <2>2 DEF CheckCandidate
    <3>2. saga'[w].corr = saga[w].corr /\ saga'[w].winner = saga[w].winner
      BY <1>0, <3>1 DEF Sagas
    <3>3. QED
      BY <3>1, <3>2, LightSaga
  <2>3. QED
    BY <2>1, <2>2
<1>5. CASE NoEligibleDrivers(w) \/ ReserveRefused(w) \/ AssignRefused(w)
  <2>1. saga' = saga /\ pc[w] # "idle" /\ pc'[w] \in {"failing", "compensating"}
        /\ (pc'[w] = "compensating" => pc[w] = "assigning")
    BY <1>0, <1>5 DEF NoEligibleDrivers, ReserveRefused, AssignRefused, To
  <2>2. QED
    BY <1>0, <2>1, LightSaga DEF SagaInv
<1>6. ASSUME NEW a \in Rows, saga' = [saga EXCEPT ![w].copy = a]
      PROVE  /\ saga'[w].corr = saga[w].corr /\ saga'[w].winner = saga[w].winner
             /\ saga'[w].copy = a
  BY <1>0, <1>6 DEF Sagas
<1>7. CASE ReserveLoad(w) \/ (CompensateLoad(w) /\ row[Driver(w)].state = "BUSY")
  <2> DEFINE d == Driver(w)
             s == IF ReserveLoad(w) THEN "BUSY" ELSE "AVAILABLE"
             a == Changed(d, s)
  <2>1. /\ pc[w] \in {"reserving", "compensating"} /\ row' = row
        /\ pc'[w] = IF ReserveLoad(w) THEN "saving" ELSE "releasing"
        /\ saga' = [saga EXCEPT ![w].copy = a]
        /\ row[d].state = IF ReserveLoad(w) THEN "AVAILABLE" ELSE "BUSY"
    BY <1>0, <1>7 DEF ReserveLoad, CompensateLoad, To, Released, Reservable
  <2>2. d \in Drivers /\ row[d].located /\ row[d].state # "NONE" /\ saga[w].corr \in Corrs
    BY <1>0, <2>1 DEF SagaInv
  <2>3. a \in Rows /\ a.version = row[d].version + 1 /\ row[d].version \in Nat
    BY <1>0, <2>2, ChangedRow, RowFields DEF DriverStates
  <2>4. /\ saga'[w].corr = saga[w].corr /\ saga'[w].winner = d /\ saga'[w].copy = a
    BY <2>1, <2>3, <1>6 DEF Driver
  <2>5. Behind(d, a)
    BY <2>3 DEF Behind
  <2>6. QED
    <3>1. CASE ReserveLoad(w)
      BY <2>1, <2>2, <2>4, <2>5, <3>1 DEF SagaInv, Driver, Changed, Behind
    <3>2. CASE ~ReserveLoad(w)
      BY <2>1, <2>2, <2>4, <2>5, <3>2 DEF SagaInv, Driver, Changed, Behind, Released
    <3>3. QED
      BY <3>1, <3>2
<1>8. CASE CompensateLoad(w) /\ row[Driver(w)].state # "BUSY"
  <2>1. saga' = saga /\ pc[w] # "idle" /\ pc'[w] = "failing"
    BY <1>0, <1>8 DEF CompensateLoad, To
  <2>2. QED
    BY <2>1, LightSaga
<1>9. CASE ReserveSave(w)
  <2>1. /\ pc[w] = "saving" /\ pc'[w] = "assigning" /\ saga' = [saga EXCEPT ![w].copy = AbsentRow]
    BY <1>0, <1>9 DEF ReserveSave, To
  <2>2. QED
    BY <1>0, <1>6, <2>1, LightSaga, AbsentTypes DEF SagaInv
<1>10. CASE Retry(w) /\ pc[w] \in {"reserving", "saving"}
  <2>1. CASE saga[w].tries + 1 < MaxReservationAttempts
    <3>1. /\ pc'[w] = "reserving"
          /\ saga' = [saga EXCEPT ![w] = [[saga[w] EXCEPT !.tries = @ + 1] EXCEPT !.copy = AbsentRow]]
      BY <1>0, <1>10, <2>1 DEF Retry, To
    <3>2. saga'[w].corr = saga[w].corr /\ saga'[w].winner = saga[w].winner
      BY <1>0, <3>1 DEF Sagas
    <3>3. QED
      BY <1>0, <1>10, <3>1, <3>2, LightSaga DEF SagaInv
  <2>2. CASE ~(saga[w].tries + 1 < MaxReservationAttempts)
    <3>1. pc'[w] = "failing" /\ saga' = saga
      BY <1>0, <1>10, <2>2 DEF Retry, To
    <3>2. QED
      BY <1>10, <3>1, LightSaga
  <2>3. QED
    BY <2>1, <2>2
<1>11. CASE CompensateSave(w) \/ CompensateConflict(w)
            \/ (pc[w] \in {"compensating", "releasing"} /\ To(w, "failing") /\ UNCHANGED saga)
  <2>1. pc'[w] = "failing" /\ saga' = saga /\ pc[w] # "idle"
    BY <1>0, <1>11 DEF CompensateSave, CompensateConflict, To
  <2>2. QED
    BY <2>1, LightSaga
<1>12. CASE Assign(w)
  <2>1. /\ pc[w] = "assigning" /\ pc'[w] = "succeeding" /\ saga' = saga /\ row' = row
        /\ rideDriver' = [rideDriver EXCEPT ![Ride(w)] = Driver(w)]
    BY <1>0, <1>12 DEF Assign, To
  <2>2. Ride(w) \in Rides /\ rideDriver'[Ride(w)] = Driver(w)
    BY <1>0, <2>1, SagaRide DEF TypeOK
  <2>3. QED
    BY <1>0, <2>1, <2>2 DEF SagaInv, Driver, Ride
<1>13. CASE MarkSucceeded(w) \/ MarkFailed(w)
  BY <1>0, <1>2, <1>13 DEF MarkSucceeded, MarkFailed, Finish, To
<1>14. CASE Dispatch(w)
  BY <1>3, <1>4, <1>5, <1>7, <1>8, <1>9, <1>10, <1>11, <1>12, <1>13, <1>14
     DEF Dispatch, ReserveConflict, StatementFails
<1>15. CASE UNCHANGED <<pc, saga>>
  BY <1>1, <1>15
<1>16. CASE Restart
  BY <1>2, <1>16 DEF Restart
<1>17. ASSUME NEW v \in Workers, Dispatch(v), v # w
       PROVE  SagaInv(w)'
  BY <1>17, OthersWait, SagaKept
<1>18. QED
  BY <1>14, <1>15, <1>16, <1>17 DEF Next, App, Replay, RegisterDriver, UpdateAvailability,
     UpdateLocation, AppLoads, AppSave, AppConflict, AppIndex, RideEnds, vars, memoryVars

\* Every step keeps what is said of a request of a driver's app.
LEMMA AppStep ==
  ASSUME Inv, [Next]_vars, NEW d \in Drivers
  PROVE  AppInv(d)'
<1>0. /\ TypeOK /\ AppInv(d) /\ appRow[d] \in Rows
      /\ appPc \in [Drivers -> {"idle", "saving", "indexing"}] /\ appRow \in [Drivers -> Rows]
  BY DEF Inv, TypeOK
<1>1. row'[d].state = "NONE" => row'[d] = AbsentRow
  BY <1>0, RowsRise DEF AppInv
<1>2. CASE appPc'[d] = appPc[d] /\ appRow'[d] = appRow[d]
  <2> DEFINE a == appRow[d]
  <2>1. a' = a
    BY <1>2
  <2>2. ASSUME appPc[d] = "saving"
        PROVE  Behind(d, a)' /\ (VersionMatches(d, a)' => AppChange(d, a)')
    <3>1. a \in Rows /\ Behind(d, a) /\ (VersionMatches(d, a) => AppChange(d, a))
      BY <1>0, <2>2 DEF AppInv
    <3>2. /\ a.version # 0 /\ a.version - 1 <= row'[d].version
          /\ row'[d].version = a.version - 1 => row'[d] = row[d] /\ VersionMatches(d, a)
      BY <2>1, <3>1, BehindKept DEF Behind, VersionMatches
    <3>3. row'[d] = row[d] /\ AppChange(d, a) => AppChange(d, a)'
      BY <2>1 DEF AppChange, Changed, Relocated
    <3>4. QED
      BY <2>1, <3>1, <3>2, <3>3 DEF Behind, VersionMatches
  <2>3. QED
    BY <1>1, <1>2, <2>1, <2>2 DEF AppInv
<1>3. CASE appPc'[d] # "saving"
  BY <1>1, <1>3 DEF AppInv
<1>4. ASSUME NEW a, AppChange(d, a), AppLoads(d, a)
      PROVE  AppInv(d)'
  <2>1. appRow'[d] = a /\ row' = row
    BY <1>0, <1>4 DEF AppLoads
  <2>2. a.version = row[d].version + 1 /\ row[d].version \in Nat
    BY <1>0, <1>4, AppChangeType, RowFields
  <2>3. Behind(d, a)
    BY <2>2 DEF Behind
  <2>4. QED
    BY <1>1, <1>4, <2>1, <2>3 DEF AppInv, Behind, AppChange, Changed, Relocated
<1>5. ASSUME NEW e \in Drivers, App(e)
      PROVE  AppInv(d)'
  <2>1. CASE e # d
    <3>1. appPc'[d] = appPc[d] /\ appRow'[d] = appRow[d]
      BY <1>0, <1>5, <2>1 DEF App, RegisterDriver, UpdateAvailability, UpdateLocation, AppLoads,
                              AppSave, AppConflict, AppIndex, memoryVars
    <3>2. QED
      BY <1>2, <3>1
  <2>2. CASE e = d
    <3>1. CASE RegisterDriver(d)
      BY <1>2, <3>1 DEF RegisterDriver, memoryVars
    <3>2. CASE AppSave(d) \/ AppConflict(d) \/ AppIndex(d)
      BY <1>0, <1>3, <3>2 DEF AppSave, AppConflict, AppIndex
    <3>3. ASSUME NEW s \in DriverStates, UpdateAvailability(d, s)
          PROVE  AppInv(d)'
      BY <1>4, <3>3 DEF UpdateAvailability, AppChange
    <3>4. CASE UpdateLocation(d)
      BY <1>4, <3>4 DEF UpdateLocation, AppChange
    <3>5. QED
      BY <1>5, <2>2, <3>1, <3>2, <3>3, <3>4 DEF App
  <2>3. QED
    BY <2>1, <2>2
<1>6. CASE UNCHANGED <<appPc, appRow>>
  BY <1>2, <1>6
<1>7. CASE Restart
  BY <1>3, <1>7 DEF Restart
<1>8. QED
  BY <1>5, <1>6, <1>7
  DEF Next, Dispatch, Begin, CheckCandidate, NoEligibleDrivers, ReserveLoad, ReserveSave,
      ReserveRefused, ReserveConflict, Assign, AssignRefused, CompensateLoad, CompensateSave,
      CompensateConflict, StatementFails, MarkSucceeded, MarkFailed, Replay, RideEnds, vars,
      memoryVars

-----------------------------------------------------------------------------
(* What requests were told.                                                *)

\* A success is stored or answered with the driver the ride has.
LEMMA StoreStep ==
  ASSUME Inv, [Next]_vars
  PROVE  (\A c \in Corrs : StoreInv(c)') /\ AnswersAreTrue'
<1>0. /\ TypeOK /\ RideOf \in [Corrs -> Rides] /\ AnswersAreTrue
      /\ \A c \in Corrs : StoreInv(c)
      /\ \A r \in Rides : rideDriver[r] \in Drivers => rideDriver'[r] = rideDriver[r]
  BY RideDriverStays, RideOfAssumption DEF Inv
<1>1. ASSUME \A c \in Corrs : store'[c].status = "SUCCEEDED" =>
                 store[c].status = "SUCCEEDED" /\ store'[c].driver = store[c].driver
      PROVE  \A c \in Corrs : StoreInv(c)'
  BY <1>0, <1>1 DEF StoreInv
<1>2. ASSUME UNCHANGED answers PROVE AnswersAreTrue'
  BY <1>0, <1>2 DEF AnswersAreTrue, TypeOK
<1>3. ASSUME NEW w \in Workers, NEW c \in Corrs, Begin(w, c)
      PROVE  (\A x \in Corrs : StoreInv(x)') /\ AnswersAreTrue'
  <2>1. store' = [store EXCEPT ![c] = [store[c] EXCEPT !.status = "IN_PROGRESS"]]
        /\ answers' = answers
    BY <1>3 DEF Begin, historyVars
  <2>2. store'[c].status = "IN_PROGRESS" /\ \A x \in Corrs \ {c} : store'[x] = store[x]
    BY <1>0, <2>1 DEF TypeOK, Records
  <2>3. QED
    BY <1>1, <1>2, <2>1, <2>2
<1>4. ASSUME NEW w \in Workers, MarkFailed(w)
      PROVE  (\A x \in Corrs : StoreInv(x)') /\ AnswersAreTrue'
  <2> DEFINE c == saga[w].corr
  <2>1. store' = [store EXCEPT ![c] = [store[c] EXCEPT !.status = "FAILED"]] /\ c \in Corrs
        /\ answers' = answers
    BY <1>4, SagaRide DEF MarkFailed, historyVars
  <2> HIDE DEF c
  <2>2. store'[c].status = "FAILED" /\ \A x \in Corrs \ {c} : store'[x] = store[x]
    BY <1>0, <2>1 DEF TypeOK, Records
  <2>3. QED
    BY <1>1, <1>2, <2>1, <2>2
<1>5. ASSUME NEW w \in Workers, MarkSucceeded(w)
      PROVE  (\A x \in Corrs : StoreInv(x)') /\ AnswersAreTrue'
  <2> DEFINE c == saga[w].corr
             d == Driver(w)
  <2>1. c \in Corrs /\ d \in Drivers /\ rideDriver[RideOf[c]] = d
    BY <1>5, SagaRide DEF MarkSucceeded, Inv, SagaInv, Ride
  <2>2. /\ store' = [store EXCEPT ![c] = [status |-> "SUCCEEDED", driver |-> d]]
        /\ answers' = answers \cup {[ride |-> RideOf[c], driver |-> d]}
        /\ rideDriver' = rideDriver
    BY <1>5 DEF MarkSucceeded, rideVars, Ride
  <2> HIDE DEF c, d
  <2>3. \A x \in Corrs : StoreInv(x)'
    BY <1>0, <2>1, <2>2 DEF StoreInv, TypeOK
  <2>4. QED
    BY <1>0, <2>1, <2>2, <2>3 DEF AnswersAreTrue
<1>6. ASSUME NEW c \in Corrs, Replay(c)
      PROVE  (\A x \in Corrs : StoreInv(x)') /\ AnswersAreTrue'
  <2>1. /\ answers' = answers \cup {[ride |-> RideOf[c], driver |-> store[c].driver]}
        /\ rideDriver' = rideDriver /\ store' = store /\ store[c].status = "SUCCEEDED"
    BY <1>6 DEF Replay, rideVars, memoryVars
  <2>2. QED
    BY <1>0, <2>1 DEF AnswersAreTrue, StoreInv
<1>7. CASE Restart
  BY <1>1, <1>2, <1>7 DEF Restart, NoRecord, historyVars
<1>8. CASE UNCHANGED <<store, answers>>
  BY <1>1, <1>2, <1>8
<1>9. ASSUME NEW w \in Workers, Dispatch(w)
      PROVE  (\A x \in Corrs : StoreInv(x)') /\ AnswersAreTrue'
  BY <1>3, <1>4, <1>5, <1>8, <1>9
  DEF Dispatch, CheckCandidate, NoEligibleDrivers, ReserveLoad, ReserveSave, ReserveRefused,
      ReserveConflict, Assign, AssignRefused, CompensateLoad, CompensateSave,
      CompensateConflict, StatementFails, historyVars
<1>10. ASSUME NEW d \in Drivers, App(d)
       PROVE  (\A x \in Corrs : StoreInv(x)') /\ AnswersAreTrue'
  BY <1>8, <1>10 DEF App, RegisterDriver, UpdateAvailability, UpdateLocation, AppLoads, AppSave,
                     AppConflict, AppIndex, memoryVars, historyVars
<1>11. CASE UNCHANGED vars \/ \E r \in Rides : RideEnds(r)
  BY <1>8, <1>11 DEF RideEnds, vars, memoryVars, historyVars
<1>12. QED
  BY <1>6, <1>7, <1>9, <1>10, <1>11 DEF Next

-----------------------------------------------------------------------------
(* Who a reservation belongs to.                                           *)

\* A saga that lets go of a driver without a release has got him a ride, or has lost him.
LEMMA HolderKept ==
  ASSUME Inv, NEW w \in Workers, Dispatch(w), ~CompensateSave(w),
         NEW d \in Drivers, row[d].state = "BUSY", Holds(w, d)
  PROVE  \/ Holds(w, d)' /\ Ride(w)' = Ride(w)
         \/ rideDriver'[Ride(w)] = d
         \/ d \in lost'
<1>1. /\ TypeOK /\ SagaInv(w) /\ pc \in [Workers -> Labels] /\ saga[w] \in Sagas /\ Driver(w) = d
      /\ pc[w] \in {"assigning", "succeeding", "compensating", "releasing"}
      /\ saga \in [Workers -> Sagas]
  BY SagaType DEF Inv, TypeOK, Labels, Holds
<1>2. CASE Assign(w)
  BY <1>1, <1>2, SagaRide DEF Assign, TypeOK
<1>3. CASE AssignRefused(w)
  BY <1>1, <1>3 DEF AssignRefused, To, Holds, Driver, Ride
<1>4. CASE CompensateLoad(w)
  <2>1. /\ saga' = [saga EXCEPT ![w] = [saga[w] EXCEPT !.copy = Released(d)]]
        /\ pc' = [pc EXCEPT ![w] = "releasing"]
    BY <1>1, <1>4 DEF CompensateLoad, To
  <2>2. saga'[w].winner = saga[w].winner /\ saga'[w].corr = saga[w].corr
    BY <1>1, <2>1 DEF Sagas
  <2>3. QED
    BY <1>1, <2>1, <2>2 DEF Holds, Driver, Ride
<1>5. CASE CompensateConflict(w) \/ StatementFails(w)
  BY <1>1, <1>5 DEF CompensateConflict, StatementFails
<1>6. CASE MarkSucceeded(w)
  BY <1>1, <1>6 DEF MarkSucceeded, SagaInv, rideVars
<1>7. QED
  BY <1>1, <1>2, <1>3, <1>4, <1>5, <1>6
  DEF Dispatch, Begin, CheckCandidate, NoEligibleDrivers, ReserveLoad, ReserveRefused,
      ReserveSave, ReserveConflict, MarkFailed

\* A reservation that is not touched keeps its owner, unless a restart takes it.
LEMMA ReservedKept ==
  ASSUME Inv, [Next]_vars, NEW d \in Drivers,
         reservedFor'[d] = reservedFor[d], row'[d].state = row[d].state,
         lost \subseteq lost', restarted => restarted',
         \A w \in Workers : row[d].state = "BUSY" /\ Holds(w, d) =>
             \/ Holds(w, d)' /\ Ride(w)' = Ride(w)
             \/ rideDriver'[Ride(w)] = d \/ d \in lost'
             \/ restarted'
  PROVE  ReservedInv(d)'
<1> SUFFICES ASSUME reservedFor[d] # NoRide
             PROVE  ReservedInv(d)'
  BY DEF ReservedInv
<1>1. ReservedInv(d) /\ reservedFor[d] \in Rides
  BY DEF Inv, TypeOK
<1>2. rideDriver[reservedFor[d]] = d => rideDriver'[reservedFor[d]] = d
  BY <1>1, RideDriverStays
<1>3. QED
  BY <1>1, <1>2 DEF ReservedInv

\* Every step keeps a reserved driver with an owner.
LEMMA ReservedStep ==
  ASSUME Inv, [Next]_vars, NEW d \in Drivers
  PROVE  ReservedInv(d)'
<1>0. TypeOK /\ ReservedInv(d) /\ reservedFor \in [Drivers -> Rides \cup {NoRide}]
  BY DEF Inv, TypeOK
<1>1. ASSUME NEW w \in Workers, ReserveSave(w)
      PROVE  ReservedInv(d)'
  <2>1. CASE d = Driver(w)
    <3>1. Ride(w) \in Rides /\ row'[d].state = "BUSY" /\ saga[w] \in Sagas /\ saga \in [Workers -> Sagas]
      BY <1>0, <1>1, <2>1, ReserveWrites, SagaType DEF TypeOK
    <3>2. /\ reservedFor'[d] = Ride(w) /\ pc'[w] = "assigning"
          /\ saga' = [saga EXCEPT ![w] = [saga[w] EXCEPT !.copy = AbsentRow]]
      BY <1>0, <1>1, <2>1 DEF ReserveSave, To, TypeOK
    <3>3. saga'[w].winner = saga[w].winner /\ saga'[w].corr = saga[w].corr
      BY <3>1, <3>2 DEF Sagas
    <3>4. Holds(w, d)' /\ Ride(w)' = Ride(w)
      BY <2>1, <3>2, <3>3 DEF Holds, Driver, Ride
    <3>5. QED
      BY <3>1, <3>2, <3>4 DEF ReservedInv
  <2>2. CASE d # Driver(w)
    <3>1. /\ reservedFor'[d] = reservedFor[d] /\ row'[d] = row[d]
          /\ UNCHANGED <<lost, restarted>> /\ ~Holds(w, d)
      BY <1>0, <1>1, <2>2, ReserveWrites DEF ReserveSave, counters, Holds
    <3>2. \A v \in Workers : Holds(v, d) => Holds(v, d)' /\ Ride(v)' = Ride(v)
      BY <1>1, <3>1, OthersWait DEF Holds, Driver, Ride, Dispatch
    <3>3. QED
      BY <3>1, <3>2, ReservedKept
  <2>3. QED
    BY <2>1, <2>2
<1>2. ASSUME NEW w \in Workers, CompensateSave(w)
      PROVE  ReservedInv(d)'
  <2>1. CASE d = Driver(w)
    BY <1>0, <1>2, <2>1 DEF CompensateSave, ReservedInv
  <2>2. CASE d # Driver(w)
    <3>1. /\ reservedFor'[d] = reservedFor[d] /\ row'[d] = row[d]
          /\ UNCHANGED <<lost, restarted>> /\ ~Holds(w, d)
      BY <1>0, <1>2, <2>2, CompensateWrites DEF CompensateSave, counters, Holds
    <3>2. \A v \in Workers : Holds(v, d) => Holds(v, d)' /\ Ride(v)' = Ride(v)
      BY <1>2, <3>1, OthersWait DEF Holds, Driver, Ride, Dispatch
    <3>3. QED
      BY <3>1, <3>2, ReservedKept
  <2>3. QED
    BY <2>1, <2>2
<1>3. ASSUME NEW w \in Workers, Dispatch(w), ~ReserveSave(w), ~CompensateSave(w)
      PROVE  ReservedInv(d)'
  <2>1. /\ UNCHANGED <<row, reservedFor, restarted>> /\ lost \subseteq lost'
    BY <1>3 DEF Dispatch, Begin, CheckCandidate, NoEligibleDrivers, ReserveLoad,
         ReserveRefused, ReserveConflict, Assign, AssignRefused, CompensateLoad,
         CompensateConflict, StatementFails, MarkSucceeded, MarkFailed, historyVars, counters
  <2>2. ASSUME NEW v \in Workers, row[d].state = "BUSY", Holds(v, d)
        PROVE  \/ Holds(v, d)' /\ Ride(v)' = Ride(v)
               \/ rideDriver'[Ride(v)] = d \/ d \in lost'
    <3>1. CASE v = w
      BY <1>3, <2>2, <3>1, HolderKept
    <3>2. CASE v # w
      BY <1>3, <2>2, <3>2, OthersWait DEF Holds, Driver, Ride
    <3>3. QED
      BY <3>1, <3>2
  <2>3. QED
    BY <2>1, <2>2, ReservedKept
<1>4. ASSUME UNCHANGED <<pc, saga, lost, restarted>>, reservedFor'[d] = reservedFor[d],
             row'[d].state = row[d].state
      PROVE  ReservedInv(d)'
  <2>1. \A w \in Workers : Holds(w, d)' = Holds(w, d) /\ Ride(w)' = Ride(w)
    BY <1>4 DEF Holds, Driver, Ride
  <2>2. QED
    BY <1>4, <2>1, ReservedKept
<1>5. ASSUME NEW e \in Drivers, AppSave(e)
      PROVE  ReservedInv(d)'
  <2>1. CASE e = d
    <3>1. row'[d] = appRow[d]
      BY <1>5, <2>1, AppWrites
    <3>2. CASE appRow[d].state = row[d].state
      BY <1>0, <1>4, <1>5, <2>1, <3>1, <3>2 DEF AppSave, counters
    <3>3. CASE appRow[d].state # row[d].state
      BY <1>0, <1>5, <2>1, <3>3 DEF AppSave, ReservedInv
    <3>4. QED
      BY <3>2, <3>3
  <2>2. CASE e # d
    BY <1>0, <1>4, <1>5, <2>2, AppWrites DEF AppSave, counters
  <2>3. QED
    BY <2>1, <2>2
<1>6. ASSUME NEW e \in Drivers, RegisterDriver(e)
      PROVE  ReservedInv(d)'
  <2>1. CASE e = d
    BY <1>0, <1>6, <2>1, RegisterWrites DEF ReservedInv, RegisterDriver, historyVars
  <2>2. CASE e # d
    BY <1>0, <1>4, <1>6, <2>2, RegisterWrites DEF RegisterDriver, memoryVars, historyVars
  <2>3. QED
    BY <2>1, <2>2
<1>7. ASSUME NEW e \in Drivers, App(e)
      PROVE  ReservedInv(d)'
  BY <1>4, <1>5, <1>6, <1>7 DEF App, UpdateAvailability, UpdateLocation, AppLoads, AppConflict,
                                AppIndex, historyVars, counters
<1>8. CASE Restart
  BY <1>0, <1>8 DEF Restart, ReservedInv, historyVars
<1>9. CASE UNCHANGED vars \/ (\E r \in Rides : RideEnds(r)) \/ (\E c \in Corrs : Replay(c))
  BY <1>4, <1>9 DEF RideEnds, Replay, vars, memoryVars, historyVars, counters
<1>10. QED
  BY <1>1, <1>2, <1>3, <1>7, <1>8, <1>9 DEF Next

-----------------------------------------------------------------------------
(* Whom the index lists.                                                   *)

\* Writing the index for one driver says nothing about another.
LEMMA IndexedOthers ==
  ASSUME NEW d, NEW e, d # e, NEW a
  PROVE  d \in Indexed(e, a) <=> d \in index
  BY DEF Indexed

\* A row that is not written leaves the index to mean what it meant.
LEMMA IndexKept ==
  ASSUME Inv, NEW d \in Drivers, row'[d] = row[d], restarted => restarted',
         WillBeListed(d)' = WillBeListed(d),
         row[d].state = "BUSY" => \A w \in Workers : Driver(w)' = d =>
                                      \E v \in Workers : Driver(v) = d
  PROVE  IndexInv(d)'
  BY DEF Inv, IndexInv

\* A saga chooses a driver only while he is AVAILABLE.
LEMMA WinnersAreNew ==
  ASSUME Inv, NEW w \in Workers, Dispatch(w), NEW d \in Drivers,
         NEW v \in Workers, Driver(v)' = d
  PROVE  Driver(v) = d \/ (row[d].state = "AVAILABLE" /\ row' = row)
<1>1. saga[v] \in Sagas /\ saga \in [Workers -> Sagas] /\ d # NoDriver
  BY SagaType, AbsentAssumption DEF Inv, TypeOK
<1>2. CASE v # w
  BY <1>2, OthersWait DEF Driver
<1>3. CASE v = w
  <2>1. ASSUME NEW c \in Corrs, Begin(w, c)
        PROVE  FALSE
    BY <1>1, <1>3, <2>1 DEF Begin, Driver, IdleSaga
  <2>2. ASSUME NEW e \in Drivers, CheckCandidate(w, e)
        PROVE  Driver(v) = d \/ (row[d].state = "AVAILABLE" /\ row' = row)
    <3>1. CASE Eligible(e)
      <4>1. saga' = [saga EXCEPT ![w] = [[saga[w] EXCEPT !.near = {}] EXCEPT !.winner = e]]
            /\ row' = row
        BY <2>2, <3>1 DEF CheckCandidate
      <4>2. saga'[w].winner = e
        BY <1>1, <1>3, <4>1 DEF Sagas
      <4>3. QED
        BY <1>3, <3>1, <4>1, <4>2 DEF Driver, Eligible
    <3>2. CASE ~Eligible(e)
      <4>1. saga' = [saga EXCEPT ![w] = [saga[w] EXCEPT !.near = @ \ {e}]]
        BY <2>2, <3>2 DEF CheckCandidate
      <4>2. QED
        BY <1>1, <1>3, <4>1 DEF Driver, Sagas
    <3>3. QED
      BY <3>1, <3>2
  <2>3. ASSUME NEW a, saga' = [saga EXCEPT ![w].copy = a]
        PROVE  Driver(v) = d
    BY <1>1, <1>3, <2>3 DEF Driver, Sagas
  <2>4. ASSUME Retry(w)
        PROVE  Driver(v) = d
    <3>1. CASE saga[w].tries + 1 < MaxReservationAttempts
      <4>1. saga' = [saga EXCEPT ![w] = [[saga[w] EXCEPT !.tries = @ + 1] EXCEPT !.copy = AbsentRow]]
        BY <2>4, <3>1 DEF Retry
      <4>2. QED
        BY <1>1, <1>3, <4>1 DEF Driver, Sagas
    <3>2. CASE ~(saga[w].tries + 1 < MaxReservationAttempts)
      BY <2>4, <3>2 DEF Retry, Driver
    <3>3. QED
      BY <3>1, <3>2
  <2>5. ASSUME Finish(w)
        PROVE  FALSE
    BY <1>1, <1>3, <2>5 DEF Finish, Driver, IdleSaga
  <2>6. saga' = saga => Driver(v) = d
    BY DEF Driver
  <2>7. QED
    BY <2>1, <2>2, <2>3, <2>4, <2>5, <2>6
    DEF Dispatch, NoEligibleDrivers, ReserveLoad, ReserveRefused, ReserveSave, ReserveConflict,
        Assign, AssignRefused, CompensateLoad, CompensateSave, CompensateConflict,
        StatementFails, MarkSucceeded, MarkFailed
<1>4. QED
  BY <1>2, <1>3

\* Every step keeps an available driver in the index, or about to be.
LEMMA IndexStep ==
  ASSUME Inv, [Next]_vars, NEW d \in Drivers
  PROVE  IndexInv(d)'
<1>0. /\ TypeOK /\ IndexInv(d) /\ appPc \in [Drivers -> {"idle", "saving", "indexing"}]
      /\ appRow \in [Drivers -> Rows]
  BY DEF Inv, TypeOK
<1>1. ASSUME UNCHANGED <<index, appPc, appRow>>
      PROVE  WillBeListed(d)' = WillBeListed(d)
  BY <1>1 DEF WillBeListed, Indexed
<1>2. ASSUME NEW w \in Workers, ReserveSave(w) \/ CompensateSave(w)
      PROVE  IndexInv(d)'
  <2>1. UNCHANGED <<index, appPc, appRow, restarted>> /\ Dispatch(w)
    BY <1>2 DEF ReserveSave, CompensateSave, Dispatch, counters
  <2>2. CASE d = Driver(w)
    <3>1. ReserveSave(w) => WillBeListed(d) \/ restarted
      BY <1>0, <2>2, ReserveWrites DEF IndexInv
    <3>2. CompensateSave(w) => WillBeListed(d) \/ restarted
      BY <1>0, <2>2, CompensateWrites DEF IndexInv
    <3>3. row'[d].state \notin {"OFFLINE", "NONE"}
      BY <1>2, <2>2, ReserveWrites, CompensateWrites
    <3>4. QED
      BY <1>1, <1>2, <2>1, <3>1, <3>2, <3>3 DEF IndexInv
  <2>3. CASE d # Driver(w)
    <3>1. row'[d] = row[d]
      BY <1>2, <2>3, ReserveWrites, CompensateWrites
    <3>2. QED
      BY <1>1, <2>1, <3>1, IndexKept, WinnersAreNew
  <2>4. QED
    BY <2>2, <2>3
<1>3. ASSUME NEW w \in Workers, Dispatch(w), ~ReserveSave(w), ~CompensateSave(w)
      PROVE  IndexInv(d)'
  <2>1. UNCHANGED <<row, index, appPc, appRow, restarted>>
    BY <1>3 DEF Dispatch, Begin, CheckCandidate, NoEligibleDrivers, ReserveLoad,
         ReserveRefused, ReserveConflict, Assign, AssignRefused, CompensateLoad,
         CompensateConflict, StatementFails, MarkSucceeded, MarkFailed, counters
  <2>2. QED
    BY <1>1, <1>3, <2>1, IndexKept, WinnersAreNew
<1>4. ASSUME UNCHANGED <<saga, restarted>>, row'[d] = row[d], WillBeListed(d)' = WillBeListed(d)
      PROVE  IndexInv(d)'
  BY <1>4, IndexKept DEF Driver
<1>5. CASE AppSave(d)
  <2> DEFINE a == appRow[d]
  <2>1. /\ appPc'[d] = "indexing" /\ UNCHANGED <<index, appRow, saga, restarted>>
        /\ appPc[d] = "saving"
    BY <1>0, <1>5 DEF AppSave, counters
  <2>2. /\ row'[d] = a /\ a.state \in DriverStates /\ row[d].state # "NONE"
        /\ a.state = row[d].state \/ a.state \in DriverTransitions[row[d].state]
    BY <1>5, AppWrites
  <2>3. WillBeListed(d) = (d \in index) /\ WillBeListed(d)' = (d \in Indexed(d, a))
    BY <2>1 DEF WillBeListed, Indexed
  <2>4. CASE a.state = "OFFLINE"
    BY <2>2, <2>3, <2>4 DEF IndexInv, Indexed
  <2>5. CASE a.state = "AVAILABLE" /\ a.located
    BY <2>2, <2>3, <2>5 DEF IndexInv, Indexed
  <2>6. CASE a.state = "AVAILABLE" /\ ~a.located
    BY <2>2, <2>6 DEF IndexInv
  <2>7. CASE a.state = "BUSY"
    <3>1. row[d].state \in {"AVAILABLE", "BUSY"}
      BY <1>0, <2>2, <2>7, RowFields DEF DriverTransitions, DriverStates
    <3>2. ASSUME NEW w \in Workers, Driver(w) = d, ~restarted
          PROVE  d \in index
      <4>1. row[d].located
        BY <3>2 DEF Inv, SagaInv
      <4>2. QED
        BY <1>0, <2>3, <3>1, <3>2, <4>1 DEF IndexInv
    <3>3. QED
      BY <2>1, <2>2, <2>3, <2>7, <3>2 DEF IndexInv, Indexed, Driver
  <2>8. QED
    BY <2>2, <2>4, <2>5, <2>6, <2>7 DEF DriverStates
<1>6. CASE RegisterDriver(d)
  <2>1. row[d].state = "NONE" /\ row'[d].state = "OFFLINE" /\ UNCHANGED <<memoryVars, restarted>>
    BY <1>6, RegisterWrites DEF RegisterDriver
  <2>2. QED
    BY <1>0, <1>1, <2>1 DEF IndexInv, memoryVars
<1>7. CASE AppConflict(d) \/ AppIndex(d) \/ \E a : AppLoads(d, a)
  <2>1. UNCHANGED <<saga, restarted, row>>
    BY <1>7 DEF AppConflict, AppIndex, AppLoads, counters
  <2>2. WillBeListed(d)' = WillBeListed(d)
    BY <1>0, <1>7 DEF WillBeListed, AppConflict, AppIndex, AppLoads
  <2>3. QED
    BY <1>4, <2>1, <2>2
<1>8. ASSUME NEW e \in Drivers, e # d, App(e)
      PROVE  IndexInv(d)'
  <2>1. UNCHANGED <<saga, restarted>> /\ row'[d] = row[d]
    BY <1>8, AppWrites, RegisterWrites
       DEF App, RegisterDriver, UpdateAvailability, UpdateLocation, AppLoads, AppSave,
           AppConflict, AppIndex, memoryVars, counters
  <2>2. appPc'[d] = appPc[d] /\ appRow'[d] = appRow[d]
    BY <1>0, <1>8 DEF App, RegisterDriver, UpdateAvailability, UpdateLocation, AppLoads, AppSave,
           AppConflict, AppIndex, memoryVars
  <2>3. d \in index' <=> d \in index
    BY <1>8, IndexedOthers DEF App, RegisterDriver, UpdateAvailability, UpdateLocation,
           AppLoads, AppSave, AppConflict, AppIndex, memoryVars
  <2>4. WillBeListed(d)' = WillBeListed(d)
    BY <2>2, <2>3 DEF WillBeListed, Indexed
  <2>5. QED
    BY <1>4, <2>1, <2>4
<1>9. CASE App(d)
  BY <1>5, <1>6, <1>7, <1>9 DEF App, UpdateAvailability, UpdateLocation
<1>10. CASE Restart
  BY <1>10 DEF Restart, IndexInv
<1>11. CASE UNCHANGED vars \/ (\E r \in Rides : RideEnds(r)) \/ (\E c \in Corrs : Replay(c))
  BY <1>1, <1>4, <1>11 DEF RideEnds, Replay, vars, memoryVars, counters
<1>12. QED
  BY <1>2, <1>3, <1>8, <1>9, <1>10, <1>11 DEF Next

-----------------------------------------------------------------------------

\* The invariant holds at first.
LEMMA InitInv == Init => Inv
<1> SUFFICES ASSUME Init PROVE Inv
  OBVIOUS
<1>1. OnlineRow \in Rows /\ OnlineRow.state = "AVAILABLE" /\ OnlineRow.located
  BY DEF OnlineRow, Rows, DriverStates
<1>2. TypeOK
  <2>1. row \in [Drivers -> Rows] /\ appRow \in [Drivers -> Rows] /\ index \subseteq Drivers
    BY <1>1, AbsentTypes, OnlineAssumption DEF Init
  <2>2. store \in [Corrs -> Records] /\ saga \in [Workers -> Sagas]
    BY AbsentTypes DEF Init
  <2>3. updates \in 0..MaxUpdates /\ dispatches \in 0..MaxDispatches /\ faults \in 0..MaxFaults
    BY BoundsAssumption DEF Init
  <2>4. QED
    BY <2>1, <2>2, <2>3 DEF Init, TypeOK
<1>3. \A w \in Workers : pc[w] = "idle" /\ Driver(w) = NoDriver /\ SagaInv(w)
  BY AbsentTypes, AbsentAssumption DEF Init, SagaInv, Driver
<1>4. \A d \in Drivers : AppInv(d) /\ ReservedInv(d)
  BY <1>1, AbsentTypes DEF Init, AppInv, ReservedInv
<1>5. \A d \in Drivers : IndexInv(d)
  <2> SUFFICES ASSUME NEW d \in Drivers PROVE IndexInv(d)
    OBVIOUS
  <2>1. WillBeListed(d) <=> d \in OnlineDrivers
    BY DEF Init, WillBeListed
  <2>2. \A w \in Workers : Driver(w) # d
    BY <1>3, AbsentAssumption
  <2>3. row[d] = IF d \in OnlineDrivers THEN OnlineRow ELSE AbsentRow
    BY DEF Init
  <2>4. QED
    BY <1>1, <2>1, <2>2, <2>3, AbsentTypes DEF IndexInv
<1>6. (\A r \in Rides : RideInv(r)) /\ AnswersAreTrue
  BY DEF Init, RideInv, AnswersAreTrue
<1>7. \A c \in Corrs : StoreInv(c)
  BY DEF Init, StoreInv, NoRecord
<1>8. QED
  BY <1>2, <1>3, <1>4, <1>5, <1>6, <1>7 DEF Inv

\* The invariant is kept by every step.
LEMMA StepInv == Inv /\ [Next]_vars => Inv'
<1> SUFFICES ASSUME Inv, [Next]_vars PROVE Inv'
  OBVIOUS
<1>1. TypeOK' /\ AnswersAreTrue'
  BY TypeStep, StoreStep
<1>2. \A w \in Workers : SagaInv(w)'
  BY SagaStep
<1>3. \A d \in Drivers : AppInv(d)' /\ ReservedInv(d)' /\ IndexInv(d)'
  BY AppStep, ReservedStep, IndexStep
<1>4. (\A r \in Rides : RideInv(r)') /\ (\A c \in Corrs : StoreInv(c)')
  BY RideDriverStays, StoreStep
<1>5. QED
  BY <1>1, <1>2, <1>3, <1>4 DEF Inv

\* The inductive invariant holds in every reachable state of the dispatch saga, the drivers'
\* apps and restarts.
THEOREM SpecInv == Spec => []Inv
  BY InitInv, StepInv, PTL DEF Spec

\* Every variable holds a value of its kind, and no saga tries to reserve more than three times.
THEOREM TypeCorrect == Spec => []TypeOK
<1>1. Inv => TypeOK
  BY DEF Inv
<1>2. QED
  BY <1>1, SpecInv, PTL

\* Whoever is told a driver for a ride, first hand or in a replay, is told the driver of the
\* ride, whatever apps and restarts do in between.
THEOREM AnswersCorrect == Spec => []AnswersAreTrue
<1>1. Inv => AnswersAreTrue
  BY DEF Inv
<1>2. QED
  BY <1>1, SpecInv, PTL

\* While the process lives, a driver stays reserved only by a saga under way, by his ride, or
\* because his release failed, even if apps free drivers at work.
THEOREM ReservationsCorrect == Spec => []ReservationsHaveAnOwner
<1>1. Inv => ReservationsHaveAnOwner
  BY DEF Inv, ReservedInv, ReservationsHaveAnOwner
<1>2. QED
  BY <1>1, SpecInv, PTL

\* While the process lives, the index lists a driver who may be dispatched and none who is
\* offline, once the driver's app has been answered.
THEOREM IndexCorrect == Spec => []IndexListsAvailableDrivers
<1>1. Inv => IndexListsAvailableDrivers
  BY DEF Inv, IndexInv, WillBeListed, IndexListsAvailableDrivers
<1>2. QED
  BY <1>1, SpecInv, PTL

-----------------------------------------------------------------------------
(* Exclusion, where apps leave drivers at work alone.                      *)

\* A driver nobody acts on stays as he is.
LEMMA WorkKept ==
  ASSUME NEW d \in Drivers, WorkInv(d), row'[d] = row[d],
         \A w \in Workers : Holds(w, d)' =>
             /\ Holds(w, d) /\ Ride(w)' = Ride(w)
             /\ pc[w] = "succeeding" => pc'[w] = "succeeding",
         \A r \in Rides : rideState'[r] = "ASSIGNED" /\ rideDriver'[r] = d =>
             rideState[r] = "ASSIGNED" /\ rideDriver[r] = d,
         appPc'[d] = "saving" => appPc[d] = "saving" /\ appRow'[d] = appRow[d]
  PROVE  WorkInv(d)'
<1>1. Engaged(d)' => Engaged(d)
  BY DEF Engaged
<1>2. appPc'[d] = "saving" /\ VersionMatches(d, appRow[d])' => VersionMatches(d, appRow[d])
  BY DEF VersionMatches
<1>3. QED
  BY <1>1, <1>2 DEF WorkInv

\* A saga begins to hold a driver when its reservation is saved.
LEMMA HoldsBegins ==
  ASSUME Inv, NEW w \in Workers, Dispatch(w), NEW v \in Workers, NEW d \in Drivers, Holds(v, d)'
  PROVE  \/ /\ Holds(v, d) /\ Ride(v)' = Ride(v)
            /\ pc[v] = "succeeding" => pc'[v] = "succeeding"
         \/ v = w /\ ReserveSave(w) /\ Driver(w) = d
<1>1. /\ pc \in [Workers -> Labels] /\ saga \in [Workers -> Sagas] /\ saga[w] \in Sagas
  BY SagaType DEF Inv, TypeOK, Labels
<1>2. CASE v # w
  BY <1>2, OthersWait DEF Holds, Driver, Ride
<1>3. CASE v = w
  <2>1. ASSUME NEW a, saga' = [saga EXCEPT ![w].copy = a]
        PROVE  saga'[w].winner = saga[w].winner /\ saga'[w].corr = saga[w].corr
    BY <1>1, <2>1 DEF Sagas
  <2>2. CASE ReserveSave(w)
    <3>1. saga'[w].winner = saga[w].winner
      BY <2>1, <2>2 DEF ReserveSave
    <3>2. QED
      BY <1>3, <2>2, <3>1 DEF Holds, Driver
  <2>3. CASE CompensateLoad(w) /\ row[Driver(w)].state = "BUSY"
    <3>1. saga'[w].winner = saga[w].winner /\ saga'[w].corr = saga[w].corr
      BY <2>1, <2>3 DEF CompensateLoad
    <3>2. pc[w] = "compensating"
      BY <2>3 DEF CompensateLoad
    <3>3. QED
      BY <1>3, <3>1, <3>2 DEF Holds, Driver, Ride
  <2>4. CASE Assign(w) \/ AssignRefused(w)
    BY <1>3, <2>4 DEF Assign, AssignRefused, Holds, Driver, Ride
  <2>5. ASSUME pc'[w] \notin {"assigning", "succeeding", "compensating", "releasing"}
        PROVE  FALSE
    BY <1>3, <2>5 DEF Holds
  <2>6. Retry(w) => pc'[w] \in {"reserving", "failing"}
    BY <1>1 DEF Retry, To
  <2>7. ~\E c \in Corrs : Begin(w, c)
    BY <1>1, <2>5 DEF Begin, To
  <2>8. ~\E e \in Drivers : CheckCandidate(w, e)
    <3>1. ASSUME NEW e \in Drivers, CheckCandidate(w, e)
          PROVE  pc'[w] \in {"checking", "reserving"}
      BY <1>1, <3>1 DEF CheckCandidate, To
    <3>2. QED
      BY <2>5, <3>1
  <2>9. QED
    BY <1>1, <1>3, <2>2, <2>3, <2>4, <2>5, <2>6, <2>7, <2>8
    DEF Dispatch, NoEligibleDrivers, ReserveLoad, ReserveRefused, ReserveConflict,
        CompensateLoad, CompensateSave, CompensateConflict, StatementFails, MarkSucceeded,
        MarkFailed, Finish, To
<1>4. QED
  BY <1>2, <1>3

\* While apps of working drivers do not let go, every step keeps a driver with one ride or saga
\* busy or reserved.
LEMMA WorkStep ==
  ASSUME AppsLetGo = FALSE, Inv, AllWork, [Next]_vars, NEW d \in Drivers
  PROVE  WorkInv(d)'
<1>0. /\ TypeOK /\ WorkInv(d) /\ AppInv(d) /\ \A w \in Workers : SagaInv(w)
      /\ appPc \in [Drivers -> {"idle", "saving", "indexing"}] /\ appRow \in [Drivers -> Rows]
      /\ appRow[d] \in Rows /\ appPc[d] \in {"idle", "saving", "indexing"}
  BY DEF Inv, AllWork, TypeOK
<1>1. ASSUME row'[d].version = row[d].version + 1, UNCHANGED <<appPc, appRow>>
      PROVE  ~(appPc'[d] = "saving" /\ VersionMatches(d, appRow[d])')
  <2> SUFFICES ASSUME appPc[d] = "saving" PROVE row'[d].version # appRow[d].version - 1
    BY <1>1 DEF VersionMatches
  <2>1. Behind(d, appRow[d])
    BY <1>0 DEF AppInv
  <2>2. row[d].version \in Nat /\ appRow[d].version \in Nat
    BY <1>0 DEF TypeOK, Rows
  <2>3. QED
    BY <1>1, <2>1, <2>2 DEF Behind
<1>2. ASSUME NEW w \in Workers, ReserveSave(w)
      PROVE  WorkInv(d)'
  <2>1. Dispatch(w) /\ UNCHANGED <<rideState, rideDriver, appPc, appRow>>
    BY <1>2 DEF ReserveSave, Dispatch, rideVars
  <2>2. CASE d = Driver(w)
    <3>1. /\ row[d].state = "AVAILABLE" /\ row'[d].state = "BUSY"
          /\ row'[d].version = row[d].version + 1
      BY <1>2, <2>2, ReserveWrites
    <3>2. ~Engaged(d)
      BY <1>0, <3>1 DEF WorkInv
    <3>3. \A v \in Workers : Holds(v, d)' => v = w
      BY <2>1, <3>2, HoldsBegins DEF Engaged
    <3>4. \A r \in Rides : ~(rideState'[r] = "ASSIGNED" /\ rideDriver'[r] = d)
      BY <2>1, <3>2 DEF Engaged
    <3>5. QED
      BY <1>1, <2>1, <3>1, <3>3, <3>4 DEF WorkInv
  <2>3. CASE d # Driver(w)
    <3>1. row'[d] = row[d]
      BY <1>2, <2>3, ReserveWrites
    <3>2. QED
      BY <1>0, <2>1, <2>3, <3>1, HoldsBegins, WorkKept
  <2>4. QED
    BY <2>2, <2>3
<1>3. ASSUME NEW w \in Workers, CompensateSave(w)
      PROVE  WorkInv(d)'
  <2>1. /\ Dispatch(w) /\ UNCHANGED <<rideState, rideDriver, appPc, appRow>>
        /\ pc[w] = "releasing" /\ pc'[w] = "failing" /\ ~ReserveSave(w)
    BY <1>0, <1>3 DEF CompensateSave, ReserveSave, Dispatch, To, TypeOK, rideVars
  <2>2. CASE d = Driver(w)
    <3>1. Holds(w, d)
      BY <2>1, <2>2 DEF Holds
    <3>2. \A v \in Workers : ~Holds(v, d)'
      <4> SUFFICES ASSUME NEW v \in Workers, Holds(v, d)' PROVE FALSE
        OBVIOUS
      <4>1. v = w
        BY <1>0, <2>1, <3>1, HoldsBegins DEF WorkInv
      <4>2. QED
        BY <2>1, <4>1 DEF Holds
    <3>3. \A r \in Rides : ~(rideState'[r] = "ASSIGNED" /\ rideDriver'[r] = d)
      BY <1>0, <2>1, <3>1 DEF WorkInv
    <3>4. ~Engaged(d)'
      BY <3>2, <3>3 DEF Engaged
    <3>5. QED
      BY <3>2, <3>3, <3>4 DEF WorkInv
  <2>3. CASE d # Driver(w)
    <3>1. row'[d] = row[d]
      BY <1>3, <2>3, CompensateWrites
    <3>2. QED
      BY <1>0, <2>1, <3>1, HoldsBegins, WorkKept
  <2>4. QED
    BY <2>2, <2>3
<1>4. ASSUME NEW w \in Workers, Assign(w)
      PROVE  WorkInv(d)'
  <2> DEFINE r == Ride(w)
  <2>1. /\ Dispatch(w) /\ UNCHANGED <<row, appPc, appRow, saga>>
        /\ pc[w] = "assigning" /\ pc' = [pc EXCEPT ![w] = "succeeding"]
        /\ rideState[r] = "DISPATCHING"
        /\ rideState' = [rideState EXCEPT ![r] = "ASSIGNED"]
        /\ rideDriver' = [rideDriver EXCEPT ![r] = Driver(w)]
        /\ ~ReserveSave(w)
    BY <1>4 DEF Assign, ReserveSave, Dispatch, To
  <2>2. /\ r \in Rides /\ rideState'[r] = "ASSIGNED" /\ rideDriver'[r] = Driver(w)
        /\ \A s \in Rides \ {r} : rideState'[s] = rideState[s] /\ rideDriver'[s] = rideDriver[s]
        /\ pc'[w] = "succeeding" /\ Ride(w)' = r
    BY <1>0, <2>1, SagaRide DEF TypeOK, Ride
  <2>3. \A v \in Workers : Holds(v, d)' =>
            /\ Holds(v, d) /\ Ride(v)' = Ride(v)
            /\ pc[v] = "succeeding" => pc'[v] = "succeeding"
    BY <2>1, HoldsBegins
  <2> HIDE DEF r
  <2>4. CASE d = Driver(w)
    <3>1. Holds(w, d)
      BY <2>1, <2>4 DEF Holds
    <3>2. \A s \in Rides : ~(rideState[s] = "ASSIGNED" /\ rideDriver[s] = d)
      BY <1>0, <2>1, <3>1 DEF WorkInv
    <3>3. \A s \in Rides : rideState'[s] = "ASSIGNED" /\ rideDriver'[s] = d => s = r
      BY <2>2, <3>2
    <3>4. \A v \in Workers : Holds(v, d)' => v = w
      BY <1>0, <2>3, <3>1 DEF WorkInv
    <3>5. /\ Engaged(d) /\ row'[d] = row[d]
          /\ VersionMatches(d, appRow[d])' = VersionMatches(d, appRow[d])
      BY <2>1, <3>1 DEF Engaged, VersionMatches
    <3>6. Ride(w)' = r /\ pc'[w] = "succeeding"
      BY <2>2
    <3>7. QED
      BY <1>0, <2>1, <3>3, <3>4, <3>5, <3>6 DEF WorkInv
  <2>5. CASE d # Driver(w)
    BY <1>0, <2>1, <2>2, <2>3, <2>5, WorkKept
  <2>6. QED
    BY <2>4, <2>5
<1>5. ASSUME NEW w \in Workers, Dispatch(w), ~ReserveSave(w), ~CompensateSave(w), ~Assign(w)
      PROVE  WorkInv(d)'
  <2>1. UNCHANGED <<row, rideState, rideDriver, appPc, appRow>>
    BY <1>5 DEF Dispatch, Begin, CheckCandidate, NoEligibleDrivers, ReserveLoad,
         ReserveRefused, ReserveConflict, AssignRefused, CompensateLoad,
         CompensateConflict, StatementFails, MarkSucceeded, MarkFailed, rideVars
  <2>2. QED
    BY <1>0, <1>5, <2>1, HoldsBegins, WorkKept
<1>6. ASSUME UNCHANGED <<pc, saga>>, row'[d] = row[d],
             \A r \in Rides : rideState'[r] = "ASSIGNED" /\ rideDriver'[r] = d =>
                 rideState[r] = "ASSIGNED" /\ rideDriver[r] = d,
             appPc'[d] = "saving" => appPc[d] = "saving" /\ appRow'[d] = appRow[d]
      PROVE  WorkInv(d)'
  <2>1. \A w \in Workers : (Holds(w, d)' => Holds(w, d)) /\ Ride(w)' = Ride(w)
    BY <1>6 DEF Holds, Driver, Ride
  <2>2. QED
    BY <1>0, <1>6, <2>1, WorkKept
<1>7. ASSUME UNCHANGED <<pc, saga, rideState, rideDriver>>,
             Engaged(d) => row'[d].state = "BUSY",
             appPc'[d] = "saving" => ~Engaged(d) \/ appRow'[d].state = row'[d].state
      PROVE  WorkInv(d)'
  <2>1. \A w \in Workers : Holds(w, d)' = Holds(w, d) /\ Ride(w)' = Ride(w)
    BY <1>7 DEF Holds, Driver, Ride
  <2>2. Engaged(d)' = Engaged(d)
    BY <1>7, <2>1 DEF Engaged
  <2>3. QED
    BY <1>0, <1>7, <2>1, <2>2 DEF WorkInv
<1>8. CASE AppSave(d)
  <2>1. Engaged(d) => row'[d].state = row[d].state
    BY <1>0, <1>8, AppWrites DEF AppSave, WorkInv
  <2>2. appPc'[d] # "saving" /\ UNCHANGED <<pc, saga, rideState, rideDriver>>
    BY <1>0, <1>8 DEF AppSave, rideVars
  <2>3. QED
    BY <1>0, <1>7, <2>1, <2>2 DEF WorkInv
<1>9. CASE RegisterDriver(d)
  <2>1. ~Engaged(d) /\ UNCHANGED <<pc, saga, rideState, rideDriver>>
    BY <1>0, <1>9, RegisterWrites DEF WorkInv, RegisterDriver, memoryVars, rideVars
  <2>2. QED
    BY <1>7, <2>1
<1>10. ASSUME NEW s \in DriverStates, UpdateAvailability(d, s)
       PROVE  WorkInv(d)'
  <2>1. ~AtWork(d) /\ UNCHANGED <<row, pc, saga, rideState, rideDriver>>
    BY <1>10 DEF UpdateAvailability, AppLoads, rideVars
  <2>2. ~Engaged(d)
    BY <1>0, <2>1 DEF AtWork, Engaged, Holds, WorkInv
  <2>3. QED
    BY <1>7, <2>1, <2>2
<1>11. CASE UpdateLocation(d)
  <2>1. /\ appRow'[d] = Relocated(d) /\ UNCHANGED <<row, pc, saga, rideState, rideDriver>>
        /\ row[d].state \in DriverStates
    BY <1>0, <1>11 DEF UpdateLocation, AppLoads, rideVars, DriverStates
  <2>2. appRow'[d].state = row'[d].state
    BY <1>0, <2>1, RelocatedRow
  <2>3. QED
    BY <1>0, <1>7, <2>1, <2>2 DEF WorkInv
<1>12. CASE AppConflict(d) \/ AppIndex(d)
  BY <1>0, <1>6, <1>12 DEF AppConflict, AppIndex, rideVars
<1>13. ASSUME NEW e \in Drivers, e # d, App(e)
       PROVE  WorkInv(d)'
  <2>1. /\ UNCHANGED <<pc, saga, rideState, rideDriver>> /\ row'[d] = row[d]
        /\ appPc'[d] = appPc[d] /\ appRow'[d] = appRow[d]
    BY <1>0, <1>13, AppWrites, RegisterWrites
       DEF App, RegisterDriver, UpdateAvailability, UpdateLocation, AppLoads, AppSave,
           AppConflict, AppIndex, memoryVars, rideVars
  <2>2. QED
    BY <1>6, <2>1
<1>14. CASE Restart
  <2>1. /\ \A w \in Workers : ~Holds(w, d)'
        /\ row' = row /\ UNCHANGED <<rideState, rideDriver>> /\ appPc'[d] = "idle"
    BY <1>14 DEF Restart, Holds, rideVars
  <2>2. QED
    BY <1>0, <2>1, WorkKept
<1>15. ASSUME NEW r \in Rides, RideEnds(r)
       PROVE  WorkInv(d)'
  BY <1>0, <1>6, <1>15 DEF RideEnds, memoryVars, TypeOK
<1>16. CASE UNCHANGED vars \/ \E c \in Corrs : Replay(c)
  BY <1>6, <1>16 DEF Replay, vars, memoryVars, rideVars
<1>17. ASSUME NEW e \in Drivers, App(e)
       PROVE  WorkInv(d)'
  BY <1>8, <1>9, <1>10, <1>11, <1>12, <1>13, <1>17 DEF App
<1>18. QED
  BY <1>2, <1>3, <1>4, <1>5, <1>14, <1>15, <1>16, <1>17 DEF Next

\* No driver works at first.
LEMMA InitWork == Init => AllWork
  BY DEF Init, AllWork, WorkInv, Engaged, Holds

\* A driver works for one ride or saga in every reachable state.
LEMMA WorkCorrect ==
  ASSUME AppsLetGo = FALSE
  PROVE  Spec => [](Inv /\ AllWork)
<1>1. Inv /\ AllWork /\ [Next]_vars => AllWork'
  <2> SUFFICES ASSUME Inv, AllWork, [Next]_vars, NEW d \in Drivers PROVE WorkInv(d)'
    BY DEF AllWork
  <2>1. QED
    BY WorkStep
<1>2. QED
  BY <1>1, InitWork, SpecInv, PTL DEF Spec

\* If apps leave drivers at work alone, no two rides have the same driver at the same time,
\* however many sagas run and conflict, compensate or fail.
THEOREM ExclusionCorrect ==
  ASSUME AppsLetGo = FALSE
  PROVE  Spec => []NoDriverServesTwoRides
<1>1. Inv /\ AllWork => NoDriverServesTwoRides
  BY DEF Inv, AllWork, WorkInv, RideInv, NoDriverServesTwoRides
<1>2. QED
  BY <1>1, WorkCorrect, PTL

\* If apps leave drivers at work alone, the driver of an assigned ride is BUSY until it ends:
\* no stale write and no compensation of another saga frees him.
THEOREM BusyCorrect ==
  ASSUME AppsLetGo = FALSE
  PROVE  Spec => []AssignedDriverIsBusy
<1>1. Inv /\ AllWork => AssignedDriverIsBusy
  BY DEF Inv, AllWork, WorkInv, RideInv, AssignedDriverIsBusy, Engaged
<1>2. QED
  BY <1>1, WorkCorrect, PTL

-----------------------------------------------------------------------------
(* The promise of dispatch, where apps leave drivers at work alone.        *)

\* The drivers held, as the refinement mapping has them.
Pair(w) == [ride |-> Ride(w), driver |-> Driver(w)]
Held == {Pair(w) : w \in {v \in Workers : Holding(v)}}

\* A step that changes neither a ride nor an answer and lets no saga begin to hold a driver
\* is a stutter or lets go.
LEMMA LettingGo ==
  ASSUME UNCHANGED <<rideState, rideDriver, answers>>,
         \A w \in Workers : Holding(w)' => Holding(w) /\ Pair(w)' = Pair(w)
  PROVE  Abstract!LetGo
<1>1. Held' \subseteq Held
  <2> SUFFICES ASSUME NEW w \in Workers, Holding(w)' PROVE Pair(w)' \in Held
    BY DEF Held
  <2>1. QED
    BY DEF Held
<1>2. QED
  BY <1>1 DEF Abstract!LetGo, Held, Pair

\* The same when one saga moves: its job and driver stay while it goes on holding.
LEMMA SagaLetsGo ==
  ASSUME TypeOK, NEW w \in Workers, Dispatch(w), ~ReserveSave(w), ~Assign(w),
         UNCHANGED <<rideState, rideDriver, answers>>, Inv
  PROVE  Abstract!LetGo
<1>1. ASSUME NEW v \in Workers, Holding(v)'
      PROVE  Holding(v) /\ Pair(v)' = Pair(v)
  <2>1. PICK d \in Drivers : Holds(v, d)'
    <3>1. TypeOK'
      BY StepInv DEF Inv, Next
    <3>2. Driver(v)' \in Drivers
      <4>1. SagaInv(v)'
        BY StepInv DEF Inv, Next
      <4>2. QED
        BY <1>1, <4>1 DEF SagaInv, Holding
    <3>3. QED
      BY <1>1, <3>2 DEF Holds, Holding
  <2>2. Holds(v, d) /\ Ride(v)' = Ride(v) /\ (pc[v] = "succeeding" => pc'[v] = "succeeding")
    BY <2>1, HoldsBegins
  <2>3. Driver(v)' = d /\ Driver(v) = d
    BY <2>1, <2>2 DEF Holds
  <2>4. QED
    BY <1>1, <2>2, <2>3 DEF Holds, Holding, Pair
<1>2. QED
  BY <1>1, LettingGo

\* A saved reservation holds a driver nobody holds, who serves no ride.
LEMMA SaveHolds ==
  ASSUME Inv, AllWork, NEW w \in Workers, ReserveSave(w)
  PROVE  Abstract!Hold(Ride(w), Driver(w))
<1> DEFINE d == Driver(w)
<1>1. /\ pc[w] = "saving" /\ VersionMatches(d, saga[w].copy)
      /\ UNCHANGED <<rideState, rideDriver, answers>>
      /\ saga' = [saga EXCEPT ![w].copy = AbsentRow] /\ pc' = [pc EXCEPT ![w] = "assigning"]
  BY DEF ReserveSave, To, rideVars
<1>2. d \in Drivers /\ row[d].state = "AVAILABLE"
  BY <1>1 DEF Inv, SagaInv
<1>3. ~Engaged(d)
  BY <1>2 DEF AllWork, WorkInv
<1>4. /\ \A v \in Workers : Holding(v) => Driver(v) # d
      /\ \A s \in Rides : ~(rideState[s] = "ASSIGNED" /\ rideDriver[s] = d)
  BY <1>3 DEF Engaged, Holds, Holding
<1>5. saga \in [Workers -> Sagas] /\ saga[w] \in Sagas /\ pc \in [Workers -> Labels]
  BY SagaType DEF Inv, TypeOK, Labels
<1>6. \A v \in Workers : Pair(v)' = Pair(v) /\ (Holding(v)' <=> v = w \/ Holding(v))
  <2>1. saga'[w].winner = saga[w].winner /\ saga'[w].corr = saga[w].corr
    BY <1>1, <1>5 DEF Sagas
  <2>2. \A v \in Workers : saga'[v].winner = saga[v].winner /\ saga'[v].corr = saga[v].corr
    BY <1>1, <1>5, <2>1
  <2>3. QED
    BY <1>1, <1>5, <2>2 DEF Pair, Driver, Ride, Holding
<1>7. Held' = Held \cup {Pair(w)}
  BY <1>6 DEF Held
<1>8. \A h \in Held : h.driver # d
  BY <1>4 DEF Held, Pair
<1>9. QED
  BY <1>1, <1>4, <1>7, <1>8 DEF Abstract!Hold, Abstract!Serves, Held, Pair

\* The ride gets a driver who is held for it, by this saga alone.
LEMMA AssignAssigns ==
  ASSUME Inv, AllWork, NEW w \in Workers, Assign(w)
  PROVE  Abstract!Assign(Ride(w), Driver(w))
<1>1. /\ pc[w] = "assigning" /\ rideState[Ride(w)] = "DISPATCHING"
      /\ rideState' = [rideState EXCEPT ![Ride(w)] = "ASSIGNED"]
      /\ rideDriver' = [rideDriver EXCEPT ![Ride(w)] = Driver(w)]
      /\ pc' = [pc EXCEPT ![w] = "succeeding"] /\ saga' = saga /\ answers' = answers
  BY DEF Assign, To, historyVars
<1>2. pc \in [Workers -> Labels] /\ Driver(w) \in Drivers
  BY <1>1 DEF Inv, TypeOK, Labels, SagaInv
<1>3. \A v \in Workers : Holding(v) /\ Driver(v) = Driver(w) => v = w
  BY <1>1, <1>2 DEF AllWork, WorkInv, Holds, Holding
<1>4. \A v \in Workers : Pair(v)' = Pair(v) /\ (Holding(v)' <=> v # w /\ Holding(v))
  BY <1>1, <1>2 DEF Pair, Driver, Ride, Holding
<1>5. \A v \in Workers : Holding(v) => (Pair(v) = Pair(w) <=> v = w)
  BY <1>3 DEF Pair
<1>6. Held' = Held \ {Pair(w)}
  BY <1>4, <1>5 DEF Held
<1>7. Pair(w) \in Held
  BY <1>1 DEF Held, Holding
<1>8. QED
  BY <1>1, <1>6, <1>7 DEF Abstract!Assign, Held, Pair

\* Every step of dispatch is a step of its promise, or a stutter.
LEMMA AssignmentStep ==
  ASSUME Inv, AllWork, [Next]_vars
  PROVE  Abstract!Next \/ UNCHANGED <<rideState, rideDriver, Held, answers>>
<1> DEFINE Moves == Abstract!Next \/ UNCHANGED <<rideState, rideDriver, Held, answers>>
<1> SUFFICES Moves
  OBVIOUS
<1>0. TypeOK
  BY DEF Inv
<1>1. ASSUME Abstract!LetGo PROVE Moves
  BY <1>1 DEF Abstract!Next
<1>2. ASSUME UNCHANGED <<pc, saga>> PROVE Held' = Held
  BY <1>2 DEF Held, Pair, Holding, Ride, Driver
<1>3. ASSUME NEW w \in Workers, ReserveSave(w) PROVE Moves
  <2>1. Ride(w) \in Rides /\ Driver(w) \in Drivers
    BY <1>3, RideOfAssumption DEF ReserveSave, Inv, SagaInv, Ride
  <2>2. QED
    BY <1>3, <2>1, SaveHolds DEF Abstract!Next
<1>4. ASSUME NEW w \in Workers, Assign(w) PROVE Moves
  <2>1. Ride(w) \in Rides /\ Driver(w) \in Drivers
    BY <1>4, RideOfAssumption DEF Assign, Inv, SagaInv, Ride
  <2>2. QED
    BY <1>4, <2>1, AssignAssigns DEF Abstract!Next
<1>5. ASSUME NEW w \in Workers, MarkSucceeded(w) PROVE Moves
  <2>1. /\ pc[w] = "succeeding" /\ pc' = [pc EXCEPT ![w] = "idle"]
        /\ saga' = [saga EXCEPT ![w] = IdleSaga]
        /\ answers' = answers \cup {[ride |-> Ride(w), driver |-> Driver(w)]}
        /\ UNCHANGED <<rideState, rideDriver>>
    BY <1>5 DEF MarkSucceeded, Finish, To, rideVars
  <2>2. pc \in [Workers -> Labels] /\ saga \in [Workers -> Sagas]
    BY <1>0 DEF TypeOK, Labels
  <2>3. Ride(w) \in Rides /\ rideDriver[Ride(w)] = Driver(w) /\ Driver(w) \in Drivers
    BY <2>1, RideOfAssumption DEF Inv, SagaInv, Ride
  <2>4. \A v \in Workers : /\ Holding(v)' <=> Holding(v)
                           /\ Holding(v) => Pair(v)' = Pair(v)
    BY <2>1, <2>2 DEF Holding, Pair, Ride, Driver
  <2>5. Held' = Held
    BY <2>4 DEF Held
  <2>6. Abstract!Answer(Ride(w))
    BY <2>1, <2>3, <2>5, AbsentAssumption DEF Abstract!Answer, Held, Pair
  <2>7. QED
    BY <2>3, <2>6 DEF Abstract!Next
<1>6. ASSUME NEW c \in Corrs, Replay(c) PROVE Moves
  <2>1. /\ store[c].status = "SUCCEEDED"
        /\ answers' = answers \cup {[ride |-> RideOf[c], driver |-> store[c].driver]}
        /\ UNCHANGED <<rideState, rideDriver, pc, saga>>
    BY <1>6 DEF Replay, rideVars, memoryVars
  <2>2. /\ RideOf[c] \in Rides /\ rideDriver[RideOf[c]] = store[c].driver
        /\ store[c].driver \in Drivers
    BY <2>1, RideOfAssumption DEF Inv, StoreInv
  <2>3. Abstract!Answer(RideOf[c])
    BY <1>2, <2>1, <2>2, AbsentAssumption DEF Abstract!Answer, Held, Pair
  <2>4. QED
    BY <2>2, <2>3 DEF Abstract!Next
<1>7. ASSUME NEW w \in Workers, Dispatch(w), ~ReserveSave(w), ~Assign(w), ~MarkSucceeded(w)
      PROVE  Moves
  <2>1. UNCHANGED <<rideState, rideDriver, answers>>
    BY <1>7 DEF Dispatch, Begin, CheckCandidate, NoEligibleDrivers, ReserveLoad, ReserveRefused,
                ReserveConflict, AssignRefused, CompensateLoad, CompensateSave,
                CompensateConflict, StatementFails, MarkFailed, rideVars, historyVars
  <2>2. QED
    BY <1>0, <1>1, <1>7, <2>1, SagaLetsGo
<1>8. ASSUME NEW d \in Drivers, App(d) PROVE Moves
  <2>1. UNCHANGED <<rideState, rideDriver, answers, pc, saga>>
    BY <1>8 DEF App, RegisterDriver, UpdateAvailability, UpdateLocation, AppLoads, AppSave,
                AppConflict, AppIndex, rideVars, memoryVars, historyVars
  <2>2. QED
    BY <1>2, <2>1
<1>9. ASSUME NEW r \in Rides, RideEnds(r) PROVE Moves
  <2>1. /\ rideState[r] # "OVER" /\ rideState' = [rideState EXCEPT ![r] = "OVER"]
        /\ UNCHANGED <<rideDriver, answers, pc, saga>>
    BY <1>9 DEF RideEnds, memoryVars, historyVars
  <2>2. Abstract!End(r)
    BY <1>2, <2>1 DEF Abstract!End, Held, Pair
  <2>3. QED
    BY <2>2 DEF Abstract!Next
<1>10. CASE Restart
  <2>1. /\ UNCHANGED <<rideState, rideDriver, answers>>
        /\ \A w \in Workers : ~Holding(w)'
    BY <1>10 DEF Restart, Holding, rideVars, historyVars
  <2>2. QED
    BY <1>1, <2>1, LettingGo
<1>11. CASE UNCHANGED vars
  BY <1>2, <1>11 DEF vars, rideVars, memoryVars, historyVars
<1>12. QED
  BY <1>3, <1>4, <1>5, <1>6, <1>7, <1>8, <1>9, <1>10, <1>11 DEF Next

\* If apps leave drivers at work alone, the sagas keep the promise of dispatch: whatever overlaps,
\* conflicts, is compensated or dies, a driver is held for one ride at a time and only while he
\* serves none, a ride gets one driver for good, and nobody is told another.
THEOREM Implementation ==
  ASSUME AppsLetGo = FALSE
  PROVE  Spec => ImplementsDriverAssignment
<1>1. Init => Abstract!Init
  BY DEF Init, Abstract!Init, Holding
<1>2. Inv /\ AllWork /\ [Next]_vars =>
          [Abstract!Next]_<<rideState, rideDriver,
              {[ride |-> Ride(w), driver |-> Driver(w)] : w \in {v \in Workers : Holding(v)}},
              answers>>
  BY AssignmentStep DEF Held, Pair
<1>3. QED
  BY <1>1, <1>2, WorkCorrect, PTL DEF Spec, ImplementsDriverAssignment, Abstract!Spec
=============================================================================
