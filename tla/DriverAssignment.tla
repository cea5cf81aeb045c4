-------------------------- MODULE DriverAssignment --------------------------
(***************************************************************************)
(* What dispatch promises: a driver is held for one ride at a time, and    *)
(* only while he serves none; a ride that waits gets a driver who is held  *)
(* for it, once and for good; and whoever is answered is told that driver. *)
(***************************************************************************)
CONSTANTS Drivers, Rides, NoDriver

VARIABLES rideState,    \* rideState[r]: "DISPATCHING", "ASSIGNED" or "OVER"
          rideDriver,   \* rideDriver[r]: the driver r got, or NoDriver
          held,         \* pairs of a ride and a driver who is held for it
          answers       \* pairs of a ride and the driver somebody was told

Init == /\ rideState = [r \in Rides |-> "DISPATCHING"]
        /\ rideDriver = [r \in Rides |-> NoDriver]
        /\ held = {}
        /\ answers = {}

Serves(d, r) == rideState[r] = "ASSIGNED" /\ rideDriver[r] = d

Hold(r, d) == /\ \A h \in held : h.driver # d
              /\ \A s \in Rides : ~Serves(d, s)
              /\ held' = held \cup {[ride |-> r, driver |-> d]}
              /\ UNCHANGED <<rideState, rideDriver, answers>>

\* Drivers are let go, one by one or all of them when the process dies.
LetGo == /\ held' \in SUBSET held
         /\ UNCHANGED <<rideState, rideDriver, answers>>

Assign(r, d) == /\ [ride |-> r, driver |-> d] \in held
                /\ rideState[r] = "DISPATCHING"
                /\ rideState' = [rideState EXCEPT ![r] = "ASSIGNED"]
                /\ rideDriver' = [rideDriver EXCEPT ![r] = d]
                /\ held' = held \ {[ride |-> r, driver |-> d]}
                /\ UNCHANGED answers

End(r) == /\ rideState[r] # "OVER"
          /\ rideState' = [rideState EXCEPT ![r] = "OVER"]
          /\ UNCHANGED <<rideDriver, held, answers>>

Answer(r) == /\ rideDriver[r] # NoDriver
             /\ answers' = answers \cup {[ride |-> r, driver |-> rideDriver[r]]}
             /\ UNCHANGED <<rideState, rideDriver, held>>

Next == \/ \E r \in Rides : End(r) \/ Answer(r) \/ \E d \in Drivers : Hold(r, d) \/ Assign(r, d)
        \/ LetGo

Spec == Init /\ [][Next]_<<rideState, rideDriver, held, answers>>
=============================================================================
