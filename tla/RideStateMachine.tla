-------------------------- MODULE RideStateMachine --------------------------
(***************************************************************************)
(* What the ride module promises: every ride moves, one edge at a time,    *)
(* along the transition table of ride-states.ts, and its audit trail is    *)
(* the path it took.  There are no versions, workers, snapshots or clocks  *)
(* here; RideLifecycle shows that the optimistic-locking implementation    *)
(* is an implementation of this specification.                             *)
(***************************************************************************)
EXTENDS Sequences, RideStateTable

CONSTANT Rides          \* the rides that may be requested

VARIABLES state,        \* state[r]: the authoritative state, "NONE" before the request
          trail         \* trail[r]: the states ride r has been in, in order

-----------------------------------------------------------------------------

TypeOK == /\ state \in [Rides -> RideStates \cup {"NONE"}]
          /\ trail \in [Rides -> Seq(RideStates)]

Init == /\ state = [r \in Rides |-> "NONE"]
        /\ trail = [r \in Rides |-> <<>>]

\* Ride r enters state s.
Enter(r, s) == /\ state' = [state EXCEPT ![r] = s]
               /\ trail' = [trail EXCEPT ![r] = Append(@, s)]

RequestRide(r) == /\ state[r] = "NONE"
                  /\ Enter(r, "CREATED")

MoveRide(r, s) == /\ state[r] # "NONE"
                  /\ CanTransition(state[r], s)
                  /\ Enter(r, s)

Next == \E r \in Rides : \/ RequestRide(r)
                         \/ \E s \in RideStates : MoveRide(r, s)

Spec == Init /\ [][Next]_<<state, trail>>
=============================================================================
