--------------------------- MODULE MCRideLifecycle ---------------------------
(* Small instances of RideLifecycle for TLC. *)
EXTENDS RideLifecycle, TLC

CONSTANTS r1, r2, w1, w2, d1, d2

\* The policy of ride-states.ts, 120 s and 300 s, in ticks: a shorter and a longer wait.
MCPolicy == [DISPATCHING |-> 1, ASSIGNED |-> 2]

\* Both waits one tick long, so that a clock of one tick reaches both deadlines.
MCShortPolicy == [DISPATCHING |-> 1, ASSIGNED |-> 1]

MCSymmetry == Permutations(Workers) \cup Permutations(Drivers)
=============================================================================
