-------------------------- MODULE MCDriverDispatch --------------------------
(* Small instances of DriverDispatch for TLC. *)
EXTENDS DriverDispatch, TLC

CONSTANTS r1, r2, c1, c2, w1, w2, d1, d2, d3

\* Each ride is dispatched under a correlation id of its own.
MCRideOf == [c \in Corrs |-> IF c = c1 THEN r1 ELSE r2]

\* Requests, the drivers online and the rides with their ids may be exchanged.
MCSymmetry == Permutations(Workers) \cup Permutations({d1, d2})
              \cup {(r1 :> r2) @@ (r2 :> r1) @@ (c1 :> c2) @@ (c2 :> c1)}
=============================================================================
