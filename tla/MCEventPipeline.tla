-------------------------- MODULE MCEventPipeline --------------------------
(* Small instances of EventPipeline for TLC. *)
EXTENDS EventPipeline, TLC

CONSTANTS r1, r2, w1, w2, q1, q2

\* A trip that may round up past an exact product, and one that costs just the minimum.
MCFareRequests == {[base |-> 3500, metres |-> 35, seconds |-> 61, minimum |-> 3600],
                   [base |-> 3501, metres |-> 0, seconds |-> 1, minimum |-> 3505]}
MCAmounts == {5000}
=============================================================================
