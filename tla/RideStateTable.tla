--------------------------- MODULE RideStateTable ---------------------------
(***************************************************************************)
(* The ride states and the table of allowed transitions                    *)
(* (rides/domain/ride-states.ts), used by the ride specifications.         *)
(***************************************************************************)

RideStates == {"CREATED", "DISPATCHING", "ASSIGNED", "STARTED",
               "COMPLETED", "CANCELED", "EXPIRED", "FAILED"}

\* The allowed next states of a state; a terminal state has none.
RideTransitions == [s \in RideStates |->
    CASE s = "CREATED"     -> {"DISPATCHING", "CANCELED", "EXPIRED", "FAILED"}
      [] s = "DISPATCHING" -> {"ASSIGNED", "CANCELED", "EXPIRED", "FAILED"}
      [] s = "ASSIGNED"    -> {"STARTED", "CANCELED", "EXPIRED", "FAILED"}
      [] s = "STARTED"     -> {"COMPLETED", "FAILED"}
      [] OTHER             -> {}]

CanTransition(from, to) == to \in RideTransitions[from]

IsTerminalState(s) == RideTransitions[s] = {}

TerminalStates == {s \in RideStates : IsTerminalState(s)}
=============================================================================
