------------------------ MODULE RideRefinementProofs ------------------------
(***************************************************************************)
(* The proof that RideLifecycle implements RideStateMachine: a committed   *)
(* change of a ride is one move of the state machine, and every other step *)
(* of a request, a sweep, the clock or a crash is a stutter.               *)
(*                                                                         *)
(* A change is computed on a copy and written later.  The inductive        *)
(* invariant of RideLifecycleProofs says that a copy whose version still   *)
(* matches is the row, so the move starts where the row is now.            *)
(***************************************************************************)
EXTENDS RideLifecycleProofs

\* The refinement mapping: the state of each ride, and the states its audit trail entered.
StateOf == [r \in Rides |-> row[r].state]
Entered(q) == [i \in DOMAIN q |-> q[i].to]
TrailOf == [r \in Rides |-> Entered(log[r])]

\* An audit entry appended is a state entered.
LEMMA EnteredAppend ==
  ASSUME NEW q \in Seq(Entries), NEW e \in Entries
  PROVE  Entered(Append(q, e)) = Append(Entered(q), e.to)
<1>1. Entered(q) \in Seq(RideStates) /\ Len(Entered(q)) = Len(q)
  <2>1. Len(q) \in Nat /\ \A i \in 1..Len(q) : q[i].to \in RideStates
    <3>1. Len(q) \in Nat /\ \A i \in 1..Len(q) : q[i] \in Entries
      OBVIOUS
    <3>2. \A x \in Entries : x.to \in RideStates
      BY DEF Entries
    <3>3. QED
      BY <3>1, <3>2
  <2>2. Entered(q) = [i \in 1..Len(q) |-> q[i].to]
    BY DEF Entered
  <2>3. QED
    BY <2>1, <2>2
<1>2. DOMAIN Entered(Append(q, e)) = 1..(Len(q) + 1)
  BY DEF Entered
<1>3. DOMAIN Append(Entered(q), e.to) = 1..(Len(q) + 1)
  BY <1>1 DEF Entries
<1>4. ASSUME NEW i \in 1..(Len(q) + 1)
      PROVE  Entered(Append(q, e))[i] = Append(Entered(q), e.to)[i]
  <2>1. CASE i = Len(q) + 1
    BY <1>1, <2>1 DEF Entered, Entries
  <2>2. CASE i # Len(q) + 1
    BY <1>1, <2>2 DEF Entered, Entries
  <2>3. QED
    BY <2>1, <2>2
<1>5. /\ Entered(Append(q, e)) = [i \in 1..(Len(q) + 1) |-> Entered(Append(q, e))[i]]
      /\ Append(Entered(q), e.to) = [i \in 1..(Len(q) + 1) |-> Append(Entered(q), e.to)[i]]
  BY <1>1, <1>2, <1>3 DEF Entered, Entries
<1>6. QED
  BY <1>4, <1>5

\* A commit enters the state of the aggregate it writes, in the abstract ride as well.
LEMMA CommitEnters ==
  ASSUME TypeOK, NEW r \in Rides, NEW from \in States, NEW a \in Aggregates,
         a.state \in RideStates, NEW by \in {"caller", "sweep"}, Commit(r, from, a, by)
  PROVE  Abstract!Enter(r, a.state)
<1> DEFINE entry == [from |-> from, to |-> a.state, by |-> by]
<1>1. entry \in Entries /\ entry.to = a.state
  BY DEF Entries
<1>2. row' = [row EXCEPT ![r] = a] /\ log' = [log EXCEPT ![r] = Append(log[r], entry)]
  BY DEF Commit
<1> HIDE DEF entry
<1>3. StateOf' = [StateOf EXCEPT ![r] = a.state]
  BY <1>2 DEF StateOf, TypeOK
<1>4. Entered(Append(log[r], entry)) = Append(Entered(log[r]), a.state)
  BY <1>1, EnteredAppend DEF TypeOK
<1>5. TrailOf' = [TrailOf EXCEPT ![r] = Append(TrailOf[r], a.state)]
  BY <1>2, <1>4 DEF TrailOf, TypeOK
<1>6. QED
  BY <1>3, <1>5 DEF Abstract!Enter, StateOf, TrailOf, Entered

\* A commit on a copy whose version matches is a move of the abstract ride.
LEMMA CommitMoves ==
  ASSUME TypeOK, NEW r \in Rides, NEW from \in RideStates, NEW a \in Aggregates,
         NEW by \in {"caller", "sweep"},
         Copy(r, a.version - 1, from), VersionMatches(r, a.version),
         a.state \in RideStates, CanTransition(from, a.state), Commit(r, from, a, by)
  PROVE  Abstract!Next
<1>1. row[r].state = from /\ from # "NONE"
  BY TableTypes DEF Copy, VersionMatches
<1>2. Abstract!Enter(r, a.state)
  BY CommitEnters DEF States
<1>3. Abstract!MoveRide(r, a.state)
  BY <1>1, <1>2 DEF Abstract!MoveRide, Abstract!CanTransition, CanTransition,
                    Abstract!RideTransitions, RideTransitions,
                    Abstract!RideStates, RideStates
<1>4. QED
  BY <1>3 DEF Abstract!Next, Abstract!RideStates, RideStates

\* The initial states are initial states of the ride state machine.
LEMMA InitRefines == Init => Abstract!Init
<1> SUFFICES ASSUME Init PROVE Abstract!Init
  OBVIOUS
<1>1. StateOf = [r \in Rides |-> "NONE"]
  BY DEF Init, StateOf, AbsentRow
<1>2. ASSUME NEW r \in Rides PROVE Entered(log[r]) = <<>>
  BY DEF Init, Entered
<1>3. TrailOf = [r \in Rides |-> <<>>]
  BY <1>2 DEF TrailOf
<1>4. QED
  BY <1>1, <1>3 DEF Abstract!Init, StateOf, TrailOf, Entered

\* A step that writes neither table is a stutter of the ride state machine.
LEMMA QuietRefines ==
  ASSUME UNCHANGED <<row, log>>
  PROVE  UNCHANGED <<StateOf, TrailOf>>
  BY DEF StateOf, TrailOf, Entered

\* Every step is a move of the ride state machine or a stutter.
LEMMA StepRefines ==
  ASSUME Inv, [Next]_vars
  PROVE  Abstract!Next \/ UNCHANGED <<StateOf, TrailOf>>
<1> TypeOK
  BY DEF Inv
<1>1. ASSUME NEW r \in Rides, CreateRide(r) PROVE Abstract!Next
  <2>1. /\ NewRide(now) \in Aggregates /\ NewRide(now).state = "CREATED"
        /\ "CREATED" \in RideStates /\ "NONE" \in States
    BY NewRideType DEF TypeOK, RideStates, States
  <2>2. row[r].state = "NONE" /\ Commit(r, "NONE", NewRide(now), "caller")
    BY <1>1 DEF CreateRide
  <2>3. Abstract!Enter(r, "CREATED")
    BY <2>1, <2>2, CommitEnters
  <2>4. Abstract!RequestRide(r)
    BY <2>2, <2>3 DEF Abstract!RequestRide
  <2>5. QED
    BY <2>4 DEF Abstract!Next
<1>2. ASSUME NEW w \in Workers, SaveRide(w) PROVE Abstract!Next
  <2> DEFINE r == job[w].ride
             a == agg[w]
             from == prev[w]
  <2>1. /\ r \in Rides /\ a \in Aggregates /\ a.state \in RideStates /\ from \in RideStates
        /\ Copy(r, a.version - 1, from) /\ CanTransition(from, a.state)
    BY <1>2 DEF Inv, SaveRide, WorkerInv, TypeOK, Jobs
  <2>2. VersionMatches(r, a.version) /\ Commit(r, from, a, "caller")
    BY <1>2 DEF SaveRide
  <2> HIDE DEF r, a, from
  <2>3. QED
    BY <2>1, <2>2, CommitMoves
<1>3. CASE ExpireNext
  <2> DEFINE c == Head(sweep.batch)
             a == Transitioned(c.agg, "EXPIRED", NoDriver, sweep.at)
  <2>1. sweep.batch \in Seq(Candidates) /\ sweep.batch # <<>>
    BY <1>3 DEF ExpireNext, TypeOK
  <2>2. 1 \in 1..Len(sweep.batch) /\ c = sweep.batch[1] /\ c \in Candidates
    BY <2>1
  <2>3. /\ Copy(c.ride, c.agg.version, c.agg.state) /\ c.agg.state \in RideStates
    BY <2>2 DEF Inv, SweepInv
  <2>4. c.ride \in Rides /\ c.agg \in Aggregates /\ c.agg.version \in Nat
    BY <2>2 DEF Candidates, Aggregates
  <2>5. \/ UNCHANGED <<row, log>>
        \/ /\ MayTransition(c.agg, "EXPIRED", NoDriver)
           /\ VersionMatches(c.ride, a.version)
           /\ Commit(c.ride, c.agg.state, a, "sweep")
    BY <1>3 DEF ExpireNext
  <2>6. "EXPIRED" \in RideStates /\ NoDriver \in Drivers \cup {NoDriver} /\ sweep.at \in Nat
    BY DEF TypeOK, RideStates
  <2> HIDE DEF c
  <2>7. a \in Aggregates /\ a.state = "EXPIRED" /\ a.version = c.agg.version + 1
    <3>1. a \in Aggregates
      BY <2>4, <2>6, TransitionedType
    <3>2. a.state = "EXPIRED"
      BY <2>4, <2>6, TransitionedType
    <3>3. a.version = c.agg.version + 1
      BY <2>4 DEF Transitioned, Aggregates
    <3>4. QED
      BY <3>1, <3>2, <3>3
  <2> HIDE DEF a
  <2>8. CASE /\ MayTransition(c.agg, "EXPIRED", NoDriver)
             /\ VersionMatches(c.ride, a.version)
             /\ Commit(c.ride, c.agg.state, a, "sweep")
    <3>1. a.state \in RideStates /\ CanTransition(c.agg.state, a.state)
      BY <2>6, <2>7, <2>8 DEF MayTransition
    <3>2. Copy(c.ride, a.version - 1, c.agg.state)
      BY <2>3, <2>4, <2>7
    <3>3. QED
      BY <2>3, <2>4, <2>7, <2>8, <3>1, <3>2, CommitMoves
  <2>9. QED
    BY <2>5, <2>8, QuietRefines
<1>4. ASSUME NEW w \in Workers,
             \/ Request(w) \/ ApplyTransition(w) \/ SaveConflict(w)
             \/ PublishTransition(w) \/ CrashWorker(w)
      PROVE  UNCHANGED <<row, log>>
  BY <1>4 DEF Request, FindRide, ApplyTransition, SaveConflict, PublishTransition, CrashWorker
<1>5. CASE StartSweep \/ FindExpired \/ EndSweep \/ CrashSweep \/ Tick \/ UNCHANGED vars
  <2>1. UNCHANGED <<row, log>>
    BY <1>5 DEF StartSweep, FindExpired, EndSweep, CrashSweep, Tick, vars
  <2>2. QED
    BY <2>1, QuietRefines
<1>6. QED
  BY <1>1, <1>2, <1>3, <1>4, <1>5, QuietRefines DEF Next, Serve, Sweep

\* Every behaviour of requests, sweeps and crashes is a behaviour of the ride state machine:
\* what any of them commits is one legal move from the state the ride is in at that moment.
THEOREM Implementation == Spec => ImplementsStateMachine
<1>1. Inv /\ [Next]_vars => [Abstract!Next]_<<StateOf, TrailOf>>
  BY StepRefines
<1>2. QED
  BY InitRefines, SpecInv, <1>1, PTL DEF Spec, ImplementsStateMachine, Abstract!Spec,
     StateOf, TrailOf, Entered
=============================================================================
