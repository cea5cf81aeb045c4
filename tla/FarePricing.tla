----------------------------- MODULE FarePricing -----------------------------
(* How the fare of a ride is computed: the pure part of the fares module.     *)
(* Distances are whole metres and durations whole seconds of the kilometres   *)
(* and minutes the code multiplies as floating-point numbers.                 *)
EXTENDS Integers

PricePerKm == 1200
PricePerMinute == 200

\* What validateFareInput and the request schema let through.
FareInputs == [base : Nat, metres : Nat, seconds : Nat, minimum : Nat]

\* Mutant of CeilDiv: rounds down.
FloorDiv(a, b) == a \div b

CeilDiv(a, b) == (a + b - 1) \div b

\* Math.ceil of quantity * price, with the quantity given in units-ths.  The floating-point
\* product of an exact amount may come out a little above it, and is then rounded up.
Component(price, quantity, units) ==
    LET exact == CeilDiv(price * quantity, units)
    IN IF quantity > 0 /\ (price * quantity) % units = 0 THEN {exact, exact + 1} ELSE {exact}

\* FareAmount.create
WithMinimum(raw, minimum) ==
    [total |-> IF raw < minimum THEN minimum ELSE raw, minimumApplied |-> raw < minimum]

\* calculateFare: the fares an input may be given, with their breakdown.
Fares(input) ==
    {[base |-> input.base, distance |-> d, time |-> t,
      amount |-> WithMinimum(input.base + d + t, input.minimum)] :
        d \in Component(PricePerKm, input.metres, 1000),
        t \in Component(PricePerMinute, input.seconds, 60)}
=============================================================================
