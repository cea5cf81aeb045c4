--------------------------- MODULE MCRequestGate ---------------------------
(* Small instance of RequestGate for TLC. *)
EXTENDS RequestGate, TLC

CONSTANTS u1, u2

Role(role) == [role |-> role, explicit |-> FALSE, authScopes |-> {}]
Explicit(scopes) == [role |-> "rider", explicit |-> TRUE, authScopes |-> scopes]

\* An administrator; a rider with scopes of his own; either may become a new account's equal.
MCProfiles == {Role("admin"), Explicit({}), Explicit({"payment:read"})}
MCFirstProfile == u1 :> Role("admin") @@ u2 :> Explicit({"payment:read"})

Key(s) == [name |-> "k", spelling |-> s]

\* A complete request of u for a route, and ways to spoil one.
Ask(u, route, target) ==
    [user |-> u, route |-> route, target |-> target, content |-> "jsonapi",
     given |-> Route[route].required, header |-> NoKey, bodyKey |-> NoKey]
Keyed(o, header, bodyKey) == [o EXCEPT !.header = header, !.bodyKey = bodyKey]

Settle(r, header, bodyKey) == Keyed(Ask(u1, "postSettlement", r), header, bodyKey)
Dispatch == Keyed(Ask(u1, "postDispatch", "r1"), Key("lower"), NoKey)
\* The same correlation id for another ride.
DispatchOther == [Dispatch EXCEPT !.target = "r2"]

MCOperations ==
    {Ask(u1, route, "x") : route \in DOMAIN Route \ {"postSettlement", "postDispatch"}}
    \cup {Ask(u2, "postPaymentIntent", "x"), Ask(u2, "getReceipt", "x")}
    \cup {Settle("r1", Key("lower"), Key("lower")), Settle("r1", Key("upper"), Key("upper")),
          Settle("r2", Key("lower"), Key("lower")), Settle("r1", Key("lower"), Key("upper")),
          Settle("r1", Key("invalid"), Key("invalid"))}
    \cup {Dispatch, DispatchOther, [Dispatch EXCEPT !.header = NoKey],
          [Dispatch EXCEPT !.bodyKey = Key("upper")], [Dispatch EXCEPT !.content = "parameters"]}
    \cup {[Ask(u1, "postFare", "x") EXCEPT !.content = "unsupported"],
          [Ask(u1, "postPaymentIntent", "x") EXCEPT !.given = {}],
          [Ask(u1, "postRide", "x") EXCEPT !.given = {"riderId"}]}
=============================================================================
