------------------------- MODULE RequestGateProofs --------------------------
(***************************************************************************)
(* Proofs about RequestGate for any number of requests, users, operations, *)
(* profiles and disturbances, with the lifecycle hooks or without them.    *)
(*                                                                         *)
(* Rights are only ever lost by the account, never by what was granted     *)
(* before, so a request carries them from its session to its use case; and *)
(* the log of what was recorded only grows.                                *)
(***************************************************************************)
EXTENDS RequestGate, FiniteSetTheorems, FunctionTheorems, SequenceTheorems, TLAPS

\* Whatever a session can hand out was granted to its user.
AccountInv(u) == /\ ScopesOf(account[u]) \subseteq granted[u]
                 /\ cookie[u] # NoProfile => ScopesOf(cookie[u]) \subseteq granted[u]

\* A request carries rights its user was granted and, past the handler, those of its route and
\* an accepted key; it records once, after it was admitted, and is then refused no more; and
\* only a dispatch without success leaves a reservation behind.
RequestInv(q) ==
    /\ pc[q] = "parsing" => ScopesOf(user[q]) \subseteq granted[op[q].user]
    /\ pc[q] = "executing" \/ InLog(q) \/ q \in leftovers =>
                                          /\ RouteOf(q).scopes \subseteq granted[op[q].user]
                                          /\ KeyAccepted(op[q])
    /\ InLog(q) => /\ pc[q] \in {"reading", "answered", "lost"}
                   /\ status[q] \notin 400..499
    /\ q \in leftovers => /\ pc[q] = "answered" /\ RouteOf(q).kind = "saga" /\ ~InLog(q)
                         /\ status[q] \notin {200, 201}
    /\ seen[q] <= Len(log)

LoggedOnce == \A i, j \in DOMAIN log : log[i] = log[j] => i = j

\* The inductive invariant.
Inv == /\ TypeOK
       /\ \A u \in Users : AccountInv(u)
       /\ \A q \in Requests : RequestInv(q)
       /\ LoggedOnce
       /\ RetriesActOnce
       /\ RetriesAreNotRefused

\* A dispatch that is remembered as successful was recorded under its correlation id.
ProcessInv == \A c : <<c, "SUCCEEDED">> \in processes =>
                  \E i \in DOMAIN log : /\ op[log[i]].route = "postDispatch"
                                        /\ CorrelationId(op[log[i]]) = c

\* What was answered, or is about to be, has had its effect.
EffectInv == /\ ProcessInv
             /\ \A q \in Requests : pc[q] = "reading" \/ status[q] \in {200, 201} => Effect(q)

-----------------------------------------------------------------------------
(* The table of routes.                                                    *)

Kinds == {"read", "fresh", "overwrite", "first", "once", "keyed", "saga"}
Statuses == {HTTP_STATUS_MAP[t] : t \in Tags}

\* Only CONFLICT is answered with 409, and a failing database with a 5xx.
StatusMaps == {m \in [Tags -> Statuses] :
                  /\ \A t \in Tags : m[t] = HTTP_STATUS_MAP["CONFLICT"] => t = "CONFLICT"
                  /\ \A t \in {"INFRASTRUCTURE_ERROR", "UNEXPECTED_ERROR"} : m[t] \in {500, 503}}

\* Everything a route requires by name.
Attributes == {"id", "rideId", "riderId", "pickup", "dropoff", "toState", "driverId", "state",
               "latitude", "longitude", "accuracy", "bearing", "speed", "recordedAt",
               "baseFareCOP", "distanceKm", "durationMinutes", "minimumFareCOP",
               "pricingVersion", "amountCOP", "fareBreakdown", "providerTokenRef",
               "idempotencyKey"}

RouteRecords ==
    [body : BOOLEAN, early : BOOLEAN, scopes : SUBSET AUTH_SCOPES, required : SUBSET Attributes,
     key : {"none", "header", "matched"}, kind : Kinds, refusals : SUBSET Tags,
     status : StatusMaps, success : {200, 201}, readBack : BOOLEAN]

\* The error tags, and the status the map gives each.
LEMMA StatusFacts ==
  /\ Tags = {"VALIDATION_ERROR", "NOT_FOUND", "CONFLICT", "AUTHENTICATION_ERROR",
             "AUTHORIZATION_ERROR", "INFRASTRUCTURE_ERROR", "POLICY_VIOLATION",
             "UNEXPECTED_ERROR"}
  /\ HTTP_STATUS_MAP["VALIDATION_ERROR"] = 400 /\ HTTP_STATUS_MAP["NOT_FOUND"] = 404
  /\ HTTP_STATUS_MAP["CONFLICT"] = 409 /\ HTTP_STATUS_MAP["AUTHENTICATION_ERROR"] = 401
  /\ HTTP_STATUS_MAP["AUTHORIZATION_ERROR"] = 403
  /\ HTTP_STATUS_MAP["INFRASTRUCTURE_ERROR"] = 503
  /\ HTTP_STATUS_MAP["POLICY_VIOLATION"] = 422 /\ HTTP_STATUS_MAP["UNEXPECTED_ERROR"] = 500
  BY DEF Tags, HTTP_STATUS_MAP

\* The statuses an error can have.
LEMMA StatusValues == Statuses = {400, 401, 403, 404, 409, 422, 500, 503}
  BY StatusFacts DEF Statuses

\* The map of the error mapper is a status map.
LEMMA MapIsStatusMap == HTTP_STATUS_MAP \in StatusMaps
<1>1. HTTP_STATUS_MAP \in [Tags -> Statuses]
  <2>1. HTTP_STATUS_MAP = [t \in Tags |-> HTTP_STATUS_MAP[t]]
    BY DEF HTTP_STATUS_MAP, Tags
  <2>2. QED
    BY <2>1 DEF Statuses
<1>2. QED
  BY <1>1, StatusFacts DEF StatusMaps

\* So is the choice of a route that answers some tags by hand and all others with 500.
LEMMA OnlyIsStatusMap ==
  ASSUME NEW T \in SUBSET (Tags \ {"INFRASTRUCTURE_ERROR", "UNEXPECTED_ERROR"})
  PROVE  Only(T) \in StatusMaps
<1>1. Only(T) \in [Tags -> Statuses]
  BY StatusFacts, StatusValues DEF Only, Statuses
<1>2. \A t \in Tags : Only(T)[t] = IF t \in T THEN HTTP_STATUS_MAP[t] ELSE 500
  BY DEF Only
<1>3. \A t \in Tags : Only(T)[t] = HTTP_STATUS_MAP["CONFLICT"] => t = "CONFLICT"
  BY <1>2, StatusFacts
<1>4. \A t \in {"INFRASTRUCTURE_ERROR", "UNEXPECTED_ERROR"} : Only(T)[t] \in {500, 503}
  BY <1>2, StatusFacts
<1>5. QED
  BY <1>1, <1>3, <1>4 DEF StatusMaps

\* A reading route made by Read is a route.
LEMMA ReadRoute ==
  ASSUME NEW scopes \in SUBSET AUTH_SCOPES, NEW required \in SUBSET Attributes,
         NEW refusals \in SUBSET Tags, NEW map \in StatusMaps
  PROVE  /\ Read(scopes, required, refusals, map) \in RouteRecords
         /\ Read(scopes, required, refusals, map).kind = "read"
  BY DEF Read, RouteRecords, Kinds

\* A writing route made by Write is a route.
LEMMA WriteRoute ==
  ASSUME NEW scopes \in SUBSET AUTH_SCOPES, NEW required \in SUBSET Attributes, NEW kind \in Kinds,
         NEW refusals \in SUBSET Tags, NEW map \in StatusMaps
  PROVE  /\ Write(scopes, required, kind, refusals, map) \in RouteRecords
         /\ Write(scopes, required, kind, refusals, map).kind = kind
<1> DEFINE r == Read(scopes, required, refusals, map)
           a == [r EXCEPT !.body = TRUE]
           b == [a EXCEPT !.kind = kind]
           c == [b EXCEPT !.success = 201]
<1>1. r \in RouteRecords
  BY ReadRoute
<1> HIDE DEF r
<1>2. a \in RouteRecords
  BY <1>1 DEF RouteRecords
<1> HIDE DEF a
<1>3. b \in RouteRecords /\ b.kind = kind
  BY <1>2 DEF RouteRecords
<1> HIDE DEF b
<1>4. c \in RouteRecords /\ c.kind = kind
  BY <1>3 DEF RouteRecords
<1>5. c = Write(scopes, required, kind, refusals, map)
  BY DEF Write, r, a, b
<1>6. QED
  BY <1>4, <1>5

\* A route with another success, an earlier schema, a key, other scopes or a row read back.
LEMMA AdaptedRoute ==
  ASSUME NEW r \in RouteRecords
  PROVE  /\ [r EXCEPT !.success = 200] \in RouteRecords
         /\ [r EXCEPT !.success = 200].kind = r.kind
         /\ [r EXCEPT !.readBack = TRUE] \in RouteRecords
         /\ [r EXCEPT !.readBack = TRUE].kind = r.kind
         /\ [r EXCEPT !.early = TRUE] \in RouteRecords
         /\ [r EXCEPT !.early = TRUE].kind = r.kind
         /\ \A k \in {"none", "header", "matched"} : /\ [r EXCEPT !.key = k] \in RouteRecords
                                                     /\ [r EXCEPT !.key = k].kind = r.kind
                                                     /\ [r EXCEPT !.key = k].key = k
         /\ \A s \in SUBSET AUTH_SCOPES : /\ [r EXCEPT !.scopes = s] \in RouteRecords
                                          /\ [r EXCEPT !.scopes = s].kind = r.kind
<1>1. [r EXCEPT !.success = 200] \in RouteRecords /\ [r EXCEPT !.success = 200].kind = r.kind
  BY DEF RouteRecords
<1>2. ASSUME NEW b \in BOOLEAN
      PROVE  /\ [r EXCEPT !.readBack = b] \in RouteRecords
             /\ [r EXCEPT !.readBack = b].kind = r.kind
             /\ [r EXCEPT !.early = b] \in RouteRecords /\ [r EXCEPT !.early = b].kind = r.kind
  BY DEF RouteRecords
<1>3. ASSUME NEW k \in {"none", "header", "matched"}
      PROVE  /\ [r EXCEPT !.key = k] \in RouteRecords
             /\ [r EXCEPT !.key = k].kind = r.kind /\ [r EXCEPT !.key = k].key = k
  BY DEF RouteRecords
<1>4. ASSUME NEW s \in SUBSET AUTH_SCOPES
      PROVE  [r EXCEPT !.scopes = s] \in RouteRecords /\ [r EXCEPT !.scopes = s].kind = r.kind
  BY DEF RouteRecords
<1>5. QED
  BY <1>1, <1>2, <1>3, <1>4

\* The routes that are what Read or Write makes.
LEMMA PlainRoutes ==
  /\ GetRide \in RouteRecords /\ GetRide.kind = "read"
  /\ ListRides \in RouteRecords /\ ListRides.kind = "read"
  /\ GetDriver \in RouteRecords /\ GetDriver.kind = "read"
  /\ GetFare \in RouteRecords /\ GetFare.kind = "read"
  /\ PostDriver \in RouteRecords /\ PostDriver.kind = "first"
  /\ PostFare \in RouteRecords /\ PostFare.kind = "once"
<1>1. /\ {"ride:read"} \in SUBSET AUTH_SCOPES /\ {"driver:read"} \in SUBSET AUTH_SCOPES
      /\ {"driver:write"} \in SUBSET AUTH_SCOPES /\ {} \in SUBSET AUTH_SCOPES
  BY DEF AUTH_SCOPES
<1>2. /\ Only({"NOT_FOUND"}) \in StatusMaps /\ Only({"CONFLICT"}) \in StatusMaps
      /\ Only({}) \in StatusMaps /\ HTTP_STATUS_MAP \in StatusMaps
  BY OnlyIsStatusMap, MapIsStatusMap, StatusFacts
<1>3. /\ {"NOT_FOUND"} \in SUBSET Tags /\ {} \in SUBSET Tags /\ {"VALIDATION_ERROR"} \in SUBSET Tags
      /\ {"VALIDATION_ERROR", "CONFLICT", "UNEXPECTED_ERROR"} \in SUBSET Tags
      /\ {"NOT_FOUND", "UNEXPECTED_ERROR"} \in SUBSET Tags
  BY StatusFacts
<1>4. /\ {"id"} \in SUBSET Attributes /\ {"rideId"} \in SUBSET Attributes /\ {} \in SUBSET Attributes
      /\ {"driverId"} \in SUBSET Attributes
      /\ {"rideId", "baseFareCOP", "distanceKm", "durationMinutes", "minimumFareCOP",
          "pricingVersion"} \in SUBSET Attributes
  BY DEF Attributes
<1>5. /\ GetRide \in RouteRecords /\ GetRide.kind = "read"
      /\ ListRides \in RouteRecords /\ ListRides.kind = "read"
  BY <1>1, <1>2, <1>3, <1>4, ReadRoute DEF GetRide, ListRides
<1>6. /\ GetDriver \in RouteRecords /\ GetDriver.kind = "read"
      /\ GetFare \in RouteRecords /\ GetFare.kind = "read"
  BY <1>1, <1>2, <1>3, <1>4, ReadRoute DEF GetDriver, GetFare
<1>7. "first" \in Kinds /\ "once" \in Kinds
  BY DEF Kinds
<1>8. PostDriver \in RouteRecords /\ PostDriver.kind = "first"
  BY <1>1, <1>2, <1>3, <1>4, <1>7, WriteRoute DEF PostDriver
<1>9. PostFare \in RouteRecords /\ PostFare.kind = "once"
  BY <1>1, <1>2, <1>3, <1>4, <1>7, WriteRoute DEF PostFare
<1>10. QED
  BY <1>5, <1>6, <1>8, <1>9

\* The routes of rides and drivers that differ from it in some fields.
LEMMA RideAndDriverRoutes ==
  /\ PostRide \in RouteRecords /\ PostRide.kind = "fresh"
  /\ PostTransition \in RouteRecords /\ PostTransition.kind = "first"
  /\ PatchAvailability \in RouteRecords /\ PatchAvailability.kind = "overwrite"
  /\ PatchLocation \in RouteRecords /\ PatchLocation.kind = "overwrite"
<1>1. PostRide \in RouteRecords /\ PostRide.kind = "fresh"
  <2> DEFINE w == Write({"ride:create"}, {"riderId", "pickup", "dropoff"}, "fresh",
                        {"VALIDATION_ERROR"}, Only({"CONFLICT"}))
  <2>1. w \in RouteRecords /\ w.kind = "fresh"
    <3>1. Only({"CONFLICT"}) \in StatusMaps
      BY OnlyIsStatusMap, StatusFacts
    <3>2. /\ {"ride:create"} \in SUBSET AUTH_SCOPES /\ "fresh" \in Kinds
          /\ {"riderId", "pickup", "dropoff"} \in SUBSET Attributes
      BY DEF AUTH_SCOPES, Kinds, Attributes
    <3>3. {"VALIDATION_ERROR"} \in SUBSET Tags
      BY StatusFacts
    <3>4. QED
      BY <3>1, <3>2, <3>3, WriteRoute
  <2>2. PostRide = [w EXCEPT !.readBack = TRUE]
    BY DEF PostRide
  <2> HIDE DEF w
  <2>3. QED
    BY <2>1, <2>2, AdaptedRoute
<1>2. PostTransition \in RouteRecords /\ PostTransition.kind = "first"
  <2> DEFINE w == Write({"ride:update"}, {"id", "toState"}, "first",
                        {"NOT_FOUND", "CONFLICT", "VALIDATION_ERROR"},
                        Only({"NOT_FOUND", "CONFLICT"}))
             a == [w EXCEPT !.success = 200]
  <2>1. w \in RouteRecords /\ w.kind = "first"
    <3>1. Only({"NOT_FOUND", "CONFLICT"}) \in StatusMaps
      BY OnlyIsStatusMap, StatusFacts
    <3>2. /\ {"ride:update"} \in SUBSET AUTH_SCOPES /\ "first" \in Kinds
          /\ {"id", "toState"} \in SUBSET Attributes
      BY DEF AUTH_SCOPES, Kinds, Attributes
    <3>3. {"NOT_FOUND", "CONFLICT", "VALIDATION_ERROR"} \in SUBSET Tags
      BY StatusFacts
    <3>4. QED
      BY <3>1, <3>2, <3>3, WriteRoute
  <2>2. PostTransition = [[w EXCEPT !.success = 200] EXCEPT !.readBack = TRUE]
    BY DEF PostTransition
  <2> HIDE DEF w
  <2>3. a \in RouteRecords /\ a.kind = "first"
    BY <2>1, AdaptedRoute
  <2>4. PostTransition = [a EXCEPT !.readBack = TRUE]
    BY <2>2
  <2> HIDE DEF a
  <2>5. QED
    BY <2>3, <2>4, AdaptedRoute
<1>3. PatchAvailability \in RouteRecords /\ PatchAvailability.kind = "overwrite"
  <2> DEFINE w == Write({"driver:write"}, {"id", "state"}, "overwrite",
                        {"NOT_FOUND", "CONFLICT"}, Only({"NOT_FOUND", "CONFLICT"}))
  <2>1. w \in RouteRecords /\ w.kind = "overwrite"
    <3>1. Only({"NOT_FOUND", "CONFLICT"}) \in StatusMaps
      BY OnlyIsStatusMap, StatusFacts
    <3>2. /\ {"driver:write"} \in SUBSET AUTH_SCOPES /\ "overwrite" \in Kinds
          /\ {"id", "state"} \in SUBSET Attributes
      BY DEF AUTH_SCOPES, Kinds, Attributes
    <3>3. {"NOT_FOUND", "CONFLICT"} \in SUBSET Tags
      BY StatusFacts
    <3>4. QED
      BY <3>1, <3>2, <3>3, WriteRoute
  <2>2. PatchAvailability = [w EXCEPT !.success = 200]
    BY DEF PatchAvailability
  <2> HIDE DEF w
  <2>3. QED
    BY <2>1, <2>2, AdaptedRoute
<1>4. PatchLocation \in RouteRecords /\ PatchLocation.kind = "overwrite"
  <2> DEFINE w == Write({"driver:write"},
                        {"id", "latitude", "longitude", "accuracy", "bearing", "speed",
                         "recordedAt"}, "overwrite",
                        {"NOT_FOUND", "VALIDATION_ERROR", "CONFLICT"},
                        Only({"NOT_FOUND", "VALIDATION_ERROR"}))
  <2>1. w \in RouteRecords /\ w.kind = "overwrite"
    <3>1. Only({"NOT_FOUND", "VALIDATION_ERROR"}) \in StatusMaps
      BY OnlyIsStatusMap, StatusFacts
    <3>2. /\ {"driver:write"} \in SUBSET AUTH_SCOPES /\ "overwrite" \in Kinds
          /\ {"id", "latitude", "longitude", "accuracy", "bearing", "speed",
              "recordedAt"} \in SUBSET Attributes
      BY DEF AUTH_SCOPES, Kinds, Attributes
    <3>3. {"NOT_FOUND", "VALIDATION_ERROR", "CONFLICT"} \in SUBSET Tags
      BY StatusFacts
    <3>4. QED
      BY <3>1, <3>2, <3>3, WriteRoute
  <2>2. PatchLocation = [w EXCEPT !.success = 200]
    BY DEF PatchLocation
  <2> HIDE DEF w
  <2>3. QED
    BY <2>1, <2>2, AdaptedRoute
<1>5. QED
  BY <1>1, <1>2, <1>3, <1>4

\* The same of the routes of payments and dispatch.
LEMMA PaymentAndDispatchRoutes ==
  /\ PostDispatch \in RouteRecords /\ PostDispatch.kind = "saga"
  /\ PostPaymentIntent \in RouteRecords /\ PostPaymentIntent.kind = "once"
  /\ PostSettlement \in RouteRecords /\ PostSettlement.kind = "keyed"
  /\ PostSettlement.key = "matched"
  /\ GetReceipt \in RouteRecords /\ GetReceipt.kind = "read"
  /\ GetEvidence \in RouteRecords /\ GetEvidence.kind = "read"
<1>0. HTTP_STATUS_MAP \in StatusMaps
  BY MapIsStatusMap
<1>1. PostDispatch \in RouteRecords /\ PostDispatch.kind = "saga"
  <2> DEFINE w == Write({"dispatch:execute"}, {"rideId"}, "saga",
                        {"VALIDATION_ERROR", "NOT_FOUND", "CONFLICT"}, HTTP_STATUS_MAP)
             a == [w EXCEPT !.early = TRUE]
  <2>1. w \in RouteRecords /\ w.kind = "saga"
    <3>1. /\ {"dispatch:execute"} \in SUBSET AUTH_SCOPES /\ "saga" \in Kinds
          /\ {"rideId"} \in SUBSET Attributes
      BY DEF AUTH_SCOPES, Kinds, Attributes
    <3>2. {"VALIDATION_ERROR", "NOT_FOUND", "CONFLICT"} \in SUBSET Tags
      BY StatusFacts
    <3>3. QED
      BY <1>0, <3>1, <3>2, WriteRoute
  <2>2. PostDispatch = [[w EXCEPT !.early = TRUE] EXCEPT !.key = "header"]
    BY DEF PostDispatch
  <2> HIDE DEF w
  <2>3. a \in RouteRecords /\ a.kind = "saga"
    BY <2>1, AdaptedRoute
  <2>4. PostDispatch = [a EXCEPT !.key = "header"]
    BY <2>2
  <2> HIDE DEF a
  <2>5. QED
    BY <2>3, <2>4, AdaptedRoute
<1>2. PostPaymentIntent \in RouteRecords /\ PostPaymentIntent.kind = "once"
  <2> DEFINE w == Write({"payment:initiate"},
                        {"rideId", "riderId", "amountCOP", "fareBreakdown", "pricingVersion"},
                        "once", {}, HTTP_STATUS_MAP)
  <2>1. w \in RouteRecords /\ w.kind = "once"
    <3>1. /\ {"payment:initiate"} \in SUBSET AUTH_SCOPES /\ "once" \in Kinds
          /\ {"rideId", "riderId", "amountCOP", "fareBreakdown",
              "pricingVersion"} \in SUBSET Attributes
      BY DEF AUTH_SCOPES, Kinds, Attributes
    <3>2. QED
      BY <1>0, <3>1, WriteRoute
  <2>2. PostPaymentIntent = [w EXCEPT !.early = TRUE]
    BY DEF PostPaymentIntent
  <2> HIDE DEF w
  <2>3. QED
    BY <2>1, <2>2, AdaptedRoute
<1>3. PostSettlement \in RouteRecords /\ PostSettlement.kind = "keyed" /\ PostSettlement.key = "matched"
  <2> DEFINE w == Write({"payment:initiate"}, {"rideId", "providerTokenRef", "idempotencyKey"},
                        "keyed", {"NOT_FOUND", "CONFLICT"}, HTTP_STATUS_MAP)
             a == [w EXCEPT !.early = TRUE]
  <2>1. w \in RouteRecords /\ w.kind = "keyed"
    <3>1. /\ {"payment:initiate"} \in SUBSET AUTH_SCOPES /\ "keyed" \in Kinds
          /\ {"rideId", "providerTokenRef", "idempotencyKey"} \in SUBSET Attributes
      BY DEF AUTH_SCOPES, Kinds, Attributes
    <3>2. {"NOT_FOUND", "CONFLICT"} \in SUBSET Tags
      BY StatusFacts
    <3>3. QED
      BY <1>0, <3>1, <3>2, WriteRoute
  <2>2. PostSettlement = [[w EXCEPT !.early = TRUE] EXCEPT !.key = "matched"]
    BY DEF PostSettlement
  <2> HIDE DEF w
  <2>3. a \in RouteRecords /\ a.kind = "keyed"
    BY <2>1, AdaptedRoute
  <2>4. PostSettlement = [a EXCEPT !.key = "matched"]
    BY <2>2
  <2> HIDE DEF a
  <2>5. QED
    BY <2>3, <2>4, AdaptedRoute
<1>4. GetReceipt \in RouteRecords /\ GetReceipt.kind = "read"
  <2> DEFINE w == Read({"payment:read"}, {"rideId"}, {"NOT_FOUND"}, HTTP_STATUS_MAP)
  <2>1. w \in RouteRecords /\ w.kind = "read"
    <3>1. {"payment:read"} \in SUBSET AUTH_SCOPES /\ {"rideId"} \in SUBSET Attributes
      BY DEF AUTH_SCOPES, Attributes
    <3>2. {"NOT_FOUND"} \in SUBSET Tags
      BY StatusFacts
    <3>3. QED
      BY <1>0, <3>1, <3>2, ReadRoute
  <2>2. GetReceipt = [w EXCEPT !.early = TRUE]
    BY DEF GetReceipt
  <2> HIDE DEF w
  <2>3. QED
    BY <2>1, <2>2, AdaptedRoute
<1>5. GetEvidence \in RouteRecords /\ GetEvidence.kind = "read"
  <2>1. {"admin:read"} \in SUBSET AUTH_SCOPES
    BY DEF AUTH_SCOPES
  <2>2. \A s \in SUBSET AUTH_SCOPES :
             /\ [GetReceipt EXCEPT !.scopes = s] \in RouteRecords
             /\ [GetReceipt EXCEPT !.scopes = s].kind = GetReceipt.kind
    BY <1>4, AdaptedRoute
  <2>3. QED
    BY <1>4, <2>1, <2>2 DEF GetEvidence
<1>6. QED
  BY <1>1, <1>2, <1>3, <1>4, <1>5

\* The routes the properties name, and what all have in common.
LEMMA Routes ==
  ASSUME NEW n \in DOMAIN Route
  PROVE  /\ Route[n] \in RouteRecords
         /\ Route[n].kind = "saga" <=> n = "postDispatch"
         /\ Route[n].kind = "keyed" <=> n = "postSettlement"
         /\ n = "postSettlement" => Route[n].key = "matched"
         /\ n \in {"postPaymentIntent", "postFare"} => Route[n].kind = "once"
<1>1. n \in {"postRide", "postTransition", "getRide", "listRides", "postDriver",
             "patchAvailability", "patchLocation", "getDriver", "postDispatch", "postFare",
             "getFare", "postPaymentIntent", "postSettlement", "getReceipt", "getEvidence",
             "getPaymentStatus"}
  BY DEF Route
<1>2. /\ Route["postRide"] = PostRide /\ Route["postTransition"] = PostTransition
      /\ Route["getRide"] = GetRide /\ Route["listRides"] = ListRides
      /\ Route["postDriver"] = PostDriver /\ Route["patchAvailability"] = PatchAvailability
      /\ Route["patchLocation"] = PatchLocation /\ Route["getDriver"] = GetDriver
  BY DEF Route
<1>3. /\ Route["postDispatch"] = PostDispatch /\ Route["postFare"] = PostFare
      /\ Route["getFare"] = GetFare /\ Route["postPaymentIntent"] = PostPaymentIntent
      /\ Route["postSettlement"] = PostSettlement /\ Route["getReceipt"] = GetReceipt
      /\ Route["getEvidence"] = GetEvidence /\ Route["getPaymentStatus"] = GetReceipt
  BY DEF Route, GetPaymentStatus
<1>4. n \in {"postRide", "postTransition", "getRide", "listRides", "postDriver",
             "patchAvailability", "patchLocation", "getDriver"}
      => Route[n] \in RouteRecords /\ Route[n].kind \notin {"saga", "keyed"}
  BY <1>2, PlainRoutes, RideAndDriverRoutes
<1>5. n \in {"getFare", "getReceipt", "getEvidence", "getPaymentStatus"}
      => Route[n] \in RouteRecords /\ Route[n].kind = "read"
  BY <1>3, PlainRoutes, PaymentAndDispatchRoutes
<1>6. QED
  BY <1>1, <1>3, <1>4, <1>5, PlainRoutes, PaymentAndDispatchRoutes

-----------------------------------------------------------------------------
(* What a request can be told, and the log.                                *)

Answers == {0, 200, 201, 415} \cup Statuses

\* What the type invariant says of a request that was sent.
LEMMA RoutesOfRequests ==
  ASSUME TypeOK, NEW q \in Requests, pc[q] # "unsent"
  PROVE  /\ op[q] \in Operations /\ op[q].route \in DOMAIN Route /\ op[q].user \in Users
         /\ {op[q].header, op[q].bodyKey} \subseteq Keys \cup {NoKey}
         /\ RouteOf(q) \in RouteRecords
<1>1. op[q] \in Operations
  BY DEF TypeOK
<1>2. QED
  BY <1>1, GateAssumption, Routes DEF RouteOf

\* A session has no scopes but those the code lists.
LEMMA ScopesAreKnown ==
  ASSUME NEW p
  PROVE  ScopesOf(p) \in SUBSET AUTH_SCOPES
<1>1. getScopesForRole(p.role) \in SUBSET AUTH_SCOPES
  <2>1. /\ ROLE_SCOPES["rider"] \in SUBSET AUTH_SCOPES
        /\ ROLE_SCOPES["driver"] \in SUBSET AUTH_SCOPES
        /\ ROLE_SCOPES["admin"] \in SUBSET AUTH_SCOPES
    BY DEF ROLE_SCOPES, AUTH_SCOPES
  <2>2. DOMAIN ROLE_SCOPES = {"rider", "driver", "admin"}
    BY DEF ROLE_SCOPES
  <2>3. QED
    BY <2>1, <2>2 DEF getScopesForRole
<1>2. p.authScopes \cap AUTH_SCOPES \in SUBSET AUTH_SCOPES
  OBVIOUS
<1>3. QED
  BY <1>1, <1>2 DEF ScopesOf

\* No request is in the log twice, so that the log is no longer than there are requests.
LEMMA LogBound ==
  ASSUME TypeOK, LoggedOnce
  PROVE  Len(log) \in Nat /\ Cardinality(Requests) \in Nat /\ Len(log) <= Cardinality(Requests)
<1>1. log \in Seq(Requests) /\ Len(log) \in Nat /\ DOMAIN log = 1..Len(log)
  BY DEF TypeOK
<1>2. /\ IsFiniteSet(1..Len(log)) /\ Cardinality(1..Len(log)) = Len(log)
      /\ IsFiniteSet(Requests) /\ Cardinality(Requests) \in Nat
  <2>1. MaxRequests \in Nat /\ 1 \in Int /\ MaxRequests \in Int
    BY GateAssumption
  <2>2. IsFiniteSet(Requests)
    BY <2>1, FS_Interval DEF Requests
  <2>3. 1 \in Int /\ Len(log) \in Int
    BY <1>1
  <2>4. /\ IsFiniteSet(1..Len(log))
        /\ Cardinality(1..Len(log)) = IF 1 > Len(log) THEN 0 ELSE Len(log) - 1 + 1
    BY <2>3, FS_Interval
  <2>5. Cardinality(1..Len(log)) = Len(log)
    BY <2>4, <1>1
  <2>6. QED
    BY <2>2, <2>4, <2>5, FS_CardinalityType
<1>3. log \in Injection(1..Len(log), Requests)
  BY <1>1 DEF LoggedOnce, Injection, IsInjective
<1>4. QED
  BY <1>1, <1>2, <1>3, FS_Injection

\* An entry appended to the log leaves the others where they are.
LEMMA LogGrows ==
  ASSUME TypeOK, NEW q \in Requests, log' = Append(log, q)
  PROVE  /\ log' \in Seq(Requests) /\ Len(log) \in Nat /\ Len(log') = Len(log) + 1
         /\ DOMAIN log = 1..Len(log) /\ DOMAIN log' = 1..(Len(log) + 1)
         /\ \A i \in DOMAIN log : log'[i] = log[i]
         /\ log'[Len(log) + 1] = q
<1>1. log \in Seq(Requests)
  BY DEF TypeOK
<1>2. QED
  BY <1>1, AppendProperties, LenProperties

-----------------------------------------------------------------------------
(* Steps in which a request records nothing.                               *)

\* Request q goes to l, with status s.
Quiet(q, l, s) ==
    /\ pc[q] \in {"authenticating", "parsing", "reading"}
    /\ l \in {"parsing", "executing", "answered", "stuck"}
    /\ s \in Answers
    /\ l = "answered" <=> s # 0
    /\ pc' = [pc EXCEPT ![q] = l]
    /\ status' = [status EXCEPT ![q] = s]
    /\ UNCHANGED <<accounts, op, seen, recorded>>

\* What Quiet leaves open.
QuietFacts(q, l, s) ==
    /\ s # HTTP_STATUS_MAP["CONFLICT"]
    /\ pc[q] = "reading" => l = "answered" /\ s \notin 400..499
    /\ s \in {200, 201} => pc[q] = "reading"
    /\ l = "parsing" => ScopesOf(user'[q]) \subseteq granted[op[q].user]
    /\ l = "executing" => /\ RouteOf(q).scopes \subseteq granted[op[q].user]
                          /\ KeyAccepted(op[q])
    /\ user' \in [Requests -> Profiles \cup {NoProfile}]
    /\ \A p \in Requests \ {q} : user'[p] = user[p]
    /\ disturbances' \in 0..MaxDisturbances

Steps(q) == Authenticate(q) \/ AuthenticateFails(q) \/ Handle(q) \/ ReadBack(q) \/ ReadBackFails(q)

\* A request that is not answered has no status.
LEMMA NoStatusYet ==
  ASSUME TypeOK, NEW q \in Requests, pc[q] # "answered"
  PROVE  status[q] = 0 /\ status = [status EXCEPT ![q] = 0]
<1>1. status[q] = 0 /\ status \in [Requests -> Answers]
  BY DEF TypeOK, Answers, Statuses
<1>2. QED
  BY <1>1

\* Disturbances stay within their bound.
LEMMA Disturbed == ASSUME TypeOK PROVE /\ Disturb => disturbances' \in 0..MaxDisturbances
                                       /\ disturbances \in 0..MaxDisturbances
  BY GateAssumption DEF TypeOK, Disturb

\* A session gives its user no scope that was never granted.
LEMMA Sessions ==
  ASSUME Inv, NEW u \in Users, getSession(u) # NoProfile
  PROVE  getSession(u) \in Profiles /\ ScopesOf(getSession(u)) \subseteq granted[u]
  BY DEF Inv, TypeOK, AccountInv, getSession

\* The statuses the gate itself chooses are answers.
LEMMA StatusAnswers ==
  /\ HTTP_STATUS_MAP["VALIDATION_ERROR"] \in Answers /\ HTTP_STATUS_MAP["CONFLICT"] = 409
  /\ HTTP_STATUS_MAP["AUTHENTICATION_ERROR"] = 401 /\ HTTP_STATUS_MAP["AUTHORIZATION_ERROR"] = 403
  /\ HTTP_STATUS_MAP["VALIDATION_ERROR"] = 400
  /\ {0, 200, 201, 400, 401, 403, 415, 500} \subseteq Answers
  BY StatusFacts, StatusValues DEF Answers

\* The authentication hook only moves a request on, or answers it without an effect.
LEMMA QuietAuthenticate ==
  ASSUME Inv, NEW q \in Requests, Authenticate(q)
  PROVE  \E l, s : Quiet(q, l, s) /\ QuietFacts(q, l, s)
<1> DEFINE found == getSession(op[q].user)
<1>1. TypeOK /\ pc[q] = "authenticating" /\ status[q] = 0 /\ status = [status EXCEPT ![q] = 0]
  BY NoStatusYet DEF Inv, Authenticate
<1>2. op[q].user \in Users
  BY <1>1, RoutesOfRequests
<1>3. UNCHANGED <<accounts, op, seen, recorded>> /\ disturbances' \in 0..MaxDisturbances
  BY <1>1, Disturbed DEF Authenticate
<1>4. user \in [Requests -> Profiles \cup {NoProfile}]
  BY <1>1 DEF TypeOK
<1>5. CASE found = NoProfile
  <2>1. pc' = [pc EXCEPT ![q] = "answered"] /\ status' = [status EXCEPT ![q] = 401] /\ user' = user
    BY <1>5, StatusAnswers DEF Authenticate, Answer, Goto
  <2>2. Quiet(q, "answered", 401)
    BY <1>1, <1>3, <2>1, StatusAnswers DEF Quiet
  <2>3. QuietFacts(q, "answered", 401)
    BY <1>1, <1>3, <1>4, <2>1, StatusAnswers DEF QuietFacts
  <2>4. QED
    BY <2>2, <2>3
<1>6. CASE found # NoProfile
  <2> DEFINE l == IF LifecycleHooks THEN "stuck" ELSE "parsing"
  <2>1. /\ pc' = [pc EXCEPT ![q] = l] /\ status' = [status EXCEPT ![q] = 0]
        /\ user' = [user EXCEPT ![q] = found]
    BY <1>1, <1>6 DEF Authenticate, LogRequest, Goto
  <2>2. found \in Profiles /\ ScopesOf(found) \subseteq granted[op[q].user]
    BY <1>2, <1>6, Sessions
  <2>3. l \in {"parsing", "stuck"}
    OBVIOUS
  <2> HIDE DEF l, found
  <2>4. Quiet(q, l, 0)
    BY <1>1, <1>3, <2>1, <2>3, StatusAnswers DEF Quiet
  <2>5. QuietFacts(q, l, 0)
    BY <1>1, <1>3, <1>4, <2>1, <2>2, <2>3, StatusAnswers DEF QuietFacts
  <2>6. QED
    BY <2>4, <2>5
<1>7. QED
  BY <1>5, <1>6

\* An error the framework throws.
LEMMA QuietThrow ==
  ASSUME Inv, NEW q \in Requests, pc[q] \in {"authenticating", "parsing"},
         NEW s \in {400, 500}, Throw(q, s), UNCHANGED <<accounts, op, user, seen, recorded>>,
         disturbances' \in 0..MaxDisturbances
  PROVE  \E l, t : Quiet(q, l, t) /\ QuietFacts(q, l, t)
<1>1. TypeOK /\ status[q] = 0 /\ status = [status EXCEPT ![q] = 0]
      /\ user \in [Requests -> Profiles \cup {NoProfile}]
  BY NoStatusYet DEF Inv, TypeOK
<1>2. CASE LifecycleHooks
  <2>1. pc' = [pc EXCEPT ![q] = "stuck"] /\ status' = [status EXCEPT ![q] = 0]
    BY <1>1, <1>2 DEF Throw, Goto
  <2>2. Quiet(q, "stuck", 0) /\ QuietFacts(q, "stuck", 0)
    BY <1>1, <2>1, StatusAnswers DEF Quiet, QuietFacts
  <2>3. QED
    BY <2>2
<1>3. CASE ~LifecycleHooks
  <2>1. pc' = [pc EXCEPT ![q] = "answered"] /\ status' = [status EXCEPT ![q] = s]
    BY <1>3 DEF Throw, Answer, Goto
  <2>2. Quiet(q, "answered", s) /\ QuietFacts(q, "answered", s)
    BY <1>1, <2>1, StatusAnswers DEF Quiet, QuietFacts
  <2>3. QED
    BY <2>2
<1>4. QED
  BY <1>2, <1>3

\* So do the parser, the schemas, the scopes and the key checks.
LEMMA QuietHandle ==
  ASSUME Inv, NEW q \in Requests, Handle(q)
  PROVE  \E l, s : Quiet(q, l, s) /\ QuietFacts(q, l, s)
<1> DEFINE o == op[q]
           refusal == Refusal(o, user[q])
<1>1. /\ TypeOK /\ pc[q] = "parsing" /\ status[q] = 0 /\ status = [status EXCEPT ![q] = 0]
      /\ user \in [Requests -> Profiles \cup {NoProfile}]
  BY NoStatusYet DEF Inv, Handle, TypeOK
<1>2. /\ UNCHANGED <<accounts, op, user, seen, recorded>>
      /\ disturbances' \in 0..MaxDisturbances
  BY <1>1, Disturbed DEF Handle
<1>3. ScopesOf(user[q]) \subseteq granted[o.user]
  BY <1>1 DEF Inv, RequestInv
<1>4. refusal \in {0, 400, 403, 415, 500} /\ (refusal = 0 => KeyAccepted(o))
  BY StatusAnswers DEF Refusal
<1>5. ASSUME NEW s \in {400, 500}, Throw(q, s)
      PROVE  \E l, t : Quiet(q, l, t) /\ QuietFacts(q, l, t)
  BY <1>1, <1>2, <1>5, QuietThrow
<1>6. ASSUME NEW s \in {400, 403, 415, 500}, Answer(q, s)
      PROVE  \E l, t : Quiet(q, l, t) /\ QuietFacts(q, l, t)
  <2>1. pc' = [pc EXCEPT ![q] = "answered"] /\ status' = [status EXCEPT ![q] = s]
    BY <1>6 DEF Answer, Goto
  <2>2. Quiet(q, "answered", s) /\ QuietFacts(q, "answered", s)
    BY <1>1, <1>2, <2>1, StatusAnswers DEF Quiet, QuietFacts
  <2>3. QED
    BY <2>2
<1>7. ASSUME requireScopes(o, user[q]), refusal = 0, Goto(q, "executing"), UNCHANGED status
      PROVE  \E l, t : Quiet(q, l, t) /\ QuietFacts(q, l, t)
  <2>1. RouteOf(q).scopes \subseteq granted[o.user] /\ KeyAccepted(o)
    BY <1>3, <1>4, <1>7 DEF requireScopes, RouteOf
  <2>2. pc' = [pc EXCEPT ![q] = "executing"] /\ status' = [status EXCEPT ![q] = 0]
    BY <1>1, <1>7 DEF Goto
  <2>3. Quiet(q, "executing", 0) /\ QuietFacts(q, "executing", 0)
    BY <1>1, <1>2, <2>1, <2>2, StatusAnswers DEF Quiet, QuietFacts
  <2>4. QED
    BY <2>3
<1>8. \/ Throw(q, 500) \/ Throw(q, 400)
      \/ Answer(q, 403)
      \/ refusal # 0 /\ Answer(q, refusal)
      \/ requireScopes(o, user[q]) /\ refusal = 0 /\ Goto(q, "executing") /\ UNCHANGED status
  BY StatusAnswers DEF Handle
<1> HIDE DEF o, refusal
<1>9. QED
  BY <1>4, <1>5, <1>6, <1>7, <1>8

\* So does the read for the answer, which answers a recorded effect.
LEMMA QuietReadBack ==
  ASSUME Inv, NEW q \in Requests, ReadBack(q) \/ ReadBackFails(q)
  PROVE  \E l, s : Quiet(q, l, s) /\ QuietFacts(q, l, s)
<1>1. /\ TypeOK /\ pc[q] = "reading" /\ UNCHANGED <<accounts, op, user, seen, recorded>>
      /\ disturbances' \in 0..MaxDisturbances
      /\ user \in [Requests -> Profiles \cup {NoProfile}]
  BY Disturbed DEF Inv, ReadBack, ReadBackFails, TypeOK
<1>2. RouteOf(q) \in RouteRecords
  BY <1>1, RoutesOfRequests
<1>3. PICK s \in {200, 201, 500} : Answer(q, s)
  BY <1>2 DEF ReadBack, ReadBackFails, RouteRecords
<1>4. pc' = [pc EXCEPT ![q] = "answered"] /\ status' = [status EXCEPT ![q] = s]
  BY <1>3 DEF Answer, Goto
<1>5. Quiet(q, "answered", s)
  BY <1>1, <1>4, StatusAnswers DEF Quiet
<1>6. QuietFacts(q, "answered", s)
  BY <1>1, <1>4, StatusAnswers DEF QuietFacts
<1>7. QED
  BY <1>5, <1>6

\* So does every step of a request outside its use case.
LEMMA QuietSteps ==
  ASSUME Inv, NEW q \in Requests, Steps(q)
  PROVE  \E l, s : Quiet(q, l, s) /\ QuietFacts(q, l, s)
<1>1. ASSUME AuthenticateFails(q) PROVE \E l, s : Quiet(q, l, s) /\ QuietFacts(q, l, s)
  <2>1. /\ pc[q] = "authenticating" /\ Throw(q, 500) /\ disturbances' \in 0..MaxDisturbances
        /\ UNCHANGED <<accounts, op, user, seen, recorded>>
    BY <1>1, Disturbed DEF Inv, AuthenticateFails
  <2>2. QED
    BY <2>1, QuietThrow
<1>2. QED
  BY <1>1, QuietAuthenticate, QuietHandle, QuietReadBack DEF Steps

-----------------------------------------------------------------------------
(* Steps of a use case.                                                    *)

Results == [tag : Tags \cup {"OK"}, records : BOOLEAN, leaves : BOOLEAN]

\* What is true of a result c of request q.
Outcome(q, c) ==
    /\ c \in Results
    /\ c.records => WritesAnew(q) \/ (RouteOf(q).kind # "read" /\ ~Recorded(op[q]))
    /\ c.leaves => RouteOf(q).kind = "saga" /\ ~c.records /\ c.tag # "OK"
    /\ c.records /\ c.tag # "OK" => c.tag \in {"INFRASTRUCTURE_ERROR", "UNEXPECTED_ERROR"}
    /\ c.tag = "CONFLICT" /\ RouteOf(q).kind = "once" => ~Recorded(op[q])
    /\ c.tag = "CONFLICT" /\ RouteOf(q).kind = "keyed" => ~Recorded(op[q]) \/ KeyOfOtherRide(op[q])
    /\ c.tag = "OK" /\ ~c.records =>
           \/ RouteOf(q).kind = "read"
           \/ RouteOf(q).kind \in {"once", "keyed"} /\ Recorded(op[q])
           \/ /\ RouteOf(q).kind = "saga"
              /\ <<CorrelationId(op[q]), "SUCCEEDED">> \in processes

\* A refusal records nothing.
LEMMA ResultRecords ==
  ASSUME NEW T \in SUBSET Tags, NEW b \in BOOLEAN
  PROVE  /\ \A c \in Refused(T) : /\ c \in Results /\ c.tag \in T /\ c.records = FALSE
                                  /\ c.leaves = FALSE
         /\ \A c \in Abandoned(T) : c \in Results /\ c.tag \in T /\ c.records = FALSE
         /\ Ok(b) \in Results /\ Ok(b).tag = "OK" /\ Ok(b).records = b /\ Ok(b).leaves = FALSE
<1>1. ASSUME NEW c \in Refused(T)
      PROVE  c \in Results /\ c.tag \in T /\ c.records = FALSE /\ c.leaves = FALSE
  <2>1. PICK t \in T : c = [tag |-> t, records |-> FALSE, leaves |-> FALSE]
    BY <1>1 DEF Refused
  <2>2. c \in Results
    BY <2>1 DEF Results
  <2>3. c.tag = t /\ c.records = FALSE /\ c.leaves = FALSE
    BY <2>1, Zenon
  <2>4. QED
    BY <2>2, <2>3
<1>2. ASSUME NEW c \in Abandoned(T)
      PROVE  c \in Results /\ c.tag \in T /\ c.records = FALSE
  <2>1. PICK t \in T : c = [tag |-> t, records |-> FALSE, leaves |-> TRUE]
    BY <1>2 DEF Abandoned
  <2>2. c \in Results
    BY <2>1 DEF Results
  <2>3. c.tag = t /\ c.records = FALSE
    BY <2>1, Zenon
  <2>4. QED
    BY <2>2, <2>3
<1>3. Ok(b) \in Results
  BY DEF Ok, Results
<1>4. Ok(b).tag = "OK" /\ Ok(b).records = b /\ Ok(b).leaves = FALSE
  BY Zenon DEF Ok
<1>5. QED
  BY <1>1, <1>2, <1>3, <1>4

\* Each outcome of a use case is one its kind allows, and an error records nothing.
LEMMA OutcomeFacts ==
  ASSUME TypeOK, NEW q \in Requests, pc[q] # "unsent", NEW c \in Outcomes(q)
  PROVE  Outcome(q, c) /\ (c.tag # "OK" => c.records = FALSE)
<1> DEFINE o == op[q]
           r == RouteOf(q)
           afresh == {Ok(TRUE)} \cup Refused(r.refusals)
<1>1. r.kind \in Kinds /\ r.refusals \subseteq Tags
  BY RoutesOfRequests DEF RouteRecords
<1>2. {"CONFLICT", "NOT_FOUND", "VALIDATION_ERROR"} \subseteq Tags /\ "OK" \notin Tags
  BY StatusFacts
<1>3. \A d \in afresh : /\ d \in Results /\ d.tag \in Tags \cup {"OK"}
                        /\ d.tag = "OK" <=> d.records = TRUE
                        /\ d.leaves = FALSE
  BY <1>1, <1>2, ResultRecords DEF Results
<1>4. \A d \in Refused({"CONFLICT"}) \cup Refused({"VALIDATION_ERROR", "CONFLICT"}) :
          d \in Results /\ d.tag \in Tags /\ d.records = FALSE /\ d.leaves = FALSE
  BY <1>2, ResultRecords
<1>5. \A d \in Abandoned({"CONFLICT"}) \cup Abandoned({"NOT_FOUND", "CONFLICT"}) :
          d \in Results /\ d.tag \in Tags /\ d.records = FALSE
  BY <1>2, ResultRecords
<1>6. /\ Ok(FALSE) \in Results /\ Ok(FALSE).tag = "OK" /\ Ok(FALSE).records = FALSE
      /\ Ok(FALSE).leaves = FALSE
  BY ResultRecords
<1>7. \A d \in Refused(r.refusals) :
          d \in Results /\ d.tag \in Tags /\ d.records = FALSE /\ d.leaves = FALSE
  BY <1>1, ResultRecords
<1>8. WritesAnew(q) <=> r.kind \in {"fresh", "overwrite"}
  BY DEF WritesAnew
<1>9. CASE r.kind = "read"
  <2>1. c \in {Ok(FALSE)} \cup Refused(r.refusals)
    BY <1>9 DEF Outcomes
  <2>2. QED
    BY <1>2, <1>6, <1>7, <1>8, <1>9, <2>1 DEF Outcome
<1>10. CASE r.kind \in {"fresh", "overwrite"}
  <2>1. c \in afresh
    BY <1>10 DEF Outcomes
  <2>2. QED
    BY <1>2, <1>3, <1>8, <1>10, <2>1 DEF Outcome, Results
<1>11. CASE r.kind = "first"
  <2>1. IF Recorded(o) THEN c \in Refused({"CONFLICT"}) ELSE c \in afresh
    BY <1>11 DEF Outcomes
  <2>2. QED
    BY <1>2, <1>3, <1>4, <1>8, <1>11, <2>1 DEF Outcome, Results
<1>12. CASE r.kind = "once"
  <2>1. IF Recorded(o) THEN c = Ok(FALSE) ELSE c \in afresh
    BY <1>12 DEF Outcomes
  <2>2. QED
    BY <1>2, <1>3, <1>6, <1>8, <1>12, <2>1 DEF Outcome, Results
<1>13. CASE r.kind = "keyed"
  <2>1. \/ KeyOfOtherRide(o) /\ c \in Refused({"INFRASTRUCTURE_ERROR"} \cup r.refusals)
        \/ Recorded(o) /\ c = Ok(FALSE)
        \/ ~Recorded(o) /\ c \in afresh
    BY <1>13 DEF Outcomes
  <2>2. \A d \in Refused({"INFRASTRUCTURE_ERROR"} \cup r.refusals) :
            d \in Results /\ d.tag \in Tags /\ d.records = FALSE /\ d.leaves = FALSE
    <3>1. {"INFRASTRUCTURE_ERROR"} \cup r.refusals \in SUBSET Tags
      BY <1>1, StatusFacts
    <3>2. QED
      BY <3>1, ResultRecords
  <2>3. QED
    BY <1>2, <1>3, <1>6, <1>8, <1>13, <2>1, <2>2 DEF Outcome, Results
<1>14. CASE r.kind = "saga"
  <2>1. \/ <<CorrelationId(o), "SUCCEEDED">> \in processes /\ c = Ok(FALSE)
        \/ c \in Refused({"CONFLICT"}) \cup Refused({"VALIDATION_ERROR", "CONFLICT"})
        \/ c \in Abandoned({"CONFLICT"}) \cup Abandoned({"NOT_FOUND", "CONFLICT"})
        \/ ~Recorded(o) /\ c \in afresh
    BY <1>14 DEF Outcomes
  <2>2. QED
    BY <1>2, <1>3, <1>4, <1>5, <1>6, <1>8, <1>14, <2>1 DEF Outcome, Results
<1>15. QED
  BY <1>1, <1>9, <1>10, <1>11, <1>12, <1>13, <1>14 DEF Kinds

\* The use case step, failed or not, returns one of the outcomes.
LEMMA Executing ==
  ASSUME Inv, NEW q \in Requests, Execute(q) \/ ExecuteFails(q)
  PROVE  /\ pc[q] = "executing" /\ UNCHANGED <<accounts, op, user, seen>>
         /\ disturbances' \in 0..MaxDisturbances
         /\ \E c : Outcome(q, c) /\ Return(q, c)
<1>1. /\ TypeOK /\ pc[q] = "executing" /\ UNCHANGED <<accounts, op, user, seen>>
      /\ disturbances' \in 0..MaxDisturbances
  BY Disturbed DEF Inv, Execute, ExecuteFails
<1>2. CASE Execute(q)
  <2>1. PICK c \in Outcomes(q) : Return(q, c)
    BY <1>2 DEF Execute
  <2>2. QED
    BY <1>1, <2>1, OutcomeFacts
<1>3. CASE ExecuteFails(q)
  <2>1. PICK t \in {"INFRASTRUCTURE_ERROR", "UNEXPECTED_ERROR"}, d \in Outcomes(q),
             done \in BOOLEAN :
             Return(q, [tag |-> t, records |-> done /\ d.records, leaves |-> done /\ d.leaves])
    BY <1>3 DEF ExecuteFails
  <2>2. Outcome(q, d)
    BY <1>1, <2>1, OutcomeFacts
  <2> DEFINE c == [tag |-> t, records |-> done /\ d.records, leaves |-> done /\ d.leaves]
  <2>3. c.tag = t /\ c.records = (done /\ d.records) /\ c.leaves = (done /\ d.leaves)
    BY Zenon
  <2>4. c \in Results
    BY <2>1, StatusFacts DEF Results
  <2> HIDE DEF c
  <2>5. c.tag \in {"INFRASTRUCTURE_ERROR", "UNEXPECTED_ERROR"} /\ c.tag # "OK" /\ c.tag # "CONFLICT"
    BY <2>1, <2>3
  <2>6. (c.records => d.records) /\ (c.leaves => d.leaves)
    BY <2>3, Zenon
  <2>7. /\ c.records => WritesAnew(q) \/ (RouteOf(q).kind # "read" /\ ~Recorded(op[q]))
        /\ c.leaves => RouteOf(q).kind = "saga" /\ ~c.records /\ c.tag # "OK"
    BY <2>2, <2>5, <2>6 DEF Outcome
  <2>9. Outcome(q, c)
    BY <2>4, <2>5, <2>7 DEF Outcome
  <2>10. Return(q, c)
    BY <2>1 DEF c
  <2>11. QED
    BY <1>1, <2>9, <2>10
<1>4. QED
  BY <1>2, <1>3

\* What a client is told of a result.
LEMMA ReturnFacts ==
  ASSUME TypeOK, NEW q \in Requests, pc[q] = "executing", NEW c, Outcome(q, c), Return(q, c)
  PROVE  \E l \in {"reading", "answered"}, s \in Answers :
             /\ pc' = [pc EXCEPT ![q] = l] /\ status' = [status EXCEPT ![q] = s]
             /\ l = "answered" <=> s # 0
             /\ c.records => s \notin 400..499
             /\ s = HTTP_STATUS_MAP["CONFLICT"] => c.tag = "CONFLICT"
             /\ l = "reading" \/ s \in {200, 201} => c.tag = "OK"
<1> DEFINE r == RouteOf(q)
<1>1. r \in RouteRecords /\ c \in Results
  BY RoutesOfRequests DEF Outcome
<1>2. r.status \in StatusMaps /\ r.success \in {200, 201}
  BY <1>1 DEF RouteRecords
<1>3. status = [status EXCEPT ![q] = 0]
  BY NoStatusYet
<1>4. CASE c.tag # "OK"
  <2> DEFINE s == r.status[c.tag]
  <2>1. pc' = [pc EXCEPT ![q] = "answered"] /\ status' = [status EXCEPT ![q] = s]
    BY <1>4 DEF Return, Answer, Goto
  <2>2. c.tag \in Tags
    BY <1>1, <1>4 DEF Results
  <2>3. s \in Statuses /\ (s = HTTP_STATUS_MAP["CONFLICT"] => c.tag = "CONFLICT")
    BY <1>2, <2>2 DEF StatusMaps
  <2>4. s \in Answers /\ s # 0 /\ s \notin {200, 201}
    BY <2>3, StatusValues DEF Answers
  <2>5. c.records => s \in {500, 503}
    BY <1>2, <1>4 DEF Outcome, StatusMaps
  <2> HIDE DEF s
  <2>6. c.records => s \notin 400..499
    BY <2>5
  <2>7. QED
    BY <2>1, <2>3, <2>4, <2>6, <1>4
<1>5. CASE c.tag = "OK" /\ r.readBack
  <2>1. pc' = [pc EXCEPT ![q] = "reading"] /\ status' = [status EXCEPT ![q] = 0]
    BY <1>3, <1>5 DEF Return, Goto
  <2>2. 0 \in Answers /\ 0 \notin 400..499 /\ 0 # HTTP_STATUS_MAP["CONFLICT"]
    BY StatusAnswers
  <2>3. c.tag = "OK"
    BY <1>5
  <2>4. QED
    BY <2>1, <2>2, <2>3
<1>6. CASE c.tag = "OK" /\ ~r.readBack
  <2>1. /\ pc' = [pc EXCEPT ![q] = "answered"]
        /\ status' = [status EXCEPT ![q] = r.success]
    BY <1>6 DEF Return, Answer, Goto
  <2> DEFINE s == r.success
  <2>2. /\ s \in Answers /\ s \notin 400..499 /\ s # HTTP_STATUS_MAP["CONFLICT"] /\ s # 0
    BY <1>2, StatusAnswers
  <2>3. c.tag = "OK"
    BY <1>6
  <2> HIDE DEF s
  <2>4. status' = [status EXCEPT ![q] = s]
    BY <2>1 DEF s
  <2>5. QED
    BY <2>1, <2>2, <2>3, <2>4
<1>7. QED
  BY <1>4, <1>5, <1>6

-----------------------------------------------------------------------------
(* The invariant holds at first and is kept.                               *)

\* The invariant holds at first.
LEMMA InitInv == Init => Inv
<1> SUFFICES ASSUME Init PROVE Inv
  OBVIOUS
<1>1. log = <<>> /\ DOMAIN log = {} /\ Len(log) = 0 /\ log \in Seq(Requests)
  BY DEF Init
<1>2. /\ \A q \in Requests : /\ pc[q] = "unsent" /\ op[q] = NoOperation /\ status[q] = 0
                             /\ seen[q] = 0
      /\ leftovers = {}
  BY DEF Init
<1>3. TypeOK
  <2>1. account \in [Users -> Profiles] /\ session \subseteq Users
        /\ cookie \in [Users -> Profiles \cup {NoProfile}]
    BY GateAssumption DEF Init
  <2>2. granted \in [Users -> SUBSET AUTH_SCOPES]
    BY ScopesAreKnown DEF Init
  <2>3. /\ pc \in [Requests -> Labels] /\ op \in [Requests -> Operations \cup {NoOperation}]
        /\ user \in [Requests -> Profiles \cup {NoProfile}]
        /\ status \in [Requests -> {0, 200, 201, 415} \cup {HTTP_STATUS_MAP[t] : t \in Tags}]
    BY DEF Init, Labels
  <2>4. seen \in [Requests -> 0..Cardinality(Requests)]
    <3>1. 0 \in 0..Cardinality(Requests)
      BY <1>1, FS_Interval, FS_CardinalityType, GateAssumption DEF Requests
    <3>2. QED
      BY <3>1 DEF Init
  <2>5. disturbances \in 0..MaxDisturbances
    BY GateAssumption DEF Init
  <2>6. QED
    BY <1>1, <1>2, <2>1, <2>2, <2>3, <2>4, <2>5 DEF TypeOK
<1>4. \A u \in Users : AccountInv(u)
  BY GateAssumption DEF Init, AccountInv
<1>5. \A q \in Requests : RequestInv(q)
  BY <1>1, <1>2 DEF RequestInv, InLog
<1>6. LoggedOnce /\ RetriesActOnce /\ RetriesAreNotRefused
  BY <1>1 DEF LoggedOnce, RetriesActOnce, RetriesAreNotRefused
<1>7. QED
  BY <1>3, <1>4, <1>5, <1>6 DEF Inv

\* What is known of a request that a step leaves alone stays known.
LEMMA RequestUntouched ==
  ASSUME NEW p \in Requests, RequestInv(p),
         pc'[p] = pc[p], op'[p] = op[p], user'[p] = user[p], status'[p] = status[p],
         granted' = granted, RouteOf(p)' = RouteOf(p), seen'[p] <= Len(log'),
         p \in leftovers' => p \in leftovers, InLog(p)' => InLog(p)
  PROVE  RequestInv(p)'
<1>1. pc'[p] = "parsing" => ScopesOf(user'[p]) \subseteq granted'[op'[p].user]
  BY DEF RequestInv
<1>2. pc'[p] = "executing" \/ InLog(p)' \/ p \in leftovers' =>
         (RouteOf(p)').scopes \subseteq granted'[op'[p].user] /\ KeyAccepted(op'[p])
  BY DEF RequestInv
<1>3. InLog(p)' => pc'[p] \in {"reading", "answered", "lost"} /\ status'[p] \notin 400..499
  BY DEF RequestInv
<1>4. p \in leftovers' => /\ pc'[p] = "answered" /\ (RouteOf(p)').kind = "saga" /\ ~InLog(p)'
                          /\ status'[p] \notin {200, 201}
  BY DEF RequestInv
<1>5. QED
  BY <1>1, <1>2, <1>3, <1>4 DEF RequestInv

\* A quiet step keeps the invariant.
LEMMA QuietInv ==
  ASSUME Inv, NEW q \in Requests, NEW l, NEW s, Quiet(q, l, s), QuietFacts(q, l, s)
  PROVE  Inv'
<1>1. /\ account' = account /\ session' = session /\ cookie' = cookie /\ granted' = granted
      /\ op' = op /\ seen' = seen /\ log' = log /\ leftovers' = leftovers
  BY DEF Quiet, accounts, recorded
<1>2. /\ pc' = [pc EXCEPT ![q] = l] /\ status' = [status EXCEPT ![q] = s]
      /\ pc[q] \in {"authenticating", "parsing", "reading"}
      /\ l \in {"parsing", "executing", "answered", "stuck"}
      /\ s \in Answers /\ (l = "answered" <=> s # 0)
  BY DEF Quiet
<1>3. /\ pc \in [Requests -> Labels] /\ status \in [Requests -> Answers]
  BY DEF Inv, TypeOK, Answers, Statuses
<1>4. TypeOK'
  <2>1. pc' \in [Requests -> Labels] /\ status' \in [Requests -> Answers]
    BY <1>2, <1>3 DEF Labels
  <2>2. \A p \in Requests : /\ pc'[p] = "answered" <=> status'[p] # 0
                            /\ pc'[p] = "unsent" <=> op'[p] = NoOperation
    BY <1>1, <1>2, <1>3 DEF Inv, TypeOK
  <2>3. user' \in [Requests -> Profiles \cup {NoProfile}] /\ disturbances' \in 0..MaxDisturbances
    BY DEF QuietFacts
  <2>4. QED
    BY <1>1, <2>1, <2>2, <2>3 DEF Inv, TypeOK, Answers, Statuses
<1>5. ASSUME NEW u \in Users PROVE AccountInv(u)'
  BY <1>1 DEF Inv, AccountInv
<1>6. ASSUME NEW p \in Requests PROVE RequestInv(p)'
  <2>1. RequestInv(p)
    BY DEF Inv
  <2>2. CASE p # q
    <3>1. pc'[p] = pc[p] /\ status'[p] = status[p] /\ user'[p] = user[p]
      BY <1>2, <1>3, <2>2 DEF QuietFacts
    <3>2. /\ op'[p] = op[p] /\ granted' = granted /\ seen'[p] = seen[p] /\ Len(log') = Len(log)
          /\ (p \in leftovers' <=> p \in leftovers)
          /\ (InLog(p)' <=> InLog(p)) /\ RouteOf(p)' = RouteOf(p)
      BY <1>1 DEF InLog, RouteOf
    <3>3. seen'[p] <= Len(log')
      BY <2>1, <3>2 DEF RequestInv
    <3>4. QED
      BY <2>1, <3>1, <3>2, <3>3, RequestUntouched
  <2>3. CASE p = q
    <3>1. pc'[q] = l /\ status'[q] = s
      BY <1>2, <1>3
    <3>2. l = "parsing" => ScopesOf(user'[q]) \subseteq granted[op[q].user]
      BY DEF QuietFacts
    <3>3. l = "executing" => RouteOf(q).scopes \subseteq granted[op[q].user] /\ KeyAccepted(op[q])
      BY DEF QuietFacts
    <3>4. InLog(q) => l = "answered" /\ s \notin 400..499
      BY <1>2, <2>1, <2>3 DEF RequestInv, QuietFacts
    <3>5. q \notin leftovers
      BY <1>2, <2>1, <2>3 DEF RequestInv
    <3>6. /\ pc'[p] = l /\ status'[p] = s /\ p \notin leftovers' /\ op'[p] = op[p]
          /\ granted' = granted /\ seen'[p] = seen[p] /\ Len(log') = Len(log)
          /\ (InLog(p)' <=> InLog(p)) /\ RouteOf(p)' = RouteOf(p)
      BY <1>1, <2>3, <3>1, <3>5 DEF InLog, RouteOf
    <3>7. l = "executing" \/ InLog(p) => RouteOf(p).scopes \subseteq granted[op[p].user] /\ KeyAccepted(op[p])
      BY <2>1, <2>3, <3>3 DEF RequestInv
    <3>8. seen[p] <= Len(log)
      BY <2>1 DEF RequestInv
    <3>9. InLog(p) => l = "answered" /\ s \notin 400..499
      BY <2>3, <3>4
    <3>10. l = "parsing" => ScopesOf(user'[p]) \subseteq granted[op[p].user]
      BY <2>3, <3>2
    <3>11. QED
      BY <3>6, <3>7, <3>8, <3>9, <3>10 DEF RequestInv
  <2>4. QED
    BY <2>2, <2>3
<1>7. LoggedOnce' /\ RetriesActOnce'
  BY <1>1 DEF Inv, LoggedOnce, RetriesActOnce, WritesAnew, RouteOf
<1>8. RetriesAreNotRefused'
  <2>1. \A p \in Requests : status'[p] = HTTP_STATUS_MAP["CONFLICT"] => status[p] = status'[p]
    BY <1>2, <1>3 DEF QuietFacts
  <2>2. QED
    BY <1>1, <2>1 DEF Inv, RetriesAreNotRefused
<1>9. QED
  BY <1>4, <1>5, <1>6, <1>7, <1>8 DEF Inv

\* Two keys of one name are one key.
LEMMA KeysOfOneName ==
  ASSUME NEW k \in Keys, NEW m \in Keys, k.name = m.name
  PROVE  IdempotencyKey(k) = IdempotencyKey(m)
<1>1. /\ [k EXCEPT !.spelling = "lower"] = [name |-> k.name, spelling |-> "lower"]
      /\ [m EXCEPT !.spelling = "lower"] = [name |-> m.name, spelling |-> "lower"]
  BY DEF Keys
<1>2. QED
  BY <1>1 DEF IdempotencyKey

\* A settlement whose key was accepted has one in its body.
LEMMA AcceptedKeys ==
  ASSUME NEW o \in Operations, KeyAccepted(o), o.route = "postSettlement"
  PROVE  o.bodyKey \in Keys
<1>1. Route["postSettlement"].key = "matched"
  BY PaymentAndDispatchRoutes, Routes DEF Route
<1>2. o.bodyKey # NoKey
  BY <1>1 DEF KeyAccepted
<1>3. QED
  BY <1>2, GateAssumption

\* What is not recorded yet differs from all that is.
LEMMA NotRecorded ==
  ASSUME Inv, NEW q \in Requests, pc[q] = "executing", ~Recorded(op[q]), NEW i \in DOMAIN log,
         op[log[i]].route = op[q].route
  PROVE  /\ op[log[i]].target = op[q].target => op[q].route = "postSettlement"
         /\ op[q].route = "postSettlement" => op[log[i]].bodyKey.name # op[q].bodyKey.name
<1> DEFINE a == op[log[i]]
           b == op[q]
<1>1. Ident(a) # Ident(b)
  BY DEF Recorded
<1>2. log[i] \in Requests /\ InLog(log[i])
  BY DEF Inv, TypeOK, InLog
<1>3. pc[log[i]] # "unsent" /\ KeyAccepted(a) /\ KeyAccepted(b)
  <2>1. RequestInv(log[i]) /\ RequestInv(q)
    BY <1>2 DEF Inv
  <2>2. KeyAccepted(op[q])
    BY <2>1 DEF RequestInv
  <2>3. pc[log[i]] \in {"reading", "answered", "lost"} /\ KeyAccepted(op[log[i]])
    BY <1>2, <2>1 DEF RequestInv
  <2>4. QED
    BY <2>2, <2>3
<1>4. a \in Operations /\ b \in Operations
  BY <1>2, <1>3, RoutesOfRequests DEF Inv
<1>5. CASE b.route # "postSettlement"
  BY <1>1, <1>5 DEF Ident
<1>6. CASE b.route = "postSettlement"
  <2>1. a.bodyKey \in Keys /\ b.bodyKey \in Keys
    BY <1>3, <1>4, <1>6, AcceptedKeys
  <2>2. Ident(a) = <<a.route, IdempotencyKey(a.bodyKey)>>
        /\ Ident(b) = <<b.route, IdempotencyKey(b.bodyKey)>>
    BY <1>6 DEF Ident
  <2>3. a.bodyKey.name # b.bodyKey.name
    BY <1>1, <2>1, <2>2, KeysOfOneName
  <2>4. QED
    BY <1>6, <2>3
<1>7. QED
  BY <1>5, <1>6

\* A settlement that is recorded keeps its key from other rides.
LEMMA KeyIsRides ==
  ASSUME Inv, NEW q \in Requests, pc[q] = "executing", op[q].route = "postSettlement",
         NEW i \in DOMAIN log, op[log[i]] = op[q]
  PROVE  ~KeyOfOtherRide(op[q])
<1> SUFFICES ASSUME NEW j \in DOMAIN log, Ident(op[log[j]]) = Ident(op[q]),
                    op[log[j]].target # op[q].target
             PROVE  FALSE
  BY DEF KeyOfOtherRide
<1> DEFINE b == op[log[j]]
<1>1. b.route = "postSettlement" /\ IdempotencyKey(b.bodyKey) = IdempotencyKey(op[q].bodyKey)
  BY DEF Ident
<1>2. log[j] \in Requests /\ InLog(log[j]) /\ i # j
  BY DEF Inv, TypeOK, InLog
<1>3. pc[log[j]] # "unsent" /\ KeyAccepted(b) /\ KeyAccepted(op[q])
  <2>1. RequestInv(log[j]) /\ RequestInv(q)
    BY <1>2 DEF Inv
  <2>2. QED
    BY <1>2, <2>1 DEF RequestInv
<1>4. b \in Operations /\ op[q] \in Operations
  BY <1>2, <1>3, RoutesOfRequests DEF Inv
<1>5. b.bodyKey \in Keys /\ op[q].bodyKey \in Keys
  BY <1>1, <1>3, <1>4, AcceptedKeys
<1>6. b.bodyKey.name = op[q].bodyKey.name
  <2>1. \A k \in Keys : IdempotencyKey(k).name = k.name
    BY DEF IdempotencyKey, Keys
  <2>2. QED
    BY <1>1, <1>5, <2>1
<1>7. ~WritesAnew(log[i])
  <2>1. RouteOf(log[i]).kind = "keyed"
    BY PaymentAndDispatchRoutes DEF RouteOf, Route
  <2>2. QED
    BY <2>1 DEF WritesAnew
<1>8. QED
  BY <1>1, <1>2, <1>6, <1>7 DEF Inv, RetriesActOnce

\* The step of the use case keeps the invariant.
LEMMA RecordingInv ==
  ASSUME Inv, NEW q \in Requests, Execute(q) \/ ExecuteFails(q)
  PROVE  Inv'
<1>1. /\ TypeOK /\ pc[q] = "executing" /\ UNCHANGED <<accounts, op, user, seen>>
      /\ disturbances' \in 0..MaxDisturbances
  BY Executing DEF Inv
<1>2. PICK c : Outcome(q, c) /\ Return(q, c)
  BY Executing
<1>3. PICK l \in {"reading", "answered"}, s \in Answers :
          /\ pc' = [pc EXCEPT ![q] = l] /\ status' = [status EXCEPT ![q] = s]
          /\ l = "answered" <=> s # 0
          /\ c.records => s \notin 400..499
          /\ s = HTTP_STATUS_MAP["CONFLICT"] => c.tag = "CONFLICT"
          /\ l = "reading" \/ s \in {200, 201} => c.tag = "OK"
  BY <1>1, <1>2, ReturnFacts
<1>4. /\ account' = account /\ session' = session /\ cookie' = cookie /\ granted' = granted
      /\ op' = op /\ seen' = seen /\ user' = user
  BY <1>1 DEF accounts
<1>5. /\ pc \in [Requests -> Labels] /\ status \in [Requests -> Answers]
      /\ seen \in [Requests -> 0..Cardinality(Requests)]
      /\ log \in Seq(Requests) /\ Len(log) \in Nat /\ DOMAIN log = 1..Len(log)
  BY <1>1 DEF TypeOK, Answers, Statuses
<1>6. ~InLog(q) /\ \A p \in Requests : seen[p] \in Int /\ seen[p] <= Len(log)
  <2>1. \A p \in Requests : RequestInv(p)
    BY DEF Inv
  <2>2. ~InLog(q)
    BY <1>1, <2>1 DEF RequestInv
  <2>3. \A p \in Requests : seen[p] <= Len(log)
    BY <2>1 DEF RequestInv
  <2>4. \A p \in Requests : seen[p] \in Int
    BY <1>5
  <2>5. QED
    BY <2>2, <2>3, <2>4
<1>7. \/ c.records /\ log' = Append(log, q)
      \/ ~c.records /\ log' = log
  BY <1>2 DEF Return
<1>8. /\ log' \in Seq(Requests) /\ Len(log') \in Nat /\ Len(log) <= Len(log')
      /\ DOMAIN log' = 1..Len(log')
      /\ \A i \in DOMAIN log : i \in DOMAIN log' /\ log'[i] = log[i]
      /\ \A i \in DOMAIN log' : \/ i \in DOMAIN log
                                \/ i = Len(log) + 1 /\ log'[i] = q /\ c.records
  <2>1. CASE c.records /\ log' = Append(log, q)
    BY <1>1, <1>5, <2>1, LogGrows
  <2>2. CASE ~c.records /\ log' = log
    BY <1>5, <2>2
  <2>3. QED
    BY <1>7, <2>1, <2>2
<1>16. /\ leftovers' \subseteq Requests
       /\ \A p \in leftovers' : p \in leftovers \/ (p = q /\ c.leaves)
  BY <1>1, <1>2 DEF Return, TypeOK
<1>9. TypeOK'
  <2>1. pc' \in [Requests -> Labels] /\ status' \in [Requests -> Answers]
    BY <1>3, <1>5 DEF Labels
  <2>2. \A p \in Requests : /\ pc'[p] = "answered" <=> status'[p] # 0
                            /\ pc'[p] = "unsent" <=> op'[p] = NoOperation
    <3>1. \A p \in Requests : /\ pc[p] = "answered" <=> status[p] # 0
                              /\ pc[p] = "unsent" <=> op[p] = NoOperation
      BY <1>1 DEF TypeOK
    <3>2. pc'[q] = l /\ status'[q] = s
      BY <1>3, <1>5
    <3>3. op[q] # NoOperation
      BY <1>1, <3>1
    <3>4. \A p \in Requests \ {q} : pc'[p] = pc[p] /\ status'[p] = status[p]
      BY <1>3, <1>5
    <3>5. (l = "answered" <=> s # 0) /\ l # "unsent"
      BY <1>3
    <3>6. QED
      BY <1>4, <3>1, <3>2, <3>3, <3>4, <3>5
  <2>3. QED
    BY <1>1, <1>4, <1>8, <1>16, <2>1, <2>2 DEF TypeOK, Answers, Statuses
<1>10. ASSUME NEW u \in Users PROVE AccountInv(u)'
  BY <1>4 DEF Inv, AccountInv
<1>11. ASSUME NEW p \in Requests PROVE RequestInv(p)'
  <2>1. RequestInv(p) /\ RequestInv(q)
    BY DEF Inv
  <2>2. seen'[p] <= Len(log')
    BY <1>4, <1>6, <1>8
  <2>3. CASE p # q
    <3>1. pc'[p] = pc[p] /\ status'[p] = status[p]
      BY <1>3, <1>5, <2>3
    <3>2. InLog(p)' => InLog(p)
      BY <1>8, <2>3 DEF InLog
    <3>3. p \in leftovers' => p \in leftovers
      BY <1>16, <2>3
    <3>4. /\ op'[p] = op[p] /\ user'[p] = user[p] /\ granted' = granted
          /\ RouteOf(p)' = RouteOf(p)
      BY <1>4 DEF RouteOf
    <3>5. QED
      BY <2>1, <2>2, <3>1, <3>2, <3>3, <3>4, RequestUntouched
  <2>4. CASE p = q
    <3>1. pc'[q] = l /\ status'[q] = s
      BY <1>3, <1>5
    <3>2. RouteOf(q).scopes \subseteq granted[op[q].user] /\ KeyAccepted(op[q])
      BY <1>1, <2>1 DEF RequestInv
    <3>3. InLog(q)' => c.records
      BY <1>6, <1>8 DEF InLog
    <3>4. q \in leftovers' => RouteOf(q).kind = "saga" /\ ~c.records /\ c.tag # "OK"
      <4>1. q \notin leftovers
        BY <1>1, <2>1 DEF RequestInv
      <4>2. QED
        BY <1>2, <1>16, <4>1 DEF Outcome
    <3>5. q \in leftovers' => l = "answered" /\ s \notin {200, 201}
      BY <1>3, <3>4
    <3>6. InLog(q)' => l \in {"reading", "answered"} /\ s \notin 400..499
      BY <1>3, <3>3
    <3>7. q \in leftovers' => ~InLog(q)'
      BY <3>3, <3>4
    <3>8. RouteOf(q)' = RouteOf(q)
      BY <1>4 DEF RouteOf
    <3>9. l # "parsing" /\ op'[q] = op[q] /\ granted' = granted /\ user' = user
      BY <1>3, <1>4
    <3>10. pc'[q] # "parsing"
      BY <3>1, <3>9
    <3>11. (RouteOf(q)').scopes \subseteq granted'[op'[q].user] /\ KeyAccepted(op'[q])
      BY <3>2, <3>8, <3>9
    <3>12. InLog(q)' => pc'[q] \in {"reading", "answered", "lost"} /\ status'[q] \notin 400..499
      BY <3>1, <3>6
    <3>13. q \in leftovers' => /\ pc'[q] = "answered" /\ (RouteOf(q)').kind = "saga"
                               /\ ~InLog(q)' /\ status'[q] \notin {200, 201}
      BY <3>1, <3>4, <3>5, <3>7, <3>8
    <3>14. RequestInv(q)'
      BY <2>2, <2>4, <3>10, <3>11, <3>12, <3>13 DEF RequestInv
    <3>15. QED
      BY <2>4, <3>14
  <2>5. QED
    BY <2>3, <2>4
<1>12. LoggedOnce'
  BY <1>6, <1>8 DEF Inv, LoggedOnce, InLog
<1>13. RetriesActOnce'
  <2>1. c.records => WritesAnew(q) \/ ~Recorded(op[q])
    BY <1>2 DEF Outcome
  <2>2. ASSUME NEW i \in DOMAIN log, c.records, op[log[i]].route = op[q].route, ~WritesAnew(q)
        PROVE  /\ op[log[i]].target = op[q].target => op[q].route = "postSettlement"
               /\ op[q].route = "postSettlement" => op[log[i]].bodyKey.name # op[q].bodyKey.name
    BY <1>1, <2>1, <2>2, NotRecorded
  <2>3. ASSUME NEW i \in DOMAIN log', NEW j \in DOMAIN log', i # j, ~WritesAnew(log'[i]),
               op[log'[i]].route = op[log'[j]].route
        PROVE  /\ op[log'[i]].target = op[log'[j]].target => op[log'[i]].route = "postSettlement"
               /\ op[log'[i]].route = "postSettlement" =>
                      op[log'[i]].bodyKey.name # op[log'[j]].bodyKey.name
    <3>1. CASE i \in DOMAIN log /\ j \in DOMAIN log
      BY <1>8, <2>3, <3>1 DEF Inv, RetriesActOnce
    <3>2. CASE i \in DOMAIN log /\ j \notin DOMAIN log
      <4>1. log'[i] = log[i] /\ log'[j] = q /\ c.records
        BY <1>8, <3>2
      <4>2. ~WritesAnew(q)
        BY <2>3, <4>1 DEF WritesAnew, RouteOf
      <4>3. QED
        BY <2>2, <2>3, <3>2, <4>1, <4>2
    <3>3. CASE i \notin DOMAIN log /\ j \in DOMAIN log
      <4>1. log'[j] = log[j] /\ log'[i] = q /\ c.records
        BY <1>8, <3>3
      <4>2. QED
        BY <2>2, <2>3, <3>3, <4>1
    <3>4. CASE i \notin DOMAIN log /\ j \notin DOMAIN log
      BY <1>8, <2>3, <3>4
    <3>5. QED
      BY <3>1, <3>2, <3>3, <3>4
  <2>4. QED
    BY <1>4, <2>3 DEF RetriesActOnce, WritesAnew, RouteOf
<1>14. RetriesAreNotRefused'
  <2>1. ASSUME NEW i \in DOMAIN log', NEW p \in Requests, i <= seen[p], op[p] = op[log'[i]],
               op[p].route \in {"postPaymentIntent", "postSettlement", "postFare"}
        PROVE  status'[p] # HTTP_STATUS_MAP["CONFLICT"]
    <3>1. i \in DOMAIN log /\ log'[i] = log[i]
      BY <1>5, <1>6, <1>8, <2>1
    <3>2. CASE p # q
      <4>1. status'[p] = status[p]
        BY <1>3, <1>5, <3>2
      <4>2. QED
        BY <2>1, <3>1, <4>1 DEF Inv, RetriesAreNotRefused
    <3>3. CASE p = q
      <4>1. Recorded(op[q])
        BY <2>1, <3>1, <3>3 DEF Recorded
      <4>2. op[q].route \in DOMAIN Route
        BY <1>1, RoutesOfRequests
      <4>3. \/ RouteOf(q).kind = "once"
            \/ RouteOf(q).kind = "keyed" /\ ~KeyOfOtherRide(op[q])
        BY <1>1, <2>1, <3>1, <3>3, <4>2, Routes, KeyIsRides DEF RouteOf
      <4>4. c.tag # "CONFLICT"
        BY <1>2, <4>1, <4>3 DEF Outcome
      <4>5. status'[q] = s
        BY <1>3, <1>5
      <4>6. QED
        BY <1>3, <3>3, <4>4, <4>5
    <3>4. QED
      BY <3>2, <3>3
  <2>2. QED
    BY <1>4, <2>1 DEF RetriesAreNotRefused
<1>15. QED
  BY <1>9, <1>10, <1>11, <1>12, <1>13, <1>14 DEF Inv

\* A request that arrives keeps the invariant.
LEMMA SendInv ==
  ASSUME Inv, NEW q \in Requests, Send(q)
  PROVE  Inv'
<1>1. /\ TypeOK /\ pc[q] = "unsent"
      /\ account' = account /\ session' = session /\ cookie' = cookie /\ granted' = granted
      /\ user' = user /\ status' = status /\ log' = log /\ leftovers' = leftovers
      /\ disturbances' = disturbances
      /\ pc' = [pc EXCEPT ![q] = "authenticating"] /\ seen' = [seen EXCEPT ![q] = Len(log)]
  BY DEF Inv, Send, accounts, recorded, Goto
<1>2. PICK o \in Operations : op' = [op EXCEPT ![q] = o]
  BY DEF Send
<1>3. /\ pc \in [Requests -> Labels] /\ op \in [Requests -> Operations \cup {NoOperation}]
      /\ seen \in [Requests -> 0..Cardinality(Requests)]
  BY <1>1 DEF TypeOK
<1>4. ~InLog(q) /\ \A i \in DOMAIN log : log[i] \in Requests \ {q}
  <2>1. RequestInv(q)
    BY DEF Inv
  <2>2. ~InLog(q)
    BY <1>1, <2>1 DEF RequestInv
  <2>3. QED
    BY <1>1, <2>2 DEF TypeOK, InLog
<1>5. \A p \in Requests \ {q} : pc'[p] = pc[p] /\ op'[p] = op[p] /\ seen'[p] = seen[p]
  BY <1>1, <1>2, <1>3
<1>6. pc'[q] = "authenticating" /\ op'[q] = o /\ seen'[q] = Len(log) /\ status[q] = 0
  <2>1. status[q] = 0
    BY <1>1, NoStatusYet
  <2>2. QED
    BY <1>1, <1>2, <1>3, <2>1
<1>7. TypeOK'
  <2>1. Len(log) \in 0..Cardinality(Requests)
    BY LogBound DEF Inv
  <2>2. /\ pc' \in [Requests -> Labels] /\ op' \in [Requests -> Operations \cup {NoOperation}]
        /\ seen' \in [Requests -> 0..Cardinality(Requests)]
    BY <1>1, <1>2, <1>3, <2>1 DEF Labels
  <2>3. \A p \in Requests : /\ pc'[p] = "answered" <=> status'[p] # 0
                            /\ pc'[p] = "unsent" <=> op'[p] = NoOperation
    <3>1. \A p \in Requests : /\ pc[p] = "answered" <=> status[p] # 0
                              /\ pc[p] = "unsent" <=> op[p] = NoOperation
      BY <1>1 DEF TypeOK
    <3>2. o # NoOperation
      BY <1>2, GateAssumption
    <3>3. QED
      BY <1>1, <1>5, <1>6, <3>1, <3>2
  <2>4. QED
    BY <1>1, <2>2, <2>3 DEF TypeOK
<1>8. ASSUME NEW u \in Users PROVE AccountInv(u)'
  BY <1>1 DEF Inv, AccountInv
<1>9. ASSUME NEW p \in Requests PROVE RequestInv(p)'
  <2>1. CASE p = q
    <3>1. ~InLog(q)' /\ seen'[q] <= Len(log')
      <4>1. Len(log) \in Nat
        BY LogBound DEF Inv
      <4>2. QED
        BY <1>1, <1>4, <1>6, <4>1 DEF InLog
    <3>2. q \notin leftovers'
      <4>1. RequestInv(q)
        BY DEF Inv
      <4>2. QED
        BY <1>1, <4>1 DEF RequestInv
    <3>3. QED
      BY <1>6, <2>1, <3>1, <3>2 DEF RequestInv
  <2>2. CASE p # q
    <3>1. RequestInv(p)
      BY DEF Inv
    <3>2. /\ pc'[p] = pc[p] /\ op'[p] = op[p] /\ seen'[p] = seen[p] /\ status'[p] = status[p]
          /\ user'[p] = user[p] /\ granted' = granted /\ Len(log') = Len(log)
          /\ (p \in leftovers' <=> p \in leftovers)
      BY <1>1, <1>5, <2>2
    <3>3. (InLog(p)' <=> InLog(p)) /\ RouteOf(p)' = RouteOf(p)
      BY <1>1, <3>2 DEF InLog, RouteOf
    <3>4. seen'[p] <= Len(log')
      BY <3>1, <3>2 DEF RequestInv
    <3>5. QED
      BY <3>1, <3>2, <3>3, <3>4, RequestUntouched
  <2>3. QED
    BY <2>1, <2>2
<1>10. LoggedOnce'
  BY <1>1 DEF Inv, LoggedOnce
<1>11. \A i \in DOMAIN log : op'[log'[i]] = op[log[i]]
  BY <1>1, <1>4, <1>5
<1>12. RetriesActOnce'
  BY <1>1, <1>11 DEF Inv, RetriesActOnce, WritesAnew, RouteOf
<1>13. RetriesAreNotRefused'
  <2>1. status[q] # HTTP_STATUS_MAP["CONFLICT"]
    BY <1>6, StatusAnswers
  <2>2. QED
    BY <1>1, <1>5, <1>11, <2>1 DEF Inv, RetriesAreNotRefused
<1>14. QED
  BY <1>7, <1>8, <1>9, <1>10, <1>12, <1>13 DEF Inv

AccountStep(u) == ChangeGrant(u) \/ SignIn(u) \/ EndSession(u) \/ CookieExpires(u)

\* What a user was granted is never forgotten.
LEMMA AccountSteps ==
  ASSUME Inv, NEW u \in Users, AccountStep(u)
  PROVE  /\ UnchangedRequests /\ disturbances' \in 0..MaxDisturbances
         /\ account' \in [Users -> Profiles] /\ session' \subseteq Users
         /\ cookie' \in [Users -> Profiles \cup {NoProfile}]
         /\ granted' \in [Users -> SUBSET AUTH_SCOPES]
         /\ \A v \in Users : AccountInv(v)' /\ granted[v] \subseteq granted'[v]
<1>1. /\ account \in [Users -> Profiles] /\ session \subseteq Users
      /\ cookie \in [Users -> Profiles \cup {NoProfile}]
      /\ granted \in [Users -> SUBSET AUTH_SCOPES]
      /\ \A v \in Users : AccountInv(v)
  BY DEF Inv, TypeOK
<1>2. UnchangedRequests /\ disturbances' \in 0..MaxDisturbances
  BY Disturbed DEF Inv, AccountStep, ChangeGrant, SignIn, EndSession, CookieExpires
<1>3. CASE ChangeGrant(u)
  <2>1. PICK p \in Profiles : /\ account' = [account EXCEPT ![u] = p]
                              /\ granted' = [granted EXCEPT ![u] = @ \cup ScopesOf(p)]
                              /\ session' = session /\ cookie' = cookie
    BY <1>3 DEF ChangeGrant
  <2>2. ScopesOf(p) \in SUBSET AUTH_SCOPES
    BY ScopesAreKnown
  <2>3. /\ account' \in [Users -> Profiles] /\ granted' \in [Users -> SUBSET AUTH_SCOPES]
        /\ account'[u] = p /\ granted'[u] = granted[u] \cup ScopesOf(p)
        /\ \A v \in Users \ {u} : account'[v] = account[v] /\ granted'[v] = granted[v]
    BY <1>1, <2>1, <2>2
  <2>4. ASSUME NEW v \in Users PROVE AccountInv(v)' /\ granted[v] \subseteq granted'[v]
    BY <1>1, <2>1, <2>3 DEF AccountInv
  <2>5. QED
    BY <1>1, <1>2, <2>1, <2>3, <2>4
<1>4. CASE SignIn(u)
  <2>1. /\ session' = session \cup {u} /\ cookie' = [cookie EXCEPT ![u] = account[u]]
        /\ account' = account /\ granted' = granted
    BY <1>4 DEF SignIn
  <2>2. /\ cookie' \in [Users -> Profiles \cup {NoProfile}] /\ cookie'[u] = account[u]
        /\ \A v \in Users \ {u} : cookie'[v] = cookie[v]
    BY <1>1, <2>1
  <2>3. ASSUME NEW v \in Users PROVE AccountInv(v)' /\ granted[v] \subseteq granted'[v]
    BY <1>1, <2>1, <2>2 DEF AccountInv
  <2>4. QED
    BY <1>1, <1>2, <2>1, <2>2, <2>3
<1>5. CASE EndSession(u)
  BY <1>1, <1>2, <1>5 DEF EndSession, AccountInv
<1>6. CASE CookieExpires(u)
  <2>1. /\ session' = session /\ cookie' = [cookie EXCEPT ![u] = NoProfile]
        /\ account' = account /\ granted' = granted
    BY <1>6 DEF CookieExpires
  <2>2. /\ cookie' \in [Users -> Profiles \cup {NoProfile}] /\ cookie'[u] = NoProfile
        /\ \A v \in Users \ {u} : cookie'[v] = cookie[v]
    BY <1>1, <2>1
  <2>3. ASSUME NEW v \in Users PROVE AccountInv(v)' /\ granted[v] \subseteq granted'[v]
    BY <1>1, <2>1, <2>2 DEF AccountInv
  <2>4. QED
    BY <1>1, <1>2, <2>1, <2>2, <2>3
<1>7. QED
  BY <1>3, <1>4, <1>5, <1>6 DEF AccountStep

\* What happens to accounts and sessions keeps the invariant: no grant is forgotten.
LEMMA AccountStepInv ==
  ASSUME Inv, NEW u \in Users, AccountStep(u)
  PROVE  Inv'
<1>1. /\ pc' = pc /\ op' = op /\ user' = user /\ status' = status /\ seen' = seen /\ log' = log
      /\ leftovers' = leftovers /\ disturbances' \in 0..MaxDisturbances
      /\ account' \in [Users -> Profiles] /\ session' \subseteq Users
      /\ cookie' \in [Users -> Profiles \cup {NoProfile}]
      /\ granted' \in [Users -> SUBSET AUTH_SCOPES]
      /\ \A v \in Users : AccountInv(v)' /\ granted[v] \subseteq granted'[v]
  BY AccountSteps DEF UnchangedRequests, recorded
<1>2. TypeOK'
  BY <1>1 DEF Inv, TypeOK
<1>3. ASSUME NEW q \in Requests PROVE RequestInv(q)'
  <2>1. RequestInv(q) /\ TypeOK
    BY DEF Inv
  <2>2. CASE pc[q] = "unsent"
    BY <1>1, <2>1, <2>2 DEF RequestInv, InLog
  <2>3. CASE pc[q] # "unsent"
    <3>1. granted[op[q].user] \subseteq granted'[op[q].user]
      BY <1>1, <2>1, <2>3, RoutesOfRequests
    <3>2. QED
      BY <1>1, <2>1, <3>1 DEF RequestInv, InLog, RouteOf
  <2>4. QED
    BY <2>2, <2>3
<1>4. LoggedOnce' /\ RetriesActOnce' /\ RetriesAreNotRefused'
  BY <1>1 DEF Inv, LoggedOnce, RetriesActOnce, RetriesAreNotRefused, WritesAnew, RouteOf
<1>5. QED
  BY <1>1, <1>2, <1>3, <1>4 DEF Inv

\* The death of the server keeps the invariant: requests are lost, effects stay.
LEMMA CrashInv ==
  ASSUME Inv, Crash
  PROVE  Inv'
<1>1. /\ account' = account /\ session' = session /\ cookie' = cookie /\ granted' = granted
      /\ op' = op /\ user' = user /\ status' = status /\ seen' = seen /\ log' = log
      /\ leftovers' = leftovers /\ disturbances' \in 0..MaxDisturbances
      /\ pc' = [q \in Requests |-> IF pc[q] \in {"unsent", "answered"} THEN pc[q] ELSE "lost"]
  BY Disturbed DEF Inv, Crash, accounts
<1>2. \A q \in Requests : \/ pc'[q] = pc[q] /\ pc[q] \in {"unsent", "answered"}
                          \/ pc'[q] = "lost" /\ pc[q] \notin {"unsent", "answered"}
  BY <1>1
<1>3. TypeOK'
  <2>1. pc' \in [Requests -> Labels]
    BY <1>1 DEF Labels
  <2>2. QED
    BY <1>1, <1>2, <2>1 DEF Inv, TypeOK
<1>4. \A u \in Users : AccountInv(u)'
  BY <1>1 DEF Inv, AccountInv
<1>5. ASSUME NEW q \in Requests PROVE RequestInv(q)'
  <2>1. RequestInv(q)
    BY DEF Inv
  <2>2. QED
    BY <1>1, <1>2, <2>1 DEF RequestInv, InLog, RouteOf
<1>6. LoggedOnce' /\ RetriesActOnce' /\ RetriesAreNotRefused'
  BY <1>1 DEF Inv, LoggedOnce, RetriesActOnce, RetriesAreNotRefused, WritesAnew, RouteOf
<1>7. QED
  BY <1>3, <1>4, <1>5, <1>6 DEF Inv

\* The next-state relation, by the kinds of steps the proofs distinguish.
LEMMA NextActions ==
  ASSUME Next
  PROVE  \/ \E q \in Requests : Send(q) \/ Steps(q) \/ Execute(q) \/ ExecuteFails(q)
         \/ \E u \in Users : AccountStep(u)
         \/ Crash
  BY DEF Next, Proceed, Fail, Steps, AccountStep

\* The invariant is kept by every step.
LEMMA NextInv == Inv /\ [Next]_vars => Inv'
<1> SUFFICES ASSUME Inv, [Next]_vars PROVE Inv'
  OBVIOUS
<1>1. CASE UNCHANGED vars
  <2>1. /\ account' = account /\ session' = session /\ cookie' = cookie /\ granted' = granted
        /\ pc' = pc /\ op' = op /\ user' = user /\ status' = status /\ seen' = seen /\ log' = log
        /\ leftovers' = leftovers /\ disturbances' = disturbances
    BY <1>1 DEF vars
  <2>2. TypeOK'
    BY <2>1 DEF Inv, TypeOK
  <2>3. \A u \in Users : AccountInv(u)'
    BY <2>1 DEF Inv, AccountInv
  <2>4. ASSUME NEW q \in Requests PROVE RequestInv(q)'
    <3>1. RequestInv(q)
      BY DEF Inv
    <3>2. QED
      BY <2>1, <3>1 DEF RequestInv, InLog, RouteOf
  <2>5. LoggedOnce' /\ RetriesActOnce' /\ RetriesAreNotRefused'
    BY <2>1 DEF Inv, LoggedOnce, RetriesActOnce, RetriesAreNotRefused, WritesAnew, RouteOf
  <2>6. QED
    BY <2>2, <2>3, <2>4, <2>5 DEF Inv
<1>2. ASSUME NEW q \in Requests, Steps(q) PROVE Inv'
  BY <1>2, QuietSteps, QuietInv
<1>3. CASE Next
  BY <1>2, <1>3, NextActions, SendInv, RecordingInv, AccountStepInv, CrashInv
<1>4. QED
  BY <1>1, <1>3

-----------------------------------------------------------------------------
(* Theorems.                                                               *)

\* The invariant holds throughout, for any number of requests, users, operations, profiles and
\* disturbances, with the lifecycle hooks or without them.
THEOREM SpecInv == Spec => []Inv
  BY InitInv, NextInv, PTL DEF Spec

\* Every variable of a request on its way through the API keeps its type.
THEOREM TypeCorrect == Spec => []TypeOK
<1>1. Inv => TypeOK
  BY DEF Inv
<1>2. QED
  BY <1>1, SpecInv, PTL

\* Rows are changed, and drivers reserved, only for those who had the scopes of the route at some time, however
\* accounts and sessions change while requests are under way.
THEOREM EffectsCorrect == Spec => []EffectsWereAuthorised
<1>1. Inv => EffectsWereAuthorised
  BY DEF Inv, RequestInv, EffectsWereAuthorised
<1>2. QED
  BY <1>1, SpecInv, PTL

\* What is sent again is recorded once, whatever answers are lost and however its key is spelled.
THEOREM OnceCorrect == Spec => []RetriesActOnce
<1>1. Inv => RetriesActOnce
  BY DEF Inv
<1>2. QED
  BY <1>1, SpecInv, PTL

\* A payment or fare that was recorded is no conflict for the client that asks for it again.
THEOREM RetriesCorrect == Spec => []RetriesAreNotRefused
<1>1. Inv => RetriesAreNotRefused
  BY DEF Inv
<1>2. QED
  BY <1>1, SpecInv, PTL

-----------------------------------------------------------------------------
(* Successful answers.                                                     *)

\* A logged request has had its effect and is read back, answered or lost.
LEMMA LoggedRequests ==
  ASSUME Inv, NEW i \in DOMAIN log
  PROVE  log[i] \in Requests /\ pc[log[i]] \in {"reading", "answered", "lost"}
<1>1. log[i] \in Requests /\ InLog(log[i])
  BY DEF Inv, TypeOK, InLog
<1>2. RequestInv(log[i])
  BY <1>1 DEF Inv
<1>3. QED
  BY <1>1, <1>2 DEF RequestInv

\* What is recorded stays recorded, and what is logged keeps its meaning.
LEMMA EffectsLast ==
  ASSUME \A i \in DOMAIN log : i \in DOMAIN log' /\ log'[i] = log[i] /\ op'[log[i]] = op[log[i]],
         NEW q \in Requests, op'[q] = op[q], Effect(q)
  PROVE  Effect(q)'
<1>1. InLog(q) => InLog(q)'
  BY DEF InLog
<1>2. Recorded(op[q]) => Recorded(op[q])'
  BY DEF Recorded
<1>3. RouteOf(q)' = RouteOf(q)
  BY DEF RouteOf
<1>4. WritesAnew(q)' <=> WritesAnew(q)
  BY <1>3 DEF WritesAnew
<1>5. ASSUME NEW i \in DOMAIN log, op[log[i]].route = "postDispatch",
             CorrelationId(op[log[i]]) = CorrelationId(op[q])
      PROVE  \E j \in DOMAIN log' : /\ op'[log'[j]].route = "postDispatch"
                                    /\ CorrelationId(op'[log'[j]]) = CorrelationId(op'[q])
  BY <1>5
<1>6. QED
  BY <1>1, <1>2, <1>3, <1>4, <1>5 DEF Effect

\* What is said of stored processes stays while the log grows and no process is added.
LEMMA ProcessesLast ==
  ASSUME \A i \in DOMAIN log : i \in DOMAIN log' /\ log'[i] = log[i] /\ op'[log[i]] = op[log[i]],
         ProcessInv, processes' \subseteq processes
  PROVE  ProcessInv'
  BY DEF ProcessInv

\* No effect has been answered at first.
LEMMA EffectInit == Init => EffectInv
  BY DEF Init, EffectInv, ProcessInv

\* A quiet step keeps what is said of effects.
LEMMA EffectQuiet ==
  ASSUME Inv, EffectInv, NEW q \in Requests, NEW l, NEW s, Quiet(q, l, s), QuietFacts(q, l, s)
  PROVE  EffectInv'
<1>1. /\ op' = op /\ log' = log /\ processes' = processes
      /\ pc' = [pc EXCEPT ![q] = l] /\ status' = [status EXCEPT ![q] = s]
      /\ l # "reading" /\ (s \in {200, 201} => pc[q] = "reading")
  BY DEF Quiet, QuietFacts, recorded
<1>2. pc \in [Requests -> Labels] /\ status \in [Requests -> Answers]
  BY DEF Inv, TypeOK, Answers, Statuses
<1>3. ASSUME NEW p \in Requests, pc'[p] = "reading" \/ status'[p] \in {200, 201}
      PROVE  Effect(p)'
  <2>1. pc[p] = "reading" \/ status[p] \in {200, 201}
    BY <1>1, <1>2, <1>3
  <2>2. Effect(p)
    BY <2>1 DEF EffectInv
  <2>3. QED
    BY <1>1, <2>2, EffectsLast
<1>4. ProcessInv'
  BY <1>1, ProcessesLast DEF EffectInv
<1>5. QED
  BY <1>3, <1>4 DEF EffectInv

\* So does the use case.
LEMMA EffectRecording ==
  ASSUME Inv, EffectInv, NEW q \in Requests, Execute(q) \/ ExecuteFails(q)
  PROVE  EffectInv'
<1>1. TypeOK /\ pc[q] = "executing" /\ op' = op
  BY Executing DEF Inv
<1>2. PICK c : Outcome(q, c) /\ Return(q, c)
  BY Executing
<1>3. PICK l \in {"reading", "answered"}, s \in Answers :
          /\ pc' = [pc EXCEPT ![q] = l] /\ status' = [status EXCEPT ![q] = s]
          /\ l = "reading" \/ s \in {200, 201} => c.tag = "OK"
  BY <1>1, <1>2, ReturnFacts
<1>4. pc \in [Requests -> Labels] /\ status \in [Requests -> Answers]
      /\ DOMAIN log = 1..Len(log) /\ Len(log) \in Nat
  BY <1>1 DEF TypeOK, Answers, Statuses
<1>5. \/ c.records /\ log' = Append(log, q)
      \/ ~c.records /\ log' = log
  BY <1>2 DEF Return
<1>6. /\ \A i \in DOMAIN log : /\ i \in DOMAIN log' /\ log'[i] = log[i]
                               /\ op'[log[i]] = op[log[i]]
      /\ c.records => \E i \in DOMAIN log' : log'[i] = q
  <2>1. CASE c.records /\ log' = Append(log, q)
    <3>1. /\ \A i \in DOMAIN log : i \in DOMAIN log' /\ log'[i] = log[i]
          /\ Len(log) + 1 \in DOMAIN log' /\ log'[Len(log) + 1] = q
      BY <1>1, <2>1, LogGrows
    <3>2. QED
      BY <1>1, <3>1
  <2>2. CASE ~c.records /\ log' = log
    BY <1>1, <2>2
  <2>3. QED
    BY <1>5, <2>1, <2>2
<1>7. op[q] \in Operations /\ op[q].route \in DOMAIN Route
  BY <1>1, RoutesOfRequests
<1>8. RouteOf(q).kind = "saga" <=> op[q].route = "postDispatch"
  BY <1>7, Routes DEF RouteOf
<1>9. c.tag = "OK" => Effect(q)'
  <2>1. RouteOf(q)' = RouteOf(q) /\ op'[q] = op[q] /\ (WritesAnew(q)' <=> WritesAnew(q))
    BY <1>1 DEF RouteOf, WritesAnew
  <2>2. CASE c.records
    <3>1. PICK i \in DOMAIN log' : log'[i] = q
      BY <1>6, <2>2
    <3>2. InLog(q)' /\ Recorded(op[q])'
      BY <3>1, <2>1 DEF InLog, Recorded
    <3>3. RouteOf(q).kind = "saga" => op'[log'[i]].route = "postDispatch"
      BY <1>8, <2>1, <3>1
    <3>4. QED
      BY <2>1, <3>1, <3>2, <3>3 DEF Effect
  <2>3. CASE ~c.records /\ c.tag = "OK"
    <3>1. \/ RouteOf(q).kind = "read"
          \/ RouteOf(q).kind \in {"once", "keyed"} /\ Recorded(op[q])
          \/ /\ RouteOf(q).kind = "saga"
             /\ <<CorrelationId(op[q]), "SUCCEEDED">> \in processes
      BY <1>2, <2>3 DEF Outcome
    <3>2. <<CorrelationId(op[q]), "SUCCEEDED">> \in processes =>
              \E i \in DOMAIN log : /\ op[log[i]].route = "postDispatch"
                                    /\ CorrelationId(op[log[i]]) = CorrelationId(op[q])
      BY DEF EffectInv, ProcessInv
    <3>3. Effect(q)
      BY <3>1, <3>2 DEF Effect, WritesAnew
    <3>4. QED
      BY <1>6, <2>1, <3>3, EffectsLast
  <2>4. QED
    BY <2>2, <2>3
<1>11. ASSUME NEW p \in Requests, pc'[p] = "reading" \/ status'[p] \in {200, 201}
       PROVE  Effect(p)'
  <2>1. CASE p = q
    <3>1. pc'[q] = l /\ status'[q] = s
      BY <1>3, <1>4
    <3>2. QED
      BY <1>3, <1>9, <1>11, <2>1, <3>1
  <2>2. CASE p # q
    <3>1. pc'[p] = pc[p] /\ status'[p] = status[p]
      BY <1>3, <1>4, <2>2
    <3>2. Effect(p)
      BY <1>11, <3>1 DEF EffectInv
    <3>3. QED
      BY <1>1, <1>6, <3>2, EffectsLast
  <2>3. QED
    BY <2>1, <2>2
<1>12. ProcessInv'
  <2>1. ASSUME NEW k, <<k, "SUCCEEDED">> \in processes'
        PROVE  \E i \in DOMAIN log' : /\ op'[log'[i]].route = "postDispatch"
                                      /\ CorrelationId(op'[log'[i]]) = k
    <3>1. CASE <<k, "SUCCEEDED">> \in processes
      <4>1. PICK i \in DOMAIN log : /\ op[log[i]].route = "postDispatch"
                                    /\ CorrelationId(op[log[i]]) = k
        BY <3>1 DEF EffectInv, ProcessInv
      <4>2. QED
        BY <1>6, <4>1
    <3>2. CASE <<k, "SUCCEEDED">> \notin processes
      <4>1. /\ RouteOf(q).kind = "saga"
            /\ c.tag = "OK" /\ <<k, "SUCCEEDED">> = <<CorrelationId(op[q]), "SUCCEEDED">>
        BY <1>2, <2>1, <3>2 DEF Return, Decide
      <4>2. k = CorrelationId(op[q]) /\ c.tag = "OK"
        BY <4>1
      <4>3. c.records
        BY <1>2, <3>2, <4>1, <4>2 DEF Outcome
      <4>4. op[q].route = "postDispatch"
        BY <1>8, <4>1
      <4>5. QED
        BY <1>1, <1>6, <4>2, <4>3, <4>4
    <3>3. QED
      BY <3>1, <3>2
  <2>2. QED
    BY <2>1 DEF ProcessInv
<1>13. QED
  BY <1>11, <1>12 DEF EffectInv

\* So does a request that arrives.
LEMMA EffectSend ==
  ASSUME Inv, EffectInv, NEW q \in Requests, Send(q)
  PROVE  EffectInv'
<1>1. /\ TypeOK /\ pc[q] = "unsent" /\ status' = status /\ log' = log /\ processes' = processes
      /\ pc' = [pc EXCEPT ![q] = "authenticating"]
  BY DEF Inv, Send, recorded, Goto
<1>2. PICK o \in Operations : op' = [op EXCEPT ![q] = o]
  BY DEF Send
<1>3. pc \in [Requests -> Labels] /\ op \in [Requests -> Operations \cup {NoOperation}]
  BY <1>1 DEF TypeOK
<1>4. \A p \in Requests \ {q} : pc'[p] = pc[p] /\ op'[p] = op[p]
  BY <1>1, <1>2, <1>3
<1>5. pc'[q] = "authenticating" /\ status[q] = 0
  BY <1>1, <1>3, NoStatusYet
<1>6. \A i \in DOMAIN log : i \in DOMAIN log' /\ log'[i] = log[i] /\ op'[log[i]] = op[log[i]]
  <2>1. ASSUME NEW i \in DOMAIN log PROVE log[i] \in Requests \ {q}
    BY <1>1, LoggedRequests
  <2>2. QED
    BY <1>1, <1>4, <2>1
<1>7. ASSUME NEW p \in Requests, pc'[p] = "reading" \/ status'[p] \in {200, 201}
      PROVE  Effect(p)'
  <2>1. p # q
    BY <1>1, <1>5, <1>7
  <2>2. Effect(p)
    BY <1>1, <1>4, <1>7, <2>1 DEF EffectInv
  <2>3. QED
    BY <1>4, <1>6, <2>1, <2>2, EffectsLast
<1>8. ProcessInv'
  BY <1>1, <1>6, ProcessesLast DEF EffectInv
<1>9. QED
  BY <1>7, <1>8 DEF EffectInv

\* Steps that change no request but lose what the server had in memory.
LEMMA EffectOther ==
  ASSUME Inv, EffectInv, Crash \/ (\E u \in Users : AccountStep(u)) \/ UNCHANGED vars
  PROVE  EffectInv'
<1>1. op' = op /\ status' = status /\ log' = log
  BY DEF Crash, AccountStep, ChangeGrant, SignIn, EndSession, CookieExpires, UnchangedRequests,
         recorded, vars
<1>2. processes' \subseteq processes /\ \A p \in Requests : pc'[p] = "reading" => pc[p] = "reading"
  <2>1. CASE Crash
    BY <2>1 DEF Crash
  <2>2. CASE (\E u \in Users : AccountStep(u)) \/ UNCHANGED vars
    BY <2>2 DEF AccountStep, ChangeGrant, SignIn, EndSession, CookieExpires, UnchangedRequests,
                recorded, vars
  <2>3. QED
    BY <2>1, <2>2
<1>3. ASSUME NEW p \in Requests, pc'[p] = "reading" \/ status'[p] \in {200, 201}
      PROVE  Effect(p)'
  <2>1. Effect(p)
    BY <1>1, <1>2, <1>3 DEF EffectInv
  <2>2. QED
    BY <1>1, <2>1, EffectsLast
<1>4. QED
  BY <1>1, <1>2, <1>3, ProcessesLast DEF EffectInv

\* An answer tells a client what became of its request: a refusal that it is not recorded, a
\* success that it is, and only a dispatch without success leaves a reservation behind.
THEOREM AnswersCorrect == Spec => []AnswersMatchEffects
<1>1. Inv /\ EffectInv /\ [Next]_vars => EffectInv'
  <2> SUFFICES ASSUME Inv, EffectInv, [Next]_vars PROVE EffectInv'
    OBVIOUS
  <2>1. ASSUME NEW q \in Requests, Steps(q) PROVE EffectInv'
    BY <2>1, QuietSteps, EffectQuiet
  <2>2. QED
    BY <2>1, NextActions, EffectSend, EffectRecording, EffectOther
<1>2. Inv /\ EffectInv => AnswersMatchEffects
  <2> SUFFICES ASSUME Inv, EffectInv, NEW q \in Requests
               PROVE  /\ status[q] \in 400..499 => ~InLog(q)
                      /\ status[q] \in {200, 201} => Effect(q)
                      /\ q \in leftovers => /\ RouteOf(q).kind = "saga" /\ ~InLog(q)
                                           /\ status[q] \notin {200, 201}
    BY DEF AnswersMatchEffects
  <2>1. QED
    BY DEF Inv, RequestInv, EffectInv
<1>3. QED
  BY <1>1, <1>2, EffectInit, SpecInv, PTL DEF Spec
=============================================================================
