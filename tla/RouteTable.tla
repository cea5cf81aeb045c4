----------------------------- MODULE RouteTable -----------------------------
(***************************************************************************)
(* Scopes, roles, error tags and the routes of the HTTP API: what each     *)
(* route asks of a request, and which status it gives to which result.     *)
(***************************************************************************)

AUTH_SCOPES == {"rider:read", "rider:write", "ride:create", "ride:read", "ride:update",
                "ride:cancel", "driver:read", "driver:write", "dispatch:execute",
                "payment:read", "payment:initiate", "admin:read", "admin:write"}

ROLE_SCOPES == [rider |-> {"rider:read", "rider:write", "ride:create", "ride:read",
                           "ride:cancel", "payment:read"},
                driver |-> {"driver:read", "driver:write", "ride:read", "ride:update"},
                admin |-> AUTH_SCOPES]

getScopesForRole(role) == IF role \in DOMAIN ROLE_SCOPES THEN ROLE_SCOPES[role] ELSE {}

\* authScopes replaces the role whenever it is a string, the empty default included.
ScopesOf(user) == IF user.explicit THEN user.authScopes \cap AUTH_SCOPES
                  ELSE getScopesForRole(user.role)

\* Mutant of HTTP_STATUS_MAP: a failing database looks like a conflict.
CONFLICTING_STATUS_MAP ==
    [VALIDATION_ERROR |-> 400, NOT_FOUND |-> 404, CONFLICT |-> 409,
     AUTHENTICATION_ERROR |-> 401, AUTHORIZATION_ERROR |-> 403,
     INFRASTRUCTURE_ERROR |-> 409, POLICY_VIOLATION |-> 422, UNEXPECTED_ERROR |-> 500]

HTTP_STATUS_MAP ==
    [VALIDATION_ERROR |-> 400, NOT_FOUND |-> 404, CONFLICT |-> 409,
     AUTHENTICATION_ERROR |-> 401, AUTHORIZATION_ERROR |-> 403,
     INFRASTRUCTURE_ERROR |-> 503, POLICY_VIOLATION |-> 422, UNEXPECTED_ERROR |-> 500]

Tags == DOMAIN HTTP_STATUS_MAP

\* Rides and drivers give some tags their status by hand, and 500 to the others.
Only(tags) == [t \in Tags |-> IF t \in tags THEN HTTP_STATUS_MAP[t] ELSE 500]

-----------------------------------------------------------------------------
(* The routes.  early: Fastify validates against a schema, before the      *)
(* scopes.  key: what is asked of Idempotency-Key.  kind: what a use case  *)
(* makes of a request that was served before.  refusals: the errors it     *)
(* may answer otherwise.  readBack: the row is read again for the answer.  *)

\* Parameters of the path count as required attributes.
Read(scopes, required, refusals, status) ==
    [body |-> FALSE, early |-> FALSE, scopes |-> scopes, required |-> required,
     key |-> "none", kind |-> "read", refusals |-> refusals, status |-> status,
     success |-> 200, readBack |-> FALSE]

Write(scopes, required, kind, refusals, status) ==
    [Read(scopes, required, refusals, status) EXCEPT !.body = TRUE, !.kind = kind,
                                                     !.success = 201]

\* A new ride in each request.
PostRide == [Write({"ride:create"}, {"riderId", "pickup", "dropoff"}, "fresh",
                   {"VALIDATION_ERROR"}, Only({"CONFLICT"})) EXCEPT !.readBack = TRUE]

\* No state is entered twice.
PostTransition == [Write({"ride:update"}, {"id", "toState"}, "first",
                         {"NOT_FOUND", "CONFLICT", "VALIDATION_ERROR"},
                         Only({"NOT_FOUND", "CONFLICT"}))
                       EXCEPT !.success = 200, !.readBack = TRUE]

GetRide == Read({"ride:read"}, {"id"}, {"NOT_FOUND"}, Only({"NOT_FOUND"}))
ListRides == Read({"ride:read"}, {}, {}, Only({}))

PostDriver == Write({"driver:write"}, {"driverId"}, "first",
                    {"VALIDATION_ERROR"}, Only({"CONFLICT"}))
PatchAvailability == [Write({"driver:write"}, {"id", "state"}, "overwrite",
                            {"NOT_FOUND", "CONFLICT"}, Only({"NOT_FOUND", "CONFLICT"}))
                          EXCEPT !.success = 200]
PatchLocation == [Write({"driver:write"},
                        {"id", "latitude", "longitude", "accuracy", "bearing", "speed",
                         "recordedAt"}, "overwrite",
                        {"NOT_FOUND", "VALIDATION_ERROR", "CONFLICT"},
                        Only({"NOT_FOUND", "VALIDATION_ERROR"}))
                      EXCEPT !.success = 200]
GetDriver == Read({"driver:read"}, {"id"}, {"NOT_FOUND"}, Only({"NOT_FOUND"}))

\* No eligible driver, a ride that does not exist, no reservation or no assignment.
PostDispatch == [Write({"dispatch:execute"}, {"rideId"}, "saga",
                       {"VALIDATION_ERROR", "NOT_FOUND", "CONFLICT"}, HTTP_STATUS_MAP)
                     EXCEPT !.early = TRUE, !.key = "header"]

\* Fares ask for no scope.  An id that the schema lets pass may make createRideId throw.
PostFare == Write({}, {"rideId", "baseFareCOP", "distanceKm", "durationMinutes",
                       "minimumFareCOP", "pricingVersion"}, "once",
                  {"VALIDATION_ERROR", "CONFLICT", "UNEXPECTED_ERROR"}, HTTP_STATUS_MAP)
GetFare == Read({}, {"rideId"}, {"NOT_FOUND", "UNEXPECTED_ERROR"}, HTTP_STATUS_MAP)

\* Mutant of PostPaymentIntent: an intent that exists is a conflict.
PostPaymentIntentOnce == [Write({"payment:initiate"},
                                {"rideId", "riderId", "amountCOP", "fareBreakdown",
                                 "pricingVersion"}, "first", {}, HTTP_STATUS_MAP)
                              EXCEPT !.early = TRUE]

PostPaymentIntent == [Write({"payment:initiate"},
                            {"rideId", "riderId", "amountCOP", "fareBreakdown",
                             "pricingVersion"}, "once", {}, HTTP_STATUS_MAP)
                          EXCEPT !.early = TRUE]
PostSettlement == [Write({"payment:initiate"},
                         {"rideId", "providerTokenRef", "idempotencyKey"}, "keyed",
                         {"NOT_FOUND", "CONFLICT"}, HTTP_STATUS_MAP)
                       EXCEPT !.early = TRUE, !.key = "matched"]
GetReceipt == [Read({"payment:read"}, {"rideId"}, {"NOT_FOUND"}, HTTP_STATUS_MAP)
                   EXCEPT !.early = TRUE]
GetEvidence == [GetReceipt EXCEPT !.scopes = {"admin:read"}]
GetPaymentStatus == GetReceipt

Route == [postRide |-> PostRide, postTransition |-> PostTransition, getRide |-> GetRide,
          listRides |-> ListRides, postDriver |-> PostDriver,
          patchAvailability |-> PatchAvailability, patchLocation |-> PatchLocation,
          getDriver |-> GetDriver, postDispatch |-> PostDispatch, postFare |-> PostFare,
          getFare |-> GetFare, postPaymentIntent |-> PostPaymentIntent,
          postSettlement |-> PostSettlement, getReceipt |-> GetReceipt,
          getEvidence |-> GetEvidence, getPaymentStatus |-> GetPaymentStatus]
=============================================================================
