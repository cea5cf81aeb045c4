---------------------------- MODULE RequestGate ----------------------------
(***************************************************************************)
(* A request on its way through the HTTP API: session, lifecycle hooks,    *)
(* body parser, scopes, route handler, use case, answer, with one step for *)
(* each thing that is awaited.  Requests overlap; accounts and sessions    *)
(* change under them; a client sends again what it has sent; the server    *)
(* may die.                                                                *)
(*                                                                         *)
(* A use case is one step here: what overlapping executions do to each     *)
(* other is the matter of the other specifications.  Fastify, Better Auth  *)
(* and the clients are external.                                           *)
(***************************************************************************)
EXTENDS Integers, Sequences, FiniteSets, RouteTable

CONSTANTS MaxRequests,    \* bound: requests, in the order they are sent
          Users,          \* accounts
          Operations,     \* what clients ask for
          Profiles,       \* role and scopes an account may have
          FirstProfile,   \* the profile an account has at first
          Browsers,       \* users who hold a cookie at first, not a bearer token
          NoKey,          \* no Idempotency-Key
          NoProfile,      \* no cached session
          NoOperation,    \* before a request is sent
          LifecycleHooks, \* the application has the hooks of registerRequestLifecycleHooks
          MaxDisturbances \* bound: changes of accounts and sessions, failing calls, crashes

\* A key is one of several spellings of a name; some characters are refused.
Keys == [name : STRING, spelling : {"lower", "upper", "invalid"}]

ASSUME GateAssumption ==
    /\ \A o \in Operations : /\ o.route \in DOMAIN Route
                             /\ o.user \in Users
                             /\ o.content \in {"jsonapi", "parameters", "unsupported"}
                             /\ {o.header, o.bodyKey} \subseteq Keys \cup {NoKey}
    /\ NoProfile \notin Profiles
    /\ NoOperation \notin Operations
    /\ FirstProfile \in [Users -> Profiles] /\ Browsers \subseteq Users
    /\ LifecycleHooks \in BOOLEAN
    /\ MaxRequests \in Nat /\ MaxDisturbances \in Nat

Requests == 1..MaxRequests

VARIABLES account,   \* account[u]: the row of user u
          session,   \* users with a session in the database
          cookie,    \* cookie[u]: the signed cookie that caches the account for five minutes
          granted,   \* granted[u]: scopes u has had (history)
          pc,        \* pc[q]: where request q is
          op,        \* op[q]: what q asks for
          user,      \* user[q]: request.user
          status,    \* status[q]: status of the answer; 0 before it
          seen,      \* seen[q]: length of the log when q was sent (history)
          log,       \* requests that recorded what they ask for, in order
          leftovers, \* dispatches that reserved a driver for no ride and did not release him
          processes, \* verdicts of the dispatch process store, which is in memory
          disturbances

vars == <<account, session, cookie, granted, pc, op, user, status, seen, log, leftovers,
          processes, disturbances>>
accounts == <<account, session, cookie, granted>>
recorded == <<log, leftovers, processes>>

Init == /\ account = FirstProfile
        /\ session = Users
        /\ cookie = [u \in Users |-> IF u \in Browsers THEN FirstProfile[u] ELSE NoProfile]
        /\ granted = [u \in Users |-> ScopesOf(FirstProfile[u])]
        /\ pc = [q \in Requests |-> "unsent"]
        /\ op = [q \in Requests |-> NoOperation]
        /\ user = [q \in Requests |-> NoProfile]
        /\ status = [q \in Requests |-> 0]
        /\ seen = [q \in Requests |-> 0]
        /\ log = <<>>
        /\ leftovers = {}
        /\ processes = {}
        /\ disturbances = 0

Disturb == disturbances < MaxDisturbances /\ disturbances' = disturbances + 1

RouteOf(q) == Route[op[q].route]
Goto(q, label) == pc' = [pc EXCEPT ![q] = label]

\* Mutant of Answer: the reply is built but not sent.
AnswerNothing(q, s) == Goto(q, "answered") /\ UNCHANGED status

Answer(q, s) == Goto(q, "answered") /\ status' = [status EXCEPT ![q] = s]

\* An error the framework throws: setErrorHandler answers, but an onError hook that neither
\* returns a promise nor calls done keeps the answer back.
Throw(q, s) == IF LifecycleHooks THEN Goto(q, "stuck") /\ UNCHANGED status ELSE Answer(q, s)

-----------------------------------------------------------------------------
(* Clients and accounts.                                                   *)

\* A client asks for something, maybe what it has asked for before.  Bound: requests of one
\* route, since what is recorded through one route is never looked at through another.
Send(q) ==
    /\ pc[q] = "unsent"
    /\ \A p \in 1..(q - 1) : pc[p] # "unsent"
    /\ \E o \in Operations : /\ \A p \in 1..(q - 1) : op[p].route = o.route
                             /\ op' = [op EXCEPT ![q] = o]
    /\ seen' = [seen EXCEPT ![q] = Len(log)]
    /\ Goto(q, "authenticating")
    /\ UNCHANGED <<accounts, user, status, recorded, disturbances>>

UnchangedRequests == UNCHANGED <<pc, op, user, status, seen, recorded>>

\* Role or explicit scopes are changed on the server.
ChangeGrant(u) ==
    /\ Disturb
    /\ \E p \in Profiles \ {account[u]} :
          /\ account' = [account EXCEPT ![u] = p]
          /\ granted' = [granted EXCEPT ![u] = @ \cup ScopesOf(p)]
    /\ UNCHANGED <<session, cookie>> /\ UnchangedRequests

\* Better Auth makes a session and has the browser keep a copy of the account.
SignIn(u) ==
    /\ Disturb
    /\ session' = session \cup {u}
    /\ cookie' = [cookie EXCEPT ![u] = account[u]]
    /\ UNCHANGED <<account, granted>> /\ UnchangedRequests

\* A session is revoked or expires.
EndSession(u) ==
    /\ u \in session
    /\ Disturb
    /\ session' = session \ {u}
    /\ UNCHANGED <<account, cookie, granted>> /\ UnchangedRequests

\* Five minutes pass.
CookieExpires(u) ==
    /\ cookie[u] # NoProfile
    /\ Disturb
    /\ cookie' = [cookie EXCEPT ![u] = NoProfile]
    /\ UNCHANGED <<account, session, granted>> /\ UnchangedRequests

-----------------------------------------------------------------------------
(* Before the handler.                                                     *)

\* What getSession finds: the cached copy, else the account of a session.
getSession(u) == IF cookie[u] # NoProfile THEN cookie[u]
                 ELSE IF u \in session THEN account[u] ELSE NoProfile

\* The onRequest hook of registerRequestLifecycleHooks is no async function and calls no
\* done: where it is installed the request goes no further.
LogRequest(q) == Goto(q, IF LifecycleHooks THEN "stuck" ELSE "parsing")

\* Mutant of Authenticate: returns without an answer when there is no session.
AuthenticateSilently(q) ==
    LET found == getSession(op[q].user) IN
    /\ pc[q] = "authenticating"
    /\ found # NoProfile
    /\ user' = [user EXCEPT ![q] = found]
    /\ LogRequest(q)
    /\ UNCHANGED <<accounts, op, status, seen, recorded, disturbances>>

\* The hook of authMiddleware, and the one after it.
Authenticate(q) ==
    LET found == getSession(op[q].user) IN
    /\ pc[q] = "authenticating"
    /\ IF found = NoProfile
       THEN Answer(q, HTTP_STATUS_MAP["AUTHENTICATION_ERROR"]) /\ UNCHANGED user
       ELSE /\ user' = [user EXCEPT ![q] = found]
            /\ LogRequest(q)
            /\ UNCHANGED status
    /\ UNCHANGED <<accounts, op, seen, recorded, disturbances>>

\* getSession throws.
AuthenticateFails(q) ==
    /\ pc[q] = "authenticating"
    /\ Disturb
    /\ Throw(q, 500)
    /\ UNCHANGED <<accounts, op, user, seen, recorded>>

-----------------------------------------------------------------------------
(* The handler.                                                            *)

\* Mutant of IdempotencyKey: only trims.
TrimmedKey(raw) == raw

\* The canonical form of a key.
IdempotencyKey(raw) == [raw EXCEPT !.spelling = "lower"]
ValidKey(raw) == raw.spelling # "invalid"

\* The key a dispatch request is known by.
CorrelationId(o) == IF o.bodyKey # NoKey THEN o.bodyKey ELSE o.header

\* Keys are compared as they are sent, and made canonical afterwards.
KeyAccepted(o) ==
    CASE Route[o.route].key = "none" -> TRUE
      [] Route[o.route].key = "header" -> o.header # NoKey
      [] Route[o.route].key = "matched" -> /\ o.header # NoKey
                                           /\ o.header = o.bodyKey
                                           /\ ValidKey(o.bodyKey)

WellFormed(o) == Route[o.route].required \subseteq o.given

\* Why a handler answers before its use case: 0 if it does not.  Parameters of the media
\* type pass the parser, not assertJsonApiRequestHeaders, whose plain Error is a 500.
Refusal(o, u) ==
    IF Route[o.route].body /\ o.content # "jsonapi"
    THEN IF o.route = "postDispatch" THEN 415 ELSE 500
    ELSE IF ~WellFormed(o) \/ ~KeyAccepted(o) THEN HTTP_STATUS_MAP["VALIDATION_ERROR"]
    ELSE IF o.route = "getReceipt" /\ u.role # "rider"
         THEN HTTP_STATUS_MAP["AUTHORIZATION_ERROR"]
    ELSE 0

\* Mutant of requireScopes: sends the refusal, and lets the handler run.
requireNoScopes(o, u) == TRUE

requireScopes(o, u) == Route[o.route].scopes \subseteq ScopesOf(u)

\* The body is there: the parser of its content type, the schema of routes that give
\* Fastify one, the scopes, then the handler up to its use case.
Handle(q) ==
    LET o == op[q] IN
    /\ pc[q] = "parsing"
    /\ IF Route[o.route].body /\ o.content = "unsupported" THEN Throw(q, 500)
       ELSE IF Route[o.route].early /\ ~WellFormed(o) THEN Throw(q, 400)
       ELSE IF ~requireScopes(o, user[q])
            THEN Answer(q, HTTP_STATUS_MAP["AUTHORIZATION_ERROR"])
       ELSE IF Refusal(o, user[q]) # 0 THEN Answer(q, Refusal(o, user[q]))
       ELSE Goto(q, "executing") /\ UNCHANGED status
    /\ UNCHANGED <<accounts, op, user, seen, recorded, disturbances>>

-----------------------------------------------------------------------------
(* The use case.                                                           *)

\* What a unique index, or the state of a row, lets be recorded once.
Ident(o) == <<o.route, IF o.route = "postSettlement" THEN IdempotencyKey(o.bodyKey)
                                                     ELSE o.target>>

Recorded(o) == \E i \in DOMAIN log : Ident(op[log[i]]) = Ident(o)

\* A result, whether what is asked for is recorded, and whether a reservation is left behind.
Ok(records) == [tag |-> "OK", records |-> records, leaves |-> FALSE]
Refused(tags) == {[tag |-> t, records |-> FALSE, leaves |-> FALSE] : t \in tags}
Abandoned(tags) == {[tag |-> t, records |-> FALSE, leaves |-> TRUE] : t \in tags}

\* A settlement key of another ride is not found under this one, and refused by the unique
\* index if the ride has an intent and may be charged.
KeyOfOtherRide(o) == \E i \in DOMAIN log : /\ Ident(op[log[i]]) = Ident(o)
                                           /\ op[log[i]].target # o.target

\* What the use case of a request may come to while the database answers.  A dispatch that
\* has reserved a driver may still be refused by the ride; that it then releases him is not
\* certain.
Outcomes(q) ==
    LET o == op[q]
        r == RouteOf(q)
        afresh == {Ok(TRUE)} \cup Refused(r.refusals)
    IN CASE r.kind = "read" -> {Ok(FALSE)} \cup Refused(r.refusals)
         [] r.kind \in {"fresh", "overwrite"} -> afresh
         [] r.kind = "first" -> IF Recorded(o) THEN Refused({"CONFLICT"}) ELSE afresh
         [] r.kind = "once" -> IF Recorded(o) THEN {Ok(FALSE)} ELSE afresh
         [] r.kind = "keyed" -> IF KeyOfOtherRide(o)
                                THEN Refused({"INFRASTRUCTURE_ERROR"} \cup r.refusals)
                                ELSE IF Recorded(o) THEN {Ok(FALSE)} ELSE afresh
         [] r.kind = "saga" ->
              IF <<CorrelationId(o), "SUCCEEDED">> \in processes THEN {Ok(FALSE)}
              ELSE IF <<CorrelationId(o), "FAILED">> \in processes THEN Refused({"CONFLICT"})
              ELSE IF Recorded(o)
              THEN Refused({"VALIDATION_ERROR", "CONFLICT"}) \cup Abandoned({"CONFLICT"})
              ELSE afresh \cup Abandoned({"NOT_FOUND", "CONFLICT"})

\* The process store has no verdict on a request, and is given one.
Undecided(q) == \A v \in {"SUCCEEDED", "FAILED"} : <<CorrelationId(op[q]), v>> \notin processes
Decide(q, v) == processes' = processes \cup {<<CorrelationId(op[q]), v>>}

\* The use case returns c; the dispatch process store keeps its verdict, if nothing threw.
Return(q, c) ==
    /\ log' = IF c.records THEN Append(log, q) ELSE log
    /\ leftovers' = IF c.leaves THEN leftovers \cup {q} ELSE leftovers
    /\ IF RouteOf(q).kind = "saga" /\ Undecided(q) /\ c.tag # "UNEXPECTED_ERROR"
       THEN Decide(q, IF c.tag = "OK" THEN "SUCCEEDED" ELSE "FAILED")
       ELSE UNCHANGED processes
    /\ IF c.tag # "OK" THEN Answer(q, RouteOf(q).status[c.tag])
       ELSE IF RouteOf(q).readBack THEN Goto(q, "reading") /\ UNCHANGED status
       ELSE Answer(q, RouteOf(q).success)

Execute(q) ==
    /\ pc[q] = "executing"
    /\ \E c \in Outcomes(q) : Return(q, c)
    /\ UNCHANGED <<accounts, op, user, seen, disturbances>>

\* A statement fails, before it has done anything or after its commit.
ExecuteFails(q) ==
    /\ pc[q] = "executing"
    /\ Disturb
    /\ \E t \in {"INFRASTRUCTURE_ERROR", "UNEXPECTED_ERROR"}, c \in Outcomes(q),
          done \in BOOLEAN :
          Return(q, [tag |-> t, records |-> done /\ c.records, leaves |-> done /\ c.leaves])
    /\ UNCHANGED <<accounts, op, user, seen>>

\* The ride is read for the answer.
ReadBack(q) ==
    /\ pc[q] = "reading"
    /\ Answer(q, RouteOf(q).success)
    /\ UNCHANGED <<accounts, op, user, seen, recorded, disturbances>>

\* It cannot be read: an error for a change that is committed.
ReadBackFails(q) ==
    /\ pc[q] = "reading"
    /\ Disturb
    /\ Answer(q, 500)
    /\ UNCHANGED <<accounts, op, user, seen, recorded>>

\* The server dies and starts again: requests and process store are lost.
Crash ==
    /\ Disturb
    /\ pc' = [q \in Requests |-> IF pc[q] \in {"unsent", "answered"} THEN pc[q] ELSE "lost"]
    /\ processes' = {}
    /\ UNCHANGED <<accounts, op, user, status, seen, log, leftovers>>

-----------------------------------------------------------------------------

Proceed(q) == Authenticate(q) \/ Handle(q) \/ Execute(q) \/ ReadBack(q)

Fail(q) == AuthenticateFails(q) \/ ExecuteFails(q) \/ ReadBackFails(q)

Next == \/ \E q \in Requests : Send(q) \/ Proceed(q) \/ Fail(q)
        \/ \E u \in Users : ChangeGrant(u) \/ SignIn(u) \/ EndSession(u) \/ CookieExpires(u)
        \/ Crash

\* Awaited calls settle and the event loop serves every request.
Spec == Init /\ [][Next]_vars /\ \A q \in Requests : WF_vars(Proceed(q))

-----------------------------------------------------------------------------
(* Properties.                                                             *)

Labels == {"unsent", "authenticating", "parsing", "executing", "reading", "answered",
           "stuck", "lost"}
InFlight == Labels \ {"unsent", "answered", "lost"}
WritesAnew(q) == RouteOf(q).kind \in {"fresh", "overwrite"}
InLog(q) == \E i \in DOMAIN log : log[i] = q

\* Every variable holds a value of its kind, and a status is there with the answer.
TypeOK ==
    /\ account \in [Users -> Profiles] /\ session \subseteq Users
    /\ cookie \in [Users -> Profiles \cup {NoProfile}]
    /\ granted \in [Users -> SUBSET AUTH_SCOPES]
    /\ pc \in [Requests -> Labels]
    /\ op \in [Requests -> Operations \cup {NoOperation}]
    /\ user \in [Requests -> Profiles \cup {NoProfile}]
    /\ status \in [Requests -> {0, 200, 201, 415} \cup {HTTP_STATUS_MAP[t] : t \in Tags}]
    /\ \A q \in Requests : /\ pc[q] = "answered" <=> status[q] # 0
                           /\ pc[q] = "unsent" <=> op[q] = NoOperation
    /\ seen \in [Requests -> 0..Cardinality(Requests)]
    /\ log \in Seq(Requests) /\ leftovers \subseteq Requests
    /\ disturbances \in 0..MaxDisturbances

\* Whoever changed rows had the scopes of the route at some time, by role or by name: not
\* even a request that overlaps a change of its account, or rides on a cached session, gets
\* what the account never had.
EffectsWereAuthorised ==
    \A q \in Requests :
        InLog(q) \/ q \in leftovers => RouteOf(q).scopes \subseteq granted[op[q].user]

\* A success of request q rests on what q recorded, or one before it that asked for the same.
\* A dispatch goes by its correlation id, which nothing ties to one ride: an id used for two
\* rides is answered for the second as it was for the first.
Effect(q) ==
    /\ WritesAnew(q) => InLog(q)
    /\ RouteOf(q).kind \in {"first", "once", "keyed"} => Recorded(op[q])
    /\ RouteOf(q).kind = "saga" =>
           \E i \in DOMAIN log : /\ op[log[i]].route = "postDispatch"
                                 /\ CorrelationId(op[log[i]]) = CorrelationId(op[q])

\* An answer tells a client what became of its request: what is refused with a 4xx did not
\* record what it asks for, and what succeeds is recorded, by this request or by one before
\* it.  Recorded means the row or change that is asked for: the ride, its transition, driver,
\* fare, intent, attempt or assignment.  It does not mean that nothing was written: a dispatch
\* that is refused, and only such a one, may leave a reserved driver behind.
AnswersMatchEffects ==
    \A q \in Requests :
        /\ status[q] \in 400..499 => ~InLog(q)
        /\ status[q] \in {200, 201} => Effect(q)
        /\ q \in leftovers => RouteOf(q).kind = "saga" /\ ~InLog(q) /\ status[q] \notin {200, 201}

\* However often a client sends a request, in whatever spelling of its key, and whatever
\* answers are lost, it is recorded once; a new ride and an overwrite are the exceptions.
RetriesActOnce ==
    \A i, j \in DOMAIN log :
        LET a == op[log[i]]
            b == op[log[j]]
        IN /\ i # j /\ ~WritesAnew(log[i]) /\ a.route = b.route
           => /\ a.target = b.target => a.route = "postSettlement"
              /\ a.route = "postSettlement" => a.bodyKey.name # b.bodyKey.name

\* A client that sends a payment or fare request again after it was recorded is not told
\* that it conflicts with itself, whether or not it heard the first answer.
RetriesAreNotRefused ==
    \A i \in DOMAIN log, q \in Requests :
        LET a == op[log[i]] IN
        /\ i <= seen[q]
        /\ a.route \in {"postPaymentIntent", "postSettlement", "postFare"}
        /\ op[q] = a
        => status[q] # HTTP_STATUS_MAP["CONFLICT"]

\* A request that reaches a living server is answered.
EveryRequestIsAnswered ==
    \A q \in Requests : (pc[q] \in InFlight) ~> (pc[q] \in {"answered", "lost"})
=============================================================================
