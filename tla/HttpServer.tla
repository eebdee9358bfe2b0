----------------------------- MODULE HttpServer -----------------------------
(***************************************************************************)
(* A request's way through the process: the guards, the interceptors, the  *)
(* handler, and the filter (app.module.ts gives their order).  The guards  *)
(* come before the interceptors, so a request they refuse is neither       *)
(* counted nor timed.  The timeout answers the client; it does not stop    *)
(* the handler.  Readiness probes ask the database and Redis.              *)
(***************************************************************************)
EXTENDS ErrorMapping, FiniteSets

CONSTANTS
    Requests,
    Routes,          \* the handlers of a run
    HandlerErrors,   \* what they may throw
    Unset            \* what has no value yet

\* The probe is public; its handler is HealthController.readiness.
AllRoutes == {"ready", "read", "create"}
Dependencies == {"database", "redis"}

Answer == [status : Nat, own : BOOLEAN]

\* Of the HttpExceptions from 500 on there are only those of Terminus.
ASSUME ServerAssumption ==
    Routes \subseteq AllRoutes /\ HandlerErrors \subseteq Errors \ {"serverError"}
ASSUME UnsetAssumption == Unset \notin Nat \cup Answer

VARIABLES
    up,         \* the dependencies that answer
    route,      \* the handler of each request that came
    stage,      \* how far each request is
    work,       \* the promise of each handler: none, running, settled
    answer,     \* what each client was answered
    left,       \* the clients that hung up
    logged,     \* what the filter logged of each request
    inFlight,   \* http_requests_in_flight
    counted,    \* the status http_requests_total counted each request under
    probe       \* the answers each readiness probe has

httpVars == <<up, route, stage, work, answer, left, logged, inFlight, counted, probe>>

Guards == {"throttle", "authenticate"}

\* The statuses Nest gives a response before its interceptors run.
Success(r) == IF route[r] = "create" THEN 201 ELSE 200

On(r, point) == stage[r] = point
Pending(r) == stage[r] \in Guards \cup {"handler"}

\* A connection is open until the answer is out, or the client hangs up.
Connected(r) == Pending(r) /\ r \notin left

Answered(r, status, own) ==
    /\ answer' = [answer EXCEPT ![r] = [status |-> status, own |-> own]]
    /\ stage' = [stage EXCEPT ![r] = "answered"]

\* The filter: log the error, answer the client.
Filtered(r, e) ==
    /\ logged' = [logged EXCEPT ![r] = LogLevel(e)]
    /\ Answered(r, Normalize(e).status, Normalize(e).own)

-----------------------------------------------------------------------------
Accept(r, handler) ==
    /\ On(r, "none")
    /\ route' = [route EXCEPT ![r] = handler]
    /\ stage' = [stage EXCEPT ![r] = "throttle"]
    /\ UNCHANGED <<up, work, answer, left, logged, inFlight, counted, probe>>

\* ThrottlerBehindProxyGuard, which does not throttle probes, and no one
\* while Redis is away (Throttler).
Throttle(r) ==
    /\ On(r, "throttle")
    /\ \/ /\ stage' = [stage EXCEPT ![r] = "authenticate"]
          /\ UNCHANGED <<answer, logged>>
       \/ /\ route[r] # "ready" /\ "redis" \in up
          /\ Filtered(r, "throttled")
    /\ UNCHANGED <<up, route, work, left, inFlight, counted, probe>>

\* The interceptors, on the way in: the metrics, the timer; then the handler.
Handle(r) ==
    /\ stage' = [stage EXCEPT ![r] = "handler"]
    /\ inFlight' = inFlight + 1
    /\ work' = [work EXCEPT ![r] = "running"]
    /\ UNCHANGED <<answer, logged>>

\* JwtAuthGuard.  The denylist fails closed: a token is refused while Redis
\* is away.  The database's errors come as they are.
Authenticate(r) ==
    /\ On(r, "authenticate")
    /\ \/ /\ route[r] = "ready" \/ up = Dependencies
          /\ Handle(r)
       \/ /\ route[r] # "ready"
          /\ \/ Filtered(r, "authentication")
             \/ /\ "redis" \in up /\ "database" \notin up
                /\ \E e \in {"anything", "otherPrisma"} : Filtered(r, e)
          /\ UNCHANGED <<inFlight, work>>
    /\ UNCHANGED <<up, route, left, counted, probe>>

-----------------------------------------------------------------------------
\* A metrics interceptor that only taps into successes.
FinalizeSuccess(r) ==
    IF answer'[r].status = Success(r)
    THEN /\ inFlight' = inFlight - 1
         /\ counted' = [counted EXCEPT ![r] = Success(r)]
    ELSE UNCHANGED <<inFlight, counted>>

\* finalize: at the end of the stream, before the filter has set a status.
Finalize(r) ==
    /\ inFlight' = inFlight - 1
    /\ counted' = [counted EXCEPT ![r] = Success(r)]

\* The handler settles in time.
Return(r) ==
    /\ On(r, "handler") /\ route[r] # "ready"
    /\ work' = [work EXCEPT ![r] = "settled"]
    /\ Answered(r, Success(r), FALSE)
    /\ Finalize(r)
    /\ UNCHANGED <<up, route, left, logged, probe>>

Throw(r, e) ==
    /\ On(r, "handler") /\ route[r] # "ready"
    /\ work' = [work EXCEPT ![r] = "settled"]
    /\ Filtered(r, e)
    /\ Finalize(r)
    /\ UNCHANGED <<up, route, left, probe>>

\* A timeout that nobody has put in.
TimeOutNever(r) == FALSE

\* TimeoutInterceptor: RequestTimeoutException, and the handler goes on.
TimeOut(r) ==
    /\ On(r, "handler")
    /\ Filtered(r, "timedOut")
    /\ Finalize(r)
    /\ UNCHANGED <<up, route, work, left, probe>>

\* What it comes to after that goes nowhere, an error included.
SettleLate(r) ==
    /\ On(r, "answered") /\ work[r] = "running"
    /\ work' = [work EXCEPT ![r] = "settled"]
    /\ UNCHANGED <<up, route, stage, answer, left, logged, inFlight, counted, probe>>

-----------------------------------------------------------------------------
(* HealthController.readiness *)

Probed == Dependencies

\* An indicator: a ping, or its timeout.
Ping(r, dependency) ==
    /\ On(r, "handler") /\ route[r] = "ready"
    /\ probe[r][dependency] = Unset
    /\ \E result \in {"up", "down"} :
        /\ result = "up" => dependency \in up
        /\ probe' = [probe EXCEPT ![r][dependency] = result]
    /\ UNCHANGED <<up, route, stage, work, answer, left, logged, inFlight, counted>>

\* Terminus: an answer once all indicators have one, and 503 if one is down.
Report(r) ==
    /\ On(r, "handler") /\ route[r] = "ready"
    /\ \A d \in Probed : probe[r][d] # Unset
    /\ work' = [work EXCEPT ![r] = "settled"]
    /\ \/ /\ \A d \in Probed : probe[r][d] = "up"
          /\ Answered(r, Success(r), FALSE)
          /\ UNCHANGED logged
       \/ /\ \E d \in Probed : probe[r][d] = "down"
          /\ Filtered(r, "serverError")
    /\ Finalize(r)
    /\ UNCHANGED <<up, route, left, probe>>

-----------------------------------------------------------------------------
HangUp(r) ==
    /\ Connected(r)
    /\ left' = left \cup {r}
    /\ UNCHANGED <<up, route, stage, work, answer, logged, inFlight, counted, probe>>

\* A dependency goes, or comes back.
Flip(dependency) ==
    /\ up' = IF dependency \in up THEN up \ {dependency} ELSE up \cup {dependency}
    /\ UNCHANGED <<route, stage, work, answer, left, logged, inFlight, counted, probe>>

HttpInit ==
    /\ up = Dependencies
    /\ route = [r \in Requests |-> Unset]
    /\ stage = [r \in Requests |-> "none"]
    /\ work = [r \in Requests |-> "none"]
    /\ answer = [r \in Requests |-> Unset]
    /\ left = {}
    /\ logged = [r \in Requests |-> "nothing"]
    /\ inFlight = 0
    /\ counted = [r \in Requests |-> Unset]
    /\ probe = [r \in Requests |-> [d \in Dependencies |-> Unset]]

\* What the process does without being asked: it answers.
Serve(r) == Throttle(r) \/ Authenticate(r) \/ TimeOut(r)

HttpStep ==
    \/ \E r \in Requests :
        \/ Serve(r) \/ Return(r) \/ SettleLate(r) \/ HangUp(r) \/ Report(r)
        \/ \E e \in HandlerErrors : Throw(r, e)
        \/ \E d \in Dependencies : Ping(r, d)
    \/ \E d \in Dependencies : Flip(d)
=============================================================================
