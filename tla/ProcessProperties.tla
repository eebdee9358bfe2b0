-------------------------- MODULE ProcessProperties --------------------------
(***************************************************************************)
(* What the server and the shutdown of the process promise.                *)
(***************************************************************************)
EXTENDS Process

Accepted(r) == ~On(r, "none")

\* A process that exits with 0 has answered everyone it accepted: whoever is
\* still connected has an answer, whichever of the chains was first
\* (installGracefulShutdown: "finish the requests already in flight").
CleanExitAnswers ==
    exitCode = 0 => \A r \in Requests : Accepted(r) => answer[r] # Unset \/ r \in left

-----------------------------------------------------------------------------
(* The abstract server *)

\* The process seen as the port of ServerLife.
PortOf ==
    IF exitCode = 0 THEN "clean"
    ELSE IF ~Alive THEN "failed"
    ELSE IF listening THEN "open"
    ELSE "closed"

\* A request seen as a client of ServerLife.
ClientOf(r) ==
    IF ~Accepted(r) THEN "away" ELSE IF Connected(r) THEN "waiting" ELSE "gone"

Life == INSTANCE ServerLife
            WITH Clients <- Requests, port <- PortOf,
                 client <- [r \in Requests |-> ClientOf(r)]

\* Guards, handlers, timeouts, two chains of hooks, the timer, signals and
\* crashes, interleaved, behave as ServerLife: the port closes once, nobody is
\* taken in afterwards, and exit code 0 comes after both the
\* closing and the last client (installGracefulShutdown, app.close).
ImplementsServerLife == Life!Spec

-----------------------------------------------------------------------------
\* The Redis connections outlive the requests that use them: as long as a
\* client waits for an answer they are open (CacheModule closes them in
\* onApplicationShutdown, after the server has drained).
RedisOutlivesRequests == clients = "closed" => \A r \in Requests : ~Connected(r)

\* A shutdown ends, however long a handler, a hook or a dependency takes.
ShutdownEnds == shuttingDown ~> ~Alive

\* A request that was accepted ends: it is answered, or its client leaves, or
\* the process exits, however long its handler takes (TimeoutInterceptor:
\* "guarantees the client gets an answer").
RequestsEnd ==
    \A r \in Requests : Accepted(r) /\ Alive ~> answer[r] # Unset \/ ~Alive

\* The in-flight gauge is the number of requests the interceptors have let
\* through and nobody has answered: it comes back to 0 after failures and
\* timeouts, and does not count the handlers that linger (MetricsInterceptor).
GaugeCountsInFlight == inFlight = Cardinality({r \in Requests : On(r, "handler")})

\* A failure the service did not foresee is logged as an error, and its
\* message stays out of the answer, wherever it was thrown: in a guard, in a
\* handler, in a repository that did not translate it (GlobalExceptionFilter:
\* "Never leak internals", "Right log level").  A 503 of Terminus is foreseen.
FailuresAreOpaqueAndLogged ==
    \A r \in Requests : answer[r] # Unset =>
        /\ answer[r].status >= 500 => logged[r] = "error"
        /\ logged[r] = "error" /\ route[r] # "ready" => ~answer[r].own

-----------------------------------------------------------------------------
(* What the repository says and the code does not do. *)

\* A process that crashed exits with a failure (docs/DEPLOYMENT.md).
CrashExitsNonZero == crashed /\ ~Alive => exitCode # 0

\* http_requests_total counts a request under the status it was answered with
\* (docs/DEPLOYMENT.md: error rate).
CountedAsAnswered ==
    \A r \in Requests : counted[r] # Unset => counted[r] = answer[r].status
=============================================================================
