---------------------------- MODULE ErrorMapping ----------------------------
(***************************************************************************)
(* GlobalExceptionFilter: what a client is told of an error, and what the  *)
(* log is.  An error is named by the class the filter tells it apart by.   *)
(***************************************************************************)
EXTENDS Naturals

\* The bases of domain-error.ts, and one derived from none of them.
DomainStatus ==
    [notFound |-> 404, conflict |-> 409, authentication |-> 401,
     authorization |-> 403, businessRule |-> 422, otherDomain |-> 400]

\* PrismaClientKnownRequestError by its code.
PrismaStatus == [P2002 |-> 409, P2025 |-> 404, P2003 |-> 409, otherPrisma |-> 500]

\* The HttpExceptions thrown here and by Nest; "violations" is the one whose
\* message is a list, and "serverError" stands for those from 500 on.
HttpStatus ==
    [badRequest |-> 400, unmatched |-> 404, timedOut |-> 408,
     violations |-> 422, serverError |-> 503]

\* PrismaClientInitializationError, and the like: no known request error.
Errors == DOMAIN DomainStatus \cup DOMAIN PrismaStatus \cup DOMAIN HttpStatus
            \cup {"throttled", "zod", "infrastructure", "anything"}

\* own: the client reads the error's own message, and not a fixed one.
Normalized(status, own, isExpected) ==
    [status |-> status, own |-> own, isExpected |-> isExpected]

\* A filter that trusts the message of every error.
NormalizeOwn(e) ==
    CASE e \in DOMAIN DomainStatus -> Normalized(DomainStatus[e], TRUE, TRUE)
      [] e \in DOMAIN HttpStatus   -> Normalized(HttpStatus[e], TRUE, HttpStatus[e] < 500)
      [] e = "throttled"           -> Normalized(429, TRUE, TRUE)
      [] e = "zod"                 -> Normalized(422, TRUE, TRUE)
      [] e = "infrastructure"      -> Normalized(503, TRUE, FALSE)
      [] e \in DOMAIN PrismaStatus -> Normalized(PrismaStatus[e], TRUE, FALSE)
      [] e = "anything"            -> Normalized(500, TRUE, FALSE)

Normalize(e) ==
    CASE e \in DOMAIN DomainStatus -> Normalized(DomainStatus[e], TRUE, TRUE)
      [] e = "throttled"           -> Normalized(429, FALSE, TRUE)
      [] e \in DOMAIN HttpStatus   -> Normalized(HttpStatus[e], e # "violations", HttpStatus[e] < 500)
      [] e = "zod"                 -> Normalized(422, FALSE, TRUE)
      [] e = "infrastructure"      -> Normalized(503, FALSE, FALSE)
      [] e \in DOMAIN PrismaStatus -> Normalized(PrismaStatus[e], FALSE, FALSE)
      [] e = "anything"            -> Normalized(500, FALSE, FALSE)

LogLevel(e) == IF Normalize(e).isExpected THEN "warn" ELSE "error"
=============================================================================
