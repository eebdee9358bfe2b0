---------------------------- MODULE ProcessProofs ----------------------------
(***************************************************************************)
(* The promises of the process, for any number of requests, signals,       *)
(* errors, sockets, accounts and environments: its server and shutdown,    *)
(* then its gateway, then its boot.                                        *)
(***************************************************************************)
EXTENDS ProcessProperties, GatewayProperties, ConfigurationProperties,
        FiniteSetTheorems, TLAPS

Stages == Guards \cup {"none", "handler", "answered"}
ChainPoints == {"off", "onModuleDestroy", "draining", "onApplicationShutdown", "over"}

InHandler == {r \in Requests : On(r, "handler")}
Quiet == \A r \in Requests : ~Connected(r)

\* A request that has come to its end has an answer.
ServerTyped ==
    /\ stage \in [Requests -> Stages]
    /\ answer \in [Requests -> Answer \cup {Unset}]
    /\ \A r \in Requests : On(r, "answered") => answer[r] # Unset

\* Finitely many handlers run at a time, however many requests there are.
Gauged == IsFiniteSet(InHandler) /\ inFlight = Cardinality(InHandler)

\* A chain that is past a stage has waited for it: nobody is accepted after
\* the first hooks, and nobody is connected after the drain.
DrainedInTurn ==
    /\ chain \in [Chains -> ChainPoints]
    /\ \A c \in Chains :
        /\ chain[c] \notin {"off", "onModuleDestroy"} => ~listening
        /\ chain[c] \in {"onApplicationShutdown", "over"} => Quiet
    /\ clients = "closed" => ~listening /\ Quiet
    /\ exitCode = 0 => Quiet

ProcessInv == ServerTyped /\ Gauged /\ DrainedInTurn

-----------------------------------------------------------------------------
(* Errors and answers *)

LEMMA ReplyIsAnswer ==
    ASSUME NEW status \in Nat, NEW own \in BOOLEAN
    PROVE  [status |-> status, own |-> own] \in Answer
BY ZenonT(30) DEF Answer

LEMMA NormalizedFields ==
    ASSUME NEW status \in Nat, NEW own \in BOOLEAN, NEW isExpected, NEW n,
           n = Normalized(status, own, isExpected)
    PROVE  [status |-> n.status, own |-> n.own] \in Answer
<1>1. n.status = status /\ n.own = own
  BY ZenonT(30) DEF Normalized
<1> QED
  BY <1>1, ReplyIsAnswer

\* No error is of two kinds.
LEMMA ErrorsApart ==
    /\ \A e \in DOMAIN DomainStatus :
        /\ e \notin DOMAIN HttpStatus /\ e \notin DOMAIN PrismaStatus
        /\ e \notin {"throttled", "zod", "infrastructure", "anything"}
    /\ \A e \in DOMAIN HttpStatus :
        /\ e \notin DOMAIN PrismaStatus
        /\ e \notin {"throttled", "zod", "infrastructure", "anything"}
    /\ \A e \in DOMAIN PrismaStatus :
        e \notin {"throttled", "zod", "infrastructure", "anything"}
<1>1. DOMAIN DomainStatus = {"notFound", "conflict", "authentication", "authorization",
                            "businessRule", "otherDomain"}
  BY DEF DomainStatus
<1>2. DOMAIN PrismaStatus = {"P2002", "P2025", "P2003", "otherPrisma"}
  BY DEF PrismaStatus
<1>3. DOMAIN HttpStatus = {"badRequest", "unmatched", "timedOut", "violations", "serverError"}
  BY DEF HttpStatus
<1> QED
  BY <1>1, <1>2, <1>3

\* The filter has a status for every error there is.
LEMMA NormalizeTyped ==
    ASSUME NEW e \in Errors
    PROVE  [status |-> Normalize(e).status, own |-> Normalize(e).own] \in Answer
<1>1. CASE e \in DOMAIN DomainStatus
  <2>1. DomainStatus[e] \in Nat
    BY <1>1 DEF DomainStatus
  <2>2. Normalize(e) = Normalized(DomainStatus[e], TRUE, TRUE)
    BY <1>1, ErrorsApart DEF Normalize
  <2> QED
    BY <2>1, <2>2, NormalizedFields, Zenon
<1>2. CASE e \in DOMAIN HttpStatus
  <2>1. HttpStatus[e] \in Nat
    BY <1>2 DEF HttpStatus
  <2>2. e \notin DOMAIN DomainStatus /\ e # "throttled"
        /\ e \notin DOMAIN PrismaStatus
        /\ e # "zod" /\ e # "infrastructure" /\ e # "anything"
    BY <1>2, ErrorsApart
  <2> DEFINE own == e # "violations"
             expected == HttpStatus[e] < 500
  <2>3. Normalize(e) = Normalized(HttpStatus[e], own, expected)
    BY <1>2, <2>2, ZenonT(60) DEF Normalize
  <2>4. own = TRUE \/ own = FALSE
    OBVIOUS
  <2> HIDE DEF own, expected
  <2>5. own \in BOOLEAN
    BY <2>4
  <2> QED
    BY <2>1, <2>3, <2>5, NormalizedFields, ZenonT(60)
<1>3. CASE e \in DOMAIN PrismaStatus
  <2>1. PrismaStatus[e] \in Nat
    BY <1>3 DEF PrismaStatus
  <2>2. Normalize(e) = Normalized(PrismaStatus[e], FALSE, FALSE)
    BY <1>3, ErrorsApart DEF Normalize
  <2> QED
    BY <2>1, <2>2, NormalizedFields, Zenon
<1>4. CASE e = "throttled"
  <2>1. Normalize(e) = Normalized(429, FALSE, TRUE)
    BY <1>4 DEF Normalize, DomainStatus, HttpStatus, PrismaStatus
  <2>2. 429 \in Nat
    OBVIOUS
  <2> QED
    BY <2>1, <2>2, NormalizedFields, Zenon
<1>5. CASE e = "zod"
  <2>1. Normalize(e) = Normalized(422, FALSE, TRUE)
    BY <1>5 DEF Normalize, DomainStatus, HttpStatus, PrismaStatus
  <2>2. 422 \in Nat
    OBVIOUS
  <2> QED
    BY <2>1, <2>2, NormalizedFields, Zenon
<1>6. CASE e = "infrastructure"
  <2>1. Normalize(e) = Normalized(503, FALSE, FALSE)
    BY <1>6 DEF Normalize, DomainStatus, HttpStatus, PrismaStatus
  <2>2. 503 \in Nat
    OBVIOUS
  <2> QED
    BY <2>1, <2>2, NormalizedFields, Zenon
<1>7. CASE e = "anything"
  <2>1. Normalize(e) = Normalized(500, FALSE, FALSE)
    BY <1>7 DEF Normalize, DomainStatus, HttpStatus, PrismaStatus
  <2>2. 500 \in Nat
    OBVIOUS
  <2> QED
    BY <2>1, <2>2, NormalizedFields, Zenon
<1> QED
  BY <1>1, <1>2, <1>3, <1>4, <1>5, <1>6, <1>7 DEF Errors

\* What the steps of the server do to a request: nothing, or on to the next
\* stage, or an answer.
Moved(r, point) ==
    /\ stage' = [stage EXCEPT ![r] = point]
    /\ UNCHANGED <<answer, left>>

Replied(r) ==
    /\ stage' = [stage EXCEPT ![r] = "answered"]
    /\ \E a \in Answer : answer' = [answer EXCEPT ![r] = a]
    /\ UNCHANGED left

LEMMA FilteredReplies ==
    ASSUME NEW r \in Requests, NEW e \in Errors, Filtered(r, e), UNCHANGED left
    PROVE  Replied(r)
BY NormalizeTyped DEF Filtered, Answered, Replied

LEMMA SuccessReplies ==
    ASSUME NEW r \in Requests, Answered(r, Success(r), FALSE), UNCHANGED left
    PROVE  Replied(r)
<1>1. Success(r) \in Nat
  BY DEF Success
<1>2. [status |-> Success(r), own |-> FALSE] \in Answer
  BY <1>1, ReplyIsAnswer
<1> QED
  BY <1>2 DEF Answered, Replied

-----------------------------------------------------------------------------
(* The types and the gauge *)

LEMMA MovedTyped ==
    ASSUME ServerTyped, NEW r \in Requests, NEW point \in Stages \ {"answered"},
           Moved(r, point)
    PROVE  ServerTyped'
BY DEF ServerTyped, Moved, On

LEMMA RepliedTyped ==
    ASSUME ServerTyped, NEW r \in Requests, Replied(r)
    PROVE  ServerTyped'
<1>1. PICK a \in Answer : answer' = [answer EXCEPT ![r] = a]
  BY DEF Replied
<1>2. a # Unset
  BY UnsetAssumption
<1> QED
  BY <1>1, <1>2 DEF ServerTyped, Replied, On, Stages

\* No handler begins or ends.
LEMMA GaugeStays ==
    ASSUME Gauged, UNCHANGED inFlight, InHandler' = InHandler
    PROVE  Gauged'
BY DEF Gauged

LEMMA GaugeUp ==
    ASSUME ServerTyped, Gauged, NEW r \in Requests, ~On(r, "handler"),
           stage' = [stage EXCEPT ![r] = "handler"], inFlight' = inFlight + 1
    PROVE  Gauged'
<1>1. InHandler' = InHandler \cup {r} /\ r \notin InHandler
  BY DEF ServerTyped, InHandler, On
<1> QED
  BY <1>1, FS_AddElement DEF Gauged

LEMMA GaugeDown ==
    ASSUME ServerTyped, Gauged, NEW r \in Requests, On(r, "handler"),
           stage' = [stage EXCEPT ![r] = "answered"], inFlight' = inFlight - 1
    PROVE  Gauged'
<1>1. InHandler' = InHandler \ {r} /\ r \in InHandler
  BY DEF ServerTyped, InHandler, On
<1> QED
  BY <1>1, FS_RemoveElement DEF Gauged

\* A step from a guard to another guard, or to an answer.
LEMMA GaugeOutside ==
    ASSUME ServerTyped, Gauged, NEW r \in Requests, NEW point, point # "handler",
           ~On(r, "handler"), stage' = [stage EXCEPT ![r] = point], UNCHANGED inFlight
    PROVE  Gauged'
<1>1. InHandler' = InHandler
  BY DEF ServerTyped, InHandler, On
<1> QED
  BY <1>1, GaugeStays

-----------------------------------------------------------------------------
(* The server's steps: nobody is connected who was not, but for Accept *)

NobodyNew == \A r \in Requests : Connected(r)' => Connected(r)

ServerKept == ServerTyped' /\ Gauged' /\ NobodyNew

LEMMA NobodyNewMoved ==
    ASSUME ServerTyped, NEW r \in Requests, Pending(r), NEW point,
           stage' = [stage EXCEPT ![r] = point], UNCHANGED left
    PROVE  NobodyNew
BY DEF ServerTyped, NobodyNew, Connected, Pending

LEMMA ThrottleStep ==
    ASSUME ServerTyped, Gauged, NEW r \in Requests, Throttle(r)
    PROVE  ServerKept
<1>1. Pending(r) /\ ~On(r, "handler") /\ UNCHANGED <<left, inFlight>>
  BY DEF Throttle, Pending, Guards, On
<1>2. CASE stage' = [stage EXCEPT ![r] = "authenticate"] /\ UNCHANGED <<answer, logged>>
  <2>1. Moved(r, "authenticate")
    BY <1>1, <1>2 DEF Moved
  <2>2. ServerTyped'
    BY <2>1, MovedTyped DEF Stages, Guards
  <2> QED
    BY <1>1, <1>2, <2>2, GaugeOutside, NobodyNewMoved DEF ServerKept
<1>3. CASE Filtered(r, "throttled")
  <2>1. Replied(r)
    BY <1>1, <1>3, FilteredReplies DEF Errors
  <2> QED
    BY <1>1, <2>1, RepliedTyped, GaugeOutside, NobodyNewMoved DEF ServerKept, Replied
<1> QED
  BY <1>2, <1>3 DEF Throttle

LEMMA AuthenticateStep ==
    ASSUME ServerTyped, Gauged, NEW r \in Requests, Authenticate(r)
    PROVE  ServerKept
<1>1. Pending(r) /\ ~On(r, "handler") /\ UNCHANGED left
  BY DEF Authenticate, Pending, Guards, On
<1>2. CASE Handle(r)
  <2>1. Moved(r, "handler")
    BY <1>1, <1>2 DEF Moved, Handle
  <2>2. ServerTyped'
    BY <2>1, MovedTyped DEF Stages
  <2> QED
    BY <1>1, <1>2, <2>2, GaugeUp, NobodyNewMoved DEF ServerKept, Handle
<1>3. ASSUME NEW e \in {"authentication", "anything", "otherPrisma"}, Filtered(r, e),
             UNCHANGED inFlight
      PROVE  ServerKept
  <2>1. e \in Errors
    BY DEF Errors, DomainStatus, PrismaStatus
  <2>2. Replied(r)
    BY <1>1, <1>3, <2>1, FilteredReplies
  <2> QED
    BY <1>1, <1>3, <2>2, RepliedTyped, GaugeOutside, NobodyNewMoved DEF ServerKept, Replied
<1> QED
  BY <1>2, <1>3 DEF Authenticate

\* An answer to a request whose handler has been called.
LEMMA FinalizeStep ==
    ASSUME ServerTyped, Gauged, NEW r \in Requests, On(r, "handler"), Replied(r), Finalize(r)
    PROVE  ServerKept
<1>1. Pending(r) /\ stage' = [stage EXCEPT ![r] = "answered"] /\ UNCHANGED left
  BY DEF Pending, On, Replied
<1> QED
  BY <1>1, RepliedTyped, GaugeDown, NobodyNewMoved DEF ServerKept, Finalize

\* A step that leaves every request at its stage.
LEMMA StillStep ==
    ASSUME ServerTyped, Gauged, UNCHANGED <<stage, answer, inFlight>>, left \subseteq left'
    PROVE  ServerKept
<1>1. InHandler' = InHandler
  BY DEF InHandler, On
<1> QED
  BY <1>1, GaugeStays DEF ServerKept, ServerTyped, On, NobodyNew, Connected, Pending

LEMMA HttpKept ==
    ASSUME ServerTyped, Gauged, HttpStep
    PROVE  ServerKept
<1>1. ASSUME NEW r \in Requests, Serve(r) PROVE ServerKept
  <2>1. CASE TimeOut(r)
    <3>1. Replied(r)
      <4>1. "timedOut" \in Errors
        BY DEF Errors, HttpStatus
      <4> QED
        BY <2>1, <4>1, FilteredReplies DEF TimeOut
    <3> QED
      BY <2>1, <3>1, FinalizeStep DEF TimeOut
  <2> QED
    BY <1>1, <2>1, ThrottleStep, AuthenticateStep DEF Serve
<1>2. ASSUME NEW r \in Requests, Return(r) PROVE ServerKept
  BY <1>2, SuccessReplies, FinalizeStep DEF Return
<1>3. ASSUME NEW r \in Requests, SettleLate(r) PROVE ServerKept
  BY <1>3, StillStep DEF SettleLate
<1>4. ASSUME NEW r \in Requests, HangUp(r) PROVE ServerKept
  BY <1>4, StillStep DEF HangUp
<1>5. ASSUME NEW r \in Requests, Report(r) PROVE ServerKept
  <2>1. "serverError" \in Errors
    BY DEF Errors, HttpStatus
  <2> QED
    BY <1>5, <2>1, SuccessReplies, FilteredReplies, FinalizeStep DEF Report
<1>6. ASSUME NEW r \in Requests, NEW e \in HandlerErrors, Throw(r, e) PROVE ServerKept
  BY <1>6, ServerAssumption, FilteredReplies, FinalizeStep DEF Throw
<1>7. ASSUME NEW r \in Requests, NEW d \in Dependencies, Ping(r, d) PROVE ServerKept
  BY <1>7, StillStep DEF Ping
<1>8. ASSUME NEW d \in Dependencies, Flip(d) PROVE ServerKept
  BY <1>8, StillStep DEF Flip
<1> QED
  BY <1>1, <1>2, <1>3, <1>4, <1>5, <1>6, <1>7, <1>8 DEF HttpStep

\* A request comes while the server listens.
LEMMA AcceptStep ==
    ASSUME ServerTyped, Gauged, NEW r \in Requests, NEW handler \in Routes,
           Accept(r, handler)
    PROVE  ServerTyped' /\ Gauged'
<1>1. Moved(r, "throttle") /\ ~On(r, "handler") /\ UNCHANGED inFlight
  BY DEF Accept, Moved, On
<1> QED
  BY <1>1, MovedTyped, GaugeOutside DEF Stages, Guards, Moved

LEMMA ServerStep == ASSUME ProcessInv, ServerNext PROVE ProcessInv'
<1>1. exitCode' = exitCode /\ exitCode # 0 /\ UNCHANGED <<chain, clients, listening>>
  BY UnsetAssumption DEF ServerNext, Alive, shutdownVars
<1>2. CASE HttpStep
  <2>1. ServerKept
    BY <1>2, HttpKept DEF ProcessInv
  <2>2. Quiet => Quiet'
    BY <2>1 DEF ServerKept, NobodyNew, Quiet
  <2>3. DrainedInTurn'
    BY <1>1, <2>2 DEF ProcessInv, DrainedInTurn
  <2> QED
    BY <2>1, <2>3 DEF ProcessInv, ServerKept
<1>3. ASSUME listening, NEW r \in Requests, NEW handler \in Routes, Accept(r, handler)
      PROVE  ProcessInv'
  <2>1. ServerTyped' /\ Gauged'
    BY <1>3, AcceptStep DEF ProcessInv
  <2>2. clients # "closed" /\ \A c \in Chains : chain[c] \in {"off", "onModuleDestroy"}
    BY <1>3 DEF ProcessInv, DrainedInTurn
  <2>3. DrainedInTurn'
    BY <1>1, <2>2 DEF ProcessInv, DrainedInTurn
  <2> QED
    BY <2>1, <2>3 DEF ProcessInv
<1> QED
  BY <1>2, <1>3 DEF ServerNext

-----------------------------------------------------------------------------
(* The steps of the shutdown *)

LEMMA HttpUnchanged ==
    ASSUME ProcessInv, UNCHANGED httpVars
    PROVE  ServerTyped' /\ Gauged' /\ (Quiet' <=> Quiet)
<1>1. InHandler' = InHandler
  BY DEF InHandler, On, httpVars
<1> QED
  BY <1>1 DEF ProcessInv, ServerTyped, Gauged, Quiet, Connected, Pending, On, httpVars

\* shutdown starts its chain, or exits with 1.
LEMMA ShutdownStep ==
    ASSUME ProcessInv, UNCHANGED <<httpVars, listening, clients>>, Alive,
           NEW begun, \/ begun = chain
                      \/ begun = [chain EXCEPT !["cleanup"] = "onModuleDestroy"],
           Shutdown(begun)
    PROVE  ProcessInv'
<1>1. ServerTyped' /\ Gauged' /\ (Quiet' <=> Quiet)
  BY HttpUnchanged DEF httpVars
<1>2. exitCode' # 0
  BY UnsetAssumption DEF Shutdown, Exit, Alive
<1>3. /\ chain' \in [Chains -> ChainPoints]
      /\ \A c \in Chains : chain'[c] = chain[c] \/ chain'[c] = "onModuleDestroy"
  BY DEF ProcessInv, DrainedInTurn, Shutdown, ChainPoints, Chains
<1> QED
  BY <1>1, <1>2, <1>3 DEF ProcessInv, DrainedInTurn

LEMMA ChainStep ==
    ASSUME ProcessInv, ShutdownNext PROVE ProcessInv'
<1>1. UNCHANGED httpVars /\ ServerTyped' /\ Gauged' /\ (Quiet' <=> Quiet)
  BY HttpUnchanged DEF ShutdownNext
<1>2. CASE Signal
  BY <1>1, <1>2, ShutdownStep DEF Signal
<1>3. CASE Crash \/ Echo
  BY <1>1, <1>3, ShutdownStep DEF Crash, Echo
<1>4. CASE ForcedExit
  BY <1>1, <1>4 DEF ForcedExit, Exit, ProcessInv, DrainedInTurn
<1>5. CASE Closed
  <2>1. Quiet
    BY <1>5 DEF Closed, Chains, ProcessInv, DrainedInTurn
  <2> QED
    BY <1>1, <1>5, <2>1 DEF Closed, ProcessInv, DrainedInTurn
<1>6. CASE CleanedUp
  <2>1. Quiet /\ ~listening
    BY <1>6 DEF CleanedUp, Chains, ProcessInv, DrainedInTurn
  <2>2. chain' = [chain EXCEPT !["cleanup"] = "over"]
        /\ UNCHANGED <<listening, clients, exitCode>>
    BY <1>6 DEF CleanedUp
  <2> QED
    BY <1>1, <2>1, <2>2 DEF ProcessInv, DrainedInTurn, ChainPoints, Chains
<1>7. ASSUME NEW c \in Chains, Destroyed(c) PROVE ProcessInv'
  <2>1. /\ ~listening' /\ chain' = [chain EXCEPT ![c] = "draining"]
        /\ clients' = clients /\ exitCode' = exitCode
    BY <1>7 DEF Destroyed, RunHook, CacheHook
  <2> QED
    BY <1>1, <2>1 DEF ProcessInv, DrainedInTurn, ChainPoints
<1>8. ASSUME NEW c \in Chains, HookFails(c) PROVE ProcessInv'
  BY <1>1, <1>8 DEF HookFails, Exit, ProcessInv, DrainedInTurn
<1>9. ASSUME NEW c \in Chains, Drained(c) PROVE ProcessInv'
  <2>1. Quiet /\ ~listening
    BY <1>9 DEF Drained, Quiet, ProcessInv, DrainedInTurn
  <2>2. /\ chain' = [chain EXCEPT ![c] = "onApplicationShutdown"]
        /\ UNCHANGED <<listening, exitCode>>
    BY <1>9 DEF Drained
  <2> QED
    BY <1>1, <2>1, <2>2 DEF ProcessInv, DrainedInTurn, ChainPoints
<1> QED
  BY <1>2, <1>3, <1>4, <1>5, <1>6, <1>7, <1>8, <1>9 DEF ShutdownNext

-----------------------------------------------------------------------------
LEMMA ProcessInvInit == ProcessInit => ProcessInv
<1> SUFFICES ASSUME ProcessInit PROVE ProcessInv
  OBVIOUS
<1>1. \A r \in Requests : stage[r] = "none" /\ answer[r] = Unset
  BY DEF ProcessInit, HttpInit
<1>2. InHandler = {} /\ Quiet
  BY <1>1 DEF InHandler, On, Quiet, Connected, Pending, Guards
<1>3. ServerTyped
  BY <1>1 DEF ProcessInit, HttpInit, ServerTyped, Stages, On
<1>4. Gauged
  BY <1>2, FS_EmptySet DEF ProcessInit, HttpInit, Gauged
<1>5. DrainedInTurn
  BY <1>2 DEF ProcessInit, DrainedInTurn, ChainPoints
<1> QED
  BY <1>3, <1>4, <1>5 DEF ProcessInv

LEMMA ProcessInvStep == ProcessInv /\ [ShutdownNext \/ ServerNext]_processVars => ProcessInv'
<1> SUFFICES ASSUME ProcessInv, [ShutdownNext \/ ServerNext]_processVars PROVE ProcessInv'
  OBVIOUS
<1>1. CASE UNCHANGED processVars
  <2>1. ServerTyped' /\ Gauged' /\ (Quiet' <=> Quiet)
    BY <1>1, HttpUnchanged DEF processVars
  <2> QED
    BY <1>1, <2>1 DEF processVars, shutdownVars, ProcessInv, DrainedInTurn
<1> QED
  BY <1>1, ServerStep, ChainStep

LEMMA ProcessInvariant == ProcessSpec => []ProcessInv
BY ProcessInvInit, ProcessInvStep, PTL DEF ProcessSpec

-----------------------------------------------------------------------------
(* What a failure tells its client, and the log *)

\* An answer, with what was logged of it.
Told(r) ==
    /\ answer[r].status >= 500 => logged[r] = "error"
    /\ logged[r] = "error" /\ route[r] # "ready" => ~answer[r].own

FailuresTold ==
    /\ DOMAIN answer = Requests /\ DOMAIN stage = Requests
    /\ DOMAIN logged = Requests /\ DOMAIN route = Requests
    /\ \A r \in Requests : answer[r] # Unset => On(r, "answered") /\ Told(r)

\* A filter's verdict says no more than it should.
Hides(n, e) ==
    /\ n.status >= 500 => ~n.isExpected
    /\ ~n.isExpected /\ e # "serverError" => ~n.own

LEMMA VerdictHides ==
    ASSUME NEW status \in Nat, NEW own, NEW isExpected, NEW e,
           status >= 500 => ~isExpected, ~isExpected /\ e # "serverError" => ~own,
           NEW n, n = Normalized(status, own, isExpected)
    PROVE  Hides(n, e)
<1>1. n.status = status /\ n.own = own /\ n.isExpected = isExpected
  BY ZenonT(30) DEF Normalized
<1>2. n.status >= 500 => ~n.isExpected
  <2>1. n.status >= 500 => status >= 500
    BY <1>1
  <2> QED
    BY <1>1, <2>1, Zenon
<1>3. ~n.isExpected /\ e # "serverError" => ~n.own
  BY <1>1, Zenon
<1> QED
  BY <1>2, <1>3 DEF Hides

\* An error the filter does not expect has a status from 500 on, and keeps
\* its message, unless a HttpException says both.
LEMMA NormalizeHides ==
    ASSUME NEW e \in Errors
    PROVE  /\ Normalize(e).status >= 500 => LogLevel(e) = "error"
           /\ LogLevel(e) = "error" /\ e # "serverError" => ~Normalize(e).own
<1>1. CASE e \in DOMAIN DomainStatus
  <2>1. Normalize(e) = Normalized(DomainStatus[e], TRUE, TRUE)
    BY <1>1, ErrorsApart DEF Normalize
  <2>2. DomainStatus[e] \in Nat /\ ~(DomainStatus[e] >= 500)
    BY <1>1 DEF DomainStatus
  <2>3. Hides(Normalize(e), e)
    BY <2>1, <2>2, VerdictHides, ZenonT(30)
  <2> QED
    BY <2>3 DEF LogLevel, Hides
<1>2. CASE e \in DOMAIN HttpStatus
  <2>1. e \notin DOMAIN DomainStatus /\ e # "throttled"
    BY <1>2, ErrorsApart
  <2> DEFINE own == e # "violations"
             expected == HttpStatus[e] < 500
  <2>2. Normalize(e) = Normalized(HttpStatus[e], own, expected)
    BY <1>2, <2>1, ErrorsApart, ZenonT(60) DEF Normalize
  <2>3. HttpStatus[e] \in Nat /\ (e # "serverError" => expected)
        /\ (HttpStatus[e] >= 500 => ~expected)
    BY <1>2 DEF HttpStatus
  <2> HIDE DEF own, expected
  <2>4. Hides(Normalize(e), e)
    BY <2>2, <2>3, VerdictHides
  <2> QED
    BY <2>4 DEF LogLevel, Hides
<1>3. CASE e \in DOMAIN PrismaStatus
  <2>1. Normalize(e) = Normalized(PrismaStatus[e], FALSE, FALSE)
    BY <1>3, ErrorsApart DEF Normalize
  <2>2. PrismaStatus[e] \in Nat
    BY <1>3 DEF PrismaStatus
  <2>3. Hides(Normalize(e), e)
    BY <2>1, <2>2, VerdictHides
  <2> QED
    BY <2>3 DEF LogLevel, Hides
<1>4. CASE e = "throttled"
  <2>1. Normalize(e) = Normalized(429, FALSE, TRUE)
    BY <1>4 DEF Normalize, DomainStatus, HttpStatus, PrismaStatus
  <2>2. 429 \in Nat /\ ~(429 >= 500)
    OBVIOUS
  <2>3. Hides(Normalize(e), e)
    BY <2>1, <2>2, VerdictHides, ZenonT(30)
  <2> QED
    BY <2>3 DEF LogLevel, Hides
<1>5. CASE e = "zod"
  <2>1. Normalize(e) = Normalized(422, FALSE, TRUE)
    BY <1>5 DEF Normalize, DomainStatus, HttpStatus, PrismaStatus
  <2>2. 422 \in Nat /\ ~(422 >= 500)
    OBVIOUS
  <2>3. Hides(Normalize(e), e)
    BY <2>1, <2>2, VerdictHides, ZenonT(30)
  <2> QED
    BY <2>3 DEF LogLevel, Hides
<1>6. CASE e = "infrastructure"
  <2>1. Normalize(e) = Normalized(503, FALSE, FALSE)
    BY <1>6 DEF Normalize, DomainStatus, HttpStatus, PrismaStatus
  <2>2. 503 \in Nat
    OBVIOUS
  <2>3. Hides(Normalize(e), e)
    BY <2>1, <2>2, VerdictHides, ZenonT(30)
  <2> QED
    BY <2>3 DEF LogLevel, Hides
<1>7. CASE e = "anything"
  <2>1. Normalize(e) = Normalized(500, FALSE, FALSE)
    BY <1>7 DEF Normalize, DomainStatus, HttpStatus, PrismaStatus
  <2>2. 500 \in Nat
    OBVIOUS
  <2>3. Hides(Normalize(e), e)
    BY <2>1, <2>2, VerdictHides, ZenonT(30)
  <2> QED
    BY <2>3 DEF LogLevel, Hides
<1> QED
  BY <1>1, <1>2, <1>3, <1>4, <1>5, <1>6, <1>7 DEF Errors

\* A step that answers nobody and brings nobody in.
LEMMA NobodyTold ==
    ASSUME FailuresTold, UNCHANGED <<answer, route, logged>>, NEW r \in Requests, NEW point,
           stage' = [stage EXCEPT ![r] = point], ~On(r, "answered")
    PROVE  FailuresTold'
BY DEF FailuresTold, Told, On

LEMMA FilteredTold ==
    ASSUME FailuresTold, NEW r \in Requests, NEW e \in Errors, Filtered(r, e), UNCHANGED route,
           e = "serverError" => route[r] = "ready"
    PROVE  FailuresTold'
<1> DEFINE n == Normalize(e)
           level == LogLevel(e)
<1>1. /\ n.status >= 500 => level = "error"
      /\ level = "error" /\ e # "serverError" => ~n.own
  BY NormalizeHides
<1>2. /\ logged' = [logged EXCEPT ![r] = level]
      /\ answer' = [answer EXCEPT ![r] = [status |-> n.status, own |-> n.own]]
      /\ stage' = [stage EXCEPT ![r] = "answered"]
  BY DEF Filtered, Answered
<1> HIDE DEF n, level
<1>3. Told(r)'
  BY <1>1, <1>2 DEF Told, FailuresTold
<1> QED
  BY <1>2, <1>3 DEF FailuresTold, Told, On

LEMMA SuccessTold ==
    ASSUME FailuresTold, NEW r \in Requests, Answered(r, Success(r), FALSE),
           UNCHANGED <<route, logged>>
    PROVE  FailuresTold'
<1>1. Success(r) \in Nat /\ Success(r) < 500
  BY DEF Success
<1>2. Told(r)'
  BY <1>1 DEF Told, FailuresTold, Answered
<1> QED
  BY <1>2 DEF FailuresTold, Told, On, Answered

LEMMA HttpTold == ASSUME FailuresTold, HttpStep PROVE FailuresTold'
<1>1. ASSUME NEW r \in Requests, Throttle(r) PROVE FailuresTold'
  <2>1. "throttled" \in Errors
    BY DEF Errors
  <2> QED
    BY <1>1, <2>1, NobodyTold, FilteredTold DEF Throttle, On
<1>2. ASSUME NEW r \in Requests, Authenticate(r) PROVE FailuresTold'
  <2>1. \A e \in {"authentication", "anything", "otherPrisma"} : e \in Errors /\ e # "serverError"
    BY DEF Errors, DomainStatus, PrismaStatus
  <2>2. CASE Handle(r)
    BY <1>2, <2>2, NobodyTold DEF Authenticate, Handle, On
  <2>3. ASSUME NEW e \in {"authentication", "anything", "otherPrisma"}, Filtered(r, e)
        PROVE  FailuresTold'
    BY <1>2, <2>1, <2>3, FilteredTold DEF Authenticate
  <2> QED
    BY <1>2, <2>2, <2>3 DEF Authenticate
<1>3. ASSUME NEW r \in Requests, TimeOut(r) PROVE FailuresTold'
  <2>1. "timedOut" \in Errors
    BY DEF Errors, HttpStatus
  <2> QED
    BY <1>3, <2>1, FilteredTold DEF TimeOut
<1>4. ASSUME NEW r \in Requests, Return(r) PROVE FailuresTold'
  BY <1>4, SuccessTold DEF Return
<1>5. ASSUME NEW r \in Requests, NEW e \in HandlerErrors, Throw(r, e) PROVE FailuresTold'
  BY <1>5, ServerAssumption, FilteredTold DEF Throw
<1>6. ASSUME NEW r \in Requests, Report(r) PROVE FailuresTold'
  <2>1. "serverError" \in Errors
    BY DEF Errors, HttpStatus
  <2> QED
    BY <1>6, <2>1, SuccessTold, FilteredTold DEF Report
<1>7. ASSUME UNCHANGED <<answer, stage, route, logged>> PROVE FailuresTold'
  BY <1>7 DEF FailuresTold, Told, On
<1>8. ASSUME NEW r \in Requests, SettleLate(r) \/ HangUp(r) \/ \E d \in Dependencies : Ping(r, d)
      PROVE  FailuresTold'
  BY <1>7, <1>8 DEF SettleLate, HangUp, Ping
<1>9. ASSUME NEW d \in Dependencies, Flip(d) PROVE FailuresTold'
  BY <1>7, <1>9 DEF Flip
<1> QED
  BY <1>1, <1>2, <1>3, <1>4, <1>5, <1>6, <1>8, <1>9 DEF HttpStep, Serve

LEMMA ToldStep == FailuresTold /\ [ShutdownNext \/ ServerNext]_processVars => FailuresTold'
<1> SUFFICES ASSUME FailuresTold, [ShutdownNext \/ ServerNext]_processVars PROVE FailuresTold'
  OBVIOUS
<1>1. ASSUME UNCHANGED httpVars PROVE FailuresTold'
  BY <1>1 DEF FailuresTold, Told, On, httpVars
<1>2. ASSUME NEW r \in Requests, NEW handler \in Routes, Accept(r, handler) PROVE FailuresTold'
  <2>1. answer[r] = Unset /\ answer' = answer
    BY <1>2 DEF Accept, FailuresTold, On
  <2> QED
    BY <1>2, <2>1 DEF Accept, FailuresTold, Told, On
<1> QED
  BY <1>1, <1>2, HttpTold DEF ShutdownNext, ServerNext, processVars

-----------------------------------------------------------------------------
\* installGracefulShutdown: exit code 0 is given when everyone who is still
\* connected has been answered, whichever chains and signals race for it.
THEOREM CleanExits == ProcessSpec => []CleanExitAnswers
<1>1. ProcessInv => CleanExitAnswers
  <2> SUFFICES ASSUME ProcessInv, exitCode = 0, NEW r \in Requests, Accepted(r), r \notin left
               PROVE  answer[r] # Unset
    BY DEF CleanExitAnswers
  <2>1. ~Pending(r)
    BY DEF ProcessInv, DrainedInTurn, Quiet, Connected
  <2>2. On(r, "answered")
    BY <2>1 DEF ProcessInv, ServerTyped, Stages, Pending, On, Accepted
  <2> QED
    BY <2>2 DEF ProcessInv, ServerTyped
<1> QED
  BY <1>1, ProcessInvariant, PTL

-----------------------------------------------------------------------------
(* The process as ServerLife *)

\* Only who came leaves.
LeftCame == \A r \in Requests : r \in left => ~On(r, "none")

LifeInv == ProcessInv /\ LeftCame

\* What a step of the server is to its clients: one of them goes, or nothing.
OneGoes ==
    \/ \E r \in Requests :
         /\ ClientOf(r) = "waiting" /\ ClientOf(r)' = "gone"
         /\ \A q \in Requests : q # r => ClientOf(q)' = ClientOf(q)
    \/ \A q \in Requests : ClientOf(q)' = ClientOf(q)

LEMMA StaysWaiting ==
    ASSUME UNCHANGED <<stage, left>>
    PROVE  \A q \in Requests : ClientOf(q)' = ClientOf(q)
  BY DEF ClientOf, Accepted, Connected, Pending, On

\* A request that is somewhere in the server goes elsewhere in it.
LEMMA MovesOn ==
    ASSUME ServerTyped, LeftCame, NEW r \in Requests, Pending(r),
           NEW point \in Stages \ {"none"}, stage' = [stage EXCEPT ![r] = point],
           UNCHANGED left
    PROVE  OneGoes /\ LeftCame'
<1>1. \A q \in Requests : q # r => stage'[q] = stage[q]
  BY DEF ServerTyped
<1>2. stage'[r] = point /\ stage[r] # "none"
  BY DEF ServerTyped, Pending, Guards
<1>3. \A q \in Requests : q # r => ClientOf(q)' = ClientOf(q)
  BY <1>1 DEF ClientOf, Accepted, Connected, Pending, On
<1>4. ClientOf(r)' = ClientOf(r) \/ (ClientOf(r) = "waiting" /\ ClientOf(r)' = "gone")
  <2>1. Connected(r)' => Connected(r)
    BY DEF Connected
  <2>2. Accepted(r) /\ Accepted(r)'
    BY <1>2 DEF Accepted, On
  <2>3. ClientOf(r) = IF Connected(r) THEN "waiting" ELSE "gone"
    BY <2>2 DEF ClientOf
  <2>4. ClientOf(r)' = IF Connected(r)' THEN "waiting" ELSE "gone"
    BY <2>2 DEF ClientOf
  <2> QED
    BY <2>1, <2>3, <2>4 DEF Connected
<1>5. LeftCame'
  BY <1>1, <1>2 DEF LeftCame, On
<1> QED
  BY <1>3, <1>4, <1>5 DEF OneGoes

LEMMA HttpGoes ==
    ASSUME ServerTyped, LeftCame, HttpStep PROVE OneGoes /\ LeftCame'
<1>1. ASSUME NEW r \in Requests, Pending(r), UNCHANGED left,
             NEW point \in Stages \ {"none"}, stage' = [stage EXCEPT ![r] = point]
      PROVE  OneGoes /\ LeftCame'
  BY <1>1, MovesOn
<1>2. /\ "authenticate" \in Stages \ {"none"} /\ "handler" \in Stages \ {"none"}
      /\ "answered" \in Stages \ {"none"}
  BY DEF Stages, Guards
<1>3. ASSUME NEW r \in Requests, Throttle(r) PROVE OneGoes /\ LeftCame'
  BY <1>1, <1>2, <1>3 DEF Throttle, Filtered, Answered, Pending, On, Guards
<1>4. ASSUME NEW r \in Requests, Authenticate(r) PROVE OneGoes /\ LeftCame'
  BY <1>1, <1>2, <1>4 DEF Authenticate, Handle, Filtered, Answered, Pending, On, Guards
<1>5. ASSUME NEW r \in Requests,
             \/ TimeOut(r) \/ Return(r) \/ Report(r)
             \/ \E e \in HandlerErrors : Throw(r, e)
      PROVE  OneGoes /\ LeftCame'
  BY <1>1, <1>2, <1>5 DEF TimeOut, Return, Report, Throw, Filtered, Answered, Pending, On
<1>6. CASE UNCHANGED <<stage, left>>
  BY <1>6, StaysWaiting DEF OneGoes, LeftCame, On
<1>7. ASSUME NEW r \in Requests, HangUp(r) PROVE OneGoes /\ LeftCame'
  <2>1. Connected(r) /\ left' = left \cup {r} /\ stage' = stage
    BY <1>7 DEF HangUp
  <2>2. ClientOf(r) = "waiting" /\ ClientOf(r)' = "gone" /\ ~On(r, "none")
    BY <2>1 DEF ClientOf, Accepted, Connected, Pending, On, Guards
  <2>3. \A q \in Requests : q # r => ClientOf(q)' = ClientOf(q)
    BY <2>1 DEF ClientOf, Accepted, Connected, Pending, On
  <2> QED
    BY <2>1, <2>2, <2>3 DEF OneGoes, LeftCame, On
<1>8. ASSUME NEW r \in Requests,
             SettleLate(r) \/ \E d \in Dependencies : Ping(r, d)
      PROVE  UNCHANGED <<stage, left>>
  BY <1>8 DEF SettleLate, Ping
<1>9. ASSUME NEW d \in Dependencies, Flip(d) PROVE UNCHANGED <<stage, left>>
  BY <1>9 DEF Flip
<1> QED
  BY <1>3, <1>4, <1>5, <1>6, <1>7, <1>8, <1>9 DEF HttpStep, Serve

LEMMA AcceptCame ==
    ASSUME ServerTyped, LeftCame, NEW r \in Requests, NEW handler, Accept(r, handler)
    PROVE  /\ ClientOf(r) = "away" /\ ClientOf(r)' = "waiting"
           /\ \A q \in Requests : q # r => ClientOf(q)' = ClientOf(q)
           /\ LeftCame'
<1>1. /\ stage[r] = "none" /\ stage'[r] = "throttle" /\ left' = left
      /\ \A q \in Requests : q # r => stage'[q] = stage[q]
  BY DEF Accept, On, ServerTyped
<1>2. r \notin left
  BY <1>1 DEF LeftCame, On
<1> QED
  BY <1>1, <1>2 DEF ClientOf, Accepted, Connected, Pending, On, Guards, LeftCame

\* The steps of the shutdown, seen from the port.
LEMMA PortMoves ==
    ASSUME ProcessInv, ShutdownNext
    PROVE  \/ PortOf' = PortOf
           \/ PortOf = "open" /\ PortOf' = "closed"
           \/ PortOf = "closed" /\ PortOf' = "clean" /\ Quiet
           \/ PortOf \in {"open", "closed"} /\ PortOf' = "failed"
<1>1. Alive /\ 0 # Unset /\ 1 # Unset
  BY UnsetAssumption DEF ShutdownNext, Signal, Crash, ForcedExit, Closed, CleanedUp, Echo,
     Destroyed, HookFails, Drained
<1>2. PortOf = IF listening THEN "open" ELSE "closed"
  BY <1>1 DEF PortOf, Alive
<1>3. CASE exitCode' = exitCode /\ (listening' = listening \/ listening' = FALSE)
  BY <1>1, <1>3 DEF PortOf, Alive
<1>4. CASE exitCode' = 1
  BY <1>1, <1>2, <1>4 DEF PortOf, Alive
<1>5. CASE Closed
  <2>1. ~listening /\ Quiet
    BY <1>5 DEF Closed, Chains, ProcessInv, DrainedInTurn
  <2> QED
    BY <1>2, <1>5, <2>1 DEF Closed, Exit, PortOf
<1>6. ASSUME NEW begun, Shutdown(begun), UNCHANGED listening
      PROVE  exitCode' = 1 \/ (exitCode' = exitCode /\ listening' = listening)
  BY <1>6 DEF Shutdown, Exit
<1> QED
  BY <1>3, <1>4, <1>5, <1>6
     DEF ShutdownNext, Signal, Crash, ForcedExit, CleanedUp, Echo, Destroyed, HookFails, Drained,
         Exit

\* Guards, handlers, timeouts, hooks, the timer, signals and crashes together
\* are a server that takes clients in until its port closes, and stops with
\* success only when they have gone.
THEOREM ServesAsPromised == ProcessSpec => ImplementsServerLife
<1> DEFINE clients_ == [r \in Requests |-> ClientOf(r)]
<1>1. ProcessInit => Life!Init /\ LeftCame
  BY UnsetAssumption
     DEF ProcessInit, HttpInit, Life!Init, LeftCame, On, PortOf, Alive, ClientOf, Accepted
<1>2. LifeInv /\ [ShutdownNext \/ ServerNext]_processVars
        => [Life!Next]_<<PortOf, clients_>> /\ LeftCame'
  <2> SUFFICES ASSUME LifeInv, [ShutdownNext \/ ServerNext]_processVars
               PROVE  [Life!Next]_<<PortOf, clients_>> /\ LeftCame'
    OBVIOUS
  <2>1. ASSUME UNCHANGED httpVars
        PROVE  LeftCame' /\ clients_' = clients_
    BY <2>1, StaysWaiting DEF httpVars, LifeInv, LeftCame, On
  <2>2. CASE ShutdownNext
    <3>1. LeftCame' /\ clients_' = clients_
      BY <2>1, <2>2 DEF ShutdownNext
    <3>2. Quiet => \A r \in Requests : clients_[r] # "waiting"
      BY DEF Quiet, ClientOf
    <3> QED
      BY <2>2, <3>1, <3>2, PortMoves DEF LifeInv, Life!Next, Life!Close, Life!StopClean, Life!Fail
  <2>3. CASE ServerNext
    <3>1. PortOf' = PortOf /\ PortOf \in {"open", "closed"} /\ (listening => PortOf = "open")
      BY <2>3, UnsetAssumption DEF ServerNext, shutdownVars, PortOf, Alive
    <3>2. CASE HttpStep
      <4>1. OneGoes /\ LeftCame'
        BY <3>2, HttpGoes DEF LifeInv, ProcessInv
      <4> QED
        BY <3>1, <4>1 DEF OneGoes, Life!Next, Life!Go
    <3>3. ASSUME listening, NEW r \in Requests, NEW handler, Accept(r, handler)
          PROVE  [Life!Next]_<<PortOf, clients_>> /\ LeftCame'
      <4>1. /\ ClientOf(r) = "away" /\ ClientOf(r)' = "waiting" /\ LeftCame'
            /\ \A q \in Requests : q # r => ClientOf(q)' = ClientOf(q)
        BY <3>3, AcceptCame DEF LifeInv, ProcessInv
      <4> QED
        BY <3>1, <3>3, <4>1 DEF Life!Next, Life!Come
    <3> QED
      BY <2>3, <3>2, <3>3 DEF ServerNext
  <2>4. CASE UNCHANGED processVars
    BY <2>1, <2>4 DEF processVars, shutdownVars, PortOf, Alive
  <2> QED
    BY <2>2, <2>3, <2>4
<1>3. ProcessSpec => []LifeInv
  <2>1. LifeInv /\ [ShutdownNext \/ ServerNext]_processVars => LeftCame'
    BY <1>2
  <2>2. ProcessInit => LeftCame
    BY <1>1
  <2> QED
    BY <2>1, <2>2, ProcessInvariant, PTL DEF ProcessSpec, LifeInv
<1> QED
  BY <1>1, <1>2, <1>3, PTL DEF ProcessSpec, Life!Spec, ImplementsServerLife

\* CacheModule.onApplicationShutdown: the connections to Redis are closed
\* after the last request that may use them.
THEOREM RedisOutlives == ProcessSpec => []RedisOutlivesRequests
<1>1. ProcessInv => RedisOutlivesRequests
  BY DEF ProcessInv, DrainedInTurn, Quiet, RedisOutlivesRequests
<1> QED
  BY <1>1, ProcessInvariant, PTL

\* MetricsInterceptor: http_requests_in_flight is the number of requests whose
\* handler has been called and whose client waits.
THEOREM GaugeCounts == ProcessSpec => []GaugeCountsInFlight
<1>1. ProcessInv => GaugeCountsInFlight
  BY DEF ProcessInv, Gauged, InHandler, GaugeCountsInFlight
<1> QED
  BY <1>1, ProcessInvariant, PTL

\* GlobalExceptionFilter: a failure nobody foresaw is logged as an error and
\* keeps its message, wherever it was thrown.
THEOREM FailuresKeepQuiet == ProcessSpec => []FailuresAreOpaqueAndLogged
<1>1. ProcessInit => FailuresTold
  BY DEF ProcessInit, HttpInit, FailuresTold
<1>2. FailuresTold => FailuresAreOpaqueAndLogged
  BY DEF FailuresTold, Told, FailuresAreOpaqueAndLogged
<1> QED
  BY <1>1, <1>2, ToldStep, PTL DEF ProcessSpec

-----------------------------------------------------------------------------
(* The gateway: tokens and sockets *)

Places == Handshakes \cup {"absent", "refused", "open", "gone"}

OpenAt(r) == {s \in Sockets : ReplicaOf[s] = r /\ SocketAt(s, "open")}

\* The account is as it was when its current token version was signed.
InService(user) == ~user.deleted /\ user.status = "ACTIVE"

SignedSound(t) ==
    LET user == account[signed[t].user] IN
    /\ signed[t].user \in Users /\ signed[t].exp \in Nat /\ signed[t].tv \in Nat
    /\ signed[t].tv <= user.tokenVersion
    /\ signed[t].tv = user.tokenVersion => InService(user)

\* A token that is not rejected is of the current version, and a denylist key
\* lives as long as its token.
TokensSound ==
    /\ clock \in Nat
    /\ account \in [Users -> UserRow]
    /\ DOMAIN signed \subseteq Tokens
    /\ \A t \in DOMAIN signed : SignedSound(t)
    /\ \A t \in Tokens : \/ denied[t] = Never
                         \/ t \in DOMAIN signed /\ denied[t] = signed[t].exp

Expired(t) == clock >= signed[t].exp

\* What is left of a handshake that began with a dead token.
Caught(s) ==
    /\ SocketAt(s, "denylist") => Rejected(held[s]) \/ denied[held[s]] = signed[held[s]].exp
    /\ SocketAt(s, "snapshot") => Rejected(held[s]) \/ Expired(held[s])
    /\ at[s] \in {"admitted", "open"} => Expired(held[s])

OwnRoom(s, room) ==
    /\ held[s] \in DOMAIN signed
    /\ \/ room = <<"user", signed[held[s]].user>>
       \/ room[1] = "tenant" /\ principal[s].admin

SocketSound(s) ==
    /\ at[s] \notin {"absent", "refused"} => held[s] \in DOMAIN signed
    /\ dead[s] => Caught(s)
    /\ at[s] \in {"admitted", "open"} => principal[s].user = signed[held[s]].user
    /\ at[s] \notin {"open", "gone"} => received[s] = {}
    /\ at[s] # "open" => rooms[s] = {}
    /\ \A room \in rooms[s] : OwnRoom(s, room)
    /\ \A e \in received[s] : OwnRoom(s, e.room)

SocketDomains ==
    /\ at \in [Sockets -> Places]
    /\ DOMAIN held = Sockets /\ DOMAIN principal = Sockets /\ DOMAIN rooms = Sockets
    /\ DOMAIN received = Sockets /\ DOMAIN dead = Sockets /\ DOMAIN gauge = Replicas
    /\ DOMAIN denied = Tokens

SocketsSound == SocketDomains /\ \A s \in Sockets : SocketSound(s)

SocketsCounted ==
    \A r \in Replicas : IsFiniteSet(OpenAt(r)) /\ gauge[r] = Cardinality(OpenAt(r))

GatewayInv == TokensSound /\ SocketsSound /\ SocketsCounted

-----------------------------------------------------------------------------
(* Accounts, tokens and time *)

\* An edit that leaves the token version leaves the account in service.
EditStep(user, new) ==
    /\ new.tokenVersion >= user.tokenVersion
    /\ new.tokenVersion = user.tokenVersion /\ InService(user) => InService(new)

LEMMA EditsBump ==
    ASSUME NEW user \in UserRow, NEW edit \in Edits
    PROVE  EditStep(user, ApplyEdit(user, edit))
<1>1. user.tokenVersion \in Nat /\ user.tokenVersion + 1 \in Nat
      /\ user.tokenVersion + 1 > user.tokenVersion
  BY DEF UserRow
<1>2. EditStep(user, Activate(user))
  BY <1>1 DEF EditStep, Activate, InService, UserRow
<1>3. EditStep(user, Suspend(user))
  BY <1>1 DEF EditStep, Suspend, RevokeIssuedTokens, UserRow
<1>4. \A b \in BOOLEAN : EditStep(user, SetPlatformAdmin(user, b))
  BY <1>1 DEF EditStep, SetPlatformAdmin, RevokeIssuedTokens, UserRow
<1>5. EditStep(user, SoftDelete(user))
  BY <1>1 DEF EditStep, SoftDelete, RevokeIssuedTokens, UserRow
<1>6. EditStep(user, ChangeEmail(user))
  BY <1>1 DEF EditStep, ChangeEmail, RevokeIssuedTokens, UserRow
<1> QED
  BY <1>2, <1>3, <1>4, <1>5, <1>6 DEF ApplyEdit, Edits

LEMMA EditsTyped ==
    ASSUME NEW user \in UserRow, NEW edit \in Edits
    PROVE  ApplyEdit(user, edit) \in UserRow
<1>1. \A u \in UserRow : RevokeIssuedTokens(u) \in UserRow
  BY DEF RevokeIssuedTokens, UserRow
<1>2. Activate(user) \in UserRow
  BY DEF Activate, UserRow, Statuses
<1>3. Suspend(user) \in UserRow
  BY <1>1 DEF Suspend, UserRow, Statuses
<1>4. \A b \in BOOLEAN : SetPlatformAdmin(user, b) \in UserRow
  BY <1>1 DEF SetPlatformAdmin, UserRow
<1>5. SoftDelete(user) \in UserRow
  <2>1. [user EXCEPT !.deleted = TRUE, !.status = "SUSPENDED", !.password = Null] \in UserRow
    BY DEF UserRow, Statuses
  <2> QED
    BY <1>1, <2>1 DEF SoftDelete
<1>6. ChangeEmail(user) \in UserRow
  BY <1>1 DEF ChangeEmail
<1> QED
  BY <1>2, <1>3, <1>4, <1>5, <1>6 DEF ApplyEdit, Edits

\* What every step may do to the tokens: what was signed stays, and what was
\* rejected, revoked or expired stays so.
Onward ==
    /\ DOMAIN signed \subseteq DOMAIN signed'
    /\ \A t \in DOMAIN signed :
        /\ signed'[t] = signed[t]
        /\ Rejected(t) => Rejected(t)'
        /\ denied[t] = signed[t].exp => denied'[t] = signed[t].exp
    /\ clock' \in Nat /\ clock' >= clock

LEMMA SignKeeps ==
    ASSUME TokensSound, NEW t \in Tokens, NEW u \in Users, Sign(t, u)
    PROVE  TokensSound' /\ Onward
<1> DEFINE token == [user |-> u, tv |-> account[u].tokenVersion, exp |-> clock + AccessTtl]
<1>1. /\ DOMAIN signed' = DOMAIN signed \cup {t} /\ t \notin DOMAIN signed
      /\ signed'[t] = token
      /\ \A k \in DOMAIN signed : signed'[k] = signed[k]
      /\ UNCHANGED <<account, denied, clock>>
  BY DEF Sign, redisVars
<1>2. SignedSound(t)'
  <2>1. account[u] \in UserRow /\ CanAuthenticate(account[u])
    BY DEF TokensSound, Sign
  <2>2. InService(account[u]) /\ account[u].tokenVersion \in Nat
    BY <2>1 DEF CanAuthenticate, InService, UserRow, Statuses
  <2>3. clock + AccessTtl \in Nat
    BY GatewayAssumption DEF TokensSound
  <2>4. signed'[t].user = u /\ signed'[t].tv = account[u].tokenVersion
        /\ signed'[t].exp = clock + AccessTtl
    BY <1>1
  <2> QED
    BY <1>1, <2>2, <2>3, <2>4 DEF SignedSound
<1>3. \A k \in DOMAIN signed : SignedSound(k)'
  BY <1>1 DEF TokensSound, SignedSound
<1>4. Onward
  BY <1>1 DEF Onward, Rejected, TokensSound
<1> QED
  BY <1>1, <1>2, <1>3, <1>4 DEF TokensSound

LEMMA DenyKeeps ==
    ASSUME TokensSound, DOMAIN denied = Tokens, NEW t \in Tokens, Deny(t)
    PROVE  TokensSound' /\ Onward
<1>1. t \in DOMAIN signed /\ UNCHANGED <<account, signed, clock>>
      /\ denied' = [denied EXCEPT ![t] = signed[t].exp]
  BY DEF Deny, Verified, redisVars
<1>2. \A k \in Tokens : denied'[k] = IF k = t THEN signed[t].exp ELSE denied[k]
  BY <1>1
<1> QED
  BY <1>1, <1>2 DEF TokensSound, SignedSound, Onward, Rejected

LEMMA EditKeeps ==
    ASSUME TokensSound, NEW u \in Users, NEW edit \in AccountEdits, EditAccount(u, edit)
    PROVE  TokensSound' /\ Onward
<1> DEFINE new == ApplyEdit(account[u], edit)
<1>1. EditStep(account[u], new) /\ new \in UserRow
  BY EditsBump, EditsTyped, GatewayAssumption DEF TokensSound
<1> HIDE DEF new
<1>2. account' = [account EXCEPT ![u] = new] /\ UNCHANGED <<signed, denied, clock>>
  BY DEF EditAccount, redisVars, new
<1>3. account' \in [Users -> UserRow]
      /\ \A v \in Users : account'[v] = IF v = u THEN new ELSE account[v]
  BY <1>1, <1>2 DEF TokensSound, EditStep
<1>4. \A v \in Users : account[v].tokenVersion \in Nat /\ account'[v].tokenVersion \in Nat
  BY <1>3 DEF TokensSound, UserRow
<1>5. \A v \in Users : EditStep(account[v], account'[v])
  <2>1. \A v \in Users : EditStep(account[v], account[v])
    BY <1>4 DEF EditStep, TokensSound
  <2> QED
    BY <1>1, <1>3, <2>1
<1>6. ASSUME NEW t \in DOMAIN signed
      PROVE  SignedSound(t)' /\ (Rejected(t) => Rejected(t)')
  <2>1. signed[t].user \in Users /\ SignedSound(t)
    BY DEF TokensSound, SignedSound
  <2> QED
    BY <1>2, <1>4, <1>5, <2>1 DEF SignedSound, Rejected, EditStep, InService
<1> QED
  BY <1>2, <1>3, <1>6 DEF TokensSound, Onward

LEMMA TimeKeeps ==
    ASSUME TokensSound, Tick \/ RedisFlip \/ UNCHANGED redisVars, UNCHANGED accountVars
    PROVE  TokensSound' /\ Onward
<1>1. clock' \in Nat /\ clock' >= clock
  BY DEF TokensSound, Tick, RedisFlip, redisVars
<1> QED
  BY <1>1 DEF TokensSound, SignedSound, Onward, Rejected, accountVars

-----------------------------------------------------------------------------
(* Sockets *)

\* A step that leaves a socket alone.
LEMMA SocketStays ==
    ASSUME TokensSound, Onward, NEW s \in Sockets, SocketSound(s),
           at'[s] = at[s], held'[s] = held[s], dead'[s] = dead[s],
           principal'[s] = principal[s], rooms'[s] = rooms[s], received'[s] = received[s]
    PROVE  SocketSound(s)'
<1>1. CASE held[s] \in DOMAIN signed
  <2>1. /\ signed'[held[s]] = signed[held[s]] /\ held[s] \in DOMAIN signed'
        /\ Rejected(held[s]) => Rejected(held[s])'
        /\ denied[held[s]] = signed[held[s]].exp => denied'[held[s]] = signed[held[s]].exp
    BY <1>1 DEF Onward
  <2>2. Expired(held[s]) => Expired(held[s])'
    <3>1. clock \in Nat /\ clock' \in Nat /\ clock' >= clock /\ signed[held[s]].exp \in Nat
      BY <1>1 DEF TokensSound, SignedSound, Onward
    <3> QED
      BY <2>1, <3>1 DEF Expired
  <2>3. Caught(s) => Caught(s)'
    BY <2>1, <2>2 DEF Caught, SocketAt, Rejected, Expired
  <2> QED
    BY <2>1, <2>3, <1>1 DEF SocketSound, OwnRoom
<1>2. CASE held[s] \notin DOMAIN signed
  BY <1>2 DEF SocketSound, OwnRoom, Caught, SocketAt
<1> QED
  BY <1>1, <1>2

\* A step of one socket, in which nothing it is judged by changes.
Alone(s) ==
    /\ \A q \in Sockets : q # s =>
        /\ at'[q] = at[q] /\ held'[q] = held[q] /\ dead'[q] = dead[q]
        /\ principal'[q] = principal[q] /\ rooms'[q] = rooms[q]
    /\ UNCHANGED <<accountVars, eventVars, redisVars>>

LEMMA AloneKeeps ==
    ASSUME TokensSound, SocketsSound, SocketDomains', NEW s \in Sockets, Alone(s),
           SocketSound(s)'
    PROVE  TokensSound' /\ SocketsSound'
<1>1. TokensSound' /\ Onward
  BY TimeKeeps DEF Alone
<1>2. \A q \in Sockets : q # s => SocketSound(q)'
  BY <1>1, SocketStays DEF Alone, SocketsSound, eventVars, accountVars
<1> QED
  BY <1>1, <1>2 DEF SocketsSound

LEMMA KnockKeeps ==
    ASSUME TokensSound, SocketsSound, NEW s \in Sockets, NEW t \in Tokens \cup {Null}, Knock(s, t)
    PROVE  TokensSound' /\ SocketsSound'
<1>1. SocketDomains' /\ Alone(s)
  BY DEF Knock, SocketsSound, SocketDomains, Alone, Move, Places, Handshakes, eventVars, accountVars
<1>2. /\ at[s] = "absent" /\ at'[s] = IF Verified(t) THEN "denylist" ELSE "refused"
      /\ held'[s] = t /\ dead'[s] = (Verified(t) => Lives(denied[t]) \/ Rejected(t))
      /\ rooms'[s] = {} /\ received'[s] = {}
      /\ UNCHANGED <<account, signed, denied, clock>>
  BY DEF Knock, SocketsSound, SocketDomains, SocketSound, SocketAt, Move, eventVars,
       accountVars, redisVars
<1>3. CASE Verified(t)
  <2>1. t \in DOMAIN signed /\ t \in Tokens /\ at'[s] = "denylist"
    BY <1>2, <1>3 DEF Verified, TokensSound
  <2>2. Lives(denied[t]) => denied[t] = signed[t].exp
    BY <2>1 DEF Lives, Never, TokensSound
  <2>3. dead'[s] => Rejected(t)' \/ denied'[t] = signed'[t].exp
    BY <1>2, <1>3, <2>2 DEF Rejected
  <2>4. SocketSound(s)'
    BY <1>2, <2>1, <2>3 DEF SocketSound, Caught, SocketAt, Rejected
  <2> QED
    BY <1>1, <2>4, AloneKeeps
<1>4. CASE ~Verified(t)
  <2>1. SocketSound(s)'
    BY <1>2, <1>4 DEF SocketSound, Caught, SocketAt
  <2> QED
    BY <1>1, <2>1, AloneKeeps
<1> QED
  BY <1>3, <1>4

LEMMA CheckDenylistKeeps ==
    ASSUME TokensSound, SocketsSound, NEW s \in Sockets, CheckDenylist(s)
    PROVE  TokensSound' /\ SocketsSound'
<1>1. SocketDomains' /\ Alone(s)
  BY DEF CheckDenylist, SocketsSound, SocketDomains, Alone, Move, Places, Handshakes, eventVars, accountVars
<1>2. /\ at[s] = "denylist"
      /\ at'[s] = IF DenylistHas(held[s]) THEN "refused" ELSE "snapshot"
      /\ rooms'[s] = {} /\ received'[s] = {}
      /\ UNCHANGED <<held, dead, account, signed, denied, clock>>
      /\ held[s] \in DOMAIN signed
  BY DEF CheckDenylist, SocketsSound, SocketDomains, SocketSound, SocketAt, Move, eventVars,
       accountVars, redisVars
<1>3. dead[s] => Rejected(held[s]) \/ denied[held[s]] = signed[held[s]].exp
  BY <1>2 DEF SocketsSound, SocketSound, Caught, SocketAt
<1>4. ~DenylistHas(held[s]) /\ denied[held[s]] = signed[held[s]].exp => Expired(held[s])
  BY <1>2 DEF DenylistHas, Lives, Expired, TokensSound, SignedSound
<1>5. dead'[s] /\ at'[s] = "snapshot" => (Rejected(held[s]) \/ Expired(held[s]))'
  BY <1>2, <1>3, <1>4 DEF Rejected, Expired
<1>6. SocketSound(s)'
  BY <1>2, <1>5 DEF SocketSound, Caught, SocketAt, Rejected, Expired
<1> QED
  BY <1>1, <1>6, AloneKeeps

LEMMA CheckAccountKeeps ==
    ASSUME TokensSound, SocketsSound, NEW s \in Sockets, CheckAccount(s)
    PROVE  TokensSound' /\ SocketsSound'
<1>1. SocketDomains' /\ Alone(s)
  BY DEF CheckAccount, SocketsSound, SocketDomains, Alone, Move, Places, Handshakes, eventVars, accountVars
<1>2. /\ at[s] = "snapshot" /\ rooms'[s] = {} /\ received'[s] = {}
      /\ UNCHANGED <<held, dead, account, signed, denied, clock>>
      /\ held[s] \in DOMAIN signed
      /\ dead[s] => Rejected(held[s]) \/ Expired(held[s])
  BY DEF CheckAccount, SocketsSound, SocketDomains, SocketSound, SocketAt, Caught, eventVars,
       accountVars, redisVars
<1>3. \/ at'[s] = "refused"
      \/ /\ at'[s] = "admitted" /\ ~Rejected(held[s])
         /\ principal'[s].user = signed[held[s]].user
  BY DEF CheckAccount, SocketsSound, SocketDomains, Move
<1>4. SocketSound(s)'
  BY <1>2, <1>3 DEF SocketSound, Caught, SocketAt, Expired
<1> QED
  BY <1>1, <1>4, AloneKeeps

LEMMA ConnectKeeps ==
    ASSUME TokensSound, SocketsSound, NEW s \in Sockets, Connect(s)
    PROVE  TokensSound' /\ SocketsSound'
<1>1. SocketDomains' /\ Alone(s)
  BY DEF Connect, SocketsSound, SocketDomains, Alone, Move, Places, Handshakes, eventVars, accountVars
<1>2. /\ at[s] = "admitted" /\ at'[s] = "open" /\ received'[s] = {}
      /\ rooms'[s] = {<<"user", principal[s].user>>}
      /\ UNCHANGED <<held, dead, principal, signed, clock>>
      /\ held[s] \in DOMAIN signed /\ principal[s].user = signed[held[s]].user
      /\ dead[s] => Expired(held[s])
  BY DEF Connect, SocketsSound, SocketDomains, SocketSound, SocketAt, Caught, Move, eventVars,
       accountVars, redisVars
<1>3. SocketSound(s)'
  BY <1>2 DEF SocketSound, Caught, SocketAt, Expired, OwnRoom
<1> QED
  BY <1>1, <1>3, AloneKeeps

\* A socket that leaves keeps what it was sent.
LEMMA LeaveKeeps ==
    ASSUME TokensSound, SocketsSound, NEW s \in Sockets, Abandon(s) \/ Disconnect(s)
    PROVE  TokensSound' /\ SocketsSound'
<1>1. SocketDomains' /\ Alone(s)
  BY DEF Abandon, Disconnect, SocketsSound, SocketDomains, Alone, Move, Places, eventVars, accountVars
<1>2. /\ at[s] \in Handshakes \cup {"open"} /\ at'[s] = "gone" /\ rooms'[s] = {}
      /\ UNCHANGED <<held, principal, signed, received>>
  BY DEF Abandon, Disconnect, SocketsSound, SocketDomains, SocketSound, SocketAt, Move,
       Handshakes, eventVars, accountVars
<1>3. SocketSound(s)'
  BY <1>2 DEF SocketsSound, SocketSound, Caught, SocketAt, OwnRoom, Handshakes
<1> QED
  BY <1>1, <1>3, AloneKeeps

LEMMA SubscribeKeeps ==
    ASSUME TokensSound, SocketsSound, NEW s \in Sockets, NEW n \in Tenants, Subscribe(s, n)
    PROVE  TokensSound' /\ SocketsSound'
<1>1. SocketDomains' /\ Alone(s)
  BY DEF Subscribe, SocketsSound, SocketDomains, Alone, eventVars, accountVars
<1>2. /\ at[s] = "open" /\ principal[s].admin
      /\ rooms'[s] = rooms[s] \cup {<<"tenant", n>>}
      /\ UNCHANGED <<at, held, dead, principal, account, signed, clock, received>>
      /\ held[s] \in DOMAIN signed
  BY DEF Subscribe, MaySubscribe, SocketsSound, SocketDomains, SocketSound, SocketAt, eventVars,
       accountVars, redisVars
<1>3. <<"tenant", n>>[1] = "tenant"
  OBVIOUS
<1>4. SocketSound(s)'
  BY <1>2, <1>3 DEF SocketsSound, SocketSound, Caught, SocketAt, Expired, OwnRoom
<1> QED
  BY <1>1, <1>4, AloneKeeps

\* A socket is sent the events of the rooms it is in.
LEMMA SendKeeps ==
    ASSUME TokensSound, SocketsSound, NEW replica, NEW event, SendLocally(replica, event),
           UNCHANGED <<accountVars, socketVars, redisVars>>
    PROVE  TokensSound' /\ SocketsSound'
<1>1. TokensSound' /\ Onward
  BY TimeKeeps
<1>2. ASSUME NEW s \in Sockets PROVE SocketSound(s)'
  <2>1. \/ received'[s] = received[s]
        \/ received'[s] = received[s] \cup {event} /\ event.room \in rooms[s]
    BY DEF SendLocally
  <2>2. CASE received'[s] = received[s]
    BY <1>1, <2>2, SocketStays DEF SocketsSound, socketVars
  <2>3. CASE received'[s] = received[s] \cup {event} /\ event.room \in rooms[s]
    BY <2>3 DEF SocketsSound, SocketSound, OwnRoom, Caught, SocketAt, Rejected, Expired,
         socketVars, accountVars, redisVars
  <2> QED
    BY <2>1, <2>2, <2>3
<1>3. SocketDomains'
  BY DEF SendLocally, SocketsSound, SocketDomains, socketVars, accountVars
<1> QED
  BY <1>1, <1>2, <1>3 DEF SocketsSound

\* Around the sockets: tokens are signed and denied, accounts are edited.
LEMMA AroundKeeps ==
    ASSUME TokensSound', Onward, TokensSound, SocketsSound, DOMAIN denied' = Tokens,
           UNCHANGED <<socketVars, eventVars>>
    PROVE  TokensSound' /\ SocketsSound'
<1>1. \A s \in Sockets : SocketSound(s)'
  BY SocketStays DEF SocketsSound, socketVars, eventVars
<1> QED
  BY <1>1 DEF SocketsSound, SocketDomains, socketVars, eventVars

-----------------------------------------------------------------------------
(* The gauge *)

LEMMA CountStays ==
    ASSUME SocketsCounted, UNCHANGED gauge,
           \A s \in Sockets : at'[s] = "open" <=> at[s] = "open"
    PROVE  SocketsCounted'
<1>1. \A r \in Replicas : OpenAt(r)' = OpenAt(r)
  BY DEF OpenAt, SocketAt
<1> QED
  BY <1>1 DEF SocketsCounted

\* The other replicas count as before.
LEMMA CountMoves ==
    ASSUME SocketsSound, SocketsCounted, NEW s \in Sockets,
           \A q \in Sockets : q # s => at'[q] = at[q],
           \A r \in Replicas : r # ReplicaOf[s] => gauge'[r] = gauge[r],
           LET r == ReplicaOf[s] IN
             IsFiniteSet(OpenAt(r))' /\ gauge'[r] = Cardinality(OpenAt(r))'
    PROVE  SocketsCounted'
<1>1. ASSUME NEW r \in Replicas, r # ReplicaOf[s]
      PROVE  IsFiniteSet(OpenAt(r))' /\ gauge'[r] = Cardinality(OpenAt(r))'
  <2>1. OpenAt(r)' = OpenAt(r) /\ gauge'[r] = gauge[r]
    BY <1>1 DEF OpenAt, SocketAt
  <2> QED
    BY <2>1 DEF SocketsCounted
<1> QED
  BY <1>1 DEF SocketsCounted

LEMMA ConnectCounted ==
    ASSUME SocketsSound, SocketsCounted, NEW s \in Sockets, Connect(s)
    PROVE  SocketsCounted'
<1> DEFINE r == ReplicaOf[s]
<1>1. r \in Replicas /\ DOMAIN gauge = Replicas /\ DOMAIN at = Sockets
  BY GatewayAssumption DEF SocketsSound, SocketDomains
<1>2. /\ at[s] = "admitted" /\ at' = [at EXCEPT ![s] = "open"]
      /\ gauge' = [gauge EXCEPT ![r] = @ + 1]
  BY DEF Connect, SocketAt, Move
<1>3. OpenAt(r)' = OpenAt(r) \cup {s} /\ s \notin OpenAt(r)
  BY <1>1, <1>2 DEF OpenAt, SocketAt
<1>4. IsFiniteSet(OpenAt(r))' /\ gauge'[r] = Cardinality(OpenAt(r))'
  BY <1>1, <1>2, <1>3, FS_AddElement DEF SocketsCounted
<1> QED
  BY <1>1, <1>2, <1>4, CountMoves

LEMMA DisconnectCounted ==
    ASSUME SocketsSound, SocketsCounted, NEW s \in Sockets, Disconnect(s)
    PROVE  SocketsCounted'
<1> DEFINE r == ReplicaOf[s]
<1>1. r \in Replicas /\ DOMAIN gauge = Replicas /\ DOMAIN at = Sockets
  BY GatewayAssumption DEF SocketsSound, SocketDomains
<1>2. /\ at[s] = "open" /\ at' = [at EXCEPT ![s] = "gone"]
      /\ gauge' = [gauge EXCEPT ![r] = @ - 1]
  BY DEF Disconnect, SocketAt, Move
<1>3. OpenAt(r)' = OpenAt(r) \ {s} /\ s \in OpenAt(r)
  BY <1>1, <1>2 DEF OpenAt, SocketAt
<1>4. IsFiniteSet(OpenAt(r))' /\ gauge'[r] = Cardinality(OpenAt(r))'
  BY <1>1, <1>2, <1>3, FS_RemoveElement DEF SocketsCounted
<1> QED
  BY <1>1, <1>2, <1>4, CountMoves

\* A step that neither opens a socket nor closes one.
LEMMA MoveCounted ==
    ASSUME SocketsSound, SocketsCounted, NEW s \in Sockets, NEW point, Move(s, point),
           at[s] # "open", point # "open", UNCHANGED gauge
    PROVE  SocketsCounted'
<1>1. \A q \in Sockets : at'[q] = "open" <=> at[q] = "open"
  BY DEF Move, SocketsSound, SocketDomains
<1> QED
  BY <1>1, CountStays

LEMMA SocketCounted ==
    ASSUME SocketsSound, SocketsCounted, NEW s \in Sockets,
           \/ \E t \in Tokens \cup {Null} : Knock(s, t)
           \/ HandshakeStep(s) \/ Abandon(s) \/ Disconnect(s)
           \/ \E n \in Tenants : Subscribe(s, n)
    PROVE  SocketsCounted'
<1>1. ASSUME NEW t \in Tokens \cup {Null}, Knock(s, t) PROVE SocketsCounted'
  BY <1>1, MoveCounted DEF Knock, SocketAt
<1>2. CASE CheckDenylist(s)
  BY <1>2, MoveCounted DEF CheckDenylist, SocketAt
<1>3. CASE CheckAccount(s)
  BY <1>3, MoveCounted DEF CheckAccount, SocketAt
<1>4. CASE Connect(s)
  BY <1>4, ConnectCounted
<1>5. CASE Abandon(s)
  BY <1>5, MoveCounted DEF Abandon, Handshakes
<1>6. CASE Disconnect(s)
  BY <1>6, DisconnectCounted
<1>7. ASSUME NEW n \in Tenants, Subscribe(s, n) PROVE SocketsCounted'
  BY <1>7, CountStays DEF Subscribe
<1> QED
  BY <1>1, <1>2, <1>3, <1>4, <1>5, <1>6, <1>7 DEF HandshakeStep

-----------------------------------------------------------------------------
LEMMA GatewayStep == ASSUME GatewayInv, GatewayNext PROVE GatewayInv'
<1>1. ASSUME NEW t \in Tokens, NEW u \in Users, Sign(t, u) PROVE GatewayInv'
  <2>1. TokensSound' /\ Onward /\ DOMAIN denied' = Tokens
    BY <1>1, SignKeeps DEF GatewayInv, Sign, SocketsSound, SocketDomains
  <2> QED
    BY <1>1, <2>1, AroundKeeps, CountStays DEF GatewayInv, Sign, socketVars
<1>2. ASSUME NEW t \in Tokens, Deny(t) PROVE GatewayInv'
  <2>1. TokensSound' /\ Onward /\ DOMAIN denied' = Tokens
    BY <1>2, DenyKeeps DEF GatewayInv, Deny, SocketsSound, SocketDomains
  <2> QED
    BY <1>2, <2>1, AroundKeeps, CountStays DEF GatewayInv, Deny, socketVars
<1>3. ASSUME NEW u \in Users, NEW edit \in AccountEdits, EditAccount(u, edit)
      PROVE  GatewayInv'
  <2>1. TokensSound' /\ Onward /\ DOMAIN denied' = Tokens
    BY <1>3, EditKeeps DEF GatewayInv, EditAccount, SocketsSound, SocketDomains
  <2> QED
    BY <1>3, <2>1, AroundKeeps, CountStays DEF GatewayInv, EditAccount, socketVars
<1>4. ASSUME NEW s \in Sockets, \/ \E t \in Tokens \cup {Null} : Knock(s, t)
                                \/ HandshakeStep(s) \/ Abandon(s) \/ Disconnect(s)
                                \/ \E n \in Tenants : Subscribe(s, n)
      PROVE  GatewayInv'
  <2>1. TokensSound' /\ SocketsSound'
    BY <1>4, KnockKeeps, CheckDenylistKeeps, CheckAccountKeeps, ConnectKeeps, LeaveKeeps,
       SubscribeKeeps DEF GatewayInv, HandshakeStep
  <2> QED
    BY <1>4, <2>1, SocketCounted DEF GatewayInv
<1>5. ASSUME NEW r, NEW event, SendLocally(r, event),
             UNCHANGED <<accountVars, socketVars, redisVars>>
      PROVE  GatewayInv'
  BY <1>5, SendKeeps, CountStays DEF GatewayInv, socketVars
<1>6. ASSUME NEW r \in Replicas, NEW id \in Events, NEW room \in Room, Emit(r, id, room)
      PROVE  GatewayInv'
  BY <1>5, <1>6 DEF Emit
<1>7. ASSUME NEW m \in wire, Deliver(m) PROVE GatewayInv'
  BY <1>5, <1>7 DEF Deliver
<1>8. ASSUME NEW m \in wire, Lose(m) PROVE GatewayInv'
  <2>1. TokensSound' /\ Onward
    BY <1>8, TimeKeeps DEF Lose, GatewayInv
  <2>2. \A s \in Sockets : SocketSound(s)'
    BY <1>8, <2>1, SocketStays DEF Lose, GatewayInv, SocketsSound, socketVars
  <2> QED
    BY <1>8, <2>1, <2>2, CountStays DEF Lose, GatewayInv, SocketsSound, SocketDomains,
         socketVars, accountVars
<1> QED
  BY <1>1, <1>2, <1>3, <1>4, <1>6, <1>7, <1>8 DEF GatewayNext

LEMMA AsideKeeps ==
    ASSUME GatewayInv, Tick \/ RedisFlip \/ UNCHANGED redisVars, UNCHANGED gatewayVars
    PROVE  GatewayInv'
<1>1. TokensSound' /\ Onward /\ DOMAIN denied' = Tokens
  BY TimeKeeps DEF GatewayInv, SocketsSound, SocketDomains, gatewayVars, accountVars
<1> QED
  BY <1>1, AroundKeeps, CountStays DEF GatewayInv, gatewayVars, socketVars

LEMMA GatewayInvInit == RedisInit /\ GatewayInit => GatewayInv
<1> SUFFICES ASSUME RedisInit, GatewayInit PROVE GatewayInv
  OBVIOUS
<1>1. account \in [Users -> UserRow]
  <2> DEFINE Fresh(p, admin) == [status |-> "ACTIVE", password |-> p, outdated |-> FALSE,
                 admin |-> admin, deleted |-> FALSE, tokenVersion |-> 0,
                 version |-> 0, lastLogin |-> 0]
  <2>1. \A p \in Passwords, admin \in BOOLEAN : Fresh(p, admin) \in UserRow
    BY DEF UserRow, Statuses
  <2>2. account \in [Users -> {Fresh(p, admin) : p \in Passwords, admin \in BOOLEAN}]
    BY DEF GatewayInit
  <2> HIDE DEF Fresh
  <2> QED
    BY <2>1, <2>2
<1>2. TokensSound
  BY <1>1 DEF TokensSound, RedisInit, GatewayInit
<1>3. SocketsSound
  BY DEF GatewayInit, SocketsSound, SocketDomains, SocketSound, Places, Caught
<1>4. SocketsCounted
  <2>1. \A r \in Replicas : OpenAt(r) = {} /\ gauge[r] = 0
    BY DEF GatewayInit, OpenAt, SocketAt
  <2> QED
    BY <2>1, FS_EmptySet DEF SocketsCounted
<1> QED
  BY <1>2, <1>3, <1>4 DEF GatewayInv

LEMMA GatewayInvariant == GatewaySpec => []GatewayInv
<1> DEFINE Step == \/ GatewayNext
                   \/ (Tick \/ RedisFlip) /\ UNCHANGED gatewayVars
<1>1. GatewayInv /\ [Step]_<<redisVars, gatewayVars>> => GatewayInv'
  BY GatewayStep, AsideKeeps
<1> QED
  BY <1>1, GatewayInvInit, PTL DEF GatewaySpec

-----------------------------------------------------------------------------
\* A token that was revoked or rejected when the handshake began opens no
\* socket, whatever happens to the account, the denylist and Redis between
\* the checks of authenticate, unless the token has expired since.
THEOREM DeadTokensStayOut == GatewaySpec => []NoDeadTokenAdmitted
<1>1. GatewayInv => NoDeadTokenAdmitted
  BY DEF GatewayInv, SocketsSound, SocketSound, Caught, Expired, NoDeadTokenAdmitted
<1> QED
  BY <1>1, GatewayInvariant, PTL

\* websocket_connections is the number of sockets open on the replica.
THEOREM SocketsAreCounted == GatewaySpec => []GaugeCountsOpenSockets
<1>1. GatewayInv => GaugeCountsOpenSockets
  BY DEF GatewayInv, SocketsCounted, OpenAt, GaugeCountsOpenSockets
<1> QED
  BY <1>1, GatewayInvariant, PTL

\* A socket is only ever sent the events of its own user, and of tenants if
\* its user was a platform admin when it connected.
THEOREM RoomsAreTheBoundary == GatewaySpec => []OnlyOwnEvents
<1>1. GatewayInv => OnlyOwnEvents
  BY DEF GatewayInv, SocketsSound, SocketSound, OwnRoom, OnlyOwnEvents
<1> QED
  BY <1>1, GatewayInvariant, PTL

-----------------------------------------------------------------------------
(* The boot *)

Apart(e) == e.accessSecret # "newRefresh" /\ e.refreshSecret # "newAccess"

Variables == {"node", "databaseUrl", "accessSecret", "refreshSecret", "refreshTtl", "cookies",
              "cookieSecure", "sameSiteNone", "corsOrigins", "plainLogs"}

\* After one repair all is there and well formed; after two all goes together.
RepairsInv ==
    /\ DOMAIN env = Variables /\ Apart(env) /\ repairs \in {0, 1, 2}
    /\ boot = "refused" => reported = Problems(env) /\ reported # {}
    /\ repairs = 1 => Aborting(env) = {} /\ Dirty(env) = {}
    /\ repairs = 2 => Problems(env) = {}

\* The variables after a repair, by what was wrong with them before.
LEMMA RepairIs ==
    ASSUME RepairsInv, NEW node \in {"development", "production"}, Repair(node)
    PROVE  /\ DOMAIN env' = Variables
           /\ \A v \in Variables : v \notin Problems(env) => env'[v] = env[v]
           /\ \A v \in Variables \ {"node"} : v \in Problems(env) => env'[v] = Sound[v]
           /\ "node" \in Problems(env) => env'["node"] = node
BY DEF RepairsInv, Repair, Variables

LEMMA RepairForms ==
    ASSUME RepairsInv, NEW node \in {"development", "production"}, Repair(node)
    PROVE  Aborting(env') = {} /\ Dirty(env') = {} /\ Apart(env')
<1>1. Aborting(env) \cup Dirty(env) \subseteq Problems(env)
  BY DEF Problems
<1>2. env'.accessSecret \notin {"absent", "short", "newRefresh"}
  BY <1>1, RepairIs DEF Aborting, Dirty, SecretIs, RepairsInv, Apart, Variables, Sound
<1>3. env'.refreshSecret \notin {"absent", "short", "newAccess"}
  BY <1>1, RepairIs DEF Aborting, Dirty, SecretIs, RepairsInv, Apart, Variables, Sound
<1>4. env'.databaseUrl \notin {"absent", "mysql"} /\ env'.node # "staging"
  BY <1>1, RepairIs DEF Aborting, Dirty, If, RepairsInv, Variables, Sound
<1> QED
  BY <1>2, <1>3, <1>4 DEF Aborting, Dirty, SecretIs, If, Apart

\* What is there and well formed stays so; all that does not go together is
\* named in one report.
LEMMA RepairJoins ==
    ASSUME RepairsInv, NEW node \in {"development", "production"}, Repair(node),
           Aborting(env) = {}, Dirty(env) = {}
    PROVE  Problems(env') = {}
<1>1. CrossChecked(env) \subseteq Problems(env) /\ Problems(env) \subseteq CrossChecked(env)
  BY DEF Problems
<1>2. "node" \notin Problems(env) /\ "cookies" \notin Problems(env)
      /\ "sameSiteNone" \notin Problems(env)
  BY <1>1 DEF CrossChecked, If, SecretIs
<1>3. /\ env'.node = env.node /\ env'.cookies = env.cookies
      /\ env'.sameSiteNone = env.sameSiteNone
  BY <1>2, RepairIs DEF Variables
<1>4. env'.accessSecret # env'.refreshSecret
  <2>1. env.accessSecret = env.refreshSecret => "refreshSecret" \in Problems(env)
    BY <1>1 DEF CrossChecked, If
  <2> QED
    BY <2>1, RepairIs DEF RepairsInv, Apart, Variables, Sound
<1>5. env'.refreshTtl # "shorter"
  <2>1. env.refreshTtl = "shorter" => "refreshTtl" \in Problems(env)
    BY <1>1 DEF CrossChecked, If
  <2> QED
    BY <2>1, RepairIs DEF Variables, Sound
<1>6. env.sameSiteNone \/ (env.node = "production" /\ env.cookies) => env'.cookieSecure
  <2>1. (env.sameSiteNone \/ (env.node = "production" /\ env.cookies)) /\ ~env.cookieSecure
            => "cookieSecure" \in Problems(env)
    BY <1>1 DEF CrossChecked, If
  <2>2. "cookieSecure" \in Problems(env) => env'.cookieSecure = TRUE
    BY RepairIs DEF Variables, Sound
  <2>3. "cookieSecure" \notin Problems(env) => env'.cookieSecure = env.cookieSecure
    BY RepairIs DEF Variables
  <2> QED
    BY <2>1, <2>2, <2>3
<1>7. env.node = "production" =>
        /\ SecretIs(env', Placeholders) = {}
        /\ env'.corsOrigins = "https" /\ ~env'.plainLogs
  <2> SUFFICES ASSUME env.node = "production"
               PROVE  /\ SecretIs(env', Placeholders) = {}
                      /\ env'.corsOrigins = "https" /\ ~env'.plainLogs
    OBVIOUS
  <2>1. /\ env.accessSecret \in Placeholders => "accessSecret" \in Problems(env)
        /\ env.refreshSecret \in Placeholders => "refreshSecret" \in Problems(env)
    BY <1>1 DEF CrossChecked, SecretIs
  <2>2. env.corsOrigins # "https" => "corsOrigins" \in Problems(env)
    BY <1>1 DEF CrossChecked, If
  <2>3. env.plainLogs => "plainLogs" \in Problems(env)
    BY <1>1 DEF CrossChecked, If
  <2>4. env'.accessSecret \notin Placeholders /\ env'.refreshSecret \notin Placeholders
    BY <2>1, RepairIs DEF Variables, Sound, Placeholders
  <2>5. env'.corsOrigins = "https"
    BY <2>2, RepairIs DEF Variables, Sound
  <2>6. ~env'.plainLogs
    <3>1. "plainLogs" \in Problems(env) => env'.plainLogs = FALSE
      BY RepairIs DEF Variables, Sound
    <3>2. "plainLogs" \notin Problems(env) => env'.plainLogs = env.plainLogs
      BY RepairIs DEF Variables
    <3> QED
      BY <2>3, <3>1, <3>2
  <2> QED
    BY <2>4, <2>5, <2>6 DEF SecretIs
<1>8. CrossChecked(env') = {}
  <2>1. /\ ~(env'.accessSecret = env'.refreshSecret) /\ ~(env'.refreshTtl = "shorter")
        /\ ~(env'.sameSiteNone /\ ~env'.cookieSecure)
    <3>1. ~(env'.sameSiteNone /\ ~env'.cookieSecure)
      BY <1>3, <1>6, Zenon
    <3> QED
      BY <1>4, <1>5, <3>1
  <2>2. env'.node = "production" => ~(env'.cookies /\ ~env'.cookieSecure)
    BY <1>3, <1>6
  <2>3. env'.node = "production" =>
          /\ SecretIs(env', Placeholders) = {}
          /\ ~(env'.corsOrigins # "https") /\ ~env'.plainLogs
    BY <1>3, <1>7
  <2>4. \A c, v : ~c => If(c, v) = {}
    BY Zenon DEF If
  <2>5. CASE env'.node = "production"
    BY <2>1, <2>2, <2>3, <2>4, <2>5, ZenonT(60) DEF CrossChecked
  <2>6. CASE env'.node # "production"
    BY <2>1, <2>4, <2>6, ZenonT(60) DEF CrossChecked
  <2> QED
    BY <2>5, <2>6
<1> QED
  BY <1>8, RepairForms DEF Problems

LEMMA RepairsStep == RepairsInv /\ [ConfigNext]_configVars => RepairsInv'
<1> SUFFICES ASSUME RepairsInv, [ConfigNext]_configVars PROVE RepairsInv'
  OBVIOUS
<1>1. ASSUME UNCHANGED <<env, repairs>>,
             boot' = "refused" => reported' = Problems(env) /\ reported' # {}
      PROVE  RepairsInv'
  BY <1>1 DEF RepairsInv, Apart
<1>2. CASE UNCHANGED configVars
  BY <1>1, <1>2 DEF configVars, RepairsInv
<1>3. CASE Start
  BY <1>1, <1>3 DEF Start
<1>4. CASE ConnectDatabase
  BY <1>1, <1>4 DEF ConnectDatabase
<1>5. ASSUME NEW node \in {"development", "production"}, Repair(node) PROVE RepairsInv'
  <2>1. repairs' = repairs + 1 /\ boot' = "down" /\ repairs # 2
    BY <1>5 DEF Repair, RepairsInv
  <2>2. /\ DOMAIN env' = Variables /\ Apart(env')
        /\ Aborting(env') = {} /\ Dirty(env') = {}
    BY <1>5, RepairIs, RepairForms
  <2>3. repairs = 1 => Problems(env') = {}
    BY <1>5, RepairJoins DEF RepairsInv
  <2> QED
    BY <2>1, <2>2, <2>3 DEF RepairsInv
<1> QED
  BY <1>2, <1>3, <1>4, <1>5 DEF ConfigNext

\* validateEnv: from any environment, an operator who repairs what the reports
\* name needs no more than two of them.
THEOREM TwoRepairs == ConfigSpec => []TwoRepairsAreEnough
<1>1. ConfigInit => RepairsInv
  <2> SUFFICES ASSUME ConfigInit PROVE RepairsInv
    OBVIOUS
  <2>1. env \in Values /\ {env.accessSecret, env.refreshSecret} \cap Generated = {}
    BY ConfigurationAssumption DEF ConfigInit
  <2>2. DOMAIN env = Variables
    BY <2>1 DEF Values, Variables
  <2>3. Apart(env)
    BY <2>1 DEF Apart, Generated
  <2> QED
    BY <2>2, <2>3 DEF ConfigInit, RepairsInv
<1>2. RepairsInv => TwoRepairsAreEnough
  BY DEF RepairsInv, TwoRepairsAreEnough
<1> QED
  BY <1>1, <1>2, RepairsStep, PTL DEF ConfigSpec
=============================================================================
