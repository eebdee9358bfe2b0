------------------------------- MODULE Process -------------------------------
(***************************************************************************)
(* The process around the server: graceful shutdown (main.ts) and Nest's   *)
(* own shutdown hooks, which app.enableShutdownHooks installs beside it.   *)
(* Both are registered for the same signals, so a signal starts two        *)
(* chains; each runs the hooks of the modules, and waits for the server to *)
(* drain.  Nest's ends by sending the signal to the process again.         *)
(***************************************************************************)
EXTENDS HttpServer

CONSTANTS
    MaxSignals,     \* bound on the signals sent to the process
    CrashesOccur    \* whether an exception or a rejection may go unhandled

ASSUME ProcessAssumption == MaxSignals \in Nat /\ CrashesOccur \in BOOLEAN

VARIABLES
    listening,      \* whether connections are accepted
    shuttingDown,   \* main's shutdown has been called
    timer,          \* its forced-exit timer
    chain,          \* how far app.close() and Nest's cleanup are
    pool, clients,  \* the Prisma pool and the Redis connections: open, closed
    signals,        \* the signals sent
    echoed,         \* the signal Nest's cleanup has sent is on its way
    crashed,        \* for the properties: a crash handler has run
    exitCode        \* Unset while the process is alive

shutdownVars == <<listening, shuttingDown, timer, chain, pool, clients,
                  signals, echoed, crashed, exitCode>>

\* main's app.close() and Nest's cleanup.
Chains == {"close", "cleanup"}

Alive == exitCode = Unset
Exit(code) == exitCode' = code

\* CacheModule closing its connections with the first hooks.
CacheHookFirst == "onModuleDestroy"

\* The hooks at which PrismaService and CacheModule close theirs.
PoolHook == "onModuleDestroy"
CacheHook == "onApplicationShutdown"

RunHook(hook) ==
    /\ pool' = IF hook = PoolHook THEN "closed" ELSE pool
    /\ clients' = IF hook = CacheHook THEN "closed" ELSE clients

\* A shutdown without its backstop.
ShutdownUntimed(begun) ==
    IF shuttingDown
    THEN Exit(1) /\ chain' = begun /\ UNCHANGED <<shuttingDown, timer>>
    ELSE /\ shuttingDown' = TRUE
         /\ timer' = "off"
         /\ chain' = [begun EXCEPT !["close"] = "onModuleDestroy"]
         /\ UNCHANGED exitCode

\* A shutdown that does not await the close.
ShutdownAtOnce(begun) ==
    /\ shuttingDown' = TRUE
    /\ Exit(IF shuttingDown THEN 1 ELSE 0)
    /\ chain' = begun
    /\ UNCHANGED timer

\* shutdown(signal): the second call exits.
Shutdown(begun) ==
    IF shuttingDown
    THEN Exit(1) /\ chain' = begun /\ UNCHANGED <<shuttingDown, timer>>
    ELSE /\ shuttingDown' = TRUE
         /\ timer' = "armed"
         /\ chain' = [begun EXCEPT !["close"] = "onModuleDestroy"]
         /\ UNCHANGED exitCode

-----------------------------------------------------------------------------
\* SIGTERM or SIGINT: Nest's listener, which ignores a second one, and main's.
Signal ==
    /\ Alive /\ signals < MaxSignals
    /\ signals' = signals + 1
    /\ Shutdown(IF chain["cleanup"] = "off"
                THEN [chain EXCEPT !["cleanup"] = "onModuleDestroy"] ELSE chain)
    /\ UNCHANGED <<listening, pool, clients, echoed, crashed>>

\* unhandledRejection, uncaughtException.
Crash ==
    /\ Alive /\ CrashesOccur /\ ~crashed
    /\ crashed' = TRUE
    /\ Shutdown(chain)
    /\ UNCHANGED <<listening, pool, clients, signals, echoed>>

ForcedExit ==
    /\ Alive /\ timer = "armed"
    /\ Exit(1)
    /\ UNCHANGED <<listening, shuttingDown, timer, chain, pool, clients, signals, echoed, crashed>>

\* The hooks of the first round have settled, and the server stops listening.
Destroyed(c) ==
    /\ Alive /\ chain[c] = "onModuleDestroy"
    /\ RunHook("onModuleDestroy")
    /\ listening' = FALSE
    /\ chain' = [chain EXCEPT ![c] = "draining"]
    /\ UNCHANGED <<shuttingDown, timer, signals, echoed, crashed, exitCode>>

\* A hook of a module rejects: both chains end in a process.exit(1).
HookFails(c) ==
    /\ Alive /\ chain[c] = "onModuleDestroy"
    /\ Exit(1)
    /\ UNCHANGED <<listening, shuttingDown, timer, chain, pool, clients, signals, echoed, crashed>>

\* The server has closed: no connection is left.
Drained(c) ==
    /\ Alive /\ chain[c] = "draining"
    /\ \A r \in Requests : ~Connected(r)
    /\ RunHook("onApplicationShutdown")
    /\ chain' = [chain EXCEPT ![c] = "onApplicationShutdown"]
    /\ UNCHANGED <<listening, shuttingDown, timer, signals, echoed, crashed, exitCode>>

\* The quits have settled: main exits, and Nest's cleanup signals.
Closed ==
    /\ Alive /\ chain["close"] = "onApplicationShutdown"
    /\ Exit(0)
    /\ UNCHANGED <<listening, shuttingDown, timer, chain, pool, clients, signals, echoed, crashed>>

CleanedUp ==
    /\ Alive /\ chain["cleanup"] = "onApplicationShutdown"
    /\ chain' = [chain EXCEPT !["cleanup"] = "over"]
    /\ echoed' = TRUE
    /\ UNCHANGED <<listening, shuttingDown, timer, pool, clients, signals, crashed, exitCode>>

\* The signal that Nest's cleanup sent meets main's listener only.
Echo ==
    /\ Alive /\ echoed
    /\ echoed' = FALSE
    /\ Shutdown(chain)
    /\ UNCHANGED <<listening, pool, clients, signals, crashed>>

-----------------------------------------------------------------------------
ProcessInit ==
    /\ HttpInit
    /\ listening = TRUE /\ shuttingDown = FALSE /\ timer = "off"
    /\ chain = [c \in Chains |-> "off"]
    /\ pool = "open" /\ clients = "open"
    /\ signals = 0 /\ echoed = FALSE /\ crashed = FALSE
    /\ exitCode = Unset

ShutdownNext ==
    /\ \/ Signal \/ Crash \/ ForcedExit \/ Closed \/ CleanedUp \/ Echo
       \/ \E c \in Chains : Destroyed(c) \/ HookFails(c) \/ Drained(c)
    /\ UNCHANGED httpVars

ServerNext ==
    /\ Alive
    /\ \/ HttpStep
       \/ listening /\ \E r \in Requests, handler \in Routes : Accept(r, handler)
    /\ UNCHANGED shutdownVars

processVars == <<httpVars, shutdownVars>>

\* Node runs its timers: the ones of requests, and the one of shutdown.  What
\* a handler, a hook or a dependency takes may take forever.
ProcessFairness ==
    /\ \A r \in Requests : WF_processVars(Alive /\ Serve(r) /\ UNCHANGED shutdownVars)
    /\ WF_processVars(ForcedExit /\ UNCHANGED httpVars)

ProcessSpec ==
    /\ ProcessInit
    /\ [][ShutdownNext \/ ServerNext]_processVars
    /\ ProcessFairness
=============================================================================
