---------------------------- MODULE Configuration ----------------------------
(***************************************************************************)
(* The environment schema (env.schema.ts) and the boot it guards: the      *)
(* environment is validated, then the database is connected to; either may *)
(* end the boot.  The operator repairs what the report named and starts    *)
(* the process again.                                                      *)
(*                                                                         *)
(* Of the environment the model keeps the variables that the checks across *)
(* variables read, and NODE_ENV and DATABASE_URL; the others are checked   *)
(* on their own, as DATABASE_URL is.  A value is the class of values that  *)
(* the checks tell apart.                                                  *)
(***************************************************************************)
EXTENDS Naturals

\* A secret is missing, too short, a placeholder, or fine; fine are also the
\* two that an operator generates.
Generated == {"newAccess", "newRefresh"}
Placeholders == {"dev-only-access", "dev-only-refresh"}
Secrets == {"absent", "short", "fine", "otherFine"} \cup Generated \cup Placeholders

\* plainLogs: LOG_PRETTY, INLINE_LOGS_ENABLED or DATABASE_LOG_QUERIES.
Values ==
    [node         : {"development", "production", "staging"},
     databaseUrl  : {"absent", "mysql", "postgres"},
     accessSecret : Secrets, refreshSecret : Secrets,
     refreshTtl   : {"longer", "shorter"},
     cookies      : BOOLEAN, cookieSecure : BOOLEAN, sameSiteNone : BOOLEAN,
     corsOrigins  : {"https", "http", "wildcard"},
     plainLogs    : BOOLEAN]

CONSTANT Environments    \* the environments a run starts from

\* A secret that is generated is nobody's before.
ASSUME ConfigurationAssumption ==
    Environments \subseteq {e \in Values : {e.accessSecret, e.refreshSecret} \cap Generated = {}}

VARIABLES
    env,         \* process.env
    boot,        \* down, connecting, serving, refused, or failed
    reported,    \* the variables the last refusal named
    repairs      \* how often the operator has repaired the environment

configVars == <<env, boot, reported, repairs>>

-----------------------------------------------------------------------------
(* validateEnv *)

If(condition, variable) == IF condition THEN {variable} ELSE {}

SecretIs(e, kinds) == {v \in {"accessSecret", "refreshSecret"} : e[v] \in kinds}

\* A variable that is missing, or no member of its enumeration: zod gives up
\* on the object.
Aborting(e) ==
    SecretIs(e, {"absent"}) \cup If(e.databaseUrl = "absent", "databaseUrl")
        \cup If(e.node = "staging", "node")

\* A variable that is there, and does not pass its own checks.
Dirty(e) == SecretIs(e, {"short"}) \cup If(e.databaseUrl = "mysql", "databaseUrl")

\* superRefine
CrossChecked(e) ==
    If(e.accessSecret = e.refreshSecret, "refreshSecret")
    \cup If(e.refreshTtl = "shorter", "refreshTtl")
    \cup If(e.sameSiteNone /\ ~e.cookieSecure, "cookieSecure")
    \cup (IF e.node # "production" THEN {} ELSE
            SecretIs(e, Placeholders)
            \cup If(e.cookies /\ ~e.cookieSecure, "cookieSecure")
            \cup If(e.corsOrigins # "https", "corsOrigins")
            \cup If(e.plainLogs, "plainLogs"))

\* Checks that come one after another, each if there was no problem before.
ProblemsInTurn(e) ==
    IF Aborting(e) # {} THEN Aborting(e)
    ELSE IF Dirty(e) # {} THEN Dirty(e) ELSE CrossChecked(e)

\* superRefine runs on a dirty object, and not on one given up on.
Problems(e) ==
    IF Aborting(e) # {} THEN Aborting(e) \cup Dirty(e) ELSE Dirty(e) \cup CrossChecked(e)

-----------------------------------------------------------------------------
(* The boot, and the operator *)

\* ConfigModule validates before anything else is built.
Start ==
    /\ boot \in {"down", "failed"}
    /\ boot' = IF Problems(env) = {} THEN "connecting" ELSE "refused"
    /\ reported' = Problems(env)
    /\ UNCHANGED <<env, repairs>>

\* onModuleInit of PrismaService
ConnectDatabase ==
    /\ boot = "connecting"
    /\ boot' \in {"serving", "failed"}
    /\ UNCHANGED <<env, reported, repairs>>

\* What the report asks for: secrets are generated.
Sound == [databaseUrl |-> "postgres", accessSecret |-> "newAccess", refreshSecret |-> "newRefresh",
          refreshTtl |-> "longer", cookieSecure |-> TRUE, corsOrigins |-> "https",
          plainLogs |-> FALSE]

\* The operator repairs each variable the report named, and nothing else.
Repair(node) ==
    /\ boot = "refused"
    /\ env' = [v \in DOMAIN env |->
            IF v \notin reported THEN env[v] ELSE IF v = "node" THEN node ELSE Sound[v]]
    /\ boot' = "down"
    /\ repairs' = repairs + 1
    /\ UNCHANGED reported

ConfigInit ==
    /\ env \in Environments
    /\ boot = "down" /\ reported = {} /\ repairs = 0

ConfigNext ==
    \/ Start \/ ConnectDatabase
    \/ \E node \in {"development", "production"} : Repair(node)

ConfigSpec == ConfigInit /\ [][ConfigNext]_configVars
=============================================================================
