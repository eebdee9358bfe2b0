------------------------------ MODULE MCProcess ------------------------------
(***************************************************************************)
(* Instances of the process for TLC.  A behaviour is a boot, and then uses *)
(* the server or the gateway: their steps change no variable in common.    *)
(***************************************************************************)
EXTENDS ProcessProperties, GatewayProperties, ConfigurationProperties, TLC

CONSTANTS r1, r2, s1, s2, k1, k2, u1, u2, n1, e1, instance1, instance2, pw

TwoRequests == {r1, r2}
TwoReplicas == {instance1, instance2}
OneEach == s1 :> instance1 @@ s2 :> instance2
OnePassword == {pw}

\* Secrets that an operator has not generated yet.
Given == Secrets \ {"newAccess", "newRefresh"}

AllEnvironments == {e \in Values : e.accessSecret \in Given /\ e.refreshSecret \in Given}

\* The environment that the rest of a behaviour starts from.
Plain ==
    [node |-> "development", databaseUrl |-> "postgres",
     accessSecret |-> "fine", refreshSecret |-> "otherFine", refreshTtl |-> "longer",
     cookies |-> FALSE, cookieSecure |-> FALSE, sameSiteNone |-> FALSE,
     corsOrigins |-> "https", plainLogs |-> FALSE]

OnlyPlain == {Plain}

-----------------------------------------------------------------------------
Serving == boot = "serving" /\ env = Plain /\ repairs = 0

NoRequests == \A r \in Requests : On(r, "none")
NoSockets ==
    /\ DOMAIN signed = {} /\ emitted = {}
    /\ \A s \in Sockets : SocketAt(s, "absent")

\* No time went by, and no account or token was revoked.
Quiet ==
    /\ clock = 0 /\ denied = [k \in Tokens |-> Never]
    /\ \A u \in Users : account[u].tokenVersion = 0

Untouched == NoSockets /\ Quiet /\ redisUp /\ \A u \in Users : ~account[u].admin

\* Probes and outages on one side, shutdowns on the other: a shutdown asks no
\* dependency, and serves no probe.
Probing == \E r \in Requests : route[r] = "ready"

\* The requests are interchangeable, so r1 comes first.
ServerUsed ==
    /\ Serving /\ Untouched
    /\ ShutdownNext \/ ServerNext
    /\ shuttingDown' => up' = Dependencies /\ ~Probing'
    /\ route'[r2] # Unset => route[r1] # Unset
    /\ UNCHANGED <<redisVars, gatewayVars, configVars>>

\* Time goes by, and an account and tokens are revoked, around the handshake of
\* one socket; events are sent when two have connected.
\* The tokens are interchangeable, so k1 is signed first.
GatewayUsed ==
    /\ Serving /\ NoRequests /\ ~shuttingDown /\ up = Dependencies
    /\ \/ GatewayNext
       \/ (Tick \/ RedisFlip) /\ UNCHANGED gatewayVars
    /\ k2 \in DOMAIN signed' => k1 \in DOMAIN signed
    /\ \A u, v \in Users :
         account'[u].tokenVersion > 0 /\ account'[v].tokenVersion > 0 => u = v
    /\ at'[s2] # "absent" => Quiet' /\ at'[s1] \in {"open", "gone"}
    /\ emitted' # {} => Quiet' /\ \A s \in Sockets : at'[s] \in {"open", "gone"}
    /\ UNCHANGED <<processVars, configVars>>

Booted == ConfigNext /\ UNCHANGED <<processVars, redisVars, gatewayVars>>

allVars == <<processVars, redisVars, gatewayVars, configVars>>

MCProcessInit ==
    /\ ProcessInit /\ RedisInit /\ GatewayInit /\ ConfigInit
    /\ env # Plain => \A u \in Users : ~account[u].admin

MCProcessNext == Booted \/ ServerUsed \/ GatewayUsed

MCProcessSpec ==
    /\ MCProcessInit
    /\ [][MCProcessNext]_allVars
    /\ ProcessFairness
=============================================================================
