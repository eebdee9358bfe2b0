--------------------------- MODULE MCRedisClients ---------------------------
(***************************************************************************)
(* Instances of RedisClients for TLC.  A behaviour of a run uses the       *)
(* limiter or the cache: their steps change no variable in common.         *)
(***************************************************************************)
EXTENDS RedisClients, TLC

CONSTANTS v1, v2, v3, a1, a2, login, folders,
          c1, c2, c3, p1, p2, k1, u1, u2, t1

ThreeVisits == {v1, v2, v3}
OneClient == {a1}
LoginAndFolders == {login, folders}
Kinded == login :> "auth" @@ folders :> "resource"
Limits == "default" :> 2 @@ "auth" :> 1

ThreeCalls == {c1, c2, c3}
TwoHomes == c1 :> p1 @@ c2 :> p1 @@ c3 :> p2
OneKey == {k1}
BothKinds == {k1, <<"res", t1>>}
\* A member of a tenant, and users of none.
Callers == {[user |-> u1, tenant |-> t1], [user |-> u1, tenant |-> None],
            [user |-> u2, tenant |-> None]}
\* Slots without a key before one with.
Slots == [k \in Keys |-> IF k = k1 THEN 2 ELSE 3]

-----------------------------------------------------------------------------
\* A behaviour in which one of the two is used.
OneUsedNext ==
    \/ (\A c \in Calls : At(c, "idle")) /\ ThrottlerNext /\ UNCHANGED cacheVars
    \/ DOMAIN due = {} /\ clock = 0 /\ CacheNext /\ UNCHANGED throttleVars
    \/ (\A c \in Calls : At(c, "idle")) /\ Tick /\ UNCHANGED <<throttleVars, cacheVars>>
    \/ RedisFlip /\ UNCHANGED <<throttleVars, cacheVars>>

OneUsedSpec == Init /\ [][OneUsedNext]_redisClientVars /\ CacheFairness
=============================================================================
