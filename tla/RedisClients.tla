---------------------------- MODULE RedisClients ----------------------------
(***************************************************************************)
(* The rate limiter and the cache over one Redis: the counters of the one  *)
(* and the entries of the other are different keys, and what they share is *)
(* the connection, on which one fails open and the other misses.           *)
(***************************************************************************)
EXTENDS ThrottlerProperties, CacheProperties

redisClientVars == <<redisVars, throttleVars, cacheVars>>

Init == RedisInit /\ ThrottlerInit /\ CacheInit

Next ==
    \/ ThrottlerNext /\ UNCHANGED cacheVars
    \/ CacheNext /\ UNCHANGED throttleVars
    \/ (Tick \/ RedisFlip) /\ UNCHANGED <<throttleVars, cacheVars>>

Spec == Init /\ [][Next]_redisClientVars /\ CacheFairness
=============================================================================
