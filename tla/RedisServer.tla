----------------------------- MODULE RedisServer -----------------------------
(***************************************************************************)
(* The Redis server that the replicas share, as far as the rate limiter    *)
(* and the cache use it: keys that expire, and a connection that can be    *)
(* lost.  Redis itself is external to this repository.                     *)
(*                                                                         *)
(* A key is represented by the last tick of its life: Redis keeps a key    *)
(* through the millisecond its expiry names, and PTTL then answers 0.      *)
(***************************************************************************)
EXTENDS Integers

CONSTANTS
    MaxClock,        \* bound on the ticks of a run
    RedisMayFail     \* whether the connection may be lost

ASSUME RedisAssumption == MaxClock \in Nat /\ RedisMayFail \in BOOLEAN

VARIABLES
    clock,       \* the time, in ticks
    redisUp      \* whether a command is answered before its commandTimeout

redisVars == <<clock, redisUp>>

\* The expiry of a key that was never set.
Never == -1

Lives(until) == clock <= until

\* PTTL, which is negative for a key that is gone.
Pttl(until) == IF Lives(until) THEN until - clock ELSE -2

RedisInit == clock = 0 /\ redisUp = TRUE

Tick ==
    /\ clock < MaxClock
    /\ clock' = clock + 1
    /\ UNCHANGED redisUp

RedisFlip ==
    /\ RedisMayFail
    /\ redisUp' = ~redisUp
    /\ UNCHANGED clock
=============================================================================
