------------------------------ MODULE Throttler ------------------------------
(***************************************************************************)
(* Rate limiting: the guard that runs before every handler                 *)
(* (ThrottlerBehindProxyGuard, configured in app.module.ts) and the        *)
(* counters it keeps in Redis (RedisThrottlerStorage).                     *)
(*                                                                         *)
(* A request charges the buckets of its route one after another, an await  *)
(* each; the requests of all replicas interleave between those awaits.     *)
(* One charge is one Lua script, which Redis runs atomically.  The guard   *)
(* of @nestjs/throttler is external: it keys a bucket by handler and       *)
(* client, and asks for a block as long as the window.                     *)
(***************************************************************************)
EXTENDS RedisServer, Sequences

CONSTANTS
    Visits,         \* the requests of a run
    Clients,        \* the client addresses
    Routes,         \* the handlers
    KindOf,         \* the kind of each handler
    Limit,          \* THROTTLE_LIMIT and AUTH_THROTTLE_LIMIT
    Window          \* THROTTLE_TTL_S

Buckets == {"default", "auth"}
Kinds == {"auth", "application", "resource", "health"}

ASSUME ThrottlerAssumption ==
    /\ KindOf \in [Routes -> Kinds]
    /\ Limit \in [Buckets -> Nat \ {0}]
    /\ Window \in Nat \ {0}

VARIABLES
    counter,     \* the hit counter of each bucket
    block,       \* the last tick of each bucket's block marker
    due,         \* the buckets each request that has come has still to charge
    hits         \* for the properties: the hits each bucket counted, and the script's verdict

throttleVars == <<counter, block, due, hits>>

\* throttle:<name>:<key>; the key names the handler and the client.
BucketKeys == Buckets \X Routes \X Clients

\* The order in which the guard takes the named throttlers.
GuardOrder == <<"default", "auth">>

\* @SkipThrottle of the auth and the application controller, skipIf for the
\* probes.  No other controller skips a bucket.
Skipped(kind) ==
    CASE kind = "auth"        -> {"default"}
      [] kind = "application" -> {"auth"}
      [] kind = "resource"    -> {}
      [] kind = "health"      -> Buckets

KeysOf(route, client) ==
    LET names == SelectSeq(GuardOrder, LAMBDA b : b \notin Skipped(KindOf[route]))
    IN  [i \in DOMAIN names |-> <<names[i], route, client>>]

\* INCR and PEXPIRE as two commands, and a crash between them.
IncrementedOnly(k) ==
    IF Lives(counter[k].until)
    THEN [counter[k] EXCEPT !.count = @ + 1]
    ELSE [count |-> 1, until |-> MaxClock + Window]

\* A SET in the place of INCR, which forgets the hits before.
IncrementedAfresh(k) == [count |-> 1, until |-> clock + Window]

\* INCR creates a missing key; PEXPIRE follows the first hit only.
Incremented(k) ==
    IF Lives(counter[k].until)
    THEN [counter[k] EXCEPT !.count = @ + 1]
    ELSE [count |-> 1, until |-> clock + Window]

WithinLimit(k, counted) == counted.count <= Limit[k[1]]

\* A marker that dies with its counter.
BlockUntilWindowEnds(counted) == counted.until

\* blockDuration || ttl, from now.
BlockUntil(counted) == clock + Window

Blocked(k) == Pttl(block[k]) > 0

-----------------------------------------------------------------------------
\* A request of a client reaches the guard of its handler.
Visit(v, route, client) ==
    /\ v \notin DOMAIN due
    /\ due' = [w \in DOMAIN due \cup {v} |-> IF w = v THEN KeysOf(route, client) ELSE due[w]]
    /\ UNCHANGED <<counter, block, hits, redisVars>>

Charging(v) == v \in DOMAIN due /\ due[v] # <<>>

\* On to the next bucket, or past the guard; or out, with a 429.
Pass(v) == due' = [due EXCEPT ![v] = Tail(@)]
Refuse(v) == due' = [due EXCEPT ![v] = <<>>]

\* The script counts a hit of bucket k, and sets the marker if it is one too many.
Count(k) ==
    LET within == WithinLimit(k, Incremented(k)) IN
    /\ ~Blocked(k)
    /\ counter' = [counter EXCEPT ![k] = Incremented(k)]
    /\ block' = IF within THEN block ELSE [block EXCEPT ![k] = BlockUntil(Incremented(k))]
    /\ hits' = [hits EXCEPT ![k] = Append(@, [at |-> clock, admitted |-> within])]

\* The script meets a block marker: nothing is counted.
MeetBlock(v) ==
    /\ Charging(v)
    /\ redisUp
    /\ Blocked(Head(due[v]))
    /\ Refuse(v)
    /\ UNCHANGED <<counter, block, hits, redisVars>>

\* It counts a hit within the limit,
Admit(v) ==
    /\ Charging(v)
    /\ redisUp
    /\ WithinLimit(Head(due[v]), Incremented(Head(due[v])))
    /\ Count(Head(due[v]))
    /\ Pass(v)
    /\ UNCHANGED redisVars

\* or a hit too many.
Exceed(v) ==
    /\ Charging(v)
    /\ redisUp
    /\ ~WithinLimit(Head(due[v]), Incremented(Head(due[v])))
    /\ Count(Head(due[v]))
    /\ Refuse(v)
    /\ UNCHANGED redisVars

\* The catch of increment: an unreachable Redis limits nobody, although it may
\* have run the script whose answer came too late.
FailOpen(v) ==
    /\ Charging(v)
    /\ ~redisUp
    /\ Count(Head(due[v])) \/ UNCHANGED <<counter, block, hits>>
    /\ Pass(v)
    /\ UNCHANGED redisVars

ThrottlerInit ==
    /\ counter = [k \in BucketKeys |-> [count |-> 0, until |-> Never]]
    /\ block = [k \in BucketKeys |-> Never]
    /\ due = [v \in {} |-> <<>>]
    /\ hits = [k \in BucketKeys |-> <<>>]

ThrottlerNext ==
    \E v \in Visits :
        \/ \E route \in Routes, client \in Clients : Visit(v, route, client)
        \/ MeetBlock(v)
        \/ Admit(v)
        \/ Exceed(v)
        \/ FailOpen(v)

-----------------------------------------------------------------------------
ThrottlerSpec ==
    /\ RedisInit /\ ThrottlerInit
    /\ [][\/ ThrottlerNext
          \/ (Tick \/ RedisFlip) /\ UNCHANGED throttleVars]_<<redisVars, throttleVars>>
=============================================================================
