----------------------------- MODULE CacheService -----------------------------
(***************************************************************************)
(* The application cache: CacheService, and HttpCacheInterceptor on top of *)
(* it.  No handler of this commit uses either, so the calls of a run are   *)
(* any callers the documentation of the two classes provides for: reads    *)
(* through getOrSet, GET handlers marked @CacheResponse, writers that      *)
(* update the source and delete the key, and deletions of a prefix.        *)
(*                                                                         *)
(* Every await of a call is a step, and calls of several processes         *)
(* interleave.  A value is the version of the source it was read from, named *)
(* by the call that wrote it, and for whom it was read.                    *)
(***************************************************************************)
EXTENDS RedisServer, FiniteSets

CONSTANTS
    Calls,          \* the calls of a run
    Home,           \* the process each call is made in
    SourceKeys,     \* the keys getOrSet is called with
    Prefixed,       \* the keys under the prefix that is swept
    Slot,           \* the position of each key in Redis's table
    Scope,          \* the scope of the @CacheResponse handler
    Identities,     \* who may call it: the user and tenant of the context
    None            \* null, and a key that is not there

\* A cached response is keyed by the identity its scope names.
BuildKeySharesUnknown(who) == <<"res", IF Scope = "public" THEN "public" ELSE who[Scope]>>

\* buildKey: None if the request lacks the identity the scope demands.
BuildKey(who) ==
    CASE Scope = "public"   -> <<"res", "public">>
      [] who[Scope] = None  -> None
      [] OTHER              -> <<"res", who[Scope]>>

Keys == SourceKeys \cup ({BuildKey(who) : who \in Identities} \ {None})

\* The key of a response has a prefix of its own, which no other key has.
ASSUME CacheAssumption ==
    /\ None \notin Calls
    /\ SourceKeys \cap {BuildKey(who) : who \in Identities} = {}
    /\ Scope \in {"user", "tenant", "public"}
    /\ Prefixed \subseteq Keys
    /\ Slot \in [Keys -> Nat \ {0}]

VARIABLES
    source,      \* what each key caches: the write it comes from, or None
    stored,      \* the value of each key in Redis, or None
    flight,      \* inFlight: the call that loads each key, in each process
    pc,          \* the point each call is at
    call,        \* what each call is about
    got,         \* the value it has in hand
    scan,        \* the cursor and the page of a prefix deletion
    spared       \* for PrefixGone: the keys not stored since it began

cacheVars == <<source, stored, flight, pc, call, got, scan, spared>>

\* The version of the source before the writes of a run.
Original == "original"

Nobody == [user |-> None, tenant |-> None]

Running == {"get", "decide", "load", "store", "wait", "settle",
            "handle", "remember", "update", "invalidate", "scan", "unlink"}
Finished == {"done", "failed", "swept"}

At(c, point) == pc[c] = point
Goto(c, point) == pc' = [pc EXCEPT ![c] = point]
KeyOf(c) == call[c].key
FlightOf(c) == flight[Home[c]][KeyOf(c)]

\* A command is executed; one that is not answered in time may have been.
Executes == IF redisUp THEN {TRUE} ELSE BOOLEAN

\* The value of c goes to Redis, under its key, as JSON: null reads as a miss.
Put(c) ==
    /\ stored' = [stored EXCEPT ![KeyOf(c)] = got[c]]
    /\ spared' = [d \in Calls |-> spared[d] \ {KeyOf(c)}]

-----------------------------------------------------------------------------
Begin(c, op, key, who, point) ==
    /\ At(c, "idle")
    /\ Goto(c, point)
    /\ call' = [call EXCEPT ![c] = [op |-> op, key |-> key, who |-> who]]
    /\ UNCHANGED <<source, stored, flight, got, redisVars>>

CallGetOrSet(c) ==
    /\ \E k \in SourceKeys : Begin(c, "getOrSet", k, Nobody, "get")
    /\ UNCHANGED <<scan, spared>>

\* intercept, for a GET; without a key the handler runs uncached.
CallHandler(c) ==
    /\ \E who \in Identities :
         Begin(c, "respond", BuildKey(who), who,
               IF BuildKey(who) = None THEN "handle" ELSE "get")
    /\ UNCHANGED <<scan, spared>>

CallWrite(c) ==
    /\ \E k \in Keys : Begin(c, "write", k, Nobody, "update")
    /\ UNCHANGED <<scan, spared>>

CallDeleteByPrefix(c) ==
    /\ Begin(c, "sweep", None, Nobody, "scan")
    /\ scan' = [scan EXCEPT ![c] = [cursor |-> 1, page |-> {}]]
    /\ spared' = [spared EXCEPT ![c] = Prefixed]

-----------------------------------------------------------------------------
(* Reads *)

\* get: an error is a miss.
Get(c) ==
    /\ At(c, "get")
    /\ got' = [got EXCEPT ![c] = IF redisUp THEN stored[KeyOf(c)] ELSE None]
    /\ Goto(c, "decide")
    /\ UNCHANGED <<source, stored, flight, call, scan, spared, redisVars>>

Hit(c) ==
    /\ At(c, "decide")
    /\ got[c] # None
    /\ Goto(c, "done")
    /\ UNCHANGED <<source, stored, flight, call, got, scan, spared, redisVars>>

\* A miss of the interceptor runs the handler.
Miss(c) ==
    /\ At(c, "decide")
    /\ got[c] = None
    /\ call[c].op = "respond"
    /\ Goto(c, "handle")
    /\ UNCHANGED <<source, stored, flight, call, got, scan, spared, redisVars>>

\* A miss of getOrSet joins the flight of its process, which is pending as long
\* as it is on the map,
Join(c) ==
    /\ At(c, "decide")
    /\ got[c] = None
    /\ call[c].op = "getOrSet"
    /\ FlightOf(c) # None
    /\ Goto(c, "wait")
    /\ UNCHANGED <<source, stored, flight, call, got, scan, spared, redisVars>>

\* or starts one.
TakeOff(c) ==
    /\ At(c, "decide")
    /\ got[c] = None
    /\ call[c].op = "getOrSet"
    /\ FlightOf(c) = None
    /\ flight' = [flight EXCEPT ![Home[c]][KeyOf(c)] = c]
    /\ Goto(c, "load")
    /\ UNCHANGED <<source, stored, call, got, scan, spared, redisVars>>

\* What the source gives a caller now.
Read(c) ==
    LET version == IF KeyOf(c) = None THEN Original ELSE source[KeyOf(c)]
    IN  IF version = None THEN None ELSE [version |-> version, who |-> call[c].who]

\* A flight that ends its single flight with the load.
LoadLeavesEarly(c) ==
    /\ At(c, "load")
    /\ got' = [got EXCEPT ![c] = Read(c)]
    /\ flight' = [flight EXCEPT ![Home[c]][KeyOf(c)] = None]
    /\ Goto(c, IF Read(c) = None THEN "settle" ELSE "store")
    /\ UNCHANGED <<source, stored, call, scan, spared, redisVars>>

\* The loader answers.  null is not cached.
Load(c) ==
    /\ At(c, "load")
    /\ got' = [got EXCEPT ![c] = Read(c)]
    /\ Goto(c, IF Read(c) = None THEN "settle" ELSE "store")
    /\ UNCHANGED <<source, stored, flight, call, scan, spared, redisVars>>

\* set: an error is swallowed.
Store(c) ==
    /\ At(c, "store")
    /\ \E executed \in Executes :
         IF executed THEN Put(c) ELSE UNCHANGED <<stored, spared>>
    /\ Goto(c, "settle")
    /\ UNCHANGED <<source, flight, call, got, scan, redisVars>>

\* Everybody who awaits the flight of c, c included, goes on with one outcome.
Aboard(c) == {d \in Calls : d = c \/ (At(d, "wait") /\ Home[d] = Home[c] /\ KeyOf(d) = KeyOf(c))}

Land(c, outcome) ==
    /\ pc' = [d \in Calls |-> IF d \in Aboard(c) THEN outcome ELSE pc[d]]
    /\ flight' = [flight EXCEPT ![Home[c]][KeyOf(c)] = None]

\* The finally of a flight, and the promise it settles.
Settle(c) ==
    /\ At(c, "settle")
    /\ Land(c, "done")
    /\ got' = [d \in Calls |-> IF d \in Aboard(c) THEN got[c] ELSE got[d]]
    /\ UNCHANGED <<source, stored, call, scan, spared, redisVars>>

\* A deferred in the map that is resolved only: a rejection reaches the call
\* that loads, and those who wait for it are never answered.
LoaderFailsAlone(c) ==
    /\ At(c, "load")
    /\ Goto(c, "failed")
    /\ flight' = [flight EXCEPT ![Home[c]][KeyOf(c)] = None]
    /\ UNCHANGED <<source, stored, call, got, scan, spared, redisVars>>

\* The loader rejects, and with it everybody who waits.  The finally takes the
\* flight off the map before any of them goes on, so nobody joins it any more.
LoaderFails(c) ==
    /\ At(c, "load")
    /\ Land(c, "failed")
    /\ UNCHANGED <<source, stored, call, got, scan, spared, redisVars>>

\* The handler answers, and its response is stored without waiting.
Handle(c) ==
    /\ At(c, "handle")
    /\ got' = [got EXCEPT ![c] = Read(c)]
    /\ Goto(c, IF KeyOf(c) = None THEN "done" ELSE "remember")
    /\ UNCHANGED <<source, stored, flight, call, scan, spared, redisVars>>

HandlerFails(c) ==
    /\ At(c, "handle")
    /\ Goto(c, "failed")
    /\ UNCHANGED <<source, stored, flight, call, got, scan, spared, redisVars>>

Remember(c) ==
    /\ At(c, "remember")
    /\ \E executed \in Executes :
         IF executed THEN Put(c) ELSE UNCHANGED <<stored, spared>>
    /\ Goto(c, "done")
    /\ UNCHANGED <<source, flight, call, got, scan, redisVars>>

-----------------------------------------------------------------------------
(* Writes and invalidation *)

\* The source is replaced, or removed.
Update(c) ==
    /\ At(c, "update")
    /\ \E new \in {None, c} : source' = [source EXCEPT ![KeyOf(c)] = new]
    /\ Goto(c, "invalidate")
    /\ UNCHANGED <<stored, flight, call, got, scan, spared, redisVars>>

\* delete: an error is swallowed.
Invalidate(c) ==
    /\ At(c, "invalidate")
    /\ \E executed \in Executes :
         stored' = IF executed THEN [stored EXCEPT ![KeyOf(c)] = None] ELSE stored
    /\ Goto(c, "done")
    /\ UNCHANGED <<source, flight, call, got, scan, spared, redisVars>>

\* The page at a cursor, a slot long: MATCH filters it, so it may be empty.
Page(cursor) == {k \in Prefixed : Slot[k] = cursor /\ stored[k] # None}

\* The cursor after this one, 0 when the table has been walked.
NextCursor(cursor) == IF \E k \in Keys : Slot[k] > cursor THEN cursor + 1 ELSE 0

\* A loop that takes an empty page for the end.
SweptOnEmptyPage(cursor, page) == cursor = 0 \/ page = {}

\* while (cursor !== '0')
Swept(cursor, page) == cursor = 0

Scan(c) ==
    LET page == Page(scan[c].cursor)
        next == NextCursor(scan[c].cursor)
    IN
    /\ At(c, "scan")
    /\ redisUp
    /\ scan' = [scan EXCEPT ![c] = [cursor |-> next, page |-> page]]
    /\ Goto(c, IF page # {} THEN "unlink" ELSE IF Swept(next, page) THEN "swept" ELSE "scan")
    /\ UNCHANGED <<source, stored, flight, call, got, spared, redisVars>>

\* UNLINK of the page in hand.
WithoutPage(c) == [k \in Keys |-> IF k \in scan[c].page THEN None ELSE stored[k]]

Unlink(c) ==
    /\ At(c, "unlink")
    /\ redisUp
    /\ stored' = WithoutPage(c)
    /\ Goto(c, IF Swept(scan[c].cursor, scan[c].page) THEN "swept" ELSE "scan")
    /\ UNCHANGED <<source, flight, call, got, scan, spared, redisVars>>

\* The catch of deleteByPrefix: the rest of the table is not walked.
SweepFails(c) ==
    /\ pc[c] \in {"scan", "unlink"}
    /\ ~redisUp
    /\ \E executed \in Executes :
         stored' = IF executed /\ At(c, "unlink") THEN WithoutPage(c) ELSE stored
    /\ Goto(c, "done")
    /\ UNCHANGED <<source, flight, call, got, scan, spared, redisVars>>

\* An entry that was stored without a time to live.
ExpireNever(k) == FALSE /\ UNCHANGED <<redisVars, cacheVars>>

\* Every entry has a time to live.
Expire(k) ==
    /\ stored[k] # None
    /\ stored' = [stored EXCEPT ![k] = None]
    /\ UNCHANGED <<source, flight, pc, call, got, scan, spared, redisVars>>

-----------------------------------------------------------------------------
Continue(c) ==
    \/ Get(c) \/ Hit(c) \/ Miss(c) \/ Join(c) \/ TakeOff(c)
    \/ Load(c) \/ Store(c) \/ Settle(c) \/ LoaderFails(c)
    \/ Handle(c) \/ HandlerFails(c) \/ Remember(c)
    \/ Update(c) \/ Invalidate(c)
    \/ Scan(c) \/ Unlink(c) \/ SweepFails(c)

CacheInit ==
    /\ source = [k \in Keys |-> Original]
    /\ stored = [k \in Keys |-> None]
    /\ flight = [p \in {Home[c] : c \in Calls} |-> [k \in Keys |-> None]]
    /\ pc = [c \in Calls |-> "idle"]
    /\ call = [c \in Calls |-> None]
    /\ got = [c \in Calls |-> None]
    /\ scan = [c \in Calls |-> None]
    /\ spared = [c \in Calls |-> {}]

CacheNext ==
    \/ \E c \in Calls :
         \/ CallGetOrSet(c) \/ CallHandler(c) \/ CallWrite(c) \/ CallDeleteByPrefix(c)
         \/ Continue(c)
    \/ \E k \in Keys : Expire(k)

\* A process resumes its calls when their answers come; Redis expires keys.
CacheFairness ==
    /\ \A c \in Calls : WF_<<redisVars, cacheVars>>(Continue(c))
    /\ \A k \in Keys : WF_<<redisVars, cacheVars>>(Expire(k))
-----------------------------------------------------------------------------
CacheSpec ==
    /\ RedisInit /\ CacheInit
    /\ [][\/ CacheNext
          \/ (Tick \/ RedisFlip) /\ UNCHANGED cacheVars]_<<redisVars, cacheVars>>
=============================================================================
