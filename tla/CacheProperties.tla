--------------------------- MODULE CacheProperties ---------------------------
(***************************************************************************)
(* What the cache promises its callers, for any interleaving of them.      *)
(***************************************************************************)
EXTENDS CacheService

\* Concurrent misses of one key in one process share one call of the loader,
\* from the miss until the value is stored (CacheService.getOrSet, inFlight).
SingleFlight ==
    \A c, d \in Calls :
        /\ c # d /\ Home[c] = Home[d]
        /\ {pc[c], pc[d]} \subseteq {"load", "store", "settle"}
        => KeyOf(c) # KeyOf(d)

\* A response is served only to those it may be shared with: the user, or
\* the tenant, it was rendered for; a request whose identity is not known
\* shares nothing (HttpCacheInterceptor.buildKey).
ScopedResponses ==
    \A c \in Calls :
        At(c, "done") /\ call[c].op = "respond" /\ got[c] # None =>
            \/ Scope = "public"
            \/ got[c].who = call[c].who
            \/ call[c].who[Scope] # None /\ got[c].who[Scope] = call[c].who[Scope]

\* After a prefix deletion that met no error, only keys stored after it began
\* are there, whatever was stored, deleted and expired while its pages were
\* walked (CacheService.deleteByPrefix).
PrefixGone ==
    \A c \in Calls : At(c, "swept") => \A k \in spared[c] : stored[k] = None

\* A call is answered, also when it waits for the flight of another whose
\* loader rejects (the finally of getOrSet).
CallsAnswered == \A c \in Calls : pc[c] \in Running ~> pc[c] \in Finished

Fresh(k) == stored[k] = None \/ stored[k].version = source[k]

\* An entry put back after its invalidation, or whose invalidation failed,
\* does not stay: once the source stops changing, what the cache holds agrees
\* with it in the end (the EX of CacheService.set).
StaleEntriesGo == \A k \in Keys : <>[]Fresh(k)
=============================================================================
