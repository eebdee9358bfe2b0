------------------------- MODULE ThrottlerProperties -------------------------
(***************************************************************************)
(* What the rate limiter promises of the hits it counts, for any           *)
(* interleaving of the replicas' requests, while Redis answers and when it *)
(* does not.  A request that passes because Redis did not answer is        *)
(* limited by nothing; if its hit was counted, it is among them.           *)
(***************************************************************************)
EXTENDS Throttler, FiniteSets

ThrottlerTypeOK ==
    /\ counter \in [BucketKeys -> [count : Nat, until : Int]]
    /\ block \in [BucketKeys -> Int]
    /\ DOMAIN due \subseteq Visits /\ \A v \in DOMAIN due : due[v] \in Seq(BucketKeys)
    /\ hits \in [BucketKeys -> Seq([at : Nat, admitted : BOOLEAN])]

\* Of the hits a bucket counts, the script lets in no more than twice the limit
\* during any stretch as long as the window, wherever the stretch starts: the
\* worst case is the end of one counter followed by the start of the next.
\* (redis-throttler.storage.ts, SCRIPT across the expiry of the counter.)
BurstBound ==
    \A k \in BucketKeys : \A from \in 0 .. clock :
        Cardinality({i \in DOMAIN hits[k] :
            hits[k][i].admitted /\ hits[k][i].at \in from .. from + Window - 1})
            <= 2 * Limit[k[1]]

\* Once the script has refused a hit, it counts none, and lets none in, before
\* the block it set has run out, although the counter expires earlier.
BlockHolds ==
    \A k \in BucketKeys : \A i, j \in DOMAIN hits[k] :
        i < j /\ ~hits[k][i].admitted => hits[k][j].at >= hits[k][i].at + Window

LastHit(k) == hits[k][Len(hits[k])].at

\* Nobody is locked out for good: a window after the last hit that was
\* counted the next one is let in, however many were refused meanwhile.
\* (The case for one script: a counter without an expiry would never reset.)
NoLockout ==
    \A k \in BucketKeys :
        hits[k] = <<>> \/ clock > LastHit(k) + Window =>
            ~Blocked(k) /\ WithinLimit(k, Incremented(k))
=============================================================================
