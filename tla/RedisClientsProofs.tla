-------------------------- MODULE RedisClientsProofs --------------------------
(***************************************************************************)
(* The limiter: a block is kept for its duration and nobody is locked out, *)
(* for any limits, window, handlers, clients and number of requests.       *)
(* The cache: one flight per key, responses for those they were rendered   *)
(* for, and prefixes that are swept, for any calls, keys and processes.    *)
(***************************************************************************)
EXTENDS RedisClients, FiniteSetTheorems, TLAPS

HitRecord == [at : Nat, admitted : BOOLEAN]

\* What the script's values are, and that hits are never in the future.
BucketsTyped ==
    /\ clock \in Nat
    /\ counter \in [BucketKeys -> [count : Nat, until : Int]]
    /\ block \in [BucketKeys -> Int]
    /\ hits \in [BucketKeys -> Seq(HitRecord)]
    /\ \A k \in BucketKeys : \A i \in DOMAIN hits[k] : hits[k][i].at <= clock

\* The block a refused hit has set has not been shortened.
BlockLasts ==
    \A k \in BucketKeys : \A i \in DOMAIN hits[k] :
        ~hits[k][i].admitted => block[k] >= hits[k][i].at + Window

\* Neither expiry is later than a window after the last hit.
ExpiriesEnd ==
    \A k \in BucketKeys :
        /\ hits[k] = <<>> => counter[k].until = Never /\ block[k] = Never
        /\ hits[k] # <<>> => /\ counter[k].until <= LastHit(k) + Window
                             /\ block[k] <= LastHit(k) + Window

BucketInv == BucketsTyped /\ BlockLasts /\ ExpiriesEnd /\ BlockHolds

-----------------------------------------------------------------------------
LEMMA BucketInit == RedisInit /\ ThrottlerInit => BucketInv
<1> SUFFICES ASSUME RedisInit, ThrottlerInit PROVE BucketInv
  OBVIOUS
<1>1. \A k \in BucketKeys : hits[k] = <<>>
  BY DEF ThrottlerInit
<1>2. BucketsTyped
  BY <1>1 DEF BucketsTyped, RedisInit, ThrottlerInit, Never, HitRecord
<1>3. ExpiriesEnd
  BY <1>1 DEF ExpiriesEnd, ThrottlerInit, Never
<1>4. BlockLasts /\ BlockHolds
  BY <1>1 DEF BlockLasts, BlockHolds
<1> QED
  BY <1>2, <1>3, <1>4 DEF BucketInv

LEMMA HitsTyped ==
    ASSUME BucketsTyped, NEW k \in BucketKeys
    PROVE  /\ \A i \in DOMAIN hits[k] : hits[k][i].at \in Nat /\ hits[k][i].at <= clock
           /\ hits[k] # <<>> => LastHit(k) \in Nat /\ LastHit(k) <= clock
<1>1. hits[k] \in Seq(HitRecord)
  BY DEF BucketsTyped
<1>2. \A i \in DOMAIN hits[k] : hits[k][i] \in HitRecord
  BY <1>1
<1>3. \A i \in DOMAIN hits[k] : hits[k][i].at \in Nat /\ hits[k][i].at <= clock
  BY <1>2 DEF BucketsTyped, HitRecord
<1>4. hits[k] # <<>> => Len(hits[k]) \in DOMAIN hits[k]
  BY <1>1
<1> QED
  BY <1>3, <1>4 DEF LastHit

\* A step that counts nothing.
Quiet == UNCHANGED <<counter, block, hits>> /\ clock' \in {clock, clock + 1}

LEMMA QuietStep == ASSUME BucketInv, Quiet PROVE BucketInv'
<1> USE DEF Quiet
<1>1. BucketsTyped'
  <2>1. \A k \in BucketKeys : \A i \in DOMAIN hits[k] : hits[k][i].at \in Nat
    BY HitsTyped DEF BucketInv
  <2> QED
    BY <2>1 DEF BucketInv, BucketsTyped
<1> QED
  BY <1>1 DEF BucketInv, BlockLasts, ExpiriesEnd, BlockHolds, LastHit

\* What the script counts: a counter that ends a window from now at the latest.
LEMMA CountedEnds ==
    ASSUME BucketInv, NEW k \in BucketKeys
    PROVE  /\ Incremented(k) \in [count : Nat, until : Int]
           /\ Incremented(k).until <= clock + Window
<1>1. Window \in Nat /\ clock \in Nat /\ counter[k] \in [count : Nat, until : Int]
  BY ThrottlerAssumption DEF BucketInv, BucketsTyped
<1>2. CASE Lives(counter[k].until)
  <2>1. hits[k] # <<>>
    BY <1>1, <1>2 DEF BucketInv, ExpiriesEnd, Lives, Never
  <2>2. LastHit(k) \in Nat /\ LastHit(k) <= clock
    BY <2>1, HitsTyped DEF BucketInv
  <2>3. Incremented(k) = [counter[k] EXCEPT !.count = @ + 1]
    BY <1>2 DEF Incremented
  <2>4. Incremented(k).until = counter[k].until
    BY <1>1, <2>3
  <2>5. counter[k].until <= LastHit(k) + Window
    BY <2>1 DEF BucketInv, ExpiriesEnd
  <2> QED
    BY <1>1, <2>2, <2>3, <2>4, <2>5
<1>3. CASE ~Lives(counter[k].until)
  <2>1. Incremented(k) = [count |-> 1, until |-> clock + Window]
    BY <1>3 DEF Incremented
  <2> QED
    BY <1>1, <2>1
<1> QED
  BY <1>2, <1>3

\* The script counts a hit in bucket k.
Counted(k, admitted) ==
    /\ ~Blocked(k)
    /\ admitted <=> WithinLimit(k, Incremented(k))
    /\ counter' = [counter EXCEPT ![k] = Incremented(k)]
    /\ hits' = [hits EXCEPT ![k] = Append(@, [at |-> clock, admitted |-> admitted])]
    /\ block' = IF admitted THEN block ELSE [block EXCEPT ![k] = clock + Window]
    /\ clock' = clock

\* It comes after every block.
LEMMA CountedStep ==
    ASSUME BucketInv, NEW k \in BucketKeys, NEW admitted \in BOOLEAN, Counted(k, admitted)
    PROVE  BucketInv'
<1> USE DEF Counted
<1> DEFINE new == [at |-> clock, admitted |-> admitted]
<1>1. /\ Window \in Nat /\ Window > 0 /\ clock \in Nat
      /\ block[k] \in Int /\ hits[k] \in Seq(HitRecord) /\ new \in HitRecord
  BY ThrottlerAssumption DEF BucketInv, BucketsTyped, HitRecord
<1>2. block[k] <= clock
  BY <1>1 DEF Blocked, Pttl, Lives
<1>3. /\ hits'[k] = Append(hits[k], new) /\ hits'[k] \in Seq(HitRecord) /\ hits'[k] # <<>>
      /\ Len(hits'[k]) = Len(hits[k]) + 1 /\ Len(hits[k]) \in Nat
      /\ DOMAIN hits'[k] = 1 .. Len(hits[k]) + 1 /\ DOMAIN hits[k] = 1 .. Len(hits[k])
      /\ hits'[k][Len(hits[k]) + 1] = new
      /\ \A i \in DOMAIN hits[k] : hits'[k][i] = hits[k][i]
  <2>1. hits'[k] = Append(hits[k], new)
    BY DEF BucketInv, BucketsTyped
  <2> HIDE DEF new, Counted
  <2> QED
    BY <1>1, <2>1
<1>4. \A j \in BucketKeys \ {k} :
        hits'[j] = hits[j] /\ block'[j] = block[j] /\ counter'[j] = counter[j]
  BY DEF BucketInv, BucketsTyped
<1>5. /\ counter'[k] = Incremented(k)
      /\ block'[k] = IF admitted THEN block[k] ELSE clock + Window
  BY DEF BucketInv, BucketsTyped
<1>6. \A i \in DOMAIN hits[k] : hits[k][i] \in HitRecord /\ hits[k][i].at <= clock
  BY <1>1 DEF BucketInv, BucketsTyped
<1>7. block'[k] \in Int /\ block'[k] <= clock + Window /\ block'[k] >= block[k]
  BY <1>1, <1>2, <1>5
<1>8. BucketsTyped'
  <2>1. counter' \in [BucketKeys -> [count : Nat, until : Int]]
    BY CountedEnds DEF BucketInv, BucketsTyped
  <2>2. block' \in [BucketKeys -> Int]
    BY <1>1 DEF BucketInv, BucketsTyped
  <2>3. hits' \in [BucketKeys -> Seq(HitRecord)]
    BY <1>3 DEF BucketInv, BucketsTyped
  <2>4. \A j \in BucketKeys : \A i \in DOMAIN hits'[j] : hits'[j][i].at <= clock
    BY <1>1, <1>3, <1>4, <1>6 DEF BucketInv, BucketsTyped
  <2> QED
    BY <1>1, <2>1, <2>2, <2>3, <2>4 DEF BucketsTyped
<1>9. BlockLasts'
  <2>1. \A i \in DOMAIN hits'[k] : ~hits'[k][i].admitted => block'[k] >= hits'[k][i].at + Window
    <3> SUFFICES ASSUME NEW i \in DOMAIN hits'[k], ~hits'[k][i].admitted
                 PROVE  block'[k] >= hits'[k][i].at + Window
      OBVIOUS
    <3>1. CASE i \in DOMAIN hits[k]
      <4>1. block[k] >= hits[k][i].at + Window /\ hits[k][i].at \in Nat
        BY <1>3, <1>6, <3>1 DEF BucketInv, BlockLasts, HitRecord
      <4> QED
        BY <1>1, <1>3, <1>7, <3>1, <4>1
    <3>2. CASE i = Len(hits[k]) + 1
      <4>1. ~admitted /\ hits'[k][i].at = clock
        BY <1>3, <3>2
      <4> QED
        BY <1>1, <1>5, <4>1
    <3> QED
      BY <1>3, <3>1, <3>2
  <2> QED
    BY <1>4, <2>1 DEF BucketInv, BlockLasts
<1>10. ExpiriesEnd'
  <2>1. LastHit(k)' = clock
    BY <1>3 DEF LastHit
  <2>2. \A j \in BucketKeys \ {k} : LastHit(j)' = LastHit(j)
    BY <1>4 DEF LastHit
  <2> QED
    BY <1>3, <1>4, <1>5, <1>7, <2>1, <2>2, CountedEnds DEF BucketInv, ExpiriesEnd
<1>11. BlockHolds'
  <2>1. \A i, j \in DOMAIN hits'[k] :
          i < j /\ ~hits'[k][i].admitted => hits'[k][j].at >= hits'[k][i].at + Window
    <3> SUFFICES ASSUME NEW i \in DOMAIN hits'[k], NEW j \in DOMAIN hits'[k],
                        i < j, ~hits'[k][i].admitted
                 PROVE  hits'[k][j].at >= hits'[k][i].at + Window
      OBVIOUS
    <3>1. i \in DOMAIN hits[k] /\ hits'[k][i] = hits[k][i]
      BY <1>3
    <3>2. CASE j \in DOMAIN hits[k]
      BY <1>3, <3>1, <3>2 DEF BucketInv, BlockHolds
    <3>3. CASE j = Len(hits[k]) + 1
      <4>1. hits'[k][j].at = clock
        BY <1>3, <3>3
      <4>2. block[k] >= hits[k][i].at + Window /\ hits[k][i].at \in Nat
        BY <1>6, <3>1 DEF BucketInv, BlockLasts, HitRecord
      <4> QED
        BY <1>1, <1>2, <3>1, <4>1, <4>2
    <3> QED
      BY <1>3, <3>2, <3>3
  <2> QED
    BY <1>4, <2>1 DEF BucketInv, BlockHolds
<1> QED
  BY <1>8, <1>9, <1>10, <1>11 DEF BucketInv

-----------------------------------------------------------------------------
\* A key that is no bucket's: the functions have no such argument.
LEMMA ForeignKey ==
    ASSUME NEW f, NEW S, NEW T, f \in [S -> T], NEW k, k \notin S, NEW v
    PROVE  [f EXCEPT ![k] = v] = f
OBVIOUS

\* A run of the script past the block marker.
LEMMA CountKind ==
    ASSUME BucketsTyped, NEW k, Count(k), UNCHANGED redisVars
    PROVE  Quiet \/ \E b \in BucketKeys, admitted \in BOOLEAN : Counted(b, admitted)
<1>1. CASE k \in BucketKeys /\ WithinLimit(k, Incremented(k))
  <2>1. Counted(k, TRUE)
    BY <1>1 DEF Count, Counted, redisVars
  <2> QED
    BY <1>1, <2>1
<1>2. CASE k \in BucketKeys /\ ~WithinLimit(k, Incremented(k))
  <2>1. Counted(k, FALSE)
    <3>1. WithinLimit(k, Incremented(k)) = FALSE
      BY <1>2 DEF WithinLimit
    <3>2. /\ ~Blocked(k)
          /\ counter' = [counter EXCEPT ![k] = Incremented(k)]
          /\ hits' = [hits EXCEPT ![k] = Append(@, [at |-> clock, admitted |-> FALSE])]
          /\ block' = [block EXCEPT ![k] = BlockUntil(Incremented(k))]
          /\ clock' = clock
      BY <3>1 DEF Count, redisVars
    <3> QED
      BY <3>1, <3>2 DEF Counted, BlockUntil
  <2> QED
    BY <1>2, <2>1
<1>3. CASE k \notin BucketKeys
  BY <1>3, ForeignKey DEF Count, redisVars, BucketsTyped, Quiet
<1> QED
  BY <1>1, <1>2, <1>3

\* What the steps of the limiter are to a bucket.
LEMMA BucketKinds ==
    ASSUME BucketsTyped,
           [\/ ThrottlerNext
            \/ (Tick \/ RedisFlip) /\ UNCHANGED throttleVars]_<<redisVars, throttleVars>>
    PROVE  \/ Quiet
           \/ \E b \in BucketKeys, admitted \in BOOLEAN : Counted(b, admitted)
<1>1. ASSUME NEW v \in Visits, Admit(v) \/ Exceed(v) \/ FailOpen(v)
      PROVE  Quiet \/ \E b \in BucketKeys, admitted \in BOOLEAN : Counted(b, admitted)
  <2>1. CASE Count(Head(due[v])) /\ UNCHANGED redisVars
    BY <2>1, CountKind
  <2>2. CASE UNCHANGED <<counter, block, hits, redisVars>>
    BY <2>2 DEF redisVars, Quiet
  <2> QED
    BY <1>1, <2>1, <2>2 DEF Admit, Exceed, FailOpen
<1>2. ASSUME NEW v \in Visits, NEW route \in Routes, NEW client \in Clients,
             Visit(v, route, client)
      PROVE  Quiet
  BY <1>2 DEF Visit, redisVars, Quiet
<1>3. ASSUME NEW v \in Visits, MeetBlock(v) PROVE Quiet
  BY <1>3 DEF MeetBlock, redisVars, Quiet
<1>4. CASE (Tick \/ RedisFlip) /\ UNCHANGED throttleVars
  BY <1>4 DEF Tick, RedisFlip, throttleVars, Quiet
<1>5. CASE UNCHANGED <<redisVars, throttleVars>>
  BY <1>5 DEF redisVars, throttleVars, Quiet
<1> QED
  BY <1>1, <1>2, <1>3, <1>4, <1>5 DEF ThrottlerNext

LEMMA BucketInvariant == ThrottlerSpec => []BucketInv
<1> DEFINE Step == \/ ThrottlerNext
                   \/ (Tick \/ RedisFlip) /\ UNCHANGED throttleVars
<1>1. BucketInv /\ [Step]_<<redisVars, throttleVars>> => BucketInv'
  BY BucketKinds, QuietStep, CountedStep DEF BucketInv
<1> QED
  BY <1>1, BucketInit, PTL DEF ThrottlerSpec

-----------------------------------------------------------------------------
\* The script's block marker: after a refusal nothing is let in for a window,
\* however the counter, the marker and the clock of Redis fall.
THEOREM BlocksHold == ThrottlerSpec => []BlockHolds
<1>1. BucketInv => BlockHolds
  BY DEF BucketInv
<1> QED
  BY <1>1, BucketInvariant, PTL

\* The script's PEXPIRE: a bucket that has been left alone for a window lets
\* the next hit in.
THEOREM NobodyIsLockedOut == ThrottlerSpec => []NoLockout
<1>1. BucketInv => NoLockout
  <2> SUFFICES ASSUME BucketInv, NEW k \in BucketKeys,
                      hits[k] = <<>> \/ clock > LastHit(k) + Window
               PROVE  ~Blocked(k) /\ WithinLimit(k, Incremented(k))
    BY DEF NoLockout
  <2>1. /\ Window \in Nat /\ clock \in Nat /\ block[k] \in Int
        /\ counter[k].until \in Int
    BY ThrottlerAssumption DEF BucketInv, BucketsTyped
  <2>2. hits[k] # <<>> => LastHit(k) \in Nat
    BY HitsTyped DEF BucketInv
  <2>3. ~Lives(block[k]) /\ ~Lives(counter[k].until)
    BY <2>1, <2>2 DEF BucketInv, ExpiriesEnd, Lives, Never
  <2>4. Limit[k[1]] >= 1 /\ Limit[k[1]] \in Nat
    BY ThrottlerAssumption DEF BucketKeys
  <2> QED
    BY <2>3, <2>4 DEF Blocked, Pttl, WithinLimit, Incremented
<1> QED
  BY <1>1, BucketInvariant, PTL

-----------------------------------------------------------------------------
(* Bursts: h is the hits of a bucket, c its counter, l its limit *)

\* The hits let in from lo on and before hi.
In(h, lo, hi) == {i \in DOMAIN h : h[i].admitted /\ lo <= h[i].at /\ h[i].at < hi}

\* The counter counts the hits of its own life; those of the window before
\* that life were counted by one counter too.
CounterBounds(h, c, l) ==
    LET start == c.until - Window IN
    /\ Cardinality(In(h, start, c.until + 1)) <= c.count
    /\ Cardinality(In(h, start, c.until + 1)) <= l
    /\ Cardinality(In(h, start - Window, start)) <= l
    /\ \A i \in DOMAIN h : h[i].at <= c.until

BurstOK(h, l) == \A from \in Int : Cardinality(In(h, from, from + Window)) <= 2 * l

BurstInv ==
    /\ BucketInv
    /\ \A k \in BucketKeys :
         CounterBounds(hits[k], counter[k], Limit[k[1]]) /\ BurstOK(hits[k], Limit[k[1]])

LEMMA LimitIs ==
    ASSUME NEW k \in BucketKeys
    PROVE  Limit[k[1]] \in Nat \ {0}
BY ThrottlerAssumption DEF BucketKeys

LEMMA BurstInit == RedisInit /\ ThrottlerInit => BurstInv
<1> SUFFICES ASSUME RedisInit, ThrottlerInit PROVE BurstInv
  OBVIOUS
<1>1. ASSUME NEW k \in BucketKeys
      PROVE  CounterBounds(hits[k], counter[k], Limit[k[1]]) /\ BurstOK(hits[k], Limit[k[1]])
  <2>1. hits[k] = <<>> /\ counter[k].count = 0
    BY DEF ThrottlerInit
  <2>2. \A lo, hi : Cardinality(In(<<>>, lo, hi)) = 0
    <3>1. \A lo, hi : In(<<>>, lo, hi) = {}
      BY DEF In
    <3> QED
      BY <3>1, FS_EmptySet
  <2> QED
    BY <2>1, <2>2, LimitIs DEF CounterBounds, BurstOK
<1> QED
  BY <1>1, BucketInit DEF BurstInv

LEMMA InFinite ==
    ASSUME NEW h \in Seq(HitRecord)
    PROVE  \A lo, hi : IsFiniteSet(In(h, lo, hi)) /\ Cardinality(In(h, lo, hi)) \in Nat
<1>1. IsFiniteSet(DOMAIN h)
  <2>1. DOMAIN h = 1 .. Len(h) /\ Len(h) \in Nat
    OBVIOUS
  <2> QED
    BY <2>1, FS_Interval
<1>2. \A lo, hi : In(h, lo, hi) \subseteq DOMAIN h
  BY DEF In
<1>3. \A lo, hi : IsFiniteSet(In(h, lo, hi))
  BY <1>1, <1>2, FS_Subset
<1> QED
  BY <1>3, FS_CardinalityType

LEMMA InSubset ==
    ASSUME NEW h \in Seq(HitRecord), NEW lo, NEW hi, NEW from, NEW to,
           In(h, from, to) \subseteq In(h, lo, hi)
    PROVE  Cardinality(In(h, from, to)) <= Cardinality(In(h, lo, hi))
BY InFinite, FS_Subset

LEMMA HitIs ==
    ASSUME NEW h \in Seq(HitRecord)
    PROVE  \A i \in DOMAIN h : h[i] \in HitRecord /\ h[i].at \in Nat
<1>1. \A i \in DOMAIN h : h[i] \in HitRecord
  OBVIOUS
<1> QED
  BY <1>1 DEF HitRecord

\* A stretch is no fuller than two that cover it.
LEMMA Covered ==
    ASSUME NEW h \in Seq(HitRecord), NEW lo \in Int, NEW mid \in Int, NEW hi \in Int,
           NEW from \in Int, NEW to \in Int, lo <= from,
           \A i \in DOMAIN h : h[i].at < hi
    PROVE  Cardinality(In(h, from, to)) <= Cardinality(In(h, lo, mid)) + Cardinality(In(h, mid, hi))
<1> DEFINE A == In(h, lo, mid)
           B == In(h, mid, hi)
           C == In(h, from, to)
<1>1. \A i \in DOMAIN h : h[i].at \in Nat
  BY HitIs
<1>2. C \subseteq A \cup B
  BY <1>1 DEF In
<1>3. IsFiniteSet(A) /\ IsFiniteSet(B)
  BY InFinite
<1> HIDE DEF A, B, C
<1>4. /\ IsFiniteSet(A \cup B)
      /\ Cardinality(A \cup B) = Cardinality(A) + Cardinality(B) - Cardinality(A \cap B)
  BY <1>3, FS_Union
<1>5. Cardinality(C) <= Cardinality(A \cup B)
  BY <1>2, <1>4, FS_Subset
<1>6. Cardinality(A) \in Nat /\ Cardinality(B) \in Nat /\ Cardinality(A \cap B) \in Nat
      /\ Cardinality(C) \in Nat
  <2>1. IsFiniteSet(A \cap B) /\ IsFiniteSet(C)
    BY <1>2, <1>3, <1>4, FS_Subset, FS_Intersection
  <2> QED
    BY <1>3, <2>1, FS_CardinalityType
<1>7. Cardinality(C) <= Cardinality(A) + Cardinality(B)
  BY <1>4, <1>5, <1>6
<1> QED
  BY <1>7 DEF A, B, C

\* One hit more.
LEMMA Grown ==
    ASSUME NEW h \in Seq(HitRecord), NEW x \in HitRecord
    PROVE  \A lo, hi \in Int :
             Cardinality(In(Append(h, x), lo, hi)) =
               Cardinality(In(h, lo, hi)) + IF x.admitted /\ lo <= x.at /\ x.at < hi THEN 1 ELSE 0
<1> SUFFICES ASSUME NEW lo \in Int, NEW hi \in Int
             PROVE  Cardinality(In(Append(h, x), lo, hi)) =
                      Cardinality(In(h, lo, hi)) + IF x.admitted /\ lo <= x.at /\ x.at < hi THEN 1 ELSE 0
  OBVIOUS
<1> DEFINE n == Len(h) + 1
           g == Append(h, x)
           old == In(h, lo, hi)
<1>1. /\ DOMAIN g = 1 .. n /\ DOMAIN h = 1 .. Len(h) /\ Len(h) \in Nat /\ g[n] = x
      /\ \A i \in DOMAIN h : g[i] = h[i]
  OBVIOUS
<1>2. n \notin old /\ IsFiniteSet(old) /\ Cardinality(old) \in Nat
  <2>1. n \notin old
    BY <1>1 DEF In
  <2> QED
    BY <2>1, InFinite
<1>3. CASE x.admitted /\ lo <= x.at /\ x.at < hi
  <2>1. In(g, lo, hi) = old \cup {n}
    BY <1>1, <1>3 DEF In
  <2> QED
    BY <1>2, <1>3, <2>1, FS_AddElement
<1>4. CASE ~(x.admitted /\ lo <= x.at /\ x.at < hi)
  <2>1. In(g, lo, hi) = old
    BY <1>1, <1>4 DEF In
  <2> QED
    BY <1>2, <1>4, <2>1
<1> QED
  BY <1>3, <1>4

\* A hit is counted at now.
LEMMA CountedBounds ==
    ASSUME NEW h \in Seq(HitRecord), NEW c \in [count : Nat, until : Int], NEW l \in Nat \ {0},
           CounterBounds(h, c, l), BurstOK(h, l), NEW now \in Nat, c.until <= now + Window,
           NEW new, new = IF now <= c.until THEN [count |-> c.count + 1, until |-> c.until]
                                            ELSE [count |-> 1, until |-> now + Window],
           NEW x \in HitRecord, x.at = now, x.admitted <=> new.count <= l
    PROVE  CounterBounds(Append(h, x), new, l) /\ BurstOK(Append(h, x), l)
<1> DEFINE g == Append(h, x)
           start == new.until - Window
           Size(lo, hi) == Cardinality(In(h, lo, hi))
           Grows(lo, hi) == IF x.admitted /\ lo <= now /\ now < hi THEN 1 ELSE 0
<1>1. Window \in Nat /\ Window >= 1 /\ new.until \in Int /\ new.count \in Nat
  BY ThrottlerAssumption
<1>2. g \in Seq(HitRecord) /\ \A lo, hi \in Int : Cardinality(In(g, lo, hi)) = Size(lo, hi) + Grows(lo, hi)
  BY Grown
<1>3. (\A lo, hi : Size(lo, hi) \in Nat) /\ start \in Int
  BY <1>1, InFinite
<1>4. /\ \A i \in DOMAIN h : h[i].at <= c.until /\ h[i].at \in Nat
      /\ Size(c.until - Window, c.until + 1) <= c.count
      /\ Size(c.until - Window, c.until + 1) <= l
      /\ Size(c.until - Window - Window, c.until - Window) <= l
  BY HitIs DEF CounterBounds
<1>5. \A i \in DOMAIN g : g[i].at <= new.until
  <2>1. \A i \in DOMAIN g : g[i] = x \/ \E j \in DOMAIN h : g[i] = h[j]
    OBVIOUS
  <2>2. now <= new.until /\ c.until <= new.until
    BY <1>1
  <2>3. \A j \in DOMAIN h : h[j].at <= new.until
    BY <1>1, <1>4, <2>2
  <2>4. x.at <= new.until
    BY <2>2
  <2> QED
    BY <2>1, <2>3, <2>4
<1>6. start <= now /\ now <= new.until
  BY <1>1
<1>11. /\ Cardinality(In(g, start, new.until + 1)) = Size(start, new.until + 1) + Grows(start, new.until + 1)
      /\ Cardinality(In(g, start - Window, start)) = Size(start - Window, start) + Grows(start - Window, start)
  <2>1. new.until + 1 \in Int /\ start - Window \in Int
    BY <1>1
  <2> HIDE DEF start, Size, Grows, g
  <2>2. Cardinality(In(g, start, new.until + 1)) = Size(start, new.until + 1) + Grows(start, new.until + 1)
    BY <1>2, <1>3, <2>1
  <2>3. Cardinality(In(g, start - Window, start)) = Size(start - Window, start) + Grows(start - Window, start)
    BY <1>2, <1>3, <2>1
  <2> QED
    BY <2>2, <2>3
<1>7. ASSUME now <= c.until PROVE CounterBounds(g, new, l)
  <2>1. new.until = c.until /\ new.count = c.count + 1
    BY <1>7
  <2> HIDE DEF Size
  <2>2. Size(start, new.until + 1) + Grows(start, new.until + 1) <= new.count
    BY <1>1, <1>3, <1>4, <2>1
  <2>3. Size(start, new.until + 1) + Grows(start, new.until + 1) <= l
    BY <1>1, <1>3, <1>4, <2>1
  <2>4. Size(start - Window, start) + Grows(start - Window, start) <= l
    BY <1>1, <1>3, <1>4, <1>6, <2>1
  <2> QED
    BY <1>5, <1>11, <2>2, <2>3, <2>4 DEF CounterBounds
<1>8. ASSUME ~(now <= c.until) PROVE CounterBounds(g, new, l)
  <2>1. new.until = now + Window /\ new.count = 1 /\ start = now
    BY <1>1, <1>8
  <2>2. Size(now, new.until + 1) = 0
    <3>1. In(h, now, new.until + 1) = {}
      BY <1>4, <1>8 DEF In
    <3> QED
      BY <3>1, FS_EmptySet
  <2>3. Size(now - Window, now) <= Size(c.until - Window, c.until + 1)
    <3>1. In(h, now - Window, now) \subseteq In(h, c.until - Window, c.until + 1)
      BY <1>1, <1>4, <1>8 DEF In
    <3> QED
      BY <3>1, InSubset
  <2> HIDE DEF Size
  <2>4. Size(start, new.until + 1) + Grows(start, new.until + 1) <= 1
    BY <2>1, <2>2
  <2>5. Size(start - Window, start) + Grows(start - Window, start) <= l
    <3>1. Size(now - Window, now) <= l
      <4>1. /\ Size(c.until - Window, c.until + 1) \in Nat
            /\ Size(c.until - Window, c.until + 1) <= l
            /\ Size(now - Window, now) \in Nat
        BY <1>3, <1>4
      <4> QED
        BY <2>3, <4>1
    <3> QED
      BY <1>3, <2>1, <3>1
  <2> QED
    <3>1. /\ Cardinality(In(g, start, new.until + 1)) <= new.count
          /\ Cardinality(In(g, start, new.until + 1)) <= l
      BY <1>3, <1>11, <2>1, <2>4
    <3>2. Cardinality(In(g, start - Window, start)) <= l
      BY <1>11, <2>5
    <3> QED
      BY <1>5, <3>1, <3>2 DEF CounterBounds
<1>9. CounterBounds(g, new, l)
  BY <1>7, <1>8
<1>10. ASSUME NEW from \in Int PROVE Cardinality(In(g, from, from + Window)) <= 2 * l
  <2>1. CASE from <= now /\ now < from + Window
    <3>1. Cardinality(In(g, from, from + Window))
            <= Cardinality(In(g, start - Window, start)) + Cardinality(In(g, start, new.until + 1))
      <4>1. start - Window <= from /\ \A i \in DOMAIN g : g[i].at < new.until + 1
        <5>1. \A i \in DOMAIN g : g[i].at \in Nat
          BY <1>2, HitIs
        <5>2. start - Window <= from
          BY <1>1, <1>6, <2>1
        <5> HIDE DEF g
        <5> QED
          BY <1>1, <1>5, <5>1, <5>2
      <4>2. start - Window \in Int /\ new.until + 1 \in Int /\ from + Window \in Int
        BY <1>1
      <4> HIDE DEF g, start
      <4> QED
        BY <1>2, <1>3, <4>1, <4>2, Covered
    <3>2. \A lo, hi : Cardinality(In(g, lo, hi)) \in Nat
      BY <1>2, InFinite
    <3> QED
      BY <1>9, <3>1, <3>2 DEF CounterBounds
  <2>2. CASE ~(from <= now /\ now < from + Window)
    <3>1. Size(from, from + Window) <= 2 * l
      BY DEF BurstOK
    <3>2. Cardinality(In(g, from, from + Window)) = Size(from, from + Window) + 0
      <4>1. from + Window \in Int
        BY <1>1
      <4>2. Grows(from, from + Window) = 0
        BY <2>2
      <4> HIDE DEF Size, Grows, g
      <4> QED
        BY <1>2, <4>1, <4>2
    <3> QED
      BY <1>3, <3>1, <3>2
  <2> QED
    BY <2>1, <2>2
<1> QED
  BY <1>9, <1>10 DEF BurstOK

LEMMA BurstStep ==
    ASSUME BurstInv,
           [\/ ThrottlerNext
            \/ (Tick \/ RedisFlip) /\ UNCHANGED throttleVars]_<<redisVars, throttleVars>>
    PROVE  BurstInv'
<1>1. CASE Quiet
  BY <1>1, QuietStep DEF BurstInv, Quiet
<1>2. ASSUME NEW k \in BucketKeys, NEW admitted \in BOOLEAN, Counted(k, admitted) PROVE BurstInv'
  <2> DEFINE x == [at |-> clock, admitted |-> admitted]
             l == Limit[k[1]]
             new == Incremented(k)
  <2>1. /\ clock \in Nat /\ hits[k] \in Seq(HitRecord) /\ x \in HitRecord
        /\ counter[k] \in [count : Nat, until : Int] /\ l \in Nat \ {0}
    BY LimitIs DEF BurstInv, BucketInv, BucketsTyped, HitRecord
  <2>2. CounterBounds(hits[k], counter[k], l) /\ BurstOK(hits[k], l) /\ BucketInv
    BY DEF BurstInv
  <2>3. new = IF clock <= counter[k].until
              THEN [count |-> counter[k].count + 1, until |-> counter[k].until]
              ELSE [count |-> 1, until |-> clock + Window]
    BY <2>1 DEF Incremented, Lives
  <2>4. counter[k].until <= clock + Window
    <3>1. CASE hits[k] = <<>>
      BY <2>1, <2>2, <3>1, ThrottlerAssumption DEF BucketInv, ExpiriesEnd, Never
    <3>2. CASE hits[k] # <<>>
      <4>1. LastHit(k) \in Nat /\ LastHit(k) <= clock /\ counter[k].until <= LastHit(k) + Window
        BY <2>2, <3>2, HitsTyped DEF BucketInv, ExpiriesEnd
      <4> QED
        BY <2>1, <4>1, ThrottlerAssumption
    <3> QED
      BY <3>1, <3>2
  <2>5. x.admitted <=> new.count <= l
    BY <1>2 DEF Counted, WithinLimit
  <2>6. CounterBounds(Append(hits[k], x), new, l) /\ BurstOK(Append(hits[k], x), l)
    <3>1. x.at = clock
      OBVIOUS
    <3> HIDE DEF x, l, new
    <3> QED
      BY <2>1, <2>2, <2>3, <2>4, <2>5, <3>1, CountedBounds
  <2>7. hits'[k] = Append(hits[k], x) /\ counter'[k] = new
    BY <1>2, <2>2 DEF Counted, BucketInv, BucketsTyped
  <2>8. \A j \in BucketKeys \ {k} : hits'[j] = hits[j] /\ counter'[j] = counter[j]
    BY <1>2, <2>2 DEF Counted, BucketInv, BucketsTyped
  <2>9. BucketInv'
    BY <1>2, <2>2, CountedStep
  <2> HIDE DEF x, new
  <2> QED
    BY <2>6, <2>7, <2>8, <2>9 DEF BurstInv
<1> QED
  BY <1>1, <1>2, BucketKinds DEF BurstInv, BucketInv

\* The script across the expiry of its counter: a bucket lets in no more than
\* twice its limit in any stretch as long as the window.
THEOREM BurstsAreBounded == ThrottlerSpec => []BurstBound
<1> DEFINE Step == \/ ThrottlerNext
                   \/ (Tick \/ RedisFlip) /\ UNCHANGED throttleVars
<1>1. BurstInv /\ [Step]_<<redisVars, throttleVars>> => BurstInv'
  BY BurstStep
<1>2. BurstInv => BurstBound
  <2> SUFFICES ASSUME BurstInv, NEW k \in BucketKeys, NEW from \in 0 .. clock
               PROVE  Cardinality({i \in DOMAIN hits[k] :
                        hits[k][i].admitted /\ hits[k][i].at \in from .. from + Window - 1})
                        <= 2 * Limit[k[1]]
    BY DEF BurstBound
  <2>1. hits[k] \in Seq(HitRecord) /\ clock \in Nat
    BY DEF BurstInv, BucketInv, BucketsTyped
  <2>2. {i \in DOMAIN hits[k] : hits[k][i].admitted /\ hits[k][i].at \in from .. from + Window - 1}
          = In(hits[k], from, from + Window)
    <3>1. \A i \in DOMAIN hits[k] : hits[k][i].at \in Nat
      BY <2>1, HitIs
    <3>2. \A i \in DOMAIN hits[k] : hits[k][i].at \in from .. from + Window - 1
            <=> from <= hits[k][i].at /\ hits[k][i].at < from + Window
      BY <2>1, <3>1, ThrottlerAssumption
    <3> QED
      BY <3>2 DEF In
  <2>3. Cardinality(In(hits[k], from, from + Window)) <= 2 * Limit[k[1]]
    BY <2>1 DEF BurstInv, BurstOK
  <2> QED
    BY <2>2, <2>3
<1> QED
  BY <1>1, <1>2, BurstInit, PTL DEF ThrottlerSpec

-----------------------------------------------------------------------------
(* The cache *)

Homes == {Home[c] : c \in Calls}

\* What each point knows of its call.
CallSound(c) ==
    LET op == call[c].op IN
    /\ pc[c] \in {"idle"} \cup Running \cup Finished
    /\ pc[c] \in {"load", "store", "settle", "wait"} => op = "getOrSet"
    /\ pc[c] \in {"handle", "remember"} => op = "respond"
    /\ pc[c] \in {"get", "decide"} => op \in {"getOrSet", "respond"} /\ KeyOf(c) \in Keys
    /\ At(c, "remember") => KeyOf(c) \in Keys
    /\ ~At(c, "idle") =>
         /\ op = "getOrSet" => KeyOf(c) \in SourceKeys
         /\ op = "respond" => call[c].who \in Identities /\ KeyOf(c) = BuildKey(call[c].who)

\* A flight is in the map from its miss until it lands.
InFlight(c) == pc[c] \in {"load", "store", "settle"} => FlightOf(c) = c

\* A response rendered for a may be served to b.
Suits(a, b) ==
    \/ Scope = "public"
    \/ a = b
    \/ b[Scope] # None /\ a[Scope] = b[Scope]

\* What a call holds, and what is stored, suits those who may be served it.
GotSound(c) ==
    /\ At(c, "idle") => got[c] = None
    /\ ~At(c, "idle") /\ call[c].op = "respond" /\ got[c] # None =>
         Suits(got[c].who, call[c].who)

SharedSound ==
    \A who \in Identities :
        BuildKey(who) # None /\ stored[BuildKey(who)] # None =>
            Suits(stored[BuildKey(who)].who, who)

\* What a sweep has left behind it.
SweepSound(c) ==
    /\ spared[c] \subseteq Prefixed
    /\ At(c, "scan") => /\ scan[c].cursor \in Nat \ {0}
                        /\ \A k \in spared[c] : stored[k] = None \/ Slot[k] >= scan[c].cursor
    /\ At(c, "unlink") => /\ scan[c].cursor \in Nat
                          /\ \A k \in spared[c] :
                               \/ stored[k] = None \/ k \in scan[c].page
                               \/ scan[c].cursor # 0 /\ Slot[k] >= scan[c].cursor
    /\ At(c, "swept") => \A k \in spared[c] : stored[k] = None

Over(f, S) == f = [x \in S |-> f[x]]

CacheTyped ==
    /\ Over(stored, Keys)
    /\ Over(pc, Calls) /\ Over(call, Calls) /\ Over(got, Calls)
    /\ Over(scan, Calls) /\ Over(spared, Calls)
    /\ flight \in [Homes -> [Keys -> Calls \cup {None}]]

CacheInv ==
    /\ CacheTyped /\ SharedSound
    /\ \A c \in Calls : CallSound(c) /\ InFlight(c) /\ GotSound(c) /\ SweepSound(c)

-----------------------------------------------------------------------------
LEMMA CacheInvInit == CacheInit => CacheInv
<1> SUFFICES ASSUME CacheInit PROVE CacheInv
  OBVIOUS
<1>1. CacheTyped
  BY DEF CacheInit, CacheTyped, Over, Homes
<1>2. SharedSound
  BY DEF CacheInit, SharedSound, Keys
<1>3. \A c \in Calls : At(c, "idle") /\ got[c] = None /\ spared[c] = {}
  BY DEF CacheInit, At
<1> QED
  BY <1>1, <1>2, <1>3 DEF CacheInv, CallSound, InFlight, GotSound, SweepSound, At

\* Nothing a sweep has left behind it is stored again, unless it is spared no more.
Unstored(d) ==
    /\ spared'[d] \subseteq spared[d]
    /\ \A k \in spared'[d] : stored'[k] = stored[k] \/ stored'[k] = None

Idles(d) == pc'[d] = pc[d] /\ call'[d] = call[d] /\ got'[d] = got[d] /\ scan'[d] = scan[d]

LEMMA SweepKeeps ==
    ASSUME NEW d \in Calls, SweepSound(d), Unstored(d),
           \/ pc'[d] = pc[d] /\ scan'[d] = scan[d]
           \/ pc'[d] # "scan" /\ pc'[d] # "unlink" /\ pc'[d] # "swept"
    PROVE  SweepSound(d)'
BY DEF SweepSound, Unstored, At

\* A step of c leaves the other calls where they are.
LEMMA OthersKeep ==
    ASSUME CacheInv, NEW d \in Calls, Idles(d), Unstored(d),
           pc[d] \in {"load", "store", "settle"} => FlightOf(d)' = FlightOf(d)
    PROVE  (CallSound(d) /\ InFlight(d) /\ GotSound(d) /\ SweepSound(d))'
<1>1. CallSound(d) /\ InFlight(d) /\ GotSound(d) /\ SweepSound(d)
  BY DEF CacheInv
<1>2. KeyOf(d)' = KeyOf(d)
  BY DEF Idles, KeyOf
<1>3. CallSound(d)'
  BY <1>1, <1>2 DEF CallSound, Idles, At
<1>4. InFlight(d)' /\ GotSound(d)'
  BY <1>1 DEF InFlight, GotSound, Idles, At
<1> QED
  BY <1>1, <1>3, <1>4, SweepKeeps DEF Idles

Moves(c) ==
    /\ \A d \in Calls \ {c} : Idles(d) /\ Unstored(d)
    /\ \A d \in Calls \ {c} : pc[d] \in {"load", "store", "settle"} => FlightOf(d)' = FlightOf(d)

LEMMA OneMoves ==
    ASSUME CacheInv, NEW c \in Calls, Moves(c), CacheTyped', SharedSound',
           (CallSound(c) /\ InFlight(c) /\ GotSound(c) /\ SweepSound(c))'
    PROVE  CacheInv'
BY OthersKeep DEF CacheInv, Moves

-----------------------------------------------------------------------------
\* A step that changes only where c is, and what it holds.
LEMMA Advances ==
    ASSUME CacheInv, NEW c \in Calls, NEW point, Goto(c, point),
           point # "scan", point # "unlink", point # "swept",
           got' = [got EXCEPT ![c] = got'[c]],
           UNCHANGED <<stored, flight, call, scan, spared>>
    PROVE  /\ CacheTyped' /\ SharedSound' /\ Moves(c) /\ SweepSound(c)'
           /\ pc'[c] = point /\ call'[c] = call[c] /\ KeyOf(c)' = KeyOf(c)
           /\ FlightOf(c)' = FlightOf(c)
<1>1. Over(pc', Calls) /\ \A d \in Calls : pc'[d] = IF d = c THEN point ELSE pc[d]
  <2>1. Over(pc, Calls) /\ pc' = [pc EXCEPT ![c] = point]
    BY DEF CacheInv, CacheTyped, Goto
  <2> QED
    BY <2>1 DEF Over
<1>2. Over(got', Calls) /\ \A d \in Calls \ {c} : got'[d] = got[d]
  <2>1. Over(got, Calls)
    BY DEF CacheInv, CacheTyped
  <2> QED
    BY <2>1 DEF Over
<1>3. CacheTyped'
  BY <1>1, <1>2 DEF CacheInv, CacheTyped
<1>4. SharedSound'
  BY DEF CacheInv, SharedSound
<1>5. \A d \in Calls : Unstored(d)
  BY DEF Unstored
<1>6. Moves(c)
  BY <1>1, <1>2, <1>5 DEF Moves, Idles, FlightOf, KeyOf
<1>7. SweepSound(c)'
  BY <1>1, <1>5, SweepKeeps DEF CacheInv
<1> QED
  BY <1>1, <1>3, <1>4, <1>6, <1>7 DEF KeyOf, FlightOf

LEMMA GotKept == CacheInv /\ UNCHANGED got => \A c \in Calls : got' = [got EXCEPT ![c] = got'[c]]
BY DEF CacheInv, CacheTyped, Over

LEMMA GetStep == ASSUME CacheInv, NEW c \in Calls, Get(c) PROVE CacheInv'
<1>1. At(c, "get") /\ Goto(c, "decide")
      /\ UNCHANGED <<stored, flight, call, scan, spared>>
  BY DEF Get
<1>2. /\ got' = [got EXCEPT ![c] = got'[c]]
      /\ got'[c] = IF redisUp THEN stored[KeyOf(c)] ELSE None
  BY DEF Get, CacheInv, CacheTyped, Over
<1>3. /\ CallSound(c) /\ SharedSound
      /\ call[c].op \in {"getOrSet", "respond"} /\ KeyOf(c) \in Keys
      /\ call[c].op = "getOrSet" => KeyOf(c) \in SourceKeys
      /\ call[c].op = "respond" => call[c].who \in Identities /\ KeyOf(c) = BuildKey(call[c].who)
  BY <1>1 DEF CacheInv, CallSound, At
<1>4. /\ CacheTyped' /\ SharedSound' /\ Moves(c) /\ SweepSound(c)'
      /\ pc'[c] = "decide" /\ call'[c] = call[c] /\ KeyOf(c)' = KeyOf(c)
  BY <1>1, <1>2, Advances
<1>5. CallSound(c)'
  BY <1>3, <1>4 DEF CallSound, At, Running, Finished
<1>6. InFlight(c)'
  BY <1>4 DEF InFlight
<1>7. GotSound(c)'
  <2>1. ASSUME call[c].op = "respond", got'[c] # None PROVE Suits(got'[c].who, call[c].who)
    <3>1. /\ got'[c] = stored[KeyOf(c)] /\ KeyOf(c) = BuildKey(call[c].who)
          /\ call[c].who \in Identities
      BY <1>2, <1>3, <2>1
    <3>2. BuildKey(call[c].who) # None
      BY <1>3, <3>1, CacheAssumption DEF Keys
    <3> QED
      BY <1>3, <2>1, <3>1, <3>2 DEF SharedSound
  <2> QED
    BY <1>4, <2>1 DEF GotSound, At
<1> QED
  BY <1>4, <1>5, <1>6, <1>7, OneMoves

\* A step of c after which it holds what it held.
LEMMA GoesOn ==
    ASSUME CacheInv, NEW c \in Calls, NEW point, Goto(c, point), ~At(c, "idle"),
           point # "scan", point # "unlink", point # "swept", point # "idle",
           UNCHANGED <<stored, flight, call, got, scan, spared>>,
           CallSound(c)', InFlight(c)'
    PROVE  CacheInv'
<1>1. /\ CacheTyped' /\ SharedSound' /\ Moves(c) /\ SweepSound(c)'
      /\ pc'[c] = point /\ call'[c] = call[c]
  BY GotKept, Advances
<1>2. GotSound(c)'
  BY <1>1 DEF CacheInv, GotSound, At
<1> QED
  BY <1>1, <1>2, OneMoves

LEMMA HitStep == ASSUME CacheInv, NEW c \in Calls, Hit(c) PROVE CacheInv'
<1>1. At(c, "decide") /\ ~At(c, "idle") /\ Goto(c, "done")
      /\ UNCHANGED <<stored, flight, call, got, scan, spared>>
  BY DEF Hit, At
<1>2. pc'[c] = "done" /\ call'[c] = call[c] /\ KeyOf(c)' = KeyOf(c)
  BY <1>1, GotKept, Advances
<1>3. CallSound(c)' /\ InFlight(c)'
  BY <1>1, <1>2 DEF CacheInv, CallSound, InFlight, At, Finished
<1> QED
  BY <1>1, <1>3, GoesOn

LEMMA MissStep == ASSUME CacheInv, NEW c \in Calls, Miss(c) PROVE CacheInv'
<1>1. At(c, "decide") /\ ~At(c, "idle") /\ Goto(c, "handle") /\ call[c].op = "respond"
      /\ UNCHANGED <<stored, flight, call, got, scan, spared>>
  BY DEF Miss, At
<1>2. pc'[c] = "handle" /\ call'[c] = call[c] /\ KeyOf(c)' = KeyOf(c)
  BY <1>1, GotKept, Advances
<1>3. CallSound(c)' /\ InFlight(c)'
  BY <1>1, <1>2 DEF CacheInv, CallSound, InFlight, At, Running
<1> QED
  BY <1>1, <1>3, GoesOn

LEMMA JoinStep == ASSUME CacheInv, NEW c \in Calls, Join(c) PROVE CacheInv'
<1>1. At(c, "decide") /\ ~At(c, "idle") /\ Goto(c, "wait") /\ call[c].op = "getOrSet"
      /\ UNCHANGED <<stored, flight, call, got, scan, spared>>
  BY DEF Join, At
<1>2. pc'[c] = "wait" /\ call'[c] = call[c] /\ KeyOf(c)' = KeyOf(c)
  BY <1>1, GotKept, Advances
<1>3. CallSound(c)' /\ InFlight(c)'
  BY <1>1, <1>2 DEF CacheInv, CallSound, InFlight, At, Running
<1> QED
  BY <1>1, <1>3, GoesOn

LEMMA QuitStep ==
    ASSUME CacheInv, NEW c \in Calls, HandlerFails(c)
    PROVE  CacheInv'
<1>1. PICK point \in {"failed", "done"} : Goto(c, point)
  BY DEF HandlerFails
<1>2. ~At(c, "idle") /\ UNCHANGED <<stored, flight, call, got, scan, spared>>
  BY DEF HandlerFails, At
<1>3. pc'[c] = point /\ call'[c] = call[c] /\ KeyOf(c)' = KeyOf(c)
  BY <1>1, <1>2, GotKept, Advances
<1>4. CallSound(c)' /\ InFlight(c)'
  BY <1>1, <1>2, <1>3 DEF CacheInv, CallSound, InFlight, At, Finished
<1> QED
  BY <1>1, <1>2, <1>4, GoesOn

LEMMA LoadStep == ASSUME CacheInv, NEW c \in Calls, Load(c) PROVE CacheInv'
<1>1. PICK point \in {"settle", "store"} : Goto(c, point)
  BY DEF Load
<1>2. At(c, "load") /\ UNCHANGED <<stored, flight, call, scan, spared>>
  BY DEF Load
<1>3. got' = [got EXCEPT ![c] = got'[c]]
  BY DEF Load, CacheInv, CacheTyped, Over
<1>4. /\ CacheTyped' /\ SharedSound' /\ Moves(c) /\ SweepSound(c)'
      /\ pc'[c] = point /\ call'[c] = call[c] /\ KeyOf(c)' = KeyOf(c)
      /\ FlightOf(c)' = FlightOf(c)
  BY <1>1, <1>2, <1>3, Advances
<1>5. CallSound(c)' /\ InFlight(c)' /\ GotSound(c)'
  BY <1>1, <1>2, <1>4 DEF CacheInv, CallSound, InFlight, GotSound, At, Running
<1> QED
  BY <1>4, <1>5, OneMoves

LEMMA HandleStep == ASSUME CacheInv, NEW c \in Calls, Handle(c) PROVE CacheInv'
<1>1. PICK point \in {"done", "remember"} :
        Goto(c, point) /\ (point = "done" <=> KeyOf(c) = None)
  BY DEF Handle
<1>2. At(c, "handle") /\ UNCHANGED <<stored, flight, call, scan, spared>>
  BY DEF Handle
<1>3. got' = [got EXCEPT ![c] = got'[c]] /\ got'[c] = Read(c)
  BY DEF Handle, CacheInv, CacheTyped, Over
<1>4. /\ CacheTyped' /\ SharedSound' /\ Moves(c) /\ SweepSound(c)'
      /\ pc'[c] = point /\ call'[c] = call[c] /\ KeyOf(c)' = KeyOf(c)
  BY <1>1, <1>2, <1>3, Advances
<1>5. call[c].op = "respond" /\ call[c].who \in Identities /\ KeyOf(c) = BuildKey(call[c].who)
  BY <1>2 DEF CacheInv, CallSound, At
<1>6. point = "remember" => KeyOf(c) \in Keys
  BY <1>1, <1>5 DEF Keys
<1>7. CallSound(c)' /\ InFlight(c)'
  BY <1>1, <1>4, <1>5, <1>6 DEF CallSound, InFlight, At, Running, Finished
<1>8. GotSound(c)'
  BY <1>1, <1>3, <1>4 DEF GotSound, Read, Suits, At
<1> QED
  BY <1>4, <1>7, <1>8, OneMoves

-----------------------------------------------------------------------------
LEMMA Begins ==
    ASSUME CacheInv, NEW c \in Calls, NEW op, NEW key, NEW who, NEW point,
           Begin(c, op, key, who, point),
           \A d \in Calls \ {c} : spared'[d] = spared[d] /\ scan'[d] = scan[d],
           Over(spared', Calls), Over(scan', Calls)
    PROVE  /\ CacheTyped' /\ SharedSound' /\ Moves(c)
           /\ pc'[c] = point /\ call'[c] = [op |-> op, key |-> key, who |-> who]
           /\ got'[c] = None /\ stored' = stored
<1>1. /\ At(c, "idle") /\ pc' = [pc EXCEPT ![c] = point]
      /\ call' = [call EXCEPT ![c] = [op |-> op, key |-> key, who |-> who]]
      /\ stored' = stored /\ flight' = flight /\ got' = got
  BY DEF Begin, Goto
<1>2. Over(pc, Calls) /\ Over(call, Calls)
  BY DEF CacheInv, CacheTyped
<1>3. Over(pc', Calls) /\ \A d \in Calls : pc'[d] = IF d = c THEN point ELSE pc[d]
  BY <1>1, <1>2 DEF Over
<1>4. /\ Over(call', Calls) /\ call'[c] = [op |-> op, key |-> key, who |-> who]
      /\ \A d \in Calls \ {c} : call'[d] = call[d]
  BY <1>1, <1>2 DEF Over
<1>5. CacheTyped'
  BY <1>1, <1>3, <1>4 DEF CacheInv, CacheTyped
<1>6. SharedSound'
  BY <1>1 DEF CacheInv, SharedSound
<1>7. Moves(c)
  BY <1>1, <1>3, <1>4 DEF Moves, Idles, Unstored, FlightOf, KeyOf
<1>8. got[c] = None
  BY <1>1 DEF CacheInv, GotSound
<1> QED
  BY <1>1, <1>3, <1>4, <1>5, <1>6, <1>7, <1>8

\* A call that reads or writes.
LEMMA BeginStep ==
    ASSUME CacheInv, NEW c \in Calls, CallGetOrSet(c) \/ CallHandler(c) \/ CallWrite(c)
    PROVE  CacheInv'
<1> DEFINE Legal(op, key, who, point) ==
      \/ op = "getOrSet" /\ key \in SourceKeys /\ point = "get"
      \/ /\ op = "respond" /\ who \in Identities /\ key = BuildKey(who)
         /\ point = IF key = None THEN "handle" ELSE "get"
      \/ op = "write" /\ point = "update"
<1>1. PICK op, key, who, point : Begin(c, op, key, who, point) /\ Legal(op, key, who, point)
  BY DEF CallGetOrSet, CallHandler, CallWrite
<1>2. scan' = scan /\ spared' = spared
  BY DEF CallGetOrSet, CallHandler, CallWrite
<1>3. Over(spared', Calls) /\ Over(scan', Calls)
  BY <1>2 DEF CacheInv, CacheTyped
<1>4. /\ CacheTyped' /\ SharedSound' /\ Moves(c)
      /\ pc'[c] = point /\ call'[c] = [op |-> op, key |-> key, who |-> who]
      /\ got'[c] = None /\ stored' = stored
  BY <1>1, <1>2, <1>3, Begins
<1>5. call'[c].op = op /\ call'[c].who = who /\ KeyOf(c)' = key
  BY <1>4 DEF KeyOf
<1>6. point = "get" => key \in Keys
  BY <1>1 DEF Keys
<1>7. CallSound(c)'
  BY <1>1, <1>4, <1>5, <1>6 DEF CallSound, At, Running
<1>8. InFlight(c)' /\ GotSound(c)'
  BY <1>1, <1>4 DEF InFlight, GotSound
<1>9. SweepSound(c)'
  <2>1. Unstored(c)
    BY <1>2, <1>4 DEF Unstored
  <2>2. point # "scan" /\ point # "unlink" /\ point # "swept"
    BY <1>1
  <2> QED
    BY <1>4, <2>1, <2>2, SweepKeeps DEF CacheInv
<1> QED
  BY <1>4, <1>7, <1>8, <1>9, OneMoves

LEMMA BeginSweepStep == ASSUME CacheInv, NEW c \in Calls, CallDeleteByPrefix(c) PROVE CacheInv'
<1>1. Over(spared, Calls) /\ Over(scan, Calls)
  BY DEF CacheInv, CacheTyped
<1>2. /\ Over(scan', Calls) /\ scan'[c] = [cursor |-> 1, page |-> {}]
      /\ \A d \in Calls \ {c} : scan'[d] = scan[d]
  BY <1>1 DEF CallDeleteByPrefix, Over
<1>3. /\ Over(spared', Calls) /\ spared'[c] = Prefixed
      /\ \A d \in Calls \ {c} : spared'[d] = spared[d]
  BY <1>1 DEF CallDeleteByPrefix, Over
<1>4. Begin(c, "sweep", None, Nobody, "scan")
  BY DEF CallDeleteByPrefix
<1>5. /\ CacheTyped' /\ SharedSound' /\ Moves(c) /\ pc'[c] = "scan" /\ got'[c] = None
      /\ call'[c] = [op |-> "sweep", key |-> None, who |-> Nobody]
  BY <1>2, <1>3, <1>4, Begins
<1>6. call'[c].op = "sweep"
  BY <1>5
<1>7. (CallSound(c) /\ InFlight(c) /\ GotSound(c))'
  BY <1>5, <1>6 DEF CallSound, InFlight, GotSound, At, Running
<1>8. SweepSound(c)'
  <2>1. \A k \in Prefixed : Slot[k] \in Nat /\ Slot[k] >= 1
    BY CacheAssumption
  <2>2. scan'[c].cursor = 1
    BY <1>2
  <2> QED
    BY <1>3, <1>5, <2>1, <2>2 DEF SweepSound, At
<1> QED
  BY <1>5, <1>7, <1>8, OneMoves

-----------------------------------------------------------------------------
LEMMA UpdateStep == ASSUME CacheInv, NEW c \in Calls, Update(c) PROVE CacheInv'
<1>1. At(c, "update") /\ ~At(c, "idle") /\ Goto(c, "invalidate")
      /\ UNCHANGED <<stored, flight, call, got, scan, spared>>
  BY DEF Update, At
<1>2. pc'[c] = "invalidate" /\ call'[c] = call[c] /\ KeyOf(c)' = KeyOf(c)
  BY <1>1, GotKept, Advances
<1>3. CallSound(c)' /\ InFlight(c)'
  BY <1>1, <1>2 DEF CacheInv, CallSound, InFlight, At, Running
<1> QED
  BY <1>1, <1>3, GoesOn

\* A step of c that changes entries of Redis, and ends or settles its call.
LEMMA Writes ==
    ASSUME CacheInv, NEW c \in Calls, NEW point \in {"settle", "done"}, Goto(c, point),
           ~At(c, "idle"), point = "settle" => At(c, "store"),
           UNCHANGED <<flight, call, got, scan>>, Over(stored', Keys), Over(spared', Calls),
           SharedSound', \A d \in Calls : Unstored(d)
    PROVE  CacheInv'
<1>1. Over(pc', Calls) /\ \A d \in Calls : pc'[d] = IF d = c THEN point ELSE pc[d]
  <2>1. Over(pc, Calls) /\ pc' = [pc EXCEPT ![c] = point]
    BY DEF CacheInv, CacheTyped, Goto
  <2> QED
    BY <2>1 DEF Over
<1>2. CacheTyped'
  BY <1>1 DEF CacheInv, CacheTyped
<1>3. Moves(c)
  BY <1>1 DEF Moves, Idles, FlightOf, KeyOf
<1>4. (CallSound(c) /\ InFlight(c) /\ GotSound(c))'
  BY <1>1 DEF CacheInv, CallSound, InFlight, GotSound, FlightOf, KeyOf, At, Running, Finished
<1>5. SweepSound(c)'
  BY <1>1, SweepKeeps DEF CacheInv
<1> QED
  BY <1>2, <1>3, <1>4, <1>5, OneMoves

\* What is put suits whoever shares its key.
LEMMA PutShares ==
    ASSUME CacheInv, NEW c \in Calls, pc[c] \in {"store", "remember"}, Put(c)
    PROVE  /\ Over(stored', Keys) /\ Over(spared', Calls)
           /\ SharedSound' /\ \A d \in Calls : Unstored(d)
<1>1. Over(stored, Keys) /\ Over(spared, Calls)
  BY DEF CacheInv, CacheTyped
<1>2. Over(stored', Keys) /\ \A k \in Keys : stored'[k] = IF k = KeyOf(c) THEN got[c] ELSE stored[k]
  BY <1>1 DEF Put, Over
<1>3. Over(spared', Calls) /\ \A d \in Calls : spared'[d] = spared[d] \ {KeyOf(c)}
  BY DEF Put, Over
<1>4. \A d \in Calls : Unstored(d)
  <2>1. \A d \in Calls : spared[d] \subseteq Keys
    BY CacheAssumption DEF CacheInv, SweepSound
  <2> QED
    BY <1>2, <1>3, <2>1 DEF Unstored
<1>5. ASSUME NEW who \in Identities, BuildKey(who) # None, stored'[BuildKey(who)] # None
      PROVE  Suits(stored'[BuildKey(who)].who, who)
  <2>1. BuildKey(who) \in Keys
    BY <1>5 DEF Keys
  <2>2. CASE BuildKey(who) # KeyOf(c)
    BY <1>2, <1>5, <2>1, <2>2 DEF CacheInv, SharedSound
  <2>3. CASE BuildKey(who) = KeyOf(c)
    <3>1. stored'[BuildKey(who)] = got[c] /\ got[c] # None
      BY <1>2, <1>5, <2>1, <2>3
    <3>2. CASE At(c, "store")
      <4>1. KeyOf(c) \in SourceKeys
        BY <3>2 DEF CacheInv, CallSound, At
      <4> QED
        BY <2>3, <4>1, CacheAssumption
    <3>3. CASE At(c, "remember")
      <4>1. /\ call[c].who \in Identities /\ KeyOf(c) = BuildKey(call[c].who)
            /\ Suits(got[c].who, call[c].who)
        BY <3>1, <3>3 DEF CacheInv, CallSound, GotSound, At
      <4>2. Scope = "public" \/ (who[Scope] # None /\ call[c].who[Scope] = who[Scope])
        BY <1>5, <2>3, <4>1 DEF BuildKey
      <4> QED
        BY <3>1, <4>1, <4>2 DEF Suits
    <3> QED
      BY <3>2, <3>3 DEF At
  <2> QED
    BY <2>2, <2>3
<1>6. SharedSound'
  BY <1>5 DEF SharedSound
<1> QED
  BY <1>2, <1>3, <1>4, <1>6

LEMMA PutStep == ASSUME CacheInv, NEW c \in Calls, Store(c) \/ Remember(c) PROVE CacheInv'
<1>1. PICK point \in {"settle", "done"} : Goto(c, point) /\ (point = "settle" => At(c, "store"))
  BY DEF Store, Remember
<1>2. /\ ~At(c, "idle") /\ pc[c] \in {"store", "remember"}
      /\ UNCHANGED <<flight, call, got, scan>>
  BY DEF Store, Remember, At
<1>3. Put(c) \/ UNCHANGED <<stored, spared>>
  BY DEF Store, Remember
<1>4. /\ Over(stored', Keys) /\ Over(spared', Calls)
      /\ SharedSound' /\ \A d \in Calls : Unstored(d)
  <2>1. CASE Put(c)
    BY <1>2, <2>1, PutShares
  <2>2. CASE UNCHANGED <<stored, spared>>
    BY <2>2 DEF CacheInv, CacheTyped, SharedSound, Unstored
  <2> QED
    BY <1>3, <2>1, <2>2
<1> QED
  BY <1>1, <1>2, <1>4, Writes

\* Entries are deleted.
LEMMA Forgets ==
    ASSUME CacheInv, Over(stored', Keys), UNCHANGED spared,
           \A k \in Keys : stored'[k] = stored[k] \/ stored'[k] = None
    PROVE  SharedSound' /\ (\A d \in Calls : Unstored(d)) /\ Over(spared', Calls)
<1>1. \A d \in Calls : spared[d] \subseteq Keys
  BY CacheAssumption DEF CacheInv, SweepSound
<1>2. \A d \in Calls : Unstored(d)
  BY <1>1 DEF Unstored
<1>3. \A who \in Identities : BuildKey(who) # None => BuildKey(who) \in Keys
  BY DEF Keys
<1>4. SharedSound'
  BY <1>3 DEF CacheInv, SharedSound
<1> QED
  BY <1>2, <1>4 DEF CacheInv, CacheTyped

LEMMA InvalidateStep ==
    ASSUME CacheInv, NEW c \in Calls, Invalidate(c) \/ SweepFails(c)
    PROVE  CacheInv'
<1>1. /\ ~At(c, "idle") /\ Goto(c, "done")
      /\ UNCHANGED <<flight, call, got, scan, spared>>
  BY DEF Invalidate, SweepFails, At
<1>2. Over(stored, Keys)
  BY DEF CacheInv, CacheTyped
<1>3. /\ Over(stored', Keys)
      /\ \A k \in Keys : stored'[k] = stored[k] \/ stored'[k] = None
  BY <1>2 DEF Invalidate, SweepFails, WithoutPage, Over
<1>4. SharedSound' /\ (\A d \in Calls : Unstored(d)) /\ Over(spared', Calls)
  BY <1>1, <1>3, Forgets
<1> QED
  BY <1>1, <1>3, <1>4, Writes

LEMMA NobodyMoves ==
    ASSUME CacheInv, UNCHANGED <<flight, pc, call, got, scan>>, Over(stored', Keys),
           Over(spared', Calls), SharedSound', \A d \in Calls : Unstored(d)
    PROVE  CacheInv'
<1>1. CacheTyped'
  BY DEF CacheInv, CacheTyped
<1>2. \A d \in Calls : Idles(d) /\ FlightOf(d)' = FlightOf(d)
  BY DEF Idles, FlightOf, KeyOf
<1> QED
  BY <1>1, <1>2, OthersKeep DEF CacheInv

LEMMA ExpireStep == ASSUME CacheInv, NEW k \in Keys, Expire(k) PROVE CacheInv'
<1>1. UNCHANGED <<flight, pc, call, got, scan, spared>>
  BY DEF Expire
<1>2. Over(stored, Keys)
  BY DEF CacheInv, CacheTyped
<1>3. /\ Over(stored', Keys)
      /\ \A j \in Keys : stored'[j] = stored[j] \/ stored'[j] = None
  BY <1>2 DEF Expire, Over
<1>4. SharedSound' /\ (\A d \in Calls : Unstored(d)) /\ Over(spared', Calls)
  BY <1>1, <1>3, Forgets
<1> QED
  BY <1>1, <1>3, <1>4, NobodyMoves

-----------------------------------------------------------------------------
\* The map of a process changes at one key.
LEMMA FlightChanges ==
    ASSUME CacheInv, NEW c \in Calls, KeyOf(c) \in Keys, NEW f \in Calls \cup {None},
           flight' = [flight EXCEPT ![Home[c]][KeyOf(c)] = f]
    PROVE  /\ flight' \in [Homes -> [Keys -> Calls \cup {None}]]
           /\ flight'[Home[c]][KeyOf(c)] = f
           /\ \A p \in Homes : \A k \in Keys :
                p # Home[c] \/ k # KeyOf(c) => flight'[p][k] = flight[p][k]
<1>1. flight \in [Homes -> [Keys -> Calls \cup {None}]] /\ Home[c] \in Homes
  BY DEF CacheInv, CacheTyped, Homes
<1> QED
  BY <1>1

\* Whoever flies another flight keeps it.
LEMMA OtherFlights ==
    ASSUME CacheInv, NEW c \in Calls, KeyOf(c) \in Keys, NEW f \in Calls \cup {None},
           flight' = [flight EXCEPT ![Home[c]][KeyOf(c)] = f], call' = call,
           NEW d \in Calls, d # FlightOf(c), pc[d] \in {"load", "store", "settle"}
    PROVE  FlightOf(d)' = FlightOf(d)
<1>1. FlightOf(d) = d /\ KeyOf(d) \in SourceKeys
  BY DEF CacheInv, InFlight, CallSound, At
<1>2. Home[d] # Home[c] \/ KeyOf(d) # KeyOf(c)
  BY <1>1 DEF FlightOf
<1>3. KeyOf(d) \in Keys /\ Home[d] \in Homes /\ KeyOf(d)' = KeyOf(d)
  BY <1>1 DEF Keys, Homes, KeyOf
<1> QED
  BY <1>2, <1>3, FlightChanges DEF FlightOf

LEMMA TakeOffStep == ASSUME CacheInv, NEW c \in Calls, TakeOff(c) PROVE CacheInv'
<1>1. /\ At(c, "decide") /\ Goto(c, "load") /\ call[c].op = "getOrSet" /\ FlightOf(c) = None
      /\ flight' = [flight EXCEPT ![Home[c]][KeyOf(c)] = c]
      /\ UNCHANGED <<stored, call, got, scan, spared>>
  BY DEF TakeOff
<1>2. KeyOf(c) \in Keys /\ KeyOf(c) \in SourceKeys
  BY <1>1 DEF CacheInv, CallSound, At
<1>3. Over(pc', Calls) /\ \A d \in Calls : pc'[d] = IF d = c THEN "load" ELSE pc[d]
  <2>1. Over(pc, Calls) /\ pc' = [pc EXCEPT ![c] = "load"]
    BY <1>1 DEF CacheInv, CacheTyped, Goto
  <2> QED
    BY <2>1 DEF Over
<1>4. CacheTyped'
  BY <1>1, <1>2, <1>3, FlightChanges DEF CacheInv, CacheTyped
<1>5. SharedSound' /\ \A d \in Calls : Unstored(d)
  BY <1>1 DEF CacheInv, SharedSound, Unstored
<1>6. ASSUME NEW d \in Calls \ {c}, pc[d] \in {"load", "store", "settle"}
      PROVE  FlightOf(d)' = FlightOf(d)
  <2>1. d # FlightOf(c)
    BY <1>1, CacheAssumption
  <2> QED
    BY <1>1, <1>2, <1>6, <2>1, OtherFlights
<1>7. Moves(c)
  BY <1>1, <1>3, <1>5, <1>6 DEF Moves, Idles
<1>8. FlightOf(c)' = c /\ KeyOf(c)' = KeyOf(c)
  <2>1. flight'[Home[c]][KeyOf(c)] = c
    BY <1>1, <1>2, FlightChanges
  <2>2. KeyOf(c)' = KeyOf(c)
    BY <1>1 DEF KeyOf
  <2> QED
    BY <2>1, <2>2 DEF FlightOf
<1>9. (CallSound(c) /\ InFlight(c) /\ GotSound(c))'
  BY <1>1, <1>2, <1>3, <1>8 DEF CallSound, InFlight, GotSound, At, Running
<1>10. SweepSound(c)'
  BY <1>3, <1>5, SweepKeeps DEF CacheInv
<1> QED
  BY <1>4, <1>5, <1>7, <1>9, <1>10, OneMoves

\* A flight ends for everybody aboard, and for nobody else.
LEMMA Lands ==
    ASSUME CacheInv, NEW c \in Calls, NEW outcome \in {"done", "failed"}, Land(c, outcome),
           pc[c] \in {"load", "settle"}, Over(got', Calls),
           \A d \in Calls \ Aboard(c) : got'[d] = got[d],
           UNCHANGED <<stored, call, scan, spared>>
    PROVE  CacheInv'
<1>1. KeyOf(c) \in SourceKeys /\ KeyOf(c) \in Keys /\ FlightOf(c) = c
  BY DEF CacheInv, CallSound, InFlight, At, Keys
<1>2. /\ flight' = [flight EXCEPT ![Home[c]][KeyOf(c)] = None]
      /\ Over(pc', Calls)
      /\ \A d \in Calls : pc'[d] = IF d \in Aboard(c) THEN outcome ELSE pc[d]
  BY DEF Land, Over
<1>3. CacheTyped'
  BY <1>1, <1>2, FlightChanges DEF CacheInv, CacheTyped
<1>4. SharedSound' /\ \A d \in Calls : Unstored(d)
  BY DEF CacheInv, SharedSound, Unstored
<1>5. ASSUME NEW d \in Calls PROVE (CallSound(d) /\ InFlight(d) /\ GotSound(d) /\ SweepSound(d))'
  <2>1. CASE d \in Aboard(c)
    <3>1. pc[d] \in {"load", "settle", "wait"}
      BY <2>1 DEF Aboard, At
    <3>2. call[d].op = "getOrSet" /\ KeyOf(d) \in SourceKeys
      BY <3>1 DEF CacheInv, CallSound, At
    <3>3. pc'[d] = outcome /\ call'[d] = call[d] /\ KeyOf(d)' = KeyOf(d)
      BY <1>2, <2>1 DEF KeyOf
    <3>4. (CallSound(d) /\ InFlight(d) /\ GotSound(d))'
      BY <3>2, <3>3 DEF CallSound, InFlight, GotSound, At, Finished
    <3>5. SweepSound(d)'
      BY <1>4, <3>3, SweepKeeps DEF CacheInv
    <3> QED
      BY <3>4, <3>5
  <2>2. CASE d \notin Aboard(c)
    <3>1. Idles(d) /\ d # FlightOf(c)
      BY <1>1, <1>2, <2>2 DEF Idles, Aboard
    <3>2. pc[d] \in {"load", "store", "settle"} => FlightOf(d)' = FlightOf(d)
      BY <1>1, <1>2, <3>1, OtherFlights
    <3> QED
      BY <1>4, <3>1, <3>2, OthersKeep
  <2> QED
    BY <2>1, <2>2
<1> QED
  BY <1>3, <1>4, <1>5 DEF CacheInv

LEMMA LandStep == ASSUME CacheInv, NEW c \in Calls, Settle(c) \/ LoaderFails(c) PROVE CacheInv'
<1>1. PICK outcome \in {"done", "failed"} : Land(c, outcome)
  BY DEF Settle, LoaderFails
<1>2. pc[c] \in {"load", "settle"} /\ UNCHANGED <<stored, call, scan, spared>>
  BY DEF Settle, LoaderFails, At
<1>3. Over(got', Calls) /\ \A d \in Calls \ Aboard(c) : got'[d] = got[d]
  BY DEF Settle, LoaderFails, CacheInv, CacheTyped, Over
<1> QED
  BY <1>1, <1>2, <1>3, Lands

-----------------------------------------------------------------------------
LEMMA ScanStep == ASSUME CacheInv, NEW c \in Calls, Scan(c) PROVE CacheInv'
<1> DEFINE cursor == scan[c].cursor
           next == NextCursor(cursor)
           page == Page(cursor)
<1>1. PICK point \in {"unlink", "scan", "swept"} :
        /\ Goto(c, point)
        /\ point = IF page # {} THEN "unlink" ELSE IF next = 0 THEN "swept" ELSE "scan"
  BY DEF Scan, Swept
<1>2. /\ At(c, "scan") /\ scan' = [scan EXCEPT ![c] = [cursor |-> next, page |-> page]]
      /\ UNCHANGED <<stored, flight, call, got, spared>>
  BY DEF Scan
<1>3. /\ cursor \in Nat \ {0} /\ spared[c] \subseteq Prefixed
      /\ \A k \in spared[c] : stored[k] = None \/ Slot[k] >= cursor
  BY <1>2 DEF CacheInv, SweepSound
<1>4. Over(pc', Calls) /\ \A d \in Calls : pc'[d] = IF d = c THEN point ELSE pc[d]
  <2>1. Over(pc, Calls) /\ pc' = [pc EXCEPT ![c] = point]
    BY <1>1 DEF CacheInv, CacheTyped, Goto
  <2> QED
    BY <2>1 DEF Over
<1>5. /\ Over(scan', Calls) /\ scan'[c].cursor = next /\ scan'[c].page = page
      /\ \A d \in Calls \ {c} : scan'[d] = scan[d]
  BY <1>2 DEF CacheInv, CacheTyped, Over
<1>6. CacheTyped' /\ SharedSound' /\ \A d \in Calls : Unstored(d)
  BY <1>2, <1>4, <1>5 DEF CacheInv, CacheTyped, SharedSound, Unstored
<1>7. Moves(c)
  BY <1>2, <1>4, <1>5, <1>6 DEF Moves, Idles, FlightOf, KeyOf
<1>8. (CallSound(c) /\ InFlight(c) /\ GotSound(c))'
  BY <1>2, <1>4 DEF CacheInv, CallSound, InFlight, GotSound, KeyOf, At, Running, Finished
<1>9. \A k \in spared[c] : \/ stored[k] = None \/ k \in page
                           \/ next # 0 /\ Slot[k] >= next
  <2> SUFFICES ASSUME NEW k \in spared[c], stored[k] # None, k \notin page
               PROVE  next # 0 /\ Slot[k] >= next
    OBVIOUS
  <2>1. k \in Keys /\ Slot[k] \in Nat /\ Slot[k] > cursor
    BY <1>3, CacheAssumption DEF Page
  <2> QED
    BY <1>3, <2>1 DEF NextCursor
<1>10. next \in Nat
  BY <1>3 DEF NextCursor
<1>11. SweepSound(c)'
  BY <1>1, <1>2, <1>3, <1>4, <1>5, <1>9, <1>10 DEF SweepSound, At
<1> QED
  BY <1>6, <1>7, <1>8, <1>11, OneMoves

LEMMA UnlinkStep == ASSUME CacheInv, NEW c \in Calls, Unlink(c) PROVE CacheInv'
<1> DEFINE cursor == scan[c].cursor
           page == scan[c].page
<1>1. PICK point \in {"scan", "swept"} :
        Goto(c, point) /\ point = IF cursor = 0 THEN "swept" ELSE "scan"
  BY DEF Unlink, Swept
<1>2. /\ At(c, "unlink") /\ UNCHANGED <<flight, call, got, scan, spared>>
      /\ stored' = [k \in Keys |-> IF k \in page THEN None ELSE stored[k]]
  BY DEF Unlink, WithoutPage
<1>3. /\ cursor \in Nat /\ spared[c] \subseteq Prefixed /\ Prefixed \subseteq Keys
      /\ \A k \in spared[c] : stored[k] = None \/ k \in page \/ (cursor # 0 /\ Slot[k] >= cursor)
  BY <1>2, CacheAssumption DEF CacheInv, SweepSound
<1>4. Over(pc', Calls) /\ \A d \in Calls : pc'[d] = IF d = c THEN point ELSE pc[d]
  <2>1. Over(pc, Calls) /\ pc' = [pc EXCEPT ![c] = point]
    BY <1>1 DEF CacheInv, CacheTyped, Goto
  <2> QED
    BY <2>1 DEF Over
<1>5. /\ Over(stored', Keys)
      /\ \A k \in Keys : stored'[k] = IF k \in page THEN None ELSE stored[k]
  BY <1>2 DEF Over
<1>6. SharedSound' /\ (\A d \in Calls : Unstored(d)) /\ Over(spared', Calls)
  BY <1>2, <1>5, Forgets
<1>7. CacheTyped'
  BY <1>2, <1>4, <1>5 DEF CacheInv, CacheTyped
<1>8. Moves(c)
  BY <1>2, <1>4, <1>6 DEF Moves, Idles, FlightOf, KeyOf
<1>9. (CallSound(c) /\ InFlight(c) /\ GotSound(c))'
  BY <1>2, <1>4 DEF CacheInv, CallSound, InFlight, GotSound, KeyOf, At, Running, Finished
<1>10. SweepSound(c)'
  <2>1. \A k \in spared[c] : stored'[k] = None \/ (cursor # 0 /\ Slot[k] >= cursor)
    BY <1>3, <1>5
  <2> QED
    BY <1>1, <1>2, <1>3, <1>4, <2>1 DEF SweepSound, At
<1> QED
  BY <1>6, <1>7, <1>8, <1>9, <1>10, OneMoves

-----------------------------------------------------------------------------
LEMMA CacheStep ==
    ASSUME CacheInv, [\/ CacheNext
                      \/ (Tick \/ RedisFlip) /\ UNCHANGED cacheVars]_<<redisVars, cacheVars>>
    PROVE  CacheInv'
<1>1. CASE UNCHANGED cacheVars
  <2>1. UNCHANGED <<flight, pc, call, got, scan>> /\ stored' = stored /\ spared' = spared
    BY <1>1 DEF cacheVars
  <2>2. Over(stored', Keys) /\ Over(spared', Calls) /\ SharedSound' /\ \A d \in Calls : Unstored(d)
    BY <2>1 DEF CacheInv, CacheTyped, SharedSound, Unstored
  <2> QED
    BY <2>1, <2>2, NobodyMoves
<1>2. ASSUME NEW c \in Calls, Continue(c) PROVE CacheInv'
  BY <1>2, GetStep, HitStep, MissStep, JoinStep, TakeOffStep, LoadStep, PutStep, LandStep,
     HandleStep, QuitStep, UpdateStep, InvalidateStep, ScanStep, UnlinkStep DEF Continue
<1>3. CASE CacheNext
  BY <1>2, <1>3, BeginStep, BeginSweepStep, ExpireStep DEF CacheNext
<1> QED
  BY <1>1, <1>3

LEMMA CacheInvariant == CacheSpec => []CacheInv
<1>1. RedisInit /\ CacheInit => CacheInv
  BY CacheInvInit
<1> QED
  BY <1>1, CacheStep, PTL DEF CacheSpec

-----------------------------------------------------------------------------
\* getOrSet and its inFlight map: two calls of one process never load one key
\* at once, from the miss of either until its value is stored.
THEOREM OneFlightPerKey == CacheSpec => []SingleFlight
<1>1. CacheInv => SingleFlight
  BY DEF CacheInv, InFlight, FlightOf, SingleFlight
<1> QED
  BY <1>1, CacheInvariant, PTL

\* HttpCacheInterceptor: a response is served only to the user, or the tenant,
\* it was rendered for, or to anybody if it is public.
THEOREM ResponsesStayScoped == CacheSpec => []ScopedResponses
<1>1. CacheInv => ScopedResponses
  BY DEF CacheInv, GotSound, Suits, ScopedResponses, At
<1> QED
  BY <1>1, CacheInvariant, PTL

\* deleteByPrefix: a sweep that met no error leaves, of the keys under its
\* prefix, only those stored after it began.
THEOREM SweepsLeaveNothing == CacheSpec => []PrefixGone
<1>1. CacheInv => PrefixGone
  BY DEF CacheInv, SweepSound, PrefixGone
<1> QED
  BY <1>1, CacheInvariant, PTL

-----------------------------------------------------------------------------
\* The limiter and the cache share a Redis and change no variable in common:
\* beside the other, each does what it does alone, so that all of the above
\* holds of both together.
THEOREM EachAsAlone == Spec => ThrottlerSpec /\ CacheSpec
<1> DEFINE Limiting == \/ ThrottlerNext
                       \/ (Tick \/ RedisFlip) /\ UNCHANGED throttleVars
           Caching == \/ CacheNext
                      \/ (Tick \/ RedisFlip) /\ UNCHANGED cacheVars
<1>1. Init => RedisInit /\ ThrottlerInit /\ CacheInit
  BY DEF Init
<1>2. ASSUME NEW v \in Visits,
             \/ \E route \in Routes, client \in Clients : Visit(v, route, client)
             \/ MeetBlock(v) \/ Admit(v) \/ Exceed(v) \/ FailOpen(v)
      PROVE  UNCHANGED redisVars
  BY <1>2 DEF Visit, MeetBlock, Admit, Exceed, FailOpen
<1>3. ASSUME CacheNext PROVE UNCHANGED redisVars
  BY <1>3 DEF CacheNext, CallGetOrSet, CallHandler, CallWrite, CallDeleteByPrefix, Begin,
     Continue, Get, Hit, Miss, Join, TakeOff, Load, Store, Settle, LoaderFails, Handle,
     HandlerFails, Remember, Update, Invalidate, Scan, Unlink, SweepFails, Expire
<1>4. ThrottlerNext => UNCHANGED redisVars
  BY <1>2 DEF ThrottlerNext
<1>5. [Next]_redisClientVars => [Limiting]_<<redisVars, throttleVars>> /\ [Caching]_<<redisVars, cacheVars>>
  BY <1>3, <1>4 DEF Next, redisClientVars
<1> QED
  BY <1>1, <1>5, PTL DEF Spec, ThrottlerSpec, CacheSpec
=============================================================================
