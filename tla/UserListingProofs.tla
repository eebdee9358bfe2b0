-------------------------- MODULE UserListingProofs --------------------------
(***************************************************************************)
(* A walk by cursor skips no row and sends none twice, for any accounts,   *)
(* timestamps, page size and filters.                                      *)
(***************************************************************************)
EXTENDS UserListingProperties, FiniteSetTheorems, TLAPS

\* The order of the listings, in either direction, is a strict order in which
\* any two rows are comparable.
LEMMA BeyondIsAnOrder ==
    ASSUME NEW dir \in Directions, NEW a \in CursorKey, NEW b \in CursorKey,
           NEW c \in CursorKey
    PROVE  /\ ~Beyond(dir, a, a)
           /\ Beyond(dir, a, b) => ~Beyond(dir, b, a)
           /\ Beyond(dir, a, b) /\ Beyond(dir, b, c) => Beyond(dir, a, c)
<1>1. /\ a.createdAt \in Nat /\ b.createdAt \in Nat /\ c.createdAt \in Nat
      /\ a.id \in Nat /\ b.id \in Nat /\ c.id \in Nat
  BY ListingAssumption DEF CursorKey
<1>2. CASE dir = "desc"
  BY <1>1, <1>2 DEF Beyond, Further
<1>3. CASE dir = "asc"
  BY <1>1, <1>3 DEF Beyond, Further
<1> QED
  BY <1>2, <1>3 DEF Directions

\* The condition of the code is the order of the listing.
LEMMA SeekIsBeyond ==
    ASSUME NEW dir, NEW k, NEW c
    PROVE  Seek(dir, k, c) <=> Beyond(dir, k, c)
BY DEF Seek, Beyond

LEMMA KeysAreCursors ==
    ASSUME ListingTypeOK
    PROVE  \A id \in DOMAIN users : Key(id) \in CursorKey
BY DEF ListingTypeOK, Key, CursorKey, Rows

LEMMA CursorsAreKeys ==
    ASSUME ListingTypeOK, walk.cursor # NoCursor
    PROVE  walk.cursor \in CursorKey
BY ListingAssumption DEF ListingTypeOK

LEMMA FoundIsAhead ==
    ASSUME ListingTypeOK
    PROVE  /\ \A id \in Found(walk.cursor) : id \in DOMAIN users /\ id \in UserIds
           /\ \A id \in DOMAIN users :
                id \in Found(walk.cursor) <=> Visible(users[id]) /\ Ahead(id)
BY SeekIsBeyond DEF ListingTypeOK, Found, Listable, Ahead

\* A page that is not full is all there is.
LEMMA ShortPageIsAll ==
    ASSUME NEW S, IsFiniteSet(S), NEW P \in SUBSET S, NEW n \in Nat,
           FirstRows(P, S, n + 1), ~(Cardinality(P) > n)
    PROVE  P = S
<1>1. Cardinality(P) \in Nat /\ Cardinality(S) \in Nat
  BY FS_Subset, FS_CardinalityType
<1>2. Cardinality(S) = Cardinality(P)
  BY <1>1 DEF FirstRows
<1> QED
  BY <1>2, FS_Subset

-----------------------------------------------------------------------------
LEMMA WalkInit == ListingInit => WalkInv
<1> SUFFICES ASSUME ListingInit PROVE WalkInv
  OBVIOUS
<1>1. DOMAIN users \subseteq UserIds /\ users \in [DOMAIN users -> Rows]
  BY DEF ListingInit
<1> QED
  BY <1>1 DEF ListingInit, WalkInv, ListingTypeOK, Fresh, SentIsBehind, KeptIsSentOrAhead,
              NoneSkipped, NoneTwice, Directions, Often

\* The last page: everything that was still ahead.
LEMMA LastPageStep ==
    ASSUME WalkInv, walk.at = "walking",
           NEW rows \in SUBSET Found(walk.cursor),
           FirstRows(rows, Found(walk.cursor), PageLimit + 1),
           ~(Cardinality(rows) > PageLimit),
           walk' = [walk EXCEPT !.at = "over", !.cursor = NoCursor],
           Serve(rows)
    PROVE  WalkInv'
<1> USE DEF Often
<1>1. ListingTypeOK
  BY DEF WalkInv
<1>2. rows = Found(walk.cursor)
  <2>1. IsFiniteSet(Found(walk.cursor))
    BY <1>1, FoundIsAhead, ListingAssumption, FS_Subset
  <2> QED
    BY <2>1, ShortPageIsAll, ListingAssumption
<1>3. \A id \in UserIds : served[id] \in 0..1
  BY <1>1 DEF WalkInv, NoneTwice, ListingTypeOK
<1>4. ListingTypeOK'
  <2>1. served' \in [UserIds -> 0..Often]
    BY <1>1 DEF ListingTypeOK, Serve
  <2>2. walk' \in [at : {"idle", "walking", "over", "refused", "astray"}, direction : Directions,
                    cursor : CursorKey \cup {NoCursor}]
    BY <1>1 DEF ListingTypeOK
  <2> QED
    BY <1>1, <2>1, <2>2 DEF ListingTypeOK, Serve
<1>5. \A id \in rows : served[id] = 0
  <2>1. \A id \in rows : id \in UserIds /\ id \in DOMAIN users /\ Ahead(id)
    BY <1>1, FoundIsAhead
  <2> QED
    BY <2>1, <1>3 DEF WalkInv, SentIsBehind
<1>6. NoneTwice'
  BY <1>3, <1>5 DEF NoneTwice, Serve
<1>7. NoneSkipped'
  <2> SUFFICES ASSUME NEW id \in kept PROVE served'[id] > 0
    BY DEF NoneSkipped, Serve
  <2>1. id \in DOMAIN users /\ id \in UserIds /\ Visible(users[id])
    BY <1>1 DEF WalkInv, ListingTypeOK, KeptIsSentOrAhead
  <2>2. served[id] > 0 \/ id \in rows
    BY <1>1, <1>2, <2>1, FoundIsAhead DEF WalkInv, KeptIsSentOrAhead
  <2> QED
    BY <2>1, <2>2, <1>3 DEF Serve
<1>8. (Fresh /\ SentIsBehind /\ KeptIsSentOrAhead)'
  <2>1. walk'.at = "over"
    BY <1>1 DEF ListingTypeOK
  <2>2. \A id \in kept' : Visible(users[id])'
    BY DEF WalkInv, KeptIsSentOrAhead, Visible, Serve
  <2> QED
    BY <2>1, <2>2 DEF Fresh, SentIsBehind, KeptIsSentOrAhead
<1> QED
  BY <1>4, <1>6, <1>7, <1>8 DEF WalkInv

\* A page with more behind it: the cursor moves to its last row.
LEMMA FullPageStep ==
    ASSUME WalkInv, walk.at = "walking",
           NEW rows \in SUBSET Found(walk.cursor), NEW page \in SUBSET rows,
           FirstRows(rows, Found(walk.cursor), PageLimit + 1),
           FirstRows(page, rows, PageLimit),
           NEW last \in page, LastRow(page, last),
           walk' = [walk EXCEPT !.cursor = Key(last)],
           Serve(page)
    PROVE  WalkInv'
<1> DEFINE dir == walk.direction
<1> USE DEF Often
<1>1. ListingTypeOK
  BY DEF WalkInv
<1>2. /\ \A id \in DOMAIN users : id \in UserIds /\ Key(id) \in CursorKey
      /\ dir \in Directions /\ last \in DOMAIN users /\ kept \subseteq DOMAIN users
      /\ \A id \in rows : id \in DOMAIN users /\ Ahead(id)
  BY <1>1, KeysAreCursors, FoundIsAhead DEF ListingTypeOK
<1>3. \A id \in UserIds : served[id] \in 0..1
  BY <1>1 DEF WalkInv, NoneTwice, ListingTypeOK
<1>4. /\ walk'.cursor = Key(last) /\ walk'.direction = dir /\ walk'.at = "walking"
      /\ Key(last) # NoCursor /\ users' = users /\ kept' = kept
      /\ \A id : Key(id)' = Key(id)
  BY <1>1, <1>2, ListingAssumption DEF ListingTypeOK, Serve, Key
<1>5. ListingTypeOK'
  BY <1>1, <1>2 DEF ListingTypeOK, Serve
<1>6. \A id \in DOMAIN users : Ahead(id)' <=> Beyond(dir, Key(id), Key(last))
  BY <1>4 DEF Ahead
<1>7. NoneTwice'
  <2>1. \A id \in page : served[id] = 0
    BY <1>2, <1>3 DEF WalkInv, SentIsBehind
  <2> QED
    BY <1>3, <2>1 DEF NoneTwice, Serve
<1>8. SentIsBehind'
  <2> SUFFICES ASSUME NEW id \in UserIds, served'[id] > 0
               PROVE  id \in DOMAIN users /\ ~Beyond(dir, Key(id), Key(last))
    BY <1>4, <1>6 DEF SentIsBehind
  <2>1. CASE id \in page
    <3>1. id = last \/ Beyond(dir, Key(last), Key(id))
      BY <2>1 DEF LastRow
    <3> QED
      BY <2>1, <3>1, <1>2, BeyondIsAnOrder
  <2>2. CASE id \notin page
    <3>1. served[id] > 0
      BY <2>2 DEF Serve, ListingTypeOK, WalkInv
    <3>2. id \in DOMAIN users /\ ~Ahead(id)
      BY <3>1 DEF WalkInv, SentIsBehind
    <3>3. walk.cursor \in CursorKey /\ Beyond(dir, Key(last), walk.cursor)
      BY <1>1, <1>2, <3>2, CursorsAreKeys DEF Ahead
    <3> QED
      BY <3>2, <3>3, <1>2, BeyondIsAnOrder DEF Ahead
  <2> QED
    BY <2>1, <2>2
<1>9. KeptIsSentOrAhead'
  <2> SUFFICES ASSUME NEW id \in kept
               PROVE  /\ Visible(users[id])
                      /\ served'[id] > 0 \/ Beyond(dir, Key(id), Key(last))
    BY <1>2, <1>4, <1>6 DEF KeptIsSentOrAhead, Visible
  <2>1. Visible(users[id]) /\ id \in DOMAIN users /\ (served[id] > 0 \/ Ahead(id))
    BY <1>2 DEF WalkInv, KeptIsSentOrAhead
  <2>2. CASE served[id] > 0 \/ id \in page
    BY <2>1, <2>2, <1>2, <1>3 DEF Serve
  <2>3. CASE ~(served[id] > 0) /\ id \notin page
    <3>1. id \in Found(walk.cursor)
      BY <1>1, <2>1, <2>3, FoundIsAhead
    <3>2. CASE id \in rows
      BY <2>3, <3>2, <2>1, <1>4 DEF FirstRows
    <3>3. CASE id \notin rows
      BY <3>1, <3>3, <2>1 DEF FirstRows
    <3> QED
      BY <3>2, <3>3
  <2> QED
    BY <2>1, <2>2, <2>3
<1> QED
  BY <1>4, <1>5, <1>7, <1>8, <1>9 DEF WalkInv, Fresh, NoneSkipped

LEMMA AskPageStep == ASSUME WalkInv, AskPage PROVE WalkInv'
<1>1. PICK rows \in SUBSET Found(walk.cursor) :
          \E page \in SUBSET rows : TakePage(walk.cursor, rows, page)
  BY DEF AskPage
<1>2. PICK page \in SUBSET rows : TakePage(walk.cursor, rows, page)
  BY <1>1
<1>3. CASE Cardinality(rows) > PageLimit
  <2>1. PICK last \in page : LastRow(page, last) /\ walk' = [walk EXCEPT !.cursor = Key(last)]
    BY <1>2, <1>3 DEF TakePage
  <2> QED
    BY <1>2, <1>3, <2>1, FullPageStep DEF TakePage, AskPage
<1>4. CASE ~(Cardinality(rows) > PageLimit)
  BY <1>2, <1>4, LastPageStep DEF TakePage, AskPage
<1> QED
  BY <1>3, <1>4

LEMMA LoseCursorStep == ASSUME WalkInv, LoseCursor PROVE WalkInv'
BY DEF LoseCursor, WalkInv, ListingTypeOK, Fresh, SentIsBehind, KeptIsSentOrAhead,
       NoneSkipped, NoneTwice, Visible

LEMMA StartWalkStep ==
    ASSUME WalkInv, NEW direction \in Directions, StartWalk(direction)
    PROVE  WalkInv'
<1>1. ListingTypeOK'
  BY DEF WalkInv, ListingTypeOK, StartWalk, Listable
<1>2. KeptIsSentOrAhead'
  BY DEF WalkInv, KeptIsSentOrAhead, StartWalk, Listable, Ahead, Visible
<1>3. (Fresh /\ SentIsBehind /\ NoneSkipped /\ NoneTwice)'
  BY DEF WalkInv, ListingTypeOK, Fresh, SentIsBehind, NoneSkipped, NoneTwice, StartWalk
<1> QED
  BY <1>1, <1>2, <1>3 DEF WalkInv

\* What is written to the table leaves the order of its rows alone.
LEMMA WriteStep ==
    ASSUME WalkInv, DOMAIN users \subseteq DOMAIN users', ListingTypeOK',
           \A id \in DOMAIN users : Key(id)' = Key(id),
           kept' \subseteq kept, \A id \in kept' : Visible(users[id])',
           UNCHANGED <<walk, served>>
    PROVE  WalkInv'
<1>1. \A id \in DOMAIN users : Ahead(id)' <=> Ahead(id)
  BY DEF Ahead
<1>2. kept \subseteq DOMAIN users
  BY DEF WalkInv, ListingTypeOK
<1>3. SentIsBehind'
  BY <1>1 DEF WalkInv, SentIsBehind
<1>4. KeptIsSentOrAhead'
  BY <1>1, <1>2 DEF WalkInv, KeptIsSentOrAhead, Visible
<1> QED
  BY <1>3, <1>4 DEF WalkInv, Fresh, NoneSkipped, NoneTwice

LEMMA CreateUserStep ==
    ASSUME WalkInv, NEW id \in UserIds, NEW createdAt \in Instants, CreateUser(id, createdAt)
    PROVE  WalkInv'
<1>1. DOMAIN users' = DOMAIN users \cup {id} /\ \A k \in DOMAIN users : users'[k] = users[k]
  BY DEF CreateUser
<1>2. ListingTypeOK'
  BY DEF WalkInv, ListingTypeOK, CreateUser, Rows, Standings
<1>3. kept' = kept /\ kept \subseteq DOMAIN users /\ \A k \in kept : Visible(users[k])
  BY DEF WalkInv, ListingTypeOK, KeptIsSentOrAhead, CreateUser
<1>4. \A k \in DOMAIN users : Key(k)' = Key(k)
  BY <1>1 DEF Key
<1>5. \A k \in kept' : Visible(users[k])'
  BY <1>1, <1>3 DEF Visible
<1> QED
  BY <1>1, <1>2, <1>3, <1>4, <1>5, WriteStep DEF CreateUser

LEMMA SaveUserStep ==
    ASSUME WalkInv, NEW id \in UserIds, NEW status \in Standings, NEW deleted \in BOOLEAN,
           SaveUser(id, status, deleted)
    PROVE  WalkInv'
<1>1. /\ DOMAIN users' = DOMAIN users
      /\ \A k \in DOMAIN users : users'[k].createdAt = users[k].createdAt /\ users'[k] \in Rows
  BY DEF WalkInv, ListingTypeOK, SaveUser, Rows
<1>2. kept' = {k \in kept : Visible(users'[k])}
  BY DEF SaveUser
<1>3. ListingTypeOK'
  <2>1. users' \in [DOMAIN users' -> Rows]
    BY <1>1 DEF SaveUser, WalkInv, ListingTypeOK
  <2> QED
    BY <1>1, <1>2, <2>1 DEF WalkInv, ListingTypeOK, SaveUser
<1>4. \A k \in DOMAIN users : Key(k)' = Key(k)
  BY <1>1 DEF Key
<1>5. \A k \in kept' : Visible(users[k])'
  BY <1>2 DEF Visible
<1> QED
  BY <1>1, <1>2, <1>3, <1>4, <1>5, WriteStep DEF SaveUser

LEMMA WalkStep == WalkInv /\ [ListingNext]_listingVars => WalkInv'
<1> SUFFICES ASSUME WalkInv, [ListingNext]_listingVars PROVE WalkInv'
  OBVIOUS
<1>1. CASE AskPage
  BY <1>1, AskPageStep
<1>2. ASSUME NEW direction \in Directions, StartWalk(direction) PROVE WalkInv'
  BY <1>2, StartWalkStep
<1>3. ASSUME NEW id \in UserIds, NEW createdAt \in Instants, CreateUser(id, createdAt)
      PROVE  WalkInv'
  BY <1>3, CreateUserStep
<1>4. ASSUME NEW id \in UserIds, NEW status \in Standings, NEW deleted \in BOOLEAN,
             SaveUser(id, status, deleted)
      PROVE  WalkInv'
  BY <1>4, SaveUserStep
<1>5. CASE UNCHANGED listingVars
  BY <1>5 DEF listingVars, WalkInv, ListingTypeOK, Fresh, SentIsBehind, KeptIsSentOrAhead,
              NoneSkipped, NoneTwice, Ahead, Key, Visible
<1>6. CASE LoseCursor
  BY <1>6, LoseCursorStep
<1> QED
  BY <1>1, <1>2, <1>3, <1>4, <1>5, <1>6 DEF ListingNext, WalkNext

LEMMA WalkInvariant == ListingSpec => []WalkInv
BY WalkInit, WalkStep, PTL DEF ListingSpec

-----------------------------------------------------------------------------
\* findManyByCursor: a walk to the end was sent every row that was listed all
\* the while.
THEOREM WalksSkipNothing == ListingSpec => []NoneSkipped
<1>1. WalkInv => NoneSkipped
  BY DEF WalkInv
<1> QED
  BY <1>1, WalkInvariant, PTL

\* findManyByCursor: no row is sent twice in a walk.
THEOREM WalksRepeatNothing == ListingSpec => []NoneTwice
<1>1. WalkInv => NoneTwice
  BY DEF WalkInv
<1> QED
  BY <1>1, WalkInvariant, PTL

\* The listing is well typed, for any accounts, timestamps and page size.
THEOREM ListingTyped == ListingSpec => []ListingTypeOK
<1>1. WalkInv => ListingTypeOK
  BY DEF WalkInv
<1> QED
  BY <1>1, WalkInvariant, PTL
=============================================================================
