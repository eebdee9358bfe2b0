----------------------------- MODULE UserListing -----------------------------
(***************************************************************************)
(* The listing of the user repository by cursor (findManyByCursor,         *)
(* pagination.ts): pages which a client follows to the end                 *)
(* while accounts are created and edited.                                  *)
(*                                                                         *)
(* A row is sorted by (createdAt, id); createdAt is the clock of the       *)
(* replica that created it, so rows may appear anywhere in the order.      *)
(***************************************************************************)
EXTENDS Naturals, FiniteSets

CONSTANTS
    UserIds,     \* ids, in their order
    Instants,    \* the timestamps rows are created at
    PageLimit,   \* the limit of the requests
    Filters,     \* the filters of the requests
    NoCursor     \* the empty cursor, which asks for the first page

Directions == {"asc", "desc"}
Often == 2
Standings == {"ACTIVE", "SUSPENDED"}

CursorKey == [createdAt : Instants, id : UserIds]

ASSUME ListingAssumption ==
    /\ UserIds \subseteq Nat /\ IsFiniteSet(UserIds)
    /\ Instants \subseteq Nat
    /\ PageLimit \in Nat \ {0}
    /\ NoCursor \notin CursorKey
    /\ Filters \in [statuses : SUBSET Standings, includeDeleted : BOOLEAN]

VARIABLES
    users,       \* the rows
    walk,        \* the client: where it is, its direction and its cursor
    served,      \* how often each row was sent to it: 0, 1 or Often
    kept         \* for the properties: the rows listed since it began

listingVars == <<users, walk, served, kept>>

\* toWhere.  "statuses" is one of them, or all without a status filter.
Visible(user) ==
    /\ ~user.deleted \/ Filters.includeDeleted
    /\ user.status \in Filters.statuses

Listable == {id \in DOMAIN users : Visible(users[id])}

Key(id) == [createdAt |-> users[id].createdAt, id |-> id]

Further(direction, m, n) == IF direction = "desc" THEN m < n ELSE m > n

\* ORDER BY createdAt, id: k comes after c.
Beyond(direction, k, c) ==
    \/ Further(direction, k.createdAt, c.createdAt)
    \/ k.createdAt = c.createdAt /\ Further(direction, k.id, c.id)

\* A seek on the timestamp alone, past it or from it on.
SeekPastTime(direction, k, c) == Further(direction, k.createdAt, c.createdAt)
SeekFromTime(direction, k, c) == ~Further(direction, c.createdAt, k.createdAt)

\* toKeysetCondition: the timestamp, and the id among equal timestamps.
Seek(direction, k, c) ==
    \/ Further(direction, k.createdAt, c.createdAt)
    \/ k.createdAt = c.createdAt /\ Further(direction, k.id, c.id)

-----------------------------------------------------------------------------
(* findManyByCursor *)

Found(cursor) ==
    {id \in Listable : cursor = NoCursor \/ Seek(walk.direction, Key(id), cursor)}

\* ORDER BY and LIMIT: P is the first n of S.
FirstRows(P, S, n) ==
    /\ Cardinality(P) = IF Cardinality(S) > n THEN n ELSE Cardinality(S)
    /\ \A p \in P, q \in S \ P : Beyond(walk.direction, Key(q), Key(p))

LastRow(P, id) ==
    id \in P /\ \A p \in P \ {id} : Beyond(walk.direction, Key(id), Key(p))

\* The client is answered the rows of a page.
Serve(page) ==
    /\ served' = [id \in UserIds |->
            IF id \in page /\ served[id] < Often THEN served[id] + 1 ELSE served[id]]
    /\ UNCHANGED <<users, kept>>

\* limit + 1 rows: the last tells that there is more, and is not sent.
TakePage(cursor, rows, page) ==
    /\ FirstRows(rows, Found(cursor), PageLimit + 1)
    /\ IF Cardinality(rows) > PageLimit
       THEN /\ FirstRows(page, rows, PageLimit)
            /\ \E id \in page :
                /\ LastRow(page, id)
                /\ walk' = [walk EXCEPT !.cursor = Key(id)]
       ELSE /\ page = rows
            /\ walk' = [walk EXCEPT !.at = "over", !.cursor = NoCursor]
    /\ Serve(page)

\* The client sends the cursor it was given.
AskPage ==
    /\ walk.at = "walking"
    /\ \E rows \in SUBSET Found(walk.cursor) :
         \E page \in SUBSET rows : TakePage(walk.cursor, rows, page)

\* The client sends a cursor that got damaged.  One that does not decode is
\* refused; one that does, or is empty, asks for a page elsewhere in the order,
\* which belongs to another walk.
LoseCursor ==
    /\ walk.at = "walking"
    /\ \E point \in {"refused", "astray"} : walk' = [walk EXCEPT !.at = point]
    /\ UNCHANGED <<users, served, kept>>

StartWalk(direction) ==
    /\ walk.at = "idle"
    /\ walk' = [at |-> "walking", direction |-> direction, cursor |-> NoCursor]
    /\ kept' = Listable
    /\ UNCHANGED <<users, served>>

-----------------------------------------------------------------------------
(* What happens to the table meanwhile *)

CreateUser(id, createdAt) ==
    /\ id \notin DOMAIN users
    /\ users' = [k \in DOMAIN users \cup {id} |->
            IF k = id THEN [createdAt |-> createdAt, status |-> "ACTIVE", deleted |-> FALSE]
            ELSE users[k]]
    /\ UNCHANGED <<walk, served, kept>>

\* save: createdAt is not in its data.
SaveUser(id, status, deleted) ==
    /\ id \in DOMAIN users
    /\ users' = [users EXCEPT ![id].status = status, ![id].deleted = @ \/ deleted]
    /\ kept' = {k \in kept : Visible(users'[k])}
    /\ UNCHANGED <<walk, served>>

-----------------------------------------------------------------------------
Rows == [createdAt : Instants, status : Standings, deleted : BOOLEAN]

ListingInit ==
    /\ \E ids \in SUBSET UserIds : users \in [ids -> Rows]
    /\ walk = [at |-> "idle", direction |-> "desc", cursor |-> NoCursor]
    /\ served = [id \in UserIds |-> 0]
    /\ kept = {}

WalkNext == AskPage \/ LoseCursor \/ \E direction \in Directions : StartWalk(direction)

ListingNext ==
    \/ WalkNext
    \/ \E id \in UserIds :
        \/ \E createdAt \in Instants : CreateUser(id, createdAt)
        \/ \E status \in Standings, deleted \in BOOLEAN : SaveUser(id, status, deleted)

ListingSpec == ListingInit /\ [][ListingNext]_listingVars
=============================================================================
