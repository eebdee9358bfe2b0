----------------------- MODULE UserListingProperties -----------------------
(***************************************************************************)
(* What the listings of users promise to a client that follows them.       *)
(***************************************************************************)
EXTENDS UserListing

ListingTypeOK ==
    /\ DOMAIN users \subseteq UserIds
    /\ users \in [DOMAIN users -> Rows]
    /\ walk \in [at : {"idle", "walking", "over", "refused", "astray"},
                 direction : Directions,
                 cursor : CursorKey \cup {NoCursor}]
    /\ served \in [UserIds -> 0..Often]
    /\ kept \subseteq DOMAIN users

\* A walk that came to its end was sent every row that was listed from its
\* first page to its last, whatever was created, edited or deleted meanwhile
\* and however many rows share a timestamp (findManyByCursor: "either skipped
\* or served twice").
NoneSkipped == walk.at = "over" => \A id \in kept : served[id] > 0

\* No row is sent twice in a walk, although rows are created on both sides of
\* the cursor and timestamps are shared across pages.
NoneTwice == \A id \in UserIds : served[id] <= 1

-----------------------------------------------------------------------------
(* Why no row is skipped and none sent twice: the cursor separates the rows  *)
(* that were sent from those that are still to come.                        *)

Ahead(id) == walk.cursor = NoCursor \/ Beyond(walk.direction, Key(id), walk.cursor)

\* A walk that has not sent a page has no cursor, and the other way round.
Fresh == /\ walk.at = "idle" => walk.cursor = NoCursor /\ kept = {}
         /\ walk.at \in {"idle", "walking"} /\ walk.cursor = NoCursor
                => \A id \in UserIds : served[id] = 0

SentIsBehind ==
    walk.at = "walking" =>
        \A id \in UserIds : served[id] > 0 => id \in DOMAIN users /\ ~Ahead(id)

KeptIsSentOrAhead ==
    \A id \in kept :
        /\ Visible(users[id])
        /\ walk.at = "walking" => served[id] > 0 \/ Ahead(id)

WalkInv == /\ ListingTypeOK /\ Fresh /\ SentIsBehind /\ KeptIsSentOrAhead
           /\ NoneSkipped /\ NoneTwice
=============================================================================
