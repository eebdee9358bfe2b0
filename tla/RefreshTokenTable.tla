------------------------- MODULE RefreshTokenTable -------------------------
(***************************************************************************)
(* The refresh_tokens table: the RefreshToken entity                       *)
(* (domain/auth/refresh-token.entity.ts) and the statements of             *)
(* prisma-refresh-token.repository.ts, each one atomic UPDATE or INSERT.   *)
(*                                                                         *)
(* A table is a function whose domain is the set of row ids present.  A    *)
(* row id, and the raw token whose hash the row stores, is the request     *)
(* that drew it: randomUUID and randomBytes never repeat.  A family id is  *)
(* the login request that drew it.                                         *)
(***************************************************************************)
EXTENDS Naturals

CONSTANTS
    Requests,    \* the requests that may draw a token
    Users        \* the user ids

\* revokedReason; Active stands for revokedAt = null.
Active == "active"
Reasons == {"rotated", "logout", "logout-all", "reuse-detected", "password-changed"}

TokenRow ==
    [user      : Users,
     family    : Requests,
     expiresAt : Nat,
     revoked   : Reasons \cup {Active}]

\* f with key k set to v, whether or not k was present.
Put(f, k, v) == [x \in DOMAIN f \cup {k} |-> IF x = k THEN v ELSE f[x]]

-----------------------------------------------------------------------------
(* RefreshToken *)

Issue(user, family, now, ttl) ==
    [user |-> user, family |-> family, expiresAt |-> now + ttl, revoked |-> Active]

IsRevoked(row) == row.revoked # Active

IsExpired(row, now) == row.expiresAt <= now

-----------------------------------------------------------------------------
(* PrismaRefreshTokenRepository *)

\* findByHash
Exists(table, t) == t \in DOMAIN table

\* A consume that matches on the id alone.
ConsumableById(table, t) == t \in DOMAIN table

\* consume: WHERE id AND revokedAt IS NULL; it returns count = 1.
Consumable(table, t) == t \in DOMAIN table /\ table[t].revoked = Active

Consume(table, t, reason) == [table EXCEPT ![t].revoked = reason]

\* A revocation that overwrites the reason of rows already revoked.
RevokeOver(table, rows, reason) ==
    [t \in DOMAIN table |->
        IF t \in rows THEN [table[t] EXCEPT !.revoked = reason] ELSE table[t]]

\* UPDATE ... WHERE <rows> AND revokedAt IS NULL
Revoke(table, rows, reason) ==
    [t \in DOMAIN table |->
        IF t \in rows /\ table[t].revoked = Active
        THEN [table[t] EXCEPT !.revoked = reason]
        ELSE table[t]]

RevokeFamily(table, family, reason) ==
    Revoke(table, {t \in DOMAIN table : table[t].family = family}, reason)

RevokeAllForUser(table, user, reason) ==
    Revoke(table, {t \in DOMAIN table : table[t].user = user}, reason)

\* findActiveByUser: the rows of the sessions screen.
FindActiveByUser(table, user, now) ==
    {t \in DOMAIN table : /\ table[t].user = user
                          /\ table[t].revoked = Active
                          /\ ~IsExpired(table[t], now)}
=============================================================================
