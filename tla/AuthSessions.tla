---------------------------- MODULE AuthSessions ----------------------------
(***************************************************************************)
(* Sessions: the login, refresh, logout, logout-all and change-password    *)
(* use cases, the guard in front of the authenticated ones (JwtStrategy),  *)
(* administrative edits of the account, and the three stores they share    *)
(* (the users table, the refresh_tokens table, the Redis denylist).        *)
(*                                                                         *)
(* Node interleaves requests at every await, and replicas run in parallel, *)
(* so each request is a process with a program counter and each awaited    *)
(* statement is an action.  A request runs once; what it draws (its jti,   *)
(* its refresh token, its family) is named after it.                       *)
(***************************************************************************)
EXTENDS UserEntity, RefreshTokenTable

CONSTANTS
    Ops,              \* the operations the requests of a run may perform
    RefreshTtl,       \* jwt.refreshTtlS
    AccessTtl,        \* jwt.accessTtlS
    MaxClock,         \* bound on the passing of time
    RedisMayFail,     \* whether Redis may become unreachable
    HashCostMayRise,  \* whether a deployment may raise the hashing cost
    RequestsMayFail   \* whether a request may die at an await

AllOps == {"login", "refresh", "logout", "logoutAll", "changePassword", "access", "edit"}

ASSUME SessionAssumption ==
    /\ Ops \subseteq AllOps
    /\ RefreshTtl \in Nat /\ AccessTtl \in Nat /\ MaxClock \in Nat
    /\ RedisMayFail \in BOOLEAN /\ HashCostMayRise \in BOOLEAN
    /\ RequestsMayFail \in BOOLEAN
    /\ Null \notin Requests /\ Null \notin Users

VARIABLES
    users,      \* the users table
    tokens,     \* the refresh_tokens table
    access,     \* the access tokens signed, by the request that signed them
    denylist,   \* the denylist keys, with the instant each one expires
    redisUp,    \* whether Redis answers
    clock,      \* the time, in seconds
    pc,         \* the await each request is at
    cmd,        \* the command of each request begun
    loaded,     \* the User entity each request holds, as it was loaded
    now         \* the Date each request last captured

stores == <<users, tokens, access, denylist>>
environment == <<redisUp, clock>>
requests == <<pc, cmd, loaded, now>>
vars == <<stores, environment, requests>>

-----------------------------------------------------------------------------
(* Requests *)

LoginPoints  == {"rehash", "issue", "touch"}
RefreshPoints == {"consume", "reuse", "load", "rotate"}
GuardPoints  == {"denylist", "snapshot"}
LogoutPoints == {"revokeFamily", "revokeAll", "findSelf", "bump", "deny"}
PasswordPoints == {"verify", "savePassword", "revokeSessions"}

Running == LoginPoints \cup RefreshPoints \cup GuardPoints \cup LogoutPoints
           \cup PasswordPoints \cup {"saveEdit"}

\* done: answered with success.  undenied: a logout answered with success
\* whose denylist write failed.  reused: RefreshTokenReusedError.
\* conflict: ConcurrentModificationError.  failed: any other error.
Finished == {"done", "undenied", "reused", "conflict", "failed"}

Command ==
    [op          : AllOps,
     user        : Users \cup {Null},
     password    : Passwords \cup {Null},
     newPassword : Passwords \cup {Null},
     token       : Requests \cup {Null},   \* the refresh token presented
     jti         : Requests \cup {Null},   \* the access token presented
     edit        : Edits \cup {Null}]

\* A command with everything but its operation and its subject left out.
Bare(op, user) ==
    [op |-> op, user |-> user, password |-> Null, newPassword |-> Null,
     token |-> Null, jti |-> Null, edit |-> Null]

AccessToken == [user : Users, tv : Nat, exp : Nat]

\* The tokens clients hold: those of the logins and refreshes answered.
HeldAccess  == {r \in DOMAIN access : pc[r] = "done"}
HeldRefresh == {r \in DOMAIN tokens : pc[r] = "done"}

Begin(r, c) ==
    /\ pc[r] = "idle"
    /\ c.op \in Ops
    /\ cmd' = Put(cmd, r, c)

At(r, point) == pc[r] = point

Goto(r, point) == pc' = [pc EXCEPT ![r] = point]

Load(r, user) == loaded' = Put(loaded, r, users[user])

\* The access token of buildAuthenticationResult: it carries the token
\* version of the entity in memory.
SignAccess(r, user) ==
    access' = Put(access, r, [user |-> user,
                              tv   |-> loaded[r].tokenVersion,
                              exp  |-> clock + AccessTtl])

\* users.save(entity): the conditional UPDATE, or ConcurrentModificationError.
Save(r, user, entity, next) ==
    \/ /\ VersionMatches(users[user], entity)
       /\ users' = [users EXCEPT ![user] = Written(@, entity)]
       /\ Goto(r, next)
    \/ /\ ~VersionMatches(users[user], entity)
       /\ Goto(r, "conflict")
       /\ UNCHANGED users

-----------------------------------------------------------------------------
(* LoginUseCase.execute *)

LoginFind(r, user, password) ==
    /\ Begin(r, [Bare("login", user) EXCEPT !.password = password])
    /\ \/ /\ ~users[user].deleted
          /\ Verifies(users[user], password)
          /\ CanAuthenticate(users[user])
          /\ Load(r, user)
          /\ Goto(r, IF users[user].outdated THEN "rehash" ELSE "issue")
       \/ /\ \/ users[user].deleted
             \/ ~Verifies(users[user], password)
             \/ ~CanAuthenticate(users[user])
          /\ Goto(r, "failed")
          /\ UNCHANGED loaded
    /\ UNCHANGED <<stores, environment, now>>

LoginRehash(r) ==
    /\ At(r, "rehash")
    /\ Save(r, cmd[r].user, UpgradePasswordHash(loaded[r], cmd[r].password), "issue")
    /\ UNCHANGED <<tokens, access, denylist, environment, cmd, loaded, now>>

\* The session opened by a login: a new family, and the Date of the
\* touchLastLogin that follows.
LoginIssue(r) ==
    /\ At(r, "issue")
    /\ SignAccess(r, cmd[r].user)
    /\ tokens' = Put(tokens, r, Issue(cmd[r].user, r, clock, RefreshTtl))
    /\ now' = [now EXCEPT ![r] = clock]
    /\ Goto(r, "touch")
    /\ UNCHANGED <<users, denylist, environment, cmd, loaded>>

LoginTouch(r) ==
    /\ At(r, "touch")
    /\ users' = [users EXCEPT ![cmd[r].user] = TouchLastLogin(@, now[r])]
    /\ Goto(r, "done")
    /\ UNCHANGED <<tokens, access, denylist, environment, cmd, loaded, now>>

-----------------------------------------------------------------------------
(* RefreshTokensUseCase.execute *)

\* findByHash and the checks on what it read.  A token nobody was given is
\* unknown; the columns read, other than revokedAt, never change.
RefreshFind(r, t) ==
    /\ Begin(r, [Bare("refresh", IF Exists(tokens, t) THEN tokens[t].user ELSE Null)
                    EXCEPT !.token = t])
    /\ now' = [now EXCEPT ![r] = clock]
    /\ Goto(r, IF ~Exists(tokens, t) THEN "failed"
               ELSE IF IsRevoked(tokens[t]) THEN "reuse"
               ELSE IF IsExpired(tokens[t], clock) THEN "failed"
               ELSE "consume")
    /\ UNCHANGED <<stores, environment, loaded>>

\* A RefreshConsume that does not look at what consume returned.
RefreshConsumeUnchecked(r) ==
    /\ At(r, "consume")
    /\ IF Consumable(tokens, cmd[r].token)
       THEN tokens' = Consume(tokens, cmd[r].token, "rotated")
       ELSE UNCHANGED tokens
    /\ Goto(r, "load")
    /\ UNCHANGED <<users, access, denylist, environment, cmd, loaded, now>>

\* The compare-and-swap: the winner rotates, the loser is reuse.
RefreshConsume(r) ==
    /\ At(r, "consume")
    /\ \/ /\ Consumable(tokens, cmd[r].token)
          /\ tokens' = Consume(tokens, cmd[r].token, "rotated")
          /\ Goto(r, "load")
       \/ /\ ~Consumable(tokens, cmd[r].token)
          /\ Goto(r, "reuse")
          /\ UNCHANGED tokens
    /\ UNCHANGED <<users, access, denylist, environment, cmd, loaded, now>>

\* detectedReuse
RefreshReuse(r) ==
    /\ At(r, "reuse")
    /\ tokens' = RevokeFamily(tokens, tokens[cmd[r].token].family, "reuse-detected")
    /\ Goto(r, "reused")
    /\ UNCHANGED <<users, access, denylist, environment, cmd, loaded, now>>

RefreshLoad(r) ==
    /\ At(r, "load")
    /\ \/ /\ CanAuthenticate(users[cmd[r].user])
          /\ Load(r, cmd[r].user)
          /\ Goto(r, "rotate")
       \/ /\ ~CanAuthenticate(users[cmd[r].user])
          /\ Goto(r, "failed")
          /\ UNCHANGED loaded
    /\ UNCHANGED <<stores, environment, cmd, now>>

\* A RefreshRotate that omits the family id.
RefreshRotateNewFamily(r) ==
    /\ At(r, "rotate")
    /\ SignAccess(r, cmd[r].user)
    /\ tokens' = Put(tokens, r, Issue(cmd[r].user, r, now[r], RefreshTtl))
    /\ Goto(r, "done")
    /\ UNCHANGED <<users, denylist, environment, cmd, loaded, now>>

\* The successor joins the family; its lifetime runs from the Date captured
\* when the refresh began.
RefreshRotate(r) ==
    /\ At(r, "rotate")
    /\ SignAccess(r, cmd[r].user)
    /\ tokens' = Put(tokens, r, Issue(cmd[r].user, tokens[cmd[r].token].family,
                                      now[r], RefreshTtl))
    /\ Goto(r, "done")
    /\ UNCHANGED <<users, denylist, environment, cmd, loaded, now>>

-----------------------------------------------------------------------------
(* The guard: JwtStrategy and its validate *)

\* The signature and the expiry of access token a hold; a token past its
\* expiry is answered 401 before anything is read.
BeginGuarded(r, a, c) ==
    /\ clock < access[a].exp
    /\ Begin(r, [c EXCEPT !.jti = a])
    /\ Goto(r, "denylist")
    /\ UNCHANGED <<stores, environment, loaded, now>>

\* The key is present in Redis.
Denylisted(a) == a \in DOMAIN denylist /\ clock < denylist[a]

\* A has that fails open.
DenylistHasOpen(a) == redisUp /\ Denylisted(a)

\* has: an unreachable Redis is a yes.
DenylistHas(a) == ~redisUp \/ Denylisted(a)

GuardDenylist(r) ==
    /\ At(r, "denylist")
    /\ Goto(r, IF DenylistHas(cmd[r].jti) THEN "failed" ELSE "snapshot")
    /\ UNCHANGED <<stores, environment, cmd, loaded, now>>

\* The checks on findAuthSnapshot.
Accepts(a) ==
    LET row == users[access[a].user]
    IN  /\ ~row.deleted
        /\ row.tokenVersion = access[a].tv
        /\ row.status = "ACTIVE"

\* Where the handler behind the guard starts.
Entry(op) ==
    CASE op = "access"         -> "done"
      [] op = "logout"         -> "revokeFamily"
      [] op = "logoutAll"      -> "revokeAll"
      [] op = "changePassword" -> "verify"

GuardSnapshot(r) ==
    /\ At(r, "snapshot")
    /\ Goto(r, IF Accepts(cmd[r].jti) THEN Entry(cmd[r].op) ELSE "failed")
    /\ UNCHANGED <<stores, environment, cmd, loaded, now>>

\* Any other authenticated endpoint.
BeginAccess(r, a) ==
    BeginGuarded(r, a, Bare("access", access[a].user))

-----------------------------------------------------------------------------
(* LogoutUseCase *)

BeginLogout(r, a, t) ==
    BeginGuarded(r, a, [Bare("logout", access[a].user) EXCEPT !.token = t])

\* findByHash and revokeFamily: the row found decides by its user and its
\* family, which never change.
LogoutRevoke(r) ==
    /\ At(r, "revokeFamily")
    /\ tokens' = IF /\ Exists(tokens, cmd[r].token)
                    /\ tokens[cmd[r].token].user = cmd[r].user
                 THEN RevokeFamily(tokens, tokens[cmd[r].token].family, "logout")
                 ELSE tokens
    /\ Goto(r, "deny")
    /\ UNCHANGED <<users, access, denylist, environment, cmd, loaded, now>>

\* denylistAccessToken: add, and the catch around it.  The key lives for the
\* whole seconds left to the token, so it goes when the token expires.  A SET
\* that is not answered in time may have been executed.
LogoutDeny(r) ==
    /\ At(r, "deny")
    /\ LET a == cmd[r].jti
       IN  \/ /\ access[a].exp <= clock
              /\ Goto(r, "done")
              /\ UNCHANGED denylist
           \/ /\ access[a].exp > clock /\ redisUp
              /\ denylist' = Put(denylist, a, access[a].exp)
              /\ Goto(r, "done")
           \/ /\ access[a].exp > clock /\ ~redisUp
              /\ Goto(r, "undenied")
              /\ denylist' \in {denylist, Put(denylist, a, access[a].exp)}
    /\ UNCHANGED <<users, tokens, access, environment, cmd, loaded, now>>

BeginLogoutAll(r, a) ==
    BeginGuarded(r, a, Bare("logoutAll", access[a].user))

LogoutAllRevoke(r) ==
    /\ At(r, "revokeAll")
    /\ tokens' = RevokeAllForUser(tokens, cmd[r].user, "logout-all")
    /\ Goto(r, "findSelf")
    /\ UNCHANGED <<users, access, denylist, environment, cmd, loaded, now>>

\* findById does not see a deleted row; the bump is then skipped.
LogoutAllFind(r) ==
    /\ At(r, "findSelf")
    /\ IF users[cmd[r].user].deleted
       THEN Goto(r, "deny") /\ UNCHANGED loaded
       ELSE Goto(r, "bump") /\ Load(r, cmd[r].user)
    /\ UNCHANGED <<stores, environment, cmd, now>>

LogoutAllBump(r) ==
    /\ At(r, "bump")
    /\ Save(r, cmd[r].user, InvalidateSessions(loaded[r]), "deny")
    /\ UNCHANGED <<tokens, access, denylist, environment, cmd, loaded, now>>

-----------------------------------------------------------------------------
(* UpdateUserUseCase.changePassword *)

BeginChangePassword(r, a, current, new) ==
    BeginGuarded(r, a, [Bare("changePassword", access[a].user)
                           EXCEPT !.password = current, !.newPassword = new])

\* findById, the proof of the current password and the reuse check.
ChangePasswordVerify(r) ==
    /\ At(r, "verify")
    /\ LET row == users[cmd[r].user]
           admitted == /\ ~row.deleted
                       /\ Verifies(row, cmd[r].password)
                       /\ ~Verifies(row, cmd[r].newPassword)
       IN  IF admitted
           THEN Goto(r, "savePassword") /\ Load(r, cmd[r].user)
           ELSE Goto(r, "failed") /\ UNCHANGED loaded
    /\ UNCHANGED <<stores, environment, cmd, now>>

ChangePasswordSave(r) ==
    /\ At(r, "savePassword")
    /\ Save(r, cmd[r].user, SetPasswordHash(loaded[r], cmd[r].newPassword), "revokeSessions")
    /\ UNCHANGED <<tokens, access, denylist, environment, cmd, loaded, now>>

ChangePasswordRevoke(r) ==
    /\ At(r, "revokeSessions")
    /\ tokens' = RevokeAllForUser(tokens, cmd[r].user, "password-changed")
    /\ Goto(r, "done")
    /\ UNCHANGED <<users, access, denylist, environment, cmd, loaded, now>>

-----------------------------------------------------------------------------
(* Administrative edits: load the entity, mutate it, save it.  The entity   *)
(* offers the mutations; the caller is outside this service.               *)

EditFind(r, user, edit) ==
    /\ Begin(r, [Bare("edit", user) EXCEPT !.edit = edit])
    /\ ~users[user].deleted
    /\ Load(r, user)
    /\ Goto(r, "saveEdit")
    /\ UNCHANGED <<stores, environment, now>>

EditSave(r) ==
    /\ At(r, "saveEdit")
    /\ Save(r, cmd[r].user, ApplyEdit(loaded[r], cmd[r].edit), "done")
    /\ UNCHANGED <<tokens, access, denylist, environment, cmd, loaded, now>>

-----------------------------------------------------------------------------
(* The environment *)

\* The process dies, or the statement awaited throws: the request stops at
\* this await and what it has committed stays.
Die(r) ==
    /\ RequestsMayFail
    /\ pc[r] \in Running
    /\ Goto(r, "failed")
    /\ UNCHANGED <<stores, environment, cmd, loaded, now>>

Tick ==
    /\ clock < MaxClock
    /\ clock' = clock + 1
    /\ UNCHANGED <<stores, redisUp, requests>>

RedisFlip ==
    /\ RedisMayFail
    /\ redisUp' = ~redisUp
    /\ UNCHANGED <<stores, clock, requests>>

\* A deployment with costlier parameters: needsRehash holds of every hash
\* stored so far.  No row is written.
RaiseHashCost ==
    /\ HashCostMayRise
    /\ users' = [u \in Users |-> [users[u] EXCEPT !.outdated = (users[u].password # Null)]]
    /\ UNCHANGED <<tokens, access, denylist, environment, requests>>

\* Every request has been answered.
Quiescent ==
    /\ \A r \in Requests : pc[r] \in Finished
    /\ UNCHANGED vars

-----------------------------------------------------------------------------
InitialRow(status, password, outdated) ==
    [status |-> status, password |-> password, outdated |-> outdated,
     admin |-> FALSE, deleted |-> FALSE, tokenVersion |-> 0, version |-> 0,
     lastLogin |-> 0]

\* Accounts registered with a password, hashed under current or older
\* parameters, and accounts invited without one.
InitialRows ==
    {InitialRow("ACTIVE", p, TRUE) : p \in Passwords}
        \cup {InitialRow("ACTIVE", p, FALSE) : p \in Passwords}
        \cup {InitialRow("INVITED", Null, FALSE)}

EmptyTable == [x \in {} |-> Null]

Init ==
    /\ users \in [Users -> InitialRows]
    /\ tokens = EmptyTable /\ access = EmptyTable /\ denylist = EmptyTable
    /\ redisUp = TRUE /\ clock = 0
    /\ pc = [r \in Requests |-> "idle"]
    /\ cmd = EmptyTable /\ loaded = EmptyTable
    /\ now = [r \in Requests |-> 0]

\* What a client may ask for.
Arrive(r) ==
    \/ \E u \in Users, p \in Passwords : LoginFind(r, u, p)
    \/ \E t \in HeldRefresh \cup {Null} : RefreshFind(r, t)
    \/ \E a \in HeldAccess :
         \/ BeginAccess(r, a)
         \/ \E t \in HeldRefresh \cup {Null} : BeginLogout(r, a, t)
         \/ BeginLogoutAll(r, a)
         \/ \E p, q \in Passwords : BeginChangePassword(r, a, p, q)
    \/ \E u \in Users, e \in Edits : EditFind(r, u, e)

\* The next await of a request.
Step(r) ==
    \/ LoginRehash(r) \/ LoginIssue(r) \/ LoginTouch(r)
    \/ RefreshConsume(r) \/ RefreshReuse(r) \/ RefreshLoad(r) \/ RefreshRotate(r)
    \/ GuardDenylist(r) \/ GuardSnapshot(r)
    \/ LogoutRevoke(r) \/ LogoutDeny(r)
    \/ LogoutAllRevoke(r) \/ LogoutAllFind(r) \/ LogoutAllBump(r)
    \/ ChangePasswordVerify(r) \/ ChangePasswordSave(r) \/ ChangePasswordRevoke(r)
    \/ EditSave(r)

Next ==
    \/ \E r \in Requests : Arrive(r) \/ Step(r) \/ Die(r)
    \/ Tick
    \/ RedisFlip
    \/ RaiseHashCost
    \/ Quiescent

Spec == Init /\ [][Next]_vars
=============================================================================
