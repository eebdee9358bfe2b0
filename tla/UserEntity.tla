---------------------------- MODULE UserEntity ----------------------------
(***************************************************************************)
(* The User aggregate (domain/user/user.entity.ts) and the optimistic      *)
(* write of its repository (prisma-user.repository.ts, save).              *)
(*                                                                         *)
(* A user row is a record.  A password hash is the password it verifies    *)
(* (Null for a null hash) together with "outdated", the answer of          *)
(* hasher.needsRehash.  The profile columns (names, address, timestamps    *)
(* other than lastLoginAt) are left out: nothing here branches on them.    *)
(***************************************************************************)
EXTENDS Naturals

CONSTANTS
    Passwords,   \* the plaintext passwords that occur
    Null         \* the JavaScript null

ASSUME NullAssumption == Null \notin Passwords

Statuses == {"INVITED", "ACTIVE", "SUSPENDED"}

UserRow ==
    [status       : Statuses,
     password     : Passwords \cup {Null},
     outdated     : BOOLEAN,
     admin        : BOOLEAN,
     deleted      : BOOLEAN,
     tokenVersion : Nat,
     version      : Nat,
     lastLogin    : Nat]

-----------------------------------------------------------------------------
(* Reads *)

\* assertCanAuthenticate, the gate of login and refresh: it returns
\* normally exactly when this holds.
CanAuthenticate(user) ==
    /\ ~user.deleted
    /\ user.status \notin {"SUSPENDED", "INVITED"}
    /\ user.password # Null

\* hasher.verify(user.passwordHash, password)
Verifies(user, password) ==
    /\ user.password # Null
    /\ user.password = password

-----------------------------------------------------------------------------
(* Mutations of the in-memory entity *)

\* A bump in the wrong direction.
RevokeIssuedTokensDown(user) == [user EXCEPT !.tokenVersion = @ - 1]

RevokeIssuedTokens(user) == [user EXCEPT !.tokenVersion = @ + 1]

\* A setPasswordHash that forgets the bump.
SetPasswordHashNoBump(user, password) ==
    [user EXCEPT !.password = password,
                 !.outdated = FALSE,
                 !.status = IF @ = "INVITED" THEN "ACTIVE" ELSE @]

SetPasswordHash(user, password) ==
    RevokeIssuedTokens(
        [user EXCEPT !.password = password,
                     !.outdated = FALSE,
                     !.status = IF @ = "INVITED" THEN "ACTIVE" ELSE @])

UpgradePasswordHash(user, password) ==
    [user EXCEPT !.password = password, !.outdated = FALSE]

InvalidateSessions(user) == RevokeIssuedTokens(user)

Activate(user) == [user EXCEPT !.status = "ACTIVE"]

\* A Suspend that trusts the status alone.
SuspendNoBump(user) == [user EXCEPT !.status = "SUSPENDED"]

Suspend(user) ==
    IF user.status = "SUSPENDED"
    THEN user
    ELSE RevokeIssuedTokens([user EXCEPT !.status = "SUSPENDED"])

SetPlatformAdmin(user, admin) ==
    IF user.admin = admin
    THEN user
    ELSE RevokeIssuedTokens([user EXCEPT !.admin = admin])

SoftDelete(user) ==
    IF user.deleted
    THEN user
    ELSE RevokeIssuedTokens(
             [user EXCEPT !.deleted = TRUE,
                          !.status = "SUSPENDED",
                          !.password = Null])

\* The address is abstracted, so changeEmail is always to a different one.
ChangeEmail(user) == RevokeIssuedTokens(user)

\* The administrative mutations of the entity, by name.
Edits == {"activate", "suspend", "grant", "revoke", "softDelete", "changeEmail"}

ApplyEdit(user, edit) ==
    CASE edit = "activate"    -> Activate(user)
      [] edit = "suspend"     -> Suspend(user)
      [] edit = "grant"       -> SetPlatformAdmin(user, TRUE)
      [] edit = "revoke"      -> SetPlatformAdmin(user, FALSE)
      [] edit = "softDelete"  -> SoftDelete(user)
      [] edit = "changeEmail" -> ChangeEmail(user)

-----------------------------------------------------------------------------
(* save: one conditional UPDATE on (id, version) *)

\* A save whose WHERE clause forgets the version.
MatchesByIdOnly(row, user) == TRUE

\* The row matched by WHERE id AND version, or count = 0.
VersionMatches(row, user) == row.version = user.version

\* A save that bumps no version.
WrittenSameVersion(row, user) == [user EXCEPT !.lastLogin = row.lastLogin]

\* The row after the UPDATE.  lastLoginAt is not in its data.
Written(row, user) ==
    [user EXCEPT !.version = row.version + 1, !.lastLogin = row.lastLogin]

\* touchLastLogin, outside the lock.
TouchLastLogin(row, at) == [row EXCEPT !.lastLogin = at]
=============================================================================
