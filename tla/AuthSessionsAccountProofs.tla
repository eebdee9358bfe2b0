--------------------- MODULE AuthSessionsAccountProofs ---------------------
(***************************************************************************)
(* Proofs about accounts: the optimistic lock, the token version it        *)
(* protects, and the access tokens that carry it.                          *)
(***************************************************************************)
EXTENDS AuthSessionsProofs

\* The columns the optimistic lock protects are equal.
SameLocked(user, row) ==
    /\ user.status = row.status /\ user.password = row.password
    /\ user.admin = row.admin /\ user.deleted = row.deleted
    /\ user.tokenVersion = row.tokenVersion

InService(row) == row.status = "ACTIVE" /\ ~row.deleted

\* An entity in memory is the row, or older than it.
SnapshotOK(r) ==
    r \in DOMAIN loaded =>
        /\ loaded[r].version <= users[cmd[r].user].version
        /\ loaded[r].tokenVersion <= users[cmd[r].user].tokenVersion
        /\ loaded[r].version = users[cmd[r].user].version
            => SameLocked(loaded[r], users[cmd[r].user])

\* The awaits between reading an account and signing a token for it.
Signing == {"rehash", "issue", "rotate"}

\* A token version still current was read while the account was in service,
\* and the account has been in service since.
IssuerOK(r) ==
    /\ pc[r] \in Signing
    /\ loaded[r].tokenVersion = users[cmd[r].user].tokenVersion
    => InService(users[cmd[r].user])

AccessOK(a) ==
    /\ access[a].tv <= users[access[a].user].tokenVersion
    /\ access[a].tv = users[access[a].user].tokenVersion
        => InService(users[access[a].user])

\* A password about to be written, or rehashed, was proved against the
\* entity read.
ProofOK(r) ==
    pc[r] \in {"rehash", "savePassword"} => cmd[r].password = loaded[r].password

AccountInv ==
    /\ \A r \in Requests : SnapshotOK(r) /\ IssuerOK(r) /\ ProofOK(r)
    /\ \A a \in DOMAIN access : AccessOK(a)

-----------------------------------------------------------------------------
(* Mutations and writes *)

\* What every mutation of the entity respects: it keeps the version it was
\* loaded with, and only a bump of the token version lets it change the
\* password or the privilege or take the account out of service.
Mutation(user, new) ==
    /\ new.version = user.version
    /\ new.tokenVersion >= user.tokenVersion
    /\ new.tokenVersion = user.tokenVersion =>
         /\ new.password = user.password /\ new.admin = user.admin
         /\ InService(user) => InService(new)

LEMMA Mutations ==
    ASSUME NEW user \in UserRow
    PROVE  /\ Mutation(user, UpgradePasswordHash(user, user.password))
           /\ Mutation(user, InvalidateSessions(user))
           /\ \A p : Mutation(user, SetPasswordHash(user, p))
           /\ \A e \in Edits : Mutation(user, ApplyEdit(user, e))
<1>1. user.tokenVersion \in Nat /\ user.tokenVersion + 1 \in Nat
      /\ user.tokenVersion + 1 > user.tokenVersion
  BY DEF UserRow
<1>2. Mutation(user, UpgradePasswordHash(user, user.password))
  BY <1>1 DEF Mutation, UpgradePasswordHash, InService, UserRow
<1>3. Mutation(user, InvalidateSessions(user))
  BY <1>1 DEF Mutation, InvalidateSessions, RevokeIssuedTokens, UserRow
<1>4. ASSUME NEW p PROVE Mutation(user, SetPasswordHash(user, p))
  <2> DEFINE s == IF user.status = "INVITED" THEN "ACTIVE" ELSE user.status
  <2>1. SetPasswordHash(user, p).tokenVersion = user.tokenVersion + 1
        /\ SetPasswordHash(user, p).version = user.version
    BY DEF SetPasswordHash, RevokeIssuedTokens, UserRow
  <2> QED
    BY <1>1, <2>1 DEF Mutation
<1>5. ASSUME NEW e \in Edits PROVE Mutation(user, ApplyEdit(user, e))
  <2>1. Mutation(user, Activate(user))
    BY <1>1 DEF Mutation, Activate, InService, UserRow
  <2>2. Mutation(user, Suspend(user))
    BY <1>1 DEF Mutation, Suspend, RevokeIssuedTokens, UserRow
  <2>3. \A b \in BOOLEAN : Mutation(user, SetPlatformAdmin(user, b))
    BY <1>1 DEF Mutation, SetPlatformAdmin, RevokeIssuedTokens, UserRow
  <2>4. Mutation(user, SoftDelete(user))
    BY <1>1 DEF Mutation, SoftDelete, RevokeIssuedTokens, UserRow
  <2>5. Mutation(user, ChangeEmail(user))
    BY <1>1 DEF Mutation, ChangeEmail, RevokeIssuedTokens, UserRow
  <2> QED
    BY <2>1, <2>2, <2>3, <2>4, <2>5 DEF ApplyEdit, Edits
<1> QED
  BY <1>2, <1>3, <1>4, <1>5

\* What a step does to a row.
RowStep(old, new) ==
    /\ new.tokenVersion >= old.tokenVersion
    /\ new.tokenVersion = old.tokenVersion =>
         /\ new.password = old.password /\ new.admin = old.admin
         /\ InService(old) => InService(new)
    /\ \/ new.version = old.version /\ SameLocked(new, old)
       \/ new.version > old.version

RowsStep == \A u \in Users : RowStep(users[u], users'[u])

\* A row left alone, or written outside the lock, is one.
LEMMA SameRow ==
    ASSUME NEW old \in UserRow, NEW new \in UserRow, SameLocked(new, old),
           new.version = old.version
    PROVE  RowStep(old, new)
  BY DEF RowStep, SameLocked, InService, UserRow

\* The lock: an entity that is written was the row when it was written.
LEMMA SaveRows ==
    ASSUME TypeInv, NEW r \in Requests, r \in DOMAIN loaded, cmd[r].user \in Users,
           SnapshotOK(r), NEW entity \in UserRow, Mutation(loaded[r], entity),
           NEW next, Save(r, cmd[r].user, entity, next)
    PROVE  /\ RowsStep
           /\ \A v \in Users :
                users'[v] # users[v] => /\ v = cmd[r].user
                                        /\ SameLocked(loaded[r], users[v])
                                        /\ users'[v].password = entity.password
                                        /\ users'[v].deleted = entity.deleted
<1> DEFINE u == cmd[r].user
<1>1. /\ users \in [Users -> UserRow] /\ loaded[r] \in UserRow /\ u \in Users
  BY DEF TypeInv, TypeOK
<1>2. CASE UNCHANGED users
  BY <1>1, <1>2, SameRow DEF RowsStep, SameLocked
<1>3. CASE VersionMatches(users[u], entity)
           /\ users' = [users EXCEPT ![u] = Written(@, entity)]
  <2>1. SameLocked(loaded[r], users[u])
    BY <1>3 DEF VersionMatches, SnapshotOK, Mutation
  <2>2. /\ users'[u] = Written(users[u], entity)
        /\ \A v \in Users : v # u => users'[v] = users[v]
    BY <1>1, <1>3
  <2>3. /\ users'[u].version = users[u].version + 1
        /\ users'[u].tokenVersion = entity.tokenVersion
        /\ users'[u].password = entity.password /\ users'[u].admin = entity.admin
        /\ users'[u].status = entity.status /\ users'[u].deleted = entity.deleted
    BY <2>2 DEF Written, UserRow
  <2>4. RowStep(users[u], users'[u])
    BY <1>1, <2>1, <2>3 DEF RowStep, Mutation, SameLocked, InService, UserRow
  <2>5. \A v \in Users : v # u => RowStep(users[v], users'[v])
    BY <1>1, <2>2, SameRow DEF SameLocked
  <2> QED
    BY <2>1, <2>2, <2>3, <2>4, <2>5 DEF RowsStep
<1> QED
  BY <1>2, <1>3 DEF Save

-----------------------------------------------------------------------------
(* What a step of request r does to its entity and to the access tokens *)

Others(r) ==
    /\ \A q \in Requests : q # r => pc'[q] = pc[q]
    /\ \A q \in DOMAIN cmd : cmd'[q] = cmd[q]

\* r reads the row of its account, admitted if it is to sign a token, and
\* proved if it is to write a password.
Loads(r) ==
    /\ loaded' = Put(loaded, r, users[cmd'[r].user]) /\ users' = users
    /\ pc'[r] \in Signing => InService(users[cmd'[r].user])
    /\ pc'[r] \in {"rehash", "savePassword"} =>
         cmd'[r].password = users[cmd'[r].user].password

\* r keeps the entity it holds, if any, and is not newly entitled to sign.
Keeps(r) ==
    /\ loaded' = loaded
    /\ pc'[r] \notin {"rehash", "savePassword"}
    /\ pc'[r] \in Signing => pc[r] \in Signing

Signs(r) ==
    /\ access' = access
    \/ /\ users' = users /\ loaded' = loaded
       /\ pc[r] \in Signing /\ r \in DOMAIN loaded /\ r \notin DOMAIN access
       /\ \E exp \in Nat :
            access' = Put(access, r, [user |-> cmd[r].user, tv |-> loaded[r].tokenVersion,
                                      exp |-> exp])

\* The password changes as PasswordOnlyByVerifiedChange says.
PasswordsStep ==
    \A u \in Users :
        users'[u].password # users[u].password =>
            \/ /\ users'[u].deleted /\ users'[u].password = Null
            \/ \E r \in DOMAIN cmd :
                 /\ cmd[r].op = "changePassword" /\ cmd[r].user = u
                 /\ pc[r] = "savePassword"
                 /\ cmd[r].password = users[u].password
                 /\ cmd[r].newPassword = users'[u].password

AccountEffect(r) ==
    RowsStep /\ PasswordsStep /\ Others(r) /\ (Loads(r) \/ Keeps(r)) /\ Signs(r)

LEMMA SameUsers ==
    ASSUME TypeInv, UNCHANGED users
    PROVE  RowsStep /\ PasswordsStep
<1>1. \A u \in Users : users[u] \in UserRow
  BY DEF TypeInv, TypeOK
<1> QED
  BY <1>1, SameRow DEF RowsStep, PasswordsStep, SameLocked

\* An account admitted is in service.
LEMMA Admitted ==
    ASSUME NEW user \in UserRow, CanAuthenticate(user)
    PROVE  InService(user)
  BY DEF CanAuthenticate, InService, UserRow, Statuses

\* A request that resumes moves no other.
LEMMA Resumes ==
    ASSUME TypeInv, NEW r \in Requests, NEW point, Goto(r, point), UNCHANGED cmd
    PROVE  Others(r) /\ pc'[r] = point
  BY DEF Others, Goto, TypeInv, TypeOK

LEMMA Begins ==
    ASSUME TypeInv, NEW r \in Requests, NEW c, Begin(r, c), NEW point, Goto(r, point)
    PROVE  Others(r) /\ pc'[r] = point /\ cmd'[r] = c /\ r \notin DOMAIN loaded
<1>1. r \notin DOMAIN cmd
  BY DEF Begin, TypeInv, TypeOK
<1> QED
  BY <1>1 DEF Begin, Others, Goto, Put, TypeInv, TypeOK

LEMMA ArriveEffect ==
    ASSUME TypeInv, NEW r \in Requests, Arrive(r)
    PROVE  AccountEffect(r)
<1>1. ASSUME NEW u \in Users, NEW p \in Passwords, LoginFind(r, u, p)
      PROVE  AccountEffect(r)
  <2> DEFINE c == [Bare("login", u) EXCEPT !.password = p]
  <2>1. c.user = u /\ c.password = p
    BY DEF Bare
  <2>2. PICK point \in {"rehash", "issue", "failed"} : Goto(r, point)
    BY <1>1 DEF LoginFind
  <2>3. Begin(r, c) /\ users' = users /\ access' = access
    BY <1>1 DEF LoginFind, stores
  <2> HIDE DEF c
  <2>4. Others(r) /\ pc'[r] = point /\ cmd'[r] = c
    BY <2>2, <2>3, Begins
  <2>5. CASE loaded' = loaded /\ Goto(r, "failed")
    <3>1. pc'[r] = "failed"
      BY <2>5 DEF Goto, TypeInv, TypeOK
    <3> QED
      BY <2>3, <2>4, <2>5, <3>1, SameUsers DEF AccountEffect, Keeps, Signs, Signing
  <2>6. CASE /\ CanAuthenticate(users[u]) /\ Verifies(users[u], p)
             /\ loaded' = Put(loaded, r, users[u])
    <3>1. InService(users[u]) /\ users[u].password = p
      BY <2>6, Admitted DEF Verifies, TypeInv, TypeOK
    <3> QED
      BY <2>1, <2>3, <2>4, <2>6, <3>1, SameUsers DEF AccountEffect, Loads, Signs
  <2> QED
    BY <1>1, <2>5, <2>6 DEF LoginFind, Load
<1>2. ASSUME NEW t \in HeldRefresh \cup {Null}, RefreshFind(r, t)
      PROVE  AccountEffect(r)
  <2>1. PICK point \in {"failed", "reuse", "consume"} : Goto(r, point)
    BY <1>2 DEF RefreshFind
  <2>2. users' = users /\ access' = access /\ loaded' = loaded
    BY <1>2 DEF RefreshFind, stores
  <2>3. Others(r) /\ pc'[r] = point
    BY <1>2, <2>1, Begins DEF RefreshFind
  <2> QED
    BY <2>2, <2>3, SameUsers DEF AccountEffect, Keeps, Signs, Signing
<1>3. ASSUME NEW a, NEW c, BeginGuarded(r, a, c) PROVE AccountEffect(r)
  <2>1. users' = users /\ access' = access /\ loaded' = loaded
    BY <1>3 DEF BeginGuarded, stores
  <2>2. Others(r) /\ pc'[r] = "denylist"
    BY <1>3, Begins DEF BeginGuarded
  <2> QED
    BY <2>1, <2>2, SameUsers DEF AccountEffect, Keeps, Signs, Signing
<1>4. ASSUME NEW u \in Users, NEW e \in Edits, EditFind(r, u, e) PROVE AccountEffect(r)
  <2> DEFINE c == [Bare("edit", u) EXCEPT !.edit = e]
  <2>1. c.user = u
    BY DEF Bare
  <2>2. Begin(r, c) /\ Goto(r, "saveEdit") /\ users' = users /\ access' = access
        /\ loaded' = Put(loaded, r, users[u])
    BY <1>4 DEF EditFind, stores, Load
  <2> HIDE DEF c
  <2>3. Others(r) /\ pc'[r] = "saveEdit" /\ cmd'[r] = c
    BY <2>2, Begins
  <2> QED
    BY <2>1, <2>2, <2>3, SameUsers DEF AccountEffect, Loads, Signs, Signing
<1> QED
  BY <1>1, <1>2, <1>3, <1>4
     DEF Arrive, BeginAccess, BeginLogout, BeginLogoutAll, BeginChangePassword

\* A step that reads and writes no account.
LEMMA Elsewhere ==
    ASSUME TypeInv, NEW r \in Requests, NEW point, Goto(r, point), UNCHANGED cmd,
           point \notin Signing \cup {"rehash", "savePassword"},
           users' = users, access' = access, loaded' = loaded
    PROVE  AccountEffect(r)
  BY Resumes, SameUsers DEF AccountEffect, Keeps, Signs

LEMMA SignEffect ==
    ASSUME TypeInv, NEW r \in Requests, pc[r] \in {"issue", "rotate"},
           NEW point, Goto(r, point), point \in {"touch", "done"}, UNCHANGED cmd,
           users' = users, loaded' = loaded, SignAccess(r, cmd[r].user)
    PROVE  AccountEffect(r)
<1>1. r \in DOMAIN loaded /\ r \notin DOMAIN access
  BY DEF TypeInv, ControlOK, Control, Drawn, Holding
<1>2. clock + AccessTtl \in Nat
  BY SessionAssumption DEF TypeInv, TypeOK
<1>3. Signs(r)
  BY <1>1, <1>2 DEF Signs, SignAccess, Signing
<1>4. Keeps(r)
  BY Resumes DEF Keeps, Signing
<1> QED
  BY <1>3, <1>4, Resumes, SameUsers DEF AccountEffect

\* A step that saves the entity it holds.
LEMMA SaveEffect ==
    ASSUME TypeInv, NEW r \in Requests, r \in DOMAIN loaded, cmd[r].user \in Users,
           SnapshotOK(r), NEW entity \in UserRow, Mutation(loaded[r], entity),
           NEW next, Save(r, cmd[r].user, entity, next),
           next # "rehash", next # "savePassword", next \in Signing => pc[r] \in Signing,
           \/ entity.password = loaded[r].password
           \/ entity.deleted /\ entity.password = Null
           \/ /\ cmd[r].op = "changePassword" /\ pc[r] = "savePassword"
              /\ cmd[r].password = loaded[r].password
              /\ cmd[r].newPassword = entity.password,
           UNCHANGED <<access, cmd, loaded>>
    PROVE  AccountEffect(r)
<1>1. RowsStep
  BY SaveRows
<1>2. PasswordsStep
  <2>0. r \in DOMAIN cmd
    BY DEF TypeInv, TypeOK
  <2>1. ASSUME NEW u \in Users, users'[u].password # users[u].password
        PROVE  /\ u = cmd[r].user /\ loaded[r].password = users[u].password
               /\ users'[u].password = entity.password
               /\ users'[u].deleted = entity.deleted
    <3>1. users'[u] # users[u]
      BY <2>1
    <3> QED
      BY <3>1, SaveRows DEF SameLocked
  <2> QED
    BY <2>0, <2>1 DEF PasswordsStep
<1>3. PICK point \in {next, "conflict"} : Goto(r, point)
  BY DEF Save
<1>4. Others(r) /\ pc'[r] = point
  BY <1>3, Resumes
<1>5. Keeps(r)
  BY <1>4 DEF Keeps, Signing
<1> QED
  BY <1>1, <1>2, <1>4, <1>5 DEF AccountEffect, Signs

\* The password a mutation leaves.
LEMMA MutationPassword ==
    ASSUME NEW user \in UserRow
    PROVE  /\ InvalidateSessions(user).password = user.password
           /\ \A p \in Passwords : UpgradePasswordHash(user, p).password = p
           /\ \A p \in Passwords : SetPasswordHash(user, p).password = p
           /\ \A e \in Edits : \/ ApplyEdit(user, e).password = user.password
                               \/ /\ ApplyEdit(user, e).deleted
                                  /\ ApplyEdit(user, e).password = Null
<1>1. /\ InvalidateSessions(user).password = user.password
      /\ \A p \in Passwords : UpgradePasswordHash(user, p).password = p
      /\ \A p \in Passwords : SetPasswordHash(user, p).password = p
  BY DEF InvalidateSessions, RevokeIssuedTokens, UpgradePasswordHash, SetPasswordHash, UserRow
<1>2. ASSUME NEW e \in Edits
      PROVE  \/ ApplyEdit(user, e).password = user.password
             \/ ApplyEdit(user, e).deleted /\ ApplyEdit(user, e).password = Null
  <2>1. /\ Activate(user).password = user.password
        /\ Suspend(user).password = user.password
        /\ \A b \in BOOLEAN : SetPlatformAdmin(user, b).password = user.password
        /\ ChangeEmail(user).password = user.password
    BY DEF Activate, Suspend, SetPlatformAdmin, ChangeEmail, RevokeIssuedTokens, UserRow
  <2>2. \/ SoftDelete(user).password = user.password
        \/ SoftDelete(user).deleted /\ SoftDelete(user).password = Null
    BY DEF SoftDelete, RevokeIssuedTokens, UserRow
  <2> QED
    BY <2>1, <2>2 DEF ApplyEdit, Edits
<1> QED
  BY <1>1, <1>2

LEMMA StepEffect ==
    ASSUME TypeInv, AccountInv, NEW r \in Requests, Step(r) \/ Die(r)
    PROVE  AccountEffect(r)
<1>0. /\ pc[r] \in Holding => /\ r \in DOMAIN loaded /\ loaded[r] \in UserRow
                              /\ cmd[r].user \in Users
      /\ SnapshotOK(r) /\ ProofOK(r)
  BY DEF TypeInv, TypeOK, ControlOK, Control, Drawn, AccountInv
<1>1. CASE LoginRehash(r)
  <2>1. /\ pc[r] = "rehash" /\ cmd[r].password = loaded[r].password
        /\ cmd[r].password \in Passwords
    BY <1>0, <1>1 DEF LoginRehash, At, ProofOK, TypeInv, ControlOK, Control, LoginCommand,
                      LoginPoints
  <2> DEFINE entity == UpgradePasswordHash(loaded[r], cmd[r].password)
  <2>2. /\ entity \in UserRow /\ Mutation(loaded[r], entity)
        /\ entity.password = loaded[r].password
    BY <1>0, <2>1, MutationLemma, Mutations, MutationPassword DEF Holding
  <2>3. Save(r, cmd[r].user, entity, "issue") /\ UNCHANGED <<access, cmd, loaded>>
    BY <1>1 DEF LoginRehash
  <2> HIDE DEF entity
  <2> QED
    BY <1>0, <2>1, <2>2, <2>3, SaveEffect DEF Holding, Signing
<1>2. CASE LoginIssue(r)
  BY <1>2, SignEffect DEF LoginIssue, At
<1>3. CASE LoginTouch(r)
  <2>1. pc[r] = "touch" /\ cmd[r].user \in Users /\ cmd' = cmd /\ loaded' = loaded
        /\ access' = access /\ Goto(r, "done")
        /\ users' = [users EXCEPT ![cmd[r].user] = TouchLastLogin(@, now[r])]
    BY <1>0, <1>3 DEF LoginTouch, At, Holding
  <2>2. users \in [Users -> UserRow] /\ now[r] \in Nat
    BY DEF TypeInv, TypeOK
  <2>3. ASSUME NEW u \in Users
        PROVE  /\ users'[u] \in UserRow /\ SameLocked(users'[u], users[u])
               /\ users'[u].version = users[u].version
    BY <2>1, <2>2 DEF TouchLastLogin, SameLocked, UserRow
  <2>4. RowsStep
    BY <2>2, <2>3, SameRow DEF RowsStep
  <2>5. PasswordsStep
    BY <2>3 DEF PasswordsStep, SameLocked
  <2>6. Others(r) /\ pc'[r] = "done"
    BY <2>1, Resumes
  <2> QED
    BY <2>1, <2>4, <2>5, <2>6 DEF AccountEffect, Keeps, Signs, Signing
<1>4. CASE RefreshConsume(r)
  BY <1>4, Elsewhere DEF RefreshConsume, Signing
<1>5. CASE RefreshReuse(r)
  BY <1>5, Elsewhere DEF RefreshReuse, Signing
<1>6. CASE RefreshLoad(r)
  <2>1. cmd' = cmd /\ users' = users /\ access' = access /\ cmd[r].user \in Users
    BY <1>6 DEF RefreshLoad, stores, At, TypeInv, TypeOK, TokenRow, ControlOK, Control,
                RefreshCommand, RefreshPoints
  <2>2. CASE Goto(r, "failed") /\ loaded' = loaded
    BY <2>1, <2>2, Elsewhere DEF Signing
  <2>3. CASE /\ CanAuthenticate(users[cmd[r].user]) /\ Goto(r, "rotate")
             /\ loaded' = Put(loaded, r, users[cmd[r].user])
    <3>1. InService(users[cmd[r].user])
      BY <2>1, <2>3, Admitted DEF TypeInv, TypeOK
    <3>2. Others(r) /\ pc'[r] = "rotate"
      BY <2>1, <2>3, Resumes
    <3> QED
      BY <2>1, <2>3, <3>1, <3>2, SameUsers DEF AccountEffect, Loads, Signs
  <2> QED
    BY <1>6, <2>2, <2>3 DEF RefreshLoad, Load
<1>7. CASE RefreshRotate(r)
  BY <1>7, SignEffect DEF RefreshRotate, At
<1>8. CASE GuardDenylist(r)
  <2>1. \E point \in {"failed", "snapshot"} : Goto(r, point)
    BY <1>8 DEF GuardDenylist
  <2> QED
    BY <1>8, <2>1, Elsewhere DEF GuardDenylist, stores, Signing
<1>9. CASE GuardSnapshot(r)
  <2>1. pc[r] = "snapshot" /\ cmd[r].op \in GuardedOps
    BY <1>9 DEF GuardSnapshot, At, TypeInv, ControlOK, Control, GuardedCommand, GuardPoints
  <2>2. \E point \in {"failed", "done", "revokeFamily", "revokeAll", "verify"} :
          Goto(r, point)
    BY <1>9, <2>1 DEF GuardSnapshot, Entry, GuardedOps
  <2> QED
    BY <1>9, <2>2, Elsewhere DEF GuardSnapshot, stores, Signing
<1>10. CASE LogoutRevoke(r)
  BY <1>10, Elsewhere DEF LogoutRevoke, Signing
<1>11. CASE LogoutDeny(r)
  BY <1>11, Elsewhere DEF LogoutDeny, Signing
<1>12. CASE LogoutAllRevoke(r)
  BY <1>12, Elsewhere DEF LogoutAllRevoke, Signing
<1>13. CASE LogoutAllFind(r)
  <2>1. cmd' = cmd /\ users' = users /\ access' = access
    BY <1>13 DEF LogoutAllFind, stores
  <2>2. CASE Goto(r, "deny") /\ loaded' = loaded
    BY <2>1, <2>2, Elsewhere DEF Signing
  <2>3. CASE Goto(r, "bump") /\ loaded' = Put(loaded, r, users[cmd[r].user])
    BY <2>1, <2>3, Resumes, SameUsers DEF AccountEffect, Loads, Signs, Signing
  <2> QED
    BY <1>13, <2>2, <2>3 DEF LogoutAllFind, Load
<1>14. CASE LogoutAllBump(r)
  <2> DEFINE entity == InvalidateSessions(loaded[r])
  <2>1. pc[r] = "bump" /\ Save(r, cmd[r].user, entity, "deny")
        /\ UNCHANGED <<access, cmd, loaded>>
    BY <1>14 DEF LogoutAllBump, At
  <2>2. /\ entity \in UserRow /\ Mutation(loaded[r], entity)
        /\ entity.password = loaded[r].password
    BY <1>0, <2>1, MutationLemma, Mutations, MutationPassword DEF Holding
  <2> HIDE DEF entity
  <2> QED
    BY <1>0, <2>1, <2>2, SaveEffect DEF Holding, Signing
<1>15. CASE ChangePasswordVerify(r)
  <2>1. cmd' = cmd /\ users' = users /\ access' = access
    BY <1>15 DEF ChangePasswordVerify, stores
  <2>2. CASE Goto(r, "failed") /\ loaded' = loaded
    BY <2>1, <2>2, Elsewhere DEF Signing
  <2>3. CASE /\ Verifies(users[cmd[r].user], cmd[r].password) /\ Goto(r, "savePassword")
             /\ loaded' = Put(loaded, r, users[cmd[r].user])
    BY <2>1, <2>3, Resumes, SameUsers DEF AccountEffect, Loads, Signs, Signing, Verifies
  <2> QED
    BY <1>15, <2>2, <2>3 DEF ChangePasswordVerify, Load
<1>16. CASE ChangePasswordSave(r)
  <2> DEFINE entity == SetPasswordHash(loaded[r], cmd[r].newPassword)
  <2>1. pc[r] = "savePassword" /\ Save(r, cmd[r].user, entity, "revokeSessions")
        /\ UNCHANGED <<access, cmd, loaded>>
    BY <1>16 DEF ChangePasswordSave, At
  <2>2. /\ cmd[r].op = "changePassword" /\ cmd[r].newPassword \in Passwords
        /\ cmd[r].password = loaded[r].password
    BY <1>0, <2>1 DEF ProofOK, TypeInv, ControlOK, Control, GuardedCommand, PasswordPoints
  <2>3. /\ entity \in UserRow /\ Mutation(loaded[r], entity)
        /\ entity.password = cmd[r].newPassword
    BY <1>0, <2>1, <2>2, MutationLemma, Mutations, MutationPassword DEF Holding
  <2> HIDE DEF entity
  <2> QED
    BY <1>0, <2>1, <2>2, <2>3, SaveEffect DEF Holding, Signing
<1>17. CASE ChangePasswordRevoke(r)
  BY <1>17, Elsewhere DEF ChangePasswordRevoke, Signing
<1>18. CASE EditSave(r)
  <2> DEFINE entity == ApplyEdit(loaded[r], cmd[r].edit)
  <2>1. pc[r] = "saveEdit" /\ Save(r, cmd[r].user, entity, "done")
        /\ UNCHANGED <<access, cmd, loaded>>
    BY <1>18 DEF EditSave, At
  <2>2. cmd[r].edit \in Edits
    BY <2>1 DEF TypeInv, ControlOK, Control, EditCommand
  <2>3. /\ entity \in UserRow /\ Mutation(loaded[r], entity)
        /\ \/ entity.password = loaded[r].password
           \/ entity.deleted /\ entity.password = Null
    BY <1>0, <2>1, <2>2, MutationLemma, Mutations, MutationPassword DEF Holding
  <2> HIDE DEF entity
  <2> QED
    BY <1>0, <2>1, <2>3, SaveEffect DEF Holding, Signing
<1>19. CASE Die(r)
  BY <1>19, Elsewhere DEF Die, stores, Signing
<1> QED
  BY <1>1, <1>2, <1>3, <1>4, <1>5, <1>6, <1>7, <1>8, <1>9, <1>10, <1>11, <1>12, <1>13,
     <1>14, <1>15, <1>16, <1>17, <1>18, <1>19 DEF Step

-----------------------------------------------------------------------------
(* The invariant *)

\* What is known of an older entity or token version stays known when the row
\* takes a step.
LEMMA Stale ==
    ASSUME NEW old \in UserRow, NEW new \in UserRow, RowStep(old, new)
    PROVE  /\ \A user \in UserRow :
                /\ user.version <= old.version /\ user.tokenVersion <= old.tokenVersion
                /\ user.version = old.version => SameLocked(user, old)
                => /\ user.version <= new.version
                   /\ user.tokenVersion <= new.tokenVersion
                   /\ user.version = new.version => SameLocked(user, new)
           /\ \A tv \in Nat :
                /\ tv <= old.tokenVersion
                /\ tv = old.tokenVersion => InService(old)
                => /\ tv <= new.tokenVersion
                   /\ tv = new.tokenVersion => InService(new)
  BY DEF RowStep, SameLocked, UserRow

LEMMA InitAccounts == Init => AccountInv
  BY Points DEF Init, EmptyTable, AccountInv, SnapshotOK, IssuerOK, ProofOK, Signing

\* A request that keeps its entity.
LEMMA KeptEntity ==
    ASSUME TypeInv, TypeInv', AccountInv, RowsStep, NEW q \in Requests,
           (q \in DOMAIN loaded)' <=> q \in DOMAIN loaded,
           q \in DOMAIN loaded => loaded'[q] = loaded[q],
           q \in DOMAIN cmd => cmd'[q] = cmd[q],
           pc'[q] \in Signing => pc[q] \in Signing,
           pc'[q] \in {"rehash", "savePassword"} => pc'[q] = pc[q]
    PROVE  SnapshotOK(q)' /\ IssuerOK(q)' /\ ProofOK(q)'
<1>1. /\ users \in [Users -> UserRow] /\ users' \in [Users -> UserRow]
      /\ loaded \in [DOMAIN loaded -> UserRow] /\ DOMAIN loaded \subseteq DOMAIN cmd
      /\ q \in DOMAIN loaded => cmd[q].user \in Users
      /\ pc[q] \in Signing \cup {"savePassword"} => q \in DOMAIN loaded
  BY DEF TypeInv, TypeOK, ControlOK, Control, Drawn, Holding, Signing
<1>2. SnapshotOK(q) /\ IssuerOK(q) /\ ProofOK(q)
  BY DEF AccountInv
<1>3. SnapshotOK(q)'
  BY <1>1, <1>2, Stale DEF RowsStep, SnapshotOK
<1>4. IssuerOK(q)'
  <2> SUFFICES ASSUME pc'[q] \in Signing,
                      (loaded[q].tokenVersion = users[cmd[q].user].tokenVersion)'
               PROVE  InService(users[cmd[q].user])'
    BY DEF IssuerOK
  <2>1. q \in DOMAIN loaded /\ q \in DOMAIN cmd /\ cmd[q].user \in Users
        /\ loaded[q] \in UserRow
    BY <1>1
  <2>2. /\ loaded[q].tokenVersion \in Nat
        /\ loaded[q].tokenVersion <= users[cmd[q].user].tokenVersion
        /\ loaded[q].tokenVersion = users[cmd[q].user].tokenVersion
             => InService(users[cmd[q].user])
    BY <1>2, <2>1 DEF SnapshotOK, IssuerOK, UserRow
  <2> QED
    BY <1>1, <2>1, <2>2, Stale DEF RowsStep
<1>5. ProofOK(q)'
  BY <1>1, <1>2 DEF ProofOK, Signing
<1> QED
  BY <1>3, <1>4, <1>5

LEMMA KeptAccess ==
    ASSUME TypeInv, TypeInv', AccountInv, RowsStep,
           NEW a \in DOMAIN access, access'[a] = access[a]
    PROVE  AccessOK(a)'
<1>1. /\ access[a].user \in Users /\ access[a].tv \in Nat
      /\ users[access[a].user] \in UserRow /\ users'[access[a].user] \in UserRow
  BY DEF TypeInv, TypeOK, AccessToken
<1>2. AccessOK(a)
  BY DEF AccountInv
<1> QED
  BY <1>1, <1>2, Stale DEF RowsStep, AccessOK

LEMMA RequestAccounts ==
    ASSUME TypeInv, TypeInv', AccountInv, NEW r \in Requests, AccountEffect(r)
    PROVE  AccountInv'
<1>1. ASSUME NEW q \in Requests, q # r PROVE SnapshotOK(q)' /\ IssuerOK(q)' /\ ProofOK(q)'
  <2>1. /\ pc'[q] = pc[q] /\ (q \in DOMAIN cmd => cmd'[q] = cmd[q])
        /\ (q \in DOMAIN loaded)' <=> q \in DOMAIN loaded
        /\ q \in DOMAIN loaded => loaded'[q] = loaded[q]
    BY <1>1 DEF AccountEffect, Others, Loads, Keeps, Put
  <2> QED
    BY <2>1, KeptEntity DEF AccountEffect
<1>2. SnapshotOK(r)' /\ IssuerOK(r)' /\ ProofOK(r)'
  <2>1. CASE Keeps(r)
    BY <2>1, KeptEntity DEF AccountEffect, Keeps, Others
  <2>2. CASE Loads(r)
    <3>1. /\ r \in DOMAIN loaded' /\ loaded'[r] = users[cmd'[r].user] /\ users' = users
      BY <2>2 DEF Loads, Put
    <3>2. cmd'[r].user \in Users /\ users[cmd'[r].user] \in UserRow
      BY <3>1 DEF TypeInv, TypeOK, ControlOK, Control, Drawn
    <3>3. SnapshotOK(r)'
      BY <3>1, <3>2 DEF SnapshotOK, SameLocked, UserRow
    <3>4. IssuerOK(r)' /\ ProofOK(r)'
      BY <2>2, <3>1 DEF Loads, IssuerOK, ProofOK
    <3> QED
      BY <3>3, <3>4
  <2> QED
    BY <2>1, <2>2 DEF AccountEffect
<1>3. ASSUME NEW a \in DOMAIN access' PROVE AccessOK(a)'
  <2>1. CASE a \in DOMAIN access /\ access'[a] = access[a]
    BY <2>1, KeptAccess DEF AccountEffect
  <2>2. CASE a = r /\ access' # access
    <3>1. /\ users' = users /\ pc[r] \in Signing /\ r \in DOMAIN loaded
          /\ access'[r].user = cmd[r].user /\ access'[r].tv = loaded[r].tokenVersion
      BY <2>2 DEF AccountEffect, Signs, Put
    <3>2. SnapshotOK(r) /\ IssuerOK(r)
      BY DEF AccountInv
    <3> QED
      BY <2>2, <3>1, <3>2 DEF SnapshotOK, IssuerOK, AccessOK
  <2> QED
    BY <1>3, <2>1, <2>2 DEF AccountEffect, Signs, Put
<1> QED
  BY <1>1, <1>2, <1>3 DEF AccountInv

\* Time, Redis and deployments: rows differ at most in "outdated".
LEMMA EnvironmentEffect ==
    ASSUME TypeInv, Tick \/ RedisFlip \/ RaiseHashCost \/ UNCHANGED vars
    PROVE  RowsStep /\ PasswordsStep /\ UNCHANGED <<access, pc, cmd, loaded>>
<1>1. UNCHANGED <<access, pc, cmd, loaded>>
  BY DEF Tick, RedisFlip, RaiseHashCost, vars, stores, requests
<1>2. CASE UNCHANGED users
  BY <1>1, <1>2, SameUsers
<1>3. CASE RaiseHashCost
  <2>1. users' \in [Users -> UserRow] /\ users \in [Users -> UserRow]
    BY <1>3, EnvironmentTypes DEF TypeInv, TypeOK
  <2>2. ASSUME NEW u \in Users
        PROVE  SameLocked(users'[u], users[u]) /\ users'[u].version = users[u].version
    <3>1. \A b : LET new == [users[u] EXCEPT !.outdated = b]
                 IN  SameLocked(new, users[u]) /\ new.version = users[u].version
      BY <2>1 DEF SameLocked, UserRow
    <3>2. users'[u] = [users[u] EXCEPT !.outdated = (users[u].password # Null)]
      BY <1>3 DEF RaiseHashCost
    <3> QED
      BY <3>1, <3>2
  <2>3. RowsStep
    BY <2>1, <2>2, SameRow DEF RowsStep
  <2>4. PasswordsStep
    BY <2>2 DEF PasswordsStep, SameLocked
  <2> QED
    BY <1>1, <2>3, <2>4
<1> QED
  BY <1>2, <1>3 DEF Tick, RedisFlip, vars, stores

LEMMA NextEffect ==
    ASSUME TypeInv, AccountInv, [Next]_vars
    PROVE  \/ \E r \in Requests : AccountEffect(r)
           \/ RowsStep /\ PasswordsStep /\ UNCHANGED <<access, pc, cmd, loaded>>
  BY ArriveEffect, StepEffect, EnvironmentEffect DEF Next, Quiescent

LEMMA AccountStep == TypeInv /\ TypeInv' /\ AccountInv /\ [Next]_vars => AccountInv'
<1> SUFFICES ASSUME TypeInv, TypeInv', AccountInv, [Next]_vars PROVE AccountInv'
  OBVIOUS
<1>1. CASE RowsStep /\ UNCHANGED <<access, pc, cmd, loaded>>
  BY <1>1, KeptEntity, KeptAccess DEF AccountInv
<1> QED
  BY <1>1, NextEffect, RequestAccounts

LEMMA AccountAlways == Spec => [](TypeInv /\ AccountInv)
<1>1. Init => TypeInv /\ AccountInv
  BY InitType, InitAccounts
<1>2. TypeInv /\ AccountInv /\ [Next]_vars => TypeInv' /\ AccountInv'
  BY TypeStep, AccountStep
<1> QED
  BY <1>1, <1>2, PTL DEF Spec

\* Every step moves every row by RowStep and every password as it may.
LEMMA Moves ==
    ASSUME TypeInv, AccountInv, [Next]_vars
    PROVE  RowsStep /\ PasswordsStep
  BY NextEffect DEF AccountEffect

-----------------------------------------------------------------------------
(* The results *)

\* No save, whatever stale entity it starts from, lowers a token version.
THEOREM VersionsGrow == Spec => TokenVersionNeverBack
<1>1. TypeInv /\ AccountInv /\ [Next]_vars =>
        [\A u \in Users : users'[u].tokenVersion >= users[u].tokenVersion]_vars
  BY Moves DEF RowsStep, RowStep
<1> QED
  BY <1>1, AccountAlways, PTL DEF Spec, TokenVersionNeverBack

\* The password changes only by a change that proved the one it replaces.
THEOREM PasswordsProved == Spec => PasswordOnlyByVerifiedChange
<1>1. TypeInv /\ AccountInv /\ [Next]_vars => [PasswordsStep]_vars
  BY Moves
<1>2. Spec => [][PasswordsStep]_vars
  BY <1>1, AccountAlways, PTL DEF Spec
<1> QED
  BY <1>2 DEF PasswordsStep, PasswordOnlyByVerifiedChange

\* A change of password or privilege outruns every token version in use.
THEOREM CredentialsRevoke == Spec => CredentialChangeKillsTokens
<1> DEFINE Kills ==
      \A u \in Users :
         \/ users'[u].password # users[u].password
         \/ users'[u].admin # users[u].admin
         => /\ \A a \in DOMAIN access :
                 access[a].user = u => access[a].tv # users'[u].tokenVersion
            /\ \A r \in DOMAIN loaded :
                 cmd[r].user = u => loaded[r].tokenVersion # users'[u].tokenVersion
<1>1. TypeInv /\ TypeInv' /\ AccountInv /\ [Next]_vars => Kills
  <2> SUFFICES ASSUME TypeInv, TypeInv', AccountInv, [Next]_vars, NEW u \in Users,
                      \/ users'[u].password # users[u].password
                      \/ users'[u].admin # users[u].admin
               PROVE  /\ \A a \in DOMAIN access :
                           access[a].user = u => access[a].tv # users'[u].tokenVersion
                      /\ \A r \in DOMAIN loaded :
                           cmd[r].user = u =>
                             loaded[r].tokenVersion # users'[u].tokenVersion
    OBVIOUS
  <2>1. RowStep(users[u], users'[u])
    BY Moves DEF RowsStep
  <2>2. users[u].tokenVersion \in Nat /\ users'[u].tokenVersion \in Nat
    BY DEF TypeInv, TypeOK, UserRow
  <2>3. users'[u].tokenVersion > users[u].tokenVersion
    BY <2>1, <2>2 DEF RowStep
  <2>4. \A a \in DOMAIN access : access[a].user = u => access[a].tv <= users[u].tokenVersion
    BY DEF AccountInv, AccessOK
  <2>5. \A r \in DOMAIN loaded :
          cmd[r].user = u => loaded[r].tokenVersion <= users[u].tokenVersion
    BY DEF AccountInv, SnapshotOK, TypeInv, TypeOK
  <2>6. /\ \A a \in DOMAIN access : access[a].tv \in Nat
        /\ \A r \in DOMAIN loaded : loaded[r].tokenVersion \in Nat
    BY DEF TypeInv, TypeOK, AccessToken, UserRow
  <2> QED
    BY <2>2, <2>3, <2>4, <2>5, <2>6
<1>2. Spec => [](TypeInv /\ AccountInv)
  BY AccountAlways
<1>3. Spec => [][Kills]_vars
  <2> HIDE DEF Kills
  <2> QED
    BY <1>1, <1>2, PTL DEF Spec
<1> QED
  BY <1>3 DEF CredentialChangeKillsTokens

\* A token version still current means an account in service ever since the
\* token was signed, so what was rejected stays rejected.
THEOREM RejectionFinal == Spec => RejectedStaysRejected
<1> DEFINE Stays == \A a \in DOMAIN access : ~Accepts(a) => ~Accepts(a)'
<1>1. TypeInv /\ TypeInv' /\ AccountInv /\ [Next]_vars => Stays
  <2> SUFFICES ASSUME TypeInv, TypeInv', AccountInv, [Next]_vars,
                      NEW a \in DOMAIN access, ~Accepts(a)
               PROVE  ~Accepts(a)'
    OBVIOUS
  <2> DEFINE u == access[a].user
  <2>1. /\ access[a].tv \in Nat /\ u \in Users
        /\ users[u].tokenVersion \in Nat /\ users'[u].tokenVersion \in Nat
    BY DEF TypeInv, TypeOK, AccessToken, UserRow
  <2>2. access[a].tv < users[u].tokenVersion
    BY <2>1 DEF AccountInv, AccessOK, Accepts, InService
  <2>3. users'[u].tokenVersion >= users[u].tokenVersion
    BY <2>1, Moves DEF RowsStep, RowStep
  <2>4. access'[a] = access[a]
    BY NextEffect DEF AccountEffect, Signs, Put
  <2> QED
    BY <2>1, <2>2, <2>3, <2>4 DEF Accepts
<1>2. Spec => [](TypeInv /\ AccountInv)
  BY AccountAlways
<1>3. Spec => [][Stays]_vars
  <2> HIDE DEF Stays
  <2> QED
    BY <1>1, <1>2, PTL DEF Spec
<1> QED
  BY <1>3 DEF RejectedStaysRejected

-----------------------------------------------------------------------------
(* The denylist *)

LogsOut(q) == cmd[q].op \in {"logout", "logoutAll"}

\* The key of a token lives as long as the token, and a logout that ended in
\* "done" left the key or came after its token's life.
DenyInv ==
    /\ \A a \in DOMAIN denylist : a \in DOMAIN access /\ denylist[a] = access[a].exp
    /\ \A q \in DOMAIN cmd : LogsOut(q) /\ pc[q] = "done" =>
         /\ cmd[q].jti \in DOMAIN access
         /\ access[cmd[q].jti].exp <= clock \/ cmd[q].jti \in DOMAIN denylist

\* Tokens keep their expiry, time passes, and every logout that ended in "done"
\* had ended before.
NothingDenied ==
    /\ \A a \in DOMAIN access : a \in DOMAIN access' /\ access'[a] = access[a]
    /\ clock' >= clock /\ clock \in Nat
    /\ \A q \in DOMAIN cmd' : LogsOut(q)' /\ pc'[q] = "done" =>
         q \in DOMAIN cmd /\ cmd'[q] = cmd[q] /\ pc[q] = "done"

LEMMA Signed ==
    ASSUME TypeInv, AccountInv, [Next]_vars
    PROVE  \A a \in DOMAIN access : a \in DOMAIN access' /\ access'[a] = access[a]
  BY NextEffect DEF AccountEffect, Signs, Put

\* A request that resumes, and is no logout that is answered.
LEMMA ResumesUndenied ==
    ASSUME TypeInv, AccountInv, [Next]_vars, NEW r \in Requests, NEW point, Goto(r, point),
           UNCHANGED <<cmd, clock>>, point = "done" => ~LogsOut(r)
    PROVE  NothingDenied
<1>1. \A q \in DOMAIN cmd : q # r => pc'[q] = pc[q]
  BY Resumes DEF Others, TypeInv, TypeOK
<1>2. pc'[r] = point
  BY Resumes
<1>3. clock \in Nat
  BY DEF TypeInv, TypeOK
<1> QED
  BY <1>1, <1>2, <1>3, Signed DEF NothingDenied, LogsOut

LEMMA ArriveUndenied ==
    ASSUME TypeInv, AccountInv, [Next]_vars, NEW r \in Requests, Arrive(r)
    PROVE  NothingDenied /\ denylist' = denylist
<1>1. ASSUME NEW c, NEW point, Begin(r, c), Goto(r, point), point # "done", clock' = clock
      PROVE  NothingDenied
  <2>1. Others(r) /\ pc'[r] = point /\ clock \in Nat
    BY <1>1, Begins DEF TypeInv, TypeOK
  <2>2. \A q \in DOMAIN cmd' : q # r => q \in DOMAIN cmd /\ q \in Requests
    BY <1>1 DEF Begin, Put, TypeInv, TypeOK
  <2> QED
    BY <1>1, <2>1, <2>2, Signed DEF NothingDenied, Others
<1>2. ASSUME NEW u \in Users, NEW p \in Passwords, LoginFind(r, u, p)
      PROVE  NothingDenied /\ denylist' = denylist
  <2>1. PICK point \in {"rehash", "issue", "failed"} : Goto(r, point)
    BY <1>2 DEF LoginFind
  <2> QED
    BY <1>1, <1>2, <2>1 DEF LoginFind, stores, environment
<1>3. ASSUME NEW t \in HeldRefresh \cup {Null}, RefreshFind(r, t)
      PROVE  NothingDenied /\ denylist' = denylist
  <2>1. PICK point \in {"failed", "reuse", "consume"} : Goto(r, point)
    BY <1>3 DEF RefreshFind
  <2> QED
    BY <1>1, <1>3, <2>1 DEF RefreshFind, stores, environment
<1>4. ASSUME NEW a, NEW c, BeginGuarded(r, a, c) PROVE NothingDenied /\ denylist' = denylist
  BY <1>1, <1>4 DEF BeginGuarded, stores, environment
<1>5. ASSUME NEW u \in Users, NEW e \in Edits, EditFind(r, u, e)
      PROVE  NothingDenied /\ denylist' = denylist
  BY <1>1, <1>5 DEF EditFind, stores, environment
<1> QED
  BY <1>2, <1>3, <1>4, <1>5
     DEF Arrive, BeginAccess, BeginLogout, BeginLogoutAll, BeginChangePassword

\* A save ends where it says or in a conflict.
LEMMA SaveGoes ==
    ASSUME NEW r, NEW next, NEW u, NEW e, Save(r, u, e, next)
    PROVE  \E point \in {next, "conflict"} : Goto(r, point)
  BY DEF Save

LEMMA StepUndenied ==
    ASSUME TypeInv, AccountInv, [Next]_vars, NEW r \in Requests, Step(r) \/ Die(r), ~LogoutDeny(r)
    PROVE  NothingDenied /\ denylist' = denylist
<1>1. ASSUME NEW point, Goto(r, point), UNCHANGED <<cmd, clock>>, point # "done" \/ ~LogsOut(r)
      PROVE  NothingDenied
  BY <1>1, ResumesUndenied
<1>2. CASE Die(r)
  BY <1>1, <1>2 DEF Die, stores, environment
<1>3. CASE LoginRehash(r) \/ LoginIssue(r) \/ LoginTouch(r)
  <2>1. PICK point : Goto(r, point)
    BY <1>3, SaveGoes DEF LoginRehash, LoginIssue, LoginTouch
  <2>2. ~LogsOut(r)
    BY <1>3 DEF LoginRehash, LoginIssue, LoginTouch, At, TypeInv, ControlOK, Control,
       LoginCommand, LoginPoints, LogsOut
  <2> QED
    BY <1>1, <1>3, <2>1, <2>2 DEF LoginRehash, LoginIssue, LoginTouch, environment
<1>4. CASE RefreshConsume(r) \/ RefreshReuse(r) \/ RefreshLoad(r) \/ RefreshRotate(r)
  <2>1. PICK point : Goto(r, point)
    BY <1>4 DEF RefreshConsume, RefreshReuse, RefreshLoad, RefreshRotate
  <2>2. ~LogsOut(r)
    BY <1>4 DEF RefreshConsume, RefreshReuse, RefreshLoad, RefreshRotate, At, TypeInv, ControlOK,
       Control, RefreshCommand, RefreshPoints, LogsOut
  <2> QED
    BY <1>1, <1>4, <2>1, <2>2
       DEF RefreshConsume, RefreshReuse, RefreshLoad, RefreshRotate, stores, environment
<1>5. CASE GuardDenylist(r)
  <2>1. PICK point \in {"failed", "snapshot"} : Goto(r, point)
    BY <1>5 DEF GuardDenylist
  <2> QED
    BY <1>1, <1>5, <2>1 DEF GuardDenylist, stores, environment
<1>6. CASE GuardSnapshot(r)
  <2>1. PICK point \in {"failed", Entry(cmd[r].op)} : Goto(r, point)
    BY <1>6 DEF GuardSnapshot
  <2>2. point # "done" \/ ~LogsOut(r)
    BY <2>1 DEF Entry, LogsOut
  <2> QED
    BY <1>1, <1>6, <2>1, <2>2 DEF GuardSnapshot, stores, environment
<1>7. CASE LogoutRevoke(r) \/ LogoutAllRevoke(r) \/ LogoutAllFind(r) \/ LogoutAllBump(r)
  <2>1. PICK point \in {"deny", "findSelf", "bump", "conflict"} : Goto(r, point)
    BY <1>7, SaveGoes DEF LogoutRevoke, LogoutAllRevoke, LogoutAllFind, LogoutAllBump
  <2> QED
    BY <1>1, <1>7, <2>1
       DEF LogoutRevoke, LogoutAllRevoke, LogoutAllFind, LogoutAllBump, stores, environment
<1>8. CASE ChangePasswordVerify(r) \/ ChangePasswordSave(r) \/ ChangePasswordRevoke(r)
  <2>1. PICK point : Goto(r, point)
    BY <1>8, SaveGoes DEF ChangePasswordVerify, ChangePasswordSave, ChangePasswordRevoke
  <2>2. ~LogsOut(r)
    BY <1>8 DEF ChangePasswordVerify, ChangePasswordSave, ChangePasswordRevoke, At, TypeInv,
       ControlOK, Control, GuardedCommand, PasswordPoints, LogsOut
  <2> QED
    BY <1>1, <1>8, <2>1, <2>2
       DEF ChangePasswordVerify, ChangePasswordSave, ChangePasswordRevoke, stores, environment
<1>9. CASE EditSave(r)
  <2>1. PICK point : Goto(r, point)
    BY <1>9, SaveGoes DEF EditSave
  <2>2. ~LogsOut(r)
    BY <1>9 DEF EditSave, At, TypeInv, ControlOK, Control, EditCommand, LogsOut
  <2> QED
    BY <1>1, <1>9, <2>1, <2>2 DEF EditSave, environment
<1> QED
  BY <1>2, <1>3, <1>4, <1>5, <1>6, <1>7, <1>8, <1>9 DEF Step

LEMMA DenyStep ==
    ASSUME TypeInv, TypeInv', AccountInv, DenyInv, [Next]_vars
    PROVE  DenyInv'
<1>1. CASE NothingDenied /\ denylist' = denylist
  <2>1. \A a \in DOMAIN access : access[a].exp \in Nat
    BY DEF TypeInv, TypeOK, AccessToken
  <2>2. \A a \in DOMAIN denylist' : a \in DOMAIN access' /\ denylist'[a] = access'[a].exp
    BY <1>1 DEF DenyInv, NothingDenied
  <2>3. ASSUME NEW q \in DOMAIN cmd', LogsOut(q)', pc'[q] = "done"
        PROVE  /\ cmd'[q].jti \in DOMAIN access'
               /\ access'[cmd'[q].jti].exp <= clock' \/ cmd'[q].jti \in DOMAIN denylist'
    <3>1. q \in DOMAIN cmd /\ cmd'[q] = cmd[q] /\ pc[q] = "done"
      BY <1>1, <2>3 DEF NothingDenied
    <3>2. LogsOut(q)
      BY <2>3, <3>1 DEF LogsOut
    <3>3. /\ cmd[q].jti \in DOMAIN access
          /\ access[cmd[q].jti].exp <= clock \/ cmd[q].jti \in DOMAIN denylist
      BY <3>1, <3>2 DEF DenyInv
    <3>4. /\ cmd[q].jti \in DOMAIN access'
          /\ access'[cmd[q].jti] = access[cmd[q].jti]
          /\ clock \in Nat /\ clock' \in Nat /\ clock' >= clock
      BY <1>1, <3>3 DEF NothingDenied, TypeInv, TypeOK
    <3>5. access[cmd[q].jti].exp \in Nat
      BY <2>1, <3>3
    <3>6. access[cmd[q].jti].exp <= clock => access[cmd[q].jti].exp <= clock'
      BY <3>4, <3>5
    <3> QED
      BY <1>1, <3>1, <3>3, <3>4, <3>6
  <2> QED
    BY <2>2, <2>3 DEF DenyInv
<1>2. ASSUME NEW r \in Requests, LogoutDeny(r) PROVE DenyInv'
  <2> DEFINE a == cmd[r].jti
  <2>1. /\ a \in DOMAIN access /\ r \in DOMAIN cmd
        /\ \A q \in Requests : q # r => pc'[q] = pc[q]
        /\ UNCHANGED <<cmd, access, clock>>
    BY <1>2, Resumes DEF LogoutDeny, At, Goto, environment, TypeInv, TypeOK, ControlOK, Control,
       GuardedCommand, LogoutPoints
  <2>2. \/ denylist' = denylist /\ (pc'[r] = "done" => access[a].exp <= clock)
        \/ denylist' = Put(denylist, a, access[a].exp)
    BY <1>2 DEF LogoutDeny, Goto, TypeInv, TypeOK
  <2>3. \A b \in DOMAIN denylist' : b \in DOMAIN access /\ denylist'[b] = access[b].exp
    BY <2>1, <2>2 DEF DenyInv, Put
  <2>4. \A b \in DOMAIN denylist : b \in DOMAIN denylist'
    BY <2>2 DEF Put
  <2>5. pc'[r] = "done" => access[a].exp <= clock \/ a \in DOMAIN denylist'
    BY <2>2 DEF Put
  <2>6. \A q \in DOMAIN cmd : q \in Requests
    BY DEF TypeInv, TypeOK
  <2> QED
    BY <2>1, <2>3, <2>4, <2>5, <2>6 DEF DenyInv, LogsOut
<1>3. CASE Tick \/ RedisFlip \/ RaiseHashCost \/ UNCHANGED vars
  <2>1. UNCHANGED <<pc, cmd, access, denylist>>
    BY <1>3 DEF Tick, RedisFlip, RaiseHashCost, vars, stores, requests
  <2>2. clock \in Nat /\ (clock' = clock \/ clock' = clock + 1)
    BY <1>3 DEF Tick, RedisFlip, RaiseHashCost, vars, environment, TypeInv, TypeOK
  <2> QED
    BY <1>1, <2>1, <2>2 DEF NothingDenied, LogsOut
<1> QED
  BY <1>1, <1>2, <1>3, ArriveUndenied, StepUndenied DEF Next, Quiescent

\* TokenDenylistService, add and has: a token whose logout left its denylist
\* key passes the denylist check of no request while it lives, whether Redis
\* answers, fails or comes back.  The logout whose key Redis did not take is
\* answered with success too; of it nothing is claimed.
THEOREM DeniedTokensStayOut == Spec => DenylistHonoured
<1> DEFINE Honours ==
      \A r \in DOMAIN cmd :
         /\ pc[r] = "denylist" /\ pc'[r] = "snapshot"
         /\ KeyLeft(cmd[r].jti)
         => access[cmd[r].jti].exp <= clock
<1>1. TypeInv /\ AccountInv /\ DenyInv /\ [Next]_vars => Honours
  <2> SUFFICES ASSUME TypeInv, AccountInv, DenyInv, [Next]_vars, NEW r \in DOMAIN cmd,
                      pc[r] = "denylist", pc'[r] = "snapshot", KeyLeft(cmd[r].jti)
               PROVE  access[cmd[r].jti].exp <= clock
    OBVIOUS
  <2>1. PICK q \in Requests : Arrive(q) \/ Step(q) \/ Die(q)
    <3>1. ~(Tick \/ RedisFlip \/ RaiseHashCost \/ UNCHANGED vars)
      BY DEF Tick, RedisFlip, RaiseHashCost, vars, requests
    <3> QED
      BY <3>1 DEF Next, Quiescent
  <2>2. r \in Requests
    BY DEF TypeInv, TypeOK
  <2>3. q = r
    BY <2>1, <2>2, ArriveEffect, StepEffect DEF AccountEffect, Others
  <2>4. ~Arrive(r)
    BY DEF Arrive, LoginFind, RefreshFind, EditFind, BeginAccess, BeginLogout, BeginLogoutAll,
       BeginChangePassword, BeginGuarded, Begin
  <2>5. ~Die(r)
    BY <2>2 DEF Die, Goto, TypeInv, TypeOK
  <2>6. GuardDenylist(r)
    BY <2>1, <2>3, <2>4, <2>5
       DEF Step, At, LoginRehash, LoginIssue, LoginTouch, RefreshConsume, RefreshReuse, RefreshLoad,
       RefreshRotate, GuardSnapshot, LogoutRevoke, LogoutDeny, LogoutAllRevoke, LogoutAllFind,
       LogoutAllBump, ChangePasswordVerify, ChangePasswordSave, ChangePasswordRevoke, EditSave
  <2>7. ~Denylisted(cmd[r].jti)
    BY <2>2, <2>6 DEF GuardDenylist, Goto, DenylistHas, TypeInv, TypeOK
  <2>8. access[cmd[r].jti].exp <= clock \/ cmd[r].jti \in DOMAIN denylist
    BY DEF DenyInv, KeyLeft, LoggedOutAt, LogsOut
  <2>9. clock \in Nat /\ \A a \in DOMAIN denylist : denylist[a] \in Nat
    BY DEF DenyInv, TypeInv, TypeOK, AccessToken
  <2> QED
    BY <2>7, <2>8, <2>9 DEF Denylisted, DenyInv
<1>2. Init => DenyInv
  BY DEF Init, DenyInv, EmptyTable
<1>3. Spec => [](TypeInv /\ AccountInv /\ DenyInv)
  <2>1. TypeInv /\ TypeInv' /\ AccountInv /\ DenyInv /\ [Next]_vars => DenyInv'
    BY DenyStep
  <2> QED
    BY <1>2, <2>1, AccountAlways, PTL DEF Spec
<1>4. Spec => [][Honours]_vars
  <2> HIDE DEF Honours
  <2> QED
    BY <1>1, <1>3, PTL DEF Spec
<1> QED
  BY <1>4 DEF DenylistHonoured

-----------------------------------------------------------------------------
(* The sessions as AccessGrants *)

LEMMA SigningHolds ==
    ASSUME TypeInv, NEW r \in Requests, pc[r] \in Signing
    PROVE  /\ r \in DOMAIN loaded /\ loaded[r] \in UserRow
           /\ r \in DOMAIN cmd /\ cmd[r].user \in Users
           /\ r \notin DOMAIN access
  BY DEF Signing, Holding, TypeInv, TypeOK, ControlOK, Control, Drawn

\* Nobody replaces the entity a token is about to be signed for.
LEMMA SigningKeeps ==
    ASSUME TypeInv, AccountInv, [Next]_vars, NEW r \in Requests, pc[r] \in Signing
    PROVE  loaded'[r] = loaded[r] /\ cmd'[r] = cmd[r]
<1>1. r \in DOMAIN loaded /\ r \in DOMAIN cmd
  BY SigningHolds
<1>2. CASE UNCHANGED <<cmd, loaded>>
  BY <1>2
<1>3. ASSUME NEW q \in Requests, q # r, Arrive(q) \/ Step(q) \/ Die(q)
      PROVE  loaded'[r] = loaded[r] /\ cmd'[r] = cmd[r]
  <2>1. AccountEffect(q)
    BY <1>3, ArriveEffect, StepEffect
  <2> QED
    BY <1>1, <1>3, <2>1 DEF AccountEffect, Others, Loads, Keeps, Put
<1>4. ~Arrive(r)
  BY DEF Signing, Arrive, LoginFind, RefreshFind, EditFind, BeginAccess, BeginLogout,
     BeginLogoutAll, BeginChangePassword, BeginGuarded, Begin
<1>5. Step(r) => LoginRehash(r) \/ LoginIssue(r) \/ RefreshRotate(r)
  BY DEF Signing, Step, At, LoginTouch, RefreshConsume, RefreshReuse, RefreshLoad, GuardDenylist,
     GuardSnapshot, LogoutRevoke, LogoutDeny, LogoutAllRevoke, LogoutAllFind, LogoutAllBump,
     ChangePasswordVerify, ChangePasswordSave, ChangePasswordRevoke, EditSave
<1>6. LoginRehash(r) \/ LoginIssue(r) \/ RefreshRotate(r) \/ Die(r) => UNCHANGED <<cmd, loaded>>
  BY DEF LoginRehash, LoginIssue, RefreshRotate, Die
<1>7. Tick \/ RedisFlip \/ RaiseHashCost \/ UNCHANGED vars => UNCHANGED <<cmd, loaded>>
  BY DEF Tick, RedisFlip, RaiseHashCost, vars, requests
<1> QED
  BY <1>2, <1>3, <1>4, <1>5, <1>6, <1>7 DEF Next, Quiescent

\* A save that the lock lets through writes one row.
LEMMA SaveWrites ==
    ASSUME TypeInv, NEW u \in Users, NEW r, NEW entity, NEW next, Save(r, u, entity, next),
           users' # users
    PROVE  /\ VersionMatches(users[u], entity)
           /\ users'[u] = Written(users[u], entity)
           /\ \A v \in Users : v # u => users'[v] = users[v]
           /\ Goto(r, next)
  BY DEF Save, TypeInv, TypeOK

AccountsStay == \A u \in Users : SameLocked(users'[u], users[u])

OneAccountMoves ==
    /\ UNCHANGED <<access, cmd, loaded>>
    /\ \A r \in Requests : pc[r] \in Signing \/ pc'[r] \in Signing => pc'[r] = pc[r]
    /\ \E u \in Users : \A v \in Users : v # u => users'[v] = users[v]

\* A step that changes what the lock protects leaves those about to sign
\* where they are.
LEMMA Splits ==
    ASSUME TypeInv, AccountInv, [Next]_vars
    PROVE  AccountsStay \/ OneAccountMoves
<1>0. users \in [Users -> UserRow]
  BY DEF TypeInv, TypeOK
<1>1. CASE users' = users
  BY <1>1 DEF AccountsStay, SameLocked
<1>2. ASSUME NEW r \in Requests, LoginRehash(r), users' # users PROVE AccountsStay
  <2> DEFINE u == cmd[r].user
             e == UpgradePasswordHash(loaded[r], cmd[r].password)
  <2>1. /\ r \in DOMAIN loaded /\ loaded[r] \in UserRow /\ u \in Users /\ pc[r] = "rehash"
    BY <1>2, SigningHolds DEF LoginRehash, At, Signing
  <2>2. /\ VersionMatches(users[u], e) /\ users'[u] = Written(users[u], e)
        /\ \A v \in Users : v # u => users'[v] = users[v]
    BY <1>2, <2>1, SaveWrites DEF LoginRehash
  <2>3. SameLocked(e, loaded[r]) /\ e.version = loaded[r].version
    BY <2>1 DEF AccountInv, ProofOK, SameLocked, UpgradePasswordHash, UserRow
  <2>4. SameLocked(loaded[r], users[u])
    BY <2>1, <2>2, <2>3 DEF VersionMatches, AccountInv, SnapshotOK
  <2>5. SameLocked(Written(users[u], e), e)
    BY <2>1 DEF SameLocked, Written, UpgradePasswordHash, UserRow
  <2> QED
    BY <2>2, <2>3, <2>4, <2>5 DEF AccountsStay, SameLocked
<1>3. ASSUME NEW r \in Requests, LoginTouch(r) PROVE AccountsStay
  BY <1>0, <1>3 DEF LoginTouch, TouchLastLogin, AccountsStay, SameLocked, UserRow
<1>4. CASE RaiseHashCost
  BY <1>0, <1>4 DEF RaiseHashCost, AccountsStay, SameLocked, UserRow
<1>5. ASSUME NEW r \in Requests, NEW point \in Running \cup Finished, NEW entity,
             Save(r, cmd[r].user, entity, point), users' # users, cmd[r].user \in Users,
             pc[r] \notin Signing, point \notin Signing, UNCHANGED <<access, cmd, loaded>>
      PROVE  OneAccountMoves
  <2>1. Goto(r, point) /\ \A v \in Users : v # cmd[r].user => users'[v] = users[v]
    BY <1>5, SaveWrites
  <2>2. \A q \in Requests : q # r => pc'[q] = pc[q]
    BY <2>1 DEF Goto, TypeInv, TypeOK
  <2>3. pc'[r] = point
    BY <2>1 DEF Goto, TypeInv, TypeOK
  <2> QED
    BY <1>5, <2>1, <2>2, <2>3 DEF OneAccountMoves
<1>6. ASSUME NEW r \in Requests, LogoutAllBump(r), users' # users PROVE OneAccountMoves
  <2>1. pc[r] = "bump" /\ cmd[r].user \in Users
    BY <1>6 DEF LogoutAllBump, At, Holding, TypeInv, ControlOK, Control, Drawn
  <2> QED
    BY <1>5, <1>6, <2>1 DEF LogoutAllBump, Signing, Running, LogoutPoints
<1>7. ASSUME NEW r \in Requests, ChangePasswordSave(r), users' # users PROVE OneAccountMoves
  <2>1. pc[r] = "savePassword" /\ cmd[r].user \in Users
    BY <1>7 DEF ChangePasswordSave, At, Holding, TypeInv, ControlOK, Control, Drawn
  <2> QED
    BY <1>5, <1>7, <2>1 DEF ChangePasswordSave, Signing, Running, PasswordPoints
<1>8. ASSUME NEW r \in Requests, EditSave(r), users' # users PROVE OneAccountMoves
  <2>1. pc[r] = "saveEdit" /\ cmd[r].user \in Users
    BY <1>8 DEF EditSave, At, Holding, TypeInv, ControlOK, Control, Drawn
  <2> QED
    BY <1>5, <1>8, <2>1 DEF EditSave, Signing, Finished
<1>9. ASSUME NEW r \in Requests, Arrive(r) PROVE users' = users
  BY <1>9 DEF Arrive, LoginFind, RefreshFind, EditFind, BeginAccess, BeginLogout, BeginLogoutAll,
     BeginChangePassword, BeginGuarded, stores
<1>10. ASSUME NEW r \in Requests, Step(r) \/ Die(r)
       PROVE  \/ LoginRehash(r) \/ LoginTouch(r) \/ LogoutAllBump(r) \/ ChangePasswordSave(r)
              \/ EditSave(r) \/ users' = users
  BY <1>10 DEF Step, Die, LoginIssue, RefreshConsume, RefreshReuse, RefreshLoad, RefreshRotate,
     GuardDenylist, GuardSnapshot, LogoutRevoke, LogoutDeny, LogoutAllRevoke, LogoutAllFind,
     ChangePasswordVerify, ChangePasswordRevoke, stores
<1>11. Tick \/ RedisFlip \/ UNCHANGED vars => users' = users
  BY DEF Tick, RedisFlip, vars, stores
<1> QED
  BY <1>1, <1>2, <1>3, <1>4, <1>6, <1>7, <1>8, <1>9, <1>10, <1>11 DEF Next, Quiescent

\* A token is honoured as long as the token version is the one it carries.
LEMMA AcceptedIs ==
    ASSUME TypeInv, AccountInv, NEW a \in DOMAIN access
    PROVE  Accepts(a) <=> access[a].tv = users[access[a].user].tokenVersion
<1>1. access[a].user \in Users /\ users[access[a].user] \in UserRow
  BY DEF TypeInv, TypeOK, AccessToken
<1> QED
  BY <1>1 DEF AccountInv, AccessOK, Accepts, InService, UserRow

LEMMA AcceptedIsNext ==
    ASSUME TypeInv', AccountInv', NEW a, a \in DOMAIN access'
    PROVE  Accepts(a)' <=> access'[a].tv = users'[access'[a].user].tokenVersion
<1>1. access'[a].user \in Users /\ users'[access'[a].user] \in UserRow
  BY DEF TypeInv, TypeOK, AccessToken
<1> QED
  BY <1>1 DEF AccountInv, AccessOK, Accepts, InService, UserRow

SameGrant(r) == GrantOf(r)' = GrantOf(r) /\ HolderOf(r)' = HolderOf(r)

\* A request whose token, or whose place, stays.
LEMMA GrantStays ==
    ASSUME TypeInv, AccountInv, TypeInv', AccountInv', [Next]_vars, AccountsStay,
           NEW r \in Requests,
           r \in DOMAIN access' <=> r \in DOMAIN access,
           r \in DOMAIN access => access'[r] = access[r],
           pc'[r] \in Signing <=> pc[r] \in Signing
    PROVE  SameGrant(r)
<1>1. CASE r \in DOMAIN access
  <2>1. access[r].user \in Users
    BY <1>1 DEF TypeInv, TypeOK, AccessToken
  <2>2. Accepts(r)' <=> Accepts(r)
    BY <1>1, <2>1, AcceptedIs, AcceptedIsNext DEF AccountsStay, SameLocked
  <2> QED
    BY <1>1, <2>2 DEF SameGrant, GrantOf, HolderOf
<1>2. CASE r \notin DOMAIN access /\ pc[r] \in Signing
  <2>1. loaded'[r] = loaded[r] /\ cmd'[r] = cmd[r] /\ cmd[r].user \in Users
    BY <1>2, SigningKeeps, SigningHolds
  <2> QED
    BY <1>2, <2>1 DEF SameGrant, GrantOf, HolderOf, Preparing, Signing, AccountsStay, SameLocked
<1>3. CASE r \notin DOMAIN access /\ pc[r] \notin Signing
  BY <1>3 DEF SameGrant, GrantOf, HolderOf, Preparing, Signing
<1> QED
  BY <1>1, <1>2, <1>3

\* What a step of request r is to its grant.
GrantMoves(r) ==
    \/ SameGrant(r)
    \/ /\ GrantOf(r) \in {"prepared", "stale"}
       /\ GrantOf(r)' = "none" /\ HolderOf(r)' = Null
    \/ /\ GrantOf(r) \in {"prepared", "stale"}
       /\ GrantOf(r)' = IF GrantOf(r) = "prepared" THEN "honoured" ELSE "rejected"
       /\ HolderOf(r)' = HolderOf(r)
    \/ /\ GrantOf(r) = "none"
       /\ \E u \in Users : InService(users[u]) /\ HolderOf(r)' = u
       /\ GrantOf(r)' = "prepared"

LEMMA GrantStep ==
    ASSUME TypeInv, AccountInv, TypeInv', AccountInv', [Next]_vars, AccountsStay,
           NEW r \in Requests, AccountEffect(r)
    PROVE  GrantMoves(r) /\ \A q \in Requests : q # r => SameGrant(q)
<1>1. ASSUME NEW q \in Requests, q # r PROVE SameGrant(q)
  <2>1. pc'[q] = pc[q]
    BY <1>1 DEF AccountEffect, Others
  <2>2. /\ q \in DOMAIN access' <=> q \in DOMAIN access
        /\ q \in DOMAIN access => access'[q] = access[q]
    BY <1>1 DEF AccountEffect, Signs, Put
  <2> QED
    BY <2>1, <2>2, GrantStays
<1>2. CASE access' # access
  <2>1. PICK exp \in Nat :
          access' = Put(access, r, [user |-> cmd[r].user, tv |-> loaded[r].tokenVersion,
                                    exp |-> exp])
    BY <1>2 DEF AccountEffect, Signs
  <2>2. pc[r] \in Signing /\ r \notin DOMAIN access /\ users' = users
    BY <1>2 DEF AccountEffect, Signs
  <2>3. /\ r \in DOMAIN access' /\ access'[r].user = cmd[r].user
        /\ access'[r].tv = loaded[r].tokenVersion
    BY <2>1 DEF Put
  <2>4. Accepts(r)' <=> loaded[r].tokenVersion = users[cmd[r].user].tokenVersion
    BY <2>2, <2>3, AcceptedIsNext
  <2> QED
    BY <1>1, <2>2, <2>3, <2>4 DEF GrantMoves, GrantOf, HolderOf, Preparing, Signing
<1>3. CASE access' = access /\ (pc'[r] \in Signing <=> pc[r] \in Signing)
  BY <1>1, <1>3, GrantStays DEF GrantMoves
<1>4. CASE access' = access /\ pc[r] \in Signing /\ pc'[r] \notin Signing
  <2>1. r \notin DOMAIN access
    BY <1>4, SigningHolds
  <2> QED
    BY <1>1, <1>4, <2>1 DEF GrantMoves, GrantOf, HolderOf, Preparing, Signing
<1>5. CASE access' = access /\ pc[r] \notin Signing /\ pc'[r] \in Signing
  <2>1. Loads(r)
    BY <1>5 DEF AccountEffect, Keeps
  <2>2. /\ users' = users /\ InService(users[cmd'[r].user])
        /\ loaded'[r] = users[cmd'[r].user]
    BY <1>5, <2>1 DEF Loads, Put
  <2>3. cmd'[r].user \in Users /\ r \notin DOMAIN access'
    BY <1>5 DEF Signing, Holding, TypeInv, TypeOK, ControlOK, Control, Drawn
  <2>4. GrantOf(r) = "none"
    BY <1>5, <2>3 DEF GrantOf, Preparing, Signing
  <2>5. GrantOf(r)' = "prepared" /\ HolderOf(r)' = cmd'[r].user
    BY <1>5, <2>2, <2>3 DEF GrantOf, HolderOf, Preparing, Signing
  <2> QED
    BY <1>1, <2>2, <2>3, <2>4, <2>5 DEF GrantMoves
<1> QED
  BY <1>2, <1>3, <1>4, <1>5

\* What a change of account u is to all grants.
Dated(r, u) ==
    GrantOf(r)' = IF HolderOf(r) = u THEN Grants!Outdated(GrantOf(r)) ELSE GrantOf(r)

LEMMA AccountMoves ==
    ASSUME TypeInv, AccountInv, TypeInv', AccountInv', [Next]_vars, OneAccountMoves,
           NEW u \in Users, \A v \in Users : v # u => users'[v] = users[v]
    PROVE  /\ \A r \in Requests : HolderOf(r)' = HolderOf(r)
           /\ \/ \A r \in Requests : Dated(r, u)
              \/ /\ \A r \in Requests : SameGrant(r)
                 /\ users'[u].password = users[u].password /\ users'[u].admin = users[u].admin
                 /\ InService(users[u]) => InService(users'[u])
<1>1. /\ UNCHANGED <<access, cmd, loaded>>
      /\ \A r \in Requests : pc[r] \in Signing <=> pc'[r] \in Signing
  BY DEF OneAccountMoves
<1>2. \A r \in Requests : HolderOf(r)' = HolderOf(r)
  BY <1>1 DEF HolderOf, Preparing, Signing
<1>3. RowStep(users[u], users'[u])
  BY Moves DEF RowsStep
<1>4. /\ users[u].tokenVersion \in Nat /\ users'[u].tokenVersion \in Nat
      /\ \A a \in DOMAIN access : access[a].tv \in Nat /\ access[a].user \in Users
  BY DEF TypeInv, TypeOK, UserRow, AccessToken
<1>5. \A a \in DOMAIN access :
        /\ Accepts(a) <=> access[a].tv = users[access[a].user].tokenVersion
        /\ Accepts(a)' <=> access[a].tv = users'[access[a].user].tokenVersion
  BY <1>1, AcceptedIs, AcceptedIsNext
<1>6. CASE users'[u].tokenVersion = users[u].tokenVersion
  <2>1. \A v \in Users : users'[v].tokenVersion = users[v].tokenVersion
    BY <1>6
  <2>2. ASSUME NEW r \in Requests PROVE GrantOf(r)' = GrantOf(r)
    <3>1. CASE r \in DOMAIN access
      BY <1>1, <1>4, <1>5, <2>1, <3>1 DEF GrantOf
    <3>2. CASE r \notin DOMAIN access /\ pc[r] \in Signing
      <4>1. cmd[r].user \in Users
        BY <3>2, SigningHolds
      <4> QED
        BY <1>1, <2>1, <3>2, <4>1 DEF GrantOf, Preparing, Signing
    <3>3. CASE r \notin DOMAIN access /\ pc[r] \notin Signing
      BY <1>1, <3>3 DEF GrantOf, Preparing, Signing
    <3> QED
      BY <3>1, <3>2, <3>3
  <2> QED
    BY <1>2, <1>3, <1>6, <2>2 DEF SameGrant, RowStep
<1>7. CASE users'[u].tokenVersion > users[u].tokenVersion
  <2>1. ASSUME NEW r \in Requests, r \in DOMAIN access PROVE Dated(r, u)
    <3>1. CASE access[r].user = u
      <4>1. access[r].tv <= users[u].tokenVersion
        BY <2>1, <3>1 DEF AccountInv, AccessOK
      <4>2. ~Accepts(r)'
        BY <1>4, <1>5, <1>7, <2>1, <3>1, <4>1
      <4> QED
        BY <1>1, <2>1, <3>1, <4>2 DEF Dated, GrantOf, HolderOf, Grants!Outdated
    <3>2. CASE access[r].user # u
      <4>1. Accepts(r)' <=> Accepts(r)
        BY <1>4, <1>5, <2>1, <3>2
      <4> QED
        BY <1>1, <2>1, <3>2, <4>1 DEF Dated, GrantOf, HolderOf
    <3> QED
      BY <3>1, <3>2
  <2>2. ASSUME NEW r \in Requests, r \notin DOMAIN access, pc[r] \in Signing PROVE Dated(r, u)
    <3>1. /\ r \in DOMAIN loaded /\ cmd[r].user \in Users
          /\ loaded[r].tokenVersion \in Nat
      BY <2>2, SigningHolds DEF UserRow
    <3>2. loaded[r].tokenVersion <= users[cmd[r].user].tokenVersion
      BY <3>1 DEF AccountInv, SnapshotOK
    <3>3. Preparing(r) /\ Preparing(r)'
      BY <1>1, <2>2 DEF Preparing, Signing
    <3>4. CASE cmd[r].user = u
      BY <1>1, <1>4, <1>7, <2>2, <3>1, <3>2, <3>3, <3>4
         DEF Dated, GrantOf, HolderOf, Grants!Outdated
    <3>5. CASE cmd[r].user # u
      BY <1>1, <2>2, <3>1, <3>3, <3>5 DEF Dated, GrantOf, HolderOf
    <3> QED
      BY <3>4, <3>5
  <2>3. ASSUME NEW r \in Requests, r \notin DOMAIN access, pc[r] \notin Signing
        PROVE  Dated(r, u)
    <3>1. HolderOf(r) = Null /\ Null \notin Users
      BY <2>3, SessionAssumption DEF HolderOf, Preparing, Signing
    <3> QED
      BY <1>1, <2>3, <3>1 DEF Dated, GrantOf, Preparing, Signing
  <2> QED
    BY <1>2, <2>1, <2>2, <2>3
<1> QED
  BY <1>3, <1>4, <1>6, <1>7 DEF RowStep

\* Logins, refreshes, stale saves, edits and password changes together are
\* grants that a change of credentials or a suspension outdates for good.
THEOREM TokensFollowAccounts == Spec => ImplementsAccessGrants
<1> DEFINE creds == [u \in Users |-> [password |-> users[u].password,
                                     admin    |-> users[u].admin]]
           serves == [u \in Users |-> users[u].status = "ACTIVE" /\ ~users[u].deleted]
           grants == [r \in Requests |-> GrantOf(r)]
           holders == [r \in Requests |-> HolderOf(r)]
           Credentials == [password : Passwords \cup {Null}, admin : BOOLEAN]
<1>1. Init => Grants!Init
  <2> SUFFICES ASSUME Init PROVE Grants!Init
    OBVIOUS
  <2>1. TypeInv
    BY InitType
  <2>2. creds \in [Users -> Credentials] /\ serves \in [Users -> BOOLEAN]
    BY <2>1 DEF TypeInv, TypeOK, UserRow
  <2>3. \A r \in Requests : GrantOf(r) = "none" /\ HolderOf(r) = Null
    BY DEF Init, EmptyTable, GrantOf, HolderOf, Preparing
  <2> QED
    BY <2>2, <2>3 DEF Grants!Init
<1>2. ASSUME TypeInv, AccountInv, TypeInv', AccountInv', [Next]_vars
      PROVE  [Grants!Next]_<<Grants!accounts, grants, holders>>
  <2>1. CASE AccountsStay
    <3>1. creds' = creds /\ serves' = serves
      BY <2>1 DEF AccountsStay, SameLocked
    <3>2. CASE \A r \in Requests : SameGrant(r)
      BY <3>1, <3>2 DEF SameGrant, Grants!accounts
    <3>3. ASSUME NEW r \in Requests, AccountEffect(r)
          PROVE  [Grants!Next]_<<Grants!accounts, grants, holders>>
      <4>1. GrantMoves(r) /\ \A q \in Requests : q # r => SameGrant(q)
        BY <2>1, <3>3, GrantStep, <1>2
      <4>2. Grants!accounts' = Grants!accounts
        BY <3>1 DEF Grants!accounts
      <4>3. CASE SameGrant(r)
        BY <3>2, <4>1, <4>3
      <4>4. CASE /\ GrantOf(r) \in {"prepared", "stale"}
                 /\ GrantOf(r)' = "none" /\ HolderOf(r)' = Null
        <5>1. Grants!Abandon(r)
          BY <3>1, <4>1, <4>2, <4>4 DEF Grants!Abandon, SameGrant
        <5> QED
          BY <5>1 DEF Grants!Next
      <4>5. CASE /\ GrantOf(r) \in {"prepared", "stale"}
                 /\ GrantOf(r)' = IF GrantOf(r) = "prepared" THEN "honoured" ELSE "rejected"
                 /\ HolderOf(r)' = HolderOf(r)
        <5>1. Grants!Give(r)
          BY <3>1, <4>1, <4>2, <4>5 DEF Grants!Give, SameGrant
        <5> QED
          BY <5>1 DEF Grants!Next
      <4>6. ASSUME GrantOf(r) = "none", NEW u \in Users, InService(users[u]),
                   HolderOf(r)' = u, GrantOf(r)' = "prepared"
            PROVE  [Grants!Next]_<<Grants!accounts, grants, holders>>
        <5>1. Grants!Prepare(r, u)
          BY <3>1, <4>1, <4>2, <4>6 DEF Grants!Prepare, SameGrant, InService
        <5> QED
          BY <5>1 DEF Grants!Next
      <4> QED
        BY <4>1, <4>3, <4>4, <4>5, <4>6 DEF GrantMoves
    <3>4. CASE UNCHANGED <<access, pc, cmd, loaded>>
      BY <1>2, <2>1, <3>2, <3>4, GrantStays
    <3> QED
      BY <1>2, <3>3, <3>4, NextEffect
  <2>2. CASE OneAccountMoves
    <3>1. PICK u \in Users : \A v \in Users : v # u => users'[v] = users[v]
      BY <2>2 DEF OneAccountMoves
    <3>2. holders' = holders
      BY <1>2, <2>2, <3>1, AccountMoves
    <3>3. CASE \A r \in Requests : Dated(r, u)
      <4> DEFINE c == [password |-> users'[u].password, admin |-> users'[u].admin]
                 s == users'[u].status = "ACTIVE" /\ ~users'[u].deleted
      <4>1. c \in Credentials /\ s \in BOOLEAN
        BY <1>2 DEF TypeInv, TypeOK, UserRow
      <4>2. creds' = [creds EXCEPT ![u] = c]
        BY <3>1
      <4>3. serves' = [serves EXCEPT ![u] = s]
        BY <3>1
      <4>4. grants' = [r \in Requests |-> IF holders[r] = u THEN Grants!Outdated(grants[r])
                                          ELSE grants[r]]
        BY <3>3 DEF Dated
      <4>5. Grants!Change(u)
        BY <3>2, <4>1, <4>2, <4>3, <4>4 DEF Grants!Change
      <4> QED
        BY <4>5 DEF Grants!Next
    <3>4. CASE /\ \A r \in Requests : SameGrant(r)
               /\ users'[u].password = users[u].password /\ users'[u].admin = users[u].admin
               /\ InService(users[u]) => InService(users'[u])
      <4>1. creds' = creds /\ grants' = grants
        BY <3>1, <3>4 DEF SameGrant
      <4>2. CASE InService(users'[u]) <=> InService(users[u])
        <5>1. serves' = serves
          BY <3>1, <4>2 DEF InService
        <5> QED
          BY <3>2, <4>1, <5>1 DEF Grants!accounts
      <4>3. CASE InService(users'[u]) /\ ~InService(users[u])
        <5>1. serves' = [serves EXCEPT ![u] = TRUE] /\ ~serves[u]
          BY <3>1, <4>3 DEF InService
        <5>2. Grants!Reopen(u)
          BY <3>2, <4>1, <5>1 DEF Grants!Reopen
        <5> QED
          BY <5>2 DEF Grants!Next
      <4> QED
        BY <3>4, <4>2, <4>3
    <3> QED
      BY <1>2, <2>2, <3>1, <3>3, <3>4, AccountMoves
  <2> QED
    BY <1>2, <2>1, <2>2, Splits
<1> QED
  <2>1. TypeInv /\ AccountInv /\ TypeInv' /\ AccountInv' /\ [Next]_vars
          => [Grants!Next]_<<Grants!accounts, grants, holders>>
    BY <1>2
  <2> QED
    BY <1>1, <2>1, AccountAlways, PTL DEF Spec, Grants!Spec, ImplementsAccessGrants
=============================================================================
