------------------------- MODULE AuthSessionsProofs -------------------------
(***************************************************************************)
(* Proofs about AuthSessions, for any number of requests, users and        *)
(* passwords.                                                              *)
(***************************************************************************)
EXTENDS AuthSessionsProperties, TLAPS

GuardedOps == {"access", "logout", "logoutAll", "changePassword"}

\* The awaits at which a request still needs the entity it loaded.
Holding == {"rehash", "issue", "touch", "rotate", "bump", "savePassword",
            "revokeSessions", "saveEdit"}

\* What each await knows of the command it serves.
LoginCommand(r) ==
    pc[r] \in LoginPoints => /\ cmd[r].op = "login" /\ cmd[r].user \in Users
                             /\ cmd[r].password \in Passwords

RefreshCommand(r) ==
    pc[r] \in RefreshPoints => /\ cmd[r].op = "refresh"
                               /\ cmd[r].token \in DOMAIN tokens
                               /\ cmd[r].user = tokens[cmd[r].token].user

GuardedCommand(r) ==
    pc[r] \in GuardPoints \cup LogoutPoints \cup PasswordPoints =>
        /\ cmd[r].op \in GuardedOps
        /\ cmd[r].jti \in DOMAIN access
        /\ cmd[r].user = access[cmd[r].jti].user
        /\ pc[r] \in PasswordPoints => cmd[r].op = "changePassword"
        /\ cmd[r].op = "changePassword" => cmd[r].newPassword \in Passwords

EditCommand(r) ==
    pc[r] = "saveEdit" => /\ cmd[r].op = "edit"
                          /\ cmd[r].user \in Users /\ cmd[r].edit \in Edits

\* What a request has drawn, and what it holds.
Drawn(r) ==
    /\ r \in DOMAIN tokens <=> r \in DOMAIN access
    /\ r \in DOMAIN tokens => /\ pc[r] \in {"touch", "done", "failed"}
                              /\ cmd[r].op \in {"login", "refresh"}
    /\ pc[r] \in Holding => r \in DOMAIN loaded
    /\ r \in DOMAIN loaded => cmd[r].user \in Users

Control(r) ==
    /\ LoginCommand(r)
    /\ RefreshCommand(r)
    /\ GuardedCommand(r)
    /\ EditCommand(r)
    /\ Drawn(r)

ControlOK == \A r \in Requests : Control(r)

TypeInv == TypeOK /\ ControlOK

-----------------------------------------------------------------------------
(* Operators *)

\* A revocation touches revokedReason only, and only of active rows.
LEMMA RevokeLemma ==
    ASSUME NEW T, T \in [DOMAIN T -> TokenRow], NEW rows, NEW reason \in Reasons
    PROVE  /\ DOMAIN Revoke(T, rows, reason) = DOMAIN T
           /\ Revoke(T, rows, reason) \in [DOMAIN T -> TokenRow]
           /\ \A t \in DOMAIN T :
                /\ Revoke(T, rows, reason)[t].user = T[t].user
                /\ Revoke(T, rows, reason)[t].family = T[t].family
                /\ Revoke(T, rows, reason)[t].expiresAt = T[t].expiresAt
                /\ IsRevoked(T[t]) => Revoke(T, rows, reason)[t] = T[t]
                /\ T[t].revoked # Active => Revoke(T, rows, reason)[t].revoked # Active
  BY DEF Revoke, TokenRow, IsRevoked, Active, Reasons

LEMMA ConsumeLemma ==
    ASSUME NEW T, T \in [DOMAIN T -> TokenRow], NEW k \in DOMAIN T
    PROVE  /\ DOMAIN Consume(T, k, "rotated") = DOMAIN T
           /\ Consume(T, k, "rotated") \in [DOMAIN T -> TokenRow]
           /\ Consume(T, k, "rotated")[k].revoked = "rotated"
           /\ \A t \in DOMAIN T :
                /\ Consume(T, k, "rotated")[t].user = T[t].user
                /\ Consume(T, k, "rotated")[t].family = T[t].family
                /\ t # k => Consume(T, k, "rotated")[t] = T[t]
  BY DEF Consume, TokenRow, Reasons, Active

\* The write of an entity, and of the last login, gives a user row.
LEMMA WrittenLemma ==
    ASSUME NEW user \in UserRow, NEW row \in UserRow
    PROVE  /\ Written(row, user) \in UserRow
           /\ \A at \in Nat : TouchLastLogin(row, at) \in UserRow
<1>1. row.version + 1 \in Nat /\ row.lastLogin \in Nat
  BY DEF UserRow
<1>2. \A v, l \in Nat : [user EXCEPT !.version = v, !.lastLogin = l] \in UserRow
  BY DEF UserRow
<1>3. \A at \in Nat : TouchLastLogin(row, at) \in UserRow
  BY DEF TouchLastLogin, UserRow
<1> QED
  BY <1>1, <1>2, <1>3 DEF Written

\* Every mutation of the entity gives an entity.
LEMMA MutationLemma ==
    ASSUME NEW user \in UserRow
    PROVE  /\ InvalidateSessions(user) \in UserRow
           /\ \A p \in Passwords : UpgradePasswordHash(user, p) \in UserRow
           /\ \A p \in Passwords : SetPasswordHash(user, p) \in UserRow
           /\ \A e \in Edits : ApplyEdit(user, e) \in UserRow
<1>1. \A u \in UserRow : RevokeIssuedTokens(u) \in UserRow
  BY DEF RevokeIssuedTokens, UserRow
<1>2. InvalidateSessions(user) \in UserRow
  BY <1>1 DEF InvalidateSessions
<1>3. \A p \in Passwords : UpgradePasswordHash(user, p) \in UserRow
  BY DEF UpgradePasswordHash, UserRow
<1>4. ASSUME NEW p \in Passwords PROVE SetPasswordHash(user, p) \in UserRow
  <2>1. (IF user.status = "INVITED" THEN "ACTIVE" ELSE user.status) \in Statuses
    BY DEF UserRow, Statuses
  <2>2. \A s \in Statuses :
          [user EXCEPT !.password = p, !.outdated = FALSE, !.status = s] \in UserRow
    BY DEF UserRow
  <2> QED
    BY <1>1, <2>1, <2>2 DEF SetPasswordHash
<1>5. ASSUME NEW e \in Edits PROVE ApplyEdit(user, e) \in UserRow
  <2>1. Activate(user) \in UserRow
    BY DEF Activate, UserRow, Statuses
  <2>2. Suspend(user) \in UserRow
    BY <1>1 DEF Suspend, UserRow, Statuses
  <2>3. \A b \in BOOLEAN : SetPlatformAdmin(user, b) \in UserRow
    BY <1>1 DEF SetPlatformAdmin, UserRow
  <2>4. SoftDelete(user) \in UserRow
    <3>1. [user EXCEPT !.deleted = TRUE, !.status = "SUSPENDED", !.password = Null] \in UserRow
      BY DEF UserRow, Statuses
    <3> QED
      BY <1>1, <3>1 DEF SoftDelete
  <2>5. ChangeEmail(user) \in UserRow
    BY <1>1 DEF ChangeEmail
  <2> QED
    BY <2>1, <2>2, <2>3, <2>4, <2>5 DEF ApplyEdit, Edits
<1> QED
  BY <1>2, <1>3, <1>4, <1>5

-----------------------------------------------------------------------------
(* Types and control *)

\* A step of request r: the other requests stay where they are, and the
\* tables keep their rows.
Only(r) ==
    /\ \A q \in Requests : q # r => pc'[q] = pc[q]
    /\ \A q \in DOMAIN cmd : q # r => cmd'[q] = cmd[q]
    /\ DOMAIN tokens' \in {DOMAIN tokens, DOMAIN tokens \cup {r}}
    /\ \A t \in DOMAIN tokens : /\ tokens'[t].user = tokens[t].user
                                /\ tokens'[t].family = tokens[t].family
    /\ DOMAIN access' \in {DOMAIN access, DOMAIN access \cup {r}}
    /\ \A a \in DOMAIN access : access'[a] = access[a]
    /\ DOMAIN loaded' \in {DOMAIN loaded, DOMAIN loaded \cup {r}}

\* Such a step disturbs the control invariant of r only.
LEMMA OthersKeepControl ==
    ASSUME TypeInv, NEW r \in Requests, Only(r), NEW q \in Requests, q # r
    PROVE  Control(q)'
<1>0. /\ pc'[q] = pc[q]
      /\ q \in DOMAIN cmd => cmd'[q] = cmd[q]
      /\ pc[q] # "idle" => q \in DOMAIN cmd
  BY DEF Only, TypeInv, TypeOK
<1>1. LoginCommand(q)'
  BY <1>0 DEF TypeInv, ControlOK, Control, LoginCommand, LoginPoints
<1>2. RefreshCommand(q)'
  BY <1>0 DEF TypeInv, ControlOK, Control, RefreshCommand, RefreshPoints, Only
<1>3. GuardedCommand(q)'
  BY <1>0 DEF TypeInv, ControlOK, Control, GuardedCommand, Only,
              GuardPoints, LogoutPoints, PasswordPoints
<1>4. EditCommand(q)'
  BY <1>0 DEF TypeInv, ControlOK, Control, EditCommand
<1>5. Drawn(q)'
  <2>1. /\ (q \in DOMAIN tokens)' <=> q \in DOMAIN tokens
        /\ (q \in DOMAIN access)' <=> q \in DOMAIN access
        /\ (q \in DOMAIN loaded)' <=> q \in DOMAIN loaded
    BY DEF Only
  <2>2. q \in DOMAIN loaded => q \in DOMAIN cmd
    BY DEF TypeInv, TypeOK
  <2> QED
    BY <1>0, <2>1, <2>2 DEF TypeInv, ControlOK, Control, Drawn, Holding
<1> QED
  BY <1>1, <1>2, <1>3, <1>4, <1>5 DEF Control

LEMMA InitType == Init => TypeInv
<1> SUFFICES ASSUME Init PROVE TypeInv
  OBVIOUS
<1>1. users \in [Users -> UserRow]
  <2>1. ASSUME NEW p \in Passwords \cup {Null}, NEW o \in BOOLEAN, NEW s \in Statuses
        PROVE  InitialRow(s, p, o) \in UserRow
    BY DEF InitialRow, UserRow
  <2>2. InitialRows \subseteq UserRow
    BY <2>1 DEF InitialRows, Statuses
  <2> QED
    BY <2>2 DEF Init
<1>2. TypeOK
  BY <1>1 DEF Init, TypeOK, EmptyTable
<1>3. ControlOK
  BY DEF Init, EmptyTable, ControlOK, Control, LoginCommand, RefreshCommand,
         GuardedCommand, EditCommand, Drawn, Holding, LoginPoints, RefreshPoints,
         GuardPoints, LogoutPoints, PasswordPoints
<1> QED
  BY <1>2, <1>3 DEF TypeInv

\* r is at point, the other requests are where they were, and the program
\* counters and commands keep their types.
Moved(r, point) ==
    /\ pc'[r] = point
    /\ \A q \in Requests : q # r => pc'[q] = pc[q]
    /\ \A q \in DOMAIN cmd : cmd'[q] = cmd[q]
    /\ pc' \in [Requests -> {"idle"} \cup Running \cup Finished]
    /\ DOMAIN cmd' = {q \in Requests : pc'[q] # "idle"}
    /\ cmd' \in [DOMAIN cmd' -> Command]

\* A request that begins has its command stored and no other touched.
LEMMA BeginLemma ==
    ASSUME TypeInv, NEW r \in Requests, NEW c \in Command, Begin(r, c),
           NEW point \in Running \cup Finished, Goto(r, point)
    PROVE  /\ r \notin DOMAIN cmd /\ r \notin DOMAIN loaded
           /\ r \notin DOMAIN tokens /\ r \notin DOMAIN access
           /\ cmd'[r] = c /\ DOMAIN cmd' = DOMAIN cmd \cup {r}
           /\ Moved(r, point)
<1>0. /\ pc \in [Requests -> {"idle"} \cup Running \cup Finished]
      /\ DOMAIN cmd = {q \in Requests : pc[q] # "idle"}
      /\ cmd \in [DOMAIN cmd -> Command]
      /\ DOMAIN loaded \subseteq DOMAIN cmd
  BY DEF TypeInv, TypeOK
<1>1. /\ pc[r] = "idle" /\ cmd' = Put(cmd, r, c) /\ pc' = [pc EXCEPT ![r] = point]
  BY DEF Begin, Goto
<1>2. point # "idle"
  BY DEF Running, Finished, LoginPoints, RefreshPoints, GuardPoints, LogoutPoints,
         PasswordPoints
<1>3. r \notin DOMAIN tokens /\ r \notin DOMAIN access
  BY <1>1 DEF TypeInv, ControlOK, Control, Drawn
<1>4. /\ DOMAIN cmd' = DOMAIN cmd \cup {r}
      /\ cmd' \in [DOMAIN cmd \cup {r} -> Command]
      /\ cmd'[r] = c
      /\ \A q \in DOMAIN cmd : q # r => cmd'[q] = cmd[q]
  BY <1>0, <1>1 DEF Put
<1> QED
  BY <1>0, <1>1, <1>2, <1>3, <1>4 DEF Moved

\* A request that resumes moves its program counter and no other.
LEMMA GotoLemma ==
    ASSUME TypeInv, NEW r \in Requests, pc[r] \in Running, UNCHANGED cmd,
           NEW point \in Running \cup Finished, Goto(r, point)
    PROVE  r \in DOMAIN cmd /\ cmd[r] \in Command /\ Moved(r, point)
<1>0. /\ pc \in [Requests -> {"idle"} \cup Running \cup Finished]
      /\ DOMAIN cmd = {q \in Requests : pc[q] # "idle"}
      /\ cmd \in [DOMAIN cmd -> Command]
  BY DEF TypeInv, TypeOK
<1>1. "idle" \notin Running \cup Finished
  BY DEF Running, Finished, LoginPoints, RefreshPoints, GuardPoints, LogoutPoints,
         PasswordPoints
<1> QED
  BY <1>0, <1>1 DEF Goto, Moved

LEMMA ControlFrom ==
    ASSUME TypeInv, NEW r \in Requests, Only(r), Control(r)'
    PROVE  ControlOK'
  BY OthersKeepControl DEF ControlOK

\* The program points, for the provers to tell apart.
LEMMA Points ==
    /\ Running = {"rehash", "issue", "touch", "consume", "reuse", "load", "rotate",
                  "denylist", "snapshot", "revokeFamily", "revokeAll", "findSelf",
                  "bump", "deny", "verify", "savePassword", "revokeSessions", "saveEdit"}
    /\ Finished = {"done", "undenied", "reused", "conflict", "failed"}
  BY DEF Running, Finished, LoginPoints, RefreshPoints, GuardPoints, LogoutPoints,
         PasswordPoints

\* A save leaves a table of user rows, at the next await or in conflict.
LEMMA SaveLemma ==
    ASSUME TypeInv, NEW r \in Requests, NEW user \in Users, NEW entity \in UserRow,
           NEW next, Save(r, user, entity, next)
    PROVE  /\ users' \in [Users -> UserRow]
           /\ \E point \in {next, "conflict"} : Goto(r, point)
<1>1. users \in [Users -> UserRow]
  BY DEF TypeInv, TypeOK
<1>2. Written(users[user], entity) \in UserRow
  BY <1>1, WrittenLemma
<1> QED
  BY <1>1, <1>2 DEF Save

LEMMA LoginTypes ==
    ASSUME TypeInv, NEW r \in Requests,
           \/ \E u \in Users, p \in Passwords : LoginFind(r, u, p)
           \/ LoginRehash(r) \/ LoginIssue(r) \/ LoginTouch(r)
    PROVE  TypeInv'
<1>1. ASSUME NEW u \in Users, NEW p \in Passwords, LoginFind(r, u, p)
      PROVE  TypeInv'
  <2> DEFINE c == [Bare("login", u) EXCEPT !.password = p]
  <2>1. c \in Command /\ c.op = "login" /\ c.user = u /\ c.password = p
    BY DEF Bare, Command, AllOps
  <2>2. PICK point \in {"rehash", "issue", "failed"} : Goto(r, point)
    BY <1>1 DEF LoginFind
  <2>3. Begin(r, c) /\ point \in Running \cup Finished
    BY <1>1, Points DEF LoginFind
  <2> HIDE DEF c
  <2>4. /\ r \notin DOMAIN cmd /\ r \notin DOMAIN loaded
        /\ r \notin DOMAIN tokens /\ r \notin DOMAIN access
        /\ cmd'[r] = c /\ DOMAIN cmd' = DOMAIN cmd \cup {r}
        /\ Moved(r, point)
    BY <2>1, <2>2, <2>3, BeginLemma
  <2>5. \/ loaded' = Put(loaded, r, users[u])
        \/ loaded' = loaded /\ point = "failed"
    BY <1>1, <2>2, <2>4 DEF LoginFind, Load, Goto, Moved, TypeInv, TypeOK
  <2>6. /\ DOMAIN loaded' \in {DOMAIN loaded, DOMAIN loaded \cup {r}}
        /\ loaded' \in [DOMAIN loaded' -> UserRow]
        /\ point # "failed" => r \in DOMAIN loaded'
    BY <2>5, <2>2, <2>4 DEF Put, TypeInv, TypeOK
  <2>7. UNCHANGED <<users, tokens, access, denylist, redisUp, clock, now>>
    BY <1>1 DEF LoginFind, stores, environment
  <2>8. TypeOK'
    BY <2>4, <2>6, <2>7 DEF TypeInv, TypeOK, Moved
  <2>9. Only(r)
    BY <2>4, <2>6, <2>7 DEF Only, Moved
  <2>10. Control(r)'
    BY <2>1, <2>2, <2>4, <2>6, <2>7
       DEF Control, LoginCommand, RefreshCommand, GuardedCommand, EditCommand, Drawn,
           Moved, Holding, LoginPoints, RefreshPoints, GuardPoints, LogoutPoints,
           PasswordPoints
  <2> QED
    BY <2>8, <2>9, <2>10, ControlFrom DEF TypeInv
<1>2. ASSUME LoginRehash(r) PROVE TypeInv'
  <2>1. pc[r] = "rehash" /\ pc[r] \in Running
    BY <1>2, Points DEF LoginRehash, At
  <2>2. /\ cmd[r].user \in Users /\ cmd[r].password \in Passwords
        /\ r \in DOMAIN loaded /\ loaded[r] \in UserRow
        /\ r \notin DOMAIN tokens /\ r \notin DOMAIN access
    BY <2>1 DEF TypeInv, TypeOK, ControlOK, Control, LoginCommand, LoginPoints, Drawn, Holding
  <2>3. /\ users' \in [Users -> UserRow]
        /\ \E point \in {"issue", "conflict"} : Goto(r, point)
    BY <1>2, <2>2, SaveLemma, MutationLemma DEF LoginRehash
  <2>4. UNCHANGED <<tokens, access, denylist, redisUp, clock, cmd, loaded, now>>
    BY <1>2 DEF LoginRehash, environment
  <2>5. PICK point \in {"issue", "conflict"} : Moved(r, point)
    BY <2>1, <2>3, <2>4, GotoLemma, Points
  <2>8. TypeOK'
    BY <2>3, <2>4, <2>5 DEF TypeInv, TypeOK, Moved
  <2>9. Only(r)
    BY <2>4, <2>5 DEF Only, Moved
  <2>10. Control(r)'
    BY <2>1, <2>2, <2>4, <2>5
       DEF TypeInv, ControlOK, Control, LoginCommand, RefreshCommand, GuardedCommand,
           EditCommand, Drawn, Moved, Holding, LoginPoints, RefreshPoints, GuardPoints,
           LogoutPoints, PasswordPoints
  <2> QED
    BY <2>8, <2>9, <2>10, ControlFrom DEF TypeInv
<1>3. ASSUME LoginIssue(r) PROVE TypeInv'
  <2>1. pc[r] = "issue" /\ pc[r] \in Running /\ Goto(r, "touch")
    BY <1>3, Points DEF LoginIssue, At
  <2>2. /\ cmd[r].op = "login" /\ cmd[r].user \in Users /\ cmd[r].password \in Passwords
        /\ r \in DOMAIN loaded /\ loaded[r].tokenVersion \in Nat
        /\ r \notin DOMAIN tokens /\ r \notin DOMAIN access
    BY <2>1 DEF TypeInv, TypeOK, ControlOK, Control, LoginCommand, LoginPoints, Drawn,
                Holding, UserRow
  <2>3. UNCHANGED <<users, denylist, redisUp, clock, cmd, loaded>>
    BY <1>3 DEF LoginIssue, environment
  <2>4. Moved(r, "touch")
    BY <2>1, <2>3, GotoLemma, Points
  <2>5. /\ DOMAIN tokens' = DOMAIN tokens \cup {r}
        /\ tokens' \in [DOMAIN tokens \cup {r} -> TokenRow]
        /\ \A t \in DOMAIN tokens : tokens'[t] = tokens[t]
    <3>1. Issue(cmd[r].user, r, clock, RefreshTtl) \in TokenRow
      BY <2>2, SessionAssumption DEF Issue, TokenRow, TypeInv, TypeOK
    <3> QED
      BY <1>3, <2>2, <3>1 DEF LoginIssue, Put, TypeInv, TypeOK
  <2>6. /\ DOMAIN access' = DOMAIN access \cup {r}
        /\ access' \in [DOMAIN access \cup {r} -> AccessToken]
        /\ \A a \in DOMAIN access : access'[a] = access[a]
    <3>1. clock + AccessTtl \in Nat
      BY SessionAssumption DEF TypeInv, TypeOK
    <3> QED
      BY <1>3, <2>2, <3>1 DEF LoginIssue, SignAccess, AccessToken, Put, TypeInv, TypeOK
  <2>7. now' \in [Requests -> Nat]
    BY <1>3 DEF LoginIssue, TypeInv, TypeOK
  <2>8. TypeOK'
    BY <2>3, <2>4, <2>5, <2>6, <2>7 DEF TypeInv, TypeOK, Moved
  <2>9. Only(r)
    BY <2>3, <2>4, <2>5, <2>6 DEF Only, Moved
  <2>10. Control(r)'
    BY <2>1, <2>2, <2>3, <2>4, <2>5, <2>6
       DEF TypeInv, ControlOK, Control, LoginCommand, RefreshCommand, GuardedCommand,
           EditCommand, Drawn, Moved, Holding, LoginPoints, RefreshPoints, GuardPoints,
           LogoutPoints, PasswordPoints
  <2> QED
    BY <2>8, <2>9, <2>10, ControlFrom DEF TypeInv
<1>4. ASSUME LoginTouch(r) PROVE TypeInv'
  <2>1. pc[r] = "touch" /\ pc[r] \in Running /\ Goto(r, "done")
    BY <1>4, Points DEF LoginTouch, At
  <2>2. cmd[r].user \in Users
    BY <2>1 DEF TypeInv, ControlOK, Control, LoginCommand, LoginPoints
  <2>3. UNCHANGED <<tokens, access, denylist, redisUp, clock, cmd, loaded, now>>
    BY <1>4 DEF LoginTouch, environment
  <2>4. Moved(r, "done")
    BY <2>1, <2>3, GotoLemma, Points
  <2>5. users' \in [Users -> UserRow]
    BY <1>4, <2>2, WrittenLemma DEF LoginTouch, TypeInv, TypeOK
  <2>8. TypeOK'
    BY <2>3, <2>4, <2>5 DEF TypeInv, TypeOK, Moved
  <2>9. Only(r)
    BY <2>3, <2>4 DEF Only, Moved
  <2>10. Control(r)'
    BY <2>1, <2>2, <2>3, <2>4
       DEF TypeInv, ControlOK, Control, LoginCommand, RefreshCommand, GuardedCommand,
           EditCommand, Drawn, Moved, Holding, LoginPoints, RefreshPoints, GuardPoints,
           LogoutPoints, PasswordPoints
  <2> QED
    BY <2>8, <2>9, <2>10, ControlFrom DEF TypeInv
<1> QED
  BY <1>1, <1>2, <1>3, <1>4

LEMMA RefreshTypes ==
    ASSUME TypeInv, NEW r \in Requests,
           \/ \E t \in HeldRefresh \cup {Null} : RefreshFind(r, t)
           \/ RefreshConsume(r) \/ RefreshReuse(r) \/ RefreshLoad(r) \/ RefreshRotate(r)
    PROVE  TypeInv'
<1>1. ASSUME NEW t \in HeldRefresh \cup {Null}, RefreshFind(r, t) PROVE TypeInv'
  <2> DEFINE c == [Bare("refresh", IF Exists(tokens, t) THEN tokens[t].user ELSE Null)
                      EXCEPT !.token = t]
             point == IF ~Exists(tokens, t) THEN "failed"
                      ELSE IF IsRevoked(tokens[t]) THEN "reuse"
                      ELSE IF IsExpired(tokens[t], clock) THEN "failed"
                      ELSE "consume"
  <2>1. /\ c \in Command /\ c.op = "refresh" /\ c.token = t
        /\ t \in DOMAIN tokens => c.user = tokens[t].user
    BY DEF Bare, Command, AllOps, HeldRefresh, Exists, TypeInv, TypeOK, TokenRow
  <2>2. point \in {"failed", "reuse", "consume"} /\ (point # "failed" => t \in DOMAIN tokens)
    BY DEF Exists
  <2>3. Begin(r, c) /\ Goto(r, point)
    BY <1>1 DEF RefreshFind
  <2> HIDE DEF c, point
  <2>4. /\ r \notin DOMAIN cmd /\ r \notin DOMAIN loaded
        /\ r \notin DOMAIN tokens /\ r \notin DOMAIN access
        /\ cmd'[r] = c /\ DOMAIN cmd' = DOMAIN cmd \cup {r}
        /\ Moved(r, point)
    BY <2>1, <2>2, <2>3, BeginLemma, Points
  <2>5. /\ UNCHANGED <<users, tokens, access, denylist, redisUp, clock, loaded>>
        /\ now' \in [Requests -> Nat]
    BY <1>1 DEF RefreshFind, stores, environment, TypeInv, TypeOK
  <2>8. TypeOK'
    BY <2>4, <2>5 DEF TypeInv, TypeOK, Moved
  <2>9. Only(r)
    BY <2>4, <2>5 DEF Only, Moved
  <2>10. Control(r)'
    BY <2>1, <2>2, <2>4, <2>5
       DEF TypeInv, ControlOK, Control, LoginCommand, RefreshCommand, GuardedCommand,
           EditCommand, Drawn, Moved, Holding, LoginPoints, RefreshPoints, GuardPoints,
           LogoutPoints, PasswordPoints
  <2> QED
    BY <2>8, <2>9, <2>10, ControlFrom DEF TypeInv
<1>2. ASSUME RefreshConsume(r) PROVE TypeInv'
  <2>1. pc[r] = "consume" /\ pc[r] \in Running
    BY <1>2, Points DEF RefreshConsume, At
  <2>2. /\ cmd[r].op = "refresh" /\ cmd[r].token \in DOMAIN tokens
        /\ cmd[r].user = tokens[cmd[r].token].user
        /\ r \notin DOMAIN tokens /\ r \notin DOMAIN access
    BY <2>1 DEF TypeInv, ControlOK, Control, RefreshCommand, RefreshPoints, Drawn
  <2>3. UNCHANGED <<users, access, denylist, redisUp, clock, cmd, loaded, now>>
    BY <1>2 DEF RefreshConsume, environment
  <2>4. PICK point \in {"load", "reuse"} : Goto(r, point)
    BY <1>2 DEF RefreshConsume
  <2>5. Moved(r, point)
    BY <2>1, <2>3, <2>4, GotoLemma, Points
  <2>6. /\ DOMAIN tokens' = DOMAIN tokens /\ tokens' \in [DOMAIN tokens -> TokenRow]
        /\ \A t \in DOMAIN tokens : /\ tokens'[t].user = tokens[t].user
                                    /\ tokens'[t].family = tokens[t].family
    BY <1>2, <2>2, ConsumeLemma DEF RefreshConsume, TypeInv, TypeOK
  <2>8. TypeOK'
    BY <2>3, <2>5, <2>6 DEF TypeInv, TypeOK, Moved
  <2>9. Only(r)
    BY <2>3, <2>5, <2>6 DEF Only, Moved
  <2>10. Control(r)'
    BY <2>1, <2>2, <2>3, <2>5, <2>6
       DEF TypeInv, ControlOK, Control, LoginCommand, RefreshCommand, GuardedCommand,
           EditCommand, Drawn, Moved, Holding, LoginPoints, RefreshPoints, GuardPoints,
           LogoutPoints, PasswordPoints
  <2> QED
    BY <2>8, <2>9, <2>10, ControlFrom DEF TypeInv
<1>3. ASSUME RefreshReuse(r) PROVE TypeInv'
  <2>1. pc[r] = "reuse" /\ pc[r] \in Running /\ Goto(r, "reused")
    BY <1>3, Points DEF RefreshReuse, At
  <2>2. r \notin DOMAIN tokens /\ r \notin DOMAIN access
    BY <2>1 DEF TypeInv, ControlOK, Control, Drawn
  <2>3. UNCHANGED <<users, access, denylist, redisUp, clock, cmd, loaded, now>>
    BY <1>3 DEF RefreshReuse, environment
  <2>5. Moved(r, "reused")
    BY <2>1, <2>3, GotoLemma, Points
  <2>6. /\ DOMAIN tokens' = DOMAIN tokens /\ tokens' \in [DOMAIN tokens -> TokenRow]
        /\ \A t \in DOMAIN tokens : /\ tokens'[t].user = tokens[t].user
                                    /\ tokens'[t].family = tokens[t].family
    BY <1>3, RevokeLemma DEF RefreshReuse, RevokeFamily, Reasons, TypeInv, TypeOK
  <2>8. TypeOK'
    BY <2>3, <2>5, <2>6 DEF TypeInv, TypeOK, Moved
  <2>9. Only(r)
    BY <2>3, <2>5, <2>6 DEF Only, Moved
  <2>10. Control(r)'
    BY <2>1, <2>2, <2>3, <2>5, <2>6
       DEF TypeInv, ControlOK, Control, LoginCommand, RefreshCommand, GuardedCommand,
           EditCommand, Drawn, Moved, Holding, LoginPoints, RefreshPoints, GuardPoints,
           LogoutPoints, PasswordPoints
  <2> QED
    BY <2>8, <2>9, <2>10, ControlFrom DEF TypeInv
<1>4. ASSUME RefreshLoad(r) PROVE TypeInv'
  <2>1. pc[r] = "load" /\ pc[r] \in Running
    BY <1>4, Points DEF RefreshLoad, At
  <2>2. /\ cmd[r].op = "refresh" /\ cmd[r].token \in DOMAIN tokens
        /\ cmd[r].user = tokens[cmd[r].token].user /\ cmd[r].user \in Users
        /\ r \notin DOMAIN tokens /\ r \notin DOMAIN access
    BY <2>1 DEF TypeInv, TypeOK, TokenRow, ControlOK, Control, RefreshCommand,
                RefreshPoints, Drawn
  <2>3. UNCHANGED <<users, tokens, access, denylist, redisUp, clock, cmd, now>>
    BY <1>4 DEF RefreshLoad, stores, environment
  <2>4. PICK point \in {"rotate", "failed"} :
          /\ Goto(r, point)
          /\ \/ point = "rotate" /\ loaded' = Put(loaded, r, users[cmd[r].user])
             \/ point = "failed" /\ loaded' = loaded
    BY <1>4 DEF RefreshLoad, Load
  <2>5. Moved(r, point) /\ r \in DOMAIN cmd
    BY <2>1, <2>3, <2>4, GotoLemma, Points
  <2>6. /\ DOMAIN loaded' \in {DOMAIN loaded, DOMAIN loaded \cup {r}}
        /\ loaded' \in [DOMAIN loaded' -> UserRow]
        /\ point = "rotate" => r \in DOMAIN loaded'
    BY <2>2, <2>4 DEF Put, TypeInv, TypeOK
  <2>8. TypeOK'
    BY <2>3, <2>5, <2>6 DEF TypeInv, TypeOK, Moved
  <2>9. Only(r)
    BY <2>3, <2>5, <2>6 DEF Only, Moved
  <2>10. Control(r)'
    BY <2>1, <2>2, <2>3, <2>5, <2>6
       DEF TypeInv, ControlOK, Control, LoginCommand, RefreshCommand, GuardedCommand,
           EditCommand, Drawn, Moved, Holding, LoginPoints, RefreshPoints, GuardPoints,
           LogoutPoints, PasswordPoints
  <2> QED
    BY <2>8, <2>9, <2>10, ControlFrom DEF TypeInv
<1>5. ASSUME RefreshRotate(r) PROVE TypeInv'
  <2>1. pc[r] = "rotate" /\ pc[r] \in Running /\ Goto(r, "done")
    BY <1>5, Points DEF RefreshRotate, At
  <2>2. /\ cmd[r].op = "refresh" /\ cmd[r].token \in DOMAIN tokens
        /\ cmd[r].user = tokens[cmd[r].token].user /\ cmd[r].user \in Users
        /\ r \in DOMAIN loaded /\ loaded[r].tokenVersion \in Nat
        /\ r \notin DOMAIN tokens /\ r \notin DOMAIN access
    BY <2>1 DEF TypeInv, TypeOK, TokenRow, UserRow, ControlOK, Control, RefreshCommand,
                RefreshPoints, Drawn, Holding
  <2>3. UNCHANGED <<users, denylist, redisUp, clock, cmd, loaded, now>>
    BY <1>5 DEF RefreshRotate, environment
  <2>4. Moved(r, "done")
    BY <2>1, <2>3, GotoLemma, Points
  <2>5. /\ DOMAIN tokens' = DOMAIN tokens \cup {r}
        /\ tokens' \in [DOMAIN tokens \cup {r} -> TokenRow]
        /\ \A t \in DOMAIN tokens : tokens'[t] = tokens[t]
    <3>1. Issue(cmd[r].user, tokens[cmd[r].token].family, now[r], RefreshTtl) \in TokenRow
      BY <2>2, SessionAssumption DEF Issue, TokenRow, TypeInv, TypeOK
    <3> QED
      BY <1>5, <2>2, <3>1 DEF RefreshRotate, Put, TypeInv, TypeOK
  <2>6. /\ DOMAIN access' = DOMAIN access \cup {r}
        /\ access' \in [DOMAIN access \cup {r} -> AccessToken]
        /\ \A a \in DOMAIN access : access'[a] = access[a]
    <3>1. clock + AccessTtl \in Nat
      BY SessionAssumption DEF TypeInv, TypeOK
    <3> QED
      BY <1>5, <2>2, <3>1 DEF RefreshRotate, SignAccess, AccessToken, Put, TypeInv, TypeOK
  <2>8. TypeOK'
    BY <2>3, <2>4, <2>5, <2>6 DEF TypeInv, TypeOK, Moved
  <2>9. Only(r)
    BY <2>3, <2>4, <2>5, <2>6 DEF Only, Moved
  <2>10. Control(r)'
    BY <2>1, <2>2, <2>3, <2>4, <2>5, <2>6
       DEF TypeInv, ControlOK, Control, LoginCommand, RefreshCommand, GuardedCommand,
           EditCommand, Drawn, Moved, Holding, LoginPoints, RefreshPoints, GuardPoints,
           LogoutPoints, PasswordPoints
  <2> QED
    BY <2>8, <2>9, <2>10, ControlFrom DEF TypeInv
<1> QED
  BY <1>1, <1>2, <1>3, <1>4, <1>5

\* A request behind the guard begins with a command of its operation.
LEMMA BeginGuardedTypes ==
    ASSUME TypeInv, NEW r \in Requests, NEW a \in HeldAccess, NEW c \in Command,
           c.op \in GuardedOps, c.user = access[a].user,
           c.op = "changePassword" => c.newPassword \in Passwords,
           BeginGuarded(r, a, c)
    PROVE  TypeInv'
<1> DEFINE d == [c EXCEPT !.jti = a]
<1>1. /\ d \in Command /\ d.op = c.op /\ d.user = c.user /\ d.jti = a
      /\ d.newPassword = c.newPassword /\ a \in DOMAIN access
  BY DEF Command, HeldAccess, TypeInv, TypeOK
<1>2. Begin(r, d) /\ Goto(r, "denylist")
  BY DEF BeginGuarded
<1> HIDE DEF d
<1>3. /\ r \notin DOMAIN cmd /\ r \notin DOMAIN loaded
      /\ r \notin DOMAIN tokens /\ r \notin DOMAIN access
      /\ cmd'[r] = d /\ DOMAIN cmd' = DOMAIN cmd \cup {r}
      /\ Moved(r, "denylist")
  BY <1>1, <1>2, BeginLemma, Points
<1>4. UNCHANGED <<users, tokens, access, denylist, redisUp, clock, loaded, now>>
  BY DEF BeginGuarded, stores, environment
<1>5. TypeOK'
  BY <1>3, <1>4 DEF TypeInv, TypeOK, Moved
<1>6. Only(r)
  BY <1>3, <1>4 DEF Only, Moved
<1>7. Control(r)'
  BY <1>1, <1>3, <1>4
     DEF Control, LoginCommand, RefreshCommand, GuardedCommand, EditCommand, Drawn, Moved,
         Holding, LoginPoints, RefreshPoints, GuardPoints, LogoutPoints, PasswordPoints
<1> QED
  BY <1>5, <1>6, <1>7, ControlFrom DEF TypeInv

LEMMA GuardTypes ==
    ASSUME TypeInv, NEW r \in Requests,
           \/ \E a \in HeldAccess :
                \/ BeginAccess(r, a)
                \/ \E t \in HeldRefresh \cup {Null} : BeginLogout(r, a, t)
                \/ BeginLogoutAll(r, a)
                \/ \E p, q \in Passwords : BeginChangePassword(r, a, p, q)
           \/ GuardDenylist(r) \/ GuardSnapshot(r)
    PROVE  TypeInv'
<1>0. ASSUME NEW a \in HeldAccess PROVE access[a].user \in Users
  BY DEF HeldAccess, TypeInv, TypeOK, AccessToken
<1>1. ASSUME NEW a \in HeldAccess, BeginAccess(r, a) PROVE TypeInv'
  <2> DEFINE c == Bare("access", access[a].user)
  <2>1. c \in Command /\ c.op = "access" /\ c.user = access[a].user
    BY <1>0 DEF Bare, Command, AllOps
  <2> HIDE DEF c
  <2>2. BeginGuarded(r, a, c)
    BY <1>1 DEF BeginAccess, c
  <2> QED
    BY <2>1, <2>2, BeginGuardedTypes DEF GuardedOps
<1>2. ASSUME NEW a \in HeldAccess, NEW t \in HeldRefresh \cup {Null}, BeginLogout(r, a, t)
      PROVE  TypeInv'
  <2> DEFINE c == [Bare("logout", access[a].user) EXCEPT !.token = t]
  <2>1. c \in Command /\ c.op = "logout" /\ c.user = access[a].user
    BY <1>0 DEF Bare, Command, AllOps, HeldRefresh, TypeInv, TypeOK
  <2>2. BeginGuarded(r, a, c)
    BY <1>2 DEF BeginLogout
  <2> HIDE DEF c
  <2> QED
    BY <2>1, <2>2, BeginGuardedTypes DEF GuardedOps
<1>3. ASSUME NEW a \in HeldAccess, BeginLogoutAll(r, a) PROVE TypeInv'
  <2> DEFINE c == Bare("logoutAll", access[a].user)
  <2>1. c \in Command /\ c.op = "logoutAll" /\ c.user = access[a].user
    BY <1>0 DEF Bare, Command, AllOps
  <2> HIDE DEF c
  <2>2. BeginGuarded(r, a, c)
    BY <1>3 DEF BeginLogoutAll, c
  <2> QED
    BY <2>1, <2>2, BeginGuardedTypes DEF GuardedOps
<1>4. ASSUME NEW a \in HeldAccess, NEW p \in Passwords, NEW q \in Passwords,
             BeginChangePassword(r, a, p, q)
      PROVE  TypeInv'
  <2> DEFINE c == [Bare("changePassword", access[a].user)
                      EXCEPT !.password = p, !.newPassword = q]
  <2>1. /\ c \in Command /\ c.op = "changePassword" /\ c.user = access[a].user
        /\ c.newPassword \in Passwords
    BY <1>0 DEF Bare, Command, AllOps
  <2>2. BeginGuarded(r, a, c)
    BY <1>4 DEF BeginChangePassword
  <2> HIDE DEF c
  <2> QED
    BY <2>1, <2>2, BeginGuardedTypes DEF GuardedOps
<1>5. ASSUME GuardDenylist(r) PROVE TypeInv'
  <2>1. pc[r] = "denylist" /\ pc[r] \in Running
    BY <1>5, Points DEF GuardDenylist, At
  <2>2. /\ cmd[r].op \in GuardedOps /\ cmd[r].jti \in DOMAIN access
        /\ cmd[r].user = access[cmd[r].jti].user /\ cmd[r].user \in Users
        /\ cmd[r].op = "changePassword" => cmd[r].newPassword \in Passwords
        /\ r \notin DOMAIN tokens /\ r \notin DOMAIN access
    BY <2>1 DEF TypeInv, TypeOK, AccessToken, ControlOK, Control, GuardedCommand,
                GuardPoints, LogoutPoints, PasswordPoints, Drawn
  <2>3. UNCHANGED <<users, tokens, access, denylist, redisUp, clock, cmd, loaded, now>>
    BY <1>5 DEF GuardDenylist, stores, environment
  <2>4. PICK point \in {"failed", "snapshot"} : Goto(r, point)
    BY <1>5 DEF GuardDenylist
  <2>5. Moved(r, point)
    BY <2>1, <2>3, <2>4, GotoLemma, Points
  <2>8. TypeOK'
    BY <2>3, <2>5 DEF TypeInv, TypeOK, Moved
  <2>9. Only(r)
    BY <2>3, <2>5 DEF Only, Moved
  <2>10. Control(r)'
    BY <2>1, <2>2, <2>3, <2>5
       DEF TypeInv, ControlOK, Control, LoginCommand, RefreshCommand, GuardedCommand,
           EditCommand, Drawn, Moved, Holding, LoginPoints, RefreshPoints, GuardPoints,
           LogoutPoints, PasswordPoints
  <2> QED
    BY <2>8, <2>9, <2>10, ControlFrom DEF TypeInv
<1>6. ASSUME GuardSnapshot(r) PROVE TypeInv'
  <2>1. pc[r] = "snapshot" /\ pc[r] \in Running
    BY <1>6, Points DEF GuardSnapshot, At
  <2>2. /\ cmd[r].op \in GuardedOps /\ cmd[r].jti \in DOMAIN access
        /\ cmd[r].user = access[cmd[r].jti].user /\ cmd[r].user \in Users
        /\ cmd[r].op = "changePassword" => cmd[r].newPassword \in Passwords
        /\ r \notin DOMAIN tokens /\ r \notin DOMAIN access
    BY <2>1 DEF TypeInv, TypeOK, AccessToken, ControlOK, Control, GuardedCommand,
                GuardPoints, LogoutPoints, PasswordPoints, Drawn
  <2>3. UNCHANGED <<users, tokens, access, denylist, redisUp, clock, cmd, loaded, now>>
    BY <1>6 DEF GuardSnapshot, stores, environment
  <2>4. PICK point \in {"failed", "done", "revokeFamily", "revokeAll", "verify"} :
          /\ Goto(r, point)
          /\ point = "verify" => cmd[r].op = "changePassword"
    BY <1>6, <2>2 DEF GuardSnapshot, Entry, GuardedOps
  <2>5. Moved(r, point)
    BY <2>1, <2>3, <2>4, GotoLemma, Points
  <2>8. TypeOK'
    BY <2>3, <2>5 DEF TypeInv, TypeOK, Moved
  <2>9. Only(r)
    BY <2>3, <2>5 DEF Only, Moved
  <2>10. Control(r)'
    BY <2>1, <2>2, <2>3, <2>4, <2>5
       DEF TypeInv, ControlOK, Control, LoginCommand, RefreshCommand, GuardedCommand,
           EditCommand, Drawn, Moved, Holding, LoginPoints, RefreshPoints, GuardPoints,
           LogoutPoints, PasswordPoints
  <2> QED
    BY <2>8, <2>9, <2>10, ControlFrom DEF TypeInv
<1> QED
  BY <1>0, <1>1, <1>2, <1>3, <1>4, <1>5, <1>6

LEMMA LogoutTypes ==
    ASSUME TypeInv, NEW r \in Requests,
           \/ LogoutRevoke(r) \/ LogoutDeny(r)
           \/ LogoutAllRevoke(r) \/ LogoutAllFind(r) \/ LogoutAllBump(r)
    PROVE  TypeInv'
<1>1. ASSUME LogoutRevoke(r) PROVE TypeInv'
  <2>1. pc[r] = "revokeFamily" /\ pc[r] \in Running
    BY <1>1, Points DEF LogoutRevoke, At
  <2>2. /\ cmd[r].op \in GuardedOps /\ cmd[r].jti \in DOMAIN access
        /\ cmd[r].user = access[cmd[r].jti].user /\ cmd[r].user \in Users
        /\ cmd[r].op = "changePassword" => cmd[r].newPassword \in Passwords
        /\ r \notin DOMAIN tokens /\ r \notin DOMAIN access
    BY <2>1 DEF TypeInv, TypeOK, AccessToken, ControlOK, Control, GuardedCommand,
                GuardPoints, LogoutPoints, PasswordPoints, Drawn
  <2>3. UNCHANGED <<users, access, denylist, redisUp, clock, cmd, loaded, now>>
    BY <1>1 DEF LogoutRevoke, environment
  <2>5. Moved(r, "deny")
    BY <1>1, <2>1, <2>3, GotoLemma, Points DEF LogoutRevoke
  <2>6. /\ DOMAIN tokens' = DOMAIN tokens /\ tokens' \in [DOMAIN tokens -> TokenRow]
        /\ \A t \in DOMAIN tokens : /\ tokens'[t].user = tokens[t].user
                                    /\ tokens'[t].family = tokens[t].family
    BY <1>1, RevokeLemma DEF LogoutRevoke, RevokeFamily, Reasons, TypeInv, TypeOK
  <2>8. TypeOK'
    BY <2>3, <2>5, <2>6 DEF TypeInv, TypeOK, Moved
  <2>9. Only(r)
    BY <2>3, <2>5, <2>6 DEF Only, Moved
  <2>10. Control(r)'
    BY <2>1, <2>2, <2>3, <2>5, <2>6
       DEF TypeInv, ControlOK, Control, LoginCommand, RefreshCommand, GuardedCommand,
           EditCommand, Drawn, Moved, Holding, LoginPoints, RefreshPoints, GuardPoints,
           LogoutPoints, PasswordPoints
  <2> QED
    BY <2>8, <2>9, <2>10, ControlFrom DEF TypeInv
<1>2. ASSUME LogoutDeny(r) PROVE TypeInv'
  <2>1. pc[r] = "deny" /\ pc[r] \in Running
    BY <1>2, Points DEF LogoutDeny, At
  <2>2. /\ cmd[r].op \in GuardedOps /\ cmd[r].jti \in DOMAIN access
        /\ cmd[r].user = access[cmd[r].jti].user /\ cmd[r].user \in Users
        /\ cmd[r].op = "changePassword" => cmd[r].newPassword \in Passwords
        /\ r \notin DOMAIN tokens /\ r \notin DOMAIN access
    BY <2>1 DEF TypeInv, TypeOK, AccessToken, ControlOK, Control, GuardedCommand,
                GuardPoints, LogoutPoints, PasswordPoints, Drawn
  <2>3. UNCHANGED <<users, tokens, access, redisUp, clock, cmd, loaded, now>>
    BY <1>2 DEF LogoutDeny, environment
  <2>4. PICK point \in {"done", "undenied"} : Goto(r, point)
    BY <1>2 DEF LogoutDeny
  <2>5. Moved(r, point)
    BY <2>1, <2>3, <2>4, GotoLemma, Points
  <2>6. DOMAIN denylist' \subseteq Requests /\ denylist' \in [DOMAIN denylist' -> Nat]
    <3>1. access[cmd[r].jti].exp \in Nat /\ cmd[r].jti \in Requests
      BY <2>2 DEF TypeInv, TypeOK, AccessToken
    <3> QED
      BY <1>2, <3>1 DEF LogoutDeny, Put, TypeInv, TypeOK
  <2>8. TypeOK'
    BY <2>3, <2>5, <2>6 DEF TypeInv, TypeOK, Moved
  <2>9. Only(r)
    BY <2>3, <2>5 DEF Only, Moved
  <2>10. Control(r)'
    BY <2>1, <2>2, <2>3, <2>5
       DEF TypeInv, ControlOK, Control, LoginCommand, RefreshCommand, GuardedCommand,
           EditCommand, Drawn, Moved, Holding, LoginPoints, RefreshPoints, GuardPoints,
           LogoutPoints, PasswordPoints
  <2> QED
    BY <2>8, <2>9, <2>10, ControlFrom DEF TypeInv
<1>3. ASSUME LogoutAllRevoke(r) PROVE TypeInv'
  <2>1. pc[r] = "revokeAll" /\ pc[r] \in Running
    BY <1>3, Points DEF LogoutAllRevoke, At
  <2>2. /\ cmd[r].op \in GuardedOps /\ cmd[r].jti \in DOMAIN access
        /\ cmd[r].user = access[cmd[r].jti].user /\ cmd[r].user \in Users
        /\ cmd[r].op = "changePassword" => cmd[r].newPassword \in Passwords
        /\ r \notin DOMAIN tokens /\ r \notin DOMAIN access
    BY <2>1 DEF TypeInv, TypeOK, AccessToken, ControlOK, Control, GuardedCommand,
                GuardPoints, LogoutPoints, PasswordPoints, Drawn
  <2>3. UNCHANGED <<users, access, denylist, redisUp, clock, cmd, loaded, now>>
    BY <1>3 DEF LogoutAllRevoke, environment
  <2>5. Moved(r, "findSelf")
    BY <1>3, <2>1, <2>3, GotoLemma, Points DEF LogoutAllRevoke
  <2>6. /\ DOMAIN tokens' = DOMAIN tokens /\ tokens' \in [DOMAIN tokens -> TokenRow]
        /\ \A t \in DOMAIN tokens : /\ tokens'[t].user = tokens[t].user
                                    /\ tokens'[t].family = tokens[t].family
    BY <1>3, RevokeLemma DEF LogoutAllRevoke, RevokeAllForUser, Reasons, TypeInv, TypeOK
  <2>8. TypeOK'
    BY <2>3, <2>5, <2>6 DEF TypeInv, TypeOK, Moved
  <2>9. Only(r)
    BY <2>3, <2>5, <2>6 DEF Only, Moved
  <2>10. Control(r)'
    BY <2>1, <2>2, <2>3, <2>5, <2>6
       DEF TypeInv, ControlOK, Control, LoginCommand, RefreshCommand, GuardedCommand,
           EditCommand, Drawn, Moved, Holding, LoginPoints, RefreshPoints, GuardPoints,
           LogoutPoints, PasswordPoints
  <2> QED
    BY <2>8, <2>9, <2>10, ControlFrom DEF TypeInv
<1>4. ASSUME LogoutAllFind(r) PROVE TypeInv'
  <2>1. pc[r] = "findSelf" /\ pc[r] \in Running
    BY <1>4, Points DEF LogoutAllFind, At
  <2>2. /\ cmd[r].op \in GuardedOps /\ cmd[r].jti \in DOMAIN access
        /\ cmd[r].user = access[cmd[r].jti].user /\ cmd[r].user \in Users
        /\ cmd[r].op = "changePassword" => cmd[r].newPassword \in Passwords
        /\ r \notin DOMAIN tokens /\ r \notin DOMAIN access
    BY <2>1 DEF TypeInv, TypeOK, AccessToken, ControlOK, Control, GuardedCommand,
                GuardPoints, LogoutPoints, PasswordPoints, Drawn
  <2>3. UNCHANGED <<users, tokens, access, denylist, redisUp, clock, cmd, now>>
    BY <1>4 DEF LogoutAllFind, environment, stores
  <2>4. PICK point \in {"bump", "deny"} :
          /\ Goto(r, point)
          /\ \/ point = "bump" /\ loaded' = Put(loaded, r, users[cmd[r].user])
             \/ point = "deny" /\ loaded' = loaded
    BY <1>4 DEF LogoutAllFind, Load
  <2>5. Moved(r, point) /\ r \in DOMAIN cmd
    BY <2>1, <2>3, <2>4, GotoLemma, Points
  <2>6. /\ DOMAIN loaded' \in {DOMAIN loaded, DOMAIN loaded \cup {r}}
        /\ loaded' \in [DOMAIN loaded' -> UserRow]
        /\ point = "bump" => r \in DOMAIN loaded'
    BY <2>2, <2>4 DEF Put, TypeInv, TypeOK
  <2>8. TypeOK'
    BY <2>3, <2>5, <2>6 DEF TypeInv, TypeOK, Moved
  <2>9. Only(r)
    BY <2>3, <2>5, <2>6 DEF Only, Moved
  <2>10. Control(r)'
    BY <2>1, <2>2, <2>3, <2>5, <2>6
       DEF TypeInv, ControlOK, Control, LoginCommand, RefreshCommand, GuardedCommand,
           EditCommand, Drawn, Moved, Holding, LoginPoints, RefreshPoints, GuardPoints,
           LogoutPoints, PasswordPoints
  <2> QED
    BY <2>8, <2>9, <2>10, ControlFrom DEF TypeInv
<1>5. ASSUME LogoutAllBump(r) PROVE TypeInv'
  <2>1. pc[r] = "bump" /\ pc[r] \in Running
    BY <1>5, Points DEF LogoutAllBump, At
  <2>2. /\ cmd[r].op \in GuardedOps /\ cmd[r].jti \in DOMAIN access
        /\ cmd[r].user = access[cmd[r].jti].user /\ cmd[r].user \in Users
        /\ cmd[r].op = "changePassword" => cmd[r].newPassword \in Passwords
        /\ r \notin DOMAIN tokens /\ r \notin DOMAIN access
    BY <2>1 DEF TypeInv, TypeOK, AccessToken, ControlOK, Control, GuardedCommand,
                GuardPoints, LogoutPoints, PasswordPoints, Drawn
  <2>3. UNCHANGED <<tokens, access, denylist, redisUp, clock, cmd, loaded, now>>
    BY <1>5 DEF LogoutAllBump, environment
  <2>4. r \in DOMAIN loaded /\ loaded[r] \in UserRow
    BY <2>1 DEF TypeInv, TypeOK, ControlOK, Control, Drawn, Holding
  <2>5. /\ users' \in [Users -> UserRow]
        /\ \E point \in {"deny", "conflict"} : Goto(r, point)
    BY <1>5, <2>2, <2>4, SaveLemma, MutationLemma DEF LogoutAllBump
  <2>6. PICK point \in {"deny", "conflict"} : Moved(r, point)
    BY <2>1, <2>3, <2>5, GotoLemma, Points
  <2>8. TypeOK'
    BY <2>3, <2>5, <2>6 DEF TypeInv, TypeOK, Moved
  <2>9. Only(r)
    BY <2>3, <2>6 DEF Only, Moved
  <2>10. Control(r)'
    BY <2>1, <2>2, <2>3, <2>4, <2>6
       DEF TypeInv, ControlOK, Control, LoginCommand, RefreshCommand, GuardedCommand,
           EditCommand, Drawn, Moved, Holding, LoginPoints, RefreshPoints, GuardPoints,
           LogoutPoints, PasswordPoints
  <2> QED
    BY <2>8, <2>9, <2>10, ControlFrom DEF TypeInv
<1> QED
  BY <1>1, <1>2, <1>3, <1>4, <1>5

LEMMA ChangePasswordTypes ==
    ASSUME TypeInv, NEW r \in Requests,
           ChangePasswordVerify(r) \/ ChangePasswordSave(r) \/ ChangePasswordRevoke(r)
    PROVE  TypeInv'
<1>1. ASSUME ChangePasswordVerify(r) PROVE TypeInv'
  <2>1. pc[r] = "verify" /\ pc[r] \in Running
    BY <1>1, Points DEF ChangePasswordVerify, At
  <2>2. /\ cmd[r].op \in GuardedOps /\ cmd[r].jti \in DOMAIN access
        /\ cmd[r].user = access[cmd[r].jti].user /\ cmd[r].user \in Users
        /\ cmd[r].op = "changePassword" => cmd[r].newPassword \in Passwords
        /\ r \notin DOMAIN tokens /\ r \notin DOMAIN access
    BY <2>1 DEF TypeInv, TypeOK, AccessToken, ControlOK, Control, GuardedCommand,
                GuardPoints, LogoutPoints, PasswordPoints, Drawn
  <2>3. UNCHANGED <<users, tokens, access, denylist, redisUp, clock, cmd, now>>
    BY <1>1 DEF ChangePasswordVerify, environment, stores
  <2>4. PICK point \in {"savePassword", "failed"} :
          /\ Goto(r, point)
          /\ \/ point = "savePassword" /\ loaded' = Put(loaded, r, users[cmd[r].user])
             \/ point = "failed" /\ loaded' = loaded
    BY <1>1 DEF ChangePasswordVerify, Load
  <2>5. Moved(r, point) /\ r \in DOMAIN cmd
    BY <2>1, <2>3, <2>4, GotoLemma, Points
  <2>6. /\ DOMAIN loaded' \in {DOMAIN loaded, DOMAIN loaded \cup {r}}
        /\ loaded' \in [DOMAIN loaded' -> UserRow]
        /\ point = "savePassword" => r \in DOMAIN loaded'
    BY <2>2, <2>4 DEF Put, TypeInv, TypeOK
  <2>8. TypeOK'
    BY <2>3, <2>5, <2>6 DEF TypeInv, TypeOK, Moved
  <2>9. Only(r)
    BY <2>3, <2>5, <2>6 DEF Only, Moved
  <2>10. Control(r)'
    BY <2>1, <2>2, <2>3, <2>5, <2>6
       DEF TypeInv, ControlOK, Control, LoginCommand, RefreshCommand, GuardedCommand,
           EditCommand, Drawn, Moved, Holding, LoginPoints, RefreshPoints, GuardPoints,
           LogoutPoints, PasswordPoints
  <2> QED
    BY <2>8, <2>9, <2>10, ControlFrom DEF TypeInv
<1>2. ASSUME ChangePasswordSave(r) PROVE TypeInv'
  <2>1. pc[r] = "savePassword" /\ pc[r] \in Running
    BY <1>2, Points DEF ChangePasswordSave, At
  <2>2. /\ cmd[r].op \in GuardedOps /\ cmd[r].jti \in DOMAIN access
        /\ cmd[r].user = access[cmd[r].jti].user /\ cmd[r].user \in Users
        /\ cmd[r].op = "changePassword" => cmd[r].newPassword \in Passwords
        /\ r \notin DOMAIN tokens /\ r \notin DOMAIN access
    BY <2>1 DEF TypeInv, TypeOK, AccessToken, ControlOK, Control, GuardedCommand,
                GuardPoints, LogoutPoints, PasswordPoints, Drawn
  <2>3. UNCHANGED <<tokens, access, denylist, redisUp, clock, cmd, loaded, now>>
    BY <1>2 DEF ChangePasswordSave, environment
  <2>7. cmd[r].op = "changePassword"
    BY <2>1 DEF TypeInv, ControlOK, Control, GuardedCommand, GuardPoints, LogoutPoints,
                PasswordPoints
  <2>4. r \in DOMAIN loaded /\ loaded[r] \in UserRow
    BY <2>1 DEF TypeInv, TypeOK, ControlOK, Control, Drawn, Holding
  <2>5. /\ users' \in [Users -> UserRow]
        /\ \E point \in {"revokeSessions", "conflict"} : Goto(r, point)
    <3>1. SetPasswordHash(loaded[r], cmd[r].newPassword) \in UserRow
      BY <2>2, <2>4, <2>7, MutationLemma
    <3> QED
      BY <1>2, <2>2, <3>1, SaveLemma DEF ChangePasswordSave
  <2>6. PICK point \in {"revokeSessions", "conflict"} : Moved(r, point)
    BY <2>1, <2>3, <2>5, GotoLemma, Points
  <2>8. TypeOK'
    BY <2>3, <2>5, <2>6 DEF TypeInv, TypeOK, Moved
  <2>9. Only(r)
    BY <2>3, <2>6 DEF Only, Moved
  <2>10. Control(r)'
    BY <2>1, <2>2, <2>3, <2>4, <2>6, <2>7
       DEF TypeInv, ControlOK, Control, LoginCommand, RefreshCommand, GuardedCommand,
           EditCommand, Drawn, Moved, Holding, LoginPoints, RefreshPoints, GuardPoints,
           LogoutPoints, PasswordPoints
  <2> QED
    BY <2>8, <2>9, <2>10, ControlFrom DEF TypeInv
<1>3. ASSUME ChangePasswordRevoke(r) PROVE TypeInv'
  <2>1. pc[r] = "revokeSessions" /\ pc[r] \in Running
    BY <1>3, Points DEF ChangePasswordRevoke, At
  <2>2. /\ cmd[r].op \in GuardedOps /\ cmd[r].jti \in DOMAIN access
        /\ cmd[r].user = access[cmd[r].jti].user /\ cmd[r].user \in Users
        /\ cmd[r].op = "changePassword" => cmd[r].newPassword \in Passwords
        /\ r \notin DOMAIN tokens /\ r \notin DOMAIN access
    BY <2>1 DEF TypeInv, TypeOK, AccessToken, ControlOK, Control, GuardedCommand,
                GuardPoints, LogoutPoints, PasswordPoints, Drawn
  <2>3. UNCHANGED <<users, access, denylist, redisUp, clock, cmd, loaded, now>>
    BY <1>3 DEF ChangePasswordRevoke, environment
  <2>5. Moved(r, "done")
    BY <1>3, <2>1, <2>3, GotoLemma, Points DEF ChangePasswordRevoke
  <2>6. /\ DOMAIN tokens' = DOMAIN tokens /\ tokens' \in [DOMAIN tokens -> TokenRow]
        /\ \A t \in DOMAIN tokens : /\ tokens'[t].user = tokens[t].user
                                    /\ tokens'[t].family = tokens[t].family
    BY <1>3, RevokeLemma DEF ChangePasswordRevoke, RevokeAllForUser, Reasons, TypeInv, TypeOK
  <2>8. TypeOK'
    BY <2>3, <2>5, <2>6 DEF TypeInv, TypeOK, Moved
  <2>9. Only(r)
    BY <2>3, <2>5, <2>6 DEF Only, Moved
  <2>10. Control(r)'
    BY <2>1, <2>2, <2>3, <2>5, <2>6
       DEF TypeInv, ControlOK, Control, LoginCommand, RefreshCommand, GuardedCommand,
           EditCommand, Drawn, Moved, Holding, LoginPoints, RefreshPoints, GuardPoints,
           LogoutPoints, PasswordPoints
  <2> QED
    BY <2>8, <2>9, <2>10, ControlFrom DEF TypeInv
<1> QED
  BY <1>1, <1>2, <1>3

LEMMA EditTypes ==
    ASSUME TypeInv, NEW r \in Requests,
           (\E u \in Users, e \in Edits : EditFind(r, u, e)) \/ EditSave(r)
    PROVE  TypeInv'
<1>1. ASSUME NEW u \in Users, NEW e \in Edits, EditFind(r, u, e) PROVE TypeInv'
  <2> DEFINE c == [Bare("edit", u) EXCEPT !.edit = e]
  <2>1. c \in Command /\ c.op = "edit" /\ c.user = u /\ c.edit = e
    BY DEF Bare, Command, AllOps
  <2>2. Begin(r, c) /\ Goto(r, "saveEdit")
    BY <1>1 DEF EditFind
  <2> HIDE DEF c
  <2>3. /\ r \notin DOMAIN cmd /\ r \notin DOMAIN loaded
        /\ r \notin DOMAIN tokens /\ r \notin DOMAIN access
        /\ cmd'[r] = c /\ DOMAIN cmd' = DOMAIN cmd \cup {r}
        /\ Moved(r, "saveEdit")
    BY <2>1, <2>2, BeginLemma, Points
  <2>4. /\ DOMAIN loaded' = DOMAIN loaded \cup {r}
        /\ loaded' \in [DOMAIN loaded' -> UserRow]
    BY <1>1 DEF EditFind, Load, Put, TypeInv, TypeOK
  <2>5. UNCHANGED <<users, tokens, access, denylist, redisUp, clock, now>>
    BY <1>1 DEF EditFind, stores, environment
  <2>8. TypeOK'
    BY <2>3, <2>4, <2>5 DEF TypeInv, TypeOK, Moved
  <2>9. Only(r)
    BY <2>3, <2>4, <2>5 DEF Only, Moved
  <2>10. Control(r)'
    BY <2>1, <2>3, <2>4, <2>5
       DEF TypeInv, ControlOK, Control, LoginCommand, RefreshCommand, GuardedCommand,
           EditCommand, Drawn, Moved, Holding, LoginPoints, RefreshPoints, GuardPoints,
           LogoutPoints, PasswordPoints
  <2> QED
    BY <2>8, <2>9, <2>10, ControlFrom DEF TypeInv
<1>2. ASSUME EditSave(r) PROVE TypeInv'
  <2>1. pc[r] = "saveEdit" /\ pc[r] \in Running
    BY <1>2, Points DEF EditSave, At
  <2>2. /\ cmd[r].user \in Users /\ cmd[r].edit \in Edits
        /\ r \in DOMAIN loaded /\ loaded[r] \in UserRow
        /\ r \notin DOMAIN tokens /\ r \notin DOMAIN access
    BY <2>1 DEF TypeInv, TypeOK, ControlOK, Control, EditCommand, Drawn, Holding
  <2>3. UNCHANGED <<tokens, access, denylist, redisUp, clock, cmd, loaded, now>>
    BY <1>2 DEF EditSave, environment
  <2>4. /\ users' \in [Users -> UserRow]
        /\ \E point \in {"done", "conflict"} : Goto(r, point)
    <3>1. ApplyEdit(loaded[r], cmd[r].edit) \in UserRow
      BY <2>2, MutationLemma
    <3> QED
      BY <1>2, <2>2, <3>1, SaveLemma DEF EditSave
  <2>5. PICK point \in {"done", "conflict"} : Moved(r, point)
    BY <2>1, <2>3, <2>4, GotoLemma, Points
  <2>8. TypeOK'
    BY <2>3, <2>4, <2>5 DEF TypeInv, TypeOK, Moved
  <2>9. Only(r)
    BY <2>3, <2>5 DEF Only, Moved
  <2>10. Control(r)'
    BY <2>1, <2>2, <2>3, <2>5
       DEF TypeInv, ControlOK, Control, LoginCommand, RefreshCommand, GuardedCommand,
           EditCommand, Drawn, Moved, Holding, LoginPoints, RefreshPoints, GuardPoints,
           LogoutPoints, PasswordPoints
  <2> QED
    BY <2>8, <2>9, <2>10, ControlFrom DEF TypeInv
<1> QED
  BY <1>1, <1>2

LEMMA DieTypes ==
    ASSUME TypeInv, NEW r \in Requests, Die(r)
    PROVE  TypeInv'
<1>1. pc[r] \in Running /\ Goto(r, "failed")
  BY DEF Die
<1>2. UNCHANGED <<users, tokens, access, denylist, redisUp, clock, cmd, loaded, now>>
  BY DEF Die, stores, environment
<1>3. Moved(r, "failed")
  BY <1>1, <1>2, GotoLemma, Points
<1>4. TypeOK'
  BY <1>2, <1>3 DEF TypeInv, TypeOK, Moved
<1>5. Only(r)
  BY <1>2, <1>3 DEF Only, Moved
<1>6. Control(r)'
  BY <1>1, <1>2, <1>3
     DEF TypeInv, ControlOK, Control, LoginCommand, RefreshCommand, GuardedCommand,
         EditCommand, Drawn, Moved, Holding, LoginPoints, RefreshPoints, GuardPoints,
         LogoutPoints, PasswordPoints
<1> QED
  BY <1>4, <1>5, <1>6, ControlFrom DEF TypeInv

\* Time, Redis and deployments disturb no request.
LEMMA EnvironmentTypes ==
    ASSUME TypeInv, Tick \/ RedisFlip \/ RaiseHashCost \/ UNCHANGED vars
    PROVE  TypeInv'
<1>1. UNCHANGED <<tokens, access, denylist, pc, cmd, loaded, now>>
  BY DEF Tick, RedisFlip, RaiseHashCost, vars, stores, requests, environment
<1>2. users' \in [Users -> UserRow]
  <2>1. ASSUME NEW u \in Users
        PROVE  [users[u] EXCEPT !.outdated = (users[u].password # Null)] \in UserRow
    <3>1. \A b \in BOOLEAN : [users[u] EXCEPT !.outdated = b] \in UserRow
      BY DEF TypeInv, TypeOK, UserRow
    <3>2. (users[u].password # Null) \in BOOLEAN
      OBVIOUS
    <3> QED
      BY <3>1, <3>2
  <2>2. CASE RaiseHashCost
    BY <2>1, <2>2 DEF RaiseHashCost
  <2>3. CASE UNCHANGED users
    BY <2>3 DEF TypeInv, TypeOK
  <2> QED
    BY <2>2, <2>3 DEF Tick, RedisFlip, vars, stores
<1>3. redisUp' \in BOOLEAN /\ clock' \in Nat
  <2>1. CASE Tick
    BY <2>1 DEF Tick, TypeInv, TypeOK
  <2>2. CASE RedisFlip
    BY <2>2 DEF RedisFlip, TypeInv, TypeOK
  <2>3. CASE UNCHANGED environment
    BY <2>3 DEF environment, TypeInv, TypeOK
  <2> QED
    BY <2>1, <2>2, <2>3 DEF RaiseHashCost, vars
<1>4. TypeOK'
  BY <1>1, <1>2, <1>3 DEF TypeInv, TypeOK
<1>5. ControlOK'
  BY <1>1 DEF TypeInv, ControlOK, Control, LoginCommand, RefreshCommand, GuardedCommand,
              EditCommand, Drawn
<1> QED
  BY <1>4, <1>5 DEF TypeInv

LEMMA TypeStep == TypeInv /\ [Next]_vars => TypeInv'
<1> SUFFICES ASSUME TypeInv, [Next]_vars PROVE TypeInv'
  OBVIOUS
<1>1. ASSUME NEW r \in Requests, Arrive(r) PROVE TypeInv'
  BY <1>1, LoginTypes, RefreshTypes, GuardTypes, EditTypes DEF Arrive
<1>2. ASSUME NEW r \in Requests, Step(r) PROVE TypeInv'
  BY <1>2, LoginTypes, RefreshTypes, GuardTypes, LogoutTypes, ChangePasswordTypes, EditTypes
     DEF Step
<1>3. ASSUME NEW r \in Requests, Die(r) PROVE TypeInv'
  BY <1>3, DieTypes
<1>4. ASSUME Tick \/ RedisFlip \/ RaiseHashCost \/ UNCHANGED vars PROVE TypeInv'
  BY <1>4, EnvironmentTypes
<1> QED
  BY <1>1, <1>2, <1>3, <1>4 DEF Next, Quiescent

\* Every variable keeps its type, and every await finds the command, the
\* entity and the rows it relies on.
THEOREM TypeCorrect == Spec => []TypeOK
<1>1. Spec => []TypeInv
  BY InitType, TypeStep, PTL DEF Spec
<1>2. TypeInv => TypeOK
  BY DEF TypeInv
<1> QED
  BY <1>1, <1>2, PTL
=============================================================================
