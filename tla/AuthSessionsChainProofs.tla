---------------------- MODULE AuthSessionsChainProofs ----------------------
(***************************************************************************)
(* Proofs about refresh-token families: a family is one chain, a token     *)
(* works once, and a revocation is final.                                  *)
(***************************************************************************)
EXTENDS AuthSessionsProofs

\* Every family is rooted at the token of the login that opened it.
FamilyRoots == \A t \in DOMAIN tokens : tokens[t].family \in DOMAIN tokens

\* The refreshes that won the compare-and-swap on the token they presented.
Winners == {r \in DOMAIN cmd : /\ cmd[r].op = "refresh"
                               /\ Rotating(r) \/ r \in DOMAIN tokens}

WonOnce ==
    /\ \A r \in Winners : /\ cmd[r].token \in DOMAIN tokens
                          /\ IsRevoked(tokens[cmd[r].token])
    /\ \A q, r \in Winners : cmd[q].token = cmd[r].token => q = r

ChainInv == FamilyRoots /\ WonOnce /\ OneLinkPerFamily

-----------------------------------------------------------------------------
(* Four kinds of step *)

\* A step that adds no token and starts no rotation: it may revoke.
Quiet ==
    /\ DOMAIN tokens' = DOMAIN tokens
    /\ \A t \in DOMAIN tokens : /\ tokens'[t].family = tokens[t].family
                                /\ IsRevoked(tokens[t]) => tokens'[t] = tokens[t]
    /\ \A q \in DOMAIN cmd : cmd'[q] = cmd[q]
    /\ \A q \in Requests : Rotating(q)' => Rotating(q)

\* r wins the compare-and-swap on its token.
Wins(r) == RefreshConsume(r) /\ Consumable(tokens, cmd[r].token)

LEMMA QuietBegin ==
    ASSUME TypeInv, NEW r \in Requests, NEW c, Begin(r, c), NEW point, Goto(r, point),
           point \notin {"load", "rotate"}, UNCHANGED tokens
    PROVE  Quiet
<1>1. /\ pc \in [Requests -> {"idle"} \cup Running \cup Finished]
      /\ DOMAIN cmd = {q \in Requests : pc[q] # "idle"}
  BY DEF TypeInv, TypeOK
<1>2. pc[r] = "idle" /\ cmd' = Put(cmd, r, c) /\ pc' = [pc EXCEPT ![r] = point]
  BY DEF Begin, Goto
<1>3. \A q \in DOMAIN cmd : cmd'[q] = cmd[q]
  BY <1>1, <1>2 DEF Put
<1>4. \A q \in Requests : Rotating(q)' => Rotating(q)
  BY <1>1, <1>2 DEF Rotating
<1> QED
  BY <1>3, <1>4 DEF Quiet

LEMMA QuietResume ==
    ASSUME TypeInv, NEW r \in Requests, NEW point, Goto(r, point), UNCHANGED cmd,
           point \in {"load", "rotate"} => Rotating(r),
           \/ UNCHANGED tokens
           \/ \E rows, reason : reason \in Reasons /\ tokens' = Revoke(tokens, rows, reason)
    PROVE  Quiet
<1>1. /\ pc \in [Requests -> {"idle"} \cup Running \cup Finished]
      /\ tokens \in [DOMAIN tokens -> TokenRow]
  BY DEF TypeInv, TypeOK
<1>2. /\ DOMAIN tokens' = DOMAIN tokens
      /\ \A t \in DOMAIN tokens : /\ tokens'[t].family = tokens[t].family
                                  /\ IsRevoked(tokens[t]) => tokens'[t] = tokens[t]
  <2>1. CASE UNCHANGED tokens
    BY <2>1
  <2>2. ASSUME NEW rows, NEW reason \in Reasons, tokens' = Revoke(tokens, rows, reason)
        PROVE  <1>2
    BY <1>1, <2>2, RevokeLemma
  <2> QED
    BY <2>1, <2>2
<1>3. \A q \in Requests : Rotating(q)' => Rotating(q)
  BY <1>1 DEF Rotating, Goto
<1> QED
  BY <1>2, <1>3 DEF Quiet

LEMMA QuietArrive ==
    ASSUME TypeInv, NEW r \in Requests, Arrive(r)
    PROVE  Quiet
<1>1. ASSUME NEW u \in Users, NEW p \in Passwords, LoginFind(r, u, p) PROVE Quiet
  <2>1. \E point \in {"rehash", "issue", "failed"} : Goto(r, point)
    BY <1>1 DEF LoginFind
  <2> QED
    BY <1>1, <2>1, QuietBegin DEF LoginFind, stores
<1>2. ASSUME NEW t \in HeldRefresh \cup {Null}, RefreshFind(r, t) PROVE Quiet
  <2>1. \E point \in {"failed", "reuse", "consume"} : Goto(r, point)
    BY <1>2 DEF RefreshFind
  <2> QED
    BY <1>2, <2>1, QuietBegin DEF RefreshFind, stores
<1>3. ASSUME NEW a, NEW c, BeginGuarded(r, a, c) PROVE Quiet
  BY <1>3, QuietBegin DEF BeginGuarded, stores
<1>4. ASSUME NEW u \in Users, NEW e \in Edits, EditFind(r, u, e) PROVE Quiet
  BY <1>4, QuietBegin DEF EditFind, stores
<1> QED
  BY <1>1, <1>2, <1>3, <1>4
     DEF Arrive, BeginAccess, BeginLogout, BeginLogoutAll, BeginChangePassword

LEMMA QuietStep ==
    ASSUME TypeInv, NEW r \in Requests, Step(r) \/ Die(r)
    PROVE  Quiet \/ Wins(r) \/ RefreshRotate(r) \/ LoginIssue(r)
<1>1. CASE LoginRehash(r)
  BY <1>1, QuietResume DEF LoginRehash, Save
<1>2. CASE LoginTouch(r)
  BY <1>2, QuietResume DEF LoginTouch
<1>3. CASE RefreshConsume(r)
  BY <1>3, QuietResume DEF RefreshConsume, Wins
<1>4. CASE RefreshReuse(r)
  BY <1>4, QuietResume DEF RefreshReuse, RevokeFamily, Reasons
<1>5. CASE RefreshLoad(r)
  BY <1>5, QuietResume DEF RefreshLoad, stores, At, Rotating
<1>6. CASE GuardDenylist(r)
  <2>1. \E point \in {"failed", "snapshot"} : Goto(r, point)
    BY <1>6 DEF GuardDenylist
  <2> QED
    BY <1>6, <2>1, QuietResume DEF GuardDenylist, stores
<1>7. CASE GuardSnapshot(r)
  <2>1. pc[r] = "snapshot" /\ cmd[r].op \in GuardedOps
    BY <1>7 DEF GuardSnapshot, At, TypeInv, ControlOK, Control, GuardedCommand, GuardPoints
  <2>2. \E point \in {"failed", "done", "revokeFamily", "revokeAll", "verify"} :
          Goto(r, point)
    BY <1>7, <2>1 DEF GuardSnapshot, Entry, GuardedOps
  <2> QED
    BY <1>7, <2>2, QuietResume DEF GuardSnapshot, stores
<1>8. CASE LogoutRevoke(r)
  BY <1>8, QuietResume DEF LogoutRevoke, RevokeFamily, Reasons
<1>9. CASE LogoutDeny(r)
  BY <1>9, QuietResume DEF LogoutDeny
<1>10. CASE LogoutAllRevoke(r)
  BY <1>10, QuietResume DEF LogoutAllRevoke, RevokeAllForUser, Reasons
<1>11. CASE LogoutAllFind(r)
  BY <1>11, QuietResume DEF LogoutAllFind, stores
<1>12. CASE LogoutAllBump(r)
  BY <1>12, QuietResume DEF LogoutAllBump, Save
<1>13. CASE ChangePasswordVerify(r)
  BY <1>13, QuietResume DEF ChangePasswordVerify, stores
<1>14. CASE ChangePasswordSave(r)
  BY <1>14, QuietResume DEF ChangePasswordSave, Save
<1>15. CASE ChangePasswordRevoke(r)
  BY <1>15, QuietResume DEF ChangePasswordRevoke, RevokeAllForUser, Reasons
<1>16. CASE EditSave(r)
  BY <1>16, QuietResume DEF EditSave, Save
<1>17. CASE Die(r)
  BY <1>17, QuietResume DEF Die, stores
<1> QED
  BY <1>1, <1>2, <1>3, <1>4, <1>5, <1>6, <1>7, <1>8, <1>9, <1>10, <1>11, <1>12, <1>13,
     <1>14, <1>15, <1>16, <1>17 DEF Step

\* Every step is of one of four kinds.
LEMMA Kinds ==
    ASSUME TypeInv, [Next]_vars
    PROVE  \/ Quiet
           \/ \E r \in Requests : Wins(r) \/ RefreshRotate(r) \/ LoginIssue(r)
<1>1. ASSUME Tick \/ RedisFlip \/ RaiseHashCost \/ UNCHANGED vars PROVE Quiet
  <2>1. UNCHANGED <<tokens, cmd, pc>>
    BY <1>1 DEF Tick, RedisFlip, RaiseHashCost, vars, stores, requests
  <2> QED
    BY <2>1 DEF Quiet, Rotating
<1> QED
  BY <1>1, QuietArrive, QuietStep DEF Next, Quiescent

-----------------------------------------------------------------------------
(* The invariant *)

\* A refresh past its first await presents a token of the table, and a
\* request that drew a token is no longer rotating.
LEMMA Presented ==
    ASSUME TypeInv
    PROVE  /\ \A r \in Requests : Rotating(r) => /\ r \in DOMAIN cmd
                                                 /\ cmd[r].op = "refresh"
                                                 /\ cmd[r].token \in DOMAIN tokens
                                                 /\ r \notin DOMAIN tokens
           /\ \A t \in DOMAIN tokens : /\ t \in Requests /\ t \in DOMAIN cmd
                                       /\ pc[t] \in {"touch", "done", "failed"}
           /\ DOMAIN cmd \subseteq Requests
  BY DEF TypeInv, TypeOK, ControlOK, Control, RefreshCommand, RefreshPoints, Drawn, Rotating

LEMMA WinEffect ==
    ASSUME TypeInv, NEW r \in Requests, Wins(r)
    PROVE  /\ r \in DOMAIN cmd /\ cmd[r].op = "refresh"
           /\ cmd[r].token \in DOMAIN tokens /\ ~IsRevoked(tokens[cmd[r].token])
           /\ ~Rotating(r) /\ r \notin DOMAIN tokens
           /\ cmd' = cmd /\ DOMAIN tokens' = DOMAIN tokens
           /\ IsRevoked(tokens'[cmd[r].token])
           /\ \A t \in DOMAIN tokens : /\ tokens'[t].family = tokens[t].family
                                       /\ t # cmd[r].token => tokens'[t] = tokens[t]
           /\ \A q \in Requests : Rotating(q)' <=> Rotating(q) \/ q = r
<1>1. /\ pc[r] = "consume" /\ cmd' = cmd /\ Goto(r, "load")
      /\ tokens' = Consume(tokens, cmd[r].token, "rotated")
      /\ cmd[r].token \in DOMAIN tokens /\ tokens[cmd[r].token].revoked = Active
  BY DEF Wins, RefreshConsume, At, Consumable
<1>2. /\ r \in DOMAIN cmd /\ cmd[r].op = "refresh" /\ r \notin DOMAIN tokens
      /\ pc \in [Requests -> {"idle"} \cup Running \cup Finished]
      /\ tokens \in [DOMAIN tokens -> TokenRow]
  BY <1>1 DEF TypeInv, TypeOK, ControlOK, Control, RefreshCommand, RefreshPoints, Drawn
<1>3. \A q \in Requests : Rotating(q)' <=> Rotating(q) \/ q = r
  BY <1>1, <1>2 DEF Goto, Rotating
<1>4. ~Rotating(r)
  BY <1>1 DEF Rotating
<1>5. /\ DOMAIN tokens' = DOMAIN tokens /\ tokens'[cmd[r].token].revoked = "rotated"
      /\ \A t \in DOMAIN tokens : /\ tokens'[t].family = tokens[t].family
                                  /\ t # cmd[r].token => tokens'[t] = tokens[t]
  BY <1>1, <1>2, ConsumeLemma
<1> QED
  BY <1>1, <1>2, <1>3, <1>4, <1>5 DEF IsRevoked, Active

\* What a rotation changes: the successor has the family of its predecessor.
Rotated(r) ==
    /\ Rotating(r) /\ cmd' = cmd
    /\ DOMAIN tokens' = DOMAIN tokens \cup {r}
    /\ \A t \in DOMAIN tokens : tokens'[t] = tokens[t]
    /\ tokens'[r].family = Family(r) /\ ~IsRevoked(tokens'[r])
    /\ \A q \in Requests : Rotating(q)' <=> Rotating(q) /\ q # r

LEMMA RotateEffect ==
    ASSUME TypeInv, NEW r \in Requests, RefreshRotate(r)
    PROVE  Rotated(r)
<1>1. /\ pc[r] = "rotate" /\ cmd' = cmd /\ Goto(r, "done")
      /\ tokens' = Put(tokens, r, Issue(cmd[r].user, tokens[cmd[r].token].family,
                                        now[r], RefreshTtl))
  BY DEF RefreshRotate, At
<1>2. Rotating(r)
  BY <1>1 DEF Rotating
<1>3. r \notin DOMAIN tokens
  BY <1>2, Presented
<1>4. \A q \in Requests : Rotating(q)' <=> Rotating(q) /\ q # r
  BY <1>1 DEF Goto, Rotating, TypeInv, TypeOK
<1>5. /\ DOMAIN tokens' = DOMAIN tokens \cup {r}
      /\ \A t \in DOMAIN tokens : tokens'[t] = tokens[t]
      /\ tokens'[r] = Issue(cmd[r].user, tokens[cmd[r].token].family, now[r], RefreshTtl)
  BY <1>1, <1>3 DEF Put
<1>6. tokens'[r].family = Family(r) /\ ~IsRevoked(tokens'[r])
  BY <1>5 DEF Issue, Family, IsRevoked
<1> QED
  BY <1>1, <1>2, <1>4, <1>5, <1>6 DEF Rotated

\* What the token of a login changes: a family named after it.
Opened(r) ==
    /\ r \in DOMAIN cmd /\ cmd[r].op = "login" /\ cmd' = cmd /\ ~Rotating(r)
    /\ r \notin DOMAIN tokens /\ DOMAIN tokens' = DOMAIN tokens \cup {r}
    /\ \A t \in DOMAIN tokens : tokens'[t] = tokens[t]
    /\ tokens'[r].family = r /\ ~IsRevoked(tokens'[r])
    /\ \A q \in Requests : Rotating(q)' <=> Rotating(q)

LEMMA IssueEffect ==
    ASSUME TypeInv, NEW r \in Requests, LoginIssue(r)
    PROVE  Opened(r)
<1>1. /\ pc[r] = "issue" /\ cmd' = cmd /\ Goto(r, "touch")
      /\ tokens' = Put(tokens, r, Issue(cmd[r].user, r, clock, RefreshTtl))
  BY DEF LoginIssue, At
<1>2. r \in DOMAIN cmd /\ cmd[r].op = "login" /\ r \notin DOMAIN tokens
  BY <1>1 DEF TypeInv, TypeOK, ControlOK, Control, LoginCommand, LoginPoints, Drawn
<1>3. ~Rotating(r) /\ \A q \in Requests : Rotating(q)' <=> Rotating(q)
  BY <1>1 DEF Goto, Rotating, TypeInv, TypeOK
<1>4. /\ DOMAIN tokens' = DOMAIN tokens \cup {r}
      /\ \A t \in DOMAIN tokens : tokens'[t] = tokens[t]
      /\ tokens'[r] = Issue(cmd[r].user, r, clock, RefreshTtl)
  BY <1>1, <1>2 DEF Put
<1>5. tokens'[r].family = r /\ ~IsRevoked(tokens'[r])
  BY <1>4 DEF Issue, IsRevoked
<1> QED
  BY <1>1, <1>2, <1>3, <1>4, <1>5 DEF Opened

LEMMA InitChain == Init => ChainInv
  BY DEF Init, EmptyTable, ChainInv, FamilyRoots, WonOnce, Winners, OneLinkPerFamily,
         ActiveIn, RotatingIn, Rotating

\* In a quiet step a family loses links and winners, and gains none.
LEMMA QuietChain ==
    ASSUME TypeInv, TypeInv', ChainInv, Quiet
    PROVE  /\ \A f \in Requests : /\ ActiveIn(f)' \subseteq ActiveIn(f)
                                  /\ RotatingIn(f)' \subseteq RotatingIn(f)
           /\ ChainInv'
<1>1. ASSUME NEW f \in Requests PROVE ActiveIn(f)' \subseteq ActiveIn(f)
  BY DEF ActiveIn, Quiet
<1>2. ASSUME NEW f \in Requests PROVE RotatingIn(f)' \subseteq RotatingIn(f)
  BY Presented DEF RotatingIn, Family, Quiet
<1>3. FamilyRoots'
  BY DEF ChainInv, FamilyRoots, Quiet
<1>4. \A r \in Requests : r \in Winners' => /\ r \in Winners /\ r \in DOMAIN cmd
                                           /\ cmd'[r] = cmd[r]
  BY Presented DEF Winners, Quiet
<1>5. Winners' \subseteq Requests
  BY DEF Winners, TypeInv, TypeOK
<1>6. WonOnce'
  BY <1>4, <1>5 DEF ChainInv, WonOnce, Quiet
<1>7. OneLinkPerFamily'
  BY <1>1, <1>2 DEF ChainInv, OneLinkPerFamily
<1> QED
  BY <1>1, <1>2, <1>3, <1>6, <1>7 DEF ChainInv

\* The winner takes the place of the token it consumed.
LEMMA WinChain ==
    ASSUME TypeInv, ChainInv, NEW r \in Requests, Wins(r)
    PROVE  /\ \A f \in Requests :
                IF f = Family(r)
                THEN /\ ActiveIn(f) = {cmd[r].token} /\ ActiveIn(f)' = {}
                     /\ RotatingIn(f) = {} /\ RotatingIn(f)' = {r}
                ELSE /\ ActiveIn(f)' = ActiveIn(f)
                     /\ RotatingIn(f)' = RotatingIn(f)
           /\ ChainInv'
<1> DEFINE k == cmd[r].token
<1>0. Family(r) \in Requests
  BY WinEffect DEF Family, TypeInv, TypeOK, TokenRow
<1>1. ActiveIn(Family(r)) = {k} /\ RotatingIn(Family(r)) = {}
  <2>1. k \in ActiveIn(Family(r))
    BY WinEffect DEF ActiveIn, Family
  <2>2. k \notin RotatingIn(Family(r))
    BY WinEffect, Presented DEF RotatingIn
  <2> QED
    BY <1>0, <2>1, <2>2 DEF ChainInv, OneLinkPerFamily
<1>2. ActiveIn(Family(r))' = {}
  <2>1. \A t \in DOMAIN tokens : t # k /\ tokens[t].family = Family(r) => IsRevoked(tokens[t])
    BY <1>1 DEF ActiveIn
  <2>2. Family(r)' = Family(r)
    BY WinEffect DEF Family
  <2> QED
    BY <2>1, <2>2, WinEffect DEF ActiveIn
<1>3. \A q \in Requests : Rotating(q) \/ q = r => Family(q)' = Family(q)
  BY WinEffect, Presented DEF Family
<1>4. RotatingIn(Family(r))' = {r}
  BY <1>1, <1>3, WinEffect DEF RotatingIn
<1>5. ASSUME NEW f \in Requests, f # Family(r)
      PROVE  ActiveIn(f)' = ActiveIn(f) /\ RotatingIn(f)' = RotatingIn(f)
  <2>1. ActiveIn(f)' = ActiveIn(f)
    BY <1>5, WinEffect DEF ActiveIn, Family
  <2>2. RotatingIn(f)' = RotatingIn(f)
    BY <1>3, <1>5, WinEffect DEF RotatingIn
  <2> QED
    BY <2>1, <2>2
<1>6. FamilyRoots'
  BY WinEffect DEF ChainInv, FamilyRoots
<1>7. WonOnce'
  <2>1. Winners' = Winners \cup {r}
    BY WinEffect, Presented DEF Winners
  <2>2. \A q \in Winners : cmd[q].token # k
    BY WinEffect DEF ChainInv, WonOnce
  <2> QED
    BY <2>1, <2>2, WinEffect DEF ChainInv, WonOnce
<1>8. OneLinkPerFamily'
  BY <1>2, <1>4, <1>5, <1>3 DEF ChainInv, OneLinkPerFamily
<1> QED
  BY <1>1, <1>2, <1>3, <1>4, <1>5, <1>6, <1>7, <1>8 DEF ChainInv

\* The successor takes the place of the request that issued it.
LEMMA RotateChain ==
    ASSUME TypeInv, ChainInv, NEW r \in Requests, RefreshRotate(r)
    PROVE  /\ \A f \in Requests :
                IF f = Family(r)
                THEN /\ ActiveIn(f) = {} /\ ActiveIn(f)' = {r}
                     /\ RotatingIn(f) = {r} /\ RotatingIn(f)' = {}
                ELSE /\ ActiveIn(f)' = ActiveIn(f)
                     /\ RotatingIn(f)' = RotatingIn(f)
           /\ ChainInv'
<1>e. Rotated(r)
  BY RotateEffect
<1>0. /\ r \in DOMAIN cmd /\ cmd[r].op = "refresh" /\ r \notin DOMAIN tokens
      /\ cmd[r].token \in DOMAIN tokens /\ Family(r) \in Requests
  BY <1>e, Presented DEF Family, TypeInv, TypeOK, TokenRow, Rotated
<1>1. RotatingIn(Family(r)) = {r} /\ ActiveIn(Family(r)) = {}
  <2>1. r \in RotatingIn(Family(r))
    BY <1>e DEF RotatingIn, Rotated
  <2>2. r \notin ActiveIn(Family(r))
    BY <1>0 DEF ActiveIn
  <2> QED
    BY <1>0, <2>1, <2>2 DEF ChainInv, OneLinkPerFamily
<1>2. \A q \in Requests : Rotating(q) => Family(q)' = Family(q)
  BY <1>e, Presented DEF Family, Rotated
<1>3. \A f \in Requests : ActiveIn(f)' = ActiveIn(f) \cup (IF f = Family(r) THEN {r} ELSE {})
  BY <1>e, <1>0 DEF ActiveIn, Rotated
<1>4. \A f \in Requests : RotatingIn(f)' = RotatingIn(f) \ {r}
  BY <1>e, <1>2 DEF RotatingIn, Rotated
<1>5. \A f \in Requests : f # Family(r) => r \notin RotatingIn(f)
  BY DEF RotatingIn
<1>6. FamilyRoots'
  BY <1>e, <1>0 DEF ChainInv, FamilyRoots, Family, Rotated
<1>7. WonOnce'
  <2>1. Winners' = Winners
    BY <1>e, Presented DEF Winners, Rotated
  <2> QED
    BY <2>1, <1>e DEF ChainInv, WonOnce, Rotated
<1>8. OneLinkPerFamily'
  BY <1>1, <1>3, <1>4, <1>5 DEF ChainInv, OneLinkPerFamily
<1> QED
  BY <1>1, <1>3, <1>4, <1>5, <1>6, <1>7, <1>8 DEF ChainInv

\* A login opens a family of its own.
LEMMA IssueChain ==
    ASSUME TypeInv, ChainInv, NEW r \in Requests, LoginIssue(r)
    PROVE  /\ \A t \in DOMAIN tokens : tokens[t].family # r
           /\ ActiveIn(r)' = {r}
           /\ \A f \in Requests : /\ f # r => ActiveIn(f)' = ActiveIn(f)
                                  /\ RotatingIn(f)' = RotatingIn(f)
           /\ ChainInv'
<1>e. Opened(r)
  BY IssueEffect
<1>1. \A t \in DOMAIN tokens : tokens[t].family # r
  BY <1>e DEF ChainInv, FamilyRoots, Opened
<1>2. ActiveIn(r) = {} /\ RotatingIn(r) = {}
  BY <1>1, Presented DEF ActiveIn, RotatingIn, Family
<1>3. \A q \in Requests : Rotating(q) => Family(q)' = Family(q)
  BY <1>e, Presented DEF Family, Opened
<1>4. \A f \in Requests : RotatingIn(f)' = RotatingIn(f)
  BY <1>e, <1>3 DEF RotatingIn, Opened
<1>5. \A f \in Requests : ActiveIn(f)' = ActiveIn(f) \cup (IF f = r THEN {r} ELSE {})
  BY <1>e DEF ActiveIn, Opened
<1>6. FamilyRoots'
  BY <1>e DEF ChainInv, FamilyRoots, Opened
<1>7. WonOnce'
  <2>1. Winners' = Winners
    BY <1>e, Presented DEF Winners, Opened
  <2>2. \A q \in Winners : q \in DOMAIN cmd
    BY DEF Winners
  <2> QED
    BY <2>1, <2>2, <1>e DEF ChainInv, WonOnce, Opened
<1>8. OneLinkPerFamily'
  BY <1>2, <1>4, <1>5 DEF ChainInv, OneLinkPerFamily
<1> QED
  BY <1>1, <1>2, <1>4, <1>5, <1>6, <1>7, <1>8 DEF ChainInv

LEMMA ChainStep == TypeInv /\ TypeInv' /\ ChainInv /\ [Next]_vars => ChainInv'
  BY Kinds, QuietChain, WinChain, RotateChain, IssueChain

LEMMA ChainAlways == Spec => [](TypeInv /\ ChainInv)
<1>1. Init => TypeInv /\ ChainInv
  BY InitType, InitChain
<1>2. TypeInv /\ ChainInv /\ [Next]_vars => TypeInv' /\ ChainInv'
  BY TypeStep, ChainStep
<1> QED
  BY <1>1, <1>2, PTL DEF Spec

-----------------------------------------------------------------------------
(* The results *)

\* At any moment a family has at most one usable token or one successor on
\* its way, whatever the interleaving of consume, revokeFamily and create.
THEOREM OneLink == Spec => []OneLinkPerFamily
<1>1. ChainInv => OneLinkPerFamily
  BY DEF ChainInv
<1> QED
  BY <1>1, ChainAlways, PTL

\* consume lets one refresh through for each token, so one successor exists.
THEOREM TokensWorkOnce == Spec => []SingleUse
<1>1. TypeInv /\ ChainInv => SingleUse
  BY Presented DEF ChainInv, WonOnce, Winners, SingleUse
<1> QED
  BY <1>1, ChainAlways, PTL

\* No statement on the table overwrites the reason of a revoked token.
THEOREM RevocationFinal == Spec => FirstRevocationWins
<1>1. TypeInv /\ [Next]_vars =>
        [\A t \in DOMAIN tokens : IsRevoked(tokens[t]) => tokens'[t] = tokens[t]]_vars
  <2> SUFFICES ASSUME TypeInv, [Next]_vars, NEW t \in DOMAIN tokens, IsRevoked(tokens[t])
               PROVE  tokens'[t] = tokens[t]
    OBVIOUS
  <2>1. CASE Quiet
    BY <2>1 DEF Quiet
  <2>2. ASSUME NEW r \in Requests, Wins(r) PROVE tokens'[t] = tokens[t]
    BY <2>2, WinEffect
  <2>3. ASSUME NEW r \in Requests, RefreshRotate(r) PROVE tokens'[t] = tokens[t]
    BY <2>3, RotateEffect DEF Rotated
  <2>4. ASSUME NEW r \in Requests, LoginIssue(r) PROVE tokens'[t] = tokens[t]
    BY <2>4, IssueEffect DEF Opened
  <2> QED
    BY <2>1, <2>2, <2>3, <2>4, Kinds
<1> QED
  BY <1>1, ChainAlways, PTL DEF Spec, FirstRevocationWins

-----------------------------------------------------------------------------
(* AuthSessions implements SessionChain *)

LEMMA InitSession == Init => Chain!Init
<1> SUFFICES ASSUME Init PROVE Chain!Init
  OBVIOUS
<1>1. \A f \in Requests : SessionOf(f) = "unopened"
  BY DEF Init, EmptyTable, SessionOf
<1> QED
  BY <1>1 DEF Chain!Init

\* No family is both live and rotating.
LEMMA LiveOrRotating ==
    ASSUME TypeInv, ChainInv, NEW f \in Requests, ActiveIn(f) # {}
    PROVE  RotatingIn(f) = {}
  BY Presented DEF ChainInv, OneLinkPerFamily, ActiveIn, RotatingIn

\* A quiet step ends the families whose last link it takes.
LEMMA QuietSession ==
    ASSUME TypeInv, TypeInv', ChainInv, Quiet
    PROVE  \E F \in SUBSET Requests : Chain!End(F)
<1> DEFINE F == {f \in Requests : SessionOf(f)' # SessionOf(f)}
<1>1. ASSUME NEW f \in F PROVE SessionOf(f) \in {"live", "rotating"} /\ SessionOf(f)' = "ended"
  <2>1. ActiveIn(f)' \subseteq ActiveIn(f) /\ RotatingIn(f)' \subseteq RotatingIn(f)
    BY QuietChain
  <2>2. (\A t \in DOMAIN tokens : tokens[t].family # f)'
          <=> \A t \in DOMAIN tokens : tokens[t].family # f
    BY DEF Quiet
  <2>3. ActiveIn(f) # {} => RotatingIn(f) = {}
    BY LiveOrRotating
  <2> QED
    BY <1>1, <2>1, <2>2, <2>3 DEF SessionOf
<1>2. [f \in Requests |-> SessionOf(f)]'
        = [f \in Requests |-> IF f \in F THEN "ended" ELSE SessionOf(f)]
  BY <1>1
<1>3. Chain!End(F)
  BY <1>1, <1>2 DEF Chain!End
<1> QED
  BY <1>3

LEMMA WinSession ==
    ASSUME TypeInv, ChainInv, NEW r \in Requests, Wins(r)
    PROVE  \E f \in Requests : Chain!BeginRotation(f)
<1>1. Family(r) \in Requests
  BY WinEffect DEF Family, TypeInv, TypeOK, TokenRow
<1>2. \A f \in Requests :
        (\A t \in DOMAIN tokens : tokens[t].family # f)'
          <=> \A t \in DOMAIN tokens : tokens[t].family # f
  <2>1. DOMAIN tokens' = DOMAIN tokens
        /\ \A t \in DOMAIN tokens : tokens'[t].family = tokens[t].family
    BY WinEffect
  <2> QED
    BY <2>1
<1>3. SessionOf(Family(r)) = "live"
  BY <1>1, WinChain DEF SessionOf, ActiveIn
<1>4. \A f \in Requests :
        SessionOf(f)' = IF f = Family(r) THEN "rotating" ELSE SessionOf(f)
  <2>1. \E t \in DOMAIN tokens : tokens[t].family = Family(r)
    BY <1>1, WinChain DEF ActiveIn
  <2> QED
    BY <1>2, <2>1, WinChain DEF SessionOf
<1> QED
  BY <1>1, <1>3, <1>4 DEF Chain!BeginRotation

LEMMA RotateSession ==
    ASSUME TypeInv, ChainInv, NEW r \in Requests, RefreshRotate(r)
    PROVE  \E f \in Requests : Chain!EndRotation(f)
<1>0. /\ Rotated(r) /\ Family(r) \in Requests
      /\ \E t \in DOMAIN tokens : tokens[t].family = Family(r)
  BY RotateEffect, Presented DEF Rotated, Family, TypeInv, TypeOK, TokenRow
<1>2. \A f \in Requests :
        (\A t \in DOMAIN tokens : tokens[t].family # f)'
          <=> \A t \in DOMAIN tokens : tokens[t].family # f
  BY <1>0 DEF Rotated
<1>3. SessionOf(Family(r)) = "rotating"
  BY <1>0, RotateChain DEF SessionOf
<1>4. \A f \in Requests : SessionOf(f)' = IF f = Family(r) THEN "live" ELSE SessionOf(f)
  BY <1>0, <1>2, RotateChain DEF SessionOf
<1> QED
  BY <1>0, <1>3, <1>4 DEF Chain!EndRotation

LEMMA IssueSession ==
    ASSUME TypeInv, ChainInv, NEW r \in Requests, LoginIssue(r)
    PROVE  Chain!Open(r)
<1>0. Opened(r)
  BY IssueEffect
<1>1. SessionOf(r) = "unopened"
  BY IssueChain DEF SessionOf
<1>2. \A f \in Requests : f # r =>
        ((\A t \in DOMAIN tokens : tokens[t].family # f)'
          <=> \A t \in DOMAIN tokens : tokens[t].family # f)
  BY <1>0 DEF Opened
<1>3. \A f \in Requests : SessionOf(f)' = IF f = r THEN "live" ELSE SessionOf(f)
  <2>1. \E t \in DOMAIN tokens' : tokens'[t].family = r
    BY <1>0 DEF Opened
  <2> QED
    BY <1>2, <2>1, IssueChain DEF SessionOf
<1> QED
  BY <1>1, <1>3 DEF Chain!Open

\* Whatever the interleaving of rotation, reuse detection, logout and
\* revocation, families behave as the sessions of SessionChain.
THEOREM SessionsAreChains == Spec => ImplementsSessionChain
<1>1. Init => Chain!Init
  BY InitSession
<1>2. TypeInv /\ TypeInv' /\ ChainInv /\ [Next]_vars => Chain!Next
  BY Kinds, QuietSession, WinSession, RotateSession, IssueSession DEF Chain!Next
<1>3. Spec => [](TypeInv /\ ChainInv)
  BY ChainAlways
<1> QED
  BY <1>1, <1>2, <1>3, PTL DEF Spec, Chain!Spec, ImplementsSessionChain

\* What SessionChain promises then holds of the code: a family with neither a
\* usable token nor a successor on its way never has one again.
THEOREM SessionsEndForGood == Spec => Chain!EndedForGood
<1> DEFINE Sessions == [f \in Requests |-> SessionOf(f)]
           Stays == \A f \in Requests : Sessions[f] = "ended" => Sessions'[f] = "ended"
<1>1. Chain!Next => Stays
  <2> SUFFICES ASSUME Chain!Next, NEW f \in Requests, Sessions[f] = "ended"
               PROVE  Sessions'[f] = "ended"
    OBVIOUS
  <2>1. ASSUME NEW g \in Requests, Chain!Open(g) \/ Chain!BeginRotation(g) \/ Chain!EndRotation(g)
        PROVE  Sessions'[f] = "ended"
    BY <2>1 DEF Chain!Open, Chain!BeginRotation, Chain!EndRotation
  <2>2. ASSUME NEW F \in SUBSET Requests, Chain!End(F)
        PROVE  Sessions'[f] = "ended"
    BY <2>2 DEF Chain!End
  <2> QED
    BY <2>1, <2>2 DEF Chain!Next
<1>2. Chain!Spec => [][Stays]_Sessions
  BY <1>1, PTL DEF Chain!Spec
<1>3. Spec => [][Stays]_Sessions
  BY <1>2, SessionsAreChains, PTL DEF ImplementsSessionChain
<1> QED
  BY <1>3, PTL DEF Chain!EndedForGood

\* The sessions screen has one entry per signed-in device.
THEOREM OneEntry == Spec => []OneEntryPerDevice
<1>1. TypeInv /\ OneLinkPerFamily => OneEntryPerDevice
  BY DEF TypeInv, TypeOK, TokenRow, OneLinkPerFamily, ActiveIn, IsRevoked,
         OneEntryPerDevice, FindActiveByUser
<1>2. Spec => [](TypeInv /\ OneLinkPerFamily)
  <2>1. TypeInv /\ ChainInv => TypeInv /\ OneLinkPerFamily
    BY DEF ChainInv
  <2> QED
    BY <2>1, ChainAlways, PTL
<1> QED
  BY <1>1, <1>2, PTL
=============================================================================
