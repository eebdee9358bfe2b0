----------------------- MODULE AuthSessionsProperties -----------------------
(***************************************************************************)
(* What the sessions of AuthSessions promise.                              *)
(***************************************************************************)
EXTENDS AuthSessions

\* Every variable has its type: a request past its first await has a command,
\* one that holds an entity has loaded it, and every token belongs to a
\* request that drew it.
TypeOK ==
    /\ users \in [Users -> UserRow]
    /\ DOMAIN tokens \subseteq Requests /\ tokens \in [DOMAIN tokens -> TokenRow]
    /\ DOMAIN access \subseteq Requests /\ access \in [DOMAIN access -> AccessToken]
    /\ DOMAIN denylist \subseteq Requests /\ denylist \in [DOMAIN denylist -> Nat]
    /\ redisUp \in BOOLEAN /\ clock \in Nat
    /\ pc \in [Requests -> {"idle"} \cup Running \cup Finished]
    /\ DOMAIN cmd = {r \in Requests : pc[r] # "idle"}
    /\ cmd \in [DOMAIN cmd -> Command]
    /\ DOMAIN loaded \subseteq DOMAIN cmd /\ loaded \in [DOMAIN loaded -> UserRow]
    /\ now \in [Requests -> Nat]

-----------------------------------------------------------------------------
(* Refresh-token rotation *)

\* A refresh that has consumed its token and not yet issued the successor.
Rotating(r) == pc[r] \in {"load", "rotate"}

Family(r) == tokens[cmd[r].token].family

ActiveIn(f) == {t \in DOMAIN tokens : tokens[t].family = f /\ ~IsRevoked(tokens[t])}

RotatingIn(f) == {r \in Requests : Rotating(r) /\ Family(r) = f}

\* A session is one chain: at any moment a family has at most one token that
\* can still be used, counting a successor on its way.
\* (refresh-tokens.usecase.ts, consume and create under concurrency.)
OneLinkPerFamily ==
    \A f \in Requests : \A a, b \in ActiveIn(f) \cup RotatingIn(f) : a = b

\* auth.controller.ts, sessions: the screen lists one entry per signed-in
\* device, so never two rows of one family.
OneEntryPerDevice ==
    \A u \in Users : \A a, b \in FindActiveByUser(tokens, u, clock) :
        tokens[a].family = tokens[b].family => a = b

\* A refresh token works once: no two refreshes issued a successor for the
\* same token, however their awaits interleaved.
SingleUse ==
    \A q, r \in DOMAIN tokens :
        /\ cmd[q].op = "refresh" /\ cmd[r].op = "refresh"
        /\ cmd[q].token = cmd[r].token
        => q = r

\* The first revocation of a token is final and its reason is kept: a logout
\* or a reuse detected later does not rewrite the evidence.
FirstRevocationWins ==
    [][\A t \in DOMAIN tokens : IsRevoked(tokens[t]) => tokens'[t] = tokens[t]]_vars

-----------------------------------------------------------------------------
(* The abstract session *)

\* A family seen as a SessionChain session.
SessionOf(f) ==
    IF \A t \in DOMAIN tokens : tokens[t].family # f THEN "unopened"
    ELSE IF ActiveIn(f) # {} THEN "live"
    ELSE IF RotatingIn(f) # {} THEN "rotating"
    ELSE "ended"

Chain == INSTANCE SessionChain
            WITH Families <- Requests, session <- [f \in Requests |-> SessionOf(f)]

\* Rotation, reuse detection and every way of ending a session, interleaved,
\* behave as the chain of SessionChain: no family is opened twice, forks, or
\* comes back once it has neither a usable token nor a successor on its way.
ImplementsSessionChain == Chain!Spec

-----------------------------------------------------------------------------
(* Accounts and access tokens *)

\* The optimistic lock holds the token version: no save, whatever it read,
\* takes it back to a value some access token may still carry.
TokenVersionNeverBack ==
    [][\A u \in Users : users'[u].tokenVersion >= users[u].tokenVersion]_vars

\* The stored password changes only from the one the caller proved to the one
\* the caller chose, or to none when the account is erased: a rehash or an
\* edit that read the row earlier cannot bring an old password back.
PasswordOnlyByVerifiedChange ==
    [][\A u \in Users :
         users'[u].password # users[u].password =>
            \/ /\ users'[u].deleted /\ users'[u].password = Null
            \/ \E r \in DOMAIN cmd :
                 /\ cmd[r].op = "changePassword" /\ cmd[r].user = u
                 /\ pc[r] = "savePassword"
                 /\ cmd[r].password = users[u].password
                 /\ cmd[r].newPassword = users'[u].password]_vars

\* A change of password or of platform privilege rejects every access token
\* of the account signed so far, and the ones signed later by requests that
\* had read the account before.
CredentialChangeKillsTokens ==
    [][\A u \in Users :
         \/ users'[u].password # users[u].password
         \/ users'[u].admin # users[u].admin
         => /\ \A a \in DOMAIN access :
                 access[a].user = u => access[a].tv # users'[u].tokenVersion
            /\ \A r \in DOMAIN loaded :
                 cmd[r].user = u => loaded[r].tokenVersion # users'[u].tokenVersion]_vars

\* An access token rejected because of its account stays rejected: neither
\* re-activating a suspended account nor any other write brings it back.
RejectedStaysRejected ==
    [][\A a \in DOMAIN access : ~Accepts(a) => ~Accepts(a)']_vars

\* A request between reading an account and signing a token for it.
Preparing(r) == pc[r] \in {"rehash", "issue", "rotate"}

\* A request seen as a grant of AccessGrants, by the token it signed or is
\* about to sign.
GrantOf(r) ==
    IF r \in DOMAIN access THEN IF Accepts(r) THEN "honoured" ELSE "rejected"
    ELSE IF ~Preparing(r) THEN "none"
    ELSE IF loaded[r].tokenVersion = users[cmd[r].user].tokenVersion THEN "prepared"
    ELSE "stale"

HolderOf(r) ==
    IF r \in DOMAIN access THEN access[r].user
    ELSE IF Preparing(r) THEN cmd[r].user
    ELSE Null

Grants == INSTANCE AccessGrants
            WITH Accounts <- Users, Grants <- Requests, Nobody <- Null,
                 Credentials <- [password : Passwords \cup {Null}, admin : BOOLEAN],
                 credentials <- [u \in Users |-> [password |-> users[u].password,
                                                 admin    |-> users[u].admin]],
                 inService <- [u \in Users |-> /\ users[u].status = "ACTIVE"
                                               /\ ~users[u].deleted],
                 grant <- [r \in Requests |-> GrantOf(r)],
                 holder <- [r \in Requests |-> HolderOf(r)]

\* Logins, refreshes, saves of stale entities, edits and password changes,
\* interleaved, behave as AccessGrants: what was signed, or read in order to
\* sign, before a change of credentials or a suspension is rejected for good
\* (revokeIssuedTokens, the optimistic lock, JwtStrategy.validate).
ImplementsAccessGrants == Grants!Spec

\* The logouts of access token a that ended at one of the given points.
LoggedOutAt(a, points) ==
    \E q \in DOMAIN cmd : /\ cmd[q].op \in {"logout", "logoutAll"}
                          /\ cmd[q].jti = a
                          /\ pc[q] \in points

\* A logout that left the denylist key of a, or came after the token's life.
KeyLeft(a) == LoggedOutAt(a, {"done"})

\* A logout of a answered with success: the catch of denylistAccessToken makes
\* it also of one whose key Redis did not take.
SignedOut(a) == LoggedOutAt(a, {"done", "undenied"})

\* A token whose logout left its denylist key passes the denylist check of no
\* later request within its lifetime, whether Redis answers, fails or comes
\* back meanwhile.  (A logout whose key was not taken: SignedOutIsRejected.)
DenylistHonoured ==
    [][\A r \in DOMAIN cmd :
         /\ pc[r] = "denylist" /\ pc'[r] = "snapshot"
         /\ KeyLeft(cmd[r].jti)
         => access[cmd[r].jti].exp <= clock]_vars

-----------------------------------------------------------------------------
(* What the documents say, and the code does not do *)

\* docs/AUTH.md: a token presented twice has the entire family destroyed.
ReuseDestroysFamily ==
    \A r \in Requests : pc[r] = "reused" => ActiveIn(Family(r)) = {}

\* token-denylist.service.ts, add: a failed logout must not report success, or
\* the client shows "signed out" while the token stays valid until it expires.
\* The bearer guard rejects every live token whose logout was answered so.
SignedOutIsRejected ==
    \A a \in DOMAIN access :
        SignedOut(a) /\ clock < access[a].exp => DenylistHas(a) \/ ~Accepts(a)

=============================================================================
