---------------------------- MODULE EventsGateway ----------------------------
(***************************************************************************)
(* The Socket.IO gateway (EventsGateway) behind the Redis adapter.  A      *)
(* socket is authenticated in the handshake, an await at a time; its       *)
(* principal is fixed there; rooms decide what it is sent.  Meanwhile the  *)
(* account is edited, tokens are revoked, and the client may leave.        *)
(*                                                                         *)
(* Events are published on one replica, reach its own sockets at once, and *)
(* those of the other replicas through Redis if Redis is there.            *)
(***************************************************************************)
EXTENDS UserEntity, RedisServer

CONSTANTS
    Sockets, Users, Tokens, Tenants, Events,
    Replicas,
    ReplicaOf,       \* the replica each socket connects to
    AccountEdits,    \* the edits of the accounts in a run
    AccessTtl,       \* jwt.accessTtlS
    MaxTokenVersion  \* bound on the edits of an account

ASSUME GatewayAssumption ==
    /\ ReplicaOf \in [Sockets -> Replicas]
    /\ AccountEdits \subseteq Edits
    /\ AccessTtl \in Nat /\ MaxTokenVersion \in Nat

VARIABLES
    account,    \* the users table
    signed,     \* the access tokens issued
    denied,     \* the last tick of each token's denylist key
    at,         \* where each socket is
    held,       \* the token of each socket's handshake
    principal,  \* socket[PRINCIPAL]
    rooms,      \* the rooms each socket is in
    gauge,      \* websocket_connections of each replica
    emitted,    \* the events published
    wire,       \* the events Redis has still to deliver to a replica
    received,   \* the events each socket was sent
    dead        \* for the properties: whether the token was dead at the knock

accountVars == <<account, signed, denied>>
socketVars == <<at, held, principal, rooms, gauge, dead>>
eventVars == <<emitted, wire, received>>
gatewayVars == <<accountVars, socketVars, eventVars>>

Room == ({"user"} \X Users) \cup ({"tenant"} \X Tenants)

Handshakes == {"denylist", "snapshot", "admitted"}

SocketAt(s, point) == at[s] = point
Move(s, point) == at' = [at EXCEPT ![s] = point]

\* verifyAccessToken: the signature and the expiry.
Verified(t) == t \in DOMAIN signed /\ clock < signed[t].exp

\* What the snapshot of the account says of a token's claims.
Rejected(t) ==
    LET user == account[signed[t].user] IN
    user.deleted \/ user.tokenVersion # signed[t].tv \/ user.status # "ACTIVE"

\* A denylist that fails open.
DenylistHasOpen(t) == IF redisUp THEN Lives(denied[t]) ELSE FALSE

DenylistHas(t) == IF redisUp THEN Lives(denied[t]) ELSE TRUE

-----------------------------------------------------------------------------
(* What happens around the gateway: logins, logouts, edits (AuthSessions). *)

Sign(t, user) ==
    /\ t \notin DOMAIN signed
    /\ CanAuthenticate(account[user])
    /\ signed' = [k \in DOMAIN signed \cup {t} |->
            IF k = t THEN [user |-> user, tv |-> account[user].tokenVersion,
                           exp |-> clock + AccessTtl]
            ELSE signed[k]]
    /\ UNCHANGED <<account, denied, socketVars, eventVars, redisVars>>

\* denylist.add, until the token expires.
Deny(t) ==
    /\ Verified(t)
    /\ redisUp
    /\ denied' = [denied EXCEPT ![t] = signed[t].exp]
    /\ UNCHANGED <<account, signed, socketVars, eventVars, redisVars>>

EditAccount(user, edit) ==
    /\ account[user].tokenVersion < MaxTokenVersion
    /\ account' = [account EXCEPT ![user] = ApplyEdit(@, edit)]
    /\ UNCHANGED <<signed, denied, socketVars, eventVars, redisVars>>

-----------------------------------------------------------------------------
(* afterInit and authenticate: the namespace middleware *)

\* The handshake, up to the first await that reads anything shared.  The
\* token is Null when none is supplied.
Knock(s, t) ==
    /\ SocketAt(s, "absent")
    /\ held' = [held EXCEPT ![s] = t]
    /\ Move(s, IF Verified(t) THEN "denylist" ELSE "refused")
    /\ dead' = [dead EXCEPT ![s] = Verified(t) => Lives(denied[t]) \/ Rejected(t)]
    /\ UNCHANGED <<accountVars, principal, rooms, gauge, eventVars, redisVars>>

CheckDenylist(s) ==
    /\ SocketAt(s, "denylist")
    /\ Move(s, IF DenylistHas(held[s]) THEN "refused" ELSE "snapshot")
    /\ UNCHANGED <<accountVars, held, principal, rooms, gauge, dead, eventVars, redisVars>>

\* An authenticate that counts the connection.
CheckAccountCounts(s) ==
    /\ SocketAt(s, "snapshot")
    /\ IF Rejected(held[s]) THEN Move(s, "refused") /\ UNCHANGED <<principal, gauge>>
       ELSE /\ Move(s, "admitted")
            /\ principal' = [principal EXCEPT ![s] =
                    [user |-> signed[held[s]].user, admin |-> account[signed[held[s]].user].admin]]
            /\ gauge' = [gauge EXCEPT ![ReplicaOf[s]] = @ + 1]
    /\ UNCHANGED <<accountVars, held, rooms, dead, eventVars, redisVars>>

\* The principal of a socket belongs to no tenant.
CheckAccount(s) ==
    /\ SocketAt(s, "snapshot")
    /\ IF Rejected(held[s]) THEN Move(s, "refused") /\ UNCHANGED principal
       ELSE /\ Move(s, "admitted")
            /\ principal' = [principal EXCEPT ![s] =
                    [user |-> signed[held[s]].user, admin |-> account[signed[held[s]].user].admin]]
    /\ UNCHANGED <<accountVars, held, rooms, gauge, dead, eventVars, redisVars>>

\* next(), and handleConnection.
Connect(s) ==
    /\ SocketAt(s, "admitted")
    /\ Move(s, "open")
    /\ rooms' = [rooms EXCEPT ![s] = {<<"user", principal[s].user>>}]
    /\ gauge' = [gauge EXCEPT ![ReplicaOf[s]] = @ + 1]
    /\ UNCHANGED <<accountVars, held, principal, dead, eventVars, redisVars>>

-----------------------------------------------------------------------------
(* An open socket *)

\* The client is gone during the handshake: handleConnection never runs.
Abandon(s) ==
    /\ at[s] \in Handshakes
    /\ Move(s, "gone")
    /\ UNCHANGED <<accountVars, held, principal, rooms, gauge, dead, eventVars, redisVars>>

\* handleDisconnect
Disconnect(s) ==
    /\ SocketAt(s, "open")
    /\ Move(s, "gone")
    /\ rooms' = [rooms EXCEPT ![s] = {}]
    /\ gauge' = [gauge EXCEPT ![ReplicaOf[s]] = @ - 1]
    /\ UNCHANGED <<accountVars, held, principal, dead, eventVars, redisVars>>

\* A handleSubscribe that trusts the request.
MaySubscribeAll(s) == TRUE

\* tenantIds is empty, so only platform admins may.
MaySubscribe(s) == principal[s].admin

\* handleSubscribe
Subscribe(s, tenant) ==
    /\ SocketAt(s, "open")
    /\ MaySubscribe(s)
    /\ rooms' = [rooms EXCEPT ![s] = @ \cup {<<"tenant", tenant>>}]
    /\ UNCHANGED <<accountVars, at, held, principal, gauge, dead, eventVars, redisVars>>

-----------------------------------------------------------------------------
(* emitToUser, emitToTenant and the Redis adapter *)

\* The sockets of a replica in the event's room are sent it.
SendLocally(replica, event) ==
    received' = [s \in Sockets |->
        IF ReplicaOf[s] = replica /\ event.room \in rooms[s]
        THEN received[s] \cup {event} ELSE received[s]]

Emit(replica, id, room) ==
    LET event == [id |-> id, room |-> room] IN
    /\ \A e \in emitted : e.id # id
    /\ emitted' = emitted \cup {event}
    /\ SendLocally(replica, event)
    /\ wire' = IF redisUp THEN wire \cup ((Replicas \ {replica}) \X {event}) ELSE wire
    /\ UNCHANGED <<accountVars, socketVars, redisVars>>

Deliver(message) ==
    /\ message \in wire
    /\ SendLocally(message[1], message[2])
    /\ wire' = wire \ {message}
    /\ UNCHANGED <<accountVars, socketVars, emitted, redisVars>>

\* Redis keeps nothing for a subscriber it has lost.
Lose(message) ==
    /\ message \in wire
    /\ ~redisUp
    /\ wire' = wire \ {message}
    /\ UNCHANGED <<accountVars, socketVars, emitted, received, redisVars>>

-----------------------------------------------------------------------------
GatewayInit ==
    /\ account \in [Users -> {[status |-> "ACTIVE", password |-> p, outdated |-> FALSE,
                               admin |-> admin, deleted |-> FALSE, tokenVersion |-> 0,
                               version |-> 0, lastLogin |-> 0] :
                                  p \in Passwords, admin \in BOOLEAN}]
    /\ signed = [t \in {} |-> Null]
    /\ denied = [t \in Tokens |-> Never]
    /\ at = [s \in Sockets |-> "absent"]
    /\ held = [s \in Sockets |-> Null]
    /\ principal = [s \in Sockets |-> Null]
    /\ rooms = [s \in Sockets |-> {}]
    /\ gauge = [r \in Replicas |-> 0]
    /\ emitted = {} /\ wire = {}
    /\ received = [s \in Sockets |-> {}]
    /\ dead = [s \in Sockets |-> FALSE]

HandshakeStep(s) == CheckDenylist(s) \/ CheckAccount(s) \/ Connect(s)

GatewayNext ==
    \/ \E t \in Tokens, u \in Users : Sign(t, u)
    \/ \E t \in Tokens : Deny(t)
    \/ \E u \in Users, edit \in AccountEdits : EditAccount(u, edit)
    \/ \E s \in Sockets :
        \/ \E t \in Tokens \cup {Null} : Knock(s, t)
        \/ HandshakeStep(s) \/ Abandon(s) \/ Disconnect(s)
        \/ \E tenant \in Tenants : Subscribe(s, tenant)
    \/ \E r \in Replicas, id \in Events, room \in Room : Emit(r, id, room)
    \/ \E m \in wire : Deliver(m) \/ Lose(m)

GatewaySpec ==
    /\ RedisInit /\ GatewayInit
    /\ [][\/ GatewayNext
          \/ (Tick \/ RedisFlip) /\ UNCHANGED gatewayVars]_<<redisVars, gatewayVars>>
=============================================================================
