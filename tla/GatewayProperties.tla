-------------------------- MODULE GatewayProperties --------------------------
(***************************************************************************)
(* What the gateway promises.                                              *)
(***************************************************************************)
EXTENDS EventsGateway, FiniteSets

\* A token that was revoked, or rejected by the account, when the handshake
\* began opens no socket, whatever is edited, lost or delayed between the
\* checks: an account that is suspended and active again, a Redis that is
\* gone.  (authenticate.)  Unless it has expired since: then its denylist key
\* may be gone before it is looked up.
NoDeadTokenAdmitted ==
    \A s \in Sockets : at[s] = "open" /\ dead[s] => clock >= signed[held[s]].exp

\* The gauge of a replica counts its open sockets, although a client may go
\* at any point of the handshake (handleConnection, handleDisconnect).
GaugeCountsOpenSockets ==
    \A r \in Replicas :
        gauge[r] = Cardinality({s \in Sockets : ReplicaOf[s] = r /\ SocketAt(s, "open")})

\* A socket is only ever sent the events of its own user, and of tenants if
\* its user was a platform admin when it connected: also those another
\* replica published, and whatever it asked to join.
OnlyOwnEvents ==
    \A s \in Sockets : \A e \in received[s] :
        \/ e.room = <<"user", signed[held[s]].user>>
        \/ e.room[1] = "tenant" /\ principal[s].admin

=============================================================================
