----------------------------- MODULE ServerLife -----------------------------
(***************************************************************************)
(* What a server promises its clients, without handlers, hooks or signals: *)
(* it takes clients in while its port is open, lets each of them go once,  *)
(* and stops with success only after it has closed the port and everyone   *)
(* has gone.  Closed, it takes in nobody; stopped, it does nothing.        *)
(***************************************************************************)
CONSTANT Clients

VARIABLES
    port,       \* open, closed; or how the server stopped: clean, failed
    client      \* away, waiting, gone

Init ==
    /\ port = "open"
    /\ client = [r \in Clients |-> "away"]

Come(r) ==
    /\ port = "open" /\ client[r] = "away"
    /\ client' = [client EXCEPT ![r] = "waiting"]
    /\ UNCHANGED port

\* The client is answered, or leaves.
Go(r) ==
    /\ port \in {"open", "closed"} /\ client[r] = "waiting"
    /\ client' = [client EXCEPT ![r] = "gone"]
    /\ UNCHANGED port

Close ==
    /\ port = "open"
    /\ port' = "closed"
    /\ UNCHANGED client

StopClean ==
    /\ port = "closed" /\ \A r \in Clients : client[r] # "waiting"
    /\ port' = "clean"
    /\ UNCHANGED client

Fail ==
    /\ port \in {"open", "closed"}
    /\ port' = "failed"
    /\ UNCHANGED client

Next ==
    \/ \E r \in Clients : Come(r) \/ Go(r)
    \/ Close \/ StopClean \/ Fail

Spec == Init /\ [][Next]_<<port, client>>
=============================================================================
