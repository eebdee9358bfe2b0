---------------------------- MODULE SessionChain ----------------------------
(***************************************************************************)
(* What a refresh-token family promises, without tables or requests: a     *)
(* session is opened once, rotates one refresh at a time, and ends for     *)
(* good.                                                                   *)
(***************************************************************************)
CONSTANT Families

VARIABLE session

Init == session = [f \in Families |-> "unopened"]

Open(f) ==
    /\ session[f] = "unopened"
    /\ session' = [session EXCEPT ![f] = "live"]

BeginRotation(f) ==
    /\ session[f] = "live"
    /\ session' = [session EXCEPT ![f] = "rotating"]

EndRotation(f) ==
    /\ session[f] = "rotating"
    /\ session' = [session EXCEPT ![f] = "live"]

\* One statement may end several sessions.
End(F) ==
    /\ \A f \in F : session[f] \in {"live", "rotating"}
    /\ session' = [f \in Families |-> IF f \in F THEN "ended" ELSE session[f]]

Next ==
    \/ \E f \in Families : Open(f) \/ BeginRotation(f) \/ EndRotation(f)
    \/ \E F \in SUBSET Families : End(F)

Spec == Init /\ [][Next]_session

\* A session that has ended is never open again.
EndedForGood ==
    [][\A f \in Families : session[f] = "ended" => session'[f] = "ended"]_session
=============================================================================
