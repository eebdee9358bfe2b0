---------------------------- MODULE AccessGrants ----------------------------
(***************************************************************************)
(* What access tokens promise, without versions, locks or stale reads: a   *)
(* token is prepared for an account in service, and honoured until the     *)
(* account's credentials change or it leaves service.  What was prepared   *)
(* before such a change is worth nothing after it, granted or not, and     *)
(* reopening the account brings nothing back.                              *)
(***************************************************************************)
CONSTANTS Accounts, Credentials, Grants, Nobody

VARIABLES
    credentials,    \* the credentials of each account
    inService,      \* whether each account is in service
    grant,          \* none, prepared, stale, honoured, rejected
    holder          \* the account each grant is for

accounts == <<credentials, inService>>

Init ==
    /\ credentials \in [Accounts -> Credentials]
    /\ inService \in [Accounts -> BOOLEAN]
    /\ grant = [g \in Grants |-> "none"]
    /\ holder = [g \in Grants |-> Nobody]

Prepare(g, u) ==
    /\ grant[g] = "none" /\ inService[u]
    /\ grant' = [grant EXCEPT ![g] = "prepared"]
    /\ holder' = [holder EXCEPT ![g] = u]
    /\ UNCHANGED accounts

Abandon(g) ==
    /\ grant[g] \in {"prepared", "stale"}
    /\ grant' = [grant EXCEPT ![g] = "none"]
    /\ holder' = [holder EXCEPT ![g] = Nobody]
    /\ UNCHANGED accounts

\* A grant prepared too early is given all the same, and rejected.
Give(g) ==
    /\ grant[g] \in {"prepared", "stale"}
    /\ grant' = [grant EXCEPT ![g] = IF @ = "prepared" THEN "honoured" ELSE "rejected"]
    /\ UNCHANGED <<accounts, holder>>

Outdated(state) ==
    CASE state = "prepared" -> "stale"
      [] state = "honoured" -> "rejected"
      [] OTHER              -> state

\* Anything may change, at the price of all grants of the account.
Change(u) ==
    /\ \E c \in Credentials, s \in BOOLEAN :
         /\ credentials' = [credentials EXCEPT ![u] = c]
         /\ inService' = [inService EXCEPT ![u] = s]
    /\ grant' = [g \in Grants |-> IF holder[g] = u THEN Outdated(grant[g]) ELSE grant[g]]
    /\ UNCHANGED holder

Reopen(u) ==
    /\ ~inService[u]
    /\ inService' = [inService EXCEPT ![u] = TRUE]
    /\ UNCHANGED <<credentials, grant, holder>>

Next ==
    \/ \E g \in Grants : Abandon(g) \/ Give(g) \/ \E u \in Accounts : Prepare(g, u)
    \/ \E u \in Accounts : Change(u) \/ Reopen(u)

Spec == Init /\ [][Next]_<<accounts, grant, holder>>
=============================================================================
