--------------------------- MODULE MCAuthSessions ---------------------------
(***************************************************************************)
(* Instances of AuthSessions for TLC.                                      *)
(***************************************************************************)
EXTENDS AuthSessionsProperties, TLC

CONSTANTS r1, r2, r3, r4, u1, p1, p2

ThreeRequests == {r1, r2, r3}
FourRequests == {r1, r2, r3, r4}
OneUser == {u1}
OnePassword == {p1}
TwoPasswords == {p1, p2}

RotationOps == {"login", "refresh", "logout"}
RefreshOps == {"login", "refresh"}
LogoutOps == {"login", "logout", "access"}

\* Requests are only named by the tables, and passwords only compared.
Symmetry == Permutations(Requests) \cup Permutations(Passwords)
=============================================================================
