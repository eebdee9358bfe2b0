CONSTANTS
  Null = Null
  Unset = Unset
  r1 = r1
  r2 = r2
  s1 = s1
  s2 = s2
  k1 = k1
  k2 = k2
  u1 = u1
  u2 = u2
  n1 = n1
  e1 = e1
  instance1 = instance1
  instance2 = instance2
  pw = pw
  Environments <- OnlyPlain
  Requests <- TwoRequests
  Routes = {"ready", "create"}
  HandlerErrors = {"infrastructure"}
  MaxSignals = 2
  CrashesOccur = TRUE
  Passwords <- OnePassword
  MaxClock = 1
  RedisMayFail = TRUE
  Sockets = {s1, s2}
  Users = {u1, u2}
  Tokens = {k1, k2}
  Tenants = {n1}
  Events = {e1}
  Replicas <- TwoReplicas
  ReplicaOf <- OneEach
  AccountEdits = {"suspend", "activate", "revoke"}
  AccessTtl = 1
  MaxTokenVersion = 1
SPECIFICATION MCProcessSpec
CHECK_DEADLOCK FALSE
INVARIANTS
  CrashExitsNonZero
