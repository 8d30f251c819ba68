SPECIFICATION Spec
CONSTANTS
  Tabs = {b1, b2}
  Users = {u1, u2}
  Tokens = {t1, t2}
  None = None
  Registered = {{u1}, {u1, u2}}
  MaxCalls = 3
  MaxAtOnce = 2
  MaxMoves = 1
CHECK_DEADLOCK FALSE
INVARIANTS
  TypeOK
  ProfileIsOwner
  NoSessionLeftBehind
  PendingIsReachable
PROPERTY
  LoadingEnds
