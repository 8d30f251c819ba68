SPECIFICATION Spec
CONSTANTS
  Users = {u1}
  Requests = {q1, q2}
  Confirms = {c1, c2}
  Cancels = {k1}
  Ttl = 1
  MaxTime = 2
  Interleave = FALSE
  None = None
SYMMETRY Symmetry
CHECK_DEADLOCK FALSE
INVARIANTS
  DeletedOnce
  DeletedIsNotified
PROPERTY
  FollowsLifecycle
