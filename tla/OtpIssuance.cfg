SPECIFICATION Spec
CONSTANTS
  Users = {u1}
  Sends = {s1, s2, s3, s4}
  Verifies = {v1, v2}
  MaxAttempts = 2
  Window = 2
  Ttl = 1
  MaxTime = 2
  MaxFaults = 1
  Nobody = Nobody
SYMMETRY Symmetry
ACTION_CONSTRAINT FewEvents
CHECK_DEADLOCK FALSE
INVARIANTS
  ActiveIsNewest
  CodeSurvives
  CodeUsedOnce
  QuotaPerWindow
  CounterExpires
