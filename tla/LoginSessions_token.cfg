SPECIFICATION Spec
CONSTANTS
  Users = {u1}
  Attempts = {a1}
  Tokens = {t1}
  Resets = {r1, r2}
  Threshold = 2
  LockoutTime = 1
  SessionTtl = 2
  TokenTtl = 1
  MaxTime = 2
SYMMETRY Symmetry
CHECK_DEADLOCK FALSE
INVARIANT TokenUsedOnce
