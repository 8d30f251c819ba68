SPECIFICATION Spec
CONSTANTS
  Users = {u1}
  Attempts = {a1, a2, a3}
  Tokens = {t1}
  Resets = {r1}
  Threshold = 2
  LockoutTime = 1
  SessionTtl = 2
  TokenTtl = 1
  MaxTime = 2
SYMMETRY Symmetry
CHECK_DEADLOCK FALSE
INVARIANTS
  StaleSessionOnlyByRace
  ThresholdFailureLocks
PROPERTY
  LockedLoginOnlyByRace
