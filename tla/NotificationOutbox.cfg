SPECIFICATION Spec
CONSTANTS
  N = 2
  Polls = {p1, p2}
  MaxRetries = 1
  MaxRestarts = 1
INVARIANTS
  MailBound
PROPERTIES
  SettledIsFinal
  KeepsPromise
CHECK_DEADLOCK FALSE
