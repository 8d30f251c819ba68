SPECIFICATION Spec
CONSTANTS
  Users = {u1}
  Activations = {a1}
  Resends = {r1}
  Polls = {p1, p2}
  MaxRetries = 1
  MaxCrashes = 1
  Nobody = Nobody
CHECK_DEADLOCK FALSE
PROPERTIES
  SettledIsFinal
  DeletedForGood
  Settles
