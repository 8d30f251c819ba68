SPECIFICATION PageSpec
CONSTANTS
  Accounts = {a1, a2}
  NoAccount = NoAccount
  Ttl = 1
  MaxTime = 2
  MaxVisits = 2
  MaxLost = 1
CHECK_DEADLOCK FALSE
INVARIANTS
  PageTypeOK
  TokenLeftOnlyByLateAnswer
  PendingIsFromEarlierVisit
PROPERTIES
  SignedOutWhenDeleted
  BusyEnds
