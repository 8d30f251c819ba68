SPECIFICATION Spec
CONSTANTS
  Registrations = {r1, r2, r3}
  Names = {"Ann", "ann", "bob"}
  Mails = {m1, m2}
  Fold <- FoldCase
  MaxFaults = 1
SYMMETRY Symmetry
CHECK_DEADLOCK FALSE
INVARIANTS
  StrandedOnlyByFault
  LoserHasWinner
