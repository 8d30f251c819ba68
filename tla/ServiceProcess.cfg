SPECIFICATION Spec
CONSTANTS
  Servers = {s1, s2}
  Clis = {c1}
  Files = {1, 2, 3}
  MaxReqs = 1
  MaxPolls = 1
  MaxStarts = 3
  MaxKills = 1
CHECK_DEADLOCK FALSE
INVARIANTS
  StartFailsOnlyByRace
  CrashOnlyByLatePoll
PROPERTIES
  ShutdownEnds
  SchemaCompletes
