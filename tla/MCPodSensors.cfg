SPECIFICATION PodSpec
CONSTANT
  WatchdogTurns = 2
INVARIANTS
  ActiveIsMeasuring
PROPERTIES
  SCD30GivesData
  StemmaGivesData
