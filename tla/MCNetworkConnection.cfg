SPECIFICATION Spec
CONSTANTS
  topic1 = topic1
  topic2 = topic2
  Topics <- MCTopics
  MaxInFlight = 5
  PayloadLength = 4
  ClearedLength = 2
  MaxPublishes = 2
INVARIANTS
  TypeOK
  ServedMeansSubscribed
  CommandsAreWhole
PROPERTIES
  StrayOnlyAtTheEnd
  LoopReturns
