SPECIFICATION SensorsSpec
CONSTANTS
  Outcomes <- AnyOutcome
  CacheTime = 20
  WatchdogTime = 30
  SleepTime = 1
  MaxTurn = 2
  SamplePeriod = 10
  ChargePeriod = 0
INVARIANT
  ConnectedDataIsFresh
PROPERTIES
  DataIsKept
  LaterResetsAfterSilence
  FailingSensorIsReset
  VoltageIsKept
  VoltageIsNeverDropped
  ChargedInTime
