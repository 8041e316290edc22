CONSTANTS
  DebugPrint = TRUE
  SettingsChange = TRUE
SPECIFICATION LocksSpec
INVARIANTS
  FlashIsWrittenAlone
  OnlyTwoDeadlocks
PROPERTIES
  LoopsKeepRunning
CHECK_DEADLOCK FALSE
