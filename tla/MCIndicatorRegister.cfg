SPECIFICATION Spec
CONSTANTS
  sonarR1 = sonarR1
  NumBits = 3
  LED_IDX = 1
  Sonars <- MCSonars
  ConnectedIdx <- MCConnectedIdx
PROPERTIES
  CleanWriteShows
  IndicatorsSettle
