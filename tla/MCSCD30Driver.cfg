SPECIFICATION DriverSpec
CONSTANTS
  Texts <- MCTexts
  Noise <- MCNoise
  Measurements <- MCMeasurements
  Location <- MCLocation
  MaxCommands = 1
INVARIANTS
  AnswersAreExact
  TransfersHaveABus
PROPERTY
  CalibrationIsWhatWasSent
