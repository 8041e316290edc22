SPECIFICATION Spec
CONSTANTS
  QueueLength = 4
  AgeLimit = 3
PROPERTIES
  PacketsAreFrames
  ReportsAreRecent
