CONSTANTS
  NUM_SENSOR_GROUPS = 1
  MaxLength <- Lengths
  KeyLength = 2
  PageSize = 8
  Settable <- SomeFields
  Strings <- Typed
SPECIFICATION UserDataSpec
INVARIANTS
  UserDataTypeOK
  ChangeIsWrittenOrDropped
PROPERTIES
  BootIsAllOrNothing
