CONSTANTS
  Platforms <- Both
  Samples = {1}
SPECIFICATION MessageSpec
INVARIANTS
  MessageTypeOK
  RoundTripBehindData
