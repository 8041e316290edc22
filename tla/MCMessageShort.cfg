CONSTANTS
  Platforms <- PodOnly
  Samples = {1, 2}
SPECIFICATION MessageSpec
INVARIANTS
  RoundTrip
